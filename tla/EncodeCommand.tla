--------------------------- MODULE EncodeCommand ---------------------------
(***************************************************************************)
(* Which ffmpeg command a file is encoded with: the encoders of            *)
(* internal/ffmpeg/hwaccel.go, their settings and BuildPresetArgs of       *)
(* internal/ffmpeg/presets.go.                                             *)
(*                                                                         *)
(* Data.  A command is reduced to what decides whether it can run and what *)
(* comes out: the encoder, the filters in their order, where the decoded   *)
(* frames are, and the value given to the encoder's quality flag.  Bit     *)
(* rate modifiers are in thousandths.  Audio, subtitles and colour         *)
(* metadata do not depend on the choices made here and are left out.       *)
(***************************************************************************)
EXTENDS Integers, Sequences

HWAccel == {"videotoolbox", "nvenc", "qsv", "vaapi", "none"}
Codec   == {"hevc", "av1"}

priority == <<"videotoolbox", "nvenc", "qsv", "vaapi", "none">>
Rank(accel) == CHOOSE i \in 1 .. Len(priority) : priority[i] = accel

\* Of a source: its codec, whether it has ten bits or more, and whether its profile
\* is a simple one.
Video == [codec : {"h264", "vc1", "wmv3", "mpeg4", "other"},
          tenBit : BOOLEAN, simple : BOOLEAN]

-----------------------------------------------------------------------------
(* Encoders.                                                               *)

\* GetBestEncoderForCodec; usable is what DetectEncoders found to work.
GetBestEncoder(usable) ==
    LET found == usable \cup {"none"}
    IN  CHOOSE a \in found : \A b \in found : Rank(a) <= Rank(b)

\* Mutant: software is a fallback only where ffmpeg lists it.
ListedFallbacks(accel, usable) ==
    IF accel = "none" THEN {} ELSE {b \in usable : Rank(b) > Rank(accel)}

\* The encoders behind one in the order of GetFallbackEncoder: software is always there.
Fallbacks(accel, usable) ==
    IF accel = "none" THEN {} ELSE {b \in usable \cup {"none"} : Rank(b) > Rank(accel)}

GetFallbackEncoder(accel, usable) ==
    CHOOSE b \in Fallbacks(accel, usable) :
        \A c \in Fallbacks(accel, usable) : Rank(b) <= Rank(c)

RequiresSoftwareDecode(video, accel) ==
    \/ accel \in {"videotoolbox", "qsv", "vaapi"} /\ video.codec = "h264" /\ video.tenBit
    \/ accel \in {"qsv", "vaapi"} /\ video.codec \in {"vc1", "wmv3"}
    \/ accel = "qsv" /\ video.codec = "mpeg4" /\ ~video.simple
    \/ accel = "nvenc" /\ video.codec = "vc1"

\* encoderConfigs: VideoToolbox is given a bit rate; three encoders have a scaler of
\* their own, and two take only frames that were uploaded.
UsesBitrate == {"videotoolbox"}
HasScaler   == {"nvenc", "qsv", "vaapi"}
NeedsUpload == {"qsv", "vaapi"}

CrfRange(codec) == IF codec = "hevc" THEN [min |-> 16, max |-> 30] ELSE [min |-> 18, max |-> 35]
ModRange(codec) == IF codec = "hevc" THEN [min |-> 50, max |-> 800] ELSE [min |-> 50, max |-> 700]

-----------------------------------------------------------------------------
(* BuildPresetArgs.  opts: encoder, codec, softwareDecode, tonemap, resize  *)
(* (BOOLEAN), quality (0 for none), mod (0 for none), kbps of the source    *)
(* (0 if not known).                                                        *)

\* Tone mapping is done on the CPU and turns hardware decoding off.
DecodesInSoftware(opts) == opts.encoder = "none" \/ opts.softwareDecode \/ opts.tonemap

If(condition, filters) == IF condition THEN filters ELSE <<>>

\* Mutant: frames are uploaded before the CPU scales them.
FilterChainUploadFirst(opts) ==
    LET upload == If(opts.encoder \in NeedsUpload, <<"format", "upload">>)
        scale  == If(opts.resize, <<"scale">>)
    IN  CASE opts.tonemap -> <<"tonemap">> \o scale \o upload
          [] ~opts.tonemap /\ opts.softwareDecode -> upload \o scale
          [] OTHER -> If(opts.encoder \in NeedsUpload, <<"negotiate", "upload">>)
                         \o (IF opts.encoder \in HasScaler THEN <<"hwscale">> ELSE scale)

\* The filters: on the CPU and then uploaded, or as far as can be on the GPU.
FilterChain(opts) ==
    LET upload == If(opts.encoder \in NeedsUpload, <<"format", "upload">>)
        scale  == If(opts.resize, <<"scale">>)
    IN  CASE opts.tonemap -> <<"tonemap">> \o scale \o upload
          [] ~opts.tonemap /\ opts.softwareDecode -> scale \o upload
          [] OTHER -> If(opts.encoder \in NeedsUpload, <<"negotiate", "upload">>)
                         \o (IF opts.encoder \in HasScaler THEN <<"hwscale">> ELSE scale)

\* getHwaccelInputArgs: -filter_hw_device, which an upload needs, and where the
\* decoder leaves its frames.  A decoder that cannot do the file in hardware does it
\* in software without an error; VideoToolbox hands its frames back to the CPU.
HasDevice(opts) == opts.encoder \in {"qsv", "vaapi"}
DecodedTo(opts) ==
    IF DecodesInSoftware(opts) \/ opts.encoder = "videotoolbox" THEN {"cpu"} ELSE {"gpu", "cpu"}

\* ffmpeg: where the frames are after a filter, or "nowhere" if it cannot take them.
AfterFilter(filter, memory, device) ==
    CASE filter \in {"tonemap", "scale", "format"} /\ memory = "cpu" -> "cpu"
      [] filter = "negotiate" -> memory
      [] filter = "upload" /\ device /\ memory # "nowhere" -> "gpu"
      [] filter = "hwscale" /\ memory = "gpu" -> "gpu"
      [] OTHER -> "nowhere"

\* frames[i]: where the frames are after i filters.  Encoders without an upload filter
\* take CPU frames, and NVENC those on the GPU too.
CanRun(opts, memory) ==
    LET chain == FilterChain(opts) IN
    \E frames \in [0 .. Len(chain) -> {"cpu", "gpu", "nowhere"}] :
        /\ frames[0] = memory
        /\ \A i \in 1 .. Len(chain) :
              frames[i] = AfterFilter(chain[i], frames[i - 1], HasDevice(opts))
        /\ \/ frames[Len(chain)] = "gpu" /\ opts.encoder \in HasScaler
           \/ frames[Len(chain)] = "cpu" /\ opts.encoder \notin NeedsUpload

Clamp(x, low, high) == IF x < low THEN low ELSE IF x > high THEN high ELSE x

crfToBitrateModifier(crf) == Clamp(800 - 20 * crf, 50, 800)

defaultMod(codec) == IF codec = "hevc" THEN 520 ELSE 250
defaultCrf(accel, codec) ==
    CASE accel = "none"  -> IF codec = "hevc" THEN 22 ELSE 25
      [] accel = "nvenc" -> IF codec = "hevc" THEN 26 ELSE 32
      [] OTHER           -> IF codec = "hevc" THEN 20 ELSE 22

\* The modifier of the source's bit rate: the one selected, one made of the CRF set
\* by the user, or the encoder's own.
Modifier(opts) ==
    LET range == ModRange(opts.codec)
        chosen == IF opts.mod > 0 THEN opts.mod
                  ELSE IF opts.quality > 0 THEN crfToBitrateModifier(opts.quality)
                  ELSE defaultMod(opts.codec)
    IN  Clamp(chosen, range.min, range.max)

\* What the quality flag is set to: kilobits per second, or a CRF, CQ or QP.
QualityValue(opts) ==
    IF opts.encoder \in UsesBitrate
    THEN LET reference == IF opts.kbps > 0 THEN opts.kbps ELSE 10000
         IN  Clamp((reference * Modifier(opts)) \div 1000, 500, 15000)
    ELSE IF opts.quality > 0 THEN opts.quality
    ELSE defaultCrf(opts.encoder, opts.codec)

\* BuildSampleEncodeArgs: a sample has no bit rate, no tone mapping, and is decoded
\* in software.
ForSample(opts) == [opts EXCEPT !.kbps = 0, !.tonemap = FALSE, !.softwareDecode = TRUE]
=============================================================================
