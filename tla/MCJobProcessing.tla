-------------------------- MODULE MCJobProcessing --------------------------
(* Values for TLC: a Mac, and machines with various Linux encoders, where  *)
(* ffmpeg lists a software encoder or not.                                 *)
EXTENDS JobProcessing

MCMachines ==
    {{"videotoolbox", "none"}, {}, {"nvenc", "none"}, {"vaapi", "none"}, {"qsv", "vaapi"},
     {"nvenc", "qsv", "vaapi", "none"}}

\* One source for each answer of RequiresSoftwareDecode.
MCVideos ==
    {[codec |-> "other", tenBit |-> FALSE, simple |-> FALSE],
     [codec |-> "h264", tenBit |-> TRUE, simple |-> FALSE],
     [codec |-> "vc1", tenBit |-> FALSE, simple |-> FALSE],
     [codec |-> "wmv3", tenBit |-> FALSE, simple |-> FALSE],
     [codec |-> "mpeg4", tenBit |-> FALSE, simple |-> FALSE]}

\* Half points: far below and just below the threshold, just met, within the tolerance
\* of a late run only, and far above.
MCScores == {-20, -1, 0, 4, 20}
=============================================================================
