------------------------- MODULE MCResponseCapture -------------------------
(***************************************************************************)
(* Instance of Exchange and ResponseCapture for TLC: capture limits below, *)
(* at and above the body sizes, spool thresholds below and above them, the *)
(* unset spool directory, and request bodies around their limit.           *)
(***************************************************************************)
EXTENDS Exchange

MCConfigs ==
    [maxCap : {1, 4, 6, 9}, spoolMem : {1, 2, 3, 7}, spoolDir : BOOLEAN]
MCChunkSizes == 1 .. 4
MCMaxSize == 8
MCBodyLimits == {1, 2}
MCMaxRequest == 4
============================================================================
