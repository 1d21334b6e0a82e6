---------------------------- MODULE MCVideoTiming ----------------------------
(* Model-checking instance of VideoTiming: interlaced and progressive rasters,   *)
(* with even and odd line lengths, of a dozen clocks by a dozen lines.          *)
EXTENDS VideoTiming
T(hsy, hbp, hact, hfp, vsy, vbp, vact, vfp, il) ==
  [h_sy |-> hsy, h_bp |-> hbp, h_act |-> hact, h_fp |-> hfp,
   v_sy |-> vsy, v_bp |-> vbp, v_act |-> vact, v_fp |-> vfp, interlace |-> il]
Panel == T(2, 2, 5, 1, 2, 2, 3, 2, TRUE)
MCTimings ==
  {Panel, T(2, 2, 5, 1, 2, 2, 6, 2, FALSE), T(3, 1, 6, 1, 2, 3, 3, 3, TRUE), T(4, 0, 4, 0, 1, 1, 2, 1, TRUE)}
=============================================================================
