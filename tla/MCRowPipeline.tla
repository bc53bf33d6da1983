---------------------------- MODULE MCRowPipeline ----------------------------
(***************************************************************************)
(* Frames for RowPipeline.  Five rows of macroblocks go through the three  *)
(* caches and use the rotated lines twice; the cropping areas start and    *)
(* end on either side of the lines the two filters hold back.              *)
(***************************************************************************)
EXTENDS RowPipeline

Frame(mt, filter, mbH, top, bottom, alpha, incremental) ==
  [mt |-> mt, filter |-> filter, mbH |-> mbH, cropTop |-> top,
   cropBottom |-> bottom, alpha |-> alpha, incremental |-> incremental]

MCConfigs ==
  {Frame(mt, filter, 5, top, bottom, FALSE, incremental) :
     mt \in {0, 2}, filter \in 0..2, top \in {0, 14, 16, 18, 24, 34},
     bottom \in {39, 40, 41, 46, 47, 48, 75, 80}, incremental \in BOOLEAN}
  \cup
  {Frame(mt, filter, 4, 16, 47, TRUE, incremental) :
     mt \in {0, 2}, filter \in 0..2, incremental \in BOOLEAN}

\* One frame with alpha, finished by the worker.
MCThreaded == {Frame(2, 0, 2, 0, 32, TRUE, FALSE)}
=============================================================================
