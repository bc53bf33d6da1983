------------------------ MODULE MCIncrementalDecoder ------------------------
(***************************************************************************)
(* Small files for IncrementalDecoder: with one partition, released as it  *)
(* is read, or two; with alpha, kept while needed, or without; corrupted;  *)
(* with a macroblock larger than MaxMbSize, or a first partition too short *)
(* for its rows.                                                           *)
(***************************************************************************)
EXTENDS IncrementalDecoder

OnePartition(alpha, bad, mbs) ==
  [alpha |-> alpha, vp8 |-> 2, modes |-> 4, parts |-> 6, last |-> 6, size |-> 14,
   nparts |-> 1, mbW |-> 2, mbH |-> 2, mbs |-> mbs, bad |-> bad]

Fit   == <<9, 9, 14, 14>>
Large == <<7, 13, 14, 14>>

\* Rows 0 and 2 are in the first partition, row 1 in the last.
TwoPartitions(alpha, mbs) ==
  [alpha |-> alpha, vp8 |-> 2, modes |-> 3, parts |-> 5, last |-> 10, size |-> 16,
   nparts |-> 2, mbW |-> 1, mbH |-> 3, mbs |-> mbs, bad |-> "no"]

InPartition == <<9, 16, 10>>
TooShort    == <<9, 16, 12>>

MCFiles ==
  {OnePartition(alpha, "no", Fit) : alpha \in {0, 1}}
  \cup {TwoPartitions(alpha, InPartition) : alpha \in {0, 1}}
  \cup {TwoPartitions(0, TooShort)}
  \cup {OnePartition(1, "headers", Fit)}
  \cup {OnePartition(0, bad, Fit) : bad \in {"part0", "modes"}}
  \cup {OnePartition(0, "no", Large)}
=============================================================================
