---------------------------- MODULE EntropyCodes ----------------------------
(***************************************************************************)
(* The entropy codes of WebP: the boolean coder of the lossy format, the   *)
(* tables that the lossless decoder makes of Huffman codes, and the codes  *)
(* that the lossless encoder makes of histograms, written and read back.   *)
(* And the backward references of the lossless encoder, which are what is  *)
(* written with these codes.  The parts share nothing; a behaviour is of   *)
(* one of them.                                                            *)
(***************************************************************************)
EXTENDS BoolCoder, HuffmanTable, HuffmanEncode, BackwardReferences

VARIABLE part

vars == <<part, boolVars, tableVars, encodeVars, refsVars>>

Init ==
  /\ part \in {"bool", "table", "encode", "references"}
  /\ lengths \in IF part = "table" THEN [Symbol -> 0..MaxLength]
                 ELSE {[s \in Symbol |-> 0]}
  /\ histogram \in IF part = "encode" THEN Histograms ELSE {<<>>}
  /\ picture \in IF part = "references" THEN Pictures ELSE {NoPicture}
  /\ lowEffort \in IF part = "references" THEN BOOLEAN ELSE {FALSE}
  /\ BoolInit /\ TableInit /\ EncodeInit /\ RefsInit

Bool == part = "bool" /\ BoolNext /\ UNCHANGED <<part, tableVars, encodeVars, refsVars>>
Table == part = "table" /\ TableNext /\ UNCHANGED <<part, boolVars, encodeVars, refsVars>>
Encode == part = "encode" /\ EncodeNext /\ UNCHANGED <<part, boolVars, tableVars, refsVars>>
References == part = "references" /\ RefsNext /\ UNCHANGED <<part, boolVars, tableVars, encodeVars>>

Next == Bool \/ Table \/ Encode \/ References

Spec == Init /\ [][Next]_vars
=============================================================================
