---------------------------- MODULE HuffmanTable ----------------------------
(***************************************************************************)
(* BuildHuffmanTable() (src/utils/huffman_utils.c): the two-level table of *)
(* the lossless format, made from the lengths of the codes.  It runs twice *)
(* on the same lengths: once without a table, to know its size, and once   *)
(* to fill it.  MaxLength is MAX_ALLOWED_CODE_LENGTH (15), RootBits is     *)
(* HUFFMAN_TABLE_BITS (8).  Left out: the segments the tables are          *)
(* allocated in, and lengths above MaxLength.                              *)
(***************************************************************************)
EXTENDS Integers, SequencesExt

CONSTANTS
  NumSymbols,   \* code_lengths_size
  MaxLength,
  RootBits

Symbol == 0..(NumSymbols - 1)
RootSize == 2 ^ RootBits

VARIABLES
  lengths,      \* code_lengths
  pass,         \* "size" (root_table == NULL), then "fill"
  pc,
  len, count, key, numNodes, numOpen, tableBits, low, next,  \* locals
  table,        \* offset of the current table in root_table
  totalSize,    \* total_size
  sized,        \* what the first pass returned
  codes         \* root_table: address -> code

secondLevel == <<tableBits, low, table, totalSize>>
tableVars == <<lengths, pass, pc, len, count, key, numNodes, numOpen, next, secondLevel,
          sized, codes>>

Coded == {s \in Symbol : lengths[s] > 0}

Histogram == [l \in 0..MaxLength |-> Cardinality({s \in Symbol : lengths[s] = l})]

\* sorted: the symbols by length, then by value.
Earlier(a, b) == lengths[a] < lengths[b] \/ (lengths[a] = lengths[b] /\ a < b)

Sorted == SetToSortSeq(Coded, Earlier)

\* GetNextKey(): adds one to the key read from its other end.
NextKey(k, l) ==
  LET zeros == {b \in 0..(l - 1) : (k \div 2 ^ b) % 2 = 0}
  IN  IF zeros = {} THEN k ELSE (k % 2 ^ Max(zeros)) + 2 ^ Max(zeros)

\* NextTableBitSize(): up to the length that closes the open branches.
FirstLengthOnly(l) == l - RootBits                                  \* (faulty)

NextTableBitSize(l) ==
  LET left[n \in l..MaxLength] ==
        (IF n = l THEN 2 ^ (l - RootBits) ELSE 2 * left[n - 1]) - count[n]
  IN  Min({n \in l..MaxLength : left[n] <= 0} \cup {MaxLength}) - RootBits

\* ReplicateValue()
Replicated(at, step, end, code) ==
  LET addresses == {at + step * k : k \in 0..(end \div step - 1)}
  IN  [a \in addresses |-> code]

------------------------------------------------------------------------------
Start(p) ==
  /\ pass' = p /\ pc' = "start" /\ count' = Histogram
  /\ len' = 1 /\ key' = 0 /\ numNodes' = 1 /\ numOpen' = 1 /\ next' = 1
  /\ tableBits' = RootBits /\ low' = -1 /\ table' = 0 /\ totalSize' = RootSize

TableInit ==
  /\ pass = "size" /\ pc = "start" /\ count = Histogram
  /\ len = 1 /\ key = 0 /\ numNodes = 1 /\ numOpen = 1 /\ next = 1
  /\ tableBits = RootBits /\ low = -1 /\ table = 0 /\ totalSize = RootSize
  /\ sized = 0 /\ codes = << >>

Reject == pc' = "rejected" /\ UNCHANGED <<lengths, pass, len, count, key, numNodes,
                                           numOpen, next, secondLevel, sized, codes>>

\* Lengths that cannot be a code.
Invalid == Coded = {} \/ \E l \in 1..(MaxLength - 1) : count[l] > 2 ^ l

RejectLengths == pc = "start" /\ Invalid /\ Reject

\* The end of a pass.
Return(codesNow) ==
  IF pass = "size"
  THEN /\ sized' = totalSize /\ codes' = codesNow /\ Start("fill")
  ELSE /\ pc' = "built" /\ codes' = codesNow
       /\ UNCHANGED <<pass, len, count, key, numNodes, numOpen, next, secondLevel, sized>>

\* Special case: a code with only one value takes no bit.
OneSymbol ==
  /\ pc = "start" /\ ~Invalid /\ Cardinality(Coded) = 1
  /\ Return(IF pass = "size" THEN codes
            ELSE Replicated(0, 1, RootSize, [bits |-> 0, value |-> Sorted[1]]) @@ codes)
  /\ UNCHANGED lengths

BeginLevels ==
  /\ pc = "start" /\ ~Invalid /\ Cardinality(Coded) # 1
  /\ pc' = "level"
  /\ UNCHANGED <<lengths, pass, len, count, key, numNodes, numOpen, next, secondLevel,
                 sized, codes>>

\* A level of the tree: each open branch splits, the codes close some.
Overfull == 2 * numOpen - count[len] < 0

RejectOverfull == pc = "level" /\ Overfull /\ Reject

BeginLevel ==
  /\ pc = "level" /\ ~Overfull
  /\ numOpen' = 2 * numOpen - count[len]
  /\ numNodes' = numNodes + 2 * numOpen
  /\ pc' = "codes"
  /\ UNCHANGED <<lengths, pass, len, count, key, next, secondLevel, sized, codes>>

TakeCode ==
  /\ count' = [count EXCEPT ![len] = @ - 1]
  /\ key' = NextKey(key, len)

RootCode ==
  /\ pc = "codes" /\ pass = "fill" /\ len <= RootBits /\ count[len] > 0
  /\ codes' = Replicated(key, 2 ^ len, RootSize, [bits |-> len, value |-> Sorted[next]]) @@ codes
  /\ next' = next + 1
  /\ TakeCode
  /\ UNCHANGED <<lengths, pass, pc, len, numNodes, numOpen, secondLevel, sized>>

\* A code that leaves the root table, in a new table if its root is new.
NewTable == key % RootSize # low

SecondTable ==
  IF NewTable
  THEN /\ table' = IF pass = "fill" THEN table + 2 ^ tableBits ELSE table
       /\ tableBits' = NextTableBitSize(len)
       /\ totalSize' = totalSize + 2 ^ tableBits'
       /\ low' = key % RootSize
  ELSE UNCHANGED secondLevel

\* The root's entry leads to the table, the codes are stored there.
RootEntry ==
  IF NewTable
  THEN low' :> [bits |-> tableBits' + RootBits, value |-> table' - low']
  ELSE << >>

SecondEntries ==
  Replicated(table' + key \div RootSize, 2 ^ (len - RootBits), 2 ^ tableBits',
             [bits |-> len - RootBits, value |-> Sorted[next]])

SecondCode ==
  /\ pc = "codes" /\ len > RootBits /\ count[len] > 0
  /\ SecondTable
  /\ IF pass = "fill"
     THEN codes' = SecondEntries @@ RootEntry @@ codes /\ next' = next + 1
     ELSE UNCHANGED <<codes, next>>
  /\ TakeCode
  /\ UNCHANGED <<lengths, pass, pc, len, numNodes, numOpen, sized>>

\* Without a table, the codes of the root are only counted.
EndLevel ==
  /\ pc = "codes" /\ (count[len] = 0 \/ (len <= RootBits /\ pass = "size"))
  /\ len' = len + 1
  /\ pc' = IF len < MaxLength THEN "level" ELSE "end"
  /\ UNCHANGED <<lengths, pass, count, key, numNodes, numOpen, next, secondLevel,
                 sized, codes>>

\* "Check if tree is full."
NotFull == numNodes # 2 * Cardinality(Coded) - 1

EndPass ==
  /\ pc = "end"
  /\ IF NotFull THEN Reject ELSE Return(codes) /\ UNCHANGED lengths

Done == pc \in {"built", "rejected"} /\ UNCHANGED tableVars

TableNext ==
  \/ RejectLengths \/ OneSymbol \/ BeginLevels \/ RejectOverfull \/ BeginLevel
  \/ RootCode \/ SecondCode \/ EndLevel \/ EndPass \/ Done

------------------------------------------------------------------------------
(* ReadSymbol() (src/dec/vp8l_dec.c): v holds the next bits, first one      *)
(* lowest.                                                                 *)

ReadSymbol(v) ==
  LET root == codes[v % RootSize]
      leaf == codes[(v % RootSize) + root.value
                    + ((v \div RootSize) % 2 ^ (root.bits - RootBits))]
  IN  IF root.bits > RootBits
      THEN [value |-> leaf.value, bits |-> RootBits + leaf.bits] ELSE root

------------------------------------------------------------------------------
\* The codes of these lengths, of which a bitstream's definition says that
\* they are in the order of the lengths, then of the symbols.
Before(s) == {t \in Coded : Earlier(t, s)}

Canonical(s) == MapThenSumSet(LAMBDA t : 2 ^ (lengths[s] - lengths[t]), Before(s))

Complete == MapThenSumSet(LAMBDA s : 2 ^ (MaxLength - lengths[s]), Coded) = 2 ^ MaxLength

Reversed(v, l) ==
  MapThenSumSet(LAMBDA b : ((v \div 2 ^ b) % 2) * 2 ^ (l - 1 - b), 0..(l - 1))

\* Exactly the lengths of a complete code, or of a single symbol, are
\* accepted, and already by the first pass; the second one fills each entry
\* of the size the first one returned; and whatever bits follow, ReadSymbol()
\* finds the symbol whose code they begin with, and takes that code only.
TableRight ==
  LET single == Cardinality(Coded) = 1 IN
  /\ pc = "rejected" => pass = "size" /\ ~single /\ ~Complete
  /\ pc = "built" =>
       /\ single \/ Complete
       /\ totalSize = sized /\ DOMAIN codes = 0..(sized - 1)
       /\ \A v \in 0..(2 ^ MaxLength - 1) :
            LET got == ReadSymbol(v) IN
            /\ got.value \in Coded
            /\ got.bits = IF single THEN 0 ELSE lengths[got.value]
            /\ ~single => Reversed(v % 2 ^ got.bits, got.bits) = Canonical(got.value)
=============================================================================
