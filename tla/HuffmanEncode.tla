---------------------------- MODULE HuffmanEncode ----------------------------
(***************************************************************************)
(* The Huffman codes of the lossless encoder, and how they are written:    *)
(* VP8LCreateHuffmanTree() makes the code of a histogram                   *)
(* (src/utils/huffman_encode_utils.c), StoreHuffmanCode() writes its       *)
(* lengths (src/enc/vp8l_enc.c), with a Huffman code of their own, and     *)
(* ReadHuffmanCode() reads them (src/dec/vp8l_dec.c).                      *)
(*                                                                         *)
(* The bitstream is a sequence of bits.  The reader finds a symbol as      *)
(* ReadSymbol() of HuffmanTable does: its canonical code comes next.       *)
(***************************************************************************)
EXTENDS Integers, SequencesExt

CONSTANTS
  Histograms,     \* functions from the symbols 0 .. n - 1 to their counts
  DepthLimit,     \* MAX_ALLOWED_CODE_LENGTH, 15 in the code
  LengthsLimit,   \* the same for the code of the lengths, 7 in the code
  DefaultLength,  \* DEFAULT_CODE_LENGTH, 8 in the code
  SymbolBits      \* kMaxBits, 8 in the code

ASSUME HistogramsAssumption ==
  \A h \in Histograms :
    LET n == Cardinality(DOMAIN h) IN
    /\ DOMAIN h = 0..(n - 1)
    \* the assertion of GenerateOptimalTree()
    /\ Cardinality({s \in DOMAIN h : h[s] > 0}) <= 2 ^ (DepthLimit - 1)

VARIABLES
  histogram,   \* the histogram of the symbols
  counts,      \* the one VP8LCreateHuffmanTree() works on
  codeOf,      \* ... that of the symbols, or of their "lengths"
  countMin, tree, depths,       \* locals of GenerateOptimalTree()
  code, lengthCode,             \* the two codes: lengths and codes
  tokens,                       \* of VP8LCreateCompressedHuffmanTree()
  bits,                         \* what was written
  at,                           \* bits that were read
  readLengths,                  \* code_length_code_lengths of the reader
  read, symbol, prev, maxSymbol,     \* its code_lengths, and its locals
  step                          \* where it is

encoderVars == <<histogram, counts, codeOf, countMin, tree, depths, code, lengthCode,
                 tokens, bits>>
readerVars == <<at, readLengths, read, symbol, prev, maxSymbol>>
encodeVars == <<encoderVars, readerVars, step>>

UsedIn(f) == {s \in DOMAIN f : f[s] > 0}
InOrder(f) == SelectSeq([k \in 1..Cardinality(DOMAIN f) |-> k - 1], LAMBDA s : f[s] > 0)

------------------------------------------------------------------------------
(* OptimizeHuffmanForRle(): close counts that follow each other are made   *)
(* equal, so that their lengths are.                                       *)

\* Runs that are left alone.
GoodForRle(c, n) ==
  LET same(a, b) == \A k \in a..b : c[k] = c[a]
  IN  {i \in 0..(n - 1) :
         \E a \in 0..i, b \in i..(n - 1) :
           same(a, b) /\ b - a + 1 >= IF c[i] = 0 THEN 5 ELSE 7}

Distance(a, b) == IF a > b THEN a - b ELSE b - a

\* The average of a stride; a stride with counts does not lose them.
Average(sum, stride) ==
  LET mean == (sum + stride \div 2) \div stride
  IN  IF sum = 0 THEN 0 ELSE IF mean < 1 THEN 1 ELSE mean

OptimizeForRle(c) ==
  LET n == Max({0} \cup {s + 1 : s \in UsedIn(c)})   \* no trailing zeros
      good == GoodForRle(c, n)
      ends(i, s) == \/ i = n \/ i \in good \/ i - 1 \in good
                    \/ Distance(c[i], s.limit) >= 4
      collapsed(i, s) ==
        IF s.stride >= 4 \/ (s.stride >= 3 /\ s.sum = 0)
        THEN [k \in DOMAIN c |-> IF k \in (i - s.stride)..(i - 1)
                                 THEN Average(s.sum, s.stride) ELSE s.counts[k]]
        ELSE s.counts
      first(i) == IF i < n - 3 THEN (c[i] + c[i + 1] + c[i + 2] + c[i + 3] + 2) \div 4
                  ELSE IF i < n THEN c[i] ELSE 0
      begun(i, s) == IF ends(i, s)
                     THEN [counts |-> collapsed(i, s), stride |-> 0, sum |-> 0, limit |-> first(i)]
                     ELSE s
      longer(i, s) == IF i = n THEN s
                      ELSE LET sum == s.sum + c[i]
                               stride == s.stride + 1
                           IN  [s EXCEPT !.sum = sum, !.stride = stride,
                                         !.limit = IF stride >= 4 THEN (sum + stride \div 2) \div stride
                                                   ELSE @]
      after[i \in -1..n] ==
        IF i = -1 THEN [counts |-> c, stride |-> 0, sum |-> 0, limit |-> c[0]]
        ELSE longer(i, begun(i, after[i - 1]))
  IN  IF n = 0 THEN c ELSE after[n].counts

------------------------------------------------------------------------------
(* The code of a set of lengths.                                           *)

ReverseBits(v, l) == MapThenSumSet(LAMBDA b : ((v \div 2 ^ b) % 2) * 2 ^ (l - 1 - b), 0..(l - 1))

\* ConvertBitDepthsToSymbols()
CodesOf(lens) ==
  LET depthCount(l) == IF l = 0 THEN 0 ELSE Cardinality({s \in DOMAIN lens : lens[s] = l})
      first[l \in 0..Max(Range(lens))] == IF l = 0 THEN 0 ELSE (first[l - 1] + depthCount(l - 1)) * 2
  IN  [s \in DOMAIN lens |->
         ReverseBits(first[lens[s]] + Cardinality({t \in 0..(s - 1) : lens[t] = lens[s]}), lens[s])]

\* What the format says the code of a symbol is.
CanonicalCode(lens, s) ==
  LET before == {t \in UsedIn(lens) : lens[t] < lens[s] \/ (lens[t] = lens[s] /\ t < s)}
  IN  ReverseBits(MapThenSumSet(LAMBDA t : 2 ^ (lens[s] - lens[t]), before), lens[s])

IsComplete(lens) ==
  LET m == Max(Range(lens))
  IN  MapThenSumSet(LAMBDA s : 2 ^ (m - lens[s]), UsedIn(lens)) = 2 ^ m

IsSingle(lens) == Cardinality(UsedIn(lens)) = 1

\* ClearHuffmanTreeIfOnlyOneSymbol()
Cleared(c) ==
  IF Cardinality(UsedIn(c.lens)) > 1 THEN c
  ELSE [lens |-> [s \in DOMAIN c.lens |-> 0], codes |-> [s \in DOMAIN c.lens |-> 0]]

------------------------------------------------------------------------------
(* VP8LCreateHuffmanTree()                                                 *)

Blank(c) == [s \in DOMAIN c |-> 0]

EncodeInit ==
  /\ counts = histogram /\ codeOf = "symbols"
  /\ countMin = 1 /\ tree = <<>> /\ depths = Blank(histogram)
  /\ code = <<>> /\ lengthCode = <<>> /\ tokens = <<>> /\ bits = <<>>
  /\ at = 0 /\ readLengths = <<>> /\ read = Blank(histogram)
  /\ symbol = 0 /\ prev = DefaultLength /\ maxSymbol = 0
  /\ step = "optimize"

Optimize ==
  /\ step = "optimize"
  /\ counts' = OptimizeForRle(counts) /\ countMin' = 1
  /\ step' = IF UsedIn(counts') = {} THEN "codes" ELSE "leaves"
  /\ depths' = Blank(counts)
  /\ UNCHANGED <<histogram, codeOf, tree, code, lengthCode, tokens, bits, readerVars>>

\* CompareHuffmanTrees()
MoreFirst(a, b) == a.count > b.count \/ (a.count = b.count /\ a.value < b.value)

\* The leaves, their counts raised to countMin.
Leaves ==
  /\ step = "leaves"
  /\ LET leaf(s) == [count |-> IF counts[s] < countMin THEN countMin ELSE counts[s],
                     value |-> s, leaves |-> {s}]
         used == InOrder(counts)
     IN  /\ tree' = SortSeq([k \in DOMAIN used |-> leaf(used[k])], MoreFirst)
         /\ depths' = [s \in DOMAIN counts |-> IF used = <<s>> THEN 1 ELSE 0]
  /\ step' = "merge"
  /\ UNCHANGED <<histogram, counts, codeOf, countMin, code, lengthCode, tokens, bits, readerVars>>

\* The two rarest nodes become one, after those that are more frequent.  Its
\* leaves are one level further down (SetBitDepths()).
Merge ==
  /\ step = "merge" /\ Len(tree) > 1
  /\ LET n == Len(tree)
         node == [count |-> tree[n].count + tree[n - 1].count, value |-> -1,
                  leaves |-> tree[n].leaves \cup tree[n - 1].leaves]
         rest == SubSeq(tree, 1, n - 2)
         k == Max({0} \cup {i \in 1..(n - 2) : \A h \in 1..i : tree[h].count > node.count})
     IN  /\ tree' = SubSeq(rest, 1, k) \o <<node>> \o SubSeq(rest, k + 1, n - 2)
         /\ depths' = [s \in DOMAIN depths |-> depths[s] + IF s \in node.leaves THEN 1 ELSE 0]
  /\ UNCHANGED <<histogram, counts, codeOf, countMin, code, lengthCode, tokens, bits, readerVars, step>>

Limit == IF codeOf = "symbols" THEN DepthLimit ELSE LengthsLimit
TooDeep == Max(Range(depths)) > Limit

RaiseCounts ==
  /\ step = "merge" /\ Len(tree) = 1 /\ TooDeep
  /\ countMin' = 2 * countMin /\ step' = "leaves"
  /\ UNCHANGED <<histogram, counts, codeOf, tree, depths, code, lengthCode, tokens, bits, readerVars>>

MakeCodes ==
  /\ step = "codes" \/ (step = "merge" /\ Len(tree) = 1 /\ ~TooDeep)
  /\ LET made == [lens |-> depths, codes |-> CodesOf(depths)] IN
     IF codeOf = "symbols"
     THEN code' = made /\ step' = "store" /\ UNCHANGED lengthCode
     ELSE lengthCode' = made /\ step' = "write" /\ UNCHANGED code
  /\ tree' = <<>>
  /\ UNCHANGED <<histogram, counts, codeOf, countMin, depths, tokens, bits, readerVars>>

------------------------------------------------------------------------------
(* StoreHuffmanCode()                                                      *)

\* VP8LPutBits(): the lowest bit first.
Bits(v, n) == [k \in 1..n |-> (v \div 2 ^ (k - 1)) % 2]

Small(c) == LET used == InOrder(c.lens) IN
            Len(used) <= 2 /\ \A k \in DOMAIN used : used[k] < 2 ^ SymbolBits

StoreSmall ==
  /\ step = "store" /\ Small(code)
  /\ LET used == InOrder(code.lens)
         first == IF used[1] <= 1 THEN Bits(0, 1) \o Bits(used[1], 1)
                  ELSE Bits(1, 1) \o Bits(used[1], SymbolBits)
     IN  bits' = IF used = <<>> THEN Bits(1, 4)
                 ELSE Bits(1, 1) \o Bits(Len(used) - 1, 1) \o first
                      \o (IF Len(used) = 2 THEN Bits(used[2], SymbolBits) ELSE <<>>)
  /\ code' = Cleared(code) /\ step' = "read"
  /\ UNCHANGED <<histogram, counts, codeOf, countMin, tree, depths, lengthCode, tokens, readerVars>>

Token(c, extra) == [code |-> c, extra |-> extra]
Times(t, n) == [k \in 1..n |-> t]

\* CodeRepeatedValues()
RepeatedValues(n, value, before) ==
  LET m == IF value # before THEN n - 1 ELSE n
      sixes == IF m = 0 THEN 0 ELSE (m - 1) \div 6
      rest == m - 6 * sixes
  IN  Times(Token(value, 0), n - m) \o Times(Token(16, 3), sixes)
      \o (IF rest < 3 THEN Times(Token(value, 0), rest) ELSE <<Token(16, rest - 3)>>)

\* CodeRepeatedZeros()
RepeatedZeros(n) ==
  LET longest == (n - 1) \div 138
      rest == n - 138 * longest
  IN  Times(Token(18, 127), longest)
      \o (IF rest < 3 THEN Times(Token(0, 0), rest)
          ELSE IF rest < 11 THEN <<Token(17, rest - 3)>> ELSE <<Token(18, rest - 11)>>)

PrevNeverUpdated(lens, i) == DefaultLength                         \* (faulty)

\* The last length before symbol i that is not 0.
PrevValue(lens, i) ==
  LET before == {s \in 0..(i - 1) : lens[s] # 0}
  IN  IF before = {} THEN DefaultLength ELSE lens[Max(before)]

\* VP8LCreateCompressedHuffmanTree(): a run of equal lengths after the other.
Compressed(lens) ==
  LET n == Cardinality(DOMAIN lens)
      starts == SelectSeq([k \in 1..n |-> k - 1], LAMBDA s : s = 0 \/ lens[s] # lens[s - 1])
      end(k) == IF k = Len(starts) THEN n ELSE starts[k + 1]
      run(k) == LET i == starts[k]
                    runs == end(k) - i
                IN  IF lens[i] = 0 THEN RepeatedZeros(runs)
                    ELSE RepeatedValues(runs, lens[i], PrevValue(lens, i))
  IN  FlattenSeq([k \in DOMAIN starts |-> run(k)])

LengthCodes == 0..18

\* The first half of StoreFullHuffmanCode(): its tokens, whose histogram goes
\* through VP8LCreateHuffmanTree() in turn.
Tokenize ==
  /\ step = "store" /\ ~Small(code)
  /\ tokens' = Compressed(code.lens)
  /\ counts' = [c \in LengthCodes |-> Cardinality({k \in DOMAIN tokens' : tokens'[k].code = c})]
  /\ codeOf' = "lengths" /\ step' = "optimize"
  /\ UNCHANGED <<histogram, countMin, tree, depths, code, lengthCode, bits, readerVars>>

StorageOrder == <<17, 18, 0, 1, 2, 3, 4, 5, 16, 6, 7, 8, 9, 10, 11, 12, 13, 14, 15>>

\* StoreHuffmanTreeOfHuffmanTreeToBitMask()
StoredLengths(lens) ==
  LET n == Max({4} \cup {k \in 1..19 : lens[StorageOrder[k]] # 0})
  IN  Bits(n - 4, 4) \o FlattenSeq([k \in 1..n |-> Bits(lens[StorageOrder[k]], 3)])

ExtraBits(c) == CASE c = 16 -> 2 [] c = 17 -> 3 [] c = 18 -> 7 [] OTHER -> 0

\* BitsLog2Floor()
Log2Floor(n) == Max({k \in 0..15 : 2 ^ k <= n})

\* The second half: zeros at the end are left out if it pays.
WriteFull ==
  /\ step = "write"
  /\ LET c == Cleared(lengthCode)
         n == Len(tokens)
         trimmed == Max({0} \cup {k \in 1..n : tokens[k].code \notin {0, 17, 18}})
         zeroBits == MapThenSumSet(LAMBDA k : c.lens[tokens[k].code] + ExtraBits(tokens[k].code),
                                   (trimmed + 1)..n)
         trim == trimmed > 1 /\ zeroBits > 12
         pairs == Log2Floor(trimmed - 2) \div 2 + 1
         length == IF ~trim THEN Bits(0, 1)
                   ELSE IF trimmed = 2 THEN Bits(1, 1) \o Bits(0, 5)
                   ELSE Bits(1, 1) \o Bits(pairs - 1, 3) \o Bits(trimmed - 2, 2 * pairs)
         written(t) == Bits(c.codes[t.code], c.lens[t.code]) \o Bits(t.extra, ExtraBits(t.code))
     IN  bits' = Bits(0, 1) \o StoredLengths(lengthCode.lens) \o length
                 \o FlattenSeq([k \in 1..(IF trim THEN trimmed ELSE n) |-> written(tokens[k])])
  /\ code' = Cleared(code) /\ step' = "read"
  /\ UNCHANGED <<histogram, counts, codeOf, countMin, tree, depths, lengthCode, tokens, readerVars>>

------------------------------------------------------------------------------
(* ReadHuffmanCode()                                                       *)

\* VP8LReadBits(), after skipping some bits.  Beyond the end there are zeros.
BitAt(k) == IF k <= Len(bits) THEN bits[k] ELSE 0
BitsAt(skip, n) == MapThenSumSet(LAMBDA k : BitAt(skip + k) * 2 ^ (k - 1), 1..n)

ReadSimple ==
  /\ step = "read" /\ BitsAt(0, 1) = 1
  /\ LET n == BitsAt(1, 1) + 1
         width == IF BitsAt(2, 1) = 0 THEN 1 ELSE SymbolBits
         symbols == {BitsAt(3, width)} \cup IF n = 2 THEN {BitsAt(3 + width, SymbolBits)} ELSE {}
     IN  /\ read' = [s \in DOMAIN read |-> IF s \in symbols THEN 1 ELSE 0]
         /\ at' = 3 + width + IF n = 2 THEN SymbolBits ELSE 0
  /\ step' = "built"
  /\ UNCHANGED <<encoderVars, readLengths, symbol, prev, maxSymbol>>

\* The code of the lengths, and how many of them there are.
ReadLengthCode ==
  /\ step = "read" /\ BitsAt(0, 1) = 0
  /\ LET n == BitsAt(1, 4) + 4
         lens == [c \in LengthCodes |->
                    IF \E k \in 1..n : StorageOrder[k] = c
                    THEN BitsAt(5 + 3 * ((CHOOSE k \in 1..n : StorageOrder[k] = c) - 1), 3)
                    ELSE 0]
         after == 5 + 3 * n
         width == 2 + 2 * BitsAt(after + 1, 3)
         useLength == BitsAt(after, 1) = 1
         numSymbols == Cardinality(DOMAIN read)
         maximum == IF useLength THEN 2 + BitsAt(after + 4, width) ELSE numSymbols
         valid == UsedIn(lens) # {} /\ (IsSingle(lens) \/ IsComplete(lens))
     IN  /\ readLengths' = lens /\ maxSymbol' = maximum
         /\ at' = IF useLength THEN after + 4 + width ELSE after + 1
         /\ step' = IF valid /\ maximum <= numSymbols THEN "tokens" ELSE "error"
  /\ UNCHANGED <<encoderVars, read, symbol, prev>>

\* The code that comes next, and its length.
NextCode ==
  IF IsSingle(readLengths) THEN [c |-> CHOOSE c \in UsedIn(readLengths) : TRUE, n |-> 0]
  ELSE LET c == CHOOSE c \in UsedIn(readLengths) :
                  BitsAt(at, readLengths[c]) = CanonicalCode(readLengths, c)
       IN  [c |-> c, n |-> readLengths[c]]

RepeatOffset(c) == IF c = 18 THEN 11 ELSE 3

\* One turn of the loop of ReadHuffmanCodeLengths()
ReadToken ==
  /\ step = "tokens" /\ symbol < Cardinality(DOMAIN read) /\ maxSymbol > 0
  /\ LET t == NextCode
         repeat == IF t.c < 16 THEN 1
                   ELSE BitsAt(at + t.n, ExtraBits(t.c)) + RepeatOffset(t.c)
         length == CASE t.c < 16 -> t.c [] t.c = 16 -> prev [] t.c > 16 -> 0
         fits == symbol + repeat <= Cardinality(DOMAIN read)
     IN  /\ read' = [s \in DOMAIN read |->
                       IF fits /\ s \in symbol..(symbol + repeat - 1) THEN length ELSE read[s]]
         /\ symbol' = symbol + repeat
         /\ prev' = IF t.c \in 1..15 THEN t.c ELSE prev
         /\ at' = at + t.n + ExtraBits(t.c)
         /\ maxSymbol' = maxSymbol - 1
         /\ step' = IF fits THEN "tokens" ELSE "error"
  /\ UNCHANGED <<encoderVars, readLengths>>

ReadEnds ==
  /\ step = "tokens" /\ (symbol >= Cardinality(DOMAIN read) \/ maxSymbol = 0)
  /\ step' = "built"
  /\ UNCHANGED <<encoderVars, readerVars>>

Agreed == step \in {"built", "error"} /\ UNCHANGED encodeVars

EncodeNext ==
  \/ Optimize \/ Leaves \/ Merge \/ RaiseCounts \/ MakeCodes
  \/ StoreSmall \/ Tokenize \/ WriteFull
  \/ ReadSimple \/ ReadLengthCode \/ ReadToken \/ ReadEnds \/ Agreed

------------------------------------------------------------------------------
\* The reader accepts what is stored, to its last bit, and every symbol that
\* the histogram counts is written with the code that the reader finds it by:
\* none if it is the only one, and otherwise its canonical code among the
\* lengths read, which make a complete code within the limit.  There were
\* tokens enough for the encoder's buffer.
CodesAgree ==
  /\ step # "error"
  /\ Len(tokens) <= Cardinality(DOMAIN histogram)
  /\ step = "built" =>
       /\ at = Len(bits)
       /\ IsSingle(read) \/ IsComplete(read)
       /\ \A s \in UsedIn(histogram) :
            IF IsSingle(read) THEN read[s] > 0 /\ code.lens[s] = 0
            ELSE /\ read[s] \in 1..DepthLimit /\ code.lens[s] = read[s]
                 /\ code.codes[s] = CanonicalCode(read, s)
=============================================================================
