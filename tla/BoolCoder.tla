------------------------------ MODULE BoolCoder ------------------------------
(***************************************************************************)
(* The boolean coder of the lossy format: VP8BitWriter                     *)
(* (src/utils/bit_writer_utils.c) writes symbols, VP8BitReader             *)
(* (bit_reader_utils.c, bit_reader_inl_utils.h) reads them back.           *)
(*                                                                         *)
(* Bytes have ByteBits bits (8 in the code), with every constant of the    *)
(* code derived from that.  A symbol is written by VP8PutBit() with a      *)
(* probability and read by VP8GetBit(), or it is written by                *)
(* VP8PutBitUniform() and read by VP8GetBit() with probability one half    *)
(* or, for the signs, by VP8GetSigned().                                   *)
(* Left out: the allocation of the buffer, and its failure.                *)
(***************************************************************************)
EXTENDS Integers, SequencesExt

CONSTANTS
  ByteBits,
  WordBytes,  \* sizeof(lbit_t)
  BulkBytes,  \* BITS >> 3
  Probs,      \* probabilities in use
  MaxSymbols

Byte == 2 ^ ByteBits
Half == Byte \div 2         \* 0x80

VARIABLES
  bw,         \* the writer: range, value, run, nbBits, buf
  br,         \* the reader: range, value, bits, pos, eof
  symbols,    \* history: what was written
  decoded     \* what was read back

boolVars == <<bw, br, symbols, decoded>>

Symbols == [bit : 0..1, by : {"prob"}, prob : Probs]
           \cup [bit : 0..1, by : {"uniform"}, prob : {Half}]

log2[n \in 1..Byte] == IF n = 1 THEN 0 ELSE 1 + log2[n \div 2]

------------------------------------------------------------------------------
(* The writer.                                                             *)

NewWriter == [range |-> Byte - 2, value |-> 0, run |-> 0, nbBits |-> -ByteBits, buf |-> <<>>]

Repeat(byte, n) == [i \in 1..n |-> byte]

\* What the pending bytes turn into.
CarryStops(carry) == Byte - 1                                      \* (faulty)

Pending(carry) == IF carry THEN 0 ELSE Byte - 1

\* A carry goes through the pending bytes to the last one written.
Flush(w) ==
  LET s == ByteBits + w.nbBits
      bits == w.value \div 2 ^ s
      carry == bits >= Byte
      rest == [w EXCEPT !.value = @ - bits * 2 ^ s, !.nbBits = @ - ByteBits]
      written == IF carry /\ w.buf # <<>>
                 THEN [w.buf EXCEPT ![Len(w.buf)] = (@ + 1) % Byte] ELSE w.buf
  IN  IF bits % Byte = Byte - 1 THEN [rest EXCEPT !.run = @ + 1]
      ELSE [rest EXCEPT
              !.run = 0,
              !.buf = written \o Repeat(Pending(carry), w.run) \o <<bits % Byte>>]

\* The interval is shrunk to the part of the bit ...
Narrow(w, bit, split) ==
  IF bit = 1 THEN [w EXCEPT !.value = @ + split + 1, !.range = @ - (split + 1)]
             ELSE [w EXCEPT !.range = split]

\* ... and scaled by kNorm[] and kNewRange[], which emits bits.
Renormalize(w, shift) ==
  LET scaled == [w EXCEPT !.range = (@ + 1) * 2 ^ shift - 1, !.value = @ * 2 ^ shift,
                          !.nbBits = @ + shift]
  IN  IF w.range >= Half - 1 THEN w
      ELSE IF scaled.nbBits > 0 THEN Flush(scaled) ELSE scaled

VP8PutBit(w, bit, prob) ==
  LET n == Narrow(w, bit, (w.range * prob) \div Byte)
  IN  Renormalize(n, (ByteBits - 1) - log2[n.range + 1])

VP8PutBitUniform(w, bit) == Renormalize(Narrow(w, bit, w.range \div 2), 1)

PutSymbol(w, s) ==
  IF s.by = "prob" THEN VP8PutBit(w, s.bit, s.prob) ELSE VP8PutBitUniform(w, s.bit)

\* VP8BitWriterFinish()
FinishedWriter(w) ==
  LET zeros == Repeat(0, ByteBits + 1 - w.nbBits)
      padded == FoldLeft(LAMBDA v, b : VP8PutBitUniform(v, b), w, zeros)
  IN  Flush([padded EXCEPT !.nbBits = 0])

------------------------------------------------------------------------------
(* The reader.                                                             *)

\* VP8LoadFinalBytes(): byte after byte, then zeros for once.
LoadFinalBytes(r) ==
  IF r.pos < Len(bw.buf)
  THEN [r EXCEPT !.value = bw.buf[r.pos + 1] + @ * Byte, !.bits = @ + ByteBits, !.pos = @ + 1]
  ELSE IF ~r.eof
  THEN [r EXCEPT !.value = @ * Byte, !.bits = @ + ByteBits, !.eof = TRUE]
  ELSE [r EXCEPT !.bits = 0]

\* VP8LoadNewBytes(): a word is read while a whole one is there.
LoadNewBytes(r) ==
  IF r.pos + WordBytes <= Len(bw.buf)
  THEN LET bytes == SubSeq(bw.buf, r.pos + 1, r.pos + BulkBytes)
       IN  [r EXCEPT !.value = FoldLeft(LAMBDA v, b : v * Byte + b, @, bytes),
                     !.bits = @ + BulkBytes * ByteBits, !.pos = @ + BulkBytes]
  ELSE LoadFinalBytes(r)

NewReader == [range |-> Byte - 2, value |-> 0, bits |-> -ByteBits, pos |-> 0, eof |-> FALSE]

Loaded(r) == IF r.bits < 0 THEN LoadNewBytes(r) ELSE r

VP8GetBit(r0, prob) ==
  LET r == Loaded(r0)
      split == (r.range * prob) \div Byte
      bit == IF r.value \div 2 ^ r.bits > split THEN 1 ELSE 0
      range == IF bit = 1 THEN r.range - split ELSE split + 1
      shift == (ByteBits - 1) - log2[range]
  IN  [bit |-> bit,
       br |-> [r EXCEPT !.range = range * 2 ^ shift - 1, !.bits = @ - shift,
                        !.value = @ - bit * (split + 1) * 2 ^ r.bits]]

Odd(n) == IF n % 2 = 1 THEN n ELSE n + 1

VP8GetSigned(r0) ==
  LET r == Loaded(r0)
      split == r.range \div 2
      bit == IF r.value \div 2 ^ r.bits > split THEN 1 ELSE 0
  IN  [bit |-> bit,
       br |-> [r EXCEPT !.range = Odd(@ - bit), !.bits = @ - 1,
                        !.value = @ - bit * (split + 1) * 2 ^ r.bits]]

------------------------------------------------------------------------------
BoolInit ==
  /\ bw = NewWriter /\ br = {} /\ symbols = <<>> /\ decoded = <<>>

Write ==
  /\ br = {} /\ Len(symbols) < MaxSymbols
  /\ \E s \in Symbols :
       /\ bw' = PutSymbol(bw, s)
       /\ symbols' = Append(symbols, s)
  /\ UNCHANGED <<br, decoded>>

\* VP8BitWriterFinish(), then VP8InitBitReader() on the buffer.
Finish ==
  /\ br = {}
  /\ bw' = FinishedWriter(bw)
  /\ br' = {LoadNewBytes(NewReader)'}
  /\ UNCHANGED <<symbols, decoded>>

Read ==
  \E r \in br :
    /\ Len(decoded) < Len(symbols)
    /\ LET got == VP8GetBit(r, symbols[Len(decoded) + 1].prob)
       IN  decoded' = Append(decoded, got.bit) /\ br' = {got.br}
    /\ UNCHANGED <<bw, symbols>>

AllRead == br # {} /\ Len(decoded) = Len(symbols) /\ UNCHANGED boolVars

BoolNext == Write \/ Finish \/ Read \/ AllRead

------------------------------------------------------------------------------
\* What is read is what was written, whatever carries ran through the bytes
\* that were waiting, and reading it does not run out of data.  "Shift is
\* always 1" in VP8GetSigned(): it reads the same bit, to the same state, as
\* VP8GetBit() unless it reads the first one, which is never a sign.
RoundTrip ==
  /\ \A i \in DOMAIN decoded : decoded[i] = symbols[i].bit
  /\ \A r \in br : ~r.eof
  /\ decoded # <<>> => \A r \in br : VP8GetSigned(r) = VP8GetBit(r, Half)
=============================================================================
