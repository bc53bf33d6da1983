-------------------------- MODULE BackwardReferences --------------------------
(***************************************************************************)
(* The backward references of the lossless encoder                         *)
(* (src/enc/backward_references_enc.c, backward_references_cost_enc.c):    *)
(* the longest match at each pixel, references made of them in three ways, *)
(* the color cache, and the search for cheaper references.                 *)
(*                                                                         *)
(* A reference is a literal, a key of the color cache, or a copy (kind),   *)
(* of len pixels; arg is the color, the key, or the distance, which is     *)
(* replaced with its plane code at the end.  What each of them would cost  *)
(* is an input (a CostModel, the number of bits of the cache): the choices *)
(* between candidates, which depend on entropies, may fall anyhow.         *)
(***************************************************************************)
EXTENDS CostManager, FiniteSetsExt

CONSTANTS
  Pictures,     \* records: a width and the pixels, from 0 on
  Black,        \* what the color cache holds at first
  CacheBits,    \* the sizes of the color cache that may be chosen
  CostModels,   \* records: the costs of literals, keys, lengths and plane codes
  MinLength,    \* MIN_LENGTH, 4 in the code
  MaxCopyLength,   \* MAX_LENGTH, 4095 in the code
  GoodLength,   \* 256 in the code
  WindowSize, MaxIters,   \* which depend on the quality in the code
  HashSize      \* HASH_SIZE, 2 ^ 18 in the code

ASSUME PicturesAssumption ==
  \A p \in Pictures :
    /\ p.width \in Nat \ {0} /\ p.argb # <<>>
    /\ DOMAIN p.argb = 0..(Cardinality(DOMAIN p.argb) - 1)

VARIABLES
  picture, lowEffort, cacheBits, costModel,   \* inputs
  chain,       \* hash_chain->offset_length_, or hash_chain_box
  refs,        \* the references
  stage,       \* where the encoder is
  manager,     \* cost_manager
  hashers,     \* the color cache while costs are compared
  i, offsetPrev, lenPrev, offsetCost, firstIsConstant, reach,   \* locals
  offers       \* history: what was offered to each pixel

inputs == <<picture, lowEffort, cacheBits, costModel>>
search == <<manager, hashers, i, offsetPrev, lenPrev, offsetCost, firstIsConstant, reach, offers>>
refsVars == <<inputs, chain, refs, stage, search>>

Argb == picture.argb
XSize == picture.width
Size == Cardinality(DOMAIN Argb)

Literal(color) == [kind |-> "literal", len |-> 1, arg |-> color]
CacheIdx(key) == [kind |-> "cache", len |-> 1, arg |-> key]
Copy(dist, len) == [kind |-> "copy", len |-> len, arg |-> dist]

Smallest(a, b) == IF a < b THEN a ELSE b

\* VP8LVectorMismatch(), bounded by max.
MatchLength(a, b, max) ==
  Min({max} \cup {k \in 0..(max - 1) : Argb[a + k] # Argb[b + k]})

------------------------------------------------------------------------------
(* Distances and plane codes.                                              *)

plane_to_code_lut ==
  <<96, 73, 55, 39, 23, 13, 5, 1, 255, 255, 255, 255, 255, 255, 255, 255,
    101, 78, 58, 42, 26, 16, 8, 2, 0, 3, 9, 17, 27, 43, 59, 79,
    102, 86, 62, 46, 32, 20, 10, 6, 4, 7, 11, 21, 33, 47, 63, 87,
    105, 90, 70, 52, 37, 28, 18, 14, 12, 15, 19, 29, 38, 53, 71, 91,
    110, 99, 82, 66, 48, 35, 30, 24, 22, 25, 31, 36, 49, 67, 83, 100,
    115, 108, 94, 76, 64, 50, 44, 40, 34, 41, 45, 51, 65, 77, 95, 109,
    118, 113, 103, 92, 80, 68, 60, 56, 54, 57, 61, 69, 81, 93, 104, 114,
    119, 116, 111, 106, 97, 88, 84, 74, 72, 75, 85, 89, 98, 107, 112, 117>>

\* VP8LDistanceToPlaneCode(): near in the row, or near in the row above.
DistanceToPlaneCode(xsize, dist) ==
  LET yoffset == dist \div xsize
      xoffset == dist % xsize
  IN  IF xoffset <= 8 /\ yoffset < 8
      THEN plane_to_code_lut[1 + yoffset * 16 + 8 - xoffset] + 1
      ELSE IF xoffset > xsize - 8 /\ yoffset < 7
      THEN plane_to_code_lut[1 + (yoffset + 1) * 16 + 8 + (xsize - xoffset)] + 1
      ELSE dist + 120

\* kCodeToPlane of the decoder, in decimal.
kCodeToPlane ==
  <<24, 7, 23, 25, 40, 6, 39, 41, 22, 26, 38, 42, 56, 5, 55, 57, 21, 27, 54, 58,
    37, 43, 72, 4, 71, 73, 20, 28, 53, 59, 70, 74, 36, 44, 88, 69, 75, 52, 60, 3,
    87, 89, 19, 29, 86, 90, 35, 45, 68, 76, 85, 91, 51, 61, 104, 2, 103, 105, 18, 30,
    102, 106, 34, 46, 84, 92, 67, 77, 101, 107, 50, 62, 120, 1, 119, 121, 83, 93, 17, 31,
    100, 108, 66, 78, 118, 122, 33, 47, 117, 123, 49, 63, 99, 109, 82, 94, 0, 116, 124, 65,
    79, 16, 32, 98, 110, 48, 115, 125, 81, 95, 64, 114, 126, 97, 111, 80, 113, 127, 96, 112>>

\* PlaneCodeToDistance() of the decoder
PlaneCodeToDistance(xsize, code) ==
  IF code > 120 THEN code - 120
  ELSE LET plane == kCodeToPlane[code]
           dist == (plane \div 16) * xsize + 8 - (plane % 16)
       IN  IF dist >= 1 THEN dist ELSE 1

------------------------------------------------------------------------------
(* VP8LHashChainFill()                                                     *)

NoMatch == [offset |-> 0, len |-> 0]

\* What the hash of a pixel is taken of: it and the next one or, in a run, it
\* and what remains of the run.
RunLength(pos) == MatchLength(pos, pos + 1, Size - 1 - pos) + 1
HashKey(pos) ==
  IF RunLength(pos) >= 3 THEN <<Argb[pos], RunLength(pos) - 2>> ELSE <<Argb[pos], Argb[pos + 1]>>
HashCode(key) == (3 * key[1] + 5 * key[2]) % HashSize

\* The pixels before the last MaxCopyLength ones of a run are not linked.
Linked(pos) == RunLength(pos) - 2 <= MaxCopyLength

\* The chain that links pixels of the same hash.  It shares its array with the
\* result, whose first element is set at the start.
Links ==
  [pos \in 0..(Size - 2) |->
     LET code == HashCode(HashKey(pos))
         before == {q \in 0..(pos - 1) : Linked(q) /\ HashCode(HashKey(q)) = code}
     IN  IF pos = 0 THEN 0 ELSE IF Linked(pos) THEN Max({-1} \cup before) ELSE -1]

\* The match at a pixel that no match to its right extends to.
LongestMatch(links, base) ==
  LET maxLen == Smallest(MaxCopyLength, Size - 1 - base)
      minPos == IF base > WindowSize THEN base - WindowSize ELSE 0
      try(best, pos) ==
        LET len == MatchLength(pos, base, maxLen) IN
        IF len > best.len THEN [offset |-> base - pos, len |-> len] ELSE best
      above == IF ~lowEffort /\ base >= XSize THEN try(NoMatch, base - XSize) ELSE NoMatch
      near == IF lowEffort THEN NoMatch ELSE try(above, base - 1)
      iters == MaxIters - (IF lowEffort THEN 0 ELSE IF base >= XSize THEN 2 ELSE 1)
      from[k \in 0..iters] ==   \* after k turns of the loop
        IF k = 0 THEN [best |-> near, pos |-> IF near.len = MaxCopyLength THEN -1 ELSE links[base]]
        ELSE LET f == from[k - 1]
                 best == try(f.best, f.pos)
             IN  IF f.pos < minPos THEN f
                 ELSE [best |-> best,
                       pos |-> IF best # f.best /\ best.len >= Smallest(maxLen, GoodLength)
                               THEN -1 ELSE links[f.pos]]
  IN  from[iters - 1].best

\* The match m of the next pixel also holds one pixel to the left.
ExtendsLeft(m, pos) ==
  /\ m.offset # 0 /\ pos >= m.offset /\ Argb[pos - m.offset] = Argb[pos]
  /\ ~(m.len = MaxCopyLength /\ m.offset # 1 /\ pos + MaxCopyLength < m.maxBase)

HashChain ==
  LET links == Links
      match[pos \in 1..(Size - 1)] ==
        IF pos = Size - 1 THEN NoMatch @@ [maxBase |-> 0]
        ELSE LET m == match[pos + 1] IN
             IF ExtendsLeft(m, pos)
             THEN IF m.len < MaxCopyLength THEN [m EXCEPT !.len = @ + 1, !.maxBase = pos] ELSE m
             ELSE LongestMatch(links, pos) @@ [maxBase |-> pos]
  IN  [pos \in 0..(Size - 1) |->
         IF pos = 0 \/ Size <= 2 THEN NoMatch
         ELSE [offset |-> match[pos].offset, len |-> match[pos].len]]

------------------------------------------------------------------------------
(* References from matches, without a color cache.                         *)

\* References from the first pixel on, when Next(pos) is the one at pos.
ReferencesBy(Ref(_)) ==
  LET from[pos \in 0..Size] ==
        IF pos = Size THEN <<>> ELSE <<Ref(pos)>> \o from[pos + Ref(pos).len]
  IN  from[0]

\* BackwardReferencesRle(): copies of the pixel before or of the row above.
RleReference(pos) ==
  LET max == Smallest(MaxCopyLength, Size - pos)
      rle == IF pos = 0 THEN 0 ELSE MatchLength(pos, pos - 1, max)
      row == IF pos < XSize THEN 0 ELSE MatchLength(pos, pos - XSize, max)
  IN  IF pos > 0 /\ rle >= row /\ rle >= MinLength THEN Copy(1, rle)
      ELSE IF pos > 0 /\ row >= MinLength THEN Copy(XSize, row)
      ELSE Literal(Argb[pos])

\* BackwardReferencesLz77(): the match at pos is cut where the next one then
\* reaches furthest.
Lz77Reference(ch, pos) ==
  LET last == Smallest(pos + ch[pos].len, Size - 1)
      reaches(j) == j + IF ch[j].len >= MinLength THEN ch[j].len ELSE 1
      furthest == Max({reaches(j) : j \in (pos + 1)..last})
      firstToEnd == {j \in (pos + 1)..last : reaches(j) >= Size}
      best == IF firstToEnd # {} THEN Min(firstToEnd)
              ELSE Min({j \in (pos + 1)..last : reaches(j) = furthest})
      len == IF last = pos THEN ch[pos].len ELSE best - pos
  IN  IF ch[pos].len >= MinLength /\ len > 1 THEN Copy(ch[pos].offset, len)
      ELSE Literal(Argb[pos])

\* The offsets that have the shortest plane codes, in the order of these.
\* For narrow pictures some of them are the same offset, or none.
WindowOffsets ==
  LET offset == [x \in -6..6, y \in 0..6 |-> y * XSize + x]
      at(code) == {o \in DOMAIN offset :
                     offset[o] > 0 /\ DistanceToPlaneCode(XSize, offset[o]) - 1 = code}
      codes == SelectSeq([k \in 1..32 |-> k - 1], LAMBDA code : at(code) # {})
  IN  [k \in DOMAIN codes |-> offset[CHOOSE o \in at(codes[k]) : TRUE]]

\* BackwardReferencesLz77Box(): the longest match at one of these offsets.
BoxChain(best) ==
  LET offsets == WindowOffsets
      new == SelectSeq(offsets, LAMBDA o : \A k \in DOMAIN offsets : o # offsets[k] + 1)
      counts == [pos \in 0..(Size - 1) |-> Smallest(MaxCopyLength, RunLength(pos))]
      \* the longest match, a run of equal pixels after the other
      length(pos, offset) ==
        LET after[k \in 0..(2 * Size)] ==
              IF k > MaxCopyLength \/ pos + k >= Size \/ Argb[pos + k - offset] # Argb[pos + k] THEN k
              ELSE LET a == counts[pos + k - offset]
                       b == counts[pos + k]
                   IN  IF a # b THEN k + Smallest(a, b) ELSE after[k + a]
        IN  IF pos < offset THEN 0 ELSE Smallest(MaxCopyLength, after[0])
      \* the first of the offsets that beats the first guess by the most
      longest(pos, among, guess) ==
        LET better == {k \in DOMAIN among : length(pos, among[k]) > guess.len}
            most == Max({length(pos, among[k]) : k \in better})
        IN  IF better = {} THEN guess
            ELSE [offset |-> among[Min({k \in better : length(pos, among[k]) = most})], len |-> most]
      chosen[pos \in 0..(Size - 1)] ==
        IF pos = 0 THEN NoMatch
        ELSE LET prev == chosen[pos - 1]
                 usePrev == prev.len > 1 /\ prev.len < MaxCopyLength
                 match ==
                   IF best[pos].len >= MaxCopyLength /\ best[pos].offset \in Range(offsets) THEN best[pos]
                   ELSE IF usePrev THEN longest(pos, new, [prev EXCEPT !.len = @ - 1])
                   ELSE longest(pos, offsets, NoMatch)
             IN  IF match.len <= MinLength THEN NoMatch ELSE match
  IN  chosen

\* BackwardRefsWithLocalCache(): colors that the cache holds become keys.
Key(color, bits) == color % 2 ^ bits
NewCache(bits) == [k \in 0..(2 ^ bits - 1) |-> Black]
Insert(cache, color, bits) == [cache EXCEPT ![Key(color, bits)] = color]
Holds(cache, color, bits) == cache[Key(color, bits)] = color

InsertAll(cache, first, len, bits) ==
  FoldLeft(LAMBDA c, k : Insert(c, Argb[first + k - 1], bits), cache, [k \in 1..len |-> k])

CopiesNotInserted(cache, r, pos, bits) ==                          \* (faulty)
  IF r.kind = "copy" THEN cache ELSE Insert(cache, r.arg, bits)

AfterReference(cache, r, pos, bits) ==
  IF r.kind = "copy" THEN InsertAll(cache, pos, r.len, bits) ELSE Insert(cache, r.arg, bits)

WithLocalCache(references, bits) ==
  LET next(s, r) ==
        [cache |-> AfterReference(s.cache, r, s.pos, bits), pos |-> s.pos + r.len,
         out |-> Append(s.out, IF r.kind = "literal" /\ Holds(s.cache, r.arg, bits)
                               THEN CacheIdx(Key(r.arg, bits)) ELSE r)]
  IN  FoldLeft(next, [cache |-> NewCache(bits), pos |-> 0, out |-> <<>>], references).out

\* BackwardReferences2DLocality()
TwoDLocality(references) ==
  [k \in DOMAIN references |->
     IF references[k].kind = "copy"
     THEN [references[k] EXCEPT !.arg = DistanceToPlaneCode(XSize, @)] ELSE references[k]]

------------------------------------------------------------------------------
(* The encoder.                                                            *)

NoCost == [literal |-> <<>>]
NoPicture == [width |-> 1, argb |-> [k \in {0} |-> Black]]

RefsInit ==
  /\ cacheBits = 0 /\ costModel = NoCost
  /\ chain = <<>> /\ refs = <<>> /\ stage = "chain"
  /\ manager = <<>> /\ hashers = <<>> /\ i = 0 /\ offsetPrev = -1 /\ lenPrev = -1
  /\ offsetCost = -1 /\ firstIsConstant = FALSE /\ reach = 0 /\ offers = <<>>

Fill ==
  /\ stage = "chain"
  /\ chain' = HashChain /\ stage' = "lz77"
  /\ UNCHANGED <<inputs, refs, search>>

\* With low effort there is no other way, and no color cache.
Lz77 ==
  /\ stage = "lz77"
  /\ refs' = ReferencesBy(LAMBDA pos : Lz77Reference(chain, pos))
  /\ stage' = IF lowEffort THEN "chosen" ELSE "found"
  /\ UNCHANGED <<inputs, chain, search>>

Rle ==
  /\ stage = "lz77" /\ ~lowEffort
  /\ refs' = ReferencesBy(RleReference)
  /\ stage' = "rle"
  /\ UNCHANGED <<inputs, chain, search>>

Lz77Box ==
  /\ stage = "lz77" /\ ~lowEffort
  /\ chain' = BoxChain(chain)
  /\ refs' = ReferencesBy(LAMBDA pos : Lz77Reference(chain', pos))
  /\ stage' = "found"
  /\ UNCHANGED <<inputs, search>>

\* The number of bits that CalculateBestCacheSize() finds.
LocalCache ==
  /\ stage \in {"rle", "found"}
  /\ cacheBits' \in CacheBits
  /\ refs' = IF cacheBits' > 0 THEN WithLocalCache(refs, cacheBits') ELSE refs
  /\ stage' = "chosen"
  /\ UNCHANGED <<picture, lowEffort, costModel, chain, search>>

------------------------------------------------------------------------------
(* BackwardReferencesHashChainDistanceOnly(), a pixel at a time: the least *)
(* cost of each pixel, and the length of the reference that ends there.    *)

LengthCost == [k \in 1..Smallest(Size, MaxCopyLength) |-> costModel.length[k]]

UsesKey(pos) == cacheBits > 0 /\ Holds(hashers, Argb[pos], cacheBits)

\* AddSingleLiteralWithCostModel()
LiteralCost(pos) ==
  (IF pos = 0 THEN 0 ELSE manager.costs[pos - 1])
  + (IF UsesKey(pos) THEN costModel.cache[Key(Argb[pos], cacheBits)]
     ELSE costModel.literal[Argb[pos]])

WithLiteral == UpdateCosts(manager, i, i + 1, i, LiteralCost(i))

NextPixel(m) ==
  /\ manager' = m
  /\ hashers' = IF UsesKey(i) \/ cacheBits = 0 THEN hashers ELSE Insert(hashers, Argb[i], cacheBits)
  /\ offsetPrev' = chain[i].offset /\ lenPrev' = chain[i].len
  /\ i' = i + 1
  /\ UNCHANGED <<inputs, chain, refs, stage>>

\* What a literal, or a copy of up to len pixels from position, offers.
OfferLiteral == [offers EXCEPT ![i] = @ \cup {[dist |-> 1, cost |-> LiteralCost(i)]}]
OfferCopy(o, cost, position, len) ==
  [p \in DOMAIN o |->
     LET k == p - position + 1 IN
     o[p] \cup IF k \in 1..len THEN {[dist |-> k, cost |-> cost + LengthCost[k]]} ELSE {}]

TraceBackwards ==
  /\ stage = "found"
  /\ cacheBits' \in CacheBits /\ costModel' \in CostModels
  /\ manager' = NewManager(0..(Size - 1))
  /\ hashers' = NewCache(cacheBits')
  /\ offers' = [p \in 0..(Size - 1) |-> {}]
  /\ stage' = "trace"
  /\ UNCHANGED <<picture, lowEffort, chain, refs, i, offsetPrev, lenPrev, offsetCost,
                 firstIsConstant, reach>>

Tracing == stage = "trace" /\ i < Size

\* The first pixel, or one without a match.
LiteralOnly ==
  /\ Tracing /\ (i = 0 \/ chain[i].len < 2)
  /\ IF i = 0 THEN /\ manager' = WithLiteral /\ i' = 1
                   /\ hashers' = IF UsesKey(0) \/ cacheBits = 0 THEN hashers
                                 ELSE Insert(hashers, Argb[0], cacheBits)
                   /\ UNCHANGED <<inputs, chain, refs, stage, offsetPrev, lenPrev>>
     ELSE NextPixel(UpdateCostAtIndex(WithLiteral, i, TRUE))
  /\ offers' = OfferLiteral
  /\ UNCHANGED <<offsetCost, firstIsConstant, reach>>

NewOffset ==
  /\ Tracing /\ i > 0 /\ chain[i].len >= 2 /\ chain[i].offset # offsetPrev
  /\ offsetCost' = costModel.distance[DistanceToPlaneCode(XSize, chain[i].offset)]
  /\ firstIsConstant' = TRUE
  /\ LET cost == manager.costs[i - 1] + offsetCost'
         pushed == PushInterval(WithLiteral, cost, i, chain[i].len, LengthCost)
     IN  /\ NextPixel(UpdateCostAtIndex(pushed, i, TRUE))
         /\ offers' = OfferCopy(OfferLiteral, cost, i, chain[i].len)
  /\ UNCHANGED reach

\* The last pixel up to r + 1 that continues with the same offset; i <= r, or the
\* match of the pixel before would have been of another offset.
LastOfOffset(r) ==
  Min({r + 1} \cup {j \in i..r : chain[j + 1].offset # chain[i].offset})

\* The last pixel that copies with this offset reached.
Reach == IF firstIsConstant THEN i - 1 + lenPrev - 1 ELSE reach
SamePixelOffset == Tracing /\ i > 0 /\ chain[i].len >= 2 /\ chain[i].offset = offsetPrev
GoesFurther == i + chain[i].len - 1 > Reach

\* With the same offset as before, a copy is only offered from where the
\* previous one ends, or where the offset changes.
SameOffset ==
  /\ SamePixelOffset
  /\ firstIsConstant' = FALSE
  /\ LET j == LastOfOffset(Reach)
         updated == UpdateCostAtIndex(UpdateCostAtIndex(WithLiteral, j - 1, FALSE), j, FALSE)
         cost == updated.costs[j - 1] + offsetCost
         pushed == PushInterval(updated, cost, j, chain[j].len, LengthCost)
     IN  IF GoesFurther
         THEN /\ NextPixel(UpdateCostAtIndex(pushed, i, TRUE))
              /\ offers' = OfferCopy(OfferLiteral, cost, j, chain[j].len)
              /\ reach' = j + chain[j].len - 1
         ELSE /\ NextPixel(UpdateCostAtIndex(WithLiteral, i, TRUE))
              /\ offers' = OfferLiteral
              /\ reach' = Reach
  /\ UNCHANGED offsetCost

\* TraceBackwards(), from the last pixel, and
\* BackwardReferencesHashChainFollowChosenPath()
ChosenPath ==
  LET path[pos \in -1..(Size - 1)] ==
        IF pos = -1 THEN <<>> ELSE Append(path[pos - manager.dist[pos]], manager.dist[pos])
  IN  path[Size - 1]

FollowChosenPath ==
  LET next(s, len) ==
        LET color == Argb[s.pos]
            r == IF len # 1 THEN Copy(chain[s.pos].offset, len)
                 ELSE IF cacheBits > 0 /\ Holds(s.cache, color, cacheBits)
                 THEN CacheIdx(Key(color, cacheBits)) ELSE Literal(color)
        IN  [pos |-> s.pos + len, out |-> Append(s.out, r),
             cache |-> InsertAll(s.cache, s.pos, len, cacheBits)]
  IN  FoldLeft(next, [pos |-> 0, out |-> <<>>, cache |-> NewCache(cacheBits)], ChosenPath).out

Follow ==
  /\ stage = "trace" /\ i = Size
  /\ refs' = FollowChosenPath
  /\ stage' = "chosen"
  /\ UNCHANGED <<inputs, chain, search>>

Localize ==
  /\ stage = "chosen"
  /\ refs' = TwoDLocality(refs)
  /\ stage' = "done"
  /\ UNCHANGED <<inputs, chain, search>>

Encoded == stage = "done" /\ UNCHANGED refsVars

RefsNext ==
  \/ Fill \/ Lz77 \/ Rle \/ Lz77Box \/ LocalCache
  \/ TraceBackwards \/ LiteralOnly \/ NewOffset \/ SameOffset \/ Follow
  \/ Localize \/ Encoded

------------------------------------------------------------------------------
(* Properties.                                                             *)

\* What a decoder makes of references: it copies pixels it already has, and
\* puts every pixel in its color cache.  A copy of a pixel it does not have
\* gives none.
Decoded ==
  LET pixel(s, color) ==
        [argb |-> Append(s.argb, color), cache |-> Insert(s.cache, color, cacheBits)]
      copied(s, dist) == pixel(s, s.argb[Len(s.argb) + 1 - dist])
      next(s, r) ==
        CASE r.kind = "literal" -> pixel(s, r.arg)
          [] r.kind = "cache" -> pixel(s, s.cache[r.arg])
          [] r.kind = "copy" ->
               LET dist == PlaneCodeToDistance(XSize, r.arg) IN
               IF dist > Len(s.argb) THEN s
               ELSE FoldLeft(LAMBDA t, k : copied(t, dist), s, [k \in 1..r.len |-> k])
  IN  FoldLeft(next, [argb |-> <<>>, cache |-> NewCache(cacheBits)], refs).argb

\* Whatever references are chosen, with whatever color cache, the decoder makes
\* the picture of them; the matches they come from are not longer than the
\* format and the encoder's array allow; and the decoder's table of plane codes
\* is the inverse of the encoder's, for distances beyond it too.
ReferencesAgree ==
  /\ stage = "chain" =>
       \A d \in 1..(9 * XSize) : PlaneCodeToDistance(XSize, DistanceToPlaneCode(XSize, d)) = d
  /\ stage = "done" => Decoded = [k \in 1..Size |-> Argb[k - 1]]
  /\ \A pos \in DOMAIN chain : chain[pos].len <= MaxCopyLength /\ pos + chain[pos].len <= Size

\* The intervals lose no offer and invent none: when the search is past a
\* pixel, its cost is the least of all that was offered to it, and its length
\* that of an offer of this cost.  And the offers that are not made are copies
\* that others contain: only the longest ones go further (the assertion).
CostsAreLeast ==
  stage = "trace" =>
    /\ \A p \in 0..(i - 1) :
         /\ [dist |-> manager.dist[p], cost |-> manager.costs[p]] \in offers[p]
         /\ \A o \in offers[p] : manager.costs[p] <= o.cost
    /\ SamePixelOffset /\ GoesFurther => chain[i].len \in {MaxCopyLength, Size - i}
=============================================================================
