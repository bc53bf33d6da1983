----------------------- MODULE LosslessDecoder_proofs -----------------------
(***************************************************************************)
(* Proofs about the lossless decoder: the rows that leave it are the       *)
(* picture's, and fit in argb_cache_, for any picture, any tokens and any  *)
(* arrival of the data.                                                    *)
(***************************************************************************)
EXTENDS LosslessDecoder, WellFoundedInduction, TLAPS

------------------------------------------------------------------------------
(* The inductive invariant.                                                *)

\* The variables have the types of the code's; nothing lies outside the picture.
TypeOK ==
  /\ use \in {"image", "alpha"} /\ file \in Files /\ crop \in 1..Height
  /\ arrived \in Nat /\ fresh \in BOOLEAN /\ incremental \in BOOLEAN
  /\ state \in {"header", "data", "done", "error"}
  /\ pc \in {"idle", "loop", "wrap", "rows", "last"}
  /\ br \in Nat /\ lastPixel \in Nat /\ lastRow \in 0..crop
  /\ pixels \in [0..(NumPixels - 1) -> Colors]
  /\ cache \in [Slots -> Colors]
  /\ saved \in [br : Nat, lastPixel : Nat, cache : [Slots -> Colors]]
  /\ lastRowAsked \in Nat /\ src \in Nat /\ row \in Nat /\ col \in Nat
  /\ lastCached \in Nat /\ nextSync \in Nat /\ due \in Nat

RowOf(p) == p \div Width
CacheAt(p) == Insert(EmptyCache, file.picture, 0, p)
Agree(px, qx, n) == \A i \in 0..(n - 1) : px[i] = qx[i]

\* The token of a reader that is after b tokens describes the pixel p.
ReaderAt(b, p) ==
  /\ b \in 0..Len(file.tokens) /\ p \in 0..NumPixels
  /\ IF b < Len(file.tokens) THEN file.tokens[b + 1].at = p ELSE p = NumPixels

\* Decoding can go on from there.
CanResume(b, p, ch) == ReaderAt(b, p) /\ ch = CacheAt(p)

\* The checkpoint, the place between two calls and the place in a call.
PlacesInv ==
  /\ CanResume(saved.br, saved.lastPixel, saved.cache)
  /\ state \in {"header", "data"} /\ pc = "idle" =>
       /\ CanResume(br, lastPixel, cache)
       /\ saved.lastPixel <= lastPixel
       /\ Agree(pixels, file.picture, lastPixel)
  /\ pc # "idle" =>
       /\ ReaderAt(br, src)
       /\ lastCached \in 0..src /\ cache = CacheAt(lastCached)
       /\ saved.lastPixel <= src
       /\ Agree(pixels, file.picture, src)

\* Within a call.  A token in the middle of a row is no place for a checkpoint
\* nor for the end of the call: only there may colors wait for the cache.
CallInv ==
  /\ use = "alpha" => ~incremental
  /\ pc # "idle" =>
       /\ state = "data"
       /\ lastRowAsked \in 1..crop /\ (use = "image" => lastRowAsked = crop)
       /\ row * Width + col = src
       /\ lastRow <= lastRowAsked
       /\ ~incremental => nextSync > Height
  /\ pc \in {"loop", "last"} => col < Width
  /\ pc = "loop" =>
       lastCached = src \/ (row < nextSync /\ src < lastRowAsked * Width)
  /\ pc = "rows" => due = row /\ IsDue(row) /\ lastRow <= due
  /\ pc = "last" =>
       lastCached = src /\ due = lastRowAsked /\ due <= row /\ lastRow <= due

Row == IF pc = "idle" THEN RowOf(lastPixel) ELSE row

\* The rows given away are all those that were due, and may be ahead of the
\* place where decoding resumes, by less than a batch.
RowsInv ==
  state \in {"header", "data"} =>
    /\ use = "alpha" => lastRow <= Row
    /\ use = "image" =>
         /\ lastRow % CacheRows = 0 /\ lastRow < Row + CacheRows
         /\ \A r \in 0..Row :
              r <= crop /\ r % CacheRows = 0 /\ ~(pc = "rows" /\ r = row)
                => r <= lastRow

\* A checkpoint is less than a batch behind the rows given away, unless the
\* next iteration takes a new one.
SyncInv ==
  pc # "idle" /\ incremental /\ row < nextSync =>
    /\ nextSync = RowOf(saved.lastPixel) + SyncRows
    /\ lastRow < RowOf(saved.lastPixel) + CacheRows

LosslessInv == TypeOK /\ PlacesInv /\ CallInv /\ RowsInv /\ SyncInv /\ OutputRight

------------------------------------------------------------------------------
(* Numbers.                                                                *)

\* A nonempty set of natural numbers has a least element.
LEMMA Least ==
  ASSUME NEW S \in SUBSET Nat, S # {}
  PROVE  \E x \in S : \A y \in S : x <= y
<1>1. PICK x \in S : \A y \in S : ~ (<<y, x>> \in OpToRel(<, Nat))
  BY WFMin, NatLessThanWellFounded
<1>2. ASSUME NEW y \in S PROVE x <= y
  <2>1. ~ (y < x)
    BY <1>1 DEF OpToRel
  <2> QED BY <2>1
<1> QED BY <1>2

\* A nonempty set of integers that has a bound has a maximum.
LEMMA MaxOfBounded ==
  ASSUME NEW n \in Int, NEW S \in SUBSET Int, S # {}, \A s \in S : s <= n
  PROVE  Max(S) \in S /\ \A y \in S : y <= Max(S)
<1> DEFINE D == {k \in Nat : n - k \in S}
<1>1. ASSUME NEW s \in S PROVE n - s \in D
  <2>1. n - s \in Nat /\ n - (n - s) = s
    OBVIOUS
  <2> QED BY <2>1
<1>2. PICK k \in D : \A l \in D : k <= l
  BY <1>1, Least
<1>3. n - k \in S
  OBVIOUS
<1>4. ASSUME NEW y \in S PROVE n - k >= y
  <2>1. k <= n - y
    BY <1>1, <1>2
  <2> HIDE DEF D
  <2>2. k \in Int
    BY DEF D
  <2> QED BY <2>1, <2>2
<1>5. \A y \in S : n - k >= y
  BY <1>4
<1>6. Max(S) \in S /\ \A y \in S : Max(S) >= y
  BY <1>3, <1>5, Zenon DEF Max
<1> QED BY <1>6

\* Min of a pair is the lesser one.
LEMMA MinOfTwo ==
  ASSUME NEW a \in Int, NEW b \in Int
  PROVE  Min({a, b}) = IF a <= b THEN a ELSE b
<1> DEFINE m == IF a <= b THEN a ELSE b
<1>1. m \in {a, b} /\ \A y \in {a, b} : m <= y
  OBVIOUS
<1>2. \A x \in {a, b} : (\A y \in {a, b} : x <= y) => x = m
  OBVIOUS
<1> HIDE DEF m
<1>3. Min({a, b}) \in {a, b} /\ \A y \in {a, b} : Min({a, b}) <= y
  BY <1>1, Zenon DEF Min
<1>4. Min({a, b}) = m
  BY <1>2, <1>3, Zenon
<1> QED BY <1>4 DEF m

\* Pictures that agree on a part agree on a lesser one.
LEMMA AgreeBelow ==
  ASSUME NEW px, NEW qx, NEW m \in Int, NEW n \in Int, m <= n, Agree(px, qx, n)
  PROVE  Agree(px, qx, m)
<1>1. \A i \in 0..m - 1 : i \in 0..n - 1
  OBVIOUS
<1> QED BY <1>1, Zenon DEF Agree

\* Rows in order have their first pixels in order.
LEMMA TimesInOrder ==
  ASSUME NEW a \in Nat, NEW b \in Nat, NEW c \in Nat, a <= b
  PROVE  a * c <= b * c
OBVIOUS

\* A place is a row and a column in it.
LEMMA PlaceOfRow ==
  ASSUME NEW p \in Nat, NEW w \in Nat \ {0}
  PROVE  /\ p \div w \in Nat /\ p % w \in 0..(w - 1)
         /\ (p \div w) * w + (p % w) = p
<1>1. p \div w \in Nat
  OBVIOUS
<1>2. p % w \in 0..(w - 1)
  OBVIOUS
<1>3. (p \div w) * w + (p % w) = p
  OBVIOUS
<1> QED BY <1>1, <1>2, <1>3

\* The row of a place is the one it was made of.
LEMMA RowOfPlace ==
  ASSUME NEW r \in Nat, NEW w \in Nat \ {0}, NEW c \in 0..(w - 1)
  PROVE  (r * w + c) \div w = r
<1> DEFINE p == r * w + c
           q == p \div w
<1>1. p \in Nat
  OBVIOUS
<1>2. q \in Nat /\ q * w <= p /\ p < (q + 1) * w
  BY <1>1
<1> HIDE DEF q
<1>3. CASE q < r
  <2>1. (q + 1) * w <= r * w
    BY <1>2, <1>3
  <2> QED BY <1>2, <2>1
<1>4. CASE r < q
  <2>1. (r + 1) * w <= q * w
    BY <1>2, <1>4
  <2> QED BY <1>2, <2>1
<1>5. q = r
  BY <1>2, <1>3, <1>4
<1> QED BY <1>5 DEF q

\* A place that is not later is in a row that is not later.
LEMMA RowsInOrder ==
  ASSUME NEW p \in Nat, NEW q \in Nat, p <= q, NEW w \in Nat \ {0}
  PROVE  p \div w <= q \div w
<1> DEFINE a == p \div w
           b == q \div w
<1>1. a \in Nat /\ b \in Nat /\ a * w <= p /\ q < (b + 1) * w
  OBVIOUS
<1> HIDE DEF a, b
<1>2. CASE b < a
  <2>1. (b + 1) * w <= a * w
    BY <1>1, <1>2
  <2> QED BY <1>1, <2>1
<1>3. a <= b
  BY <1>1, <1>2
<1> QED BY <1>3 DEF a, b

\* Two multiples of c are not less than c apart.
LEMMA MultiplesApart ==
  ASSUME NEW c \in Nat \ {0}, NEW a \in Nat, NEW b \in Nat,
         a % c = 0, b % c = 0, a < b + c
  PROVE  a <= b
<1> DEFINE k == a \div c
           l == b \div c
<1>1. k \in Nat /\ l \in Nat /\ k * c = a /\ l * c = b
  BY PlaceOfRow
<1> HIDE DEF k, l
<1>2. CASE l < k
  <2>1. (l + 1) * c <= k * c
    BY <1>1, <1>2
  <2>2. (l + 1) * c = l * c + c
    BY <1>1
  <2> QED BY <1>1, <2>1, <2>2
<1>3. CASE k <= l
  BY <1>1, <1>3
<1> QED BY <1>1, <1>2, <1>3

\* Below n there is a multiple of c, less than c away.
LEMMA MultipleBelow ==
  ASSUME NEW c \in Nat \ {0}, NEW n \in Nat
  PROVE  \E m \in 0..n : m % c = 0 /\ n < m + c
<1> DEFINE k == n \div c
<1>1. k \in Nat /\ n % c \in 0..(c - 1) /\ k * c + (n % c) = n
  BY PlaceOfRow
<1> HIDE DEF k
<1>2. k * c \in Nat /\ k * c <= n /\ n < k * c + c
  <2>1. k * c \in Nat
    BY <1>1
  <2> QED BY <1>1, <2>1
<1>3. (k * c) % c = 0
  BY <1>1
<1> QED BY <1>2, <1>3

\* A multiple of c, not 0, has another one c before it.
LEMMA MultipleBefore ==
  ASSUME NEW c \in Nat \ {0}, NEW n \in Nat \ {0}, n % c = 0
  PROVE  n - c \in Nat /\ (n - c) % c = 0
<1> DEFINE k == n \div c
<1>1. k \in Nat /\ k * c = n
  BY PlaceOfRow
<1> HIDE DEF k
<1>2. k - 1 \in Nat
  BY <1>1
<1>3. n - c = (k - 1) * c
  BY <1>1
<1>4. \A j \in Nat : j * c \in Nat /\ (j * c) % c = 0
  <2>1. \A j \in Nat : j * c \in Nat
    OBVIOUS
  <2>2. \A j \in Nat : (j * c) % c = 0
    OBVIOUS
  <2> QED BY <2>1, <2>2
<1>5. (k - 1) * c \in Nat /\ ((k - 1) * c) % c = 0
  BY <1>2, <1>4, Zenon
<1> QED BY <1>3, <1>5

------------------------------------------------------------------------------
(* The color cache, copies and rows.                                       *)

\* The pixels a .. b-1 of px that go to the slot s.
Hits(px, a, b, s) == {i \in a..(b - 1) : Slot[px[i]] = s}

\* The last of them exists.
LEMMA HitsAreBounded ==
  ASSUME NEW px, NEW a \in Nat, NEW b \in Nat, NEW s, Hits(px, a, b, s) # {}
  PROVE  /\ Max(Hits(px, a, b, s)) \in Hits(px, a, b, s)
         /\ Max(Hits(px, a, b, s)) \in a..(b - 1)
         /\ \A i \in Hits(px, a, b, s) : i <= Max(Hits(px, a, b, s))
<1> DEFINE I == Hits(px, a, b, s)
<1>1. I \in SUBSET Int /\ (\A i \in I : i <= b) /\ I \subseteq a..(b - 1)
  BY DEF Hits
<1> HIDE DEF I
<1>2. I # {} /\ b \in Int
  BY DEF I
<1>3. Max(I) \in I /\ \A i \in I : i <= Max(I)
  BY <1>1, <1>2, MaxOfBounded
<1>4. Max(I) \in a..(b - 1)
  BY <1>1, <1>3
<1> QED BY <1>3, <1>4 DEF I

\* What Insert() leaves in a slot.
LEMMA InsertAt ==
  ASSUME NEW px, NEW ch, NEW a, NEW b, NEW s \in Slots
  PROVE  Insert(ch, px, a, b)[s] = IF Hits(px, a, b, s) = {} THEN ch[s]
                                   ELSE px[Max(Hits(px, a, b, s))]
BY DEF Insert, Hits

\* A color cache is a function on its slots.
LEMMA InsertIsFunction ==
  ASSUME NEW px, NEW ch, NEW a, NEW b
  PROVE  Insert(ch, px, a, b) = [s \in Slots |-> Insert(ch, px, a, b)[s]]
BY DEF Insert

\* Inserting keeps the type of a color cache.
LEMMA InsertType ==
  ASSUME NEW px \in [0..(NumPixels - 1) -> Colors], NEW ch \in [Slots -> Colors],
         NEW a \in Nat, NEW b \in 0..NumPixels
  PROVE  Insert(ch, px, a, b) \in [Slots -> Colors]
<1>1. ASSUME NEW s \in Slots
      PROVE  Insert(ch, px, a, b)[s] \in Colors
  <2> DEFINE M == Max(Hits(px, a, b, s))
  <2>0. Insert(ch, px, a, b)[s] = IF Hits(px, a, b, s) = {} THEN ch[s] ELSE px[M]
    BY DEF Insert, Hits
  <2>1. CASE Hits(px, a, b, s) = {}
    BY <2>0, <2>1
  <2>2. CASE Hits(px, a, b, s) # {}
    <3>1. NumPixels \in Nat /\ b \in Nat
      BY SizesAssumption DEF NumPixels
    <3>2. M \in a..(b - 1)
      BY <2>2, <3>1, HitsAreBounded
    <3> HIDE DEF M
    <3>3. px[M] \in Colors
      BY <3>1, <3>2
    <3> QED BY <2>0, <2>2, <3>3
  <2> QED BY <2>1, <2>2
<1> QED BY <1>1, InsertIsFunction

\* Only the pixels that are inserted matter.
LEMMA InsertSame ==
  ASSUME NEW px, NEW qx, NEW ch, NEW a \in Nat, NEW b \in Nat,
         \A i \in a..(b - 1) : px[i] = qx[i]
  PROVE  Insert(ch, px, a, b) = Insert(ch, qx, a, b)
<1>1. ASSUME NEW s \in Slots
      PROVE  Insert(ch, px, a, b)[s] = Insert(ch, qx, a, b)[s]
  <2>1. Hits(px, a, b, s) = Hits(qx, a, b, s)
    BY DEF Hits
  <2> DEFINE I == Hits(px, a, b, s)
  <2>2. /\ Insert(ch, px, a, b)[s] = IF I = {} THEN ch[s] ELSE px[Max(I)]
        /\ Insert(ch, qx, a, b)[s] = IF I = {} THEN ch[s] ELSE qx[Max(I)]
    BY <2>1, InsertAt
  <2>3. I # {} => px[Max(I)] = qx[Max(I)]
    BY HitsAreBounded
  <2> HIDE DEF I
  <2> QED BY <2>2, <2>3
<1> QED BY <1>1, InsertIsFunction

\* No pixel leaves the color cache as it was.
LEMMA InsertNothing ==
  ASSUME NEW px, NEW ch \in [Slots -> Colors], NEW a \in Nat
  PROVE  Insert(ch, px, a, a) = ch
<1>1. \A s \in Slots : Hits(px, a, a, s) = {}
  BY DEF Hits
<1>2. \A s \in Slots : Insert(ch, px, a, a)[s] = ch[s]
  BY <1>1, InsertAt
<1> QED BY <1>2, InsertIsFunction

\* Inserting in two steps is inserting at once: why the cache may be late.
LEMMA InsertInTwo ==
  ASSUME NEW px, NEW ch, NEW a \in Nat, NEW b \in Nat, NEW c \in Nat, a <= b, b <= c
  PROVE  Insert(Insert(ch, px, a, b), px, b, c) = Insert(ch, px, a, c)
<1> DEFINE first == Insert(ch, px, a, b)
<1>1. ASSUME NEW s \in Slots
      PROVE  Insert(first, px, b, c)[s] = Insert(ch, px, a, c)[s]
  <2> DEFINE I == Hits(px, a, b, s)
             J == Hits(px, b, c, s)
             K == Hits(px, a, c, s)
  <2>1. first[s] = IF I = {} THEN ch[s] ELSE px[Max(I)]
    BY InsertAt
  <2>2. Insert(first, px, b, c)[s] = IF J = {} THEN first[s] ELSE px[Max(J)]
    BY InsertAt
  <2>3. Insert(ch, px, a, c)[s] = IF K = {} THEN ch[s] ELSE px[Max(K)]
    BY InsertAt
  <2>4. K = I \cup J /\ \A i \in K : i >= b => i \in J
    BY DEF Hits
  <2>5. CASE J = {}
    <3>1. K = I
      BY <2>4, <2>5
    <3> HIDE DEF first, I, J, K
    <3> QED BY <2>1, <2>2, <2>3, <2>5, <3>1
  <2>6. CASE J # {}
    <3>1. Max(J) \in J /\ Max(J) \in b..(c - 1) /\ \A y \in J : y <= Max(J)
      BY <2>6, HitsAreBounded
    <3>2. K # {}
      BY <2>4, <2>6
    <3>3. Max(K) \in K /\ Max(K) \in a..(c - 1) /\ \A y \in K : y <= Max(K)
      BY <3>2, HitsAreBounded
    <3> HIDE DEF first, I, J, K
    <3>4. Max(J) <= Max(K)
      BY <2>4, <3>1, <3>3
    <3>5. Max(K) <= Max(J)
      BY <2>4, <3>1, <3>3, <3>4
    <3>6. Max(K) = Max(J)
      BY <3>1, <3>3, <3>4, <3>5
    <3> QED BY <2>2, <2>3, <2>6, <3>2, <3>6
  <2> QED BY <2>5, <2>6
<1> QED BY <1>1, InsertIsFunction

\* A copy within the picture reads only pixels before it.
LEMMA CopyRight ==
  ASSUME NEW px \in [0..(NumPixels - 1) -> Colors],
         NEW qx \in [0..(NumPixels - 1) -> Colors],
         NEW at \in Nat, NEW dist \in Nat \ {0}, NEW len \in Nat,
         dist <= at, len <= NumPixels - at,
         qx = CopyBlock(qx, at, dist, len),
         Agree(px, qx, at)
  PROVE  /\ CopyBlock(px, at, dist, len) \in [0..(NumPixels - 1) -> Colors]
         /\ Agree(CopyBlock(px, at, dist, len), qx, at + len)
<1> USE DEF Agree
<1>1. NumPixels \in Nat
  BY SizesAssumption DEF NumPixels
<1>2. ASSUME NEW i \in at..(at + len - 1)
      PROVE  /\ at - dist + ((i - at) % dist) \in 0..(at - 1)
             /\ i \in 0..(NumPixels - 1)
  <2>1. (i - at) % dist \in 0..(dist - 1)
    <3>1. i - at \in Nat
      OBVIOUS
    <3> QED BY <3>1, PlaceOfRow
  <2> DEFINE m == (i - at) % dist
  <2> HIDE DEF m
  <2>2. m \in 0..(dist - 1)
    BY <2>1 DEF m
  <2>3. at - dist + m \in 0..(at - 1)
    BY <2>2
  <2>4. i \in 0..(NumPixels - 1)
    BY <1>1
  <2> QED BY <2>3, <2>4 DEF m
<1>3. ASSUME NEW i \in at..(at + len - 1)
      PROVE  CopyBlock(px, at, dist, len)[i] = qx[i]
  <2>1. /\ CopyBlock(px, at, dist, len)[i] = px[at - dist + ((i - at) % dist)]
        /\ CopyBlock(qx, at, dist, len)[i] = qx[at - dist + ((i - at) % dist)]
    BY <1>2 DEF CopyBlock
  <2> QED BY <1>2, <2>1
<1>4. ASSUME NEW i \in 0..(NumPixels - 1), i \notin at..(at + len - 1)
      PROVE  CopyBlock(px, at, dist, len)[i] = px[i]
  BY <1>4 DEF CopyBlock
<1>5. CopyBlock(px, at, dist, len) \in [0..(NumPixels - 1) -> Colors]
  <2>1. ASSUME NEW i \in 0..(NumPixels - 1)
        PROVE  CopyBlock(px, at, dist, len)[i] \in Colors
    BY <1>3, <1>4
  <2>2. CopyBlock(px, at, dist, len)
          = [i \in 0..(NumPixels - 1) |-> CopyBlock(px, at, dist, len)[i]]
    BY DEF CopyBlock
  <2> QED BY <2>1, <2>2
<1>6. ASSUME NEW i \in 0..(at + len - 1)
      PROVE  CopyBlock(px, at, dist, len)[i] = qx[i]
  BY <1>1, <1>3, <1>4
<1> QED BY <1>5, <1>6

\* Rows of a picture after its rows before them.
LEMMA RowsFollow ==
  ASSUME NEW px, NEW a \in Nat, NEW n \in Nat
  PROVE  RowsOf(px, 0, a) \o RowsOf(px, a, n) = RowsOf(px, 0, a + n)
<1> DEFINE R(i) == [c \in 0..(Width - 1) |-> px[i * Width + c]]
           S == [k \in 1..a |-> R(k - 1)]
           T == [k \in 1..n |-> R(a + k - 1)]
           U == [k \in 1..(a + n) |-> R(k - 1)]
<1>1. RowsOf(px, 0, a) = S /\ RowsOf(px, a, n) = T /\ RowsOf(px, 0, a + n) = U
  BY DEF RowsOf
<1> HIDE DEF R
<1>2. S \o T = U
  OBVIOUS
<1> QED BY <1>1, <1>2

\* Rows below p are the same in pictures that agree up to p.
LEMMA RowsSame ==
  ASSUME NEW px, NEW qx, NEW a \in Nat, NEW n \in Nat, NEW p \in Nat,
         (a + n) * Width <= p, Agree(px, qx, p)
  PROVE  RowsOf(px, a, n) = RowsOf(qx, a, n)
<1>1. ASSUME NEW k \in 1..n, NEW c \in 0..(Width - 1)
      PROVE  px[(a + k - 1) * Width + c] = qx[(a + k - 1) * Width + c]
  <2> DEFINE r == a + k - 1
  <2>1. r \in Nat /\ r + 1 <= a + n
    OBVIOUS
  <2> HIDE DEF r
  <2>2. (r + 1) * Width <= (a + n) * Width
    BY <2>1, SizesAssumption
  <2>3. r * Width + c \in 0..(p - 1)
    BY <2>1, <2>2, SizesAssumption
  <2>4. px[r * Width + c] = qx[r * Width + c]
    BY <2>3 DEF Agree
  <2> QED BY <2>4 DEF r
<1>2. \A k \in 1..n : [c \in 0..(Width - 1) |-> px[(a + k - 1) * Width + c]]
                     = [c \in 0..(Width - 1) |-> qx[(a + k - 1) * Width + c]]
  BY <1>1
<1> QED BY <1>2 DEF RowsOf

------------------------------------------------------------------------------
(* Tokens.                                                                 *)

\* The token at a place before the end of the picture.
LEMMA TokenHere ==
  ASSUME TypeOK, NEW p \in Nat, ReaderAt(br, p), p < NumPixels
  PROVE  /\ br + 1 \in 1..Len(file.tokens)
         /\ Token.kind \in {"literal", "cache", "copy"}
         /\ Token.at = p /\ Token.len \in Nat \ {0} /\ Token.arg \in Nat
         /\ Token.kind # "copy" => Token.len = 1
         /\ Token.kind = "copy" => Token.arg > 0
         /\ Token.kind = "literal" => Token.arg \in Colors
         /\ Token.kind = "cache" => Token.arg \in Slots
         /\ Describes(Token, file.picture)
         /\ p + Token.len <= NumPixels => ReaderAt(br + 1, p + Token.len)
<1> DEFINE n == Len(file.tokens)
           t == file.tokens[br + 1]
<1>1. /\ file.tokens \in Seq([kind : {"literal", "cache", "copy"}, at : Nat,
                              len : Nat \ {0}, end : Nat, arg : Nat])
      /\ file.tokens[n].at + file.tokens[n].len >= NumPixels
      /\ \A i \in 1..n :
           /\ i < n => file.tokens[i + 1].at = file.tokens[i].at + file.tokens[i].len
           /\ file.tokens[i].kind # "copy" => file.tokens[i].len = 1
           /\ file.tokens[i].kind = "copy" => file.tokens[i].arg > 0
           /\ file.tokens[i].kind = "literal" => file.tokens[i].arg \in Colors
           /\ file.tokens[i].kind = "cache" => file.tokens[i].arg \in Slots
           /\ Describes(file.tokens[i], file.picture)
  BY FilesAssumption DEF TypeOK
<1>2. n \in Nat /\ br \in 0..n /\ br < n /\ t.at = p
  BY <1>1 DEF ReaderAt
<1>3. br + 1 \in 1..n /\ t \in [kind : {"literal", "cache", "copy"}, at : Nat,
                                len : Nat \ {0}, end : Nat, arg : Nat]
  <2>1. br + 1 \in 1..n
    BY <1>2
  <2>2. \A S : file.tokens \in Seq(S) => \A i \in 1..n : file.tokens[i] \in S
    OBVIOUS
  <2> QED BY <1>1, <2>1, <2>2, Zenon
<1>4. ASSUME p + t.len <= NumPixels PROVE ReaderAt(br + 1, p + t.len)
  <2>1. CASE br + 1 < n
    <3>1. file.tokens[br + 1 + 1].at = p + t.len
      BY <1>1, <1>2, <1>3, <2>1
    <3> HIDE DEF t
    <3>2. t.len \in Nat
      BY <1>3
    <3> QED BY <1>2, <1>4, <2>1, <3>1, <3>2, SizesAssumption DEF ReaderAt, NumPixels
  <2>2. CASE br + 1 = n
    <3>1. p + t.len >= NumPixels
      BY <1>1, <1>2, <2>2
    <3> HIDE DEF t
    <3>2. t.len \in Nat
      BY <1>3
    <3>3. p + t.len = NumPixels
      BY <1>4, <3>1, <3>2, SizesAssumption DEF NumPixels
    <3> QED BY <1>2, <2>2, <3>2, <3>3 DEF ReaderAt
  <2> QED BY <1>2, <2>1, <2>2
<1> QED BY <1>1, <1>2, <1>3, <1>4 DEF Token

------------------------------------------------------------------------------
(* The steps outside of the loop.                                          *)

\* The decoder starts at the first token, with an empty color cache.
LEMMA InitLossless == Init => LosslessInv
<1> SUFFICES ASSUME Init PROVE LosslessInv
  OBVIOUS
<1>1. /\ NumPixels \in Nat /\ NumPixels > 0
      /\ file.picture \in [0..(NumPixels - 1) -> Colors] /\ file.size \in Nat
      /\ Len(file.tokens) \in Nat /\ Len(file.tokens) > 0 /\ file.tokens[1].at = 0
  BY FilesAssumption, SizesAssumption DEF Init, NumPixels
<1>2. EmptyCache \in [Slots -> Colors]
  BY SizesAssumption DEF EmptyCache
<1>3. TypeOK
  <2>1. pixels \in [0..(NumPixels - 1) -> Colors]
    BY SizesAssumption DEF Init
  <2>2. saved \in [br : Nat, lastPixel : Nat, cache : [Slots -> Colors]]
    BY <1>2 DEF Init
  <2>3. arrived \in Nat /\ crop \in 1..Height /\ lastRow \in 0..crop
    BY <1>1, SizesAssumption DEF Init
  <2> QED BY <1>2, <2>1, <2>2, <2>3 DEF Init, TypeOK
<1>4. CanResume(0, 0, EmptyCache)
  <2>1. CacheAt(0) = EmptyCache
    BY <1>2, InsertNothing DEF CacheAt
  <2> QED BY <1>1, <2>1 DEF CanResume, ReaderAt
<1>5. PlacesInv
  BY <1>4 DEF Init, PlacesInv, Agree
<1>6. CallInv /\ SyncInv
  BY DEF Init, CallInv, SyncInv
<1>7. RowsInv
  <2>1. 0 \div Width = 0 /\ 0 % CacheRows = 0
    BY SizesAssumption
  <2> QED BY <2>1, SizesAssumption DEF Init, RowsInv, Row, RowOf
<1>8. OutputRight
  BY DEF Init, OutputRight, RowsOf
<1> QED BY <1>3, <1>5, <1>6, <1>7, <1>8 DEF LosslessInv

\* What data has arrived and which call is made is no matter of the invariant.
LEMMA OutsideLossless ==
  LosslessInv /\ (Receive \/ DecodeHeader \/ HeaderSuspended \/ UNCHANGED vars)
    => LosslessInv'
<1> SUFFICES ASSUME LosslessInv,
                    Receive \/ DecodeHeader \/ HeaderSuspended \/ UNCHANGED vars
             PROVE  LosslessInv'
  OBVIOUS
<1> USE DEF LosslessInv
<1>1. UNCHANGED <<inputs, pc, decoder, locals, output>>
  BY DEF Receive, DecodeHeader, HeaderSuspended, vars
<1>2. TypeOK'
  <2>1. file.size \in Nat
    BY FilesAssumption DEF TypeOK
  <2>2. arrived' \in Nat
    BY <2>1 DEF TypeOK, Receive, DecodeHeader, HeaderSuspended, vars
  <2>4. fresh' \in BOOLEAN
    BY DEF TypeOK, Receive, DecodeHeader, HeaderSuspended, vars
  <2>3. state' \in {"header", "data", "done", "error"}
    BY DEF TypeOK, Receive, DecodeHeader, HeaderSuspended, vars
  <2> QED BY <1>1, <2>2, <2>3, <2>4 DEF TypeOK, inputs, decoder, locals, output
<1>3. \/ state' = state
      \/ pc = "idle" /\ state = "header"
  BY DEF Receive, DecodeHeader, HeaderSuspended, Decoding, vars
<1>4. PlacesInv'
  BY <1>1, <1>3 DEF PlacesInv, CanResume, ReaderAt, CacheAt, Agree, inputs,
     decoder, locals
<1>5. CallInv' /\ SyncInv'
  BY <1>1, <1>3 DEF CallInv, SyncInv, RowOf, IsDue, inputs, decoder, locals, output
<1>6. RowsInv'
  BY <1>1, <1>3 DEF RowsInv, Row, RowOf, inputs, decoder, locals, output
<1>7. OutputRight'
  BY <1>1 DEF OutputRight, inputs, output
<1> QED BY <1>2, <1>4, <1>5, <1>6, <1>7

------------------------------------------------------------------------------
(* The steps of a call.                                                    *)

\* What the assumptions say of the sizes and of the file.
LEMMA SizesOfPicture ==
  TypeOK => /\ NumPixels \in Nat /\ NumPixels = Height * Width
            /\ file.picture \in [0..(NumPixels - 1) -> Colors] /\ file.size \in Nat
            /\ EmptyCache \in [Slots -> Colors]
            /\ Width \in Nat \ {0} /\ Height \in Nat \ {0}
            /\ CacheRows \in Nat \ {0} /\ SyncRows \in Nat \ {0} /\ SyncRows <= CacheRows
BY FilesAssumption, SizesAssumption DEF TypeOK, NumPixels, EmptyCache

\* A call starts where the last one stopped.
LEMMA EnterLossless ==
  ASSUME LosslessInv, NEW upTo \in 1..crop, NEW inc \in BOOLEAN, Enter(upTo, inc),
         pc = "idle", state = "data", fresh' \in BOOLEAN,
         lastRow <= upTo, use = "image" => upTo = crop, use = "alpha" => ~inc
  PROVE  LosslessInv'
<1> USE DEF LosslessInv
<1>1. /\ pc' = "loop" /\ state' = "data"
      /\ lastRowAsked' = upTo /\ incremental' = inc
      /\ src' = lastPixel /\ lastCached' = lastPixel
      /\ row' = lastPixel \div Width /\ col' = lastPixel % Width
      /\ nextSync' = IF inc THEN row' ELSE Height + 1
      /\ UNCHANGED <<inputs, arrived, state, br, lastPixel, pixels, cache, saved,
                     output>>
  BY DEF Enter
<1>2. /\ row' \in Nat /\ col' \in 0..(Width - 1)
      /\ row' * Width + col' = src'
  <2>1. /\ lastPixel \div Width \in Nat /\ lastPixel % Width \in 0..(Width - 1)
        /\ (lastPixel \div Width) * Width + (lastPixel % Width) = lastPixel
    BY PlaceOfRow, SizesOfPicture DEF TypeOK
  <2> QED BY <1>1, <2>1, Zenon
<1>3. col' \in Nat /\ col' < Width /\ nextSync' \in Nat /\ (~inc => nextSync' > Height)
  <2>1. Width \in Nat /\ Height \in Nat
    BY SizesOfPicture
  <2>2. col' \in Nat /\ col' < Width
    BY <1>2, <2>1
  <2>3. CASE inc
    BY <1>1, <1>2, <2>2, <2>3
  <2>4. CASE ~inc
    BY <1>1, <2>1, <2>2, <2>4
  <2> QED BY <2>3, <2>4
<1>4. upTo \in Nat
  BY DEF TypeOK
<1>5. TypeOK'
  BY <1>1, <1>2, <1>3, <1>4 DEF TypeOK, inputs, output
<1>6. PlacesInv'
  BY <1>1 DEF PlacesInv, CanResume, ReaderAt, CacheAt, inputs, TypeOK
<1>7. CallInv'
  BY <1>1, <1>2, <1>3, <1>4 DEF CallInv, inputs, output
<1>8. RowsInv' /\ SyncInv'
  BY <1>1, <1>2 DEF RowsInv, SyncInv, Row, RowOf, inputs, output
<1>9. OutputRight'
  BY <1>1 DEF OutputRight, inputs, output
<1> QED BY <1>5, <1>6, <1>7, <1>8, <1>9

\* The two users call with a last row that is not behind the rows given.
LEMMA CallLossless ==
  LosslessInv /\ (DecodeImage \/ DecodeAlphaRows) => LosslessInv'
<1> SUFFICES ASSUME LosslessInv, DecodeImage \/ DecodeAlphaRows
             PROVE  LosslessInv'
  OBVIOUS
<1>1. TypeOK
  BY DEF LosslessInv
<1>2. CASE DecodeImage
  <2>1. /\ crop \in 1..crop /\ lastRow <= crop /\ use = "image" /\ use # "alpha"
        /\ pc = "idle" /\ state = "data" /\ fresh' \in BOOLEAN
    <3>1. crop \in 1..crop /\ lastRow <= crop
      BY <1>1, SizesOfPicture DEF TypeOK
    <3>2. /\ use = "image" /\ use # "alpha" /\ pc = "idle" /\ state = "data"
          /\ fresh' \in BOOLEAN
      BY <1>2 DEF DecodeImage, Decoding
    <3> QED BY <3>1, <3>2
  <2>2. CASE arrived < file.size
    <3>1. Enter(crop, TRUE)
      BY <1>2, <2>2 DEF DecodeImage, Enter
    <3> QED BY <2>1, <3>1, EnterLossless
  <2>3. CASE ~(arrived < file.size)
    <3>1. Enter(crop, FALSE)
      <4>1. Enter(crop, arrived < file.size)
        BY <1>2 DEF DecodeImage
      <4>2. (arrived < file.size) = FALSE
        BY <2>3
      <4> QED BY <4>1, <4>2, Zenon
    <3> QED BY <2>1, <3>1, EnterLossless
  <2> QED BY <2>2, <2>3
<1>3. CASE DecodeAlphaRows
  <2>1. PICK upTo \in (lastRow + 1)..crop : Enter(upTo, FALSE)
    BY <1>3 DEF DecodeAlphaRows
  <2>2. /\ upTo \in 1..crop /\ lastRow <= upTo /\ use = "alpha"
        /\ pc = "idle" /\ state = "data" /\ fresh' \in BOOLEAN
    BY <1>1, <1>3, <2>1 DEF DecodeAlphaRows, Decoding, TypeOK
  <2> QED BY <2>1, <2>2, EnterLossless
<1> QED BY <1>2, <1>3

\* Where an iteration starts, its token is at src and the checkpoint, new or
\* not, is one to come back to.
LEMMA AtStartOfLoop ==
  ASSUME LosslessInv, StartOfLoop
  PROVE  /\ row < lastRowAsked /\ src < NumPixels /\ ReaderAt(br, src) /\ col < Width
         /\ saved' \in [br : Nat, lastPixel : Nat, cache : [Slots -> Colors]]
         /\ CanResume(saved'.br, saved'.lastPixel, saved'.cache)
         /\ saved'.lastPixel <= src
         /\ nextSync' \in Nat /\ row < nextSync' /\ (~incremental => nextSync' > Height)
         /\ incremental =>
              /\ nextSync' = RowOf(saved'.lastPixel) + SyncRows
              /\ lastRow < RowOf(saved'.lastPixel) + CacheRows
<1> USE DEF LosslessInv
<1>1. /\ pc = "loop" /\ src < lastRowAsked * Width
      /\ lastRowAsked \in Nat /\ lastRowAsked <= Height
      /\ row * Width + col = src /\ col < Width
      /\ row \in Nat /\ col \in Nat /\ src \in Nat /\ nextSync \in Nat
      /\ ReaderAt(br, src) /\ saved.lastPixel <= src
  BY SizesOfPicture DEF StartOfLoop, CallInv, PlacesInv, TypeOK
<1>2. row < lastRowAsked
  <2>1. CASE lastRowAsked <= row
    <3>1. lastRowAsked * Width <= row * Width
      BY <1>1, <2>1, TimesInOrder, SizesOfPicture
    <3> QED BY <1>1, <3>1, SizesOfPicture
  <2> QED BY <1>1, <2>1
<1>3. src < NumPixels
  <2>1. lastRowAsked * Width <= Height * Width
    BY <1>1, TimesInOrder, SizesOfPicture
  <2> QED BY <1>1, <2>1, SizesOfPicture
<1>4. RowOf(src) = row
  <2>1. col \in 0..(Width - 1)
    BY <1>1, SizesOfPicture
  <2> QED BY <1>1, <2>1, RowOfPlace, SizesOfPicture DEF RowOf
<1>5. CASE row >= nextSync
  <2>0. ~(row < nextSync) /\ ~(nextSync > Height)
    BY <1>1, <1>2, <1>5, SizesOfPicture
  <2>1. incremental /\ use = "image" /\ lastCached = src
    BY <1>1, <2>0 DEF CallInv, TypeOK
  <2>2. saved' = [br |-> br, lastPixel |-> src, cache |-> cache]
        /\ nextSync' = row + SyncRows
    BY <1>5 DEF StartOfLoop, SaveState
  <2>3. lastRow < row + CacheRows
    BY <1>1, <2>1 DEF RowsInv, Row, CallInv
  <2>4. saved' \in [br : Nat, lastPixel : Nat, cache : [Slots -> Colors]]
    BY <2>2 DEF TypeOK
  <2>5. CanResume(br, src, cache)
    BY <1>1, <2>1 DEF CanResume, PlacesInv
  <2>6. nextSync' \in Nat /\ row < nextSync'
    <3>1. row \in Nat
      BY <1>1
    <3>2. nextSync' = row + SyncRows
      BY <2>2
    <3> QED BY <3>1, <3>2, SizesAssumption
  <2> QED BY <1>1, <1>2, <1>3, <1>4, <2>1, <2>2, <2>3, <2>4, <2>5, <2>6
<1>6. CASE ~(row >= nextSync)
  <2>1. saved' = saved /\ nextSync' = nextSync
    BY <1>6 DEF StartOfLoop
  <2>2. incremental => /\ nextSync = RowOf(saved.lastPixel) + SyncRows
                       /\ lastRow < RowOf(saved.lastPixel) + CacheRows
    BY <1>1, <1>6 DEF SyncInv
  <2>3. CanResume(saved.br, saved.lastPixel, saved.cache)
    BY DEF PlacesInv
  <2>4. ~incremental => nextSync > Height
    BY <1>1 DEF CallInv
  <2>5. saved \in [br : Nat, lastPixel : Nat, cache : [Slots -> Colors]]
    BY DEF TypeOK
  <2> QED BY <1>1, <1>2, <1>3, <1>6, <2>1, <2>2, <2>3, <2>4, <2>5
<1> QED BY <1>5, <1>6

\* Colors that waited are inserted.
LEMMA PendingInserted ==
  ASSUME LosslessInv, pc # "idle", InsertPending
  PROVE  cache' = CacheAt(src) /\ cache' \in [Slots -> Colors]
<1> USE DEF LosslessInv
<1>1. /\ lastCached \in Nat /\ src \in Nat /\ lastCached <= src /\ src <= NumPixels
      /\ cache = Insert(EmptyCache, file.picture, 0, lastCached)
      /\ Agree(pixels, file.picture, src)
  BY SizesOfPicture DEF PlacesInv, ReaderAt, CacheAt, TypeOK
<1>2. cache' = Insert(cache, pixels, lastCached, src)
  BY DEF InsertPending
<1>3. @ = Insert(cache, file.picture, lastCached, src)
  <2>1. \A i \in lastCached..(src - 1) : pixels[i] = file.picture[i]
    BY <1>1 DEF Agree
  <2> QED BY <1>1, <2>1, InsertSame
<1>4. @ = Insert(EmptyCache, file.picture, 0, src)
  <2>1. 0 <= lastCached /\ 0 \in Nat
    BY <1>1
  <2> QED BY <1>1, <2>1, InsertInTwo
<1>5. cache' \in [Slots -> Colors]
  <2>1. src \in 0..NumPixels
    BY <1>1, SizesOfPicture
  <2> QED BY <1>1, <1>2, <2>1, InsertType DEF TypeOK
<1> QED BY <1>2, <1>3, <1>4, <1>5 DEF CacheAt

\* A literal or a color of the cache, when it is the picture's.
LEMMA OnePixel ==
  ASSUME LosslessInv, StartOfLoop, NEW color \in Colors, AdvanceByOne(color),
         color = file.picture[src], Token.len = 1,
         UNCHANGED <<inputs, arrived, fresh, incremental, lastPixel,
                     lastRowAsked, row, output>>,
         cache' \in [Slots -> Colors], lastCached' \in 0..src, cache' = CacheAt(lastCached')
  PROVE  LosslessInv'
<1> USE DEF LosslessInv
<1>1. /\ row < lastRowAsked /\ src < NumPixels /\ ReaderAt(br, src) /\ col < Width
      /\ saved' \in [br : Nat, lastPixel : Nat, cache : [Slots -> Colors]]
      /\ CanResume(saved'.br, saved'.lastPixel, saved'.cache)
      /\ saved'.lastPixel <= src
      /\ nextSync' \in Nat /\ row < nextSync' /\ (~incremental => nextSync' > Height)
      /\ incremental =>
           /\ nextSync' = RowOf(saved'.lastPixel) + SyncRows
           /\ lastRow < RowOf(saved'.lastPixel) + CacheRows
  BY AtStartOfLoop
<1>2. /\ pixels' = [pixels EXCEPT ![src] = color]
      /\ br' = br + 1 /\ src' = src + 1 /\ col' = col + 1 /\ state' = state
      /\ pc' = IF col + 1 >= Width THEN "wrap" ELSE "loop"
  BY DEF AdvanceByOne, Advance
<1>3. pc = "loop" /\ state = "data"
  BY DEF StartOfLoop, CallInv
<1>4. /\ src \in Nat /\ row \in Nat /\ col \in Nat /\ lastRowAsked \in Nat /\ br \in Nat
      /\ row * Width + col = src /\ Width \in Nat \ {0} /\ NumPixels \in Nat
  BY <1>3, SizesOfPicture DEF TypeOK, CallInv
<1>5. ReaderAt(br + 1, src + 1)
  BY <1>1, <1>4, TokenHere
<1>6. TypeOK'
  <2>1. pixels' \in [0..(NumPixels - 1) -> Colors]
    BY <1>2 DEF TypeOK
  <2>2. pc' \in {"idle", "loop", "wrap", "rows", "last"}
    BY <1>2
  <2>3. lastCached' \in Nat
    BY <1>4
  <2>4. br' \in Nat /\ src' \in Nat /\ col' \in Nat
    BY <1>2, <1>4
  <2> QED BY <1>1, <1>2, <2>1, <2>2, <2>3, <2>4 DEF TypeOK, inputs, output
<1>7. PlacesInv'
  <2>1. CanResume(saved.br, saved.lastPixel, saved.cache)'
    BY <1>1 DEF CanResume, ReaderAt, CacheAt, inputs
  <2>2. ReaderAt(br, src)'
    BY <1>2, <1>5 DEF ReaderAt, inputs
  <2>3. Agree(pixels', file'.picture, src')
    <3>1. Agree(pixels, file.picture, src)
      BY <1>3 DEF PlacesInv
    <3>2. pixels'[src] = color
      BY <1>1, <1>2, <1>4 DEF TypeOK
    <3>3. \A i \in 0..(src - 1) : pixels'[i] = pixels[i]
      BY <1>1, <1>2, <1>4 DEF TypeOK
    <3>4. ASSUME NEW i \in 0..(src + 1 - 1) PROVE pixels'[i] = file.picture[i]
      <4>1. i = src \/ i \in 0..(src - 1)
        BY <1>4
      <4> QED BY <3>1, <3>2, <3>3, <4>1 DEF Agree
    <3>5. Agree(pixels', file.picture, src + 1)
      BY <1>4, <3>4 DEF Agree
    <3> QED BY <1>2, <3>5 DEF inputs
  <2>4. lastCached' \in 0..src' /\ cache' = CacheAt(lastCached)'
    BY <1>2, <1>4 DEF CacheAt, inputs
  <2>5. saved'.lastPixel <= src'
    <3>1. saved'.lastPixel \in Nat
      BY <1>1
    <3> QED BY <1>1, <1>2, <1>4, <3>1
  <2>6. pc' # "idle"
    BY <1>2
  <2> QED BY <2>1, <2>2, <2>3, <2>4, <2>5, <2>6 DEF PlacesInv
<1>8. CallInv'
  <2>1. row * Width + (col + 1) = src + 1
    BY <1>4
  <2>2. CASE col + 1 >= Width
    BY <1>1, <1>2, <1>3, <2>1, <2>2 DEF CallInv, inputs, output
  <2>3. CASE ~(col + 1 >= Width)
    <3>1. src + 1 < lastRowAsked * Width
      <4>0. row + 1 \in Nat /\ row + 1 <= lastRowAsked
        BY <1>1, <1>4
      <4>1. (row + 1) * Width <= lastRowAsked * Width
        BY <1>4, <4>0, TimesInOrder
      <4> QED BY <1>4, <2>3, <4>1
    <3>2. col + 1 < Width
      BY <1>4, <2>3
    <3> QED BY <1>1, <1>2, <1>3, <2>1, <2>3, <3>1, <3>2 DEF CallInv, inputs, output
  <2> QED BY <2>2, <2>3
<1>9. RowsInv'
  BY <1>2, <1>3 DEF RowsInv, Row, inputs, output
<1>10. SyncInv'
  BY <1>1, <1>2 DEF SyncInv, RowOf, inputs, output
<1>11. OutputRight'
  BY DEF OutputRight, inputs, output
<1> QED BY <1>6, <1>7, <1>8, <1>9, <1>10, <1>11

\* A literal is the color the picture has there.
LEMMA LiteralLossless == LosslessInv /\ Literal => LosslessInv'
<1> SUFFICES ASSUME LosslessInv, Literal PROVE LosslessInv'
  OBVIOUS
<1> USE DEF LosslessInv
<1>1. /\ StartOfLoop /\ AdvanceByOne(Token.arg) /\ Token.kind = "literal"
      /\ UNCHANGED <<inputs, arrived, fresh, incremental, lastPixel,
                     lastRowAsked, row, output>>
      /\ cache' = cache /\ lastCached' = lastCached
  BY DEF Literal, Iteration
<1>2. src \in Nat /\ src < NumPixels /\ ReaderAt(br, src) /\ pc = "loop"
  BY <1>1, AtStartOfLoop DEF TypeOK, StartOfLoop
<1>3. /\ Token.at = src /\ Token.len = 1 /\ Token.arg \in Colors
      /\ Describes(Token, file.picture)
  BY <1>1, <1>2, TokenHere
<1>4. Token.arg = file.picture[src]
  BY <1>1, <1>3, Zenon DEF Describes
<1>5. cache' \in [Slots -> Colors] /\ lastCached' \in 0..src /\ cache' = CacheAt(lastCached')
  BY <1>1, <1>2 DEF PlacesInv, TypeOK
<1> QED BY <1>1, <1>3, <1>4, <1>5, OnePixel

\* A key of the color cache: colors that wait are inserted first.
LEMMA ColorCacheLossless == LosslessInv /\ ColorCache => LosslessInv'
<1> SUFFICES ASSUME LosslessInv, ColorCache PROVE LosslessInv'
  OBVIOUS
<1> USE DEF LosslessInv
<1>1. /\ StartOfLoop /\ AdvanceByOne(cache'[Token.arg]) /\ Token.kind = "cache"
      /\ InsertPending
      /\ UNCHANGED <<inputs, arrived, fresh, incremental, lastPixel,
                     lastRowAsked, row, output>>
  BY DEF ColorCache, Iteration
<1>2. src \in Nat /\ src < NumPixels /\ ReaderAt(br, src) /\ pc = "loop"
  BY <1>1, AtStartOfLoop DEF TypeOK, StartOfLoop
<1>3. /\ Token.at = src /\ Token.len = 1 /\ Token.arg \in Slots
      /\ Describes(Token, file.picture)
  BY <1>1, <1>2, TokenHere
<1>4. cache' = CacheAt(src) /\ cache' \in [Slots -> Colors] /\ lastCached' = src
  BY <1>1, <1>2, PendingInserted DEF InsertPending
<1>5. cache'[Token.arg] = file.picture[src]
  <2>1. file.picture[Token.at] = Insert(EmptyCache, file.picture, 0, Token.at)[Token.arg]
    BY <1>1, <1>3, Zenon DEF Describes
  <2> QED BY <1>3, <1>4, <2>1 DEF CacheAt
<1>6. cache'[Token.arg] \in Colors /\ lastCached' \in 0..src /\ cache' = CacheAt(lastCached')
  BY <1>2, <1>3, <1>4
<1> QED BY <1>1, <1>3, <1>4, <1>5, <1>6, OnePixel

\* A copy reaches the same place as the picture, or is refused.
LEMMA BackwardReferenceLossless == LosslessInv /\ BackwardReference => LosslessInv'
<1> SUFFICES ASSUME LosslessInv, BackwardReference PROVE LosslessInv'
  OBVIOUS
<1> USE DEF LosslessInv
<1>1. /\ StartOfLoop /\ Token.kind = "copy"
      /\ UNCHANGED <<inputs, arrived, fresh, incremental, lastPixel,
                     lastRowAsked, row, output>>
      /\ cache' = cache /\ lastCached' = lastCached
  BY DEF BackwardReference, Iteration
<1>2. /\ row < lastRowAsked /\ src < NumPixels /\ ReaderAt(br, src)
      /\ saved' \in [br : Nat, lastPixel : Nat, cache : [Slots -> Colors]]
      /\ CanResume(saved'.br, saved'.lastPixel, saved'.cache)
      /\ saved'.lastPixel <= src
      /\ nextSync' \in Nat /\ row < nextSync' /\ (~incremental => nextSync' > Height)
      /\ incremental =>
           /\ nextSync' = RowOf(saved'.lastPixel) + SyncRows
           /\ lastRow < RowOf(saved'.lastPixel) + CacheRows
  BY <1>1, AtStartOfLoop
<1>3. pc = "loop" /\ state = "data"
  BY <1>1 DEF StartOfLoop, CallInv
<1>4. /\ src \in Nat /\ row \in Nat /\ col \in Nat /\ br \in Nat /\ NumPixels \in Nat
      /\ row * Width + col = src /\ Width \in Nat \ {0}
  BY <1>3, SizesOfPicture DEF TypeOK, CallInv
<1>5. /\ Token.at = src /\ Token.len \in Nat \ {0} /\ Token.arg \in Nat \ {0}
      /\ Describes(Token, file.picture)
      /\ src + Token.len <= NumPixels => ReaderAt(br + 1, src + Token.len)
  BY <1>1, <1>2, <1>4, TokenHere
<1>6. CanResume(saved.br, saved.lastPixel, saved.cache)'
  BY <1>1, <1>2 DEF CanResume, ReaderAt, CacheAt, inputs
<1>7. OutputRight'
  BY <1>1 DEF OutputRight, inputs, output
<1>8. CASE ~InRange(Token, src)
  <2>1. /\ state' = "error" /\ pc' = "idle"
        /\ UNCHANGED <<pixels, br, src, col>>
    BY <1>8 DEF BackwardReference
  <2>2. TypeOK'
    BY <1>1, <1>2, <2>1 DEF TypeOK, inputs, output
  <2>3. PlacesInv'
    BY <1>6, <2>1 DEF PlacesInv
  <2>4. CallInv' /\ RowsInv' /\ SyncInv'
    BY <1>1, <2>1 DEF CallInv, RowsInv, SyncInv, inputs
  <2> QED BY <1>7, <2>2, <2>3, <2>4
<1>9. CASE InRange(Token, src)
  <2> DEFINE len == Token.len
  <2>1. /\ pixels' = CopyBlock(pixels, src, Token.arg, len)
        /\ br' = br + 1 /\ src' = src + len /\ col' = col + len
        /\ state' = state /\ pc' = "wrap"
    BY <1>9 DEF BackwardReference, Advance
  <2>2. Token.arg <= src /\ len <= NumPixels - src
    BY <1>9 DEF InRange
  <2>3. file.picture = CopyBlock(file.picture, src, Token.arg, len)
    BY <1>1, <1>5, <1>9, Zenon DEF Describes
  <2>4. /\ CopyBlock(pixels, src, Token.arg, len) \in [0..(NumPixels - 1) -> Colors]
        /\ Agree(CopyBlock(pixels, src, Token.arg, len), file.picture, src + len)
    <3>1. Agree(pixels, file.picture, src)
      BY <1>3 DEF PlacesInv
    <3>2. /\ pixels \in [0..(NumPixels - 1) -> Colors]
          /\ file.picture \in [0..(NumPixels - 1) -> Colors]
      BY SizesOfPicture DEF TypeOK
    <3>3. len \in Nat
      BY <1>5
    <3> QED BY <1>4, <1>5, <2>2, <2>3, <3>1, <3>2, <3>3, CopyRight
  <2>5. ReaderAt(br + 1, src + len) /\ len \in Nat
    BY <1>4, <1>5, <2>2
  <2> HIDE DEF len
  <2>6. TypeOK'
    <3>1. br' \in Nat /\ src' \in Nat /\ col' \in Nat
      BY <1>4, <2>1, <2>5
    <3> QED BY <1>1, <1>2, <2>1, <2>4, <3>1 DEF TypeOK, inputs, output
  <2>7. PlacesInv'
    <3>1. ReaderAt(br, src)'
      BY <1>1, <2>1, <2>5 DEF ReaderAt, inputs
    <3>2. Agree(pixels', file'.picture, src')
      BY <1>1, <2>1, <2>4 DEF inputs
    <3>3. lastCached' \in 0..src' /\ cache' = CacheAt(lastCached)'
      BY <1>1, <1>3, <1>4, <2>1, <2>5 DEF PlacesInv, CacheAt, inputs
    <3>4. saved'.lastPixel <= src'
      <4>1. saved'.lastPixel \in Nat
        BY <1>2
      <4> QED BY <1>2, <1>4, <2>1, <2>5, <4>1
    <3> QED BY <1>6, <2>1, <3>1, <3>2, <3>3, <3>4 DEF PlacesInv
  <2>8. CallInv'
    <3>1. row * Width + (col + len) = src + len
      BY <1>4, <2>5
    <3> QED BY <1>1, <1>2, <1>3, <2>1, <3>1 DEF CallInv, inputs, output
  <2>9. RowsInv'
    BY <1>1, <1>3, <2>1 DEF RowsInv, Row, inputs, output
  <2>10. SyncInv'
    BY <1>1, <1>2, <2>1 DEF SyncInv, RowOf, inputs, output
  <2> QED BY <1>7, <2>6, <2>7, <2>8, <2>9, <2>10
<1> QED BY <1>8, <1>9

\* Back to the checkpoint, or a failure.
LEMMA EndOfStreamLossless == LosslessInv /\ EndOfStream => LosslessInv'
<1> SUFFICES ASSUME LosslessInv, EndOfStream PROVE LosslessInv'
  OBVIOUS
<1> USE DEF LosslessInv
<1>1. /\ StartOfLoop /\ pc' = "idle"
      /\ UNCHANGED <<inputs, arrived, fresh, incremental, pixels, lastRowAsked, src,
                     row, col, lastCached, output>>
  BY DEF EndOfStream
<1>2. /\ saved' \in [br : Nat, lastPixel : Nat, cache : [Slots -> Colors]]
      /\ CanResume(saved'.br, saved'.lastPixel, saved'.cache)
      /\ saved'.lastPixel <= src /\ nextSync' \in Nat
      /\ incremental => lastRow < RowOf(saved'.lastPixel) + CacheRows
  BY <1>1, AtStartOfLoop
<1>3. /\ pc = "loop" /\ state = "data" /\ src \in Nat /\ row \in Nat
      /\ row * Width + col = src /\ col \in 0..(Width - 1)
  BY <1>1, SizesOfPicture DEF StartOfLoop, CallInv, TypeOK
<1>4. CanResume(saved.br, saved.lastPixel, saved.cache)'
  BY <1>1, <1>2 DEF CanResume, ReaderAt, CacheAt, inputs
<1>5. OutputRight' /\ SyncInv'
  BY <1>1 DEF OutputRight, SyncInv, inputs, output
<1>6. CallInv'
  BY <1>1 DEF CallInv, inputs
<1>7. CASE ~incremental
  <2>1. state' = "error" /\ UNCHANGED <<br, lastPixel, cache>>
    BY <1>7 DEF EndOfStream
  <2>2. TypeOK'
    BY <1>1, <1>2, <2>1 DEF TypeOK, inputs, output
  <2>3. PlacesInv' /\ RowsInv'
    BY <1>1, <1>4, <2>1 DEF PlacesInv, RowsInv
  <2> QED BY <1>5, <1>6, <2>2, <2>3
<1>8. CASE incremental
  <2>1. /\ br' = saved'.br /\ lastPixel' = saved'.lastPixel /\ cache' = saved'.cache
        /\ state' = state
    BY <1>8 DEF EndOfStream, RestoreState
  <2>2. TypeOK'
    BY <1>1, <1>2, <2>1 DEF TypeOK, inputs, output
  <2>3. PlacesInv'
    <3>1. CanResume(br, lastPixel, cache)'
      BY <1>4, <2>1 DEF CanResume, ReaderAt, CacheAt
    <3>2. Agree(pixels, file.picture, src)
      BY <1>3 DEF PlacesInv
    <3>3. lastPixel' \in Nat /\ lastPixel' <= src
      BY <1>2, <2>1
    <3>4. Agree(pixels, file.picture, lastPixel')
      <4>1. src \in Int
        BY <1>3 DEF TypeOK
      <4>2. lastPixel' \in Int /\ lastPixel' <= src
        BY <3>3
      <4> QED BY <3>2, <4>1, <4>2, AgreeBelow
    <3>5. Agree(pixels', file'.picture, lastPixel')
      BY <1>1, <3>4 DEF inputs
    <3>6. saved'.lastPixel <= lastPixel'
      BY <2>1, <3>3
    <3> QED BY <1>1, <1>4, <3>1, <3>5, <3>6 DEF PlacesInv
  <2>4. RowsInv'
    <3>1. /\ use = "image" /\ use # "alpha" /\ lastRow % CacheRows = 0
          /\ \A r \in 0..row : r <= crop /\ r % CacheRows = 0 => r <= lastRow
      BY <1>3, <1>8 DEF RowsInv, Row, CallInv, TypeOK
    <3>2. RowOf(src) = row
      <4>1. Width \in Nat \ {0}
        BY SizesOfPicture
      <4> QED BY <1>3, <4>1, RowOfPlace DEF RowOf
    <3>3. saved'.lastPixel \in Nat /\ RowOf(saved'.lastPixel) \in Nat
      BY <1>2, PlaceOfRow, SizesOfPicture DEF RowOf
    <3>4. RowOf(saved'.lastPixel) <= row
      <4>1. Width \in Nat \ {0}
        BY SizesOfPicture
      <4> QED BY <1>2, <1>3, <3>2, <3>3, <4>1, RowsInOrder DEF RowOf
    <3>5. Row' = RowOf(saved'.lastPixel)
      BY <1>1, <2>1 DEF Row, RowOf
    <3>6. \A r \in 0..Row' : r \in 0..row
      BY <1>3, <3>3, <3>4, <3>5
    <3>7. UNCHANGED <<use, crop, lastRow>>
      BY <1>1 DEF inputs, output
    <3> QED BY <1>1, <1>2, <1>8, <3>1, <3>5, <3>6, <3>7 DEF RowsInv
  <2> QED BY <1>5, <1>6, <2>2, <2>3, <2>4
<1> QED BY <1>7, <1>8

\* An end of row: the rows are due, or none was since the last batch.
LEMMA WrapLossless == LosslessInv /\ Wrap => LosslessInv'
<1> SUFFICES ASSUME LosslessInv, Wrap PROVE LosslessInv'
  OBVIOUS
<1> USE DEF LosslessInv
<1>1. /\ pc = "wrap" /\ col >= Width /\ col' = col - Width /\ row' = row + 1
      /\ UNCHANGED <<inputs, arrived, fresh, state, decoder, lastRowAsked, src,
                     lastCached, nextSync, lastRow, out>>
  BY DEF Wrap
<1>2. \/ IsDue(row + 1) /\ pc' = "rows" /\ due' = row + 1
      \/ ~IsDue(row + 1) /\ pc' = pc /\ due' = due
  BY DEF Wrap
<1>3. /\ state = "data" /\ col \in Nat /\ row \in Nat /\ src \in Nat
      /\ row * Width + col = src /\ Width \in Nat \ {0} /\ CacheRows \in Nat \ {0}
      /\ lastRowAsked \in 1..crop /\ (use = "image" => lastRowAsked = crop)
      /\ lastRow \in Nat
  BY <1>1, SizesOfPicture DEF TypeOK, CallInv
<1>4. TypeOK'
  <2>1. col' \in Nat /\ row' \in Nat /\ due' \in Nat
    BY <1>1, <1>2, <1>3 DEF TypeOK
  <2>2. pc' \in {"idle", "loop", "wrap", "rows", "last"}
    BY <1>1, <1>2
  <2> QED BY <1>1, <2>1, <2>2 DEF TypeOK, inputs, decoder
<1>5. PlacesInv'
  BY <1>1, <1>2 DEF PlacesInv, CanResume, ReaderAt, CacheAt, Agree, inputs, decoder
<1>6. row' * Width + col' = src'
  <2>1. (row + 1) * Width + (col - Width) = row * Width + col
    BY <1>3
  <2> QED BY <1>1, <1>3, <2>1
<1>7. IsDue(row + 1) => lastRow <= row + 1
  <2>1. CASE use = "alpha"
    BY <1>1, <1>3, <2>1 DEF RowsInv, Row
  <2>2. CASE use = "image" /\ IsDue(row + 1)
    <3>1. lastRow % CacheRows = 0 /\ lastRow < (row + 1) + CacheRows
      BY <1>1, <1>3, <2>2 DEF RowsInv, Row
    <3>2. (row + 1) % CacheRows = 0 /\ row + 1 \in Nat
      BY <1>3, <2>2 DEF IsDue
    <3> QED BY <1>3, <3>1, <3>2, MultiplesApart
  <2> QED BY <2>1, <2>2 DEF TypeOK
<1>8. CallInv'
  BY <1>1, <1>2, <1>3, <1>6, <1>7 DEF CallInv, IsDue, inputs, decoder
<1>9. RowsInv'
  <2>1. UNCHANGED <<use, crop, lastRow, state>> /\ Row' = row + 1 /\ Row = row
    BY <1>1, <1>2 DEF Row, inputs
  <2>2. CASE use = "alpha"
    BY <1>3, <2>1, <2>2 DEF RowsInv
  <2>3. CASE use = "image"
    <3>1. /\ lastRow % CacheRows = 0 /\ lastRow < row + CacheRows
          /\ \A r \in 0..row : r <= crop /\ r % CacheRows = 0 => r <= lastRow
      BY <1>1, <1>3, <2>1, <2>3 DEF RowsInv
    <3>2. ASSUME NEW r \in 0..(row + 1), r <= crop, r % CacheRows = 0,
                 ~(pc' = "rows" /\ r = row + 1)
          PROVE  r <= lastRow
      <4>1. CASE r = row + 1
        BY <1>2, <1>3, <2>3, <3>2, <4>1 DEF IsDue
      <4>2. CASE r # row + 1
        <5>1. r \in 0..row
          BY <1>3, <4>2
        <5> QED BY <3>1, <3>2, <5>1
      <4> QED BY <4>1, <4>2
    <3>3. lastRow < row + 1 + CacheRows
      BY <1>3, <3>1
    <3> QED BY <1>1, <2>1, <2>3, <3>1, <3>2, <3>3 DEF RowsInv
  <2> QED BY <2>2, <2>3 DEF TypeOK
<1>10. SyncInv'
  <2>1. row + 1 < nextSync => row < nextSync
    BY <1>3 DEF TypeOK
  <2> QED BY <1>1, <1>2, <2>1 DEF SyncInv, RowOf, decoder
<1>11. OutputRight'
  BY <1>1 DEF OutputRight, inputs
<1> QED BY <1>4, <1>5, <1>8, <1>9, <1>10, <1>11

\* At the end of a token that ended a row, nothing waits for the cache.
LEMMA EndOfTokenLossless == LosslessInv /\ EndOfToken => LosslessInv'
<1> SUFFICES ASSUME LosslessInv, EndOfToken PROVE LosslessInv'
  OBVIOUS
<1> USE DEF LosslessInv
<1>1. /\ pc = "wrap" /\ col < Width /\ pc' = "loop" /\ InsertPending /\ lastCached' = src
      /\ UNCHANGED <<inputs, arrived, fresh, state, br, incremental, lastPixel,
                     pixels, saved, lastRowAsked, src, row, col, nextSync, output>>
  BY DEF EndOfToken, InsertPending
<1>2. cache' = CacheAt(src) /\ cache' \in [Slots -> Colors]
  BY <1>1, PendingInserted
<1>3. TypeOK'
  BY <1>1, <1>2 DEF TypeOK, inputs, output
<1>4. PlacesInv'
  <2>1. cache' = CacheAt(lastCached)'
    BY <1>1, <1>2 DEF CacheAt, inputs
  <2>2. lastCached' \in 0..src'
    BY <1>1 DEF TypeOK
  <2>3. CanResume(saved.br, saved.lastPixel, saved.cache)' /\ ReaderAt(br, src)'
    BY <1>1 DEF PlacesInv, CanResume, ReaderAt, CacheAt, inputs
  <2>4. Agree(pixels', file'.picture, src') /\ saved'.lastPixel <= src'
    BY <1>1 DEF PlacesInv, inputs
  <2> QED BY <1>1, <2>1, <2>2, <2>3, <2>4 DEF PlacesInv
<1>5. CallInv'
  BY <1>1 DEF CallInv, inputs, output
<1>6. RowsInv' /\ SyncInv'
  BY <1>1 DEF RowsInv, SyncInv, Row, RowOf, inputs, output
<1>7. OutputRight'
  BY <1>1 DEF OutputRight, inputs, output
<1> QED BY <1>3, <1>4, <1>5, <1>6, <1>7

\* The rows asked for are decoded; nothing waits for the cache.
LEMMA EndOfLoopLossless == LosslessInv /\ EndOfLoop => LosslessInv'
<1> SUFFICES ASSUME LosslessInv, EndOfLoop PROVE LosslessInv'
  OBVIOUS
<1> USE DEF LosslessInv
<1>1. /\ pc = "loop" /\ src >= lastRowAsked * Width
      /\ due' = Min({row, lastRowAsked}) /\ pc' = "last"
      /\ UNCHANGED <<inputs, arrived, fresh, state, decoder, locals, lastRow, out>>
  BY DEF EndOfLoop
<1>2. /\ row \in Nat /\ col \in Nat /\ lastRowAsked \in Nat /\ src \in Nat
      /\ Width \in Nat \ {0} /\ row * Width + col = src /\ col < Width
      /\ lastRow <= lastRowAsked /\ state = "data"
  BY <1>1, SizesOfPicture DEF TypeOK, CallInv
<1>3. lastRowAsked <= row
  <2>1. CASE row < lastRowAsked
    <3>1. row + 1 \in Nat /\ row + 1 <= lastRowAsked
      BY <1>2, <2>1
    <3>2. (row + 1) * Width <= lastRowAsked * Width
      BY <1>2, <3>1, TimesInOrder
    <3> QED BY <1>1, <1>2, <3>2
  <2> QED BY <1>2, <2>1
<1>4. due' = lastRowAsked
  BY <1>1, <1>2, <1>3, MinOfTwo
<1>5. lastCached = src
  <2>1. lastRowAsked * Width \in Nat
    BY <1>2
  <2> QED BY <1>1, <1>2, <2>1 DEF CallInv
<1>6. TypeOK'
  BY <1>1, <1>2, <1>4 DEF TypeOK, inputs, decoder, locals
<1>7. PlacesInv'
  BY <1>1 DEF PlacesInv, CanResume, ReaderAt, CacheAt, inputs, decoder, locals
<1>8. CallInv'
  BY <1>1, <1>2, <1>3, <1>4, <1>5 DEF CallInv, inputs, decoder, locals
<1>9. RowsInv' /\ SyncInv'
  BY <1>1 DEF RowsInv, SyncInv, Row, RowOf, inputs, decoder, locals
<1>10. OutputRight'
  BY <1>1 DEF OutputRight, inputs
<1> QED BY <1>6, <1>7, <1>8, <1>9, <1>10

\* The rows that are given at once are due, and fit in argb_cache_.
LEMMA PieceFits ==
  ASSUME LosslessInv, pc \in {"rows", "last"}
  PROVE  /\ Piece \in 0..CacheRows /\ lastRow + Piece <= due
         /\ use = "image" => lastRow + Piece = due
<1> USE DEF LosslessInv
<1>1. /\ lastRow \in Nat /\ due \in Nat /\ row \in Nat /\ lastRow <= due /\ due <= row
      /\ state = "data" /\ CacheRows \in Nat \ {0} /\ lastRowAsked \in Nat
      /\ due <= lastRowAsked /\ (use = "image" => lastRowAsked = crop)
  <2>1. lastRow \in Nat /\ due \in Nat /\ row \in Nat /\ lastRowAsked \in Nat
    BY DEF TypeOK
  <2>2. lastRow <= due /\ due <= row /\ state = "data" /\ due <= lastRowAsked
        /\ (use = "image" => lastRowAsked = crop)
    BY <2>1, SizesAssumption DEF CallInv, IsDue, TypeOK
  <2> QED BY <2>1, <2>2, SizesAssumption
<1>2. CASE use = "alpha"
  <2>1. Piece = IF due - lastRow <= CacheRows THEN due - lastRow ELSE CacheRows
    BY <1>1, <1>2, MinOfTwo DEF Piece
  <2> QED BY <1>1, <1>2, <2>1
<1>3. CASE use = "image"
  <2>1. Piece = due - lastRow
    BY <1>3 DEF Piece
  <2>2. \A r \in 0..row :
          r <= lastRowAsked /\ r % CacheRows = 0 /\ ~(pc = "rows" /\ r = row) => r <= lastRow
    BY <1>1, <1>3 DEF RowsInv, Row
  <2>3. due <= lastRow + CacheRows
    <3>1. CASE pc = "rows" /\ row = 0
      BY <1>1, <3>1
    <3>2. CASE pc = "rows" /\ row # 0
      <4>1. due = row /\ row % CacheRows = 0 /\ row \in Nat \ {0}
        BY <1>1, <3>2 DEF CallInv, IsDue
      <4>2. row - CacheRows \in Nat /\ (row - CacheRows) % CacheRows = 0
        BY <1>1, <4>1, MultipleBefore
      <4>3. row - CacheRows \in 0..row /\ row - CacheRows # row
            /\ row - CacheRows <= lastRowAsked
        BY <1>1, <4>1, <4>2
      <4>4. row - CacheRows <= lastRow
        BY <2>2, <4>2, <4>3
      <4> QED BY <1>1, <4>1, <4>4
    <3>3. CASE pc = "last"
      <4>1. due = lastRowAsked /\ due <= row
        BY <3>3 DEF CallInv
      <4>2. PICK m \in 0..due : m % CacheRows = 0 /\ due < m + CacheRows
        BY <1>1, MultipleBelow
      <4>3. m <= lastRow
        BY <1>1, <2>2, <3>3, <4>1, <4>2
      <4> QED BY <1>1, <4>2, <4>3
    <3> QED BY <3>1, <3>2, <3>3
  <2> QED BY <1>1, <1>3, <2>1, <2>3
<1> QED BY <1>2, <1>3 DEF TypeOK

\* The rows given are right because all the pixels before src are.
LEMMA ProcessRowsLossless == LosslessInv /\ ProcessRows => LosslessInv'
<1> SUFFICES ASSUME LosslessInv, ProcessRows PROVE LosslessInv'
  OBVIOUS
<1> USE DEF LosslessInv
<1>1. /\ pc \in {"rows", "last"}
      /\ out' = out \o RowsOf(pixels, lastRow, Piece)
      /\ lastRow' = lastRow + Piece
      /\ UNCHANGED <<inputs, arrived, fresh, br, incremental, pixels, cache, saved,
                     locals, due>>
  BY DEF ProcessRows
<1>2. \/ lastRow' # due /\ UNCHANGED <<pc, state, lastPixel>>
      \/ lastRow' = due /\ pc = "rows" /\ pc' = "wrap" /\ UNCHANGED <<state, lastPixel>>
      \/ /\ lastRow' = due /\ pc = "last" /\ pc' = "idle" /\ lastPixel' = src
         /\ state' = IF lastRow' = crop THEN "done" ELSE "data"
  BY DEF ProcessRows
<1>3. /\ Piece \in 0..CacheRows /\ lastRow + Piece <= due
      /\ use = "image" => lastRow + Piece = due
  BY <1>1, PieceFits
<1>4. /\ lastRow \in Nat /\ due \in Nat /\ row \in Nat /\ col \in Nat /\ src \in Nat
      /\ due <= row /\ due <= lastRowAsked /\ lastRowAsked \in 1..crop
      /\ state = "data" /\ CacheRows \in Nat \ {0} /\ Width \in Nat \ {0}
      /\ (use = "image" => lastRowAsked = crop)
      /\ row * Width + col = src /\ Piece \in Nat /\ crop \in Nat
  <2>1. /\ lastRow \in Nat /\ due \in Nat /\ row \in Nat /\ col \in Nat /\ src \in Nat
        /\ crop \in Nat /\ CacheRows \in Nat \ {0} /\ Width \in Nat \ {0}
        /\ lastRowAsked \in Nat
    BY SizesOfPicture DEF TypeOK
  <2>2. /\ state = "data" /\ lastRowAsked \in 1..crop
        /\ (use = "image" => lastRowAsked = crop) /\ row * Width + col = src
    BY <1>1 DEF CallInv
  <2>3. due <= row /\ due <= lastRowAsked
    BY <1>1, <2>1 DEF CallInv, IsDue
  <2>4. Piece \in Nat
    BY <1>3, <2>1
  <2> QED BY <2>1, <2>2, <2>3, <2>4
<1>5. lastRow' \in Nat /\ lastRow' <= due
  BY <1>1, <1>3, <1>4
<1>6. TypeOK'
  <2>1. /\ pc' \in {"idle", "loop", "wrap", "rows", "last"}
        /\ state' \in {"header", "data", "done", "error"}
        /\ lastPixel' \in Nat
    BY <1>1, <1>2, <1>4 DEF TypeOK
  <2>2. lastRow' \in 0..crop
    BY <1>4, <1>5
  <2> QED BY <1>1, <2>1, <2>2 DEF TypeOK, inputs, locals
<1>7. OutputRight'
  <2>1. (lastRow + Piece) * Width <= src
    <3>1. lastRow + Piece \in Nat /\ lastRow + Piece <= row
      BY <1>3, <1>4
    <3>2. (lastRow + Piece) * Width <= row * Width
      BY <1>4, <3>1, TimesInOrder
    <3>3. (lastRow + Piece) * Width \in Nat /\ row * Width \in Nat
      BY <1>4, <3>1
    <3> QED BY <1>4, <3>2, <3>3
  <2>2. Agree(pixels, file.picture, src)
    BY <1>1 DEF PlacesInv
  <2>3. RowsOf(pixels, lastRow, Piece) = RowsOf(file.picture, lastRow, Piece)
    BY <1>4, <2>1, <2>2, RowsSame
  <2>4. out' = RowsOf(file.picture, 0, lastRow) \o RowsOf(file.picture, lastRow, Piece)
    BY <1>1, <2>3 DEF OutputRight
  <2>5. @ = RowsOf(file.picture, 0, lastRow + Piece)
    BY <1>4, RowsFollow
  <2> QED BY <1>1, <2>4, <2>5 DEF OutputRight, inputs
<1>8. CanResume(saved.br, saved.lastPixel, saved.cache)'
  BY <1>1 DEF PlacesInv, CanResume, ReaderAt, CacheAt, inputs
<1>9. ReaderAt(br, src) /\ Agree(pixels, file.picture, src) /\ saved.lastPixel <= src
      /\ cache = CacheAt(lastCached) /\ lastCached \in 0..src
  BY <1>1 DEF PlacesInv
<1>10. CASE pc' # "idle"
  <2>1. PlacesInv'
    BY <1>1, <1>8, <1>9, <1>10 DEF PlacesInv, ReaderAt, CacheAt, inputs, locals
  <2>2. CallInv'
    BY <1>1, <1>2, <1>4, <1>5, <1>10 DEF CallInv, IsDue, inputs, locals
  <2>3. RowsInv'
    <3>1. Row' = row /\ Row = row /\ UNCHANGED <<use, crop>>
      BY <1>1, <1>10 DEF Row, inputs, locals
    <3>2. CASE use = "alpha"
      BY <1>4, <1>5, <3>1, <3>2 DEF RowsInv
    <3>3. CASE use = "image"
      <4>1. lastRow' = due /\ pc = "rows" /\ pc' = "wrap"
        BY <1>1, <1>2, <1>3, <1>10, <3>3
      <4>2. due = row /\ row % CacheRows = 0
        BY <4>1 DEF CallInv, IsDue
      <4>3. lastRow' < row + CacheRows /\ \A r \in 0..row : r <= lastRow'
        BY <1>4, <4>1, <4>2
      <4> QED BY <3>1, <3>3, <4>1, <4>2, <4>3 DEF RowsInv
    <3> QED BY <3>2, <3>3 DEF TypeOK
  <2>4. SyncInv'
    <3> SUFFICES ASSUME incremental, row < nextSync
                 PROVE  /\ nextSync = RowOf(saved.lastPixel) + SyncRows
                        /\ lastRow' < RowOf(saved.lastPixel) + CacheRows
      BY <1>1 DEF SyncInv, RowOf, locals
    <3>1. nextSync = RowOf(saved.lastPixel) + SyncRows
      BY <1>1 DEF SyncInv
    <3>2. saved.lastPixel \in Nat /\ RowOf(saved.lastPixel) \in Nat
      BY PlaceOfRow, SizesOfPicture DEF RowOf, TypeOK
    <3>3. lastRow' < RowOf(saved.lastPixel) + SyncRows
      BY <1>4, <1>5, <3>1, <3>2 DEF TypeOK
    <3>4. SyncRows \in Nat /\ SyncRows <= CacheRows
      BY SizesOfPicture
    <3> QED BY <1>4, <1>5, <3>1, <3>2, <3>3, <3>4
  <2> QED BY <1>6, <1>7, <2>1, <2>2, <2>3, <2>4
<1>11. CASE pc' = "idle"
  <2>1. /\ lastRow' = due /\ pc = "last" /\ lastPixel' = src
        /\ state' = IF lastRow' = crop THEN "done" ELSE "data"
    BY <1>1, <1>2, <1>11
  <2>2. lastCached = src /\ due = lastRowAsked
    BY <2>1 DEF CallInv
  <2>3. PlacesInv'
    <3>1. CanResume(br, lastPixel, cache)'
      BY <1>1, <1>9, <2>1, <2>2 DEF CanResume, ReaderAt, CacheAt, inputs
    <3>2. Agree(pixels', file'.picture, lastPixel') /\ saved'.lastPixel <= lastPixel'
      BY <1>1, <1>9, <2>1 DEF inputs
    <3> QED BY <1>8, <1>11, <3>1, <3>2 DEF PlacesInv
  <2>4. CallInv' /\ SyncInv'
    BY <1>1, <1>11 DEF CallInv, SyncInv, inputs
  <2>5. RowsInv'
    <3>1. CASE use = "image"
      <4>1. state' = "done"
        BY <1>4, <2>1, <2>2, <3>1
      <4> QED BY <4>1 DEF RowsInv
    <3>2. CASE use = "alpha"
      <4>1. RowOf(src) = row
        <5>1. col \in 0..(Width - 1)
          BY <1>4, <2>1 DEF CallInv
        <5> QED BY <1>4, <5>1, RowOfPlace DEF RowOf
      <4>2. Row' = row /\ use' # "image"
        BY <1>1, <1>11, <2>1, <3>2, <4>1 DEF Row, RowOf, inputs
      <4> QED BY <1>4, <2>1, <4>2 DEF RowsInv
    <3> QED BY <3>1, <3>2 DEF TypeOK
  <2> QED BY <1>6, <1>7, <2>3, <2>4, <2>5
<1> QED BY <1>10, <1>11

------------------------------------------------------------------------------
(* The theorems.                                                           *)

\* Every step preserves the invariant.
LEMMA NextLossless == LosslessInv /\ [Next]_vars => LosslessInv'
BY OutsideLossless, CallLossless, LiteralLossless, ColorCacheLossless,
   BackwardReferenceLossless, EndOfStreamLossless, WrapLossless, EndOfTokenLossless,
   EndOfLoopLossless, ProcessRowsLossless
   DEF Next, User, Decode, Stopped

\* The invariant, and with it the types: at any time the decoder is at a token,
\* everything before it is the picture, the color cache is what these pixels
\* make it, and the checkpoint is a place of the same kind.
THEOREM DecoderInvariant == Spec => []LosslessInv
<1> QED BY InitLossless, NextLossless, PTL DEF Spec

\* Whatever the pieces the data came in, the rows that left the decoder are
\* the picture's, each once, in order: for any picture, tokens, color cache,
\* distance of checkpoints and size of batches.
THEOREM RowsAreThePicture == Spec => []OutputRight
<1>1. LosslessInv => OutputRight
  BY DEF LosslessInv
<1> QED BY <1>1, DecoderInvariant, PTL

\* No step gives the transforms more rows than argb_cache_ holds, nor takes
\* last_row_ back.
THEOREM BatchesFit == Spec => BatchFits
<1>1. LosslessInv /\ [Next]_vars => [lastRow' - lastRow \in 0..CacheRows]_vars
  <2> SUFFICES ASSUME LosslessInv, Next
               PROVE  lastRow' - lastRow \in 0..CacheRows
    OBVIOUS
  <2>1. TypeOK /\ lastRow \in Nat /\ CacheRows \in Nat
    BY SizesOfPicture DEF LosslessInv, TypeOK
  <2>2. CASE ProcessRows
    <3>1. pc \in {"rows", "last"} /\ lastRow' = lastRow + Piece
      BY <2>2 DEF ProcessRows
    <3>2. Piece \in 0..CacheRows
      BY <3>1, PieceFits
    <3> QED BY <2>1, <3>1, <3>2
  <2>3. CASE ~ProcessRows
    <3>1. lastRow' = lastRow
      BY <2>3 DEF Next, User, Decode, Stopped, Receive, DecodeAlphaRows, DecodeHeader,
         HeaderSuspended, DecodeImage, Enter, Literal, ColorCache, BackwardReference,
         Iteration, EndOfStream, Wrap, EndOfToken, EndOfLoop, output, vars
    <3> QED BY <2>1, <3>1
  <2> QED BY <2>2, <2>3
<1> QED BY <1>1, DecoderInvariant, PTL DEF Spec, BatchFits
=============================================================================
