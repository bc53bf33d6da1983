-------------------------- MODULE AnimEncoder_proofs ------------------------
(***************************************************************************)
(* The entries of the animation encoder, the room there is for them, and   *)
(* what a player shows of them, for canvases of every width, every list of *)
(* pictures and durations, all options, every choice between candidates,   *)
(* and encodings that fail.                                                *)
(***************************************************************************)
EXTENDS AnimEncoder, SequenceTheorems, WellFoundedInduction, TLAPS

-----------------------------------------------------------------------------
(* The invariants.                                                         *)

Colors   == Seq(Layers)
Canvas   == [Pixels -> Colors]
Rects    == {r \in [x : Nat, w : Nat] : r.x + r.w <= Width}
Patches  == UNION {[S -> Colors] : S \in SUBSET Pixels}
NoFrames == [w : {0}, dur : Nat]
Frames ==
  {f \in [x : Nat, w : Nat, pix : Patches, blend : BOOLEAN, dispose : BOOLEAN, dur : Nat] :
     f.x + f.w <= Width /\ f.pix \in [In(f) -> Colors]}

\* The variant of an entry that is used is a frame, and its duration is where
\* IncreasePreviousDuration() reads it.
Entries ==
  {e \in [sub : Frames \cup NoFrames, key : Frames \cup NoFrames, isKey : BOOLEAN] :
     Chosen(e) \in Frames /\ Chosen(e).dur = e.sub.dur}

BothFrames(e) == e.sub \in Frames /\ e.key \in Frames /\ e.sub.dur = e.key.dur

TypeInv ==
  /\ prevCanvas \in Canvas /\ latest \in Canvas /\ prevRect \in Rects
  /\ cached \in Seq(Entries) /\ due \in Seq(Canvas)
  /\ muxed \in [below : Canvas, shown : Canvas, sinceKey : Nat, any : BOOLEAN]
  /\ start \in Nat /\ flushCount \in Nat /\ sinceKey \in Nat /\ extra \in Nat
  /\ bestDelta \in Penalties \cup {DeltaInfinity}
  /\ keyframe \in -1..Count - 1
  /\ undecided \in BOOLEAN /\ isFirst \in BOOLEAN /\ gotNull \in BOOLEAN
  /\ failed \in BOOLEAN /\ inCount \in Nat /\ input \in Pictures
  /\ pc \in {"idle", "cache", "room", "flush", "assemble", "done"}

\* What sanitized options are: either every frame is a key frame, or a key
\* frame is looked for from kmin to kmax frames after the last one.
OptionsInv ==
  /\ opts \in [kmin : Int, kmax : Int, minimize : BOOLEAN]
  /\ \/ opts.kmax = 0 /\ opts.kmin = 0
     \/ opts.kmax >= 2 /\ opts.kmin < opts.kmax

\* Entries that may be used both ways have both frames, and there is an entry
\* to give a duration to.
EntriesInv ==
  /\ keyframe # -1 => BothFrames(GetFrame(keyframe)) /\ GetFrame(keyframe).isKey
  /\ undecided /\ Count > 0 => BothFrames(cached[Count])
  /\ isFirst => /\ Count = 0 /\ start = 0 /\ flushCount = 0 /\ inCount = 0
                /\ pc \in {"idle", "cache"}
  /\ flushCount <= Count
  /\ ~isFirst /\ pc \notin {"assemble", "done"} => flushCount < Count

\* The frames that wait are those since the one that may be a key frame.
Within(n, limit) ==
  /\ bestDelta # DeltaInfinity
  /\ n + opts.kmin <= sinceKey /\ n + opts.kmin <= limit

RoomInv ==
  /\ sinceKey <= opts.kmax + 1
  /\ bestDelta # DeltaInfinity =>
       opts.kmin < opts.kmax /\ sinceKey >= opts.kmin + 1 /\ ~isFirst
  /\ ~failed =>
       /\ ~isFirst /\ pc = "idle" /\ ~gotNull =>
            /\ flushCount = 0
            /\ Count = 1 => start = 0
            /\ start + Count = 1 \/ Within(start + Count, opts.kmax - 1)
       /\ ~isFirst /\ (pc = "cache" \/ (pc = "idle" /\ gotNull)) =>
            /\ start + Count < Size
            /\ \/ /\ flushCount = 0
                  /\ Count = 1 => start = 0
                  /\ start + Count = 1 \/ Within(start + Count, opts.kmax - 1)
               \/ /\ flushCount = Count - 1 /\ flushCount >= 1
                  /\ start + Count = 2 \/ Within(start + Count, opts.kmax)
                  /\ bestDelta # DeltaInfinity => sinceKey >= opts.kmin + 2
       /\ pc = "room" => flushCount = Count - 1
       /\ pc = "flush" =>
            flushCount = Count - 1 \/ Within(start + Count, opts.kmax - 1)

\* Playing frames, as Played() does, from a state p that has played some.
Step(p, f) ==
  LET canvas == Draw(p.below, f) IN
  [below |-> Dispose(canvas, f), shown |-> canvas,
   ticks |-> p.ticks \o Ticks(f.dur, canvas)]

IsPlay(g, p, frames, n) ==
  g = [i \in 0..n |-> IF i = 0 THEN p ELSE Step(g[i - 1], frames[i])]

PlayTo(p, frames, n) ==
  LET g[i \in 0..n] == IF i = 0 THEN p ELSE Step(g[i - 1], frames[i]) IN g[n]

Begin == [below |-> muxed.below, shown |-> muxed.shown, ticks |-> <<>>]
At(n) == PlayTo(Begin, Waiting, n)
Last == cached[Count]

\* What the next sub-frame is computed from, prev_canvas_ and prev_rect_, is
\* what a player has after the waiting frames, whichever variant is used.
StopInv  == failed => pc \in {"idle", "done"}
FirstInv == isFirst => muxed.below = Blank /\ due = <<>> /\ extra = 0 /\ prevCanvas = Blank
TicksInv == At(Count).ticks = due \o Ticks(extra, latest)
ShownInv == ~isFirst => At(Count).shown = latest
PrevInv  == ~failed /\ ~isFirst => prevCanvas = latest
LastInv ==
  ~failed /\ Count > 0 =>
    /\ ~Chosen(Last).dispose
    /\ undecided => ~Last.sub.dispose /\ ~Last.key.dispose
    /\ ~undecided => Chosen(Last).x = prevRect.x /\ Chosen(Last).w = prevRect.w

\* The ticks that are not confirmed are the last ones of the last frame.
ExtraInv ==
  ~failed =>
    /\ pc \notin {"room", "cache"} => extra = 0
    /\ pc \in {"room", "cache"} /\ ~isFirst => extra <= Chosen(Last).dur

\* The two variants of the frame that may be demoted paint the same canvas.
KeyInv ==
  keyframe # -1 =>
    LET e == GetFrame(keyframe)
        b == At(keyframe).below
    IN /\ Draw(b, e.sub) = Draw(b, e.key)
       /\ ~e.sub.dispose /\ ~e.key.dispose
       /\ keyframe = Count - 1 => undecided

PlayInv ==
  /\ StopInv /\ FirstInv /\ TicksInv /\ ShownInv /\ PrevInv /\ LastInv
  /\ ExtraInv /\ KeyInv

-----------------------------------------------------------------------------
(* Numbers.                                                                *)

\* A nonempty set of natural numbers has a least element.
LEMMA Least ==
  ASSUME NEW S \in SUBSET Nat, S # {}
  PROVE  \E x \in S : \A y \in S : x <= y
<1>1. PICK x \in S : \A y \in S : ~ (<<y, x>> \in OpToRel(<, Nat))
  BY WFMin, NatLessThanWellFounded
<1>2. ASSUME NEW y \in S PROVE x <= y
  <2>1. ~ (y < x)
    BY <1>1 DEF OpToRel
  <2> QED BY <2>1
<1> QED BY <1>2

\* A set that holds zero, and the next number with each, holds them all.
LEMMA Induct ==
  ASSUME NEW S, 0 \in S, \A n \in Nat : n \in S => n + 1 \in S
  PROVE  \A n \in Nat : n \in S
<1> DEFINE Others == {n \in Nat : n \notin S}
<1> SUFFICES ASSUME Others # {} PROVE FALSE
  OBVIOUS
<1>1. PICK x \in Others : \A y \in Others : x <= y
  BY Least
<1>2. x # 0 /\ x \in Nat
  OBVIOUS
<1>3. x - 1 \in Nat /\ (x - 1) + 1 = x /\ ~ (x <= x - 1)
  BY <1>2
<1>4. x - 1 \in S
  BY <1>1, <1>3
<1>5. x \in S
  BY <1>3, <1>4
<1> QED BY <1>5

\* The larger of two numbers.
LEMMA MaxOfTwo ==
  ASSUME NEW a \in Int, NEW b \in Int
  PROVE  Max({a, b}) = IF a >= b THEN a ELSE b
<1> DEFINE m == IF a >= b THEN a ELSE b
<1>1. m \in {a, b} /\ \A y \in {a, b} : m >= y
  OBVIOUS
<1>2. \A x \in {a, b} : (\A y \in {a, b} : x >= y) => x = m
  OBVIOUS
<1> HIDE DEF m
<1>3. Max({a, b}) \in {a, b} /\ \A y \in {a, b} : Max({a, b}) >= y
  BY <1>1, Zenon DEF Max
<1>4. Max({a, b}) = m
  BY <1>2, <1>3, Zenon
<1> QED BY <1>4 DEF m

\* The smaller of two numbers.
LEMMA MinOfTwo ==
  ASSUME NEW a \in Int, NEW b \in Int
  PROVE  Min({a, b}) = IF a <= b THEN a ELSE b
<1> DEFINE m == IF a <= b THEN a ELSE b
<1>1. m \in {a, b} /\ \A y \in {a, b} : m <= y
  OBVIOUS
<1>2. \A x \in {a, b} : (\A y \in {a, b} : x <= y) => x = m
  OBVIOUS
<1> HIDE DEF m
<1>3. Min({a, b}) \in {a, b} /\ \A y \in {a, b} : Min({a, b}) <= y
  BY <1>1, Zenon DEF Min
<1>4. Min({a, b}) = m
  BY <1>2, <1>3, Zenon
<1> QED BY <1>4 DEF m

\* The bounds of a set of pixels.
LEMMA Bounds ==
  ASSUME NEW S \in SUBSET Pixels, S # {}
  PROVE  /\ Min(S) \in S /\ Max(S) \in S
         /\ \A i \in S : Min(S) <= i /\ i <= Max(S)
<1>0. Width \in Nat /\ S \in SUBSET Nat /\ \A i \in S : i < Width
  BY WidthAssumption DEF Pixels
<1>1. \E x \in S : \A y \in S : x <= y
  BY <1>0, Least
<1>2. Min(S) \in S /\ \A y \in S : Min(S) <= y
  BY <1>1, Zenon DEF Min
<1> DEFINE D == {k \in Nat : Width - k \in S}
<1>3. ASSUME NEW s \in S PROVE Width - s \in D
  <2>1. Width - s \in Nat /\ Width - (Width - s) = s
    BY <1>0
  <2> QED BY <2>1
<1>4. PICK k \in D : \A l \in D : k <= l
  BY <1>3, Least
<1>5. Width - k \in S /\ k \in Nat
  OBVIOUS
<1>6. ASSUME NEW y \in S PROVE Width - k >= y
  <2>1. k <= Width - y
    BY <1>3, <1>4
  <2> HIDE DEF D
  <2> QED BY <1>0, <1>5, <2>1
<1>7. \E x \in S : \A y \in S : x >= y
  BY <1>5, <1>6
<1>8. Max(S) \in S /\ \A y \in S : Max(S) >= y
  BY <1>7, Zenon DEF Max
<1>9. \A y \in S : y <= Max(S)
  BY <1>0, <1>8
<1> QED BY <1>2, <1>8, <1>9

\* DELTA_INFINITY is past every penalty.
LEMMA Infinity ==
  /\ DeltaInfinity \in Int
  /\ \A p \in Penalties : p \in Int /\ p < DeltaInfinity
<1>1. PICK p \in Penalties : \A q \in Penalties : q <= p
  BY LimitsAssumption
<1>2. \A q \in Penalties : q \in Int
  BY LimitsAssumption
<1>3. \A q \in Penalties : p >= q
  BY <1>1, <1>2
<1>4. Max(Penalties) \in Penalties /\ \A q \in Penalties : Max(Penalties) >= q
  BY <1>3, Zenon DEF Max
<1>5. ASSUME NEW q \in Penalties PROVE q < Max(Penalties) + 1
  <2>1. Max(Penalties) >= q /\ q \in Int /\ Max(Penalties) \in Int
    BY <1>2, <1>4
  <2> QED BY <2>1
<1> QED BY <1>2, <1>4, <1>5 DEF DeltaInfinity

-----------------------------------------------------------------------------
(* Options.                                                                *)

\* SanitizeEncoderOptions() keeps kmin from falling too far below kmax.
LEMMA LimitedKmin ==
  ASSUME NEW o \in [kmin : Int, kmax : Int, minimize : BOOLEAN], o.kmax >= 2
  PROVE  /\ LimitKmin(o) \in [kmin : Int, kmax : Int, minimize : BOOLEAN]
         /\ LimitKmin(o).kmax >= 2 /\ LimitKmin(o).kmin < LimitKmin(o).kmax
<1> DEFINE half == o.kmax \div 2 + 1
           limit == o.kmax - MaxCachedFrames
<1>1. o.kmin \in Int /\ o.kmax \in Int /\ half \in Int
  OBVIOUS
<1>2. limit \in Int /\ limit < o.kmax
  BY LimitsAssumption
<1> HIDE DEF half, limit
<1>3. Kmin(o) \in Int /\ Kmin(o) < o.kmax
  <2>1. Max({o.kmin, half}) = IF o.kmin >= half THEN o.kmin ELSE half
    BY <1>1, MaxOfTwo
  <2> QED BY <1>1, <2>1 DEF Kmin, half
<1>4. Max({Kmin(o), limit}) = IF Kmin(o) >= limit THEN Kmin(o) ELSE limit
  BY <1>2, <1>3, MaxOfTwo
<1>5. Max({Kmin(o), limit}) \in Int /\ Max({Kmin(o), limit}) < o.kmax
  BY <1>2, <1>3, <1>4
<1>6. LimitKmin(o) = [o EXCEPT !.kmin = Max({Kmin(o), limit})]
  BY DEF LimitKmin, limit
<1> QED BY <1>1, <1>5, <1>6

\* What SanitizeEncoderOptions() makes of any options.
LEMMA SanitizedOptions ==
  ASSUME NEW o \in Options
  PROVE  /\ Sanitize(o) \in [kmin : Int, kmax : Int, minimize : BOOLEAN]
         /\ \/ Sanitize(o).kmax = 0 /\ Sanitize(o).kmin = 0
            \/ Sanitize(o).kmax >= 2 /\ Sanitize(o).kmin < Sanitize(o).kmax
<1> DEFINE OptionSet == [kmin : Int, kmax : Int, minimize : BOOLEAN]
           asked == IF o.minimize THEN Disabled(o) ELSE o
           usable == IF asked.kmax <= 0 THEN Disabled(asked) ELSE asked
<1>1. o \in OptionSet
  BY OptionsAssumption
<1>2. ASSUME NEW p \in OptionSet
      PROVE  Disabled(p) \in OptionSet /\ Disabled(p).kmax >= 2
  <2> DEFINE a == NoKeyFrames
             b == NoKeyFrames - 1
  <2>1. a \in Int /\ b \in Int /\ a >= 2
    BY LimitsAssumption
  <2> HIDE DEF a, b
  <2>2. Disabled(p) = [p EXCEPT !.kmax = a, !.kmin = b]
    BY DEF Disabled, a, b
  <2> QED BY <2>1, <2>2
<1>3. asked \in OptionSet
  BY <1>1, <1>2
<1> HIDE DEF asked
<1>4. CASE asked.kmax = 1
  <2>1. Sanitize(o) = [asked EXCEPT !.kmin = 0, !.kmax = 0]
    BY <1>4 DEF Sanitize, asked
  <2>2. Sanitize(o) = [kmin |-> 0, kmax |-> 0, minimize |-> asked.minimize]
    BY <1>3, <2>1
  <2> QED BY <1>3, <2>2
<1>5. CASE asked.kmax # 1
  <2>1. Sanitize(o) = LimitKmin(usable)
    BY <1>5 DEF Sanitize, asked
  <2>2. usable \in OptionSet /\ usable.kmax >= 2
    BY <1>2, <1>3, <1>5
  <2> HIDE DEF usable
  <2> QED BY <2>1, <2>2, LimitedKmin
<1> QED BY <1>4, <1>5

\* encoded_frames_ has room for two entries, and for a period of key frames.
LEMMA SizeRight ==
  ASSUME OptionsInv
  PROVE  /\ Size \in Nat /\ Size >= 2 /\ Size >= opts.kmax - opts.kmin + 1
         /\ Size = 2 \/ Size = opts.kmax - opts.kmin + 1
         /\ opts.kmax \in Int /\ opts.kmin \in Int
<1>1. opts.kmax \in Int /\ opts.kmin \in Int
  BY DEF OptionsInv
<1> QED BY <1>1, MaxOfTwo DEF Size

\* count_since_key_frame_ stops counting past kmax.
LEMMA SaturatedRight ==
  ASSUME OptionsInv, NEW n \in Nat
  PROVE  /\ Saturated(n) \in Nat /\ Saturated(n) <= opts.kmax + 1
         /\ Saturated(n) = n \/ (Saturated(n) = opts.kmax + 1 /\ Saturated(n) < n)
<1>1. opts.kmax + 1 \in Nat
  BY DEF OptionsInv
<1>2. Saturated(n) = IF n <= opts.kmax + 1 THEN n ELSE opts.kmax + 1
  BY <1>1, MinOfTwo DEF Saturated
<1> QED BY <1>1, <1>2

-----------------------------------------------------------------------------
(* Rectangles and what is drawn in them.                                   *)

Covers(r, src, dst) == \A i \in Pixels : src[i] # dst[i] => i \in In(r)

\* The columns where two canvases differ.
LEMMA Changed ==
  ASSUME NEW src \in Canvas, NEW dst \in Canvas
  PROVE  LET r == MinimizeChangeRectangle(src, dst) IN
         r \in Rects /\ Covers(r, src, dst) /\ (r.w = 0 => src = dst)
<1> DEFINE changed == {i \in Pixels : src[i] # dst[i]}
           r == MinimizeChangeRectangle(src, dst)
<1>1. CASE changed = {}
  <2>1. r = [x |-> 0, w |-> 0]
    BY <1>1 DEF MinimizeChangeRectangle, NoRect
  <2>2. \A i \in Pixels : src[i] = dst[i]
    BY <1>1
  <2>3. src = dst
    BY <2>2 DEF Canvas
  <2> QED BY <2>1, <2>2, <2>3, WidthAssumption DEF Rects, Covers
<1>2. CASE changed # {}
  <2>1. /\ Min(changed) \in changed /\ Max(changed) \in changed
        /\ \A i \in changed : Min(changed) <= i /\ i <= Max(changed)
    BY <1>2, Bounds
  <2>2. r = [x |-> Min(changed), w |-> Max(changed) - Min(changed) + 1]
    BY <1>2 DEF MinimizeChangeRectangle
  <2> DEFINE low == Min(changed)
             high == Max(changed)
  <2>3. low \in Nat /\ high \in Nat /\ low <= high /\ high < Width /\ Width \in Nat
    <3>1. low \in Pixels /\ high \in Pixels /\ low <= high
      BY <2>1
    <3> HIDE DEF low, high
    <3> QED BY <3>1, WidthAssumption DEF Pixels
  <2>4. r = [x |-> low, w |-> high - low + 1]
    BY <2>2
  <2>5. \A i \in changed : low <= i /\ i <= high
    BY <2>1
  <2> HIDE DEF low, high
  <2>6. r \in Rects /\ r.w # 0
    BY <2>3, <2>4 DEF Rects
  <2>7. ASSUME NEW i \in Pixels, src[i] # dst[i] PROVE i \in In(r)
    <3>1. low <= i /\ i <= high /\ i \in Int
      BY <2>5, <2>7 DEF Pixels
    <3> QED BY <2>3, <2>4, <3>1 DEF In
  <2> QED BY <2>6, <2>7 DEF Covers
<1> QED BY <1>1, <1>2

\* A rectangle that starts at an even column covers what it covered.
LEMMA Snapped ==
  ASSUME NEW r \in Rects
  PROVE  /\ SnapToEvenOffsets(r) \in Rects
         /\ \A i \in In(r) : i \in In(SnapToEvenOffsets(r))
         /\ SnapToEvenOffsets(r).w >= r.w
         /\ r.x = 0 => SnapToEvenOffsets(r) = r
<1> DEFINE odd == r.x % 2
<1>1. r.x \in Nat /\ r.w \in Nat /\ r.x + r.w <= Width /\ Width \in Nat
  BY WidthAssumption DEF Rects
<1>2. odd \in Nat /\ odd <= r.x /\ (r.x = 0 => odd = 0)
  BY <1>1
<1>3. SnapToEvenOffsets(r) = [x |-> r.x - odd, w |-> r.w + odd]
  BY DEF SnapToEvenOffsets
<1>4. r = [x |-> r.x, w |-> r.w]
  BY DEF Rects
<1> HIDE DEF odd
<1> QED BY <1>1, <1>2, <1>3, <1>4 DEF Rects, In

\* A sub-frame repaints at least what changed, and it is empty only when
\* nothing did.
LEMMA SubRects ==
  ASSUME NEW prev \in Canvas, NEW curr \in Canvas, NEW isKey \in BOOLEAN,
         NEW emptyAllowed \in BOOLEAN, isFirst \in BOOLEAN
  PROVE  LET r == GetSubRect(prev, curr, isKey, emptyAllowed) IN
         /\ r \in Rects /\ Covers(r, prev, curr)
         /\ r.w = 0 => emptyAllowed /\ prev = curr
         /\ isKey /\ ~isFirst => r = [x |-> 0, w |-> Width]
<1> DEFINE m == MinimizeChangeRectangle(prev, curr)
           all == [x |-> 0, w |-> Width]
           asked == IF ~isKey \/ isFirst THEN m ELSE all
           r == GetSubRect(prev, curr, isKey, emptyAllowed)
<1>1. m \in Rects /\ Covers(m, prev, curr) /\ (m.w = 0 => prev = curr)
  BY Changed
<1>2. all \in Rects /\ Covers(all, prev, curr) /\ all.w # 0
  BY WidthAssumption DEF Rects, Covers, In, Pixels
<1> HIDE DEF m
<1>3. asked \in Rects /\ Covers(asked, prev, curr) /\ (asked.w = 0 => prev = curr)
  BY <1>1, <1>2
<1>4. r = IF asked.w = 0 /\ ~emptyAllowed THEN [x |-> 0, w |-> 1]
                                          ELSE SnapToEvenOffsets(asked)
  BY DEF GetSubRect, m
<1>5. isKey /\ ~isFirst => asked = [x |-> 0, w |-> Width]
  OBVIOUS
<1> HIDE DEF asked, r
<1>6. CASE asked.w = 0 /\ ~emptyAllowed
  <2>1. r = [x |-> 0, w |-> 1] /\ prev = curr
    BY <1>3, <1>4, <1>6
  <2>2. ~ (isKey /\ ~isFirst)
    BY <1>5, <1>6, WidthAssumption
  <2>3. r \in Rects /\ Covers(r, prev, curr)
    BY <2>1, WidthAssumption DEF Rects, Covers
  <2> QED BY <2>1, <2>2, <2>3 DEF r
<1>7. CASE ~ (asked.w = 0 /\ ~emptyAllowed)
  <2>1. r = SnapToEvenOffsets(asked)
    BY <1>4, <1>7
  <2>2. /\ r \in Rects /\ r.w >= asked.w /\ (asked.x = 0 => r = asked)
        /\ \A i \in In(asked) : i \in In(r)
    BY <1>3, <2>1, Snapped
  <2>3. Covers(r, prev, curr)
    BY <1>3, <2>2 DEF Covers
  <2>4. r.w = 0 => asked.w = 0
    BY <1>3, <2>2 DEF Rects
  <2>5. r.w = 0 => emptyAllowed /\ prev = curr
    BY <1>3, <1>7, <2>4
  <2>6. isKey /\ ~isFirst => r = [x |-> 0, w |-> Width]
    BY <1>5, <2>2
  <2> QED BY <2>2, <2>3, <2>5, <2>6 DEF r
<1> QED BY <1>6, <1>7

\* Drawing a frame gives a canvas.
LEMMA DrawType ==
  ASSUME NEW canvas \in Canvas, NEW f \in Frames
  PROVE  Draw(canvas, f) \in Canvas /\ Dispose(Draw(canvas, f), f) \in Canvas
<1>1. ASSUME NEW c \in Colors, NEW d \in Colors PROVE Over(c, d) \in Colors
  BY DEF Over, Colors
<1>2. ASSUME NEW i \in Pixels, i \in In(f) PROVE f.pix[i] \in Colors
  BY <1>2 DEF Frames
<1>3. ASSUME NEW i \in Pixels PROVE canvas[i] \in Colors
  BY DEF Canvas
<1>4. ASSUME NEW i \in Pixels
      PROVE  (IF i \notin In(f) THEN canvas[i]
              ELSE IF f.blend THEN Over(f.pix[i], canvas[i]) ELSE f.pix[i]) \in Colors
  BY <1>1, <1>2, <1>3
<1>5. Draw(canvas, f) \in Canvas
  BY <1>4 DEF Draw, Canvas
<1>6. ASSUME NEW c \in Canvas PROVE Clear(c, f) \in Canvas
  <2>1. Transparent \in Colors
    BY DEF Transparent, Colors
  <2>2. \A i \in Pixels : c[i] \in Colors
    BY DEF Canvas
  <2> QED BY <2>1, <2>2 DEF Clear, Canvas
<1> QED BY <1>5, <1>6 DEF Dispose

\* Clearing a rectangle gives a canvas.
LEMMA ClearType ==
  ASSUME NEW canvas \in Canvas, NEW r
  PROVE  Clear(canvas, r) \in Canvas
<1>1. Transparent \in Colors
  BY DEF Transparent, Colors
<1>2. \A i \in Pixels : canvas[i] \in Colors
  BY DEF Canvas
<1> QED BY <1>1, <1>2 DEF Clear, Canvas

\* The frame of a candidate is a frame, and makes of prev what is asked for.
LEMMA Drawn ==
  ASSUME NEW prev \in Canvas, NEW curr \in Canvas, NEW r \in Rects,
         Covers(r, prev, curr), NEW isKey \in BOOLEAN, NEW dispose \in BOOLEAN,
         NEW c, c = Candidate(prev, curr, r, isKey, dispose)
  PROVE  /\ c.frame \in Frames /\ c.frame.x = r.x /\ c.frame.w = r.w
         /\ c.frame.dur = 0 /\ ~c.frame.dispose /\ Draw(prev, c.frame) = curr
         /\ isKey => ~c.frame.blend /\ \A i \in In(r) : c.frame.pix[i] = curr[i]
         /\ c.disposePrev = dispose
<1> DEFINE blend == ~isKey /\ IsBlendingPossible(prev, curr, r)
           pix == IF blend THEN IncreaseTransparency(prev, curr, r)
                           ELSE [i \in In(r) |-> curr[i]]
           f == c.frame
<1>1. f = [x |-> r.x, w |-> r.w, blend |-> blend, dispose |-> FALSE, dur |-> 0,
           pix |-> pix]
      /\ c.disposePrev = dispose
  BY Zenon DEF Candidate
<1>2. blend \in BOOLEAN
  BY Zenon DEF IsBlendingPossible
<1>3. /\ r.x \in Nat /\ r.w \in Nat /\ r.x + r.w <= Width /\ Width \in Nat
      /\ In(r) \in SUBSET Pixels
  BY WidthAssumption DEF Rects, In, Pixels
<1>4. \A i \in Pixels : prev[i] \in Colors /\ curr[i] \in Colors
  BY DEF Canvas
<1>5. Transparent \in Colors
  BY DEF Transparent, Colors
<1>6. pix \in [In(r) -> Colors]
  BY <1>3, <1>4, <1>5 DEF IncreaseTransparency
<1>7. isKey => ~blend /\ \A i \in In(r) : pix[i] = curr[i]
  OBVIOUS
<1> HIDE DEF f
<1>9. f.x = r.x /\ f.w = r.w /\ f.dur = 0 /\ f.dispose = FALSE /\ f.blend = blend
      /\ f.pix = pix
  <2> HIDE DEF blend, pix
  <2> QED BY <1>1
<1>8. In(f) = In(r)
  BY <1>9, Zenon DEF In
<1>10. f \in Frames
  <2>1. pix \in Patches
    BY <1>3, <1>6, Zenon DEF Patches
  <2> HIDE DEF blend, pix
  <2>2. f \in [x : Nat, w : Nat, pix : Patches, blend : BOOLEAN, dispose : BOOLEAN, dur : Nat]
    BY <1>1, <1>2, <1>3, <2>1
  <2> QED BY <1>3, <1>6, <1>8, <1>9, <2>2 DEF Frames
<1>11. ASSUME NEW i \in Pixels
       PROVE  (IF i \notin In(f) THEN prev[i]
               ELSE IF f.blend THEN Over(f.pix[i], prev[i]) ELSE f.pix[i]) = curr[i]
  <2>1. CASE i \notin In(r)
    BY <1>8, <2>1, Zenon DEF Covers
  <2>2. CASE i \in In(r) /\ ~blend
    BY <1>8, <1>9, <2>2, Zenon
  <2>3. CASE i \in In(r) /\ blend
    <3>1. f.pix[i] = IF prev[i] = curr[i] THEN Transparent ELSE curr[i]
      BY <1>9, <2>3, Zenon DEF IncreaseTransparency
    <3>2. Opaque(curr[i]) \/ prev[i] = curr[i]
      BY <2>3, Zenon DEF IsBlendingPossible
    <3>3. Over(Transparent, prev[i]) = prev[i]
      <4>1. ~Opaque(Transparent)
        BY DEF Opaque, Transparent
      <4>2. <<>> \o prev[i] = prev[i]
        BY <1>4 DEF Colors
      <4> QED BY <4>1, <4>2 DEF Over, Transparent
    <3>4. CASE prev[i] = curr[i]
      BY <1>8, <1>9, <2>3, <3>1, <3>3, <3>4, Zenon
    <3>5. CASE prev[i] # curr[i]
      <4>1. Over(curr[i], prev[i]) = curr[i]
        BY <3>2, <3>5, Zenon DEF Over
      <4> QED BY <1>8, <1>9, <2>3, <3>1, <3>5, <4>1, Zenon
    <3> QED BY <3>4, <3>5, Zenon
  <2> QED BY <2>1, <2>2, <2>3, Zenon
<1>12. Draw(prev, f) = curr
  <2>1. Draw(prev, f) = [i \in Pixels |-> curr[i]]
    BY <1>11, Zenon DEF Draw
  <2> QED BY <2>1 DEF Canvas
<1>13. isKey => ~f.blend /\ \A i \in In(r) : f.pix[i] = curr[i]
  BY <1>7, <1>9, Zenon
<1> QED BY <1>1, <1>9, <1>10, <1>12, <1>13, Zenon DEF f

\* What SetFrame() may choose turns into the picture what the client is left
\* with, after the disposal that goes with it.
LEMMA CandidatesRight ==
  ASSUME prevCanvas \in Canvas, isFirst \in BOOLEAN, undecided \in BOOLEAN,
         NEW curr \in Canvas, NEW isKey \in BOOLEAN, NEW c \in Candidates(curr, isKey)
  PROVE  /\ c.frame \in Frames /\ c.frame.dur = 0 /\ ~c.frame.dispose
         /\ c.disposePrev \in BOOLEAN
         /\ c.disposePrev =>
              ~isKey /\ ~undecided /\ Draw(Clear(prevCanvas, prevRect), c.frame) = curr
         /\ ~c.disposePrev => Draw(prevCanvas, c.frame) = curr
         /\ isKey /\ ~isFirst => \A b : Draw(b, c.frame) = curr
<1> DEFINE none == RectNone(curr, isKey)
           prevDisposed == Clear(prevCanvas, prevRect)
           bg == GetSubRect(prevDisposed, curr, isKey, FALSE)
<1>1. prevDisposed \in Canvas
  BY ClearType
<1> HIDE DEF prevDisposed
<1>2. none \in Rects /\ Covers(none, prevCanvas, curr)
      /\ (isKey /\ ~isFirst => none = [x |-> 0, w |-> Width])
  BY SubRects DEF RectNone
<1>3. bg \in Rects /\ Covers(bg, prevDisposed, curr)
  BY <1>1, SubRects
<1> HIDE DEF none, bg
<1>4. \/ c = Candidate(prevCanvas, curr, none, isKey, FALSE)
      \/ DisposeBgPossible(isKey) /\ c = Candidate(prevDisposed, curr, bg, isKey, TRUE)
  BY Zenon DEF Candidates, none, prevDisposed, bg
<1>5. CASE c = Candidate(prevCanvas, curr, none, isKey, FALSE)
  <2>1. /\ c.frame \in Frames /\ c.frame.x = none.x /\ c.frame.w = none.w
        /\ c.frame.dur = 0 /\ ~c.frame.dispose
        /\ Draw(prevCanvas, c.frame) = curr
        /\ isKey => ~c.frame.blend /\ \A i \in In(none) : c.frame.pix[i] = curr[i]
        /\ c.disposePrev = FALSE
    <3> DEFINE d == FALSE
    <3>1. d \in BOOLEAN
      OBVIOUS
    <3>2. c = Candidate(prevCanvas, curr, none, isKey, d)
      BY <1>5
    <3> HIDE DEF d
    <3>3. /\ c.frame \in Frames /\ c.frame.x = none.x /\ c.frame.w = none.w
          /\ c.frame.dur = 0 /\ ~c.frame.dispose
          /\ Draw(prevCanvas, c.frame) = curr
          /\ isKey => ~c.frame.blend /\ \A i \in In(none) : c.frame.pix[i] = curr[i]
          /\ c.disposePrev = d
      BY <1>2, <3>1, <3>2, Drawn
    <3> QED BY <1>5, <3>3, Zenon DEF d
  <2>2. ASSUME isKey, ~isFirst, NEW b PROVE Draw(b, c.frame) = curr
    <3>1. c.frame.x = 0 /\ c.frame.w = Width /\ none.x = 0 /\ none.w = Width
      BY <1>2, <2>1, <2>2
    <3>2. \A i \in Pixels : i \in In(none) /\ i \in In(c.frame)
      BY <3>1, WidthAssumption DEF In, Pixels
    <3>3. Draw(b, c.frame) = [i \in Pixels |-> curr[i]]
      BY <2>1, <2>2, <3>2, Zenon DEF Draw
    <3> QED BY <3>3 DEF Canvas
  <2> QED BY <2>1, <2>2, Zenon
<1>6. CASE DisposeBgPossible(isKey) /\ c = Candidate(prevDisposed, curr, bg, isKey, TRUE)
  <2>1. /\ c.frame \in Frames /\ c.frame.dur = 0 /\ ~c.frame.dispose
        /\ Draw(prevDisposed, c.frame) = curr /\ c.disposePrev = TRUE
    <3> DEFINE d == TRUE
    <3>1. d \in BOOLEAN
      OBVIOUS
    <3>2. c = Candidate(prevDisposed, curr, bg, isKey, d)
      BY <1>6
    <3> HIDE DEF d
    <3>3. /\ c.frame \in Frames /\ c.frame.dur = 0 /\ ~c.frame.dispose
          /\ Draw(prevDisposed, c.frame) = curr /\ c.disposePrev = d
      BY <1>1, <1>3, <3>1, <3>2, Drawn
    <3> QED BY <3>3, Zenon DEF d
  <2>2. ~isKey /\ ~undecided
    BY <1>6, Zenon DEF DisposeBgPossible
  <2> QED BY <2>1, <2>2, Zenon DEF prevDisposed
<1> QED BY <1>4, <1>5, <1>6, Zenon

\* There is none only for the picture that is there already.
LEMMA NoCandidates ==
  ASSUME prevCanvas \in Canvas, isFirst \in BOOLEAN,
         NEW curr \in Canvas, Candidates(curr, FALSE) = {}
  PROVE  prevCanvas = curr
<1> DEFINE none == RectNone(curr, FALSE)
<1>1. none.w = 0 => prevCanvas = curr
  BY SubRects DEF RectNone
<1> HIDE DEF none
<1>2. CASE none.w # 0
  BY <1>2 DEF Candidates, none
<1> QED BY <1>1, <1>2

-----------------------------------------------------------------------------
(* Entries of encoded_frames_.                                             *)

\* Two frames that differ in nothing that is drawn.
Alike(f, g) ==
  f.x = g.x /\ f.w = g.w /\ f.pix = g.pix /\ f.blend = g.blend

\* Frames that differ in duration and disposal only are drawn alike.
LEMMA AlikeDrawn ==
  ASSUME NEW f, NEW g, Alike(f, g), NEW b
  PROVE  Draw(b, f) = Draw(b, g) /\ Clear(b, f) = Clear(b, g)
<1>1. In(f) = In(g)
  BY Zenon DEF Alike, In
<1> QED BY <1>1, Zenon DEF Alike, Draw, Clear

Lasting(f, n)   == [f EXCEPT !.dur = n]
Disposing(f, d) == [f EXCEPT !.dispose = d]

\* Setting the duration of a frame.
LEMMA Timed ==
  ASSUME NEW f \in Frames, NEW n \in Nat
  PROVE  /\ Lasting(f, n) \in Frames /\ Lasting(f, n).dur = n
         /\ Lasting(f, n).dispose = f.dispose /\ Alike(f, Lasting(f, n))
<1> DEFINE g == Lasting(f, n)
<1>1. f \in [x : Nat, w : Nat, pix : Patches, blend : BOOLEAN, dispose : BOOLEAN, dur : Nat]
      /\ f.x + f.w <= Width /\ f.pix \in [In(f) -> Colors]
  BY DEF Frames
<1>2. g = [x |-> f.x, w |-> f.w, pix |-> f.pix, blend |-> f.blend,
           dispose |-> f.dispose, dur |-> n]
  BY <1>1 DEF Lasting
<1> HIDE DEF g
<1>3. Alike(f, g) /\ g.dispose = f.dispose /\ g.dur = n
  BY <1>2, Zenon DEF Alike
<1>4. g \in [x : Nat, w : Nat, pix : Patches, blend : BOOLEAN, dispose : BOOLEAN, dur : Nat]
  BY <1>1, <1>2
<1>5. g.x + g.w <= Width /\ g.pix \in [In(g) -> Colors]
  BY <1>1, <1>3, Zenon DEF Alike, In
<1> QED BY <1>3, <1>4, <1>5, Zenon DEF Frames, g

\* Setting the disposal of a frame.
LEMMA Disposed ==
  ASSUME NEW f \in Frames, NEW d \in BOOLEAN
  PROVE  /\ Disposing(f, d) \in Frames /\ Disposing(f, d).dur = f.dur
         /\ Disposing(f, d).dispose = d /\ Alike(f, Disposing(f, d))
         /\ f.dispose = d => Disposing(f, d) = f
<1> DEFINE g == Disposing(f, d)
<1>1. f \in [x : Nat, w : Nat, pix : Patches, blend : BOOLEAN, dispose : BOOLEAN, dur : Nat]
      /\ f.x + f.w <= Width /\ f.pix \in [In(f) -> Colors]
  BY DEF Frames
<1>2. g = [x |-> f.x, w |-> f.w, pix |-> f.pix, blend |-> f.blend,
           dispose |-> d, dur |-> f.dur]
  BY <1>1 DEF Disposing
<1> HIDE DEF g
<1>3. Alike(f, g) /\ g.dispose = d /\ g.dur = f.dur
  BY <1>2, Zenon DEF Alike
<1>4. g \in [x : Nat, w : Nat, pix : Patches, blend : BOOLEAN, dispose : BOOLEAN, dur : Nat]
  BY <1>1, <1>2
<1>5. g.x + g.w <= Width /\ g.pix \in [In(g) -> Colors]
  BY <1>1, <1>3, Zenon DEF Alike, In
<1>6. f.dispose = d => g = f
  BY <1>1 DEF Disposing, g
<1>7. g \in Frames
  BY <1>4, <1>5, Zenon DEF Frames
<1> QED BY <1>3, <1>6, <1>7, Zenon DEF g

\* What an entry holds in place of a frame it does not have.
LEMMA NoFrameType ==
  /\ NoFrame \in NoFrames
  /\ \A f \in NoFrames : f \notin Frames
<1>1. NoFrame \in NoFrames
  BY DEF NoFrame, NoFrames
<1>2. ASSUME NEW f \in NoFrames, f \in Frames PROVE FALSE
  <2>1. DOMAIN f = {"w", "dur"}
    BY DEF NoFrames
  <2>2. DOMAIN f = {"x", "w", "pix", "blend", "dispose", "dur"}
    BY <1>2 DEF Frames
  <2> QED BY <2>1, <2>2
<1> QED BY <1>1, <1>2

\* Its duration can be set as well.
LEMMA TimedNone ==
  ASSUME NEW f \in NoFrames, NEW n \in Nat
  PROVE  Lasting(f, n) \in NoFrames /\ Lasting(f, n).dur = n
BY DEF NoFrames, Lasting

\* An entry, and what it consists of.
LEMMA EntryParts ==
  ASSUME NEW e \in Entries
  PROVE  /\ e.sub \in Frames \cup NoFrames /\ e.key \in Frames \cup NoFrames
         /\ e.isKey \in BOOLEAN /\ e = [sub |-> e.sub, key |-> e.key, isKey |-> e.isKey]
         /\ e.sub.dur \in Nat /\ e.key.dur \in Nat
         /\ Chosen(e) = (IF e.isKey THEN e.key ELSE e.sub)
         /\ Chosen(e) \in Frames /\ Chosen(e).dur = e.sub.dur
<1>1. e \in [sub : Frames \cup NoFrames, key : Frames \cup NoFrames, isKey : BOOLEAN]
      /\ Chosen(e) \in Frames /\ Chosen(e).dur = e.sub.dur
  BY Zenon DEF Entries
<1>2. \A f \in Frames \cup NoFrames : f.dur \in Nat
  BY DEF Frames, NoFrames
<1> QED BY <1>1, <1>2 DEF Chosen

\* An entry made of a frame, or of two.
LEMMA EntryMade ==
  ASSUME NEW sub \in Frames \cup NoFrames, NEW key \in Frames \cup NoFrames,
         NEW isKey \in BOOLEAN, NEW e, e = [sub |-> sub, key |-> key, isKey |-> isKey],
         isKey => key \in Frames /\ key.dur = sub.dur,
         ~isKey => sub \in Frames
  PROVE  /\ e \in Entries /\ e.sub = sub /\ e.key = key /\ e.isKey = isKey
         /\ Chosen(e) = (IF isKey THEN key ELSE sub)
<1>1. e.sub = sub /\ e.key = key /\ e.isKey = isKey
  BY Zenon
<1>2. e \in [sub : Frames \cup NoFrames, key : Frames \cup NoFrames, isKey : BOOLEAN]
  OBVIOUS
<1>3. Chosen(e) = (IF isKey THEN key ELSE sub)
  BY <1>1, Zenon DEF Chosen
<1>4. Chosen(e) \in Frames /\ Chosen(e).dur = e.sub.dur
  BY <1>1, <1>3
<1> QED BY <1>1, <1>2, <1>3, <1>4, Zenon DEF Entries

\* An entry that lasts longer.
LEMMA Extended ==
  ASSUME NEW e \in Entries, NEW d \in Nat, NEW g, g = Extend(e, d)
  PROVE  /\ g \in Entries /\ g.isKey = e.isKey
         /\ Chosen(g).dur = Chosen(e).dur + d /\ Chosen(g).dispose = Chosen(e).dispose
         /\ Alike(Chosen(e), Chosen(g))
         /\ BothFrames(e) => /\ BothFrames(g)
                             /\ Alike(e.sub, g.sub) /\ g.sub.dispose = e.sub.dispose
                             /\ Alike(e.key, g.key) /\ g.key.dispose = e.key.dispose
<1> DEFINE total == e.sub.dur + d
           sub == Lasting(e.sub, total)
           key == Lasting(e.key, total)
<1>1. /\ e.sub \in Frames \cup NoFrames /\ e.key \in Frames \cup NoFrames
      /\ e.isKey \in BOOLEAN /\ e = [sub |-> e.sub, key |-> e.key, isKey |-> e.isKey]
      /\ e.sub.dur \in Nat /\ Chosen(e) = (IF e.isKey THEN e.key ELSE e.sub)
      /\ Chosen(e) \in Frames /\ Chosen(e).dur = e.sub.dur
  BY EntryParts
<1>2. total \in Nat
  BY <1>1
<1>3. g = [e EXCEPT !.sub.dur = total, !.key.dur = total]
  BY Zenon DEF Extend
<1> HIDE DEF total
<1>4. g = [sub |-> sub, key |-> key, isKey |-> e.isKey]
  BY <1>1, <1>3 DEF Lasting
<1>5. /\ e.sub \in Frames => /\ sub \in Frames /\ sub.dur = total
                             /\ sub.dispose = e.sub.dispose /\ Alike(e.sub, sub)
      /\ e.key \in Frames => /\ key \in Frames /\ key.dur = total
                             /\ key.dispose = e.key.dispose /\ Alike(e.key, key)
  BY <1>2, Timed, Zenon
<1>6. /\ e.sub \in NoFrames => sub \in NoFrames /\ sub.dur = total
      /\ e.key \in NoFrames => key \in NoFrames /\ key.dur = total
  BY <1>2, TimedNone, Zenon
<1> HIDE DEF sub, key
<1>7. sub \in Frames \cup NoFrames /\ key \in Frames \cup NoFrames
      /\ sub.dur = total /\ key.dur = total
  BY <1>1, <1>5, <1>6, Zenon
<1>8. (e.isKey => key \in Frames) /\ (~e.isKey => sub \in Frames)
  BY <1>1, <1>5, Zenon
<1>9. /\ g \in Entries /\ g.sub = sub /\ g.key = key /\ g.isKey = e.isKey
      /\ Chosen(g) = (IF e.isKey THEN key ELSE sub)
  BY <1>1, <1>4, <1>7, <1>8, EntryMade
<1>10. /\ Chosen(g).dur = total /\ Chosen(g).dispose = Chosen(e).dispose
       /\ Alike(Chosen(e), Chosen(g))
  BY <1>1, <1>5, <1>7, <1>9, Zenon
<1>11. total = Chosen(e).dur + d
  BY <1>1, Zenon DEF total
<1>12. BothFrames(e) => /\ BothFrames(g)
                        /\ Alike(e.sub, g.sub) /\ g.sub.dispose = e.sub.dispose
                        /\ Alike(e.key, g.key) /\ g.key.dispose = e.key.dispose
  BY <1>5, <1>9, Zenon DEF BothFrames
<1> QED BY <1>9, <1>10, <1>11, <1>12, Zenon

\* An entry that is, or is not, disposed of.
LEMMA DisposalSet ==
  ASSUME NEW e \in Entries, NEW d \in BOOLEAN, undecided \in BOOLEAN,
         undecided => BothFrames(e), NEW g, g = SetPreviousDispose(e, d)
  PROVE  /\ g \in Entries /\ g.isKey = e.isKey
         /\ Chosen(g).dur = Chosen(e).dur /\ Chosen(g).dispose = d
         /\ Alike(Chosen(e), Chosen(g))
         /\ BothFrames(e) => BothFrames(g)
         /\ undecided /\ e.sub.dispose = d /\ e.key.dispose = d => g = e
<1> DEFINE sub == Disposing(e.sub, d)
           key == Disposing(e.key, d)
<1>1. /\ e.sub \in Frames \cup NoFrames /\ e.key \in Frames \cup NoFrames
      /\ e.isKey \in BOOLEAN /\ e = [sub |-> e.sub, key |-> e.key, isKey |-> e.isKey]
      /\ Chosen(e) = (IF e.isKey THEN e.key ELSE e.sub)
      /\ Chosen(e) \in Frames /\ Chosen(e).dur = e.sub.dur
  BY EntryParts
<1>2. /\ e.sub \in Frames => /\ sub \in Frames /\ sub.dur = e.sub.dur /\ sub.dispose = d
                             /\ Alike(e.sub, sub) /\ (e.sub.dispose = d => sub = e.sub)
      /\ e.key \in Frames => /\ key \in Frames /\ key.dur = e.key.dur /\ key.dispose = d
                             /\ Alike(e.key, key) /\ (e.key.dispose = d => key = e.key)
  BY Disposed
<1>3. CASE undecided
  <2>1. g = [e EXCEPT !.sub.dispose = d, !.key.dispose = d]
    BY <1>3, Zenon DEF SetPreviousDispose
  <2>2. g = [sub |-> sub, key |-> key, isKey |-> e.isKey]
    BY <1>1, <2>1 DEF Disposing
  <2>3. e.sub \in Frames /\ e.key \in Frames /\ e.sub.dur = e.key.dur
    BY <1>3, Zenon DEF BothFrames
  <2> HIDE DEF sub, key
  <2>4. /\ g \in Entries /\ g.sub = sub /\ g.key = key /\ g.isKey = e.isKey
        /\ Chosen(g) = (IF e.isKey THEN key ELSE sub)
    BY <1>1, <1>2, <1>3, <2>2, <2>3, EntryMade
  <2>5. e.sub.dispose = d /\ e.key.dispose = d => g = e
    BY <1>1, <1>2, <2>2, <2>3, Zenon
  <2> QED BY <1>1, <1>2, <2>3, <2>4, <2>5, Zenon DEF BothFrames
<1>4. CASE ~undecided /\ e.isKey
  <2>1. g = [e EXCEPT !.key.dispose = d]
    BY <1>4, Zenon DEF SetPreviousDispose
  <2>2. g = [sub |-> e.sub, key |-> key, isKey |-> e.isKey]
    BY <1>1, <1>4, <2>1 DEF Disposing
  <2>3. e.key \in Frames /\ key \in Frames /\ key.dur = e.sub.dur
    BY <1>1, <1>2, <1>4, Zenon
  <2> HIDE DEF sub, key
  <2>4. /\ g \in Entries /\ g.sub = e.sub /\ g.key = key /\ g.isKey = e.isKey
        /\ Chosen(g) = (IF e.isKey THEN key ELSE e.sub)
    <3>1. /\ e.sub \in Frames \cup NoFrames /\ key \in Frames \cup NoFrames
          /\ e.isKey => key \in Frames /\ key.dur = e.sub.dur
          /\ ~e.isKey => e.sub \in Frames
      BY <1>1, <1>4, <2>3, Zenon
    <3> QED BY <1>1, <2>2, <3>1, EntryMade
  <2> QED BY <1>1, <1>2, <1>4, <2>3, <2>4, Zenon DEF BothFrames
<1>5. CASE ~undecided /\ ~e.isKey
  <2>1. g = [e EXCEPT !.sub.dispose = d]
    BY <1>5, Zenon DEF SetPreviousDispose
  <2>2. g = [sub |-> sub, key |-> e.key, isKey |-> e.isKey]
    BY <1>1, <1>5, <2>1 DEF Disposing
  <2>3. e.sub \in Frames
    BY <1>1, <1>5, Zenon
  <2> HIDE DEF sub, key
  <2>4. /\ g \in Entries /\ g.sub = sub /\ g.key = e.key /\ g.isKey = e.isKey
        /\ Chosen(g) = (IF e.isKey THEN e.key ELSE sub)
    BY <1>1, <1>2, <1>5, <2>2, <2>3, EntryMade
  <2> QED BY <1>1, <1>2, <1>5, <2>3, <2>4, Zenon DEF BothFrames
<1> QED BY <1>3, <1>4, <1>5, Zenon

\* The transparent frame is a frame that changes nothing.
LEMMA FillerRight ==
  ASSUME NEW d \in Nat, NEW e, e = Filler(d)
  PROVE  /\ e \in Entries /\ Chosen(e) = e.sub /\ e.isKey = FALSE
         /\ e.sub.dur = d /\ e.sub.dispose = FALSE
         /\ e.sub.x = 0 /\ e.sub.w = 1
         /\ \A b \in Canvas : Draw(b, e.sub) = b
<1> DEFINE f == [x |-> 0, w |-> 1, pix |-> [i \in {0} |-> Transparent], blend |-> TRUE,
                 dispose |-> FALSE, dur |-> d]
<1>1. e = [sub |-> f, key |-> NoFrame, isKey |-> FALSE]
  BY Zenon DEF Filler
<1>2. /\ f.x = 0 /\ f.w = 1 /\ f.pix = [i \in {0} |-> Transparent] /\ f.blend = TRUE
      /\ f.dispose = FALSE /\ f.dur = d
  BY Zenon
<1>3. In(f) = {0} /\ {0} \in SUBSET Pixels /\ 0 + 1 <= Width
  <2>1. 0..0 + 1 - 1 = {0} /\ 0 + 1 <= Width
    BY WidthAssumption
  <2> QED BY <1>2, <2>1, WidthAssumption DEF In, Pixels
<1>4. Transparent \in Colors
  BY DEF Transparent, Colors
<1>5. f.pix \in [In(f) -> Colors] /\ f.pix \in Patches
  <2>1. [i \in {0} |-> Transparent] \in [{0} -> Colors]
    BY <1>4
  <2> QED BY <1>2, <1>3, <2>1, Zenon DEF Patches
<1>6. f \in [x : Nat, w : Nat, pix : Patches, blend : BOOLEAN, dispose : BOOLEAN, dur : Nat]
  BY <1>2, <1>5
<1> HIDE DEF f
<1>7. f \in Frames
  BY <1>2, <1>3, <1>5, <1>6 DEF Frames
<1>8. e \in Entries /\ e.sub = f /\ e.isKey = FALSE /\ Chosen(e) = f
  <2> DEFINE no == FALSE
  <2>1. no \in BOOLEAN /\ ~no /\ e = [sub |-> f, key |-> NoFrame, isKey |-> no]
    BY <1>1
  <2> HIDE DEF no
  <2>2. e \in Entries /\ e.sub = f /\ e.isKey = no /\ Chosen(e) = (IF no THEN NoFrame ELSE f)
    BY <1>7, <2>1, NoFrameType, EntryMade
  <2> QED BY <2>1, <2>2, Zenon DEF no
<1>9. ASSUME NEW b \in Canvas PROVE Draw(b, f) = b
  <2>1. ASSUME NEW i \in Pixels
        PROVE  (IF i \notin In(f) THEN b[i]
                ELSE IF f.blend THEN Over(f.pix[i], b[i]) ELSE f.pix[i]) = b[i]
    <3>1. b[i] \in Colors
      BY DEF Canvas
    <3>2. Over(Transparent, b[i]) = b[i]
      <4>1. ~Opaque(Transparent)
        BY DEF Opaque, Transparent
      <4>2. <<>> \o b[i] = b[i]
        BY <3>1 DEF Colors
      <4> QED BY <4>1, <4>2 DEF Over, Transparent
    <3>3. i \in In(f) => f.pix[i] = Transparent
      BY <1>2, <1>3
    <3> QED BY <1>2, <3>2, <3>3, Zenon
  <2>2. Draw(b, f) = [i \in Pixels |-> b[i]]
    BY <2>1, Zenon DEF Draw
  <2> QED BY <2>2 DEF Canvas
<1> QED BY <1>2, <1>8, <1>9

-----------------------------------------------------------------------------
(* encoded_frames_ never overflows, and its entries are what they should be. *)

BaseInv == TypeInv /\ OptionsInv /\ EntriesInv /\ RoomInv

\* What the type invariant says of the entries that wait.
LEMMA CachedTypes ==
  ASSUME TypeInv
  PROVE  /\ Count \in Nat /\ cached \in Seq(Entries)
         /\ \A i \in 1..Count : cached[i] \in Entries
         /\ cached = [i \in 1..Count |-> cached[i]]
BY DEF TypeInv, Count

\* The last entry is made longer, or is followed by the transparent frame.
LEMMA Increased ==
  ASSUME TypeInv, OptionsInv, Count > 0, NEW d \in Nat, IncreasePreviousDuration(d)
  PROVE  /\ cached' \in Seq(Entries) /\ undecided' \in BOOLEAN /\ prevRect' \in Rects
         /\ \/ /\ Overflows(d) /\ Len(cached') = Count + 1
               /\ \A i \in 1..Count : cached'[i] = cached[i]
               /\ cached'[Count + 1] = Filler(d)
               /\ sinceKey' = Saturated(sinceKey + 1)
               /\ undecided' = FALSE /\ prevRect' = [x |-> 0, w |-> 1]
            \/ /\ ~Overflows(d) /\ Len(cached') = Count
               /\ \A i \in 1..Count - 1 : cached'[i] = cached[i]
               /\ cached'[Count] = Extend(cached[Count], d)
               /\ UNCHANGED <<sinceKey, undecided, prevRect>>
<1>1. /\ Count \in Nat /\ cached \in Seq(Entries)
      /\ \A i \in 1..Count : cached[i] \in Entries
      /\ prevRect \in Rects /\ undecided \in BOOLEAN /\ Len(cached) = Count
  BY CachedTypes DEF TypeInv, Count
<1>2. CASE Overflows(d)
  <2>1. /\ cached' = Append(cached, Filler(d)) /\ sinceKey' = Saturated(sinceKey + 1)
        /\ undecided' = FALSE /\ prevRect' = [x |-> 0, w |-> 1]
    BY <1>2, Zenon DEF IncreasePreviousDuration
  <2>2. Filler(d) \in Entries
    BY FillerRight
  <2> DEFINE filler == Filler(d)
  <2> HIDE DEF filler
  <2>3. /\ cached' \in Seq(Entries) /\ Len(cached') = Count + 1
        /\ \A i \in 1..Count : cached'[i] = cached[i]
        /\ cached'[Count + 1] = filler
    <3>1. cached' = Append(cached, filler) /\ filler \in Entries
      BY <2>1, <2>2 DEF filler
    <3> QED BY <1>1, <3>1
  <2>4. prevRect' \in Rects
    BY <2>1, WidthAssumption DEF Rects
  <2> QED BY <1>2, <2>1, <2>3, <2>4, Zenon DEF filler
<1>3. CASE ~Overflows(d)
  <2> DEFINE longer == Extend(cached[Count], d)
  <2>1. /\ cached' = [cached EXCEPT ![Count] = longer]
        /\ UNCHANGED <<sinceKey, undecided, prevRect>>
    BY <1>3, Zenon DEF IncreasePreviousDuration
  <2>2. longer \in Entries /\ Count \in 1..Count
    <3>1. Count \in 1..Count
      BY <1>1
    <3> QED BY <1>1, <3>1, Extended
  <2> HIDE DEF longer
  <2>3. /\ cached' \in Seq(Entries) /\ Len(cached') = Count
        /\ \A i \in 1..Count - 1 : cached'[i] = cached[i]
        /\ cached'[Count] = longer
    BY <1>1, <2>1, <2>2
  <2> QED BY <1>1, <1>3, <2>1, <2>3, Zenon DEF longer
<1> QED BY <1>2, <1>3

\* IncreasePreviousDuration() keeps the entries usable.
LEMMA IncreasedEntries ==
  ASSUME TypeInv, OptionsInv, EntriesInv, Count > 0, NEW d \in Nat,
         IncreasePreviousDuration(d), keyframe' = keyframe
  PROVE  /\ keyframe # -1 => BothFrames(GetFrame(keyframe))' /\ GetFrame(keyframe)'.isKey
         /\ undecided' => BothFrames(cached'[Len(cached')])
<1>1. /\ Count \in Nat /\ keyframe \in -1..Count - 1 /\ undecided \in BOOLEAN
      /\ \A i \in 1..Count : cached[i] \in Entries
  BY CachedTypes DEF TypeInv
<1>2. /\ keyframe # -1 => BothFrames(cached[keyframe + 1]) /\ cached[keyframe + 1].isKey
      /\ undecided => BothFrames(cached[Count])
  BY DEF EntriesInv, GetFrame
<1>3. CASE /\ Overflows(d) /\ Len(cached') = Count + 1
           /\ \A i \in 1..Count : cached'[i] = cached[i]
           /\ undecided' = FALSE
  <2>1. keyframe # -1 => keyframe + 1 \in 1..Count
    BY <1>1
  <2>2. keyframe # -1 => cached'[keyframe + 1] = cached[keyframe + 1]
    BY <1>3, <2>1
  <2> QED BY <1>2, <1>3, <2>2 DEF GetFrame
<1>4. CASE /\ ~Overflows(d) /\ Len(cached') = Count
           /\ \A i \in 1..Count - 1 : cached'[i] = cached[i]
           /\ cached'[Count] = Extend(cached[Count], d)
           /\ undecided' = undecided
  <2>1. Count \in 1..Count
    BY <1>1
  <2>2. BothFrames(cached[Count]) => BothFrames(cached'[Count])
    BY <1>1, <1>4, <2>1, Extended
  <2>3. cached'[Count].isKey = cached[Count].isKey
    <3> DEFINE e == cached[Count]
               g == cached'[Count]
    <3>1. e \in Entries /\ g = Extend(e, d)
      BY <1>1, <1>4, <2>1
    <3> HIDE DEF e, g
    <3>2. g.isKey = e.isKey
      BY <3>1, Extended
    <3> QED BY <3>2 DEF e, g
  <2>4. CASE keyframe # -1 /\ keyframe + 1 # Count
    <3>1. keyframe + 1 \in 1..Count - 1
      BY <1>1, <2>4
    <3>2. cached'[keyframe + 1] = cached[keyframe + 1]
      BY <1>4, <3>1
    <3> QED BY <1>2, <1>4, <2>2, <3>2 DEF GetFrame
  <2>5. CASE keyframe = -1 \/ keyframe + 1 = Count
    BY <1>2, <1>4, <2>2, <2>3, <2>5 DEF GetFrame
  <2> QED BY <2>4, <2>5
<1> QED BY <1>3, <1>4, Increased

\* WebPAnimEncoderAdd() up to the call of CacheFrame().
LEMMA AddBase ==
  ASSUME BaseInv, NEW p \in Pictures, NEW d \in 0..MaxDuration - 1, Add(p, d)
  PROVE  BaseInv'
<1> USE DEF BaseInv
<1>1. /\ pc = "idle" /\ ~gotNull /\ input' = p
      /\ UNCHANGED <<opts, start, bestDelta, keyframe, isFirst, gotNull, inCount, muxed,
                     due, latest, prevCanvas, failed>>
  BY DEF Add
<1>2. OptionsInv'
  BY <1>1 DEF OptionsInv
<1>3. CASE isFirst
  <2>1. pc' = "cache" /\ UNCHANGED <<cached, sinceKey, flushCount, undecided, prevRect, extra>>
    BY <1>3, Zenon DEF Add
  <2>2. TypeInv'
    BY <1>1, <2>1 DEF TypeInv, Count
  <2>3. EntriesInv'
    BY <1>1, <1>3, <2>1 DEF EntriesInv, Count, GetFrame
  <2>4. RoomInv'
    BY <1>1, <1>3, <2>1 DEF RoomInv, TypeInv
  <2> QED BY <1>2, <2>2, <2>3, <2>4
<1>4. CASE ~isFirst
  <2>1. /\ IncreasePreviousDuration(d) /\ extra' = d
        /\ flushCount' = (IF Overflows(d) THEN Count ELSE flushCount)
        /\ pc' = AfterDuration(Len(cached'))
    BY <1>4, Zenon DEF Add
  <2>2. d \in Nat
    BY LimitsAssumption
  <2>3. /\ Count \in Nat /\ start \in Nat /\ flushCount \in Nat /\ flushCount < Count
        /\ keyframe \in -1..Count - 1 /\ sinceKey \in Nat /\ sinceKey <= opts.kmax + 1
    BY <1>1, <1>4, CachedTypes DEF TypeInv, EntriesInv, RoomInv
  <2>4. /\ cached' \in Seq(Entries) /\ undecided' \in BOOLEAN /\ prevRect' \in Rects
        /\ \/ /\ Overflows(d) /\ Len(cached') = Count + 1
              /\ sinceKey' = Saturated(sinceKey + 1)
           \/ ~Overflows(d) /\ Len(cached') = Count /\ sinceKey' = sinceKey
    <3>1. Count > 0
      BY <2>3
    <3> QED BY <2>1, <2>2, <3>1, Increased, Zenon
  <2>5. /\ Count' = Len(cached') /\ pc' = (IF Count' = Size THEN "room" ELSE "cache")
    BY <2>1 DEF Count, AfterDuration
  <2>6. /\ sinceKey' \in Nat /\ sinceKey' <= opts.kmax + 1 /\ sinceKey' >= sinceKey
        /\ Overflows(d) => sinceKey' = sinceKey + 1
                           \/ sinceKey' = opts.kmax + 1
    <3>1. /\ Saturated(sinceKey + 1) \in Nat /\ Saturated(sinceKey + 1) <= opts.kmax + 1
          /\ Saturated(sinceKey + 1) = sinceKey + 1 \/ Saturated(sinceKey + 1) = opts.kmax + 1
      <4>1. sinceKey + 1 \in Nat
        BY <2>3
      <4> QED BY <4>1, SaturatedRight, Zenon
    <3>2. opts.kmax \in Int
      BY DEF OptionsInv
    <3> HIDE DEF BaseInv
    <3> QED BY <2>3, <2>4, <3>1, <3>2
  <2>7. TypeInv'
    BY <1>1, <2>1, <2>2, <2>3, <2>4, <2>5, <2>6 DEF TypeInv
  <2>8. EntriesInv'
    <3>1. /\ keyframe # -1 => BothFrames(GetFrame(keyframe))' /\ GetFrame(keyframe)'.isKey
          /\ undecided' => BothFrames(cached'[Len(cached')])
      BY <1>1, <2>1, <2>2, <2>3, IncreasedEntries
    <3>2. flushCount' < Count'
      BY <2>1, <2>3, <2>4, <2>5
    <3>3. flushCount' \in Nat /\ Count' \in Nat
      BY <2>1, <2>3, <2>4, <2>5
    <3> QED BY <1>1, <1>4, <2>5, <3>1, <3>2, <3>3 DEF EntriesInv, GetFrame
  <2>9. RoomInv'
    <3>1. /\ Size \in Nat /\ Size >= 2 /\ Size >= opts.kmax - opts.kmin + 1
          /\ opts.kmax \in Int /\ opts.kmin \in Int /\ Size' = Size
      BY <1>1, SizeRight DEF Size
    <3>2. failed' = failed /\ start' = start /\ bestDelta' = bestDelta /\ isFirst' = isFirst
          /\ gotNull' = gotNull /\ opts' = opts
      BY <1>1
    <3>3. bestDelta # DeltaInfinity => opts.kmin < opts.kmax /\ sinceKey >= opts.kmin + 1
      BY DEF RoomInv
    <3>4. ~failed => /\ flushCount = 0 /\ (Count = 1 => start = 0)
                     /\ start + Count = 1 \/ Within(start + Count, opts.kmax - 1)
      BY <1>1, <1>4 DEF RoomInv
    <3>5. CASE failed
      BY <1>4, <2>3, <2>6, <3>1, <3>2, <3>3, <3>5 DEF RoomInv
    <3>6. CASE ~failed /\ ~Overflows(d)
      <4>1. /\ flushCount' = 0 /\ Count' = Count /\ sinceKey' = sinceKey
            /\ start + Count < Size
        <5>1. flushCount' = 0 /\ Count' = Count /\ sinceKey' = sinceKey
          BY <2>1, <2>3, <2>4, <2>5, <3>4, <3>6
        <5>2. start + Count < Size
          BY <1>1, <1>4, <2>1, <2>3, <2>4, <3>1, <3>4, <3>6 DEF Within
        <5> QED BY <5>1, <5>2
      <4>2. pc' = "cache"
        BY <2>3, <2>5, <3>1, <4>1
      <4>3. start' + Count' = 1 \/ Within(start + Count, opts.kmax - 1)'
        BY <3>2, <3>4, <3>6, <4>1 DEF Within
      <4> QED BY <1>4, <2>3, <2>6, <3>1, <3>2, <3>3, <3>4, <3>6, <4>1, <4>2, <4>3 DEF RoomInv
    <3>7. CASE ~failed /\ Overflows(d)
      <4>1. flushCount' = Count' - 1 /\ flushCount' >= 1 /\ Count' = Count + 1
        BY <2>1, <2>3, <2>4, <2>5, <3>7
      <4>2. start' + Count' = 2 \/ Within(start + Count, opts.kmax)'
        BY <2>3, <2>6, <3>1, <3>2, <3>4, <3>7, <4>1 DEF Within
      <4>3. bestDelta # DeltaInfinity => sinceKey' >= opts.kmin + 2
        BY <2>3, <2>6, <3>1, <3>3, <3>7
      <4>4. pc' = "cache" => start' + Count' < Size'
        BY <2>3, <2>5, <3>1, <3>2, <3>4, <3>7, <4>1 DEF Within
      <4>5. pc' \in {"room", "cache"}
        BY <2>5
      <4> QED BY <1>4, <2>3, <2>6, <3>1, <3>2, <3>3, <3>7, <4>1, <4>2, <4>3, <4>4, <4>5 DEF RoomInv
    <3> QED BY <3>5, <3>6, <3>7
  <2> QED BY <1>2, <2>7, <2>8, <2>9
<1> QED BY <1>3, <1>4

\* A picture shown for a while.
LEMMA TicksType ==
  ASSUME NEW n \in Nat, NEW c \in Canvas
  PROVE  Ticks(n, c) \in Seq(Canvas) /\ Len(Ticks(n, c)) = n
<1>1. Ticks(n, c) \in [1..n -> Canvas]
  BY DEF Ticks
<1>2. Ticks(n, c) \in Seq(Canvas)
  BY <1>1
<1>3. DOMAIN Ticks(n, c) = 1..n
  BY DEF Ticks
<1> QED BY <1>2, <1>3

\* The ticks of the picture whose duration is now known.
LEMMA ConfirmType ==
  ASSUME TypeInv, Confirm
  PROVE  due' \in Seq(Canvas) /\ extra' = 0
<1>1. Ticks(extra, latest) \in Seq(Canvas)
  BY TicksType DEF TypeInv
<1> QED BY <1>1 DEF TypeInv, Confirm

\* An entry that is only a sub-frame any more.
LEMMA Demoted ==
  ASSUME NEW e \in Entries, BothFrames(e), NEW g, g = [e EXCEPT !.isKey = FALSE]
  PROVE  g \in Entries /\ Chosen(g) = e.sub /\ BothFrames(g) /\ g.sub = e.sub /\ g.key = e.key
<1> DEFINE no == FALSE
           sub == e.sub
           key == e.key
<1>1. /\ e = [sub |-> sub, key |-> key, isKey |-> e.isKey]
      /\ sub \in Frames /\ key \in Frames /\ sub.dur = key.dur
      /\ sub \in Frames \cup NoFrames /\ key \in Frames \cup NoFrames
  BY EntryParts, Zenon DEF BothFrames
<1>2. g = [sub |-> sub, key |-> key, isKey |-> no] /\ no \in BOOLEAN /\ ~no
  BY <1>1
<1> HIDE DEF no, sub, key
<1>3. /\ g \in Entries /\ g.sub = sub /\ g.key = key
      /\ Chosen(g) = (IF no THEN key ELSE sub)
  <2>1. ASSUME NEW h, h = [sub |-> sub, key |-> key, isKey |-> no]
        PROVE  /\ h \in Entries /\ h.sub = sub /\ h.key = key
               /\ Chosen(h) = (IF no THEN key ELSE sub)
    BY <1>1, <1>2, <2>1, EntryMade
  <2> QED BY <1>2, <2>1, Zenon
<1>4. BothFrames(g)
  BY <1>1, <1>3, Zenon DEF BothFrames
<1> QED BY <1>2, <1>3, <1>4, Zenon DEF sub, key

\* The entries that are there, the last one with its disposal, and a new one.
LEMMA CachedWithRight ==
  ASSUME TypeInv, EntriesInv, Count > 0,
         NEW c, c.frame \in Frames, c.disposePrev \in BOOLEAN
  PROVE  /\ CachedWith(c) \in Seq(Entries) /\ Len(CachedWith(c)) = Count + 1
         /\ \A i \in 1..Count - 1 : CachedWith(c)[i] = cached[i]
         /\ CachedWith(c)[Count] = SetPreviousDispose(cached[Count], c.disposePrev)
         /\ CachedWith(c)[Count + 1] = [sub |-> c.frame, key |-> NoFrame, isKey |-> FALSE]
<1> DEFINE new == [sub |-> c.frame, key |-> NoFrame, isKey |-> FALSE]
           before == SetPreviousDispose(cached[Count], c.disposePrev)
<1>1. /\ Count \in Nat /\ cached \in Seq(Entries) /\ Len(cached) = Count
      /\ Count \in 1..Count /\ cached[Count] \in Entries
  BY CachedTypes DEF Count
<1>2. before \in Entries
  <2>1. undecided => BothFrames(cached[Count])
    BY DEF EntriesInv
  <2> DEFINE e == cached[Count]
             d == c.disposePrev
  <2>2. /\ e \in Entries /\ d \in BOOLEAN /\ undecided \in BOOLEAN
        /\ undecided => BothFrames(e)
    BY <1>1, <2>1 DEF TypeInv
  <2> HIDE DEF e, d
  <2>3. SetPreviousDispose(e, d) \in Entries
    BY <2>2, DisposalSet
  <2> QED BY <2>3 DEF e, d
<1>3. new \in Entries
  <2> DEFINE no == FALSE
  <2>1. no \in BOOLEAN /\ ~no /\ new = [sub |-> c.frame, key |-> NoFrame, isKey |-> no]
    OBVIOUS
  <2> HIDE DEF no, new
  <2> QED BY <2>1, NoFrameType, EntryMade
<1>4. CachedWith(c) = Append([cached EXCEPT ![Count] = before], new)
  BY Zenon DEF CachedWith
<1> HIDE DEF new, before
<1>5. /\ [cached EXCEPT ![Count] = before] \in Seq(Entries)
      /\ Len([cached EXCEPT ![Count] = before]) = Count
      /\ [cached EXCEPT ![Count] = before][Count] = before
      /\ \A i \in 1..Count - 1 : [cached EXCEPT ![Count] = before][i] = cached[i]
  BY <1>1, <1>2
<1>6. /\ CachedWith(c) \in Seq(Entries) /\ Len(CachedWith(c)) = Count + 1
      /\ \A i \in 1..Count - 1 : CachedWith(c)[i] = cached[i]
      /\ CachedWith(c)[Count] = before /\ CachedWith(c)[Count + 1] = new
  BY <1>1, <1>3, <1>4, <1>5
<1> QED BY <1>6 DEF new, before

\* The frame that is to be a key frame is still there, with both variants.
LEMMA KeyframeKept ==
  ASSUME TypeInv, EntriesInv, keyframe # -1,
         NEW c, c.frame \in Frames, c.disposePrev \in BOOLEAN
  PROVE  /\ keyframe + 1 \in 1..Count /\ CachedWith(c)[keyframe + 1] \in Entries
         /\ BothFrames(CachedWith(c)[keyframe + 1]) /\ CachedWith(c)[keyframe + 1].isKey
<1> DEFINE frames == CachedWith(c)
<1>1. /\ Count \in Nat /\ keyframe \in -1..Count - 1
      /\ \A i \in 1..Count : cached[i] \in Entries
  BY CachedTypes DEF TypeInv
<1>2. keyframe + 1 \in 1..Count /\ Count > 0
  BY <1>1
<1>3. /\ frames \in Seq(Entries) /\ Len(frames) = Count + 1
      /\ \A i \in 1..Count - 1 : frames[i] = cached[i]
      /\ frames[Count] = SetPreviousDispose(cached[Count], c.disposePrev)
  BY <1>2, CachedWithRight
<1> HIDE DEF frames
<1>4. BothFrames(cached[keyframe + 1]) /\ cached[keyframe + 1].isKey
  BY DEF EntriesInv, GetFrame
<1>5. CASE keyframe + 1 # Count
  <2>1. keyframe + 1 \in 1..Count - 1
    BY <1>1, <1>5
  <2>2. frames[keyframe + 1] = cached[keyframe + 1]
    BY <1>3, <2>1
  <2> QED BY <1>1, <1>2, <1>4, <2>2 DEF frames
<1>6. CASE keyframe + 1 = Count
  <2> DEFINE e == cached[Count]
             d == c.disposePrev
             g == frames[Count]
  <2>1. undecided => BothFrames(e)
    BY <1>2 DEF EntriesInv
  <2>2. /\ e \in Entries /\ BothFrames(e) /\ e.isKey /\ d \in BOOLEAN
        /\ undecided \in BOOLEAN /\ g = SetPreviousDispose(e, d)
    BY <1>1, <1>2, <1>3, <1>4, <1>6 DEF TypeInv
  <2> HIDE DEF e, d, g
  <2>3. g \in Entries /\ BothFrames(g) /\ g.isKey
    BY <2>1, <2>2, DisposalSet
  <2> QED BY <1>2, <1>6, <2>3 DEF g, frames
<1> QED BY <1>5, <1>6

\* The last of them may be a key frame, instead of the one that was to be.
CachedBoth(c, f, chosen) ==
  [Demote(CachedWith(c), chosen) EXCEPT
     ![Count + 1] = [sub |-> c.frame, key |-> f, isKey |-> chosen]]

\* The entries after both variants of a picture were encoded.
LEMMA BothCachedRight ==
  ASSUME TypeInv, EntriesInv, Count > 0, NEW f \in Frames, f.dur = 0,
         NEW c, c.frame \in Frames, c.disposePrev \in BOOLEAN, c.frame.dur = 0,
         NEW chosen \in BOOLEAN
  PROVE  LET now == CachedBoth(c, f, chosen) IN
         /\ now \in Seq(Entries) /\ Len(now) = Count + 1
         /\ now[Count + 1] = [sub |-> c.frame, key |-> f, isKey |-> chosen]
         /\ \A i \in 1..Count :
              now[i] = IF chosen /\ i = keyframe + 1
                             THEN [CachedWith(c)[i] EXCEPT !.isKey = FALSE]
                             ELSE CachedWith(c)[i]
<1> DEFINE now == CachedBoth(c, f, chosen)
           frames == CachedWith(c)
           demoted == Demote(frames, chosen)
           last == [sub |-> c.frame, key |-> f, isKey |-> chosen]
<1>1. /\ frames \in Seq(Entries) /\ Len(frames) = Count + 1
      /\ \A i \in 1..Count - 1 : frames[i] = cached[i]
      /\ frames[Count] = SetPreviousDispose(cached[Count], c.disposePrev)
      /\ frames[Count + 1] = [sub |-> c.frame, key |-> NoFrame, isKey |-> FALSE]
  BY CachedWithRight
<1>2. /\ Count \in Nat /\ keyframe \in -1..Count - 1
      /\ \A i \in 1..Count : cached[i] \in Entries
  BY CachedTypes DEF TypeInv
<1>3. ASSUME keyframe # -1
      PROVE  keyframe + 1 \in 1..Count /\ frames[keyframe + 1] \in Entries
             /\ BothFrames(frames[keyframe + 1])
  BY <1>3, KeyframeKept
<1> HIDE DEF frames
<1>4. /\ demoted \in Seq(Entries) /\ Len(demoted) = Count + 1
      /\ demoted[Count + 1] = frames[Count + 1]
      /\ \A i \in 1..Count :
           demoted[i] = IF chosen /\ i = keyframe + 1
                          THEN [frames[i] EXCEPT !.isKey = FALSE] ELSE frames[i]
  <2>1. CASE chosen /\ keyframe # -1
    <3> DEFINE k == keyframe + 1
               e == [frames[k] EXCEPT !.isKey = FALSE]
    <3>1. demoted = [frames EXCEPT ![k] = e]
      BY <2>1 DEF Demote
    <3>2. e \in Entries /\ k \in 1..Count
      BY <1>3, <2>1, Demoted
    <3> HIDE DEF k, demoted
    <3>3. \A i \in 1..Count : i = k => [frames[i] EXCEPT !.isKey = FALSE] = e
      OBVIOUS
    <3> HIDE DEF e
    <3>4. /\ demoted \in Seq(Entries) /\ Len(demoted) = Count + 1
          /\ demoted[Count + 1] = frames[Count + 1] /\ demoted[k] = e
          /\ \A i \in 1..Count : i # k => demoted[i] = frames[i]
      BY <1>1, <1>2, <3>1, <3>2
    <3>5. \A i \in 1..Count : demoted[i] = IF i = k THEN [frames[i] EXCEPT !.isKey = FALSE]
                                                   ELSE frames[i]
      BY <3>2, <3>3, <3>4
    <3> QED BY <2>1, <3>4, <3>5 DEF k
  <2>2. CASE ~ (chosen /\ keyframe # -1)
    <3>1. demoted = frames
      BY <2>2 DEF Demote
    <3>2. \A i \in 1..Count : ~ (chosen /\ i = keyframe + 1)
      BY <1>2, <2>2
    <3> QED BY <1>1, <3>1, <3>2
  <2> QED BY <2>1, <2>2
<1> HIDE DEF demoted
<1>5. last \in Entries
  <2> HIDE DEF last
  <2>1. last = [sub |-> c.frame, key |-> f, isKey |-> chosen]
    BY DEF last
  <2> QED BY <2>1, EntryMade
<1>6. now = [demoted EXCEPT ![Count + 1] = last]
  BY Zenon DEF demoted, frames, last, CachedBoth
<1> HIDE DEF last, now
<1>7. /\ now \in Seq(Entries) /\ Len(now) = Count + 1 /\ now[Count + 1] = last
      /\ \A i \in 1..Count : now[i] = demoted[i]
  <2> DEFINE n == Count + 1
  <2>1. /\ demoted \in Seq(Entries) /\ Len(demoted) = n /\ n \in 1..Len(demoted)
        /\ \A i \in 1..Count : i \in 1..Len(demoted) /\ i # n
    BY <1>2, <1>4
  <2>2. now = [demoted EXCEPT ![n] = last]
    BY <1>6, Zenon DEF n
  <2> HIDE DEF n
  <2>3. /\ now \in Seq(Entries) /\ Len(now) = Len(demoted) /\ now[n] = last
        /\ \A i \in 1..Len(demoted) : i # n => now[i] = demoted[i]
    BY <1>5, <2>1, <2>2
  <2> QED BY <2>1, <2>3, Zenon DEF n
<1> QED BY <1>4, <1>7, Zenon DEF last, frames, now

\* The canvas and the rectangle the encoder starts with.
LEMMA BlankType == Blank \in Canvas /\ NoRect \in Rects
<1>1. Transparent \in Colors
  BY DEF Transparent, Colors
<1>2. NoRect \in Rects
  BY WidthAssumption DEF NoRect, Rects
<1> QED BY <1>1, <1>2 DEF Blank, Canvas

\* A picture that was added is a canvas.
LEMMA PictureType ==
  ASSUME NEW p \in Pictures, p.picture = "canvas"
  PROVE  p.canvas \in Canvas
BY CanvasesAssumption
DEF Pictures, Picture, NullPicture, WrongPicture, Canvas, Colors

\* The new encoder.
LEMMA InitBase == Init => BaseInv
<1> SUFFICES ASSUME Init PROVE BaseInv
  OBVIOUS
<1>1. PICK o \in Options : opts = Sanitize(o)
  BY DEF Init
<1>2. OptionsInv
  BY <1>1, SanitizedOptions, Zenon DEF OptionsInv
<1>3. cached = <<>> /\ Count = 0
  BY DEF Init, Count
<1>4. TypeInv
  <2>1. muxed \in [below : Canvas, shown : Canvas, sinceKey : Nat, any : BOOLEAN]
    BY BlankType DEF Init
  <2>2. cached \in Seq(Entries) /\ due \in Seq(Canvas)
    BY DEF Init
  <2>3. input \in Pictures
    BY Zenon DEF Init, Pictures
  <2>4. bestDelta \in Penalties \cup {DeltaInfinity}
    BY DEF Init
  <2>5. keyframe \in -1..Count - 1
    BY <1>3 DEF Init
  <2> QED BY <2>1, <2>2, <2>3, <2>4, <2>5, BlankType DEF Init, TypeInv
<1>5. EntriesInv
  BY <1>3 DEF Init, EntriesInv
<1>6. RoomInv
  BY <1>2 DEF Init, RoomInv, OptionsInv
<1> QED BY <1>2, <1>4, <1>5, <1>6 DEF BaseInv

\* The end of the animation is announced.
LEMMA NullBase == BaseInv /\ NullFrame => BaseInv'
<1> SUFFICES ASSUME BaseInv, NullFrame PROVE BaseInv'
  OBVIOUS
<1> USE DEF BaseInv
<1>1. /\ pc = "cache" /\ pc' = "idle" /\ gotNull' = TRUE
      /\ UNCHANGED <<opts, start, flushCount, bestDelta, keyframe, sinceKey, undecided,
                     isFirst, inCount, muxed, latest, prevCanvas, prevRect, cached,
                     input, failed>>
  BY DEF NullFrame, control
<1>2. due' \in Seq(Canvas) /\ extra' = 0
  BY ConfirmType DEF NullFrame
<1>3. TypeInv'
  BY <1>1, <1>2 DEF TypeInv, Count
<1>4. OptionsInv' /\ EntriesInv'
  BY <1>1 DEF OptionsInv, EntriesInv, Count, GetFrame
<1>5. RoomInv'
  BY <1>1 DEF RoomInv, Count, Size, Within
<1> QED BY <1>3, <1>4, <1>5

\* A call that fails leaves the entries alone.
LEMMA FailedBase ==
  ASSUME BaseInv, failed' = TRUE, pc' = "idle" \/ (pc' = "done" /\ pc = "assemble"),
         pc \in {"cache", "room", "flush", "assemble"}, isFirst => pc' = "idle",
         pc # "assemble" => pc' = "idle", ~isFirst /\ pc' = "idle" => pc # "assemble",
         input' = NullPicture, prevRect' \in Rects,
         UNCHANGED <<opts, start, flushCount, bestDelta, keyframe, sinceKey, undecided,
                     isFirst, gotNull, inCount, muxed, due, extra, latest, prevCanvas, cached>>
  PROVE  BaseInv'
<1> USE DEF BaseInv
<1>1. TypeInv'
  BY DEF TypeInv, Count, Pictures
<1>2. OptionsInv' /\ EntriesInv'
  BY DEF OptionsInv, EntriesInv, Count, GetFrame
<1>3. RoomInv'
  BY DEF RoomInv
<1> QED BY <1>1, <1>2, <1>3

\* A picture of another size.
LEMMA WrongBase == BaseInv /\ WrongFrame => BaseInv'
<1> SUFFICES ASSUME BaseInv, WrongFrame PROVE BaseInv'
  OBVIOUS
<1>1. /\ pc = "cache" /\ pc' = "idle" /\ failed' = TRUE /\ input' = NullPicture
      /\ UNCHANGED <<opts, start, flushCount, bestDelta, keyframe, sinceKey, undecided,
                     isFirst, gotNull, inCount, muxed, due, extra, latest, prevCanvas,
                     prevRect, cached>>
  BY DEF WrongFrame, control, flags, history
<1>2. prevRect' \in Rects
  BY <1>1 DEF BaseInv, TypeInv
<1> QED BY <1>1, <1>2, FailedBase

\* The mux refuses a frame.
LEMMA PushFailsBase == BaseInv /\ PushFails => BaseInv'
<1> SUFFICES ASSUME BaseInv, PushFails PROVE BaseInv'
  OBVIOUS
<1>1. /\ pc \in {"room", "flush", "assemble"} /\ failed' = TRUE /\ input' = NullPicture
      /\ pc' = (IF pc = "assemble" THEN "done" ELSE "idle") /\ flushCount > 0
      /\ UNCHANGED <<opts, start, flushCount, bestDelta, keyframe, sinceKey, undecided,
                     isFirst, gotNull, inCount, muxed, due, extra, latest, prevCanvas,
                     prevRect, cached>>
  BY DEF PushFails, Flushing, control, flags, history
<1>2. prevRect' \in Rects
  BY <1>1 DEF BaseInv, TypeInv
<1>3. ~isFirst
  BY <1>1 DEF BaseInv, EntriesInv
<1> QED BY <1>1, <1>2, <1>3, FailedBase

\* What holds when a picture that is not the first one is cached.
LEMMA CachingFacts ==
  ASSUME BaseInv, Caching
  PROVE  /\ input.canvas \in Canvas /\ prevCanvas \in Canvas
         /\ Count \in Nat /\ start \in Nat /\ flushCount \in Nat /\ sinceKey \in Nat
         /\ opts.kmin \in Int /\ opts.kmax \in Int /\ sinceKey <= opts.kmax + 1
         /\ keyframe \in -1..Count - 1 /\ isFirst \in BOOLEAN /\ undecided \in BOOLEAN
         /\ bestDelta # DeltaInfinity =>
              opts.kmin < opts.kmax /\ sinceKey >= opts.kmin + 1 /\ ~isFirst
         /\ \/ opts.kmax = 0 /\ opts.kmin = 0
            \/ opts.kmax >= 2 /\ opts.kmin < opts.kmax
         /\ ~isFirst =>
              /\ Count > 0 /\ flushCount < Count
              /\ ~failed =>
                   /\ start + Count < Size
                   /\ \/ /\ flushCount = 0 /\ (Count = 1 => start = 0)
                         /\ start + Count = 1 \/ Within(start + Count, opts.kmax - 1)
                      \/ /\ flushCount = Count - 1 /\ flushCount >= 1
                         /\ start + Count = 2 \/ Within(start + Count, opts.kmax)
                         /\ bestDelta # DeltaInfinity => sinceKey >= opts.kmin + 2
<1>1. pc = "cache" /\ input.picture = "canvas" /\ input \in Pictures
  BY DEF Caching, BaseInv, TypeInv
<1>2. /\ Count \in Nat /\ start \in Nat /\ flushCount \in Nat /\ sinceKey \in Nat
      /\ keyframe \in -1..Count - 1 /\ isFirst \in BOOLEAN /\ undecided \in BOOLEAN
      /\ prevCanvas \in Canvas
  BY CachedTypes DEF BaseInv, TypeInv
<1>3. ~isFirst => flushCount < Count
  BY <1>1 DEF BaseInv, EntriesInv
<1> QED BY <1>1, <1>2, <1>3, PictureType DEF BaseInv, OptionsInv, RoomInv

\* The picture that CacheFrame() is given becomes the latest one.
LEMMA Accepted ==
  ASSUME BaseInv, Caching, Accept
  PROVE  /\ pc' = "flush" /\ input' = NullPicture /\ extra' = 0
         /\ due' \in Seq(Canvas) /\ latest' = input.canvas
         /\ inCount' \in Nat /\ opts' = opts /\ start' = start /\ gotNull' = gotNull
         /\ muxed' = muxed /\ failed' = failed /\ input' \in Pictures
<1>1. inCount' = (IF 2 <= inCount + 1 THEN 2 ELSE inCount + 1) /\ inCount \in Nat
  <2> DEFINE n == inCount + 1
  <2>1. n \in Int /\ inCount \in Nat
    BY DEF BaseInv, TypeInv
  <2>2. inCount' = Min({2, n})
    BY DEF Accept
  <2> HIDE DEF n
  <2>3. Min({2, n}) = IF 2 <= n THEN 2 ELSE n
    BY <2>1, MinOfTwo
  <2> QED BY <2>1, <2>2, <2>3, Zenon DEF n
<1>2. due' \in Seq(Canvas) /\ extra' = 0
  BY ConfirmType DEF Accept, BaseInv
<1>3. input' \in Pictures /\ input' = NullPicture
  BY DEF Accept, Pictures
<1> QED BY <1>1, <1>2, <1>3 DEF Accept

\* What is left to show when a picture has been cached.
LEMMA CachedBase ==
  ASSUME BaseInv, Caching, Accept,
         ~isFirst', cached' \in Seq(Entries), prevRect' \in Rects, prevCanvas' \in Canvas,
         sinceKey' \in Nat, flushCount' \in Nat, undecided' \in BOOLEAN,
         bestDelta' \in Penalties \cup {DeltaInfinity}, isFirst' \in BOOLEAN,
         keyframe' \in -1..Len(cached') - 1, flushCount' < Len(cached'),
         keyframe' # -1 => /\ BothFrames(cached'[keyframe' + 1])
                           /\ cached'[keyframe' + 1].isKey,
         undecided' => BothFrames(cached'[Len(cached')]),
         sinceKey' <= opts.kmax + 1,
         bestDelta' # DeltaInfinity => opts.kmin < opts.kmax /\ sinceKey' >= opts.kmin + 1,
         ~failed => \/ flushCount' = Len(cached') - 1
                    \/ /\ bestDelta' # DeltaInfinity
                       /\ start + Len(cached') + opts.kmin <= sinceKey'
                       /\ start + Len(cached') + opts.kmin <= opts.kmax - 1
  PROVE  BaseInv'
<1>1. /\ pc' = "flush" /\ input' = NullPicture /\ extra' = 0
      /\ due' \in Seq(Canvas) /\ latest' = input.canvas
      /\ inCount' \in Nat /\ opts' = opts /\ start' = start /\ gotNull' = gotNull
      /\ muxed' = muxed /\ failed' = failed /\ input' \in Pictures
  BY Accepted
<1>2. input.canvas \in Canvas /\ opts.kmin \in Int /\ opts.kmax \in Int /\ start \in Nat
  BY CachingFacts
<1>3. Count' = Len(cached')
  BY DEF Count
<1>4. TypeInv'
  BY <1>1, <1>2, <1>3 DEF BaseInv, TypeInv
<1>5. OptionsInv'
  BY <1>1 DEF BaseInv, OptionsInv
<1>6. EntriesInv'
  <2>1. (keyframe # -1 => BothFrames(GetFrame(keyframe)) /\ GetFrame(keyframe).isKey)'
    BY DEF GetFrame
  <2>2. (undecided /\ Count > 0 => BothFrames(cached[Count]))'
    BY <1>3
  <2>3. (flushCount <= Count /\ flushCount < Count)'
    BY <1>3, <1>4 DEF TypeInv
  <2> QED BY <2>1, <2>2, <2>3, Zenon DEF EntriesInv
<1>7. RoomInv'
  BY <1>1, <1>2, <1>3 DEF RoomInv, Within
<1> QED BY <1>4, <1>5, <1>6, <1>7 DEF BaseInv

\* The rectangle of a frame.
LEMMA FrameRect ==
  ASSUME NEW f \in Frames
  PROVE  [x |-> f.x, w |-> f.w] \in Rects
<1>1. f.x \in Nat /\ f.w \in Nat /\ f.x + f.w <= Width
  BY DEF Frames
<1> QED BY <1>1 DEF Rects

\* The entry of the first picture.
LEMMA FirstEntry ==
  ASSUME NEW f \in Frames, f.dur = 0
  PROVE  [sub |-> NoFrame, key |-> f, isKey |-> TRUE] \in Entries
<1> DEFINE e == [sub |-> NoFrame, key |-> f, isKey |-> TRUE]
<1>1. e.sub = NoFrame /\ e.key = f /\ e.isKey = TRUE
  BY Zenon
<1>2. e \in [sub : Frames \cup NoFrames, key : Frames \cup NoFrames, isKey : BOOLEAN]
  BY NoFrameType
<1> HIDE DEF e
<1>3. Chosen(e) = f
  BY <1>1 DEF Chosen
<1>4. NoFrame.dur = 0
  BY DEF NoFrame
<1>5. Chosen(e) \in Frames /\ Chosen(e).dur = e.sub.dur
  BY <1>1, <1>3, <1>4
<1>6. e \in Entries
  BY <1>2, <1>5, Zenon DEF Entries
<1> QED BY <1>6 DEF e

\* The first picture is a key frame.
LEMMA CacheFirstBase == BaseInv /\ CacheFirst => BaseInv'
<1> SUFFICES ASSUME BaseInv, CacheFirst PROVE BaseInv'
  OBVIOUS
<1>1. Caching /\ isFirst /\ Accept /\ NewPrevious
  BY DEF CacheFirst
<1>2. PICK c \in Candidates(input.canvas, TRUE) :
        /\ cached' = <<[sub |-> NoFrame, key |-> c.frame, isKey |-> TRUE]>>
        /\ prevRect' = [x |-> c.frame.x, w |-> c.frame.w]
  BY DEF CacheFirst
<1>3. /\ input.canvas \in Canvas /\ prevCanvas \in Canvas /\ undecided \in BOOLEAN
      /\ isFirst \in BOOLEAN /\ Count = 0 /\ keyframe = -1 /\ bestDelta = DeltaInfinity
      /\ opts.kmax >= 0 /\ opts.kmax \in Int
  <2>1. Count = 0
    BY <1>1 DEF BaseInv, EntriesInv
  <2> QED BY <1>1, <2>1, CachingFacts
<1>4. c.frame \in Frames /\ c.frame.dur = 0
  <2> DEFINE yes == TRUE
  <2>1. yes \in BOOLEAN /\ c \in Candidates(input.canvas, yes)
    OBVIOUS
  <2> HIDE DEF yes
  <2> QED BY <1>3, <2>1, CandidatesRight
<1>5. /\ flushCount' = 0 /\ sinceKey' = 0 /\ undecided' = FALSE
      /\ bestDelta' = bestDelta /\ keyframe' = keyframe
      /\ prevCanvas' = input.canvas /\ isFirst' = FALSE
  BY DEF CacheFirst, NewPrevious
<1>6. prevRect' \in Rects
  BY <1>2, <1>4, FrameRect
<1>7. cached' \in Seq(Entries) /\ Len(cached') = 1
  <2> DEFINE e == [sub |-> NoFrame, key |-> c.frame, isKey |-> TRUE]
  <2>1. e \in Entries
    BY <1>4, FirstEntry
  <2> HIDE DEF e
  <2>2. cached' = <<e>>
    BY <1>2 DEF e
  <2> QED BY <2>1, <2>2
<1>8. /\ bestDelta' \in Penalties \cup {DeltaInfinity} /\ bestDelta' = DeltaInfinity
      /\ keyframe' \in -1..Len(cached') - 1 /\ keyframe' = -1
      /\ sinceKey' \in Nat /\ flushCount' \in Nat /\ sinceKey' <= opts.kmax + 1
      /\ flushCount' = Len(cached') - 1 /\ flushCount' < Len(cached')
  BY <1>3, <1>5, <1>7
<1>9. /\ ~undecided' /\ ~isFirst' /\ prevCanvas' \in Canvas
      /\ undecided' \in BOOLEAN /\ isFirst' \in BOOLEAN
  BY <1>3, <1>5
<1> QED BY <1>1, <1>6, <1>7, <1>8, <1>9, CachedBase, Zenon

\* A picture like the one before it needs no frame.
LEMMA SkipBase == BaseInv /\ Skip => BaseInv'
<1> SUFFICES ASSUME BaseInv, Skip PROVE BaseInv'
  OBVIOUS
<1>1. /\ Caching /\ ~isFirst /\ Accept
      /\ UNCHANGED <<flushCount, bestDelta, keyframe, sinceKey, undecided, isFirst,
                     prevCanvas, prevRect, cached>>
  BY DEF Skip
<1>2. /\ Count \in Nat /\ start \in Nat /\ flushCount \in Nat /\ sinceKey \in Nat
      /\ opts.kmin \in Int /\ opts.kmax \in Int /\ sinceKey <= opts.kmax + 1
      /\ keyframe \in -1..Count - 1 /\ isFirst \in BOOLEAN /\ undecided \in BOOLEAN
      /\ bestDelta # DeltaInfinity =>
           opts.kmin < opts.kmax /\ sinceKey >= opts.kmin + 1 /\ ~isFirst
      /\ Count > 0 /\ flushCount < Count /\ prevCanvas \in Canvas
  BY <1>1, CachingFacts
<1>3. Len(cached') = Count
  BY <1>1 DEF Count
<1>4. /\ cached' \in Seq(Entries) /\ prevRect' \in Rects
      /\ bestDelta' \in Penalties \cup {DeltaInfinity}
  BY <1>1 DEF BaseInv, TypeInv
<1>5. /\ keyframe' # -1 => /\ BothFrames(cached'[keyframe' + 1])
                           /\ cached'[keyframe' + 1].isKey
      /\ undecided' => BothFrames(cached'[Len(cached')])
  BY <1>1, <1>2, <1>3 DEF BaseInv, EntriesInv, GetFrame
<1>6. ~failed => \/ flushCount' = Len(cached') - 1
                 \/ /\ bestDelta' # DeltaInfinity
                    /\ start + Len(cached') + opts.kmin <= sinceKey'
                    /\ start + Len(cached') + opts.kmin <= opts.kmax - 1
  <2> SUFFICES ASSUME ~failed
               PROVE  \/ flushCount = Count - 1
                      \/ Within(start + Count, opts.kmax - 1)
    BY <1>1, <1>3 DEF Within
  <2>1. \/ /\ flushCount = 0 /\ (Count = 1 => start = 0)
           /\ start + Count = 1 \/ Within(start + Count, opts.kmax - 1)
        \/ flushCount = Count - 1
    BY <1>1, CachingFacts
  <2> QED BY <1>2, <2>1
<1> QED BY <1>1, <1>2, <1>3, <1>4, <1>5, <1>6, CachedBase

\* A candidate for the picture of the call.
LEMMA CandidateFacts ==
  ASSUME BaseInv, Caching, NEW isKey \in BOOLEAN, NEW c \in Candidates(input.canvas, isKey)
  PROVE  /\ c.frame \in Frames /\ c.frame.dur = 0 /\ ~c.frame.dispose
         /\ c.disposePrev \in BOOLEAN
         /\ c.disposePrev =>
              /\ ~isKey /\ ~undecided
              /\ Draw(Clear(prevCanvas, prevRect), c.frame) = input.canvas
         /\ ~c.disposePrev => Draw(prevCanvas, c.frame) = input.canvas
         /\ isKey /\ ~isFirst => \A b : Draw(b, c.frame) = input.canvas
<1>1. /\ prevCanvas \in Canvas /\ isFirst \in BOOLEAN /\ undecided \in BOOLEAN
      /\ input.canvas \in Canvas
  BY CachingFacts
<1> DEFINE curr == input.canvas
<1> HIDE DEF curr
<1>2. curr \in Canvas /\ c \in Candidates(curr, isKey)
  BY <1>1 DEF curr
<1>3. /\ c.frame \in Frames /\ c.frame.dur = 0 /\ ~c.frame.dispose
      /\ c.disposePrev \in BOOLEAN
      /\ c.disposePrev =>
           ~isKey /\ ~undecided /\ Draw(Clear(prevCanvas, prevRect), c.frame) = curr
      /\ ~c.disposePrev => Draw(prevCanvas, c.frame) = curr
      /\ isKey /\ ~isFirst => \A b : Draw(b, c.frame) = curr
  BY <1>1, <1>2, CandidatesRight
<1> QED BY <1>3 DEF curr

\* A sub-frame that may be encoded.
LEMMA SubCandidate ==
  ASSUME BaseInv, Caching, NEW c \in Candidates(input.canvas, FALSE)
  PROVE  /\ c.frame \in Frames /\ c.frame.dur = 0 /\ ~c.frame.dispose
         /\ c.disposePrev \in BOOLEAN
         /\ c.disposePrev =>
              ~undecided /\ Draw(Clear(prevCanvas, prevRect), c.frame) = input.canvas
         /\ ~c.disposePrev => Draw(prevCanvas, c.frame) = input.canvas
<1> DEFINE no == FALSE
<1>1. no \in BOOLEAN /\ ~no /\ c \in Candidates(input.canvas, no)
  OBVIOUS
<1> HIDE DEF no
<1> QED BY <1>1, CandidateFacts

\* A key frame that may be encoded.
LEMMA KeyCandidate ==
  ASSUME BaseInv, Caching, ~isFirst, NEW c \in Candidates(input.canvas, TRUE)
  PROVE  /\ c.frame \in Frames /\ c.frame.dur = 0 /\ ~c.frame.dispose
         /\ \A b : Draw(b, c.frame) = input.canvas
<1> DEFINE yes == TRUE
<1>1. yes \in BOOLEAN /\ yes /\ c \in Candidates(input.canvas, yes)
  OBVIOUS
<1> HIDE DEF yes
<1> QED BY <1>1, CandidateFacts

\* Only a sub-frame is encoded.
LEMMA CacheSubFrameBase == BaseInv /\ CacheSubFrame => BaseInv'
<1> SUFFICES ASSUME BaseInv, CacheSubFrame PROVE BaseInv'
  OBVIOUS
<1>1. Caching /\ ~isFirst /\ Accept /\ sinceKey + 1 <= opts.kmin
  BY DEF CacheSubFrame
<1>2. PICK c \in Candidates(input.canvas, FALSE) :
        /\ cached' = CachedWith(c)
        /\ prevRect' = [x |-> c.frame.x, w |-> c.frame.w]
  BY DEF CacheSubFrame
<1>3. c.frame \in Frames /\ c.disposePrev \in BOOLEAN
  BY <1>1, SubCandidate
<1>4. /\ Count \in Nat /\ Count > 0 /\ sinceKey \in Nat /\ keyframe \in -1..Count - 1
      /\ opts.kmin \in Int /\ opts.kmax \in Int /\ input.canvas \in Canvas
      /\ bestDelta # DeltaInfinity => sinceKey >= opts.kmin + 1
      /\ opts.kmin <= opts.kmax
  BY <1>1, CachingFacts
<1>5. /\ flushCount' = Count /\ sinceKey' = sinceKey + 1 /\ undecided' = FALSE
      /\ bestDelta' = bestDelta /\ keyframe' = keyframe
      /\ prevCanvas' = input.canvas /\ isFirst' = FALSE
  BY DEF CacheSubFrame, NewPrevious
<1>6. TypeInv /\ EntriesInv
  BY DEF BaseInv
<1>7. cached' \in Seq(Entries) /\ Len(cached') = Count + 1
  BY <1>2, <1>3, <1>4, <1>6, CachedWithRight
<1>8. prevRect' \in Rects
  BY <1>2, <1>3, FrameRect
<1>9. keyframe' # -1 => /\ BothFrames(cached'[keyframe' + 1])
                        /\ cached'[keyframe' + 1].isKey
  BY <1>2, <1>3, <1>5, <1>6, KeyframeKept
<1>10. /\ ~undecided' /\ ~isFirst' /\ prevCanvas' \in Canvas
       /\ undecided' \in BOOLEAN /\ isFirst' \in BOOLEAN
  BY <1>4, <1>5
<1>11. bestDelta = DeltaInfinity
  BY <1>1, <1>4
<1>12. /\ bestDelta' \in Penalties \cup {DeltaInfinity} /\ bestDelta' = DeltaInfinity
       /\ keyframe' \in -1..Len(cached') - 1
       /\ sinceKey' \in Nat /\ flushCount' \in Nat /\ sinceKey' <= opts.kmax + 1
       /\ flushCount' = Len(cached') - 1 /\ flushCount' < Len(cached')
  BY <1>1, <1>4, <1>5, <1>7, <1>11
<1> QED BY <1>1, <1>7, <1>8, <1>9, <1>10, <1>12, CachedBase, Zenon

\* The choice of the key frame, and the room that leaves.
LEMMA CacheBothBase == BaseInv /\ CacheBoth => BaseInv'
<1> SUFFICES ASSUME BaseInv, CacheBoth PROVE BaseInv'
  OBVIOUS
<1>1. Caching /\ ~isFirst /\ Accept /\ sinceKey + 1 > opts.kmin
  BY DEF CacheBoth
<1>2. PICK c \in Candidates(input.canvas, FALSE), k \in Candidates(input.canvas, TRUE),
           penalty \in Penalties :
        LET chosen == penalty <= bestDelta
            last == LastFrame(chosen, k.frame, c.frame)
        IN /\ cached' = CachedBoth(c, k.frame, chosen)
           /\ undecided' = chosen
           /\ flushCount' = IF chosen \/ PeriodEnds THEN Count ELSE flushCount
           /\ keyframe' = NextKeyframe(chosen)
           /\ bestDelta' = NextBestDelta(chosen, penalty)
           /\ prevRect' = [x |-> last.x, w |-> last.w]
  BY Zenon DEF CacheBoth, CachedBoth
<1> DEFINE chosen == penalty <= bestDelta
           last == LastFrame(chosen, k.frame, c.frame)
           entry == [sub |-> c.frame, key |-> k.frame, isKey |-> chosen]
<1>3. /\ sinceKey' = (IF PeriodEnds THEN 0 ELSE sinceKey + 1)
      /\ prevCanvas' = input.canvas /\ isFirst' = FALSE
  BY DEF CacheBoth, NewPrevious
<1>4. /\ c.frame \in Frames /\ c.frame.dur = 0 /\ c.disposePrev \in BOOLEAN
      /\ k.frame \in Frames /\ k.frame.dur = 0
  BY <1>1, SubCandidate, KeyCandidate
<1>5. /\ Count \in Nat /\ Count > 0 /\ sinceKey \in Nat /\ keyframe \in -1..Count - 1
      /\ opts.kmin \in Int /\ opts.kmax \in Int /\ input.canvas \in Canvas
      /\ start \in Nat /\ flushCount \in Nat /\ flushCount < Count
      /\ bestDelta # DeltaInfinity => sinceKey >= opts.kmin + 1
      /\ \/ opts.kmax = 0 /\ opts.kmin = 0
         \/ opts.kmax >= 2 /\ opts.kmin < opts.kmax
      /\ ~failed =>
           \/ /\ flushCount = 0 /\ (Count = 1 => start = 0)
              /\ start + Count = 1 \/ Within(start + Count, opts.kmax - 1)
           \/ /\ flushCount = Count - 1 /\ flushCount >= 1
              /\ start + Count = 2 \/ Within(start + Count, opts.kmax)
              /\ bestDelta # DeltaInfinity => sinceKey >= opts.kmin + 2
  BY <1>1, CachingFacts
<1>6. /\ DeltaInfinity \in Int /\ penalty \in Int /\ penalty < DeltaInfinity
      /\ bestDelta \in Penalties \cup {DeltaInfinity}
      /\ \A p \in Penalties : p \in Int
  BY Infinity DEF BaseInv, TypeInv
<1>7. bestDelta = DeltaInfinity => chosen
  BY <1>6
<1>8. chosen \in BOOLEAN
  OBVIOUS
<1>9. TypeInv /\ EntriesInv
  BY DEF BaseInv
<1>10. /\ cached' = CachedBoth(c, k.frame, chosen) /\ undecided' = chosen
       /\ flushCount' = (IF chosen \/ PeriodEnds THEN Count ELSE flushCount)
       /\ keyframe' = (IF PeriodEnds THEN -1 ELSE IF chosen THEN Count ELSE keyframe)
       /\ bestDelta' = (IF PeriodEnds THEN DeltaInfinity
                        ELSE IF chosen THEN penalty ELSE bestDelta)
       /\ prevRect' = [x |-> last.x, w |-> last.w]
  BY <1>2, Zenon DEF NextKeyframe, NextBestDelta
<1> HIDE DEF chosen, last
<1>11. /\ cached' \in Seq(Entries) /\ Len(cached') = Count + 1 /\ cached'[Count + 1] = entry
       /\ \A i \in 1..Count : ~chosen => cached'[i] = CachedWith(c)[i]
  <2> DEFINE f == k.frame
             now == CachedBoth(c, f, chosen)
  <2>1. /\ f \in Frames /\ f.dur = 0 /\ c.frame \in Frames /\ c.disposePrev \in BOOLEAN
        /\ c.frame.dur = 0 /\ Count > 0 /\ chosen \in BOOLEAN
    BY <1>4, <1>5, <1>8
  <2>2. cached' = now
    BY <1>10, Zenon
  <2> HIDE DEF f
  <2>3. /\ now \in Seq(Entries) /\ Len(now) = Count + 1
        /\ now[Count + 1] = [sub |-> c.frame, key |-> f, isKey |-> chosen]
        /\ \A i \in 1..Count : now[i] = IF chosen /\ i = keyframe + 1
                                         THEN [CachedWith(c)[i] EXCEPT !.isKey = FALSE]
                                         ELSE CachedWith(c)[i]
    BY <1>9, <2>1, BothCachedRight
  <2> HIDE DEF now
  <2>4. \A i \in 1..Count : ~chosen => now[i] = CachedWith(c)[i]
    BY <1>8, <2>3
  <2> QED BY <2>2, <2>3, <2>4, Zenon DEF f
<1>12. prevRect' \in Rects
  <2>1. last \in Frames
    BY <1>4, <1>8 DEF last, LastFrame
  <2> QED BY <1>10, <2>1, FrameRect
<1>13. BothFrames(entry) /\ entry.isKey = chosen
  BY <1>4 DEF BothFrames
<1>14. keyframe' # -1 => /\ BothFrames(cached'[keyframe' + 1])
                         /\ cached'[keyframe' + 1].isKey
  <2> HIDE DEF entry
  <2>1. CASE ~PeriodEnds /\ chosen
    BY <1>10, <1>11, <1>13, <2>1
  <2>2. CASE ~PeriodEnds /\ ~chosen /\ keyframe # -1
    <3>1. /\ keyframe + 1 \in 1..Count
          /\ BothFrames(CachedWith(c)[keyframe + 1]) /\ CachedWith(c)[keyframe + 1].isKey
      BY <1>4, <1>9, <2>2, KeyframeKept
    <3> QED BY <1>10, <1>11, <2>2, <3>1
  <2> QED BY <1>8, <1>10, <2>1, <2>2
<1>15. undecided' => BothFrames(cached'[Len(cached')])
  BY <1>11, <1>13
<1>16. /\ ~isFirst' /\ prevCanvas' \in Canvas
       /\ undecided' \in BOOLEAN /\ isFirst' \in BOOLEAN
  BY <1>3, <1>5, <1>8, <1>10
<1>17. bestDelta' \in Penalties \cup {DeltaInfinity}
  BY <1>6, <1>8, <1>10
<1>18. PeriodEnds <=> sinceKey + 1 >= opts.kmax
  BY DEF PeriodEnds
<1>19. /\ keyframe' \in -1..Len(cached') - 1
       /\ flushCount' \in Nat /\ flushCount' < Len(cached')
  BY <1>5, <1>8, <1>10, <1>11
<1>20. /\ sinceKey' \in Nat /\ sinceKey' <= opts.kmax + 1
       /\ bestDelta' # DeltaInfinity => opts.kmin < opts.kmax /\ sinceKey' >= opts.kmin + 1
  BY <1>1, <1>3, <1>5, <1>8, <1>10, <1>18
<1>21. ~failed => \/ flushCount' = Len(cached') - 1
                  \/ /\ bestDelta' # DeltaInfinity
                     /\ start + Len(cached') + opts.kmin <= sinceKey'
                     /\ start + Len(cached') + opts.kmin <= opts.kmax - 1
  <2>1. CASE chosen \/ PeriodEnds
    BY <1>10, <1>11, <1>5, <2>1
  <2>2. CASE ~chosen /\ ~PeriodEnds /\ ~failed
    <3>1. bestDelta' # DeltaInfinity /\ bestDelta # DeltaInfinity
      BY <1>7, <1>10, <2>2
    <3>2. sinceKey' = sinceKey + 1 /\ sinceKey + 1 <= opts.kmax - 1 /\ Len(cached') = Count + 1
      BY <1>3, <1>5, <1>11, <1>18, <2>2
    <3>3. start + Count + opts.kmin <= sinceKey
      BY <1>5, <2>2, <3>1 DEF Within
    <3>4. /\ start \in Nat /\ Count \in Nat /\ sinceKey \in Nat
          /\ opts.kmin \in Int /\ opts.kmax \in Int
      BY <1>5
    <3> QED BY <3>1, <3>2, <3>3, <3>4
  <2> QED BY <1>8, <2>1, <2>2
<1> QED BY <1>1, <1>11, <1>12, <1>14, <1>15, <1>16, <1>17, <1>19, <1>20, <1>21,
           CachedBase, Zenon

\* A picture that cannot be encoded.
LEMMA EncodingFailsBase == BaseInv /\ EncodingFails => BaseInv'
<1> SUFFICES ASSUME BaseInv, EncodingFails PROVE BaseInv'
  OBVIOUS
<1>1. /\ Caching /\ pc = "cache" /\ pc' = "idle" /\ failed' = TRUE /\ input' = NullPicture
      /\ UNCHANGED <<opts, start, flushCount, bestDelta, keyframe, sinceKey, undecided,
                     isFirst, gotNull, inCount, muxed, due, extra, latest, prevCanvas>>
  BY DEF EncodingFails, Caching, control, flags, history
<1>2. CASE UNCHANGED <<cached, prevRect>>
  <2>1. prevRect' \in Rects
    BY <1>2 DEF BaseInv, TypeInv
  <2> QED BY <1>1, <1>2, <2>1, FailedBase
<1>3. ASSUME ~isFirst, NEW c \in Candidates(input.canvas, FALSE),
             cached' = SubSeq(CachedWith(c), 1, Count),
             prevRect' = [x |-> c.frame.x, w |-> c.frame.w]
      PROVE  BaseInv'
  <2>1. c.frame \in Frames /\ c.disposePrev \in BOOLEAN
    BY <1>1, SubCandidate
  <2>2. /\ Count \in Nat /\ Count > 0 /\ keyframe \in -1..Count - 1 /\ flushCount < Count
        /\ undecided \in BOOLEAN /\ TypeInv /\ EntriesInv
        /\ \A i \in 1..Count : cached[i] \in Entries
    BY <1>1, <1>3, CachingFacts, CachedTypes DEF BaseInv
  <2>3. /\ CachedWith(c) \in Seq(Entries) /\ Len(CachedWith(c)) = Count + 1
        /\ CachedWith(c)[Count] = SetPreviousDispose(cached[Count], c.disposePrev)
    BY <2>1, <2>2, CachedWithRight
  <2> DEFINE frames == CachedWith(c)
  <2> HIDE DEF frames
  <2>4. /\ cached' \in Seq(Entries) /\ Len(cached') = Count
        /\ \A i \in 1..Count : cached'[i] = frames[i]
    BY <1>3, <2>2, <2>3 DEF frames
  <2>5. prevRect' \in Rects
    BY <1>3, <2>1, FrameRect
  <2>6. Count' = Count
    BY <2>4 DEF Count
  <2>7. TypeInv'
    BY <1>1, <2>4, <2>5, <2>6 DEF BaseInv, TypeInv, Pictures
  <2>8. OptionsInv' /\ RoomInv'
    BY <1>1 DEF BaseInv, OptionsInv, RoomInv
  <2>9. keyframe # -1 => BothFrames(cached'[keyframe + 1]) /\ cached'[keyframe + 1].isKey
    <3> SUFFICES ASSUME keyframe # -1
                 PROVE  BothFrames(cached'[keyframe + 1]) /\ cached'[keyframe + 1].isKey
      OBVIOUS
    <3>1. /\ keyframe + 1 \in 1..Count
          /\ BothFrames(frames[keyframe + 1]) /\ frames[keyframe + 1].isKey
      BY <2>1, <2>2, KeyframeKept DEF frames
    <3> QED BY <2>4, <3>1
  <2>10. undecided => BothFrames(cached'[Count])
    <3> SUFFICES ASSUME undecided PROVE BothFrames(cached'[Count])
      OBVIOUS
    <3> DEFINE e == cached[Count]
               d == c.disposePrev
               g == cached'[Count]
    <3>1. e \in Entries /\ BothFrames(e) /\ d \in BOOLEAN
      BY <2>1, <2>2 DEF EntriesInv
    <3>2. g = SetPreviousDispose(e, d)
      BY <2>2, <2>3, <2>4 DEF frames
    <3> HIDE DEF e, d, g
    <3>3. BothFrames(g)
      BY <2>2, <3>1, <3>2, DisposalSet
    <3> QED BY <3>3 DEF g
  <2>11. EntriesInv'
    BY <1>1, <1>3, <2>2, <2>6, <2>9, <2>10 DEF EntriesInv, GetFrame
  <2> QED BY <2>7, <2>8, <2>11 DEF BaseInv
<1> QED BY <1>2, <1>3, Zenon DEF EncodingFails

\* The first of the waiting frames.
LEMMA FirstFrame ==
  ASSUME BaseInv, Count > 0
  PROVE  /\ Chosen(GetFrame(0)) \in Frames /\ GetFrame(0) = cached[1]
         /\ Chosen(GetFrame(0)).dur \in Nat
         /\ Draw(muxed.below, Chosen(GetFrame(0))) \in Canvas
         /\ Dispose(Draw(muxed.below, Chosen(GetFrame(0))), Chosen(GetFrame(0))) \in Canvas
<1>1. cached[1] \in Entries /\ GetFrame(0) = cached[1] /\ muxed.below \in Canvas
  BY CachedTypes DEF BaseInv, TypeInv, GetFrame
<1> DEFINE f == Chosen(GetFrame(0))
<1>2. f \in Frames
  BY <1>1, Zenon DEF Entries
<1>3. f.dur \in Nat
  BY <1>2 DEF Frames
<1> HIDE DEF f
<1>4. Draw(muxed.below, f) \in Canvas /\ Dispose(Draw(muxed.below, f), f) \in Canvas
  BY <1>1, <1>2, DrawType
<1> QED BY <1>1, <1>2, <1>3, <1>4 DEF f

\* The oldest entry goes to the mux.
LEMMA PushBase == BaseInv /\ PushFrame => BaseInv'
<1> SUFFICES ASSUME BaseInv, PushFrame PROVE BaseInv'
  OBVIOUS
<1> DEFINE f == Chosen(GetFrame(0))
           canvas == Draw(muxed.below, f)
           since == IF StartsAnew(f) THEN 0
                    ELSE IF canvas = muxed.shown THEN muxed.sinceKey
                    ELSE muxed.sinceKey + 1
<1>1. /\ pc \in {"room", "flush", "assemble"} /\ flushCount > 0
      /\ cached' = Tail(cached) /\ start' = start + 1 /\ flushCount' = flushCount - 1
      /\ keyframe' = (IF keyframe = -1 THEN -1 ELSE keyframe - 1)
      /\ UNCHANGED <<opts, bestDelta, sinceKey, undecided, isFirst, gotNull, inCount, extra,
                     latest, prevCanvas, prevRect, pc, input, failed>>
  BY DEF PushFrame, Flushing, flags, KeyframeAfterPush
<1>2. /\ muxed' = [below |-> Dispose(canvas, f), shown |-> canvas, any |-> TRUE,
                   sinceKey |-> since]
      /\ due' = SubSeq(due, f.dur + 1, Len(due))
  BY Zenon DEF PushFrame
<1>3. /\ Count \in Nat /\ cached \in Seq(Entries) /\ start \in Nat /\ flushCount \in Nat
      /\ flushCount <= Count /\ keyframe \in -1..Count - 1 /\ due \in Seq(Canvas)
      /\ Count = Len(cached)
      /\ \A i \in 1..Count : cached[i] \in Entries
      /\ muxed \in [below : Canvas, shown : Canvas, sinceKey : Nat, any : BOOLEAN]
  BY CachedTypes DEF BaseInv, TypeInv, EntriesInv, Count
<1>4. f.dur \in Nat /\ canvas \in Canvas /\ Dispose(canvas, f) \in Canvas
  BY <1>1, <1>3, FirstFrame
<1>5. since \in Nat
  BY <1>3
<1> HIDE DEF f, canvas, since
<1>6. /\ muxed' \in [below : Canvas, shown : Canvas, sinceKey : Nat, any : BOOLEAN]
      /\ due' \in Seq(Canvas)
  BY <1>2, <1>3, <1>4, <1>5
<1>7. /\ cached' \in Seq(Entries) /\ Len(cached') = Count - 1
      /\ \A i \in 1..Count - 1 : cached'[i] = cached[i + 1]
  BY <1>1, <1>3
<1>8. Count' = Count - 1
  BY <1>7 DEF Count
<1>9. TypeInv'
  BY <1>1, <1>3, <1>6, <1>7, <1>8 DEF BaseInv, TypeInv
<1>10. OptionsInv'
  BY <1>1 DEF BaseInv, OptionsInv
<1>11. EntriesInv'
  <2>1. keyframe' # -1 => BothFrames(cached'[keyframe' + 1]) /\ cached'[keyframe' + 1].isKey
    <3> SUFFICES ASSUME keyframe' # -1
                 PROVE  BothFrames(cached'[keyframe' + 1]) /\ cached'[keyframe' + 1].isKey
      OBVIOUS
    <3>1. keyframe # -1 /\ keyframe' + 1 = keyframe /\ keyframe \in 1..Count - 1
      BY <1>1, <1>3
    <3>2. BothFrames(cached[keyframe + 1]) /\ cached[keyframe + 1].isKey
      BY <3>1 DEF BaseInv, EntriesInv, GetFrame
    <3> QED BY <1>7, <3>1, <3>2
  <2>2. undecided' /\ Count' > 0 => BothFrames(cached'[Count'])
    <3> SUFFICES ASSUME undecided, Count' > 0 PROVE BothFrames(cached'[Count'])
      BY <1>1
    <3>1. Count - 1 \in 1..Count - 1 /\ (Count - 1) + 1 = Count
      BY <1>3, <1>8
    <3>2. cached'[Count'] = cached[Count]
      BY <1>7, <1>8, <3>1
    <3>3. BothFrames(cached[Count])
      BY <1>1, <1>3 DEF BaseInv, EntriesInv
    <3> QED BY <3>2, <3>3
  <2>3. ~isFirst /\ (pc \notin {"assemble", "done"} => flushCount < Count)
    BY <1>1 DEF BaseInv, EntriesInv
  <2>4. ~isFirst'
    BY <1>1, <2>3
  <2>5. /\ flushCount' <= Count'
        /\ pc' \notin {"assemble", "done"} => flushCount' < Count'
    BY <1>1, <1>3, <1>8, <2>3
  <2> QED BY <2>1, <2>2, <2>4, <2>5, Zenon DEF EntriesInv, GetFrame
<1>12. RoomInv'
  <2>1. start' + Count' = start + Count
    BY <1>1, <1>3, <1>8
  <2>2. Within(start + Count, opts.kmax - 1)' <=> Within(start + Count, opts.kmax - 1)
    BY <1>1, <2>1 DEF Within
  <2>3. flushCount = Count - 1 => flushCount' = Count' - 1
    BY <1>1, <1>3, <1>8
  <2>4. /\ (pc = "room" => (~failed => flushCount = Count - 1))
        /\ (pc = "flush" => (~failed => flushCount = Count - 1
                                        \/ Within(start + Count, opts.kmax - 1)))
        /\ sinceKey <= opts.kmax + 1
        /\ bestDelta # DeltaInfinity =>
             opts.kmin < opts.kmax /\ sinceKey >= opts.kmin + 1 /\ ~isFirst
    BY DEF BaseInv, RoomInv
  <2> QED BY <1>1, <2>2, <2>3, <2>4 DEF RoomInv
<1> QED BY <1>9, <1>10, <1>11, <1>12 DEF BaseInv

\* FlushFrames() ends.
LEMMA FlushDoneBase == BaseInv /\ FlushDone => BaseInv'
<1> SUFFICES ASSUME BaseInv, FlushDone PROVE BaseInv'
  OBVIOUS
<1>1. /\ pc \in {"room", "flush", "assemble"} /\ flushCount = 0
      /\ start' = (IF Count = 1 THEN 0 ELSE start)
      /\ pc = "room" => pc' = "cache"
      /\ pc = "flush" => pc' = "idle"
      /\ pc = "assemble" => pc' = "done"
      /\ UNCHANGED <<opts, flushCount, bestDelta, keyframe, sinceKey, undecided, isFirst,
                     gotNull, inCount, muxed, due, extra, latest, prevCanvas, prevRect,
                     cached, input, failed>>
  BY DEF FlushDone, Flushing, flags, history
<1>2. Count \in Nat /\ Count' = Count /\ start \in Nat
  BY <1>1, CachedTypes DEF BaseInv, TypeInv, Count
<1>3. TypeInv'
  BY <1>1, <1>2 DEF BaseInv, TypeInv
<1>4. OptionsInv'
  BY <1>1 DEF BaseInv, OptionsInv
<1>5. ~isFirst /\ (pc # "assemble" => flushCount < Count)
  BY <1>1 DEF BaseInv, EntriesInv
<1>6. EntriesInv'
  BY <1>1, <1>2, <1>5 DEF BaseInv, EntriesInv, GetFrame
<1>7. RoomInv'
  <2>1. /\ Size \in Nat /\ Size >= 2 /\ Size >= opts.kmax - opts.kmin + 1
        /\ opts.kmax \in Int /\ opts.kmin \in Int /\ Size' = Size
    BY <1>1, SizeRight DEF BaseInv, Size
  <2>2. /\ sinceKey <= opts.kmax + 1
        /\ bestDelta # DeltaInfinity =>
             opts.kmin < opts.kmax /\ sinceKey >= opts.kmin + 1 /\ ~isFirst
        /\ ~failed /\ pc = "room" => Count = 1
        /\ ~failed /\ pc = "flush" => Count = 1 \/ Within(start + Count, opts.kmax - 1)
    BY <1>1, <1>2 DEF BaseInv, RoomInv
  <2>3. CASE failed \/ pc = "assemble"
    BY <1>1, <2>2, <2>3 DEF RoomInv
  <2>4. CASE ~failed /\ pc # "assemble" /\ Count = 1
    <3>1. start' + Count' = 1 /\ start' + Count' < Size /\ start' = 0 /\ Count' = 1
      BY <1>1, <1>2, <2>1, <2>4
    <3> QED BY <1>1, <2>1, <2>2, <2>4, <3>1 DEF RoomInv
  <2>5. CASE ~failed /\ pc # "assemble" /\ Count # 1
    <3>1. pc = "flush" /\ pc' = "idle" /\ start' = start
      BY <1>1, <2>2, <2>5
    <3>2. Within(start + Count, opts.kmax - 1) /\ start + Count < Size
      BY <1>2, <2>1, <2>2, <2>5, <3>1 DEF Within
    <3>3. Within(start + Count, opts.kmax - 1)'
      BY <1>1, <1>2, <3>1, <3>2 DEF Within
    <3>4. start' + Count' < Size' /\ Count' # 1
      BY <1>2, <2>1, <2>5, <3>1, <3>2
    <3> QED BY <1>1, <2>2, <2>5, <3>1, <3>3, <3>4 DEF RoomInv
  <2> QED BY <2>3, <2>4, <2>5
<1> QED BY <1>3, <1>4, <1>6, <1>7 DEF BaseInv

\* WebPAnimEncoderAssemble() sets the last duration and flushes everything.
LEMMA AssembleBase == BaseInv /\ Assemble => BaseInv'
<1> SUFFICES ASSUME BaseInv, Assemble PROVE BaseInv'
  OBVIOUS
<1>1. /\ pc = "idle" /\ inCount > 0 /\ flushCount' = Len(cached') /\ extra' = 0
      /\ pc' = "assemble"
      /\ UNCHANGED <<opts, start, bestDelta, keyframe, isFirst, gotNull, inCount, muxed,
                     latest, prevCanvas, input, failed>>
  BY DEF Assemble
<1>2. /\ Count \in Nat /\ sinceKey \in Nat /\ sinceKey <= opts.kmax + 1 /\ extra \in Nat
      /\ keyframe \in -1..Count - 1 /\ due \in Seq(Canvas) /\ latest \in Canvas
      /\ opts.kmax \in Int /\ opts.kmin \in Int /\ Count = Len(cached)
      /\ TypeInv /\ OptionsInv /\ EntriesInv
      /\ bestDelta # DeltaInfinity =>
           opts.kmin < opts.kmax /\ sinceKey >= opts.kmin + 1 /\ ~isFirst
  BY CachedTypes DEF BaseInv, TypeInv, OptionsInv, RoomInv, Count
<1>3. ~isFirst
  BY <1>1, <1>2 DEF EntriesInv
<1>4. /\ cached' \in Seq(Entries) /\ undecided' \in BOOLEAN /\ prevRect' \in Rects
      /\ due' \in Seq(Canvas) /\ Len(cached') >= Count
      /\ sinceKey' \in Nat /\ sinceKey' <= opts.kmax + 1 /\ sinceKey' >= sinceKey
      /\ keyframe # -1 => BothFrames(GetFrame(keyframe))' /\ GetFrame(keyframe)'.isKey
      /\ undecided' /\ Len(cached') > 0 => BothFrames(cached'[Len(cached')])
  <2>1. ASSUME NEW average \in 0..MaxDuration - 1, Count > 0,
               IncreasePreviousDuration(average),
               due' = due \o Ticks(extra + average, latest)
        PROVE  <1>4!:
    <3>1. average \in Nat /\ extra + average \in Nat
      BY <1>2, LimitsAssumption
    <3>2. due' \in Seq(Canvas)
      <4>1. Ticks(extra + average, latest) \in Seq(Canvas)
        BY <1>2, <3>1, TicksType
      <4> QED BY <1>2, <2>1, <4>1
    <3>3. /\ cached' \in Seq(Entries) /\ undecided' \in BOOLEAN /\ prevRect' \in Rects
          /\ \/ Len(cached') = Count + 1 /\ sinceKey' = Saturated(sinceKey + 1)
             \/ Len(cached') = Count /\ sinceKey' = sinceKey
      BY <1>2, <2>1, <3>1, Increased, Zenon
    <3>4. /\ Saturated(sinceKey + 1) \in Nat /\ Saturated(sinceKey + 1) <= opts.kmax + 1
          /\ Saturated(sinceKey + 1) = sinceKey + 1 \/ Saturated(sinceKey + 1) = opts.kmax + 1
      <4>1. sinceKey + 1 \in Nat
        BY <1>2
      <4> QED BY <1>2, <4>1, SaturatedRight, Zenon
    <3>5. /\ keyframe # -1 => BothFrames(GetFrame(keyframe))' /\ GetFrame(keyframe)'.isKey
          /\ undecided' => BothFrames(cached'[Len(cached')])
      BY <1>1, <1>2, <2>1, <3>1, IncreasedEntries
    <3>6. /\ sinceKey' \in Nat /\ sinceKey' <= opts.kmax + 1 /\ sinceKey' >= sinceKey
          /\ Len(cached') >= Count
      BY <1>2, <3>3, <3>4
    <3> QED BY <3>2, <3>3, <3>5, <3>6
  <2>2. ASSUME due' = due \o Ticks(extra, latest),
               UNCHANGED <<cached, sinceKey, undecided, prevRect>>
        PROVE  <1>4!:
    <3>1. due' \in Seq(Canvas)
      <4>1. Ticks(extra, latest) \in Seq(Canvas)
        BY <1>2, TicksType
      <4> QED BY <1>2, <2>2, <4>1
    <3>2. /\ cached' \in Seq(Entries) /\ undecided' \in BOOLEAN /\ prevRect' \in Rects
      BY <1>2, <2>2 DEF TypeInv
    <3>3. /\ keyframe # -1 => BothFrames(GetFrame(keyframe))' /\ GetFrame(keyframe)'.isKey
          /\ undecided' /\ Len(cached') > 0 => BothFrames(cached'[Len(cached')])
      BY <1>1, <1>2, <2>2 DEF EntriesInv, GetFrame
    <3> QED BY <1>2, <2>2, <3>1, <3>2, <3>3
  <2>3. CASE ~gotNull /\ inCount > 1 /\ Count > 0
    <3>1. PICK average \in 0..MaxDuration - 1 :
            /\ IncreasePreviousDuration(average)
            /\ due' = due \o Ticks(extra + average, latest)
      BY <2>3, Zenon DEF Assemble
    <3> QED BY <2>1, <2>3, <3>1
  <2>4. CASE ~ (~gotNull /\ inCount > 1 /\ Count > 0)
    <3>1. /\ due' = due \o Ticks(extra, latest)
          /\ UNCHANGED <<cached, sinceKey, undecided, prevRect>>
      BY <2>4, Zenon DEF Assemble
    <3> QED BY <2>2, <3>1
  <2> QED BY <2>3, <2>4
<1>5. Count' = Len(cached')
  BY DEF Count
<1>6. Len(cached') \in Nat
  BY <1>4
<1>7. TypeInv'
  <2>1. keyframe' \in -1..Count' - 1 /\ flushCount' \in Nat
    BY <1>1, <1>2, <1>4, <1>5, <1>6
  <2> QED BY <1>1, <1>2, <1>4, <2>1 DEF TypeInv
<1>8. OptionsInv' /\ RoomInv'
  BY <1>1, <1>2, <1>4 DEF OptionsInv, RoomInv
<1>9. EntriesInv'
  <2>1. flushCount' <= Count'
    BY <1>1, <1>5, <1>6
  <2> QED BY <1>1, <1>3, <1>4, <1>5, <2>1 DEF EntriesInv, GetFrame
<1> QED BY <1>7, <1>8, <1>9 DEF BaseInv

\* Every step keeps the part of the invariant that needs no player.
LEMMA NextBase == BaseInv /\ [Next]_vars => BaseInv'
<1> SUFFICES ASSUME BaseInv, [Next]_vars PROVE BaseInv'
  OBVIOUS
<1>1. CASE UNCHANGED vars
  <2>1. UNCHANGED <<opts, start, flushCount, bestDelta, keyframe, sinceKey, undecided,
                    isFirst, gotNull, inCount, muxed, due, extra, latest, prevCanvas,
                    prevRect, cached, pc, input, failed>>
    BY <1>1 DEF vars, control, flags, history
  <2>2. TypeInv'
    BY <2>1 DEF BaseInv, TypeInv, Count
  <2>3. OptionsInv' /\ EntriesInv' /\ RoomInv'
    BY <2>1 DEF BaseInv, OptionsInv, EntriesInv, RoomInv, Count, GetFrame, Size, Within
  <2> QED BY <2>2, <2>3 DEF BaseInv
<1>2. ASSUME NEW p \in Pictures, NEW d \in 0..MaxDuration - 1, Add(p, d)
      PROVE  BaseInv'
  BY <1>2, AddBase
<1> QED BY <1>1, <1>2, NullBase, WrongBase, CacheFirstBase, SkipBase, CacheSubFrameBase,
           CacheBothBase, EncodingFailsBase, PushBase, FlushDoneBase, PushFailsBase,
           AssembleBase, Zenon
     DEF Next

\* After any calls, also calls that failed, encoded_frames_ holds entries that
\* can be used the way they are marked, the one that may still be demoted has
\* both variants, and sinceKey and bestDelta tell how many of them wait.
THEOREM EntriesStayUsable == Spec => []BaseInv
<1> QED BY InitBase, NextBase, PTL DEF Spec

\* GetFrame() never runs past encoded_frames_: as long as no call failed, there
\* is an entry left for the next frame, and between calls for the transparent
\* frame before it.
THEOREM EncodedFramesSuffice == Spec => []RoomForNext
<1>1. BaseInv => RoomForNext
  <2> SUFFICES ASSUME BaseInv, pc \in {"idle", "cache"}, ~failed
               PROVE  start + Count < Size
    BY DEF RoomForNext
  <2>1. /\ Size \in Nat /\ Size >= 2 /\ Size >= opts.kmax - opts.kmin + 1
        /\ opts.kmax \in Int /\ opts.kmin \in Int
    BY SizeRight DEF BaseInv
  <2>2. Count \in Nat /\ start \in Nat
    BY CachedTypes DEF BaseInv, TypeInv
  <2>3. CASE isFirst
    BY <2>1, <2>3 DEF BaseInv, EntriesInv
  <2>4. CASE ~isFirst
    <3>1. \/ start + Count < Size
          \/ start + Count = 1 \/ Within(start + Count, opts.kmax - 1)
      BY <2>4 DEF BaseInv, RoomInv
    <3> QED BY <2>1, <2>2, <3>1 DEF Within
  <2> QED BY <2>3, <2>4
<1> QED BY <1>1, EntriesStayUsable, PTL

-----------------------------------------------------------------------------
(* Playing frames.                                                         *)

Plays == [below : Canvas, shown : Canvas, ticks : Seq(Canvas)]

\* The states of a player form a function on any number of frames.
LEMMA PlayExists ==
  ASSUME NEW p, NEW frames
  PROVE  \A n \in Nat : \E g : IsPlay(g, p, frames, n)
<1> DEFINE S == {n \in Nat : \E g : IsPlay(g, p, frames, n)}
<1>1. 0 \in S
  <2> DEFINE g == [i \in 0..0 |-> p]
  <2>1. g = [i \in 0..0 |-> IF i = 0 THEN p ELSE Step(g[i - 1], frames[i])]
    OBVIOUS
  <2>2. IsPlay(g, p, frames, 0)
    BY <2>1, Zenon DEF IsPlay
  <2> QED BY <2>2
<1>2. ASSUME NEW n \in Nat, n \in S PROVE n + 1 \in S
  <2>1. PICK g : g = [i \in 0..n |-> IF i = 0 THEN p ELSE Step(g[i - 1], frames[i])]
    BY <1>2, Zenon DEF IsPlay
  <2> DEFINE h == [i \in 0..n + 1 |-> IF i \in 0..n THEN g[i]
                                      ELSE Step(g[n], frames[n + 1])]
  <2>2. ASSUME NEW i \in 0..n + 1
        PROVE  h[i] = IF i = 0 THEN p ELSE Step(h[i - 1], frames[i])
    <3>1. CASE i \in 0..n
      <4>1. h[i] = g[i] /\ (i # 0 => i - 1 \in 0..n /\ i - 1 \in 0..n + 1)
        BY <3>1
      <4>2. g[i] = IF i = 0 THEN p ELSE Step(g[i - 1], frames[i])
        BY <2>1, <3>1, Zenon
      <4>3. i # 0 => h[i - 1] = g[i - 1]
        BY <4>1, Zenon
      <4> HIDE DEF h
      <4> QED BY <4>1, <4>2, <4>3, Zenon
    <3>2. CASE i \notin 0..n
      <4>1. i = n + 1 /\ i # 0 /\ n \in 0..n /\ n \in 0..n + 1 /\ i - 1 = n
        BY <3>2
      <4>2. h[i] = Step(g[n], frames[n + 1]) /\ h[n] = g[n]
        BY <3>2, <4>1, Zenon
      <4> HIDE DEF h
      <4> QED BY <4>1, <4>2, Zenon
    <3> QED BY <3>1, <3>2
  <2>3. h = [i \in 0..n + 1 |-> h[i]]
    BY Zenon
  <2> HIDE DEF h
  <2>4. h = [i \in 0..n + 1 |-> IF i = 0 THEN p ELSE Step(h[i - 1], frames[i])]
    BY <2>2, <2>3, Zenon
  <2>5. IsPlay(h, p, frames, n + 1)
    BY <2>4, Zenon DEF IsPlay
  <2> QED BY <2>5
<1> HIDE DEF S
<1>3. \A n \in Nat : n \in S
  BY <1>1, <1>2, Induct
<1> QED BY <1>3 DEF S

\* That function is the one PlayTo() takes its value from.
LEMMA PlayIs ==
  ASSUME NEW p, NEW frames, NEW n \in Nat
  PROVE  \E g : IsPlay(g, p, frames, n) /\ PlayTo(p, frames, n) = g[n]
<1> DEFINE play == CHOOSE g : IsPlay(g, p, frames, n)
<1>1. IsPlay(play, p, frames, n)
  BY PlayExists, Zenon
<1>2. PlayTo(p, frames, n) = play[n]
  BY Zenon DEF PlayTo, IsPlay
<1> QED BY <1>1, <1>2, Zenon

\* Two plays agree as far as both go.
LEMMA PlaysAgree ==
  ASSUME NEW p, NEW frames, NEW n \in Nat, NEW m \in Nat, NEW g, NEW h,
         IsPlay(g, p, frames, n), IsPlay(h, p, frames, m)
  PROVE  \A i \in Nat : i <= n /\ i <= m => g[i] = h[i]
<1> DEFINE S == {i \in Nat : i <= n /\ i <= m => g[i] = h[i]}
<1>1. /\ \A i \in 0..n : g[i] = IF i = 0 THEN p ELSE Step(g[i - 1], frames[i])
      /\ \A i \in 0..m : h[i] = IF i = 0 THEN p ELSE Step(h[i - 1], frames[i])
  BY Zenon DEF IsPlay
<1>2. 0 \in S
  BY <1>1
<1>3. ASSUME NEW i \in Nat, i \in S PROVE i + 1 \in S
  <2> SUFFICES ASSUME i + 1 <= n, i + 1 <= m PROVE g[i + 1] = h[i + 1]
    OBVIOUS
  <2>1. i + 1 \in 0..n /\ i + 1 \in 0..m /\ i + 1 # 0 /\ (i + 1) - 1 = i /\ g[i] = h[i]
    BY <1>3
  <2> QED BY <1>1, <2>1, Zenon
<1> HIDE DEF S
<1>4. \A i \in Nat : i \in S
  BY <1>2, <1>3, Induct
<1> QED BY <1>4 DEF S

\* One frame is played after the other.
LEMMA PlayUnfolds ==
  ASSUME NEW p, NEW frames
  PROVE  /\ PlayTo(p, frames, 0) = p
         /\ \A n \in Nat : PlayTo(p, frames, n + 1) = Step(PlayTo(p, frames, n), frames[n + 1])
<1>1. PlayTo(p, frames, 0) = p
  <2>1. PICK g : IsPlay(g, p, frames, 0) /\ PlayTo(p, frames, 0) = g[0]
    BY PlayIs
  <2> QED BY <2>1 DEF IsPlay
<1>2. ASSUME NEW n \in Nat
      PROVE  PlayTo(p, frames, n + 1) = Step(PlayTo(p, frames, n), frames[n + 1])
  <2>0. n + 1 \in Nat /\ n \in 0..n + 1 /\ n + 1 \in 0..n + 1 /\ n + 1 # 0
        /\ (n + 1) - 1 = n /\ n <= n /\ n <= n + 1
    OBVIOUS
  <2>1. PICK g : IsPlay(g, p, frames, n) /\ PlayTo(p, frames, n) = g[n]
    BY PlayIs
  <2>2. PICK h : IsPlay(h, p, frames, n + 1) /\ PlayTo(p, frames, n + 1) = h[n + 1]
    BY <2>0, PlayIs
  <2>3. g[n] = h[n]
    BY <2>0, <2>1, <2>2, PlaysAgree
  <2>4. h[n + 1] = Step(h[n], frames[n + 1])
    BY <2>0, <2>2, Zenon DEF IsPlay
  <2> QED BY <2>1, <2>2, <2>3, <2>4, Zenon
<1> QED BY <1>1, <1>2

\* The next frame is played from the state after the ones before it.
LEMMA PlayNext ==
  ASSUME NEW p, NEW frames, NEW n \in Nat, NEW m, m = n + 1
  PROVE  PlayTo(p, frames, m) = Step(PlayTo(p, frames, n), frames[m])
<1>1. PlayTo(p, frames, n + 1) = Step(PlayTo(p, frames, n), frames[n + 1])
  BY PlayUnfolds
<1> QED BY <1>1, Zenon

\* From where two plays are equal, equal frames keep them equal.
LEMMA PlayFrom ==
  ASSUME NEW p, NEW q, NEW frames, NEW others, NEW k \in Nat,
         PlayTo(p, frames, k) = PlayTo(q, others, k), NEW m \in Nat,
         \A i \in k + 1..m : frames[i] = others[i], k <= m
  PROVE  PlayTo(p, frames, m) = PlayTo(q, others, m)
<1> DEFINE S == {n \in Nat : k + n <= m => PlayTo(p, frames, k + n) = PlayTo(q, others, k + n)}
<1>1. 0 \in S
  <2>1. k + 0 = k
    OBVIOUS
  <2> QED BY <2>1
<1>2. ASSUME NEW n \in Nat, n \in S PROVE n + 1 \in S
  <2> SUFFICES ASSUME k + (n + 1) <= m
               PROVE  PlayTo(p, frames, k + (n + 1)) = PlayTo(q, others, k + (n + 1))
    OBVIOUS
  <2>0. PICK l \in Nat, o \in Nat : l = k + n /\ o = l + 1
    OBVIOUS
  <2>1. k + (n + 1) = o /\ l <= m /\ o \in k + 1..m
    BY <2>0
  <2>2. PlayTo(p, frames, l) = PlayTo(q, others, l)
    BY <1>2, <2>0, <2>1
  <2>3. frames[o] = others[o]
    BY <2>1
  <2>4. PlayTo(p, frames, o) = Step(PlayTo(p, frames, l), frames[o])
    BY <2>0, PlayNext
  <2>5. PlayTo(q, others, o) = Step(PlayTo(q, others, l), others[o])
    BY <2>0, PlayNext
  <2> QED BY <2>1, <2>2, <2>3, <2>4, <2>5, Zenon
<1> HIDE DEF S
<1>3. \A n \in Nat : n \in S
  BY <1>1, <1>2, Induct
<1>4. m - k \in Nat /\ k + (m - k) = m
  OBVIOUS
<1>5. m - k \in S
  BY <1>3, <1>4
<1> QED BY <1>4, <1>5 DEF S

\* The same frames are played in the same way.
LEMMA PlaySame ==
  ASSUME NEW p, NEW frames, NEW others, NEW m \in Nat,
         \A i \in 1..m : frames[i] = others[i]
  PROVE  PlayTo(p, frames, m) = PlayTo(p, others, m)
<1>1. PlayTo(p, frames, 0) = PlayTo(p, others, 0)
  BY PlayUnfolds
<1>2. 0 \in Nat /\ 0 <= m /\ \A i \in 0 + 1..m : frames[i] = others[i]
  OBVIOUS
<1> QED BY <1>1, <1>2, PlayFrom

\* Playing a frame.
LEMMA StepType ==
  ASSUME NEW p \in Plays, NEW f \in Frames
  PROVE  /\ Step(p, f) \in Plays /\ f.dur \in Nat
         /\ Step(p, f).shown = Draw(p.below, f)
         /\ Step(p, f).below = Dispose(Draw(p.below, f), f)
         /\ Step(p, f).ticks = p.ticks \o Ticks(f.dur, Draw(p.below, f))
<1> DEFINE canvas == Draw(p.below, f)
           below == Dispose(canvas, f)
           ticks == Ticks(f.dur, canvas)
<1>1. p.below \in Canvas /\ p.ticks \in Seq(Canvas)
  BY DEF Plays
<1>2. canvas \in Canvas /\ below \in Canvas /\ f.dur \in Nat
  <2>1. f.dur \in Nat
    BY DEF Frames
  <2> QED BY <1>1, <2>1, DrawType
<1>3. Step(p, f) = [below |-> below, shown |-> canvas, ticks |-> p.ticks \o ticks]
  BY Zenon DEF Step
<1> HIDE DEF canvas, below
<1>4. ticks \in Seq(Canvas)
  BY <1>2, TicksType
<1> HIDE DEF ticks
<1>5. Step(p, f) \in Plays
  BY <1>1, <1>2, <1>3, <1>4 DEF Plays
<1>6. /\ Step(p, f).shown = canvas /\ Step(p, f).below = below
      /\ Step(p, f).ticks = p.ticks \o ticks
  BY <1>3
<1> QED BY <1>2, <1>5, <1>6, Zenon DEF canvas, below, ticks

\* Playing some frames.
LEMMA PlayType ==
  ASSUME NEW p \in Plays, NEW frames, NEW m \in Nat, \A i \in 1..m : frames[i] \in Frames
  PROVE  \A n \in 0..m : PlayTo(p, frames, n) \in Plays
<1> DEFINE S == {n \in Nat : n <= m => PlayTo(p, frames, n) \in Plays}
<1>1. 0 \in S
  BY PlayUnfolds
<1>2. ASSUME NEW n \in Nat, n \in S PROVE n + 1 \in S
  <2> SUFFICES ASSUME n + 1 <= m PROVE PlayTo(p, frames, n + 1) \in Plays
    OBVIOUS
  <2>0. PICK l \in Nat : l = n + 1
    OBVIOUS
  <2>1. l \in 1..m /\ PlayTo(p, frames, n) \in Plays
    BY <1>2, <2>0
  <2>2. PlayTo(p, frames, l) = Step(PlayTo(p, frames, n), frames[l])
    BY <2>0, PlayNext
  <2>3. PlayTo(p, frames, l) \in Plays
    <3>1. frames[l] \in Frames
      BY <2>1
    <3> DEFINE q == PlayTo(p, frames, n)
               f == frames[l]
    <3>2. q \in Plays /\ f \in Frames
      BY <2>1, <3>1
    <3> HIDE DEF q, f
    <3>3. Step(q, f) \in Plays
      BY <3>2, StepType
    <3> QED BY <2>2, <3>3 DEF q, f
  <2> QED BY <2>0, <2>3
<1> HIDE DEF S
<1>3. \A n \in Nat : n \in S
  BY <1>1, <1>2, Induct
<1> QED BY <1>3 DEF S

\* Sequences of ticks can be regrouped.
LEMMA Regrouped ==
  ASSUME NEW h \in Seq(Canvas), NEW s \in Seq(Canvas), NEW t \in Seq(Canvas)
  PROVE  (h \o s) \o t = h \o (s \o t)
<1> DEFINE S == Canvas
<1>1. h \in Seq(S) /\ s \in Seq(S) /\ t \in Seq(S)
  OBVIOUS
<1> HIDE DEF S
<1> QED BY <1>1, ConcatAssociative

\* A picture shown for a while, then for a while longer.
LEMMA TicksAdd ==
  ASSUME NEW c \in Canvas, NEW m \in Nat, NEW n \in Nat
  PROVE  Ticks(m + n, c) = Ticks(m, c) \o Ticks(n, c)
<1> DEFINE s == Ticks(m, c)
           t == Ticks(n, c)
           u == Ticks(m + n, c)
<1>1. /\ s \in Seq(Canvas) /\ Len(s) = m /\ t \in Seq(Canvas) /\ Len(t) = n
      /\ u \in Seq(Canvas) /\ Len(u) = m + n
  BY TicksType
<1>2. /\ \A i \in 1..m : s[i] = c
      /\ \A i \in 1..n : t[i] = c
      /\ \A i \in 1..m + n : u[i] = c
  BY DEF Ticks
<1> HIDE DEF s, t, u
<1>3. s \o t \in Seq(Canvas) /\ Len(s \o t) = m + n
  BY <1>1
<1>4. \A i \in 1..m + n : (s \o t)[i] = u[i]
  BY <1>1, <1>2
<1>5. u = s \o t
  <2> DEFINE v == s \o t
  <2>1. v \in Seq(Canvas) /\ Len(v) = Len(u) /\ \A i \in 1..Len(v) : v[i] = u[i]
    BY <1>1, <1>3, <1>4
  <2> HIDE DEF v
  <2>2. u = v
    BY <1>1, <2>1, SeqEqual
  <2> QED BY <2>2 DEF v
<1> QED BY <1>5 DEF s, t, u

\* A picture shown for no time.
LEMMA NoTicks ==
  ASSUME NEW c, NEW s \in Seq(Canvas)
  PROVE  Ticks(0, c) = <<>> /\ s \o Ticks(0, c) = s
<1>1. Ticks(0, c) = <<>>
  BY DEF Ticks
<1> QED BY <1>1

\* What is left of two equal sequences when the front of one is taken away.
LEMMA FrontTaken ==
  ASSUME NEW S, NEW s \in Seq(S), NEW t \in Seq(S), NEW h \in Seq(S), NEW r \in Seq(S),
         s \o t = h \o r, Len(h) <= Len(s)
  PROVE  SubSeq(s, Len(h) + 1, Len(s)) \o t = r
<1> DEFINE n == Len(h)
           u == SubSeq(s, n + 1, Len(s))
<1>1. n \in Nat /\ Len(s) \in Nat /\ Len(t) \in Nat /\ Len(r) \in Nat /\ n <= Len(s)
  OBVIOUS
<1>2. u \in Seq(S) /\ Len(u) = Len(s) - n /\ \A i \in 1..Len(s) - n : u[i] = s[i + n]
  BY <1>1
<1>3. /\ Len(h \o r) = n + Len(r) /\ Len(s \o t) = Len(s) + Len(t)
      /\ \A i \in 1..n + Len(r) : (h \o r)[i] = IF i <= n THEN h[i] ELSE r[i - n]
      /\ \A i \in 1..Len(s) + Len(t) : (s \o t)[i] = IF i <= Len(s) THEN s[i] ELSE t[i - Len(s)]
  BY ConcatProperties
<1>4. /\ u \o t \in Seq(S) /\ Len(u \o t) = Len(u) + Len(t)
      /\ \A i \in 1..Len(u) + Len(t) : (u \o t)[i] = IF i <= Len(u) THEN u[i] ELSE t[i - Len(u)]
  BY <1>2, ConcatProperties
<1> HIDE DEF n, u
<1>5. Len(s) + Len(t) = n + Len(r) /\ Len(u \o t) = Len(r)
  BY <1>1, <1>2, <1>3, <1>4
<1>6. ASSUME NEW i \in 1..Len(r) PROVE (u \o t)[i] = r[i]
  <2>0. PICK k \in Nat : k = i + n
    BY <1>1
  <2>1. k \in 1..Len(s) + Len(t) /\ k \in 1..n + Len(r) /\ ~ (k <= n) /\ k - n = i
    BY <1>1, <1>5, <2>0
  <2>2. (s \o t)[k] = r[i]
    <3>1. (h \o r)[k] = r[k - n]
      BY <1>3, <2>1
    <3> QED BY <2>1, <3>1
  <2>3. (s \o t)[k] = IF k <= Len(s) THEN s[k] ELSE t[k - Len(s)]
    BY <1>3, <2>1
  <2>4. i \in 1..Len(u) + Len(t) /\ (k <= Len(s) <=> i <= Len(u)) /\ k - Len(s) = i - Len(u)
    BY <1>1, <1>2, <1>5, <2>0
  <2>5. (u \o t)[i] = IF i <= Len(u) THEN u[i] ELSE t[i - Len(u)]
    BY <1>4, <2>4
  <2>6. i <= Len(u) => u[i] = s[k]
    <3>1. i <= Len(u) => i \in 1..Len(s) - n
      BY <1>1, <1>2
    <3> QED BY <1>2, <2>0, <3>1
  <2>7. CASE i <= Len(u)
    BY <2>2, <2>3, <2>4, <2>5, <2>6, <2>7, Zenon
  <2>8. CASE ~ (i <= Len(u))
    BY <2>2, <2>3, <2>4, <2>5, <2>8, Zenon
  <2> QED BY <2>7, <2>8
<1>7. u \o t = r
  BY <1>4, <1>5, <1>6, SeqEqual
<1> QED BY <1>7 DEF n, u

\* Playing from the second frame on, after the first one.
FrontPlayed(p, q, frames, rest, m, first) ==
  /\ p \in Plays /\ p.ticks = <<>> /\ q \in Plays /\ q.ticks = <<>>
  /\ \A i \in 1..m + 1 : frames[i] \in Frames
  /\ \A i \in 1..m : rest[i] = frames[i + 1]
  /\ first = Step(p, frames[1]) /\ q.below = first.below /\ q.shown = first.shown

PlaysBehind(p, q, frames, rest, m, first) ==
  \A n \in 0..m :
    LET a == PlayTo(p, frames, n + 1)
        b == PlayTo(q, rest, n)
    IN a.below = b.below /\ a.shown = b.shown /\ a.ticks = first.ticks \o b.ticks

\* A player of all the frames and a player of those after the first.
LEMMA PlayPushed ==
  ASSUME NEW p, NEW q, NEW frames, NEW rest, NEW m \in Nat, NEW first,
         FrontPlayed(p, q, frames, rest, m, first)
  PROVE  PlaysBehind(p, q, frames, rest, m, first)
<1> USE DEF FrontPlayed
<1> DEFINE Same(a, b) ==
             a.below = b.below /\ a.shown = b.shown /\ a.ticks = first.ticks \o b.ticks
           S == {n \in Nat : n <= m => Same(PlayTo(p, frames, n + 1), PlayTo(q, rest, n))}
<1>0. first \in Plays /\ first.ticks \in Seq(Canvas)
  <2>1. 1 \in 1..m + 1
    OBVIOUS
  <2>2. first \in Plays
    BY <2>1, StepType
  <2> QED BY <2>2 DEF Plays
<1>1. 0 \in S
  <2>1. PlayTo(q, rest, 0) = q /\ PlayTo(p, frames, 0) = p
    BY PlayUnfolds
  <2>2. PlayTo(p, frames, 1) = Step(PlayTo(p, frames, 0), frames[1])
    <3>1. 0 \in Nat /\ 1 = 0 + 1
      OBVIOUS
    <3> QED BY <3>1, PlayNext
  <2>3. PlayTo(p, frames, 0 + 1) = first
    BY <2>1, <2>2
  <2>4. first.ticks = first.ticks \o q.ticks
    BY <1>0
  <2>5. Same(PlayTo(p, frames, 0 + 1), PlayTo(q, rest, 0))
    BY <2>1, <2>3, <2>4
  <2> QED BY <2>5
<1>2. ASSUME NEW n \in Nat, n \in S PROVE n + 1 \in S
  <2> HIDE DEF Same
  <2> SUFFICES ASSUME n + 1 <= m
               PROVE  Same(PlayTo(p, frames, (n + 1) + 1), PlayTo(q, rest, n + 1))
    OBVIOUS
  <2> USE DEF Same
  <2>0. PICK k \in Nat, l \in Nat : k = n + 1 /\ l = k + 1
    OBVIOUS
  <2>1. k \in 1..m /\ l \in 1..m + 1 /\ k \in 1..m + 1 /\ k \in 0..m + 1 /\ n \in 0..m /\ n <= m
    BY <2>0
  <2> DEFINE a == PlayTo(p, frames, k)
             b == PlayTo(q, rest, n)
             f == frames[l]
  <2>2. a \in Plays
    <3>1. m + 1 \in Nat
      OBVIOUS
    <3> QED BY <2>1, <3>1, PlayType
  <2>3. b \in Plays
    <3>1. \A i \in 1..m : rest[i] \in Frames
      <4>1. \A i \in 1..m : i + 1 \in 1..m + 1
        OBVIOUS
      <4> QED BY <4>1
    <3> QED BY <2>1, <3>1, PlayType
  <2>4. Same(a, b)
    BY <1>2, <2>0, <2>1
  <2>5. f \in Frames /\ rest[k] = f
    BY <2>0, <2>1
  <2>6. PlayTo(p, frames, l) = Step(a, f)
    BY <2>0, PlayNext
  <2>7. PlayTo(q, rest, k) = Step(b, f)
    <3>1. PlayTo(q, rest, k) = Step(PlayTo(q, rest, n), rest[k])
      BY <2>0, PlayNext
    <3> QED BY <2>5, <3>1, Zenon
  <2> HIDE DEF a, b, f
  <2>8. /\ Step(a, f).below = Step(b, f).below /\ Step(a, f).shown = Step(b, f).shown
        /\ Step(a, f).ticks = a.ticks \o Ticks(f.dur, Draw(a.below, f))
        /\ Step(b, f).ticks = b.ticks \o Ticks(f.dur, Draw(a.below, f))
        /\ f.dur \in Nat /\ Draw(a.below, f) \in Canvas
    <3>1. /\ f.dur \in Nat
          /\ Step(a, f).shown = Draw(a.below, f)
          /\ Step(a, f).below = Dispose(Draw(a.below, f), f)
          /\ Step(a, f).ticks = a.ticks \o Ticks(f.dur, Draw(a.below, f))
      BY <2>2, <2>5, StepType
    <3>2. /\ Step(b, f).shown = Draw(b.below, f)
          /\ Step(b, f).below = Dispose(Draw(b.below, f), f)
          /\ Step(b, f).ticks = b.ticks \o Ticks(f.dur, Draw(b.below, f))
      BY <2>3, <2>5, StepType
    <3>3. a.below \in Canvas
      BY <2>2 DEF Plays
    <3>4. Draw(a.below, f) \in Canvas
      BY <2>5, <3>3, DrawType
    <3>5. a.below = b.below
      BY <2>4
    <3> QED BY <3>1, <3>2, <3>4, <3>5, Zenon
  <2>9. Step(a, f).ticks = first.ticks \o Step(b, f).ticks
    <3> DEFINE t == Ticks(f.dur, Draw(a.below, f))
    <3> DEFINE head == first.ticks
               middle == b.ticks
    <3>1. t \in Seq(Canvas) /\ b.ticks \in Seq(Canvas)
      BY <2>3, <2>8, TicksType DEF Plays
    <3>2. /\ Step(a, f).ticks = a.ticks \o t /\ Step(b, f).ticks = b.ticks \o t
          /\ a.ticks = first.ticks \o b.ticks
      BY <2>4, <2>8
    <3> HIDE DEF t
    <3>3. head \in Seq(Canvas) /\ middle \in Seq(Canvas) /\ t \in Seq(Canvas)
      BY <1>0, <3>1
    <3> HIDE DEF head, middle
    <3>4. (head \o middle) \o t = head \o (middle \o t)
      BY <3>3, Regrouped
    <3> QED BY <3>2, <3>4 DEF head, middle
  <2>10. Same(Step(a, f), Step(b, f))
    BY <2>8, <2>9
  <2> HIDE DEF Same
  <2> QED BY <2>0, <2>6, <2>7, <2>10, Zenon
<1> HIDE DEF S, Same
<1>3. \A n \in Nat : n \in S
  BY <1>1, <1>2, Induct
<1>4. \A n \in 0..m : Same(PlayTo(p, frames, n + 1), PlayTo(q, rest, n))
  BY <1>3 DEF S
<1> QED BY <1>4 DEF Same, PlaysBehind

\* Played() plays all its frames.
LEMMA PlayedIs ==
  ASSUME NEW frames
  PROVE  Played(frames) = PlayTo(Begin, frames, Len(frames))
BY Zenon DEF Played, PlayTo, Begin, Step

-----------------------------------------------------------------------------
(* What is played is what was added.                                       *)

\* The frames that wait, and a player of them.
LEMMA WaitingFacts ==
  ASSUME TypeInv
  PROVE  /\ Count \in Nat /\ Len(Waiting) = Count
         /\ \A i \in 1..Count : Waiting[i] = Chosen(cached[i]) /\ Waiting[i] \in Frames
         /\ Begin \in Plays /\ Begin.ticks = <<>>
         /\ Begin.below = muxed.below /\ Begin.shown = muxed.shown
         /\ \A n \in 0..Count : At(n) \in Plays
<1>1. Count \in Nat /\ \A i \in 1..Count : cached[i] \in Entries
  BY CachedTypes
<1>2. \A i \in 1..Count : Waiting[i] = Chosen(cached[i]) /\ Waiting[i] \in Frames
  <2>1. ASSUME NEW i \in 1..Count PROVE Waiting[i] = Chosen(cached[i]) /\ Waiting[i] \in Frames
    <3>1. Waiting[i] = Chosen(cached[i])
      BY Zenon DEF Waiting
    <3> QED BY <1>1, <3>1, Zenon DEF Entries
  <2> QED BY <2>1
<1>3. Len(Waiting) = Count
  BY <1>1 DEF Waiting
<1>4. /\ Begin \in Plays /\ Begin.ticks = <<>>
      /\ Begin.below = muxed.below /\ Begin.shown = muxed.shown
  <2>1. muxed.below \in Canvas /\ muxed.shown \in Canvas
    BY DEF TypeInv
  <2> QED BY <2>1 DEF Begin, Plays
<1>5. \A n \in 0..Count : At(n) \in Plays
  BY <1>1, <1>2, <1>4, PlayType DEF At
<1> QED BY <1>1, <1>2, <1>3, <1>4, <1>5

\* The last frame played.
LEMMA LastPlayed ==
  ASSUME BaseInv, Count > 0
  PROVE  /\ Chosen(Last) = Waiting[Count] /\ Chosen(Last) \in Frames /\ Last \in Entries
         /\ Last = cached[Count]
         /\ At(Count) = Step(At(Count - 1), Chosen(Last)) /\ At(Count - 1) \in Plays
         /\ At(Count) \in Plays
         /\ At(Count).below = Dispose(At(Count).shown, Chosen(Last))
<1>1. TypeInv
  BY DEF BaseInv
<1>2. Count \in Nat /\ Count \in 1..Count /\ Count - 1 \in Nat /\ Count = (Count - 1) + 1
      /\ Count - 1 \in 0..Count /\ Count \in 0..Count
  BY <1>1, WaitingFacts
<1>3. /\ Waiting[Count] = Chosen(cached[Count]) /\ Waiting[Count] \in Frames
      /\ At(Count - 1) \in Plays /\ At(Count) \in Plays
      /\ cached[Count] \in Entries
  BY <1>1, <1>2, WaitingFacts, CachedTypes
<1>4. At(Count) = Step(At(Count - 1), Waiting[Count])
  BY <1>2, PlayNext DEF At
<1> DEFINE p == At(Count - 1)
           f == Waiting[Count]
<1>5. p \in Plays /\ f \in Frames
  BY <1>3
<1> HIDE DEF p, f
<1>6. Step(p, f).below = Dispose(Step(p, f).shown, f)
  BY <1>5, StepType
<1> QED BY <1>3, <1>4, <1>6, Zenon DEF p, f, Last

\* What the player has after the last frame that waits.
LEMMA LastBelow ==
  ASSUME BaseInv, PlayInv, ~failed, ~isFirst, Count > 0
  PROVE  At(Count).below = latest /\ latest = prevCanvas /\ At(Count).shown = latest
<1>1. At(Count).shown = latest /\ ~Chosen(Last).dispose /\ prevCanvas = latest
  BY DEF PlayInv, ShownInv, LastInv, PrevInv
<1>2. At(Count).below = Dispose(At(Count).shown, Chosen(Last))
  BY LastPlayed
<1> QED BY <1>1, <1>2 DEF Dispose

\* The frames that stay are played as before.
LEMMA StillPlayed ==
  ASSUME muxed' = muxed, NEW n \in Nat, \A i \in 1..n : Waiting'[i] = Waiting[i]
  PROVE  At(n)' = At(n) /\ PlayTo(Begin', Waiting', n) = At(n)
<1>1. Begin' = Begin
  BY DEF Begin
<1>2. PlayTo(Begin, Waiting', n) = PlayTo(Begin, Waiting, n)
  BY PlaySame
<1> QED BY <1>1, <1>2 DEF At

\* The frames that wait are played as before when no entry changes.
LEMMA SameFrames ==
  ASSUME muxed' = muxed, cached' = cached
  PROVE  Count' = Count /\ Waiting' = Waiting /\ Last' = Last
         /\ \A n : At(n)' = At(n)
BY DEF Count, Waiting, Last, At, Begin

\* Nor do the variants of the frame that may be demoted change.
LEMMA SameKey ==
  ASSUME KeyInv, UNCHANGED <<muxed, cached, keyframe, undecided>>
  PROVE  KeyInv'
BY SameFrames DEF KeyInv, GetFrame

\* The new encoder.
LEMMA InitPlays == Init => PlayInv
<1> SUFFICES ASSUME Init PROVE PlayInv
  OBVIOUS
<1>1. Count = 0 /\ failed = FALSE /\ isFirst = TRUE /\ keyframe = -1 /\ due = <<>> /\ extra = 0
      /\ muxed.below = Blank /\ prevCanvas = Blank /\ pc = "idle"
  BY DEF Init, Count
<1>2. At(Count) = Begin
  BY <1>1, PlayUnfolds DEF At
<1>3. TicksInv
  <2>1. Ticks(0, latest) = <<>>
    BY DEF Ticks
  <2> QED BY <1>1, <1>2, <2>1 DEF TicksInv, Begin
<1> QED BY <1>1, <1>3 DEF PlayInv, StopInv, FirstInv, ShownInv, PrevInv, LastInv, ExtraInv,
                          KeyInv

\* The end of the animation is announced.
LEMMA NullPlays == BaseInv /\ PlayInv /\ NullFrame => PlayInv'
<1> SUFFICES ASSUME BaseInv, PlayInv, NullFrame PROVE PlayInv'
  OBVIOUS
<1>1. /\ pc = "cache" /\ pc' = "idle" /\ due' = due \o Ticks(extra, latest) /\ extra' = 0
      /\ UNCHANGED <<keyframe, undecided, isFirst, muxed, latest, prevCanvas, prevRect,
                     cached, failed>>
  BY DEF NullFrame, Confirm, control
<1>2. Count' = Count /\ Last' = Last /\ At(Count)' = At(Count)
  BY <1>1, SameFrames
<1>3. KeyInv'
  BY <1>1, SameKey DEF PlayInv
<1>4. due' \in Seq(Canvas)
  BY ConfirmType DEF BaseInv, NullFrame
<1>5. due' = due' \o Ticks(0, latest)
  BY <1>4, NoTicks
<1>6. TicksInv'
  BY <1>1, <1>2, <1>5 DEF PlayInv, TicksInv
<1>7. FirstInv'
  <2>1. isFirst => due' = <<>>
    <3>1. Ticks(0, latest) = <<>>
      BY DEF Ticks
    <3> QED BY <1>1, <3>1 DEF PlayInv, FirstInv
  <2> QED BY <1>1, <2>1 DEF PlayInv, FirstInv
<1>8. ShownInv' /\ PrevInv' /\ LastInv'
  BY <1>1, <1>2 DEF PlayInv, ShownInv, PrevInv, LastInv
<1>9. StopInv' /\ ExtraInv'
  BY <1>1 DEF PlayInv, StopInv, ExtraInv
<1> QED BY <1>3, <1>6, <1>7, <1>8, <1>9 DEF PlayInv

\* A failure that leaves the entries alone.
LEMMA FailedPlays ==
  ASSUME BaseInv, PlayInv, failed' = TRUE, pc' \in {"idle", "done"},
         UNCHANGED <<keyframe, undecided, isFirst, muxed, latest, prevCanvas, due, extra,
                     cached>>
  PROVE  PlayInv'
<1>1. Count' = Count /\ Last' = Last /\ At(Count)' = At(Count)
  BY SameFrames
<1>2. KeyInv'
  BY SameKey DEF PlayInv
<1>3. FirstInv' /\ TicksInv' /\ ShownInv'
  BY <1>1 DEF PlayInv, FirstInv, TicksInv, ShownInv
<1> QED BY <1>2, <1>3 DEF PlayInv, StopInv, PrevInv, LastInv, ExtraInv

\* A picture of another size.
LEMMA WrongPlays == BaseInv /\ PlayInv /\ WrongFrame => PlayInv'
<1> SUFFICES ASSUME BaseInv, PlayInv, WrongFrame PROVE PlayInv'
  OBVIOUS
<1>1. /\ pc' = "idle" /\ failed' = TRUE
      /\ UNCHANGED <<keyframe, undecided, isFirst, muxed, due, extra, latest, prevCanvas,
                     cached>>
  BY DEF WrongFrame, control, flags, history
<1> QED BY <1>1, FailedPlays

\* The mux refuses a frame.
LEMMA PushFailsPlays == BaseInv /\ PlayInv /\ PushFails => PlayInv'
<1> SUFFICES ASSUME BaseInv, PlayInv, PushFails PROVE PlayInv'
  OBVIOUS
<1>1. /\ pc' \in {"idle", "done"} /\ failed' = TRUE
      /\ UNCHANGED <<keyframe, undecided, isFirst, muxed, due, extra, latest, prevCanvas,
                     cached>>
  BY DEF PushFails, control, flags, history
<1> QED BY <1>1, FailedPlays

\* FlushFrames() ends.
LEMMA FlushDonePlays == BaseInv /\ PlayInv /\ FlushDone => PlayInv'
<1> SUFFICES ASSUME BaseInv, PlayInv, FlushDone PROVE PlayInv'
  OBVIOUS
<1>1. /\ pc \in {"room", "flush", "assemble"}
      /\ pc = "room" => pc' = "cache"
      /\ pc = "flush" => pc' = "idle"
      /\ pc = "assemble" => pc' = "done"
      /\ UNCHANGED <<keyframe, undecided, isFirst, muxed, due, extra, latest, prevCanvas,
                     prevRect, cached, failed>>
  BY DEF FlushDone, Flushing, flags, history
<1>2. Count' = Count /\ Last' = Last /\ At(Count)' = At(Count)
  BY <1>1, SameFrames
<1>3. KeyInv'
  BY <1>1, SameKey DEF PlayInv
<1>4. FirstInv' /\ TicksInv' /\ ShownInv' /\ PrevInv' /\ LastInv'
  BY <1>1, <1>2 DEF PlayInv, FirstInv, TicksInv, ShownInv, PrevInv, LastInv
<1>5. StopInv' /\ ExtraInv'
  BY <1>1, <1>2 DEF PlayInv, StopInv, ExtraInv
<1> QED BY <1>3, <1>4, <1>5 DEF PlayInv

\* The picture is the previous one.
LEMMA SkipPlays == BaseInv /\ PlayInv /\ Skip => PlayInv'
<1> SUFFICES ASSUME BaseInv, PlayInv, Skip PROVE PlayInv'
  OBVIOUS
<1>1. /\ Caching /\ ~isFirst /\ Accept /\ pc = "cache" /\ Candidates(input.canvas, FALSE) = {}
      /\ due' = due \o Ticks(extra, latest)
      /\ UNCHANGED <<keyframe, undecided, isFirst, prevCanvas, prevRect, cached>>
  BY DEF Skip, Caching, Accept, Confirm
<1>2. /\ pc' = "flush" /\ extra' = 0 /\ due' \in Seq(Canvas) /\ latest' = input.canvas
      /\ muxed' = muxed /\ failed' = failed
  BY <1>1, Accepted
<1>3. ~failed
  BY <1>1 DEF PlayInv, StopInv
<1>4. latest' = latest
  <2>1. /\ input.canvas \in Canvas /\ prevCanvas \in Canvas /\ isFirst \in BOOLEAN
    BY <1>1, CachingFacts
  <2>2. prevCanvas = input.canvas
    BY <1>1, <2>1, NoCandidates
  <2> QED BY <1>1, <1>2, <1>3, <2>2 DEF PlayInv, PrevInv
<1>5. Count' = Count /\ Last' = Last /\ At(Count)' = At(Count)
  BY <1>1, <1>2, SameFrames
<1>6. KeyInv'
  BY <1>1, <1>2, SameKey DEF PlayInv
<1>7. due' = due' \o Ticks(0, latest)
  BY <1>2, NoTicks
<1>8. TicksInv'
  BY <1>1, <1>2, <1>4, <1>5, <1>7 DEF PlayInv, TicksInv
<1>9. FirstInv' /\ ShownInv' /\ PrevInv' /\ LastInv'
  BY <1>1, <1>2, <1>4, <1>5 DEF PlayInv, FirstInv, ShownInv, PrevInv, LastInv
<1>10. StopInv' /\ ExtraInv'
  BY <1>2, <1>3 DEF StopInv, ExtraInv
<1> QED BY <1>6, <1>8, <1>9, <1>10 DEF PlayInv

\* The frame that is played last lasts longer.
LEMMA LongerStep ==
  ASSUME NEW p \in Plays, NEW f \in Frames, NEW g \in Frames, NEW d \in Nat,
         Alike(f, g), g.dispose = f.dispose, g.dur = f.dur + d
  PROVE  /\ Step(p, g).below = Step(p, f).below /\ Step(p, g).shown = Step(p, f).shown
         /\ Step(p, g).ticks = Step(p, f).ticks \o Ticks(d, Step(p, f).shown)
<1> DEFINE canvas == Draw(p.below, f)
           m == f.dur
<1>1. /\ Step(p, f).shown = canvas /\ Step(p, f).below = Dispose(canvas, f)
      /\ Step(p, f).ticks = p.ticks \o Ticks(m, canvas) /\ m \in Nat
      /\ Step(p, g).shown = Draw(p.below, g) /\ Step(p, g).below = Dispose(Draw(p.below, g), g)
      /\ Step(p, g).ticks = p.ticks \o Ticks(g.dur, Draw(p.below, g))
  BY StepType
<1>2. p.below \in Canvas /\ p.ticks \in Seq(Canvas)
  BY DEF Plays
<1>3. Draw(p.below, g) = canvas /\ Clear(canvas, g) = Clear(canvas, f)
  BY AlikeDrawn
<1>4. canvas \in Canvas
  BY <1>2, DrawType
<1>5. Dispose(canvas, g) = Dispose(canvas, f)
  BY <1>3, Zenon DEF Dispose
<1> HIDE DEF canvas, m
<1>6. Step(p, g).ticks = p.ticks \o Ticks(m + d, canvas)
  BY <1>1, <1>3, Zenon DEF m
<1>7. Ticks(m + d, canvas) = Ticks(m, canvas) \o Ticks(d, canvas)
  BY <1>1, <1>4, TicksAdd
<1>8. Ticks(m, canvas) \in Seq(Canvas) /\ Ticks(d, canvas) \in Seq(Canvas)
  BY <1>1, <1>4, TicksType
<1> DEFINE s == Ticks(m, canvas)
           t == Ticks(d, canvas)
           h == p.ticks
<1>9. s \in Seq(Canvas) /\ t \in Seq(Canvas) /\ h \in Seq(Canvas)
  BY <1>2, <1>8
<1> HIDE DEF s, t, h
<1>10. (h \o s) \o t = h \o (s \o t)
  BY <1>9, Regrouped
<1>11. Step(p, g).ticks = (p.ticks \o s) \o t
  BY <1>6, <1>7, <1>10 DEF s, t, h
<1> QED BY <1>1, <1>3, <1>5, <1>11 DEF s, t

\* A frame that changes nothing, after a frame that is not disposed of.
LEMMA FillerStep ==
  ASSUME NEW p \in Plays, NEW f \in Frames, f.dispose = FALSE, NEW d \in Nat, f.dur = d,
         \A b \in Canvas : Draw(b, f) = b
  PROVE  /\ Step(p, f).shown = p.below /\ Step(p, f).below = p.below
         /\ Step(p, f).ticks = p.ticks \o Ticks(d, p.below)
<1>1. p.below \in Canvas
  BY DEF Plays
<1>2. /\ Step(p, f).shown = Draw(p.below, f) /\ Step(p, f).below = Dispose(Draw(p.below, f), f)
      /\ Step(p, f).ticks = p.ticks \o Ticks(f.dur, Draw(p.below, f))
  BY StepType
<1> QED BY <1>1, <1>2 DEF Dispose

\* IncreasePreviousDuration() shows the last picture for longer.
LEMMA IncreasedPlays ==
  ASSUME BaseInv, PlayInv, ~failed, ~isFirst, Count > 0, extra = 0, NEW d \in Nat,
         IncreasePreviousDuration(d), UNCHANGED <<muxed, keyframe, latest, failed>>
  PROVE  /\ At(Count)'.ticks = due \o Ticks(d, latest) /\ At(Count)'.shown = latest
         /\ LastInv' /\ KeyInv' /\ d <= Chosen(Last)'.dur
<1>1. /\ TypeInv /\ OptionsInv /\ Count \in Nat /\ Count \in 1..Count /\ undecided \in BOOLEAN
      /\ keyframe \in -1..Count - 1 /\ due \in Seq(Canvas) /\ latest \in Canvas
  BY CachedTypes DEF BaseInv, TypeInv
<1>2. \/ /\ Overflows(d) /\ Len(cached') = Count + 1
         /\ \A i \in 1..Count : cached'[i] = cached[i]
         /\ cached'[Count + 1] = Filler(d)
         /\ undecided' = FALSE /\ prevRect' = [x |-> 0, w |-> 1]
      \/ /\ ~Overflows(d) /\ Len(cached') = Count
         /\ \A i \in 1..Count - 1 : cached'[i] = cached[i]
         /\ cached'[Count] = Extend(cached[Count], d)
         /\ UNCHANGED <<undecided, prevRect>>
  BY <1>1, Increased, Zenon
<1>3. Count' = Len(cached')
  BY DEF Count
<1>4. /\ Chosen(Last) = Waiting[Count] /\ Chosen(Last) \in Frames /\ Last \in Entries
      /\ Last = cached[Count]
      /\ At(Count) = Step(At(Count - 1), Chosen(Last)) /\ At(Count - 1) \in Plays
      /\ At(Count) \in Plays
      /\ At(Count).below = latest /\ At(Count).shown = latest
  BY LastPlayed, LastBelow
<1>5. At(Count).ticks = due
  BY <1>1, NoTicks DEF PlayInv, TicksInv
<1>6. \A i \in 1..Count' : Waiting'[i] = Chosen(cached'[i])
  BY Zenon DEF Waiting
<1>7. \A i \in 1..Count : Waiting[i] = Chosen(cached[i])
  BY <1>1, WaitingFacts
<1>8. CASE /\ Len(cached') = Count + 1
           /\ \A i \in 1..Count : cached'[i] = cached[i]
           /\ cached'[Count + 1] = Filler(d)
           /\ undecided' = FALSE /\ prevRect' = [x |-> 0, w |-> 1]
  <2> DEFINE e == Filler(d)
             f == e.sub
  <2>1. /\ e \in Entries /\ Chosen(e) = f /\ f.dur = d /\ f.dispose = FALSE
        /\ f.x = 0 /\ f.w = 1 /\ \A b \in Canvas : Draw(b, f) = b
    BY FillerRight
  <2> HIDE DEF e, f
  <2>2. f \in Frames
    BY <2>1, EntryParts
  <2>3. \A i \in 1..Count : Waiting'[i] = Waiting[i]
    BY <1>1, <1>3, <1>6, <1>7, <1>8
  <2>4. Count' = Count + 1 /\ Count + 1 \in 1..Count' /\ Last' = e
    BY <1>1, <1>3, <1>8 DEF Last, e
  <2>5. Waiting'[Count + 1] = f
    BY <1>6, <1>8, <2>1, <2>4 DEF e
  <2>6. PlayTo(Begin', Waiting', Count) = At(Count)
    BY <1>1, <2>3, StillPlayed
  <2>7. PlayTo(Begin', Waiting', Count') = Step(At(Count), f)
    <3>1. PlayTo(Begin', Waiting', Count') = Step(PlayTo(Begin', Waiting', Count), Waiting'[Count'])
      BY <1>1, <2>4, PlayNext
    <3> QED BY <2>4, <2>5, <2>6, <3>1, Zenon
  <2>8. At(Count)' = Step(At(Count), f)
    BY <2>7 DEF At
  <2>9. /\ Step(At(Count), f).shown = At(Count).below
        /\ Step(At(Count), f).ticks = At(Count).ticks \o Ticks(d, At(Count).below)
    <3> DEFINE p == At(Count)
    <3>1. p \in Plays
      BY <1>4
    <3> HIDE DEF p
    <3>2. Step(p, f).shown = p.below /\ Step(p, f).ticks = p.ticks \o Ticks(d, p.below)
      BY <2>1, <2>2, <3>1, FillerStep
    <3> QED BY <3>2 DEF p
  <2>10. LastInv'
    <3>1. Chosen(Last)' = f
      BY <2>1, <2>4 DEF Chosen
    <3> QED BY <1>8, <2>1, <3>1 DEF LastInv
  <2>11. KeyInv'
    <3> SUFFICES ASSUME keyframe # -1
                 PROVE  LET e1 == GetFrame(keyframe)'
                            b == At(keyframe)'.below
                        IN /\ Draw(b, e1.sub) = Draw(b, e1.key)
                           /\ ~e1.sub.dispose /\ ~e1.key.dispose
                           /\ keyframe = Count' - 1 => undecided'
      BY DEF KeyInv
    <3>1. keyframe \in Nat /\ keyframe + 1 \in 1..Count /\ keyframe # Count' - 1
      BY <1>1, <2>4
    <3>2. At(keyframe)' = At(keyframe)
      <4>1. \A i \in 1..keyframe : Waiting'[i] = Waiting[i]
        BY <1>1, <2>3, <3>1
      <4> QED BY <3>1, <4>1, StillPlayed
    <3>3. GetFrame(keyframe)' = GetFrame(keyframe)
      BY <1>8, <3>1 DEF GetFrame
    <3> QED BY <3>1, <3>2, <3>3 DEF PlayInv, KeyInv
  <2>12. d <= Chosen(Last)'.dur
    <3>1. Chosen(Last)' = f
      BY <2>1, <2>4 DEF Chosen
    <3> QED BY <2>1, <3>1
  <2> QED BY <1>4, <1>5, <2>8, <2>9, <2>10, <2>11, <2>12
<1>9. CASE /\ Len(cached') = Count
           /\ \A i \in 1..Count - 1 : cached'[i] = cached[i]
           /\ cached'[Count] = Extend(cached[Count], d)
           /\ UNCHANGED <<undecided, prevRect>>
  <2> DEFINE e == cached[Count]
             g == cached'[Count]
             f == Chosen(e)
             h == Chosen(g)
             p == At(Count - 1)
  <2>1. e \in Entries /\ g = Extend(e, d)
    BY <1>4, <1>9
  <2>2. f \in Frames /\ p \in Plays /\ f.dur \in Nat
    <3>1. f \in Frames /\ p \in Plays
      BY <1>4 DEF Last
    <3> HIDE DEF f, p
    <3> QED BY <3>1 DEF Frames
  <2> HIDE DEF e, g
  <2>3. /\ g \in Entries /\ g.isKey = e.isKey
        /\ h.dur = f.dur + d /\ h.dispose = f.dispose /\ Alike(f, h)
        /\ BothFrames(e) => /\ BothFrames(g)
                            /\ Alike(e.sub, g.sub) /\ g.sub.dispose = e.sub.dispose
                            /\ Alike(e.key, g.key) /\ g.key.dispose = e.key.dispose
    BY <2>1, Extended
  <2>4. h \in Frames
    BY <2>3, EntryParts
  <2> HIDE DEF f, h, p
  <2>5. Count' = Count /\ Count - 1 \in Nat /\ Last' = g /\ Chosen(Last)' = h /\ Chosen(Last) = f
        /\ Last = e /\ Count = (Count - 1) + 1 /\ Count \in 1..Count'
    BY <1>1, <1>3, <1>9 DEF Last, g, h, f, e, Chosen
  <2>6. /\ \A i \in 1..Count - 1 : Waiting'[i] = Waiting[i]
        /\ Waiting'[Count] = h
    <3>1. \A i \in 1..Count - 1 : i \in 1..Count /\ i \in 1..Count'
      BY <1>1, <2>5
    <3>2. \A i \in 1..Count - 1 : Waiting'[i] = Waiting[i]
      BY <1>6, <1>7, <1>9, <3>1
    <3> QED BY <1>6, <2>5, <3>2 DEF g, h
  <2>7. PlayTo(Begin', Waiting', Count - 1) = p
    BY <2>5, <2>6, StillPlayed DEF p
  <2>8. At(Count)' = Step(p, h)
    <3>1. PlayTo(Begin', Waiting', Count)
            = Step(PlayTo(Begin', Waiting', Count - 1), Waiting'[Count])
      BY <2>5, PlayNext
    <3>2. PlayTo(Begin', Waiting', Count') = Step(p, h)
      BY <2>5, <2>6, <2>7, <3>1, Zenon
    <3> QED BY <3>2 DEF At
  <2>9. At(Count) = Step(p, f)
    BY <1>4, <2>5, Zenon DEF p
  <2>10. /\ Step(p, h).shown = Step(p, f).shown
         /\ Step(p, h).ticks = Step(p, f).ticks \o Ticks(d, Step(p, f).shown)
    BY <2>2, <2>3, <2>4, LongerStep
  <2>11. LastInv'
    <3>1. /\ ~f.dispose /\ (undecided => ~e.sub.dispose /\ ~e.key.dispose)
          /\ ~undecided => f.x = prevRect.x /\ f.w = prevRect.w
      BY <2>5 DEF PlayInv, LastInv
    <3>2. ~h.dispose /\ h.x = f.x /\ h.w = f.w
      BY <2>3, <3>1 DEF Alike
    <3>3. undecided => BothFrames(e)
      BY <2>5 DEF BaseInv, EntriesInv, Last
    <3>4. /\ undecided' => ~g.sub.dispose /\ ~g.key.dispose
          /\ ~undecided' => h.x = prevRect'.x /\ h.w = prevRect'.w
      BY <1>9, <2>3, <3>1, <3>2, <3>3
    <3> QED BY <2>5, <3>2, <3>4 DEF LastInv
  <2>12. KeyInv'
    <3> SUFFICES ASSUME keyframe # -1
                 PROVE  LET e1 == GetFrame(keyframe)'
                            b == At(keyframe)'.below
                        IN /\ Draw(b, e1.sub) = Draw(b, e1.key)
                           /\ ~e1.sub.dispose /\ ~e1.key.dispose
                           /\ keyframe = Count' - 1 => undecided'
      BY DEF KeyInv
    <3>1. keyframe \in Nat /\ keyframe + 1 \in 1..Count /\ keyframe <= Count - 1
      BY <1>1
    <3>2. At(keyframe)' = At(keyframe)
      <4>1. \A i \in 1..keyframe : Waiting'[i] = Waiting[i]
        BY <1>1, <2>6, <3>1
      <4> QED BY <3>1, <4>1, StillPlayed
    <3>3. CASE keyframe + 1 # Count
      <4>1. keyframe + 1 \in 1..Count - 1 /\ keyframe # Count' - 1
        BY <1>1, <2>5, <3>1, <3>3
      <4>2. GetFrame(keyframe)' = GetFrame(keyframe)
        BY <1>9, <4>1 DEF GetFrame
      <4> QED BY <3>2, <4>1, <4>2 DEF PlayInv, KeyInv
    <3>4. CASE keyframe + 1 = Count
      <4> DEFINE b == At(keyframe).below
      <4>1. GetFrame(keyframe)' = g /\ GetFrame(keyframe) = e
        BY <3>4 DEF GetFrame, g, e
      <4>2. BothFrames(e) /\ Draw(b, e.sub) = Draw(b, e.key)
            /\ ~e.sub.dispose /\ ~e.key.dispose /\ undecided
        BY <3>1, <3>4, <4>1 DEF PlayInv, KeyInv, BaseInv, EntriesInv
      <4> HIDE DEF b
      <4>3. Draw(b, g.sub) = Draw(b, e.sub) /\ Draw(b, g.key) = Draw(b, e.key)
        BY <2>3, <4>2, AlikeDrawn
      <4>4. ~g.sub.dispose /\ ~g.key.dispose
        BY <2>3, <4>2
      <4> QED BY <1>9, <3>2, <4>1, <4>2, <4>3, <4>4 DEF b
    <3> QED BY <3>3, <3>4
  <2>13. d <= h.dur
    BY <2>2, <2>3
  <2> QED BY <1>4, <1>5, <2>5, <2>8, <2>9, <2>10, <2>11, <2>12, <2>13
<1> QED BY <1>2, <1>8, <1>9

\* WebPAnimEncoderAdd() up to the call of CacheFrame().
LEMMA AddPlays ==
  ASSUME ~UseAfterError, BaseInv, PlayInv, NEW p \in Pictures,
         NEW d \in 0..MaxDuration - 1, Add(p, d)
  PROVE  PlayInv'
<1>1. /\ pc = "idle" /\ ~failed
      /\ UNCHANGED <<keyframe, isFirst, muxed, due, latest, prevCanvas, failed>>
  BY DEF Add
<1>2. CASE isFirst
  <2>1. pc' = "cache" /\ UNCHANGED <<cached, undecided, prevRect, extra>>
    BY <1>2, Zenon DEF Add
  <2>2. Count' = Count /\ Last' = Last /\ At(Count)' = At(Count)
    BY <1>1, <2>1, SameFrames
  <2>3. KeyInv'
    BY <1>1, <2>1, SameKey DEF PlayInv
  <2>4. FirstInv' /\ TicksInv' /\ ShownInv' /\ PrevInv' /\ LastInv'
    BY <1>1, <2>1, <2>2 DEF PlayInv, FirstInv, TicksInv, ShownInv, PrevInv, LastInv
  <2>5. StopInv' /\ ExtraInv'
    BY <1>1, <1>2, <2>1 DEF StopInv, ExtraInv
  <2> QED BY <2>3, <2>4, <2>5 DEF PlayInv
<1>3. CASE ~isFirst
  <2>1. /\ IncreasePreviousDuration(d) /\ extra' = d
        /\ pc' = AfterDuration(Len(cached'))
    BY <1>3, Zenon DEF Add
  <2>2. d \in Nat /\ extra = 0
    BY <1>1, LimitsAssumption DEF PlayInv, ExtraInv
  <2>3. Count > 0
    <3>1. Count \in Nat /\ flushCount \in Nat /\ flushCount < Count
      BY <1>1, <1>3, CachedTypes DEF BaseInv, TypeInv, EntriesInv
    <3> QED BY <3>1
  <2>4. /\ At(Count)'.ticks = due \o Ticks(d, latest) /\ At(Count)'.shown = latest
        /\ LastInv' /\ KeyInv' /\ d <= Chosen(Last)'.dur
    BY <1>1, <1>3, <2>1, <2>2, <2>3, IncreasedPlays
  <2>5. pc' \in {"room", "cache"}
    BY <2>1 DEF AfterDuration
  <2>6. TicksInv' /\ ShownInv'
    BY <1>1, <2>1, <2>4 DEF TicksInv, ShownInv
  <2>7. FirstInv' /\ PrevInv' /\ StopInv'
    BY <1>1, <1>3 DEF PlayInv, FirstInv, PrevInv, StopInv
  <2>8. ExtraInv'
    BY <2>1, <2>4, <2>5 DEF ExtraInv
  <2> QED BY <2>4, <2>6, <2>7, <2>8 DEF PlayInv
<1> QED BY <1>2, <1>3

\* WebPAnimEncoderAssemble() sets the last duration.
LEMMA AssemblePlays == ~UseAfterError /\ BaseInv /\ PlayInv /\ Assemble => PlayInv'
<1> SUFFICES ASSUME ~UseAfterError, BaseInv, PlayInv, Assemble PROVE PlayInv'
  OBVIOUS
<1>1. /\ pc = "idle" /\ inCount > 0 /\ extra' = 0 /\ pc' = "assemble" /\ ~failed
      /\ UNCHANGED <<keyframe, isFirst, muxed, latest, prevCanvas, failed>>
  BY DEF Assemble
<1>2. ~isFirst /\ extra = 0 /\ due \in Seq(Canvas)
  BY <1>1 DEF BaseInv, EntriesInv, TypeInv, PlayInv, ExtraInv
<1>3. FirstInv' /\ PrevInv' /\ StopInv' /\ ExtraInv'
  BY <1>1, <1>2 DEF PlayInv, FirstInv, PrevInv, StopInv, ExtraInv
<1>4. CASE ~gotNull /\ inCount > 1 /\ Count > 0
  <2>1. PICK average \in 0..MaxDuration - 1 :
          /\ IncreasePreviousDuration(average)
          /\ due' = due \o Ticks(extra + average, latest)
    BY <1>4, Zenon DEF Assemble
  <2>2. average \in Nat /\ extra + average = average
    BY <1>2, LimitsAssumption
  <2>3. /\ At(Count)'.ticks = due \o Ticks(average, latest) /\ At(Count)'.shown = latest
        /\ LastInv' /\ KeyInv'
    BY <1>1, <1>2, <1>4, <2>1, <2>2, IncreasedPlays
  <2>4. due' = due \o Ticks(average, latest)
    BY <2>1, <2>2
  <2>5. due' \in Seq(Canvas)
    <3>1. Ticks(average, latest) \in Seq(Canvas)
      BY <2>2, TicksType DEF BaseInv, TypeInv
    <3> QED BY <1>2, <2>4, <3>1
  <2>6. due' = due' \o Ticks(0, latest)
    BY <2>5, NoTicks
  <2>7. TicksInv' /\ ShownInv'
    BY <1>1, <2>3, <2>4, <2>6 DEF TicksInv, ShownInv
  <2> QED BY <1>3, <2>3, <2>7 DEF PlayInv
<1>5. CASE ~ (~gotNull /\ inCount > 1 /\ Count > 0)
  <2>1. /\ due' = due \o Ticks(extra, latest)
        /\ UNCHANGED <<cached, undecided, prevRect>>
    BY <1>5, Zenon DEF Assemble
  <2>2. Count' = Count /\ Last' = Last /\ At(Count)' = At(Count)
    BY <1>1, <2>1, SameFrames
  <2>3. KeyInv'
    BY <1>1, <2>1, SameKey DEF PlayInv
  <2>4. due' = due
    BY <1>2, <2>1, NoTicks
  <2>5. TicksInv' /\ ShownInv' /\ LastInv'
    BY <1>1, <1>2, <2>1, <2>2, <2>4 DEF PlayInv, TicksInv, ShownInv, LastInv
  <2> QED BY <1>3, <2>3, <2>5 DEF PlayInv
<1> QED BY <1>4, <1>5

\* The first picture is painted on the blank canvas.
LEMMA CacheFirstPlays == BaseInv /\ PlayInv /\ CacheFirst => PlayInv'
<1> SUFFICES ASSUME BaseInv, PlayInv, CacheFirst PROVE PlayInv'
  OBVIOUS
<1>1. Caching /\ isFirst /\ Accept /\ NewPrevious /\ pc = "cache"
  BY DEF CacheFirst, Caching
<1>2. PICK c \in Candidates(input.canvas, TRUE) :
        /\ cached' = <<[sub |-> NoFrame, key |-> c.frame, isKey |-> TRUE]>>
        /\ prevRect' = [x |-> c.frame.x, w |-> c.frame.w]
  BY DEF CacheFirst
<1>3. /\ pc' = "flush" /\ extra' = 0 /\ due' \in Seq(Canvas) /\ latest' = input.canvas
      /\ muxed' = muxed /\ failed' = failed
  BY <1>1, Accepted
<1>4. /\ undecided' = FALSE /\ keyframe' = keyframe
      /\ prevCanvas' = input.canvas /\ isFirst' = FALSE
      /\ due' = due \o Ticks(extra, latest)
  BY DEF CacheFirst, NewPrevious, Accept, Confirm
<1>5. ~failed
  BY <1>1 DEF PlayInv, StopInv
<1>6. Count = 0 /\ keyframe = -1 /\ TypeInv
  BY <1>1 DEF BaseInv, EntriesInv, TypeInv
<1>7. muxed.below = Blank /\ due = <<>> /\ extra = 0 /\ prevCanvas = Blank
  BY <1>1 DEF PlayInv, FirstInv
<1>8. /\ c.frame \in Frames /\ c.frame.dur = 0 /\ ~c.frame.dispose
      /\ Draw(prevCanvas, c.frame) = input.canvas
  <2> DEFINE yes == TRUE
  <2>1. yes \in BOOLEAN /\ yes /\ c \in Candidates(input.canvas, yes)
    OBVIOUS
  <2> HIDE DEF yes
  <2>2. /\ c.frame \in Frames /\ c.frame.dur = 0 /\ ~c.frame.dispose
        /\ c.disposePrev => ~yes
        /\ ~c.disposePrev => Draw(prevCanvas, c.frame) = input.canvas
    BY <1>1, <2>1, CandidateFacts
  <2> QED BY <2>1, <2>2
<1> DEFINE f == c.frame
<1> HIDE DEF f
<1>9. /\ Count' = 1 /\ Last' = cached'[1] /\ Chosen(Last)' = f
      /\ Waiting'[1] = f
  <2>1. Count' = 1 /\ Chosen(cached'[1]) = f
    BY <1>2 DEF Count, Chosen, f
  <2>2. Last' = cached'[1] /\ Chosen(Last)' = Chosen(cached'[1])
    BY <2>1 DEF Last, Chosen
  <2>3. Waiting'[1] = Chosen(cached'[1])
    BY <2>1 DEF Waiting
  <2> QED BY <2>1, <2>2, <2>3
<1>10. At(Count)' = Step(Begin, f)
  <2>1. Begin' = Begin
    BY <1>3 DEF Begin
  <2>2. PlayTo(Begin', Waiting', 0) = Begin
    BY <2>1, PlayUnfolds
  <2>3. PlayTo(Begin', Waiting', 1) = Step(PlayTo(Begin', Waiting', 0), Waiting'[1])
    <3>1. 0 \in Nat /\ 1 = 0 + 1
      OBVIOUS
    <3> QED BY <3>1, PlayNext
  <2>4. PlayTo(Begin', Waiting', Count') = Step(Begin, f)
    BY <1>9, <2>2, <2>3
  <2> QED BY <2>4 DEF At
<1>11. /\ Step(Begin, f).shown = input.canvas /\ Step(Begin, f).ticks = <<>>
  <2>1. /\ Begin \in Plays /\ Begin.ticks = <<>> /\ Begin.below = Blank /\ f \in Frames
        /\ f.dur = 0 /\ Draw(Blank, f) = input.canvas
    BY <1>6, <1>7, <1>8, WaitingFacts DEF f
  <2>2. /\ Step(Begin, f).shown = Draw(Begin.below, f)
        /\ Step(Begin, f).ticks = Begin.ticks \o Ticks(f.dur, Draw(Begin.below, f))
    BY <2>1, StepType
  <2>3. <<>> \o Ticks(0, input.canvas) = <<>>
    <3>1. Ticks(0, input.canvas) = <<>>
      BY DEF Ticks
    <3> QED BY <3>1
  <2> QED BY <2>1, <2>2, <2>3, Zenon
<1>12. due' = <<>> /\ <<>> \o Ticks(0, input.canvas) = <<>>
  <2>1. Ticks(0, latest) = <<>> /\ Ticks(0, input.canvas) = <<>>
    BY DEF Ticks
  <2> QED BY <1>4, <1>7, <2>1
<1>13. TicksInv' /\ ShownInv'
  BY <1>3, <1>4, <1>10, <1>11, <1>12 DEF TicksInv, ShownInv
<1>14. LastInv'
  BY <1>2, <1>4, <1>8, <1>9 DEF LastInv, f
<1>15. FirstInv' /\ PrevInv' /\ StopInv' /\ ExtraInv' /\ KeyInv'
  BY <1>3, <1>4, <1>5, <1>6 DEF FirstInv, PrevInv, StopInv, ExtraInv, KeyInv
<1> QED BY <1>13, <1>14, <1>15 DEF PlayInv

\* A new frame that lasts no tick yet.
LEMMA NewStep ==
  ASSUME NEW p \in Plays, NEW f \in Frames, f.dur = 0
  PROVE  Step(p, f).shown = Draw(p.below, f) /\ Step(p, f).ticks = p.ticks
<1>1. /\ Step(p, f).shown = Draw(p.below, f)
      /\ Step(p, f).ticks = p.ticks \o Ticks(f.dur, Draw(p.below, f))
  BY StepType
<1>2. p.ticks \in Seq(Canvas)
  BY DEF Plays
<1>3. p.ticks \o Ticks(0, Draw(p.below, f)) = p.ticks
  BY <1>2, NoTicks
<1> QED BY <1>1, <1>3, Zenon

\* The frames before a new one, the last of them with its disposal, and what
\* the new one is painted on.
LEMMA SubFramePlayed ==
  ASSUME BaseInv, PlayInv, Caching, ~isFirst, NEW c \in Candidates(input.canvas, FALSE),
         NEW frames, \A i \in 1..Count : frames[i] = Chosen(CachedWith(c)[i])
  PROVE  /\ \A n \in 0..Count - 1 : PlayTo(Begin, frames, n) = At(n)
         /\ PlayTo(Begin, frames, Count) \in Plays
         /\ PlayTo(Begin, frames, Count).ticks = due \o Ticks(extra, latest)
         /\ PlayTo(Begin, frames, Count).shown = latest
         /\ Draw(PlayTo(Begin, frames, Count).below, c.frame) = input.canvas
<1>1. /\ c.frame \in Frames /\ c.disposePrev \in BOOLEAN
      /\ c.disposePrev =>
           ~undecided /\ Draw(Clear(prevCanvas, prevRect), c.frame) = input.canvas
      /\ ~c.disposePrev => Draw(prevCanvas, c.frame) = input.canvas
  BY SubCandidate
<1>2. ~failed
  BY DEF PlayInv, StopInv, Caching
<1>3. /\ Count \in Nat /\ Count > 0 /\ undecided \in BOOLEAN
      /\ TypeInv /\ EntriesInv
  BY CachingFacts DEF BaseInv
<1>4. /\ \A i \in 1..Count - 1 : CachedWith(c)[i] = cached[i]
      /\ CachedWith(c)[Count] = SetPreviousDispose(cached[Count], c.disposePrev)
  BY <1>1, <1>3, CachedWithRight
<1>5. /\ Chosen(Last) = Waiting[Count] /\ Chosen(Last) \in Frames /\ Last \in Entries
      /\ Last = cached[Count]
      /\ At(Count) = Step(At(Count - 1), Chosen(Last)) /\ At(Count - 1) \in Plays
      /\ At(Count).shown = latest /\ latest = prevCanvas
  BY <1>2, <1>3, LastPlayed, LastBelow
<1>6. /\ ~Chosen(Last).dispose
      /\ ~undecided => Chosen(Last).x = prevRect.x /\ Chosen(Last).w = prevRect.w
  BY <1>2, <1>3 DEF PlayInv, LastInv
<1>7. \A i \in 1..Count - 1 : frames[i] = Waiting[i]
  <2>1. \A i \in 1..Count - 1 : i \in 1..Count
    BY <1>3
  <2>2. \A i \in 1..Count : Waiting[i] = Chosen(cached[i])
    BY <1>3, WaitingFacts
  <2> QED BY <1>4, <2>1, <2>2, Zenon
<1>8. ASSUME NEW n \in 0..Count - 1 PROVE PlayTo(Begin, frames, n) = At(n)
  <2>1. n \in Nat /\ \A i \in 1..n : frames[i] = Waiting[i]
    BY <1>3, <1>7
  <2> QED BY <2>1, PlaySame DEF At
<1> DEFINE e == cached[Count]
           d == c.disposePrev
           g == SetPreviousDispose(e, d)
           f == Chosen(e)
           h == Chosen(g)
           p == At(Count - 1)
<1>9. /\ g \in Entries /\ h.dur = f.dur /\ h.dispose = d /\ Alike(f, h)
  <2>1. undecided => BothFrames(e)
    BY <1>3 DEF EntriesInv
  <2>2. e \in Entries /\ d \in BOOLEAN
    BY <1>1, <1>5
  <2> HIDE DEF e, d
  <2> QED BY <1>3, <2>1, <2>2, DisposalSet
<1>10. h \in Frames /\ f \in Frames /\ p \in Plays /\ frames[Count] = h /\ Chosen(Last) = f
  <2>1. Count \in 1..Count
    BY <1>3
  <2> QED BY <1>4, <1>5, <1>9, <2>1, EntryParts
<1>11. PlayTo(Begin, frames, Count) = Step(p, h)
  <2>1. Count - 1 \in Nat /\ Count = (Count - 1) + 1 /\ Count - 1 \in 0..Count - 1
    BY <1>3
  <2>2. PlayTo(Begin, frames, Count) = Step(PlayTo(Begin, frames, Count - 1), frames[Count])
    BY <2>1, PlayNext
  <2>3. PlayTo(Begin, frames, Count - 1) = p
    BY <1>8, <2>1
  <2> QED BY <1>10, <2>2, <2>3, Zenon
<1> HIDE DEF e, d, g, f, h, p
<1>12. /\ Step(p, h) \in Plays /\ Step(p, h).shown = Draw(p.below, h)
       /\ Step(p, h).below = Dispose(Draw(p.below, h), h)
       /\ Step(p, h).ticks = p.ticks \o Ticks(h.dur, Draw(p.below, h))
  BY <1>10, StepType
<1>13. /\ Step(p, f).shown = Draw(p.below, f)
       /\ Step(p, f).ticks = p.ticks \o Ticks(f.dur, Draw(p.below, f))
  BY <1>10, StepType
<1>14. Draw(p.below, h) = Draw(p.below, f) /\ Clear(latest, h) = Clear(latest, f)
  BY <1>9, AlikeDrawn
<1>15. At(Count) = Step(p, f)
  BY <1>5, <1>10, Zenon DEF p
<1>16. /\ Step(p, h).ticks = At(Count).ticks /\ Step(p, h).shown = latest
       /\ Step(p, h).below = Dispose(latest, h)
  BY <1>5, <1>9, <1>12, <1>13, <1>14, <1>15, Zenon
<1>17. Draw(Dispose(latest, h), c.frame) = input.canvas
  <2>1. CASE d
    <3>1. ~undecided /\ Draw(Clear(prevCanvas, prevRect), c.frame) = input.canvas
      BY <1>1, <2>1 DEF d
    <3>2. f.x = prevRect.x /\ f.w = prevRect.w
      BY <1>6, <1>10, <3>1
    <3>3. Clear(latest, f) = Clear(latest, prevRect)
      <4>1. In(f) = In(prevRect)
        BY <3>2, Zenon DEF In
      <4> QED BY <4>1, Zenon DEF Clear
    <3>4. Dispose(latest, h) = Clear(latest, prevRect)
      BY <1>9, <1>14, <2>1, <3>3 DEF Dispose
    <3> QED BY <1>5, <3>1, <3>4
  <2>2. CASE ~d
    BY <1>1, <1>5, <1>9, <2>2 DEF Dispose, d
  <2> QED BY <1>1, <2>1, <2>2 DEF d
<1>18. At(Count).ticks = due \o Ticks(extra, latest)
  BY DEF PlayInv, TicksInv
<1> QED BY <1>8, <1>11, <1>12, <1>16, <1>17, <1>18

\* The entry that may be demoted is left alone: if it is the last one, it is
\* not disposed of.
LEMMA KeyEntryKept ==
  ASSUME BaseInv, PlayInv, Caching, ~isFirst, NEW c \in Candidates(input.canvas, FALSE),
         keyframe # -1
  PROVE  /\ CachedWith(c)[keyframe + 1] = GetFrame(keyframe)
         /\ keyframe \in Nat /\ keyframe + 1 \in 1..Count
         /\ BothFrames(GetFrame(keyframe)) /\ GetFrame(keyframe).isKey
         /\ Draw(At(keyframe).below, GetFrame(keyframe).sub)
              = Draw(At(keyframe).below, GetFrame(keyframe).key)
         /\ ~GetFrame(keyframe).sub.dispose /\ ~GetFrame(keyframe).key.dispose
<1>1. /\ c.frame \in Frames /\ c.disposePrev \in BOOLEAN /\ (c.disposePrev => ~undecided)
  BY SubCandidate
<1>2. /\ Count \in Nat /\ Count > 0 /\ undecided \in BOOLEAN /\ keyframe \in -1..Count - 1
      /\ TypeInv /\ EntriesInv /\ \A i \in 1..Count : cached[i] \in Entries
  BY CachingFacts, CachedTypes DEF BaseInv
<1>3. /\ \A i \in 1..Count - 1 : CachedWith(c)[i] = cached[i]
      /\ CachedWith(c)[Count] = SetPreviousDispose(cached[Count], c.disposePrev)
  BY <1>1, <1>2, CachedWithRight
<1>4. keyframe \in Nat /\ keyframe + 1 \in 1..Count
  BY <1>2
<1>5. /\ BothFrames(GetFrame(keyframe)) /\ GetFrame(keyframe).isKey
      /\ Draw(At(keyframe).below, GetFrame(keyframe).sub)
           = Draw(At(keyframe).below, GetFrame(keyframe).key)
      /\ ~GetFrame(keyframe).sub.dispose /\ ~GetFrame(keyframe).key.dispose
      /\ keyframe = Count - 1 => undecided
  BY DEF PlayInv, KeyInv, BaseInv, EntriesInv
<1>6. CASE keyframe + 1 # Count
  <2>1. keyframe + 1 \in 1..Count - 1
    BY <1>2, <1>4, <1>6
  <2>2. CachedWith(c)[keyframe + 1] = cached[keyframe + 1]
    BY <1>3, <2>1
  <2> QED BY <1>4, <1>5, <2>2 DEF GetFrame
<1>7. CASE keyframe + 1 = Count
  <2> DEFINE e == cached[Count]
             d == c.disposePrev
             g == SetPreviousDispose(e, d)
  <2>1. undecided /\ ~d /\ e = GetFrame(keyframe)
    BY <1>1, <1>2, <1>4, <1>5, <1>7 DEF GetFrame
  <2>2. e \in Entries /\ BothFrames(e) /\ ~e.sub.dispose /\ ~e.key.dispose
        /\ e.sub.dispose = d /\ e.key.dispose = d /\ d \in BOOLEAN
    <3>1. e \in Entries /\ BothFrames(e) /\ ~e.sub.dispose /\ ~e.key.dispose
      BY <1>2, <1>4, <1>5, <1>7, <2>1
    <3>2. e.sub.dispose \in BOOLEAN /\ e.key.dispose \in BOOLEAN
      <4>1. e.sub \in Frames /\ e.key \in Frames
        BY <3>1, Zenon DEF BothFrames
      <4> HIDE DEF e
      <4> QED BY <4>1 DEF Frames
    <3> QED BY <1>1, <2>1, <3>1, <3>2
  <2> HIDE DEF e, d
  <2>3. g = e
    BY <1>2, <2>1, <2>2, DisposalSet
  <2>4. CachedWith(c)[keyframe + 1] = g
    BY <1>3, <1>7 DEF e, d
  <2> QED BY <1>4, <1>5, <2>1, <2>3, <2>4
<1> QED BY <1>6, <1>7

\* Only a sub-frame is encoded.
LEMMA CacheSubFramePlays == BaseInv /\ PlayInv /\ CacheSubFrame => PlayInv'
<1> SUFFICES ASSUME BaseInv, PlayInv, CacheSubFrame PROVE PlayInv'
  OBVIOUS
<1>1. Caching /\ ~isFirst /\ Accept /\ NewPrevious /\ pc = "cache"
  BY DEF CacheSubFrame, Caching
<1>2. PICK c \in Candidates(input.canvas, FALSE) :
        /\ cached' = CachedWith(c)
        /\ prevRect' = [x |-> c.frame.x, w |-> c.frame.w]
  BY DEF CacheSubFrame
<1>3. /\ pc' = "flush" /\ extra' = 0 /\ due' \in Seq(Canvas) /\ latest' = input.canvas
      /\ muxed' = muxed /\ failed' = failed
  BY <1>1, Accepted
<1>4. /\ undecided' = FALSE /\ keyframe' = keyframe
      /\ prevCanvas' = input.canvas /\ isFirst' = FALSE
      /\ due' = due \o Ticks(extra, latest)
  BY DEF CacheSubFrame, NewPrevious, Accept, Confirm
<1>5. ~failed
  BY <1>1 DEF PlayInv, StopInv
<1>6. /\ c.frame \in Frames /\ c.frame.dur = 0 /\ ~c.frame.dispose /\ c.disposePrev \in BOOLEAN
  BY <1>1, SubCandidate
<1>7. /\ Count \in Nat /\ Count > 0 /\ TypeInv /\ EntriesInv /\ keyframe \in -1..Count - 1
  BY <1>1, CachingFacts DEF BaseInv
<1>8. /\ Len(cached') = Count + 1
      /\ cached'[Count + 1] = [sub |-> c.frame, key |-> NoFrame, isKey |-> FALSE]
  BY <1>2, <1>6, <1>7, CachedWithRight
<1>9. Count' = Count + 1 /\ Count + 1 \in 1..Count' /\ Last' = cached'[Count + 1]
      /\ \A i \in 1..Count : i \in 1..Count'
  BY <1>7, <1>8 DEF Count, Last
<1>10. \A i \in 1..Count' : Waiting'[i] = Chosen(cached'[i])
  BY Zenon DEF Waiting
<1>11. \A i \in 1..Count : Waiting'[i] = Chosen(CachedWith(c)[i])
  BY <1>2, <1>9, <1>10
<1> DEFINE f == c.frame
           p == PlayTo(Begin, Waiting', Count)
<1>12. Chosen(cached'[Count + 1]) = f /\ Waiting'[Count + 1] = f
  BY <1>8, <1>9, <1>10 DEF Chosen
<1>13. /\ \A n \in 0..Count - 1 : PlayTo(Begin, Waiting', n) = At(n)
       /\ p \in Plays /\ p.ticks = due \o Ticks(extra, latest) /\ p.shown = latest
       /\ Draw(p.below, c.frame) = input.canvas
  BY <1>1, <1>11, SubFramePlayed
<1>14. Begin' = Begin
  BY <1>3 DEF Begin
<1>15. At(Count)' = Step(p, f)
  <2>1. PlayTo(Begin, Waiting', Count') = Step(p, f)
    <3>1. PlayTo(Begin, Waiting', Count') = Step(PlayTo(Begin, Waiting', Count), Waiting'[Count'])
      BY <1>7, <1>9, PlayNext
    <3> QED BY <1>9, <1>12, <3>1, Zenon
  <2> QED BY <1>14, <2>1 DEF At
<1>16. Step(p, f).shown = input.canvas /\ Step(p, f).ticks = due'
  <2>1. p \in Plays /\ f \in Frames /\ f.dur = 0 /\ Draw(p.below, f) = input.canvas
        /\ p.ticks = due'
    BY <1>4, <1>6, <1>13
  <2> HIDE DEF p, f
  <2> QED BY <2>1, NewStep
<1> HIDE DEF p
<1>17. due' = due' \o Ticks(0, latest')
  BY <1>3, NoTicks
<1>18. TicksInv' /\ ShownInv'
  BY <1>3, <1>15, <1>16, <1>17 DEF TicksInv, ShownInv
<1>19. LastInv'
  BY <1>2, <1>4, <1>6, <1>9, <1>12 DEF LastInv, Chosen
<1>20. KeyInv'
  <2> SUFFICES ASSUME keyframe # -1
               PROVE  LET e1 == GetFrame(keyframe)'
                          b == At(keyframe)'.below
                      IN /\ Draw(b, e1.sub) = Draw(b, e1.key)
                         /\ ~e1.sub.dispose /\ ~e1.key.dispose
                         /\ keyframe = Count' - 1 => undecided'
    BY <1>4 DEF KeyInv, GetFrame
  <2>1. /\ CachedWith(c)[keyframe + 1] = GetFrame(keyframe)
        /\ keyframe \in Nat /\ keyframe + 1 \in 1..Count
        /\ Draw(At(keyframe).below, GetFrame(keyframe).sub)
             = Draw(At(keyframe).below, GetFrame(keyframe).key)
        /\ ~GetFrame(keyframe).sub.dispose /\ ~GetFrame(keyframe).key.dispose
    BY <1>1, KeyEntryKept
  <2>2. GetFrame(keyframe)' = GetFrame(keyframe)
    BY <1>2, <1>4, <2>1 DEF GetFrame
  <2>3. keyframe \in 0..Count - 1 /\ keyframe # Count' - 1
    BY <1>7, <1>9, <2>1
  <2>4. At(keyframe)' = At(keyframe)
    BY <1>4, <1>13, <1>14, <2>3 DEF At
  <2> QED BY <2>1, <2>2, <2>3, <2>4
<1>21. FirstInv' /\ PrevInv' /\ StopInv' /\ ExtraInv'
  BY <1>3, <1>4, <1>5 DEF FirstInv, PrevInv, StopInv, ExtraInv
<1> QED BY <1>18, <1>19, <1>20, <1>21 DEF PlayInv

\* Two variants that paint the same canvas play alike.
LEMMA SameStep ==
  ASSUME NEW p, NEW f, NEW g, Draw(p.below, f) = Draw(p.below, g), f.dur = g.dur,
         ~f.dispose, ~g.dispose
  PROVE  Step(p, f) = Step(p, g)
BY Zenon DEF Step, Dispose

\* Demoting the frame that may be changes nothing to what is played.
LEMMA DemotedPlay ==
  ASSUME NEW k \in Nat, NEW b, NEW m \in Nat, NEW frames, NEW others, k + 1 <= m,
         NEW e, Draw(b, e.sub) = Draw(b, e.key), e.sub.dur = e.key.dur,
         ~e.sub.dispose, ~e.key.dispose,
         b = PlayTo(Begin, frames, k).below,
         frames[k + 1] = e.key, others[k + 1] = e.sub,
         \A i \in 1..m : i # k + 1 => others[i] = frames[i]
  PROVE  PlayTo(Begin, others, m) = PlayTo(Begin, frames, m)
<1>0. PICK l \in Nat : l = k + 1
  OBVIOUS
<1>1. PlayTo(Begin, others, k) = PlayTo(Begin, frames, k)
  <2>1. \A i \in 1..k : others[i] = frames[i]
    <3>1. \A i \in 1..k : i \in 1..m /\ i # k + 1
      OBVIOUS
    <3> QED BY <3>1
  <2> QED BY <2>1, PlaySame
<1> DEFINE p == PlayTo(Begin, frames, k)
<1>2. Step(p, e.sub) = Step(p, e.key)
  BY SameStep
<1>3. PlayTo(Begin, others, l) = Step(PlayTo(Begin, others, k), others[l])
  BY <1>0, PlayNext
<1>4. PlayTo(Begin, frames, l) = Step(PlayTo(Begin, frames, k), frames[l])
  BY <1>0, PlayNext
<1>5. PlayTo(Begin, others, l) = PlayTo(Begin, frames, l)
  BY <1>0, <1>1, <1>2, <1>3, <1>4
<1>6. l <= m /\ \A i \in l + 1..m : others[i] = frames[i]
  <2>1. l <= m /\ \A i \in l + 1..m : i \in 1..m /\ i # k + 1
    BY <1>0
  <2> QED BY <2>1
<1> QED BY <1>5, <1>6, PlayFrom

\* Both variants of a picture are encoded, and one is chosen.
LEMMA CacheBothPlays == BaseInv /\ PlayInv /\ CacheBoth => PlayInv'
<1> SUFFICES ASSUME BaseInv, PlayInv, CacheBoth PROVE PlayInv'
  OBVIOUS
<1>1. Caching /\ ~isFirst /\ Accept /\ NewPrevious /\ pc = "cache"
  BY DEF CacheBoth, Caching
<1>2. PICK c \in Candidates(input.canvas, FALSE), k \in Candidates(input.canvas, TRUE),
           penalty \in Penalties :
        LET chosen == penalty <= bestDelta
            last == LastFrame(chosen, k.frame, c.frame)
        IN /\ cached' = CachedBoth(c, k.frame, chosen)
           /\ undecided' = chosen
           /\ keyframe' = NextKeyframe(chosen)
           /\ prevRect' = [x |-> last.x, w |-> last.w]
  BY Zenon DEF CacheBoth, CachedBoth
<1> DEFINE chosen == penalty <= bestDelta
           sub == c.frame
           key == k.frame
           last == LastFrame(chosen, key, sub)
           entry == [sub |-> sub, key |-> key, isKey |-> chosen]
<1>3. chosen \in BOOLEAN
  OBVIOUS
<1>4. /\ cached' = CachedBoth(c, key, chosen) /\ undecided' = chosen
      /\ keyframe' = (IF PeriodEnds THEN -1 ELSE IF chosen THEN Count ELSE keyframe)
      /\ prevRect' = [x |-> last.x, w |-> last.w]
  BY <1>2, Zenon DEF NextKeyframe
<1> HIDE DEF chosen
<1>5. /\ pc' = "flush" /\ extra' = 0 /\ due' \in Seq(Canvas) /\ latest' = input.canvas
      /\ muxed' = muxed /\ failed' = failed
  BY <1>1, Accepted
<1>6. /\ prevCanvas' = input.canvas /\ isFirst' = FALSE
      /\ due' = due \o Ticks(extra, latest)
  BY DEF CacheBoth, NewPrevious, Accept, Confirm
<1>7. ~failed
  BY <1>1 DEF PlayInv, StopInv
<1>8. /\ sub \in Frames /\ sub.dur = 0 /\ ~sub.dispose /\ c.disposePrev \in BOOLEAN
      /\ key \in Frames /\ key.dur = 0 /\ ~key.dispose
      /\ \A b : Draw(b, key) = input.canvas
  BY <1>1, SubCandidate, KeyCandidate
<1>9. /\ Count \in Nat /\ Count > 0 /\ TypeInv /\ EntriesInv /\ keyframe \in -1..Count - 1
  BY <1>1, CachingFacts DEF BaseInv
<1>10. /\ Len(cached') = Count + 1 /\ cached'[Count + 1] = entry
       /\ \A i \in 1..Count :
            cached'[i] = IF chosen /\ i = keyframe + 1
                           THEN [CachedWith(c)[i] EXCEPT !.isKey = FALSE]
                           ELSE CachedWith(c)[i]
  <2> DEFINE now == CachedBoth(c, key, chosen)
  <2> HIDE DEF key
  <2>1. /\ c.frame \in Frames /\ c.frame.dur = 0
    BY <1>8
  <2>2. /\ Len(now) = Count + 1
        /\ now[Count + 1] = [sub |-> c.frame, key |-> key, isKey |-> chosen]
        /\ \A i \in 1..Count : now[i] = IF chosen /\ i = keyframe + 1
                                         THEN [CachedWith(c)[i] EXCEPT !.isKey = FALSE]
                                         ELSE CachedWith(c)[i]
    BY <1>3, <1>8, <1>9, <2>1, BothCachedRight
  <2> HIDE DEF now
  <2>3. cached' = now
    BY <1>4 DEF now
  <2> QED BY <2>2, <2>3, Zenon
<1>11. Count' = Count + 1 /\ Count + 1 \in 1..Count' /\ Last' = cached'[Count + 1]
       /\ \A i \in 1..Count : i \in 1..Count'
  BY <1>9, <1>10 DEF Count, Last
<1>12. \A i \in 1..Count' : Waiting'[i] = Chosen(cached'[i])
  BY Zenon DEF Waiting
<1>13. /\ Chosen(Last)' = last /\ Waiting'[Count + 1] = last
       /\ last = (IF chosen THEN key ELSE sub) /\ last \in Frames /\ last.dur = 0
       /\ ~last.dispose
  <2>1. last = (IF chosen THEN key ELSE sub)
    BY Zenon DEF LastFrame
  <2>2. entry.sub = sub /\ entry.key = key /\ entry.isKey = chosen
    BY Zenon
  <2> HIDE DEF entry, last, sub, key
  <2>3. Chosen(entry) = last
    BY <2>1, <2>2, Zenon DEF Chosen
  <2>4. Waiting'[Count + 1] = last
    BY <1>10, <1>11, <1>12, <2>3
  <2>5. Chosen(Last)' = last
    BY <1>10, <1>11, <2>3 DEF Chosen
  <2> QED BY <1>3, <1>8, <2>1, <2>4, <2>5 DEF sub, key
<1> DEFINE before == [i \in 1..Count |-> Chosen(CachedWith(c)[i])]
           p == PlayTo(Begin, before, Count)
<1>14. /\ \A n \in 0..Count - 1 : PlayTo(Begin, before, n) = At(n)
       /\ p \in Plays /\ p.ticks = due \o Ticks(extra, latest) /\ p.shown = latest
       /\ Draw(p.below, sub) = input.canvas
  <2>1. \A i \in 1..Count : before[i] = Chosen(CachedWith(c)[i])
    BY Zenon
  <2> HIDE DEF before
  <2> QED BY <1>1, <2>1, SubFramePlayed
<1>15. \A i \in 1..Count : before[i] = Chosen(CachedWith(c)[i])
  BY Zenon
<1> HIDE DEF before, last, entry
<1>same. ASSUME NEW i \in 1..Count, ~ (chosen /\ i = keyframe + 1)
       PROVE  Waiting'[i] = before[i]
  <2>1. cached'[i] = CachedWith(c)[i]
    BY <1>10, <1>same
  <2>2. Waiting'[i] = Chosen(cached'[i])
    BY <1>11, <1>12
  <2> QED BY <1>15, <2>1, <2>2, Zenon
<1>16. PlayTo(Begin, Waiting', Count) = p
  <2>1. CASE chosen /\ keyframe # -1
    <3> DEFINE e == GetFrame(keyframe)
               b == At(keyframe).below
    <3>1. /\ CachedWith(c)[keyframe + 1] = e
          /\ keyframe \in Nat /\ keyframe + 1 \in 1..Count /\ BothFrames(e) /\ e.isKey
          /\ Draw(b, e.sub) = Draw(b, e.key) /\ ~e.sub.dispose /\ ~e.key.dispose
      BY <1>1, <2>1, KeyEntryKept
    <3> HIDE DEF b
    <3>2. before[keyframe + 1] = e.key
      BY <1>15, <3>1 DEF Chosen
    <3>3. Waiting'[keyframe + 1] = e.sub
      <4>1. e \in Entries
        BY <1>9, <3>1, CachedTypes DEF GetFrame
      <4> HIDE DEF e
      <4>2. Chosen([e EXCEPT !.isKey = FALSE]) = e.sub
        <5> DEFINE g == [e EXCEPT !.isKey = FALSE]
        <5>1. g = [e EXCEPT !.isKey = FALSE]
          OBVIOUS
        <5> HIDE DEF g
        <5>2. Chosen(g) = e.sub
          BY <3>1, <4>1, <5>1, Demoted
        <5> QED BY <5>2 DEF g
      <4>3. cached'[keyframe + 1] = [e EXCEPT !.isKey = FALSE]
        BY <1>10, <2>1, <3>1
      <4> QED BY <1>11, <1>12, <3>1, <4>2, <4>3
    <3>4. \A i \in 1..Count : i # keyframe + 1 => Waiting'[i] = before[i]
      BY <1>same
    <3>5. e.sub.dur = e.key.dur /\ b = PlayTo(Begin, before, keyframe).below
          /\ keyframe + 1 <= Count
      <4>1. keyframe \in 0..Count - 1 /\ keyframe + 1 <= Count
        BY <1>9, <3>1
      <4> QED BY <1>14, <3>1, <4>1 DEF BothFrames, b
    <3> HIDE DEF e
    <3> QED BY <1>9, <3>1, <3>2, <3>3, <3>4, <3>5, DemotedPlay
  <2>2. CASE ~ (chosen /\ keyframe # -1)
    <3>1. \A i \in 1..Count : Waiting'[i] = before[i]
      <4>1. \A i \in 1..Count : ~ (chosen /\ i = keyframe + 1)
        BY <1>9, <2>2
      <4> QED BY <1>same, <4>1
    <3> QED BY <1>9, <3>1, PlaySame
  <2> QED BY <2>1, <2>2
<1>17. Begin' = Begin
  BY <1>5 DEF Begin
<1>18. At(Count)' = Step(p, last)
  <2>1. PlayTo(Begin, Waiting', Count') = Step(PlayTo(Begin, Waiting', Count), Waiting'[Count'])
    BY <1>9, <1>11, PlayNext
  <2>2. PlayTo(Begin, Waiting', Count') = Step(p, last)
    BY <1>11, <1>13, <1>16, <2>1, Zenon
  <2> QED BY <1>17, <2>2 DEF At
<1>19. Step(p, last).shown = input.canvas /\ Step(p, last).ticks = due'
  <2>1. Draw(p.below, last) = input.canvas /\ p.ticks = due' /\ p \in Plays
    BY <1>3, <1>6, <1>8, <1>13, <1>14
  <2> HIDE DEF p
  <2> QED BY <1>13, <2>1, NewStep
<1>20. due' = due' \o Ticks(0, latest')
  BY <1>5, NoTicks
<1>21. TicksInv' /\ ShownInv'
  BY <1>5, <1>18, <1>19, <1>20 DEF TicksInv, ShownInv
<1>22. entry.sub = sub /\ entry.key = key /\ entry.isKey = chosen
  BY Zenon DEF entry
<1>23. LastInv'
  <2>1. Last'.sub = sub /\ Last'.key = key
    BY <1>10, <1>11, <1>22
  <2>2. ~sub.dispose /\ ~key.dispose
    BY <1>8
  <2>3. last.x = prevRect'.x /\ last.w = prevRect'.w
    BY <1>4
  <2> HIDE DEF sub, key
  <2> QED BY <1>13, <2>1, <2>2, <2>3, Zenon DEF LastInv
<1>24. KeyInv'
  <2>1. CASE keyframe' = -1
    BY <2>1 DEF KeyInv
  <2>2. CASE keyframe' = Count /\ chosen
    <3>1. GetFrame(keyframe)' = entry
      BY <1>10, <2>2 DEF GetFrame
    <3>2. At(keyframe)' = p
      <4>1. PlayTo(Begin', Waiting', keyframe') = p
        BY <1>16, <1>17, <2>2
      <4> QED BY <4>1 DEF At
    <3>3. Draw(p.below, sub) = Draw(p.below, key)
      BY <1>8, <1>14
    <3>4. ~sub.dispose /\ ~key.dispose /\ undecided'
      BY <1>4, <1>8, <2>2
    <3> QED BY <1>22, <3>1, <3>2, <3>3, <3>4 DEF KeyInv
  <2>3. CASE keyframe' = keyframe /\ keyframe # -1 /\ ~chosen
    <3>1. /\ CachedWith(c)[keyframe + 1] = GetFrame(keyframe)
          /\ keyframe \in Nat /\ keyframe + 1 \in 1..Count
          /\ Draw(At(keyframe).below, GetFrame(keyframe).sub)
               = Draw(At(keyframe).below, GetFrame(keyframe).key)
          /\ ~GetFrame(keyframe).sub.dispose /\ ~GetFrame(keyframe).key.dispose
      BY <1>1, <2>3, KeyEntryKept
    <3>2. GetFrame(keyframe)' = GetFrame(keyframe)
      BY <1>10, <2>3, <3>1 DEF GetFrame
    <3>3. keyframe \in 0..Count - 1 /\ keyframe' # Count' - 1 /\ \A i \in 1..keyframe : i \in 1..Count
      BY <1>9, <1>11, <2>3, <3>1
    <3>4. \A i \in 1..keyframe : Waiting'[i] = before[i]
      BY <1>10, <1>11, <1>12, <1>15, <2>3, <3>3
    <3>5. PlayTo(Begin, Waiting', keyframe) = PlayTo(Begin, before, keyframe)
      BY <3>1, <3>4, PlaySame
    <3>6. At(keyframe)' = At(keyframe)
      <4>1. PlayTo(Begin', Waiting', keyframe') = At(keyframe)
        BY <1>14, <1>17, <2>3, <3>3, <3>5
      <4> QED BY <4>1 DEF At
    <3> QED BY <2>3, <3>1, <3>2, <3>3, <3>6 DEF KeyInv
  <2> QED BY <1>3, <1>4, <2>1, <2>2, <2>3
<1>25. FirstInv' /\ PrevInv' /\ StopInv' /\ ExtraInv'
  BY <1>5, <1>6, <1>7 DEF FirstInv, PrevInv, StopInv, ExtraInv
<1> QED BY <1>21, <1>23, <1>24, <1>25 DEF PlayInv

\* A variant of the picture was cached, and is released: the previous frame
\* may now be disposed of, and nothing follows it.
LEMMA EncodingFailsPlays == BaseInv /\ PlayInv /\ EncodingFails => PlayInv'
<1> SUFFICES ASSUME BaseInv, PlayInv, EncodingFails PROVE PlayInv'
  OBVIOUS
<1>1. /\ Caching /\ pc = "cache" /\ pc' = "idle" /\ failed' = TRUE
      /\ UNCHANGED <<keyframe, undecided, isFirst, muxed, due, extra, latest, prevCanvas>>
  BY DEF EncodingFails, Caching, control, flags, history
<1>2. CASE UNCHANGED <<cached, prevRect>>
  BY <1>1, <1>2, FailedPlays
<1>3. ASSUME ~isFirst, NEW c \in Candidates(input.canvas, FALSE),
             cached' = SubSeq(CachedWith(c), 1, Count)
      PROVE  PlayInv'
  <2>1. c.frame \in Frames /\ c.disposePrev \in BOOLEAN
    BY <1>1, SubCandidate
  <2>2. Count \in Nat /\ Count > 0 /\ TypeInv /\ EntriesInv /\ keyframe \in -1..Count - 1
    BY <1>1, <1>3, CachingFacts DEF BaseInv
  <2> DEFINE frames == CachedWith(c)
  <2>3. frames \in Seq(Entries) /\ Len(frames) = Count + 1
    BY <2>1, <2>2, CachedWithRight
  <2> HIDE DEF frames
  <2>4. Len(cached') = Count /\ \A i \in 1..Count : cached'[i] = frames[i]
    BY <1>3, <2>2, <2>3 DEF frames
  <2>5. Count' = Count
    BY <2>4 DEF Count
  <2>6. ASSUME NEW i \in 1..Count PROVE Waiting'[i] = Chosen(CachedWith(c)[i])
    <3>1. Waiting'[i] = Chosen(cached'[i])
      BY <2>5, Zenon DEF Waiting
    <3> QED BY <2>4, <3>1 DEF frames
  <2>7. /\ \A n \in 0..Count - 1 : PlayTo(Begin, Waiting', n) = At(n)
        /\ PlayTo(Begin, Waiting', Count).ticks = due \o Ticks(extra, latest)
        /\ PlayTo(Begin, Waiting', Count).shown = latest
    BY <1>1, <1>3, <2>6, SubFramePlayed
  <2>8. Begin' = Begin
    BY <1>1 DEF Begin
  <2>9. At(Count)' = PlayTo(Begin, Waiting', Count)
    BY <2>5, <2>8 DEF At
  <2>10. FirstInv' /\ TicksInv' /\ ShownInv'
    BY <1>1, <2>7, <2>9 DEF PlayInv, FirstInv, TicksInv, ShownInv
  <2>11. KeyInv'
    <3> SUFFICES ASSUME keyframe # -1
                 PROVE  LET e1 == GetFrame(keyframe)'
                            b == At(keyframe)'.below
                        IN /\ Draw(b, e1.sub) = Draw(b, e1.key)
                           /\ ~e1.sub.dispose /\ ~e1.key.dispose
                           /\ keyframe = Count' - 1 => undecided'
      BY <1>1 DEF KeyInv, GetFrame
    <3>1. /\ CachedWith(c)[keyframe + 1] = GetFrame(keyframe)
          /\ keyframe \in Nat /\ keyframe + 1 \in 1..Count
          /\ Draw(At(keyframe).below, GetFrame(keyframe).sub)
               = Draw(At(keyframe).below, GetFrame(keyframe).key)
          /\ ~GetFrame(keyframe).sub.dispose /\ ~GetFrame(keyframe).key.dispose
      BY <1>1, <1>3, KeyEntryKept
    <3>2. GetFrame(keyframe)' = GetFrame(keyframe)
      BY <1>1, <2>4, <3>1 DEF GetFrame, frames
    <3>3. keyframe \in 0..Count - 1
      BY <2>2, <3>1
    <3>4. At(keyframe)' = At(keyframe)
      BY <1>1, <2>7, <2>8, <3>3 DEF At
    <3>5. keyframe = Count' - 1 => undecided'
      BY <1>1, <2>5 DEF PlayInv, KeyInv
    <3> QED BY <3>1, <3>2, <3>4, <3>5
  <2>12. StopInv' /\ PrevInv' /\ LastInv' /\ ExtraInv'
    BY <1>1 DEF StopInv, PrevInv, LastInv, ExtraInv
  <2> QED BY <2>10, <2>11, <2>12 DEF PlayInv
<1> QED BY <1>2, <1>3, Zenon DEF EncodingFails

\* What is played after a frame that is pushed.
LEMMA Pushed ==
  ASSUME BaseInv, PushFrame
  PROVE  LET f == Chosen(GetFrame(0))
             first == Step(Begin, f)
         IN /\ \A n \in 0..Count - 1 :
                 /\ At(n + 1).below = PlayTo(Begin', Waiting', n).below
                 /\ At(n + 1).shown = PlayTo(Begin', Waiting', n).shown
                 /\ At(n + 1).ticks = first.ticks \o PlayTo(Begin', Waiting', n).ticks
                 /\ PlayTo(Begin', Waiting', n).ticks \in Seq(Canvas)
            /\ first.ticks \in Seq(Canvas) /\ Len(first.ticks) = f.dur
            /\ due' = SubSeq(due, f.dur + 1, Len(due))
            /\ Count' = Count - 1 /\ Count > 0 /\ Count \in Nat
            /\ \A i \in 1..Count - 1 : cached'[i] = cached[i + 1]
<1> DEFINE f == Chosen(GetFrame(0))
           first == Step(Begin, f)
           canvas == Draw(muxed.below, f)
<1>1. /\ cached' = Tail(cached) /\ flushCount > 0
      /\ due' = SubSeq(due, f.dur + 1, Len(due))
      /\ muxed'.below = Dispose(canvas, f) /\ muxed'.shown = canvas
  BY DEF PushFrame
<1>2. /\ Count \in Nat /\ Count > 0 /\ TypeInv /\ cached \in Seq(Entries)
      /\ Count = Len(cached)
  <2>1. Count \in Nat /\ flushCount \in Nat /\ flushCount <= Count /\ TypeInv
    BY CachedTypes DEF BaseInv, TypeInv, EntriesInv
  <2> QED BY <1>1, <2>1, CachedTypes DEF Count
<1>3. f \in Frames /\ GetFrame(0) = cached[1] /\ f.dur \in Nat
      /\ canvas \in Canvas /\ Dispose(canvas, f) \in Canvas
  BY <1>2, FirstFrame
<1>4. /\ \A i \in 1..Count : Waiting[i] = Chosen(cached[i]) /\ Waiting[i] \in Frames
      /\ Begin \in Plays /\ Begin.ticks = <<>> /\ Begin.below = muxed.below
  BY <1>2, WaitingFacts
<1>5. Len(cached') = Count - 1 /\ \A i \in 1..Count - 1 : cached'[i] = cached[i + 1]
  BY <1>1, <1>2
<1>6. Count' = Count - 1
  BY <1>5 DEF Count
<1>7. ASSUME NEW i \in 1..Count - 1 PROVE Waiting'[i] = Waiting[i + 1]
  <2>1. i + 1 \in 1..Count
    BY <1>2
  <2>2. Waiting'[i] = Chosen(cached'[i])
    BY <1>6, Zenon DEF Waiting
  <2> QED BY <1>4, <1>5, <2>1, <2>2
<1>8. Waiting[1] = f
  BY <1>2, <1>3, <1>4
<1> HIDE DEF f
<1>9. Begin' = [below |-> Dispose(canvas, f), shown |-> canvas, ticks |-> <<>>]
  BY <1>1 DEF Begin
<1> HIDE DEF canvas
<1>10. Begin' \in Plays /\ Begin'.ticks = <<>>
       /\ Begin'.below = Dispose(canvas, f) /\ Begin'.shown = canvas
  BY <1>3, <1>9 DEF Plays
<1>11. /\ first \in Plays /\ first.below = Dispose(canvas, f) /\ first.shown = canvas
       /\ first.ticks = Begin.ticks \o Ticks(f.dur, canvas)
  BY <1>3, <1>4, StepType DEF canvas
<1>12. first.ticks \in Seq(Canvas) /\ Len(first.ticks) = f.dur
  <2> DEFINE t == Ticks(f.dur, canvas)
  <2>1. t \in Seq(Canvas) /\ Len(t) = f.dur
    BY <1>3, TicksType
  <2> HIDE DEF t
  <2>2. <<>> \o t = t
    BY <2>1
  <2>3. first.ticks = t
    BY <1>4, <1>11, <2>2 DEF t
  <2> QED BY <2>1, <2>3
<1>13. PICK m \in Nat : m = Count - 1
  BY <1>2
<1>14. /\ first = Step(Begin, Waiting[1]) /\ m + 1 = Count
       /\ \A i \in 1..m + 1 : Waiting[i] \in Frames
       /\ \A i \in 1..m : Waiting'[i] = Waiting[i + 1]
  BY <1>2, <1>4, <1>7, <1>8, <1>13
<1> HIDE DEF first
<1>15. \A n \in 0..m :
         LET a == PlayTo(Begin, Waiting, n + 1)
             b == PlayTo(Begin', Waiting', n)
         IN a.below = b.below /\ a.shown = b.shown /\ a.ticks = first.ticks \o b.ticks
  <2> DEFINE p == Begin
             q == Begin'
             frames == Waiting
             rest == Waiting'
  <2>1. /\ p \in Plays /\ p.ticks = <<>> /\ q \in Plays /\ q.ticks = <<>>
        /\ \A i \in 1..m + 1 : frames[i] \in Frames
        /\ \A i \in 1..m : rest[i] = frames[i + 1]
        /\ first = Step(p, frames[1]) /\ q.below = first.below /\ q.shown = first.shown
    BY <1>4, <1>10, <1>11, <1>13, <1>14
  <2> HIDE DEF p, q, frames, rest
  <2>2. m \in Nat
    BY <1>13
  <2>3. FrontPlayed(p, q, frames, rest, m, first)
    BY <2>1 DEF FrontPlayed
  <2>4. PlaysBehind(p, q, frames, rest, m, first)
    BY <2>2, <2>3, PlayPushed
  <2> QED BY <2>4 DEF PlaysBehind, p, q, frames, rest
<1>16. \A n \in 0..m : PlayTo(Begin', Waiting', n) \in Plays
  <2>1. \A i \in 1..m : Waiting'[i] \in Frames
    <3>1. \A i \in 1..m : i + 1 \in 1..m + 1
      OBVIOUS
    <3> QED BY <1>14, <3>1
  <2> QED BY <1>10, <2>1, PlayType
<1>17. \A n \in 0..m : PlayTo(Begin', Waiting', n).ticks \in Seq(Canvas)
  BY <1>16 DEF Plays
<1>18. \A n \in 0..Count - 1 :
         /\ At(n + 1).below = PlayTo(Begin', Waiting', n).below
         /\ At(n + 1).shown = PlayTo(Begin', Waiting', n).shown
         /\ At(n + 1).ticks = first.ticks \o PlayTo(Begin', Waiting', n).ticks
         /\ PlayTo(Begin', Waiting', n).ticks \in Seq(Canvas)
  BY <1>13, <1>15, <1>17 DEF At
<1> QED BY <1>1, <1>2, <1>5, <1>6, <1>12, <1>18 DEF first, f

\* The oldest entry goes to the mux, and its ticks with it.
LEMMA PushPlays == BaseInv /\ PlayInv /\ PushFrame => PlayInv'
<1> SUFFICES ASSUME BaseInv, PlayInv, PushFrame PROVE PlayInv'
  OBVIOUS
<1> DEFINE f == Chosen(GetFrame(0))
           head == Step(Begin, f).ticks
           now(n) == PlayTo(Begin', Waiting', n)
<1>1. /\ pc \in {"room", "flush", "assemble"} /\ flushCount > 0
      /\ keyframe' = (IF keyframe = -1 THEN -1 ELSE keyframe - 1)
      /\ UNCHANGED <<undecided, isFirst, extra, latest, prevCanvas, prevRect, pc, failed>>
  BY DEF PushFrame, Flushing, flags, KeyframeAfterPush
<1>2. /\ \A n \in 0..Count - 1 :
           /\ At(n + 1).below = now(n).below
           /\ At(n + 1).shown = now(n).shown
           /\ At(n + 1).ticks = head \o now(n).ticks
           /\ now(n).ticks \in Seq(Canvas)
      /\ head \in Seq(Canvas) /\ Len(head) = f.dur
      /\ due' = SubSeq(due, f.dur + 1, Len(due))
      /\ Count' = Count - 1 /\ Count > 0 /\ Count \in Nat
      /\ \A i \in 1..Count - 1 : cached'[i] = cached[i + 1]
  BY Pushed
<1>3. /\ ~isFirst /\ ~failed /\ TypeInv /\ keyframe \in -1..Count - 1 /\ flushCount \in Nat
      /\ due \in Seq(Canvas) /\ latest \in Canvas /\ extra \in Nat
  BY <1>1 DEF BaseInv, EntriesInv, TypeInv, PlayInv, StopInv
<1> HIDE DEF f, head, now
<1>4. /\ \A n \in Nat : At(n)' = PlayTo(Begin', Waiting', n)
      /\ At(Count)' = now(Count - 1)
      /\ Count - 1 \in 0..Count - 1 /\ (Count - 1) + 1 = Count
  BY <1>2 DEF At, now
<1>5. Last' = Last \/ Count' = 0
  <2>1. CASE Count - 1 > 0
    <3>1. Count - 1 \in 1..Count - 1 /\ (Count - 1) + 1 = Count
      BY <1>2, <2>1
    <3> QED BY <1>2, <3>1 DEF Last
  <2> QED BY <1>2, <2>1
<1>6. At(Count).shown = latest /\ At(Count).ticks = due \o Ticks(extra, latest)
  BY <1>3 DEF PlayInv, ShownInv, TicksInv
<1>7. f.dur <= Len(due)
  <2> DEFINE rest == now(Count - 1).ticks
             t == Ticks(extra, latest)
  <2>1. t \in Seq(Canvas) /\ Len(t) = extra
    BY <1>3, TicksType
  <2>2. head \o rest = due \o t /\ rest \in Seq(Canvas)
    BY <1>2, <1>4, <1>6
  <2> HIDE DEF rest, t
  <2>3. Len(head) + Len(rest) = Len(due) + Len(t)
    <3>1. Len(head \o rest) = Len(head) + Len(rest)
      BY <1>2, <2>2, ConcatProperties
    <3>2. Len(due \o t) = Len(due) + Len(t)
      BY <1>3, <2>1, ConcatProperties
    <3> QED BY <2>2, <3>1, <3>2
  <2>4. extra <= Len(rest)
    <3>1. CASE pc # "room"
      <4>1. extra = 0 /\ Len(rest) \in Nat
        BY <1>1, <1>3, <2>2, <3>1 DEF PlayInv, ExtraInv
      <4> QED BY <4>1
    <3>2. CASE pc = "room"
      <4>1. extra <= Chosen(Last).dur
        BY <1>3, <3>2 DEF PlayInv, ExtraInv
      <4>2. Count - 1 > 0 /\ Count - 1 \in Nat
        BY <1>1, <1>2, <1>3, <3>2 DEF BaseInv, RoomInv
      <4> DEFINE k == Count - 1
                 j == k - 1
                 p == At(k)
                 g == Chosen(Last)
      <4>3. k \in Nat /\ k > 0 /\ k + 1 = Count /\ k \in 0..Count
        <5>1. Count \in Nat
          BY <1>2
        <5> QED BY <4>2, <5>1
      <4>4. At(Count) = Step(p, g) /\ p \in Plays /\ g \in Frames
        BY <1>2, LastPlayed DEF BaseInv
      <4>5. j \in 0..Count - 1 /\ j + 1 = k
        BY <4>3
      <4>6. p.ticks = head \o now(j).ticks /\ now(j).ticks \in Seq(Canvas)
        BY <1>2, <4>5
      <4>7. At(Count).ticks = p.ticks \o Ticks(g.dur, Draw(p.below, g)) /\ g.dur \in Nat
            /\ Draw(p.below, g) \in Canvas
        <5> HIDE DEF p, g
        <5>1. Step(p, g).ticks = p.ticks \o Ticks(g.dur, Draw(p.below, g)) /\ g.dur \in Nat
          BY <4>4, StepType
        <5>2. p.below \in Canvas
          BY <4>4 DEF Plays
        <5>3. Draw(p.below, g) \in Canvas
          BY <4>4, <5>2, DrawType
        <5> QED BY <4>4, <5>1, <5>3
      <4> DEFINE u == Ticks(g.dur, Draw(p.below, g))
                 v == now(j).ticks
      <4>8. u \in Seq(Canvas) /\ Len(u) = g.dur
        <5> HIDE DEF p, g
        <5> QED BY <4>7, TicksType
      <4>9. p.ticks \in Seq(Canvas) /\ v \in Seq(Canvas)
        BY <4>4, <4>6 DEF Plays
      <4>10. Len(At(Count).ticks) = Len(head) + Len(v) + Len(u)
        <5>1. At(Count).ticks = p.ticks \o u /\ p.ticks = head \o v
          BY <4>6, <4>7
        <5> HIDE DEF u, v, p
        <5>2. Len(p.ticks \o u) = Len(p.ticks) + Len(u)
          BY <4>8, <4>9, ConcatProperties
        <5>3. Len(head \o v) = Len(head) + Len(v)
          BY <1>2, <4>9, ConcatProperties
        <5> QED BY <5>1, <5>2, <5>3
      <4>11. Len(At(Count).ticks) = Len(head) + Len(rest)
        <5>1. Len(head \o rest) = Len(head) + Len(rest)
          BY <1>2, <2>2, ConcatProperties
        <5> QED BY <1>6, <2>2, <5>1 DEF t
      <4>12. Len(v) \in Nat /\ Len(head) \in Nat /\ Len(rest) \in Nat
        <5>1. v \in Seq(Canvas) /\ head \in Seq(Canvas) /\ rest \in Seq(Canvas)
          BY <1>2, <2>2, <4>9
        <5> HIDE DEF v
        <5> QED BY <5>1
      <4>13. Len(u) = g.dur /\ extra <= g.dur /\ g.dur \in Nat /\ extra \in Nat
        BY <1>3, <4>1, <4>7, <4>8
      <4>14. Len(head) + Len(v) + Len(u) = Len(head) + Len(rest)
        BY <4>10, <4>11
      <4> HIDE DEF v, u, g, j, p
      <4> QED BY <4>12, <4>13, <4>14
    <3> QED BY <3>1, <3>2
  <2>5. Len(head) \in Nat /\ Len(rest) \in Nat /\ Len(due) \in Nat
    BY <1>2, <1>3, <2>2
  <2> QED BY <1>2, <1>3, <2>1, <2>3, <2>4, <2>5
<1>8. TicksInv'
  <2> DEFINE rest == now(Count - 1).ticks
             t == Ticks(extra, latest)
  <2>1. t \in Seq(Canvas) /\ rest \in Seq(Canvas) /\ due \o t = head \o rest
    BY <1>2, <1>3, <1>4, <1>6, TicksType
  <2> HIDE DEF rest, t
  <2>2. /\ due \in Seq(Canvas) /\ head \in Seq(Canvas) /\ t \in Seq(Canvas)
        /\ rest \in Seq(Canvas) /\ due \o t = head \o rest /\ Len(head) <= Len(due)
    BY <1>2, <1>3, <1>7, <2>1
  <2>4. SubSeq(due, Len(head) + 1, Len(due)) \o t = rest
    BY <2>2, FrontTaken
  <2>3. due' \o t = rest
    BY <1>2, <2>4
  <2> QED BY <1>1, <1>4, <2>3 DEF TicksInv, t, rest
<1>9. ShownInv'
  <2>1. now(Count - 1).shown = latest
    BY <1>2, <1>4, <1>6
  <2> QED BY <1>1, <1>4, <2>1 DEF ShownInv
<1>10. LastInv'
  <2>1. CASE Count' = 0
    BY <2>1 DEF LastInv
  <2>2. CASE Count' # 0
    <3>1. Last' = Last /\ Chosen(Last)' = Chosen(Last)
      BY <1>5, <2>2 DEF Chosen
    <3> QED BY <1>1, <1>2, <3>1 DEF PlayInv, LastInv
  <2> QED BY <2>1, <2>2
<1>11. ExtraInv'
  <2>1. CASE pc # "room"
    BY <1>1, <1>3, <2>1 DEF PlayInv, ExtraInv
  <2>2. CASE pc = "room"
    <3>1. Count' # 0
      BY <1>1, <1>2, <1>3, <2>2 DEF BaseInv, RoomInv
    <3>2. Chosen(Last)' = Chosen(Last)
      BY <1>5, <3>1 DEF Chosen
    <3> QED BY <1>1, <1>3, <2>2, <3>2 DEF PlayInv, ExtraInv
  <2> QED BY <2>1, <2>2
<1>12. KeyInv'
  <2> SUFFICES ASSUME keyframe' # -1
               PROVE  LET e == GetFrame(keyframe)'
                          b == At(keyframe)'.below
                      IN /\ Draw(b, e.sub) = Draw(b, e.key)
                         /\ ~e.sub.dispose /\ ~e.key.dispose
                         /\ keyframe' = Count' - 1 => undecided'
    BY DEF KeyInv
  <2>1. keyframe # -1 /\ keyframe' + 1 = keyframe /\ keyframe \in 1..Count - 1
        /\ keyframe' \in Nat /\ keyframe' \in 0..Count - 1
    BY <1>1, <1>2, <1>3
  <2>2. GetFrame(keyframe)' = GetFrame(keyframe)
    BY <1>2, <2>1 DEF GetFrame
  <2>3. At(keyframe)'.below = At(keyframe).below
    <3>1. At(keyframe)' = now(keyframe')
      BY DEF At, now
    <3> QED BY <1>2, <2>1, <3>1
  <2>4. keyframe' = Count' - 1 => keyframe = Count - 1
    BY <1>2, <2>1
  <2> QED BY <1>1, <2>1, <2>2, <2>3, <2>4 DEF PlayInv, KeyInv
<1>13. FirstInv' /\ PrevInv' /\ StopInv'
  BY <1>1, <1>3 DEF PlayInv, FirstInv, PrevInv, StopInv
<1> QED BY <1>8, <1>9, <1>10, <1>11, <1>12, <1>13 DEF PlayInv

\* Every step of a client that stops at the first error keeps the invariant.
LEMMA NextPlays == ~UseAfterError /\ BaseInv /\ PlayInv /\ [Next]_vars => PlayInv'
<1> SUFFICES ASSUME ~UseAfterError, BaseInv, PlayInv, [Next]_vars PROVE PlayInv'
  OBVIOUS
<1>1. CASE UNCHANGED vars
  <2>1. UNCHANGED <<keyframe, undecided, isFirst, muxed, due, extra, latest, prevCanvas,
                    prevRect, cached, pc, failed>>
    BY <1>1 DEF vars, control, flags, history
  <2>2. Count' = Count /\ Last' = Last /\ At(Count)' = At(Count)
    BY <2>1, SameFrames
  <2>3. KeyInv'
    BY <2>1, SameKey DEF PlayInv
  <2>4. Chosen(Last)' = Chosen(Last)
    BY <2>2 DEF Chosen
  <2> QED BY <2>1, <2>2, <2>3, <2>4
          DEF PlayInv, StopInv, FirstInv, TicksInv, ShownInv, PrevInv, LastInv, ExtraInv
<1>2. ASSUME NEW p \in Pictures, NEW d \in 0..MaxDuration - 1, Add(p, d)
      PROVE  PlayInv'
  BY <1>2, AddPlays
<1> QED BY <1>1, <1>2, NullPlays, WrongPlays, CacheFirstPlays, SkipPlays, CacheSubFramePlays,
           CacheBothPlays, EncodingFailsPlays, PushPlays, FlushDonePlays, PushFailsPlays,
           AssemblePlays, Zenon
     DEF Next

\* As long as the client stops at the first error, what the next sub-frame is
\* computed from, prev_canvas_ and prev_rect_, is what a player has after the
\* frames that wait in encoded_frames_, however these are used.
THEOREM PlayerIsFollowed ==
  ASSUME ~UseAfterError
  PROVE  Spec => [](BaseInv /\ PlayInv)
<1>1. Init => BaseInv /\ PlayInv
  BY InitBase, InitPlays
<1>2. BaseInv /\ PlayInv /\ [Next]_vars => (BaseInv /\ PlayInv)'
  BY NextBase, NextPlays
<1> QED BY <1>1, <1>2, PTL DEF Spec

\* A player that decodes what was muxed and what waits shows, tick by tick,
\* exactly the pictures that were added, whatever WebPAnimEncoderAdd() chose,
\* merged, skipped, demoted or flushed on the way.
THEOREM PlayedAsAdded ==
  ASSUME ~UseAfterError
  PROVE  Spec => []PlaysPictures
<1>1. BaseInv /\ PlayInv => PlaysPictures
  <2> SUFFICES ASSUME BaseInv, PlayInv PROVE PlaysPictures
    OBVIOUS
  <2>1. Len(Waiting) = Count /\ Count \in Nat
    BY WaitingFacts DEF BaseInv
  <2>2. Played(Waiting) = At(Count)
    BY <2>1, PlayedIs DEF At
  <2>3. Count > 0 => ~isFirst
    BY <2>1 DEF BaseInv, EntriesInv
  <2>4. At(Count).ticks = due \o Ticks(extra, latest) /\ (Count > 0 => At(Count).shown = latest)
    BY <2>3 DEF PlayInv, TicksInv, ShownInv
  <2> QED BY <2>2, <2>4 DEF PlaysPictures
<1> QED BY <1>1, PlayerIsFollowed, PTL

\* The frame that a better key frame may still demote can be used both ways:
\* either variant leaves the player with the same canvas after the same ticks.
THEOREM DemotionIsUnseen ==
  ASSUME ~UseAfterError
  PROVE  Spec => []EitherVariant
<1>1. BaseInv /\ PlayInv => EitherVariant
  <2> SUFFICES ASSUME BaseInv, PlayInv, keyframe # -1
               PROVE  Played([Waiting EXCEPT ![keyframe + 1] = cached[keyframe + 1].sub])
                        = Played(Waiting)
    BY DEF EitherVariant
  <2>1. /\ Len(Waiting) = Count /\ Count \in Nat /\ keyframe \in -1..Count - 1
        /\ \A i \in 1..Count : Waiting[i] = Chosen(cached[i]) /\ Waiting[i] \in Frames
    BY WaitingFacts DEF BaseInv, TypeInv
  <2> DEFINE e == GetFrame(keyframe)
             b == At(keyframe).below
             frames == Waiting
             others == [Waiting EXCEPT ![keyframe + 1] = cached[keyframe + 1].sub]
  <2>2. e.sub.dur = e.key.dur /\ e.isKey /\ e = cached[keyframe + 1]
    BY DEF BaseInv, EntriesInv, BothFrames, GetFrame
  <2>3. Draw(b, e.sub) = Draw(b, e.key) /\ ~e.sub.dispose /\ ~e.key.dispose
    BY DEF PlayInv, KeyInv
  <2>4. PICK k \in Nat : k = keyframe /\ k + 1 <= Count /\ k + 1 \in 1..Count
    BY <2>1
  <2>5. frames[k + 1] = e.key
    <3>1. Waiting[k + 1] = Chosen(cached[k + 1])
      BY <2>1, <2>4
    <3>2. Chosen(e) = e.key
      BY <2>2 DEF Chosen
    <3> QED BY <2>2, <2>4, <3>1, <3>2
  <2>6. Waiting \in Seq(Frames)
    BY <2>1 DEF Waiting, Count
  <2>7. /\ Len(others) = Count /\ others[k + 1] = e.sub
        /\ \A i \in 1..Count : i # k + 1 => others[i] = frames[i]
    BY <2>1, <2>2, <2>4, <2>6
  <2>8. b = PlayTo(Begin, frames, k).below
    BY <2>4 DEF At
  <2> HIDE DEF e, b, frames, others
  <2>9. PlayTo(Begin, others, Count) = PlayTo(Begin, frames, Count)
    <3> DEFINE m == Count
    <3>1. /\ m \in Nat /\ k + 1 <= m
          /\ \A i \in 1..m : i # k + 1 => others[i] = frames[i]
      BY <2>1, <2>4, <2>7
    <3>2. others[k + 1] = e.sub /\ e.sub.dur = e.key.dur
      BY <2>2, <2>7
    <3> HIDE DEF m
    <3>3. PlayTo(Begin, others, m) = PlayTo(Begin, frames, m)
      BY <2>3, <2>5, <2>8, <3>1, <3>2, DemotedPlay
    <3> QED BY <3>3 DEF m
  <2>10. Played(others) = PlayTo(Begin, others, Count)
    BY <2>7, PlayedIs
  <2>11. Played(frames) = PlayTo(Begin, frames, Count)
    <3>1. Len(frames) = Count
      BY <2>1 DEF frames
    <3> QED BY <3>1, PlayedIs
  <2>12. Played(others) = Played(frames)
    BY <2>9, <2>10, <2>11
  <2> QED BY <2>12 DEF others, frames
<1> QED BY <1>1, PlayerIsFollowed, PTL

-----------------------------------------------------------------------------
(* Distances from the last key frame.                                      *)

\* A player may start at such a frame, wherever it is; the other key frame is
\* the first frame of the animation.
Whole(f) == f.w = Width /\ ~f.blend

\* Entries that change nothing to what is shown.
Quiet(i) ==
  /\ ~cached[i].isKey
  /\ \A b \in Canvas : Draw(b, Chosen(cached[i])) = b
  /\ IF i = 1 THEN muxed.below = muxed.shown ELSE ~Chosen(cached[i - 1]).dispose
Quiets == {i \in 1..Count : Quiet(i)}
Keys   == {i \in 1..Count : cached[i].isKey}

\* dist is at least the distance of each of n frames from the last of keys, and
\* never more than limit.
Counted(dist, since, keys, quiets, n, limit) ==
  /\ dist \in [Nat -> Nat] /\ since <= dist[0]
  /\ \A i \in Nat : dist[i] <= limit
  /\ \A i \in 1..n :
       \/ i \in keys
       \/ dist[i] >= dist[i - 1] + 1
       \/ i \in quiets /\ dist[i] >= dist[i - 1]

Farthest == Max({0, 2 * opts.kmax - opts.kmin - 2})
Elapsed  == IF sinceKey < opts.kmax THEN sinceKey ELSE opts.kmax - 1
Reach    == IF opts.kmax = 0 THEN 0 ELSE Elapsed + opts.kmax - opts.kmin - 1

\* dist counts the frames, when the key frames in unsure are none.
Counting(dist, unsure) ==
  Counted(dist, muxed.sinceKey, Keys \ unsure, Quiets, Count, Farthest)

\* With the key frame that may be demoted, and without it.
Near(dist, far) ==
  /\ Counting(dist, {}) /\ Counting(far, {keyframe + 1})
  /\ keyframe = -1 => dist = far
  /\ far[Count] <= Reach
  /\ bestDelta # DeltaInfinity => dist[Count] <= Elapsed - opts.kmin - 1

KeysInv ==
  \A i \in Keys : Whole(Chosen(cached[i])) \/ (i = 1 /\ ~muxed.any)

DistInv ==
  /\ KeysInv
  /\ keyframe # -1 => bestDelta # DeltaInfinity
  /\ isFirst => ~muxed.any /\ muxed.sinceKey = 0
  /\ \E dist, far \in [Nat -> Nat] : Near(dist, far)

\* One more frame.
LEMMA Grown ==
  ASSUME NEW f, NEW since, NEW keys, NEW quiets, NEW n \in Nat, NEW limit,
         Counted(f, since, keys, quiets, n, limit), NEW m, m = n + 1,
         NEW v \in Nat, v <= limit,
         m \in keys \/ v >= f[n] + 1 \/ (m \in quiets /\ v >= f[n])
  PROVE  \E g : /\ Counted(g, since, keys, quiets, m, limit)
                /\ g = [f EXCEPT ![m] = v] /\ g[m] = v
<1>1. f \in [Nat -> Nat] /\ since <= f[0] /\ \A i \in Nat : f[i] <= limit
  BY DEF Counted
<1>2. PICK g : g = [f EXCEPT ![m] = v]
  OBVIOUS
<1>3. g \in [Nat -> Nat] /\ g[m] = v /\ \A i \in Nat : i # m => g[i] = f[i]
  BY <1>1, <1>2
<1>4. since <= g[0] /\ \A i \in Nat : g[i] <= limit
  <2>1. 0 # m
    OBVIOUS
  <2> QED BY <1>1, <1>3, <2>1
<1>5. ASSUME NEW i \in 1..m
      PROVE  \/ i \in keys
             \/ g[i] >= g[i - 1] + 1
             \/ i \in quiets /\ g[i] >= g[i - 1]
  <2>1. CASE i = m
    <3>1. i - 1 = n /\ n # m /\ n \in Nat
      BY <2>1
    <3>2. g[i - 1] = f[n] /\ g[i] = v
      BY <1>3, <2>1, <3>1
    <3> QED BY <2>1, <3>2
  <2>2. CASE i # m
    <3>1. i \in 1..n /\ i \in Nat /\ i - 1 \in Nat /\ i - 1 # m
      BY <2>2
    <3>2. g[i - 1] = f[i - 1] /\ g[i] = f[i]
      BY <1>3, <2>2, <3>1
    <3>3. \/ i \in keys
          \/ f[i] >= f[i - 1] + 1
          \/ i \in quiets /\ f[i] >= f[i - 1]
      BY <3>1 DEF Counted
    <3> QED BY <3>2, <3>3
  <2> QED BY <2>1, <2>2
<1>6. Counted(g, since, keys, quiets, m, limit)
  BY <1>3, <1>4, <1>5 DEF Counted
<1> QED BY <1>2, <1>3, <1>6

\* The same frames, or more of them that are key frames or change nothing.
LEMMA Kept ==
  ASSUME NEW f, NEW since \in Nat, NEW keys, NEW quiets, NEW n \in Nat, NEW limit,
         Counted(f, since, keys, quiets, n, limit), NEW more, NEW others,
         \A i \in 1..n : (i \in keys => i \in more) /\ (i \in quiets => i \in others)
  PROVE  Counted(f, since, more, others, n, limit)
BY DEF Counted

\* The first frame is pushed.
LEMMA Shifted ==
  ASSUME NEW f, NEW since \in Nat, NEW keys, NEW quiets, NEW n \in Nat, n > 0, NEW limit,
         Counted(f, since, keys, quiets, n, limit), NEW now \in Nat,
         \/ now = 0
         \/ 1 \notin keys /\ now <= since
         \/ 1 \notin keys /\ 1 \notin quiets /\ now <= since + 1,
         NEW rest, NEW still,
         \A i \in 1..n - 1 : (i + 1 \in keys => i \in rest) /\ (i + 1 \in quiets => i \in still),
         NEW g, g = [i \in Nat |-> f[i + 1]]
  PROVE  Counted(g, now, rest, still, n - 1, limit) /\ g[n - 1] = f[n]
<1>1. f \in [Nat -> Nat] /\ since <= f[0] /\ \A i \in Nat : f[i] <= limit
  BY DEF Counted
<1>2. g \in [Nat -> Nat] /\ \A i \in Nat : g[i] = f[i + 1]
  BY <1>1
<1>3. g[n - 1] = f[n] /\ \A i \in Nat : g[i] <= limit
  <2>1. n - 1 \in Nat /\ (n - 1) + 1 = n
    OBVIOUS
  <2>2. \A i \in Nat : i + 1 \in Nat
    OBVIOUS
  <2> QED BY <1>1, <1>2, <2>1, <2>2
<1>4. now <= g[0]
  <2>1. g[0] = f[1] /\ f[0] \in Nat /\ f[1] \in Nat
    BY <1>1, <1>2
  <2>2. \/ 1 \in keys
        \/ f[1] >= f[0] + 1
        \/ 1 \in quiets /\ f[1] >= f[0]
    <3>1. 1 \in 1..n /\ 1 - 1 = 0
      OBVIOUS
    <3> QED BY <3>1, Zenon DEF Counted
  <2> QED BY <1>1, <2>1, <2>2
<1>5. ASSUME NEW i \in 1..n - 1
      PROVE  \/ i \in rest
             \/ g[i] >= g[i - 1] + 1
             \/ i \in still /\ g[i] >= g[i - 1]
  <2>1. i + 1 \in 1..n /\ i \in Nat /\ i - 1 \in Nat /\ (i + 1) - 1 = i /\ (i - 1) + 1 = i
    OBVIOUS
  <2>2. g[i] = f[i + 1] /\ g[i - 1] = f[i]
    BY <1>2, <2>1
  <2>3. \/ i + 1 \in keys
        \/ f[i + 1] >= f[i] + 1
        \/ i + 1 \in quiets /\ f[i + 1] >= f[i]
    BY <2>1 DEF Counted
  <2> QED BY <2>2, <2>3
<1> QED BY <1>2, <1>3, <1>4, <1>5 DEF Counted

\* The numbers the distances are compared with.
LEMMA Limits ==
  ASSUME OptionsInv, sinceKey \in Nat
  PROVE  /\ Farthest \in Nat /\ Reach \in Nat /\ Elapsed \in Int
         /\ opts.kmax \in Int /\ opts.kmin \in Int
         /\ opts.kmax = 0 => Farthest = 0 /\ Reach = 0
         /\ opts.kmax # 0 =>
              /\ opts.kmax >= 2 /\ opts.kmin < opts.kmax
              /\ Farthest = 2 * opts.kmax - opts.kmin - 2
              /\ Reach = Elapsed + opts.kmax - opts.kmin - 1
              /\ Elapsed = (IF sinceKey < opts.kmax THEN sinceKey ELSE opts.kmax - 1)
<1> DEFINE kmax == opts.kmax
           kmin == opts.kmin
           far == 2 * kmax - kmin - 2
<1>1. /\ kmax \in Int /\ kmin \in Int
      /\ (kmax = 0 /\ kmin = 0) \/ (kmax >= 2 /\ kmin < kmax)
  BY DEF OptionsInv
<1>2. Max({0, far}) = IF 0 >= far THEN 0 ELSE far
  BY <1>1, MaxOfTwo
<1>3. Farthest = Max({0, far})
  BY DEF Farthest
<1>4. /\ Elapsed = (IF sinceKey < kmax THEN sinceKey ELSE kmax - 1)
      /\ Reach = (IF kmax = 0 THEN 0 ELSE Elapsed + kmax - kmin - 1)
  BY Zenon DEF Elapsed, Reach
<1> HIDE DEF kmax, kmin
<1>5. /\ Farthest = (IF 0 >= far THEN 0 ELSE far) /\ Elapsed \in Int /\ kmax \in Int /\ kmin \in Int
  BY <1>1, <1>2, <1>3, <1>4
<1>6. /\ Farthest \in Nat /\ Reach \in Nat
      /\ kmax = 0 => Farthest = 0 /\ Reach = 0
      /\ kmax # 0 => kmax >= 2 /\ kmin < kmax /\ Farthest = 2 * kmax - kmin - 2
  BY <1>1, <1>4, <1>5
<1> QED BY <1>4, <1>5, <1>6 DEF kmax, kmin

\* There is no entry before the first one.
LEMMA NoneUnsure ==
  Count \in Nat => \A f : Counting(f, {0}) <=> Counting(f, {})
<1>1. Keys \ {0} = Keys /\ Keys \ {} = Keys
  BY DEF Keys
<1> QED BY <1>1 DEF Counting

\* The entries keep their places and are key frames, drawn and disposed of as
\* before, but for one that is a key frame no more.
SameKinds(d) ==
  /\ d = 0 \/ d \in Keys
  /\ Count \in Nat /\ Count' \in Nat /\ Count' >= Count
  /\ \A i \in 1..Count : i # d =>
       /\ cached'[i].isKey = cached[i].isKey
       /\ Alike(Chosen(cached[i]), Chosen(cached'[i]))
  /\ \A i \in 1..Count - 1 : Chosen(cached'[i]).dispose = Chosen(cached[i]).dispose
  /\ d # 0 => ~cached'[d].isKey
  /\ muxed' = muxed

\* Such entries count as they did.
LEMMA KindsKept ==
  ASSUME NEW d, SameKinds(d)
  PROVE  /\ \A i \in 1..Count : /\ i \in Quiets => i \in Quiets'
                                /\ i \in Keys /\ i # d => i \in Keys'
         /\ \A i \in Keys' : i \in 1..Count =>
              /\ i \in Keys
              /\ Whole(Chosen(cached[i])) => Whole(Chosen(cached'[i]))
<1>1. /\ \A i \in 1..Count : i # d =>
           /\ cached'[i].isKey = cached[i].isKey
           /\ Alike(Chosen(cached[i]), Chosen(cached'[i]))
      /\ Count \in Nat /\ Count' \in Nat /\ Count' >= Count
      /\ d # 0 => ~cached'[d].isKey
      /\ muxed' = muxed
  BY DEF SameKinds
<1>2. ASSUME NEW i \in 1..Count
      PROVE  /\ i \in Quiets => i \in Quiets'
             /\ i \in Keys /\ i # d => i \in Keys'
  <2>1. i \in 1..Count' /\ i # 0
    BY <1>1
  <2>2. i \in Keys /\ i # d => i \in Keys'
    BY <1>1, <2>1 DEF Keys
  <2>3. ASSUME i \in Quiets PROVE i \in Quiets'
    <3>1. /\ ~cached[i].isKey /\ \A b \in Canvas : Draw(b, Chosen(cached[i])) = b
          /\ IF i = 1 THEN muxed.below = muxed.shown ELSE ~Chosen(cached[i - 1]).dispose
      BY <2>3 DEF Quiets, Quiet
    <3>2. i # d
      BY <2>1, <3>1 DEF SameKinds, Keys
    <3>3. ~cached'[i].isKey /\ Alike(Chosen(cached[i]), Chosen(cached'[i]))
      BY <1>1, <3>1, <3>2
    <3>4. \A b \in Canvas : Draw(b, Chosen(cached'[i])) = b
      BY <3>1, <3>3, AlikeDrawn, Zenon
    <3>5. IF i = 1 THEN muxed'.below = muxed'.shown ELSE ~Chosen(cached'[i - 1]).dispose
      <4>1. CASE i = 1
        BY <1>1, <3>1, <4>1
      <4>2. CASE i # 1
        <5>1. i - 1 \in 1..Count - 1
          BY <1>1, <4>2
        <5>2. Chosen(cached'[i - 1]).dispose = Chosen(cached[i - 1]).dispose
          BY <5>1, Zenon DEF SameKinds
        <5> QED BY <3>1, <4>2, <5>2
      <4> QED BY <4>1, <4>2
    <3>6. Quiet(i)'
      <4>1. \A b \in Canvas' : Draw(b, Chosen(cached[i]))' = b
        BY <3>4 DEF Canvas, Colors, Chosen, Draw
      <4>2. IF i = 1 THEN muxed'.below = muxed'.shown ELSE ~Chosen(cached[i - 1])'.dispose
        BY <3>5 DEF Chosen
      <4> QED BY <3>3, <4>1, <4>2 DEF Quiet
    <3> QED BY <2>1, <3>6 DEF Quiets
  <2> QED BY <2>2, <2>3
<1>3. ASSUME NEW i \in Keys', i \in 1..Count
      PROVE  /\ i \in Keys
             /\ Whole(Chosen(cached[i])) => Whole(Chosen(cached'[i]))
  <2>1. cached'[i].isKey
    BY DEF Keys
  <2>2. i # d
    BY <1>1, <1>3, <2>1
  <2>3. cached[i].isKey /\ Alike(Chosen(cached[i]), Chosen(cached'[i]))
    BY <1>1, <1>3, <2>1, <2>2
  <2>4. i \in Keys
    BY <1>3, <2>3 DEF Keys
  <2>5. Whole(Chosen(cached[i])) => Whole(Chosen(cached'[i]))
    BY <2>3, Zenon DEF Alike, Whole
  <2> QED BY <2>4, <2>5
<1> QED BY <1>2, <1>3

\* The invariant follows from two counts.
LEMMA DistFrom ==
  ASSUME KeysInv', keyframe' # -1 => bestDelta' # DeltaInfinity,
         isFirst' => ~muxed'.any /\ muxed'.sinceKey = 0,
         NEW dist, NEW far, Near(dist, far)'
  PROVE  DistInv'
<1>1. dist \in [Nat -> Nat] /\ far \in [Nat -> Nat]
  BY DEF Near, Counting, Counted
<1> QED BY <1>1 DEF DistInv

\* No entry comes or goes.
LEMMA DistKept ==
  ASSUME TypeInv, DistInv, SameKinds(0), Count' = Count,
         UNCHANGED <<opts, keyframe, bestDelta, sinceKey, isFirst>>
  PROVE  DistInv'
<1>1. PICK dist \in [Nat -> Nat], far \in [Nat -> Nat] : Near(dist, far)
  BY DEF DistInv
<1>2. muxed' = muxed /\ Count \in Nat /\ muxed.sinceKey \in Nat
  BY DEF SameKinds, TypeInv
<1>3. /\ \A i \in 1..Count : /\ i \in Quiets => i \in Quiets'
                             /\ i \in Keys => i \in Keys'
      /\ \A i \in Keys' : i \in 1..Count =>
           /\ i \in Keys
           /\ Whole(Chosen(cached[i])) => Whole(Chosen(cached'[i]))
  <2>1. \A i \in 1..Count : i # 0
    BY <1>2
  <2> QED BY <2>1, KindsKept
<1>4. KeysInv'
  <2>1. \A i \in Keys' : i \in 1..Count
    BY DEF Keys
  <2>2. \A i \in Keys' : Whole(Chosen(cached'[i])) \/ (i = 1 /\ ~muxed.any)
    BY <1>3, <2>1 DEF DistInv, KeysInv
  <2> QED BY <1>2, <2>2 DEF KeysInv, Whole, Chosen
<1>5. Farthest' = Farthest /\ Reach' = Reach /\ Elapsed' = Elapsed
  BY DEF Farthest, Reach, Elapsed
<1>6. ASSUME NEW f, NEW x, Counting(f, x) PROVE Counting(f, x)'
  <2>1. Counted(f, muxed.sinceKey, Keys \ x, Quiets, Count, Farthest)
    BY <1>6 DEF Counting
  <2>2. \A i \in 1..Count : /\ i \in Keys \ x => i \in Keys' \ x
                            /\ i \in Quiets => i \in Quiets'
    BY <1>3
  <2>3. Counted(f, muxed.sinceKey, Keys' \ x, Quiets', Count, Farthest)
    BY <1>2, <2>1, <2>2, Kept
  <2> QED BY <1>2, <1>5, <2>3 DEF Counting, Counted
<1>7. Near(dist, far)'
  <2>1. Counting(dist, {})' /\ Counting(far, {keyframe + 1})'
    <3>1. Counting(dist, {}) /\ Counting(far, {keyframe + 1})
      BY <1>1 DEF Near
    <3>2. \A x : x = {keyframe + 1} => (Counting(far, x) => Counting(far, x)')
      BY <1>6
    <3>3. Counting(dist, {})'
      BY <1>6, <3>1
    <3> DEFINE x == {keyframe + 1}
    <3>4. x' = x
      OBVIOUS
    <3>5. Counting(far, x)'
      BY <1>6, <3>1, <3>4
    <3> QED BY <3>3, <3>5
  <2> QED BY <1>1, <1>5, <2>1 DEF Near
<1> QED BY <1>2, <1>4, <1>7, DistFrom DEF DistInv

\* An entry comes at the distance v, when f counted the entries before it
\* without the key frames in x, and the key frames in y are not to be counted.
Comes(d, f, x, y, v) ==
  /\ SameKinds(d) /\ Count' = Count + 1 /\ opts' = opts
  /\ Counting(f, x) /\ v \in Nat /\ v <= Farthest
  /\ \A i \in Keys : i \notin x => i # d /\ i \notin y
  /\ \/ Count + 1 \in Keys' /\ Count + 1 \notin y
     \/ v >= f[Count] + 1
     \/ Count + 1 \in Quiets' /\ v >= f[Count]

\* The function that counts it too.
Extends(g, f, y, v) ==
  /\ Counted(g, muxed'.sinceKey, Keys' \ y, Quiets', Count', Farthest')
  /\ g = [f EXCEPT ![Count + 1] = v] /\ g[Count'] = v

\* A count goes on to the entry that comes.
LEMMA Appended ==
  ASSUME TypeInv, NEW d, NEW f, NEW x, NEW y, NEW v, Comes(d, f, x, y, v)
  PROVE  \E g : Extends(g, f, y, v)
<1>0. /\ SameKinds(d) /\ Count' = Count + 1 /\ opts' = opts
      /\ Counting(f, x) /\ v \in Nat /\ v <= Farthest
      /\ \A i \in Keys : i \notin x => i # d /\ i \notin y
      /\ \/ Count + 1 \in Keys' /\ Count + 1 \notin y
         \/ v >= f[Count] + 1
         \/ Count + 1 \in Quiets' /\ v >= f[Count]
  BY DEF Comes
<1>1. /\ Count \in Nat /\ muxed.sinceKey \in Nat /\ muxed' = muxed
      /\ Counted(f, muxed.sinceKey, Keys \ x, Quiets, Count, Farthest)
  BY <1>0 DEF SameKinds, TypeInv, Counting
<1>2. Farthest' = Farthest
  BY <1>0 DEF Farthest
<1>3. \A i \in 1..Count : /\ i \in Keys \ x => i \in Keys' \ y
                          /\ i \in Quiets => i \in Quiets'
  BY <1>0, KindsKept
<1>4. Counted(f, muxed.sinceKey, Keys' \ y, Quiets', Count, Farthest)
  BY <1>1, <1>3, Kept
<1>5. PICK n, m : n \in Nat /\ n = Count /\ m = n + 1
  BY <1>1
<1>6. m \in Keys' \ y \/ v >= f[n] + 1 \/ (m \in Quiets' /\ v >= f[n])
  BY <1>0, <1>5
<1>7. \E g : /\ Counted(g, muxed.sinceKey, Keys' \ y, Quiets', m, Farthest)
             /\ g = [f EXCEPT ![m] = v] /\ g[m] = v
  <2>1. Counted(f, muxed.sinceKey, Keys' \ y, Quiets', n, Farthest)
    BY <1>4, <1>5
  <2> QED BY <1>0, <1>5, <1>6, <2>1, Grown
<1> QED BY <1>0, <1>1, <1>2, <1>5, <1>7 DEF Extends

\* The key frames after an entry is added.
LEMMA AppendedKeys ==
  ASSUME KeysInv, NEW d, SameKinds(d), Count' = Count + 1,
         Count + 1 \in Keys' => Whole(Chosen(cached'[Count + 1]))
  PROVE  KeysInv'
<1>1. Count \in Nat /\ muxed' = muxed
  BY DEF SameKinds
<1>2. \A i \in Keys' : i \in 1..Count \/ i = Count + 1
  BY <1>1 DEF Keys
<1>3. \A i \in Keys' : Whole(Chosen(cached'[i])) \/ (i = 1 /\ ~muxed.any)
  BY <1>2, KindsKept DEF KeysInv
<1> QED BY <1>1, <1>3 DEF KeysInv, Whole, Chosen

\* The transparent frame takes no distance.
LEMMA DistIncreased ==
  ASSUME BaseInv, PlayInv, DistInv, ~failed, Count > 0, NEW n \in Nat,
         IncreasePreviousDuration(n), UNCHANGED <<opts, keyframe, bestDelta, isFirst, muxed>>
  PROVE  DistInv'
<1>1. /\ TypeInv /\ OptionsInv /\ Count \in Nat /\ Count \in 1..Count /\ Count' = Len(cached')
      /\ sinceKey \in Nat /\ sinceKey <= opts.kmax + 1 /\ keyframe \in -1..Count - 1
      /\ \A i \in 1..Count : cached[i] \in Entries
  BY CachedTypes DEF BaseInv, TypeInv, RoomInv, Count
<1>2. CASE /\ ~Overflows(n) /\ Len(cached') = Count
           /\ \A i \in 1..Count - 1 : cached'[i] = cached[i]
           /\ cached'[Count] = Extend(cached[Count], n)
           /\ sinceKey' = sinceKey
  <2>1. ASSUME NEW i \in 1..Count
        PROVE  /\ cached'[i].isKey = cached[i].isKey
               /\ Alike(Chosen(cached[i]), Chosen(cached'[i]))
    <3>1. CASE i = Count
      <4> DEFINE e == cached[Count]
                 g == cached'[Count]
      <4>1. e \in Entries /\ g = Extend(e, n)
        BY <1>1, <1>2
      <4> HIDE DEF e, g
      <4>2. g.isKey = e.isKey /\ Alike(Chosen(e), Chosen(g))
        BY <4>1, Extended
      <4> QED BY <3>1, <4>2 DEF e, g
    <3>2. CASE i # Count
      <4>1. i \in 1..Count - 1
        BY <1>1, <3>2
      <4>2. cached'[i] = cached[i]
        BY <1>2, <4>1
      <4> QED BY <4>2 DEF Alike
    <3> QED BY <3>1, <3>2
  <2>2. SameKinds(0)
    BY <1>1, <1>2, <2>1 DEF SameKinds
  <2> QED BY <1>1, <1>2, <2>2, DistKept
<1>3. CASE /\ Overflows(n) /\ Len(cached') = Count + 1
           /\ \A i \in 1..Count : cached'[i] = cached[i]
           /\ cached'[Count + 1] = Filler(n)
           /\ sinceKey' = Saturated(sinceKey + 1)
  <2>1. SameKinds(0)
    BY <1>1, <1>3 DEF SameKinds, Alike
  <2> DEFINE e == cached'[Count + 1]
  <2>2. Chosen(e) = e.sub /\ e.isKey = FALSE /\ \A b \in Canvas : Draw(b, e.sub) = b
    <3>1. e = Filler(n)
      BY <1>3
    <3> HIDE DEF e
    <3> QED BY <3>1, FillerRight
  <2>3. ~Chosen(cached'[Count]).dispose
    <3>1. cached'[Count] = cached[Count]
      BY <1>1, <1>3
    <3>2. ~Chosen(cached[Count]).dispose
      BY DEF PlayInv, LastInv, Last
    <3> QED BY <3>1, <3>2
  <2>4. Count + 1 \in Quiets'
    <3>1. Count + 1 \in 1..Count' /\ Count + 1 # 1 /\ (Count + 1) - 1 = Count
      BY <1>1, <1>3
    <3>2. PICK l : l = Count + 1
      OBVIOUS
    <3>3. l # 1 /\ l - 1 = Count /\ ~cached'[l].isKey /\ ~Chosen(cached'[l - 1]).dispose
          /\ \A b \in Canvas : Draw(b, Chosen(cached'[l])) = b
      BY <2>2, <2>3, <3>1, <3>2
    <3>4. ~Chosen(cached[l - 1])'.dispose /\ \A b \in Canvas' : Draw(b, Chosen(cached[l]))' = b
      BY <3>3, Zenon DEF Chosen, Canvas, Colors, Draw
    <3>5. Quiet(l)'
      BY <3>3, <3>4 DEF Quiet
    <3>6. l \in Quiets'
      BY <3>1, <3>2, <3>5 DEF Quiets
    <3> QED BY <3>2, <3>6
  <2>5. KeysInv'
    <3>1. Count + 1 \notin Keys'
      BY <2>2 DEF Keys
    <3> QED BY <1>1, <1>3, <2>1, <3>1, AppendedKeys DEF DistInv
  <2>6. PICK dist \in [Nat -> Nat], far \in [Nat -> Nat] : Near(dist, far)
    BY DEF DistInv
  <2>7. /\ dist[Count] \in Nat /\ far[Count] \in Nat
        /\ dist[Count] <= Farthest /\ far[Count] <= Farthest
    BY <1>1, <2>6 DEF Near, Counting, Counted
  <2>8. PICK nearer : /\ nearer = [dist EXCEPT ![Count + 1] = dist[Count]]
                      /\ Counting(nearer, {})' /\ nearer[Count'] = dist[Count]
    <3>1. \A i \in Keys : i \notin {} => i # 0 /\ i \notin {}
      BY DEF Keys
    <3>2. PICK v : v = dist[Count]
      OBVIOUS
    <3>3. Counting(dist, {}) /\ v \in Nat /\ v <= Farthest /\ v >= dist[Count]
      BY <2>6, <2>7, <3>2 DEF Near
    <3>4. Comes(0, dist, {}, {}, v)
      BY <1>1, <1>3, <2>1, <2>4, <3>1, <3>3 DEF Comes
    <3>5. PICK g : Extends(g, dist, {}, v)
      BY <1>1, <3>4, Appended
    <3> QED BY <3>2, <3>5 DEF Extends, Counting
  <2>9. PICK further : /\ further = [far EXCEPT ![Count + 1] = far[Count]]
                       /\ Counting(further, {keyframe + 1})' /\ further[Count'] = far[Count]
    <3>0. PICK y : y = {keyframe + 1}
      OBVIOUS
    <3>1. \A i \in Keys : i \notin y => i # 0 /\ i \notin y
      BY DEF Keys
    <3>2. PICK v : v = far[Count]
      OBVIOUS
    <3>3. Counting(far, y) /\ v \in Nat /\ v <= Farthest /\ v >= far[Count]
      BY <2>6, <2>7, <3>0, <3>2 DEF Near
    <3>4. Comes(0, far, y, y, v)
      BY <1>1, <1>3, <2>1, <2>4, <3>1, <3>3 DEF Comes
    <3>5. PICK g : Extends(g, far, y, v)
      BY <1>1, <3>4, Appended
    <3>6. y = {keyframe' + 1}
      BY <3>0
    <3> QED BY <3>2, <3>5, <3>6 DEF Extends, Counting
  <2>10. /\ sinceKey' \in Nat /\ OptionsInv'
         /\ sinceKey' = sinceKey + 1 \/ (sinceKey' = opts.kmax + 1 /\ sinceKey' < sinceKey + 1)
    <3>1. sinceKey + 1 \in Nat
      BY <1>1
    <3> QED BY <1>1, <1>3, <3>1, SaturatedRight DEF OptionsInv
  <2>11. Reach' >= Reach /\ Elapsed' >= Elapsed /\ Reach \in Nat /\ Reach' \in Nat
         /\ Elapsed \in Int /\ Elapsed' \in Int /\ opts.kmin \in Int
    <3>1. /\ Reach \in Nat /\ Elapsed \in Int /\ opts.kmax \in Int /\ opts.kmin \in Int
          /\ opts.kmax = 0 => Reach = 0
          /\ opts.kmax # 0 => Reach = Elapsed + opts.kmax - opts.kmin - 1
          /\ opts.kmax = 0 \/ opts.kmax >= 2
      BY <1>1, Limits
    <3>2. Elapsed' = (IF sinceKey' < opts.kmax THEN sinceKey' ELSE opts.kmax - 1)
          /\ Elapsed = (IF sinceKey < opts.kmax THEN sinceKey ELSE opts.kmax - 1)
          /\ Reach' = (IF opts.kmax = 0 THEN 0 ELSE Elapsed' + opts.kmax - opts.kmin - 1)
      BY DEF Elapsed, Reach
    <3>3. Elapsed' >= Elapsed /\ Elapsed' \in Int
      <4>1. /\ sinceKey \in Nat /\ sinceKey' \in Nat /\ opts.kmax \in Int
            /\ sinceKey' = sinceKey + 1 \/ (sinceKey' = opts.kmax + 1 /\ sinceKey' < sinceKey + 1)
        BY <1>1, <2>10, <3>1
      <4> QED BY <3>2, <4>1
    <3>4. Reach' >= Reach /\ Reach' \in Int
      BY <3>1, <3>2, <3>3
    <3> QED BY <3>1, <3>3, <3>4
  <2>12. Near(nearer, further)'
    <3>1. /\ keyframe = -1 => dist = far
          /\ far[Count] <= Reach
          /\ bestDelta # DeltaInfinity => dist[Count] <= Elapsed - opts.kmin - 1
      BY <2>6 DEF Near
    <3>2. keyframe = -1 => nearer = further
      BY <2>8, <2>9, <3>1
    <3>3. further[Count'] <= Reach'
      BY <2>7, <2>9, <2>11, <3>1
    <3>4. bestDelta # DeltaInfinity => nearer[Count'] <= Elapsed' - opts.kmin - 1
      BY <2>7, <2>8, <2>11, <3>1
    <3> QED BY <2>8, <2>9, <3>2, <3>3, <3>4 DEF Near
  <2> QED BY <2>5, <2>12, DistFrom DEF DistInv
<1> QED BY <1>1, <1>2, <1>3, Increased, Zenon

\* A key frame that is not the first frame repaints the whole canvas.
LEMMA KeyIsWhole ==
  ASSUME BaseInv, Caching, ~isFirst, NEW c \in Candidates(input.canvas, TRUE)
  PROVE  Whole(c.frame)
<1> DEFINE yes == TRUE
           curr == input.canvas
<1>1. prevCanvas \in Canvas /\ curr \in Canvas /\ isFirst \in BOOLEAN
  BY CachingFacts
<1>2. yes \in BOOLEAN /\ yes /\ c \in Candidates(curr, yes)
  OBVIOUS
<1> HIDE DEF yes, curr
<1> DEFINE none == RectNone(curr, yes)
           no == FALSE
<1>3. /\ none \in Rects /\ Covers(none, prevCanvas, curr)
      /\ none = [x |-> 0, w |-> Width]
  BY <1>1, <1>2, SubRects DEF RectNone
<1>4. no \in BOOLEAN /\ c = Candidate(prevCanvas, curr, none, yes, no)
  BY <1>2, Zenon DEF Candidates, DisposeBgPossible
<1> HIDE DEF none, no
<1>5. c.frame.w = none.w /\ ~c.frame.blend
  <2>1. /\ prevCanvas \in Canvas /\ curr \in Canvas /\ none \in Rects
        /\ Covers(none, prevCanvas, curr) /\ yes \in BOOLEAN /\ no \in BOOLEAN
        /\ c = Candidate(prevCanvas, curr, none, yes, no)
    BY <1>1, <1>2, <1>3, <1>4
  <2>2. c.frame.w = none.w /\ (yes => ~c.frame.blend)
    BY <2>1, Drawn
  <2> QED BY <1>2, <2>2
<1> QED BY <1>3, <1>5 DEF Whole

\* The variant of a sub-frame leaves the entries before it of the same kind.
LEMMA BeforeKinds ==
  ASSUME BaseInv, Count > 0, NEW c, c.frame \in Frames, c.disposePrev \in BOOLEAN
  PROVE  /\ \A i \in 1..Count :
              /\ CachedWith(c)[i].isKey = cached[i].isKey
              /\ Alike(Chosen(cached[i]), Chosen(CachedWith(c)[i]))
         /\ \A i \in 1..Count - 1 : CachedWith(c)[i] = cached[i]
<1>1. /\ TypeInv /\ EntriesInv /\ Count \in Nat /\ undecided \in BOOLEAN
      /\ \A i \in 1..Count : cached[i] \in Entries
  BY CachedTypes DEF BaseInv, TypeInv
<1>2. /\ \A i \in 1..Count - 1 : CachedWith(c)[i] = cached[i]
      /\ CachedWith(c)[Count] = SetPreviousDispose(cached[Count], c.disposePrev)
  BY <1>1, CachedWithRight
<1>3. /\ CachedWith(c)[Count].isKey = cached[Count].isKey
      /\ Alike(Chosen(cached[Count]), Chosen(CachedWith(c)[Count]))
  <2> DEFINE e == cached[Count]
             d == c.disposePrev
             g == CachedWith(c)[Count]
  <2>1. /\ e \in Entries /\ d \in BOOLEAN /\ g = SetPreviousDispose(e, d)
        /\ undecided \in BOOLEAN /\ (undecided => BothFrames(e))
    BY <1>1, <1>2 DEF EntriesInv
  <2> HIDE DEF e, d, g
  <2>2. g.isKey = e.isKey /\ Alike(Chosen(e), Chosen(g))
    BY <2>1, DisposalSet
  <2> QED BY <2>2 DEF e, g
<1>4. ASSUME NEW i \in 1..Count
      PROVE  /\ CachedWith(c)[i].isKey = cached[i].isKey
             /\ Alike(Chosen(cached[i]), Chosen(CachedWith(c)[i]))
  <2>1. CASE i = Count
    BY <1>3, <2>1
  <2>2. CASE i # Count
    <3>1. i \in 1..Count - 1
      BY <1>1, <2>2
    <3>2. CachedWith(c)[i] = cached[i]
      BY <1>2, <3>1
    <3> QED BY <3>2, Zenon DEF Alike
  <2> QED BY <2>1, <2>2
<1> QED BY <1>2, <1>4

\* A sub-frame comes.  It is not time for a key frame, so that none is chosen.
LEMMA DistSub ==
  ASSUME BaseInv, DistInv, CacheSubFrame
  PROVE  DistInv'
<1>1. Caching /\ ~isFirst /\ Accept /\ sinceKey + 1 <= opts.kmin
      /\ sinceKey' = sinceKey + 1 /\ isFirst' = FALSE
      /\ UNCHANGED <<opts, bestDelta, keyframe, muxed>>
  BY DEF CacheSubFrame, NewPrevious, Accept
<1>2. PICK c \in Candidates(input.canvas, FALSE) : cached' = CachedWith(c)
  BY DEF CacheSubFrame
<1>3. c.frame \in Frames /\ c.disposePrev \in BOOLEAN
  BY <1>1, SubCandidate
<1>4. /\ Count \in Nat /\ Count > 0 /\ sinceKey \in Nat /\ TypeInv /\ EntriesInv /\ OptionsInv
      /\ opts.kmin \in Int /\ opts.kmax \in Int
      /\ bestDelta = DeltaInfinity
      /\ opts.kmax >= 2 /\ opts.kmin < opts.kmax
  <2>1. /\ Count \in Nat /\ Count > 0 /\ sinceKey \in Nat
        /\ opts.kmin \in Int /\ opts.kmax \in Int
        /\ bestDelta # DeltaInfinity => sinceKey >= opts.kmin + 1
        /\ \/ opts.kmax = 0 /\ opts.kmin = 0
           \/ opts.kmax >= 2 /\ opts.kmin < opts.kmax
    BY <1>1, CachingFacts
  <2> QED BY <1>1, <2>1 DEF BaseInv
<1>5. keyframe = -1
  BY <1>4 DEF DistInv
<1>6. /\ Len(cached') = Count + 1 /\ Count' = Count + 1
      /\ cached'[Count + 1].isKey = FALSE
  <2>1. /\ Len(CachedWith(c)) = Count + 1
        /\ CachedWith(c)[Count + 1] = [sub |-> c.frame, key |-> NoFrame, isKey |-> FALSE]
    BY <1>3, <1>4, CachedWithRight
  <2> QED BY <1>2, <2>1 DEF Count
<1>7. SameKinds(0)
  BY <1>1, <1>2, <1>3, <1>4, <1>6, BeforeKinds DEF SameKinds
<1>8. KeysInv'
  <2>1. Count + 1 \notin Keys'
    BY <1>6 DEF Keys
  <2> QED BY <1>6, <1>7, <2>1, AppendedKeys DEF DistInv
<1>9. PICK dist \in [Nat -> Nat], far \in [Nat -> Nat] : Near(dist, far)
  BY DEF DistInv
<1>10. dist = far /\ Counting(far, {}) /\ far[Count] <= Reach /\ far[Count] \in Nat
  BY <1>4, <1>5, <1>9 DEF Near
<1>11. /\ Reach = sinceKey + opts.kmax - opts.kmin - 1
       /\ Reach' = sinceKey + 1 + opts.kmax - opts.kmin - 1
       /\ Farthest = 2 * opts.kmax - opts.kmin - 2
  <2>1. /\ opts.kmax # 0 /\ sinceKey < opts.kmax /\ sinceKey + 1 < opts.kmax
    BY <1>1, <1>4
  <2>2. Elapsed = sinceKey /\ Elapsed' = sinceKey + 1
    BY <1>1, <2>1 DEF Elapsed
  <2> QED BY <1>1, <1>4, <2>1, <2>2, Limits DEF Reach
<1>12. PICK v : v = far[Count] + 1
  OBVIOUS
<1>13. v <= Farthest /\ v <= Reach'
  <2>1. /\ far[Count] \in Nat /\ sinceKey \in Nat /\ opts.kmin \in Int /\ opts.kmax \in Int
        /\ sinceKey + 1 <= opts.kmin /\ opts.kmin < opts.kmax
        /\ far[Count] <= sinceKey + opts.kmax - opts.kmin - 1
    BY <1>1, <1>4, <1>10, <1>11
  <2> QED BY <1>11, <1>12, <2>1
<1>14. PICK y : y = {}
  OBVIOUS
<1>15. PICK g : Counting(g, y)' /\ g[Count'] = v
  <2>1. \A i \in Keys : i \notin y => i # 0 /\ i \notin y
    BY DEF Keys
  <2>2. Counting(far, y)
    BY <1>10, <1>14
  <2>3. PICK d : d = 0
    OBVIOUS
  <2>4. v >= far[Count] + 1 /\ v \in Nat /\ \A i \in Keys : i \notin y => i # d /\ i \notin y
    BY <1>10, <1>12, <2>1, <2>3
  <2>5. Comes(d, far, y, y, v)
    BY <1>1, <1>6, <1>7, <1>13, <2>2, <2>3, <2>4 DEF Comes
  <2>6. \E g : Extends(g, far, y, v)
    BY <1>4, <2>5, Appended
  <2> QED BY <2>6 DEF Extends, Counting
<1>16. Counting(g, {})'
  BY <1>14, <1>15
<1>17. Counting(g, {keyframe + 1})'
  <2>1. Keys' \ {0} = Keys' /\ Keys' \ {} = Keys'
    BY DEF Keys
  <2>2. Counting(g, {0})'
    BY <1>16, <2>1 DEF Counting
  <2>3. keyframe' + 1 = 0
    BY <1>1, <1>5
  <2> QED BY <2>2, <2>3 DEF Counting
<1>18. Near(g, g)'
  BY <1>1, <1>4, <1>13, <1>15, <1>16, <1>17 DEF Near
<1> QED BY <1>1, <1>5, <1>8, <1>18, DistFrom

\* The first frame is a key frame, and may be played first.
LEMMA DistFirst ==
  ASSUME BaseInv, DistInv, CacheFirst
  PROVE  DistInv'
<1>1. /\ Caching /\ isFirst /\ sinceKey' = 0 /\ isFirst' = FALSE
      /\ UNCHANGED <<opts, bestDelta, keyframe, muxed>>
  BY DEF CacheFirst, NewPrevious, Accept
<1>2. PICK c : cached' = <<[sub |-> NoFrame, key |-> c.frame, isKey |-> TRUE]>>
  BY DEF CacheFirst
<1>3. /\ ~muxed.any /\ muxed.sinceKey = 0 /\ bestDelta = DeltaInfinity /\ keyframe = -1
      /\ OptionsInv
  BY <1>1, CachingFacts DEF DistInv, BaseInv
<1>4. Count' = 1 /\ Keys' = {1}
  BY <1>2 DEF Count, Keys
<1>5. KeysInv'
  BY <1>1, <1>3, <1>4 DEF KeysInv
<1>6. Farthest' \in Nat /\ Reach' \in Nat
  <2>1. Farthest' = Farthest /\ Farthest \in Nat
    <3>1. sinceKey \in Nat
      BY <1>1, CachingFacts
    <3> QED BY <1>1, <1>3, <3>1, Limits DEF Farthest
  <2>2. Elapsed' = (IF 0 < opts.kmax THEN 0 ELSE opts.kmax - 1)
    BY <1>1 DEF Elapsed
  <2>3. Reach' = (IF opts.kmax = 0 THEN 0 ELSE Elapsed' + opts.kmax - opts.kmin - 1)
    BY <1>1 DEF Reach
  <2>4. /\ opts.kmax \in Int /\ opts.kmin \in Int
        /\ opts.kmax = 0 \/ (opts.kmax >= 2 /\ opts.kmin < opts.kmax)
    BY <1>3 DEF OptionsInv
  <2> QED BY <2>1, <2>2, <2>3, <2>4
<1>7. PICK g : g = [i \in Nat |-> 0]
  OBVIOUS
<1>8. g \in [Nat -> Nat] /\ g[0] = 0 /\ g[1] = 0 /\ \A i \in Nat : g[i] = 0
  BY <1>7
<1>9. ASSUME NEW x, 1 \notin x PROVE Counted(g, 0, Keys' \ x, Quiets', 1, Farthest')
  BY <1>4, <1>6, <1>8, <1>9 DEF Counted
<1>10. Counting(g, {})'
  <2>1. Counted(g, 0, Keys' \ {}, Quiets', 1, Farthest')
    BY <1>9
  <2> QED BY <1>1, <1>3, <1>4, <2>1 DEF Counting
<1>11. Counting(g, {keyframe + 1})'
  <2>1. keyframe' + 1 = 0 /\ 1 \notin {keyframe' + 1}
    BY <1>1, <1>3
  <2>2. Counted(g, 0, Keys' \ {keyframe' + 1}, Quiets', 1, Farthest')
    BY <1>9, <2>1
  <2> QED BY <1>1, <1>3, <1>4, <2>2 DEF Counting
<1>12. Near(g, g)'
  BY <1>1, <1>3, <1>4, <1>6, <1>8, <1>10, <1>11 DEF Near
<1> QED BY <1>1, <1>3, <1>5, <1>12, DistFrom

\* What WebPAnimEncoderAdd() caches when it encodes both variants: a key frame
\* or not, and the key frame that was the best until then is one no more.
Decided(chosen, d) ==
  /\ chosen \in BOOLEAN
  /\ d = IF chosen /\ keyframe # -1 THEN keyframe + 1 ELSE 0
  /\ SameKinds(d) /\ Count' = Count + 1 /\ KeysInv'
  /\ chosen => Count + 1 \in Keys'
  /\ ~chosen => bestDelta # DeltaInfinity
  /\ keyframe' = IF PeriodEnds THEN -1 ELSE IF chosen THEN Count ELSE keyframe
  /\ bestDelta' = DeltaInfinity <=> PeriodEnds

\* CacheBoth decides so: a new key frame repaints the canvas, and the one that
\* is demoted was disposed of like its sub-frame.
LEMMA BothDecided ==
  ASSUME BaseInv, PlayInv, DistInv, CacheBoth
  PROVE  \E chosen, d : Decided(chosen, d)
<1>1. Caching /\ ~isFirst /\ Accept /\ muxed' = muxed
  BY DEF CacheBoth, Accept
<1>2. PICK c \in Candidates(input.canvas, FALSE), k \in Candidates(input.canvas, TRUE),
           penalty \in Penalties :
        LET chosen == penalty <= bestDelta IN
        /\ cached' = CachedBoth(c, k.frame, chosen)
        /\ keyframe' = NextKeyframe(chosen)
        /\ bestDelta' = NextBestDelta(chosen, penalty)
  BY Zenon DEF CacheBoth, CachedBoth
<1>3. /\ c.frame \in Frames /\ c.frame.dur = 0 /\ c.disposePrev \in BOOLEAN
      /\ k.frame \in Frames /\ k.frame.dur = 0 /\ Whole(k.frame)
  BY <1>1, SubCandidate, KeyCandidate, KeyIsWhole
<1>4. /\ Count \in Nat /\ Count > 0 /\ keyframe \in -1..Count - 1
      /\ TypeInv /\ EntriesInv /\ \A i \in 1..Count : cached[i] \in Entries
  BY <1>1, CachingFacts, CachedTypes DEF BaseInv
<1>5. /\ DeltaInfinity \in Int /\ penalty \in Int /\ penalty < DeltaInfinity
      /\ bestDelta \in Penalties \cup {DeltaInfinity}
      /\ \A p \in Penalties : p \in Int /\ p < DeltaInfinity
  BY Infinity DEF BaseInv, TypeInv
<1>6. PICK chosen \in BOOLEAN : chosen <=> penalty <= bestDelta
  OBVIOUS
<1>7. /\ cached' = CachedBoth(c, k.frame, chosen)
      /\ keyframe' = (IF PeriodEnds THEN -1 ELSE IF chosen THEN Count ELSE keyframe)
      /\ bestDelta' = (IF PeriodEnds THEN DeltaInfinity
                       ELSE IF chosen THEN penalty ELSE bestDelta)
  <2>1. chosen = (penalty <= bestDelta)
    BY <1>6
  <2> QED BY <1>2, <2>1, Zenon DEF NextKeyframe, NextBestDelta
<1>8. ~chosen => bestDelta # DeltaInfinity
  BY <1>5, <1>6
<1>9. bestDelta' = DeltaInfinity <=> PeriodEnds
  BY <1>5, <1>7, <1>8
<1>10. PICK d : d = IF chosen /\ keyframe # -1 THEN keyframe + 1 ELSE 0
  OBVIOUS
<1>11. PICK f : f = k.frame /\ f \in Frames /\ f.dur = 0 /\ Whole(f)
  BY <1>3
<1>12. /\ Len(cached') = Count + 1
       /\ cached'[Count + 1] = [sub |-> c.frame, key |-> f, isKey |-> chosen]
       /\ \A i \in 1..Count :
            cached'[i] = IF chosen /\ i = keyframe + 1
                           THEN [CachedWith(c)[i] EXCEPT !.isKey = FALSE]
                           ELSE CachedWith(c)[i]
  <2>1. cached' = CachedBoth(c, f, chosen)
    BY <1>7, <1>11
  <2> QED BY <1>3, <1>4, <1>11, <2>1, BothCachedRight
<1>13. Count' = Count + 1
  BY <1>12 DEF Count
<1>14. /\ \A i \in 1..Count :
            /\ CachedWith(c)[i].isKey = cached[i].isKey
            /\ Alike(Chosen(cached[i]), Chosen(CachedWith(c)[i]))
       /\ \A i \in 1..Count - 1 : CachedWith(c)[i] = cached[i]
  BY <1>3, <1>4, BeforeKinds
<1>15. ASSUME d # 0
       PROVE  /\ d \in Keys /\ ~cached'[d].isKey
              /\ Chosen(cached'[d]).dispose = Chosen(cached[d]).dispose
  <2>1. chosen /\ keyframe # -1 /\ d = keyframe + 1
    BY <1>10, <1>15
  <2>2. /\ CachedWith(c)[d] = cached[d] /\ d \in 1..Count
        /\ BothFrames(cached[d]) /\ cached[d].isKey
        /\ ~cached[d].sub.dispose /\ ~cached[d].key.dispose
    BY <1>1, <2>1, KeyEntryKept DEF GetFrame
  <2>3. cached'[d] = [cached[d] EXCEPT !.isKey = FALSE] /\ cached[d] \in Entries
    BY <1>4, <1>12, <2>1, <2>2
  <2>4. ~cached'[d].isKey /\ Chosen(cached'[d]) = cached[d].sub
        /\ Chosen(cached[d]) = cached[d].key
    <3> DEFINE e == cached[d]
               g == cached'[d]
    <3>1. e \in Entries /\ BothFrames(e) /\ g = [e EXCEPT !.isKey = FALSE] /\ e.isKey
      BY <2>2, <2>3
    <3> HIDE DEF e, g
    <3>2. Chosen(g) = e.sub
      BY <3>1, Demoted
    <3>3. ~g.isKey
      BY <3>1 DEF Entries
    <3>4. Chosen(e) = e.key
      BY <3>1 DEF Chosen
    <3> QED BY <3>2, <3>3, <3>4 DEF e, g
  <2>5. cached[d].sub.dispose \in BOOLEAN /\ cached[d].key.dispose \in BOOLEAN
    <3> DEFINE e == cached[d]
    <3>1. e.sub \in Frames /\ e.key \in Frames
      BY <2>2, Zenon DEF BothFrames
    <3> HIDE DEF e
    <3>2. e.sub.dispose \in BOOLEAN /\ e.key.dispose \in BOOLEAN
      BY <3>1 DEF Frames
    <3> QED BY <3>2 DEF e
  <2>6. d \in Keys
    BY <2>2 DEF Keys
  <2> QED BY <2>2, <2>4, <2>5, <2>6
<1>16. ASSUME NEW i \in 1..Count, i # d PROVE cached'[i] = CachedWith(c)[i]
  <2>1. ~ (chosen /\ i = keyframe + 1)
    BY <1>4, <1>10, <1>16
  <2> QED BY <1>12, <2>1
<1>17. SameKinds(d)
  <2>1. ASSUME NEW i \in 1..Count, i # d
        PROVE  /\ cached'[i].isKey = cached[i].isKey
               /\ Alike(Chosen(cached[i]), Chosen(cached'[i]))
    BY <1>14, <1>16, <2>1
  <2>2. ASSUME NEW i \in 1..Count - 1
        PROVE  Chosen(cached'[i]).dispose = Chosen(cached[i]).dispose
    <3>1. i \in 1..Count /\ i # 0
      BY <1>4
    <3>2. CASE i = d
      BY <1>15, <3>1, <3>2
    <3>3. CASE i # d
      BY <1>14, <1>16, <3>1, <3>3
    <3> QED BY <3>2, <3>3
  <2>3. (d = 0 \/ d \in Keys) /\ (d # 0 => ~cached'[d].isKey)
    BY <1>15
  <2>4. Count' \in Nat /\ Count' >= Count
    BY <1>4, <1>13
  <2> QED BY <1>1, <1>4, <2>1, <2>2, <2>3, <2>4 DEF SameKinds
<1>18. KeysInv'
  <2>1. Count + 1 \in Keys' => Whole(Chosen(cached'[Count + 1]))
    <3>1. Count + 1 \in Keys' => chosen
      BY <1>12 DEF Keys
    <3>2. chosen => Chosen(cached'[Count + 1]) = f
      BY <1>12 DEF Chosen
    <3> QED BY <1>11, <3>1, <3>2
  <2> QED BY <1>13, <1>17, <2>1, AppendedKeys DEF DistInv
<1>19. chosen => Count + 1 \in Keys'
  <2>1. Count + 1 \in 1..Count' /\ cached'[Count + 1].isKey = chosen
    BY <1>4, <1>12, <1>13
  <2> QED BY <2>1 DEF Keys
<1>20. Decided(chosen, d)
  BY <1>7, <1>8, <1>9, <1>10, <1>13, <1>17, <1>18, <1>19, Zenon DEF Decided
<1> QED BY <1>20

\* The numbers after both variants were encoded.
LEMMA BothNumbers ==
  ASSUME OptionsInv, sinceKey \in Nat, opts' = opts, sinceKey + 1 > opts.kmin,
         sinceKey' = IF PeriodEnds THEN 0 ELSE sinceKey + 1,
         NEW near \in Nat, NEW far \in Nat, far <= Reach,
         NEW best, best => opts.kmin < opts.kmax /\ near <= Elapsed - opts.kmin - 1
  PROVE  /\ Farthest' = Farthest /\ Farthest \in Nat /\ Reach' \in Nat
         /\ ~PeriodEnds => /\ far + 1 <= Reach' /\ far + 1 <= Farthest
                           /\ 0 <= Elapsed' - opts.kmin - 1
         /\ ~PeriodEnds /\ best =>
              near + 1 <= Elapsed' - opts.kmin - 1 /\ near + 1 <= Farthest
         /\ PeriodEnds /\ best => near + 1 <= Reach' /\ near + 1 <= Farthest
<1>1. /\ Farthest \in Nat /\ Reach \in Nat /\ Elapsed \in Int
      /\ opts.kmax \in Int /\ opts.kmin \in Int
      /\ opts.kmax = 0 => Farthest = 0 /\ Reach = 0
      /\ opts.kmax # 0 =>
           /\ opts.kmax >= 2 /\ opts.kmin < opts.kmax
           /\ Farthest = 2 * opts.kmax - opts.kmin - 2
           /\ Reach = Elapsed + opts.kmax - opts.kmin - 1
           /\ Elapsed = (IF sinceKey < opts.kmax THEN sinceKey ELSE opts.kmax - 1)
  BY Limits
<1>2. opts.kmax = 0 => opts.kmin = 0
  BY DEF OptionsInv
<1>3. /\ Farthest' = Farthest
      /\ Elapsed' = (IF sinceKey' < opts.kmax THEN sinceKey' ELSE opts.kmax - 1)
      /\ Reach' = (IF opts.kmax = 0 THEN 0 ELSE Elapsed' + opts.kmax - opts.kmin - 1)
      /\ PeriodEnds <=> sinceKey + 1 >= opts.kmax
  BY DEF Farthest, Elapsed, Reach, PeriodEnds
<1>4. CASE opts.kmax = 0
  BY <1>1, <1>2, <1>3, <1>4
<1>5. CASE opts.kmax # 0
  <2>1. CASE PeriodEnds
    <3>1. Elapsed' = 0 /\ Reach' = opts.kmax - opts.kmin - 1
      BY <1>1, <1>3, <1>5, <2>1
    <3> QED BY <1>1, <1>3, <1>5, <2>1, <3>1
  <2>2. CASE ~PeriodEnds
    <3>1. /\ Elapsed = sinceKey /\ Elapsed' = sinceKey + 1
          /\ sinceKey + 1 < opts.kmax
          /\ Reach' = sinceKey + 1 + opts.kmax - opts.kmin - 1
      BY <1>1, <1>3, <1>5, <2>2
    <3> QED BY <1>1, <1>3, <1>5, <2>2, <3>1
  <2> QED BY <2>1, <2>2
<1> QED BY <1>4, <1>5

\* Both variants are encoded.  The key frames of a period are counted only if
\* they cannot be demoted any more.
LEMMA DistBoth ==
  ASSUME BaseInv, PlayInv, DistInv, CacheBoth
  PROVE  DistInv'
<1>1. /\ Caching /\ ~isFirst /\ sinceKey + 1 > opts.kmin /\ isFirst' = FALSE
      /\ sinceKey' = (IF PeriodEnds THEN 0 ELSE sinceKey + 1)
      /\ UNCHANGED <<opts, muxed>>
  BY DEF CacheBoth, NewPrevious, Accept
<1>2. PICK chosen, d : Decided(chosen, d)
  BY BothDecided
<1>3. /\ chosen \in BOOLEAN
      /\ d = IF chosen /\ keyframe # -1 THEN keyframe + 1 ELSE 0
      /\ SameKinds(d) /\ Count' = Count + 1 /\ KeysInv'
      /\ chosen => Count + 1 \in Keys'
      /\ ~chosen => bestDelta # DeltaInfinity
      /\ keyframe' = IF PeriodEnds THEN -1 ELSE IF chosen THEN Count ELSE keyframe
      /\ bestDelta' = DeltaInfinity <=> PeriodEnds
  BY <1>2 DEF Decided
<1>4. /\ Count \in Nat /\ Count > 0 /\ sinceKey \in Nat /\ TypeInv /\ OptionsInv
      /\ bestDelta # DeltaInfinity => opts.kmin < opts.kmax
  BY <1>1, CachingFacts DEF BaseInv
<1>5. PICK dist \in [Nat -> Nat], far \in [Nat -> Nat] : Near(dist, far)
  BY DEF DistInv
<1>6. /\ Counting(dist, {}) /\ Counting(far, {keyframe + 1})
      /\ keyframe = -1 => dist = far
      /\ far[Count] <= Reach
      /\ bestDelta # DeltaInfinity => dist[Count] <= Elapsed - opts.kmin - 1
      /\ dist[Count] \in Nat /\ far[Count] \in Nat
  BY <1>4, <1>5 DEF Near
<1>7. /\ Farthest' = Farthest /\ Farthest \in Nat /\ Reach' \in Nat
      /\ ~PeriodEnds => /\ far[Count] + 1 <= Reach' /\ far[Count] + 1 <= Farthest
                        /\ 0 <= Elapsed' - opts.kmin - 1
      /\ ~PeriodEnds /\ bestDelta # DeltaInfinity =>
           dist[Count] + 1 <= Elapsed' - opts.kmin - 1 /\ dist[Count] + 1 <= Farthest
      /\ PeriodEnds /\ bestDelta # DeltaInfinity =>
           dist[Count] + 1 <= Reach' /\ dist[Count] + 1 <= Farthest
  <2>1. PICK best : best = (bestDelta # DeltaInfinity)
    OBVIOUS
  <2>2. PICK D \in Nat, F \in Nat : D = dist[Count] /\ F = far[Count]
    BY <1>6
  <2>3. F <= Reach /\ (best => opts.kmin < opts.kmax /\ D <= Elapsed - opts.kmin - 1)
    BY <1>4, <1>6, <2>1, <2>2
  <2>4. /\ Farthest' = Farthest /\ Farthest \in Nat /\ Reach' \in Nat
        /\ ~PeriodEnds => /\ F + 1 <= Reach' /\ F + 1 <= Farthest
                          /\ 0 <= Elapsed' - opts.kmin - 1
        /\ ~PeriodEnds /\ best =>
             D + 1 <= Elapsed' - opts.kmin - 1 /\ D + 1 <= Farthest
        /\ PeriodEnds /\ best => D + 1 <= Reach' /\ D + 1 <= Farthest
    BY <1>1, <1>4, <2>3, BothNumbers
  <2> QED BY <2>1, <2>2, <2>4
<1>8. \A i \in Keys : i # 0
  BY DEF Keys
<1>9. PICK none, key, new : none = {} /\ key = {keyframe + 1} /\ new = {Count + 1}
  OBVIOUS
<1>10. /\ Counting(dist, none) /\ Counting(far, key) /\ Count + 1 \notin none
       /\ \A i \in Keys : i \notin key => i # d /\ i \notin none /\ i \notin new /\ i \notin key
       /\ ~chosen => \A i \in Keys : i \notin none => i # d /\ i \notin none
       /\ ~chosen => \A i \in Keys : i \notin key => i # d /\ i \notin key
  <2>1. \A i \in Keys : i # Count + 1
    BY <1>4 DEF Keys
  <2> QED BY <1>3, <1>6, <1>8, <1>9, <2>1
<1>11. Keys' \ none = Keys' /\ Keys' \ {0} = Keys' /\ Keys' \ {} = Keys'
  BY <1>9 DEF Keys
<1>12. CASE PeriodEnds
  <2> DEFINE Reaches(g) ==
               /\ Counted(g, muxed'.sinceKey, Keys' \ none, Quiets', Count', Farthest')
               /\ g[Count'] <= Reach'
  <2> HIDE DEF Reaches
  <2>1. \E g : Reaches(g)
    <3>1. CASE chosen
      <4>1. PICK v : v = 0
        OBVIOUS
      <4>2. v \in Nat /\ v <= Farthest /\ v <= Reach'
        BY <1>7, <4>1
      <4>3. Comes(d, far, key, none, v)
        BY <1>1, <1>3, <1>10, <3>1, <4>2 DEF Comes
      <4>4. PICK g : Extends(g, far, none, v)
        BY <1>4, <4>3, Appended
      <4>5. Reaches(g)
        BY <4>2, <4>4 DEF Extends, Reaches
      <4> QED BY <4>5
    <3>2. CASE ~chosen
      <4>1. PICK v : v = dist[Count] + 1
        OBVIOUS
      <4>2. v \in Nat /\ v <= Farthest /\ v <= Reach' /\ v >= dist[Count] + 1
        BY <1>3, <1>6, <1>7, <1>12, <3>2, <4>1
      <4>3. Comes(d, dist, none, none, v)
        BY <1>1, <1>3, <1>10, <3>2, <4>2 DEF Comes
      <4>4. PICK g : Extends(g, dist, none, v)
        BY <1>4, <4>3, Appended
      <4>5. Reaches(g)
        BY <4>2, <4>4 DEF Extends, Reaches
      <4> QED BY <4>5
    <3> QED BY <1>3, <3>1, <3>2
  <2>2. PICK g : /\ Counted(g, muxed'.sinceKey, Keys' \ none, Quiets', Count', Farthest')
                 /\ g[Count'] <= Reach'
    BY <2>1 DEF Reaches
  <2>3. keyframe' = -1 /\ bestDelta' = DeltaInfinity /\ keyframe' + 1 = 0
    BY <1>3, <1>12
  <2>4. Counting(g, {})' /\ Counting(g, {keyframe + 1})'
    BY <1>11, <2>2, <2>3 DEF Counting
  <2>5. Near(g, g)'
    BY <2>2, <2>3, <2>4 DEF Near
  <2> QED BY <1>1, <1>3, <2>3, <2>5, DistFrom
<1>13. CASE ~PeriodEnds /\ chosen
  <2>1. PICK v, w : v = 0 /\ w = far[Count] + 1
    OBVIOUS
  <2>2. /\ v \in Nat /\ v <= Farthest /\ v <= Elapsed' - opts.kmin - 1
        /\ w \in Nat /\ w <= Farthest /\ w <= Reach' /\ w >= far[Count] + 1
    BY <1>6, <1>7, <1>13, <2>1
  <2>3. PICK g : /\ Counted(g, muxed'.sinceKey, Keys' \ none, Quiets', Count', Farthest')
                 /\ g[Count'] = v /\ g = [far EXCEPT ![Count + 1] = v]
    <3>1. Comes(d, far, key, none, v)
      BY <1>1, <1>3, <1>10, <1>13, <2>2 DEF Comes
    <3>2. PICK e : Extends(e, far, none, v)
      BY <1>4, <3>1, Appended
    <3> QED BY <3>2 DEF Extends
  <2>4. PICK h : /\ Counted(h, muxed'.sinceKey, Keys' \ new, Quiets', Count', Farthest')
                 /\ h[Count'] = w /\ h = [far EXCEPT ![Count + 1] = w]
    <3>1. Comes(d, far, key, new, w)
      BY <1>1, <1>3, <1>10, <2>2 DEF Comes
    <3>2. PICK e : Extends(e, far, new, w)
      BY <1>4, <3>1, Appended
    <3> QED BY <3>2 DEF Extends
  <2>5. keyframe' = Count /\ keyframe' + 1 = Count + 1 /\ keyframe' # -1
        /\ bestDelta' # DeltaInfinity
    BY <1>3, <1>4, <1>13
  <2>6. Counting(g, {})' /\ Counting(h, {keyframe + 1})'
    BY <1>9, <1>11, <2>3, <2>4, <2>5 DEF Counting
  <2>7. opts'.kmin = opts.kmin
    BY <1>1
  <2>8. Near(g, h)'
    BY <2>2, <2>3, <2>4, <2>5, <2>6, <2>7 DEF Near
  <2> QED BY <1>1, <1>3, <2>5, <2>8, DistFrom
<1>14. CASE ~PeriodEnds /\ ~chosen
  <2>1. PICK v, w : v = dist[Count] + 1 /\ w = far[Count] + 1
    OBVIOUS
  <2>2. /\ v \in Nat /\ v <= Farthest /\ v <= Elapsed' - opts.kmin - 1 /\ v >= dist[Count] + 1
        /\ w \in Nat /\ w <= Farthest /\ w <= Reach' /\ w >= far[Count] + 1
        /\ keyframe = -1 => dist = far /\ v = w
    BY <1>3, <1>6, <1>7, <1>14, <2>1
  <2>3. PICK g : /\ Counted(g, muxed'.sinceKey, Keys' \ none, Quiets', Count', Farthest')
                 /\ g[Count'] = v /\ g = [dist EXCEPT ![Count + 1] = v]
    <3>1. Comes(d, dist, none, none, v)
      BY <1>1, <1>3, <1>10, <1>14, <2>2 DEF Comes
    <3>2. PICK e : Extends(e, dist, none, v)
      BY <1>4, <3>1, Appended
    <3> QED BY <3>2 DEF Extends
  <2>4. PICK h : /\ Counted(h, muxed'.sinceKey, Keys' \ key, Quiets', Count', Farthest')
                 /\ h[Count'] = w /\ h = [far EXCEPT ![Count + 1] = w]
    <3>1. Comes(d, far, key, key, w)
      BY <1>1, <1>3, <1>10, <1>14, <2>2 DEF Comes
    <3>2. PICK e : Extends(e, far, key, w)
      BY <1>4, <3>1, Appended
    <3> QED BY <3>2 DEF Extends
  <2>5. keyframe' = keyframe /\ bestDelta' # DeltaInfinity
    BY <1>3, <1>14
  <2>6. Counting(g, {})' /\ Counting(h, {keyframe + 1})'
    BY <1>9, <1>11, <2>3, <2>4, <2>5 DEF Counting
  <2>7. opts'.kmin = opts.kmin /\ (keyframe = -1 => g = h)
    BY <1>1, <2>2, <2>3, <2>4
  <2>8. Near(g, h)'
    BY <2>2, <2>3, <2>4, <2>5, <2>6, <2>7 DEF Near
  <2> QED BY <1>1, <1>3, <2>5, <2>8, DistFrom
<1> QED BY <1>3, <1>12, <1>13, <1>14

\* How a frame that is pushed moves the player.
Pushes(f) ==
  /\ Count \in Nat /\ Count > 0 /\ f = Chosen(cached[1]) /\ f \in Frames
  /\ Count' = Count - 1 /\ \A i \in 1..Count - 1 : cached'[i] = cached[i + 1]
  /\ muxed.below \in Canvas /\ muxed.sinceKey \in Nat
  /\ muxed'.any = TRUE /\ muxed'.shown = Draw(muxed.below, f)
  /\ muxed'.below = Dispose(Draw(muxed.below, f), f)
  /\ muxed'.sinceKey = IF StartsAnew(f) THEN 0
                       ELSE IF Draw(muxed.below, f) = muxed.shown THEN muxed.sinceKey
                       ELSE muxed.sinceKey + 1

\* PushFrame moves the player to what the first frame leaves.
LEMMA PushMoves ==
  ASSUME BaseInv, PushFrame
  PROVE  \E f : Pushes(f)
<1>1. PICK f : f = Chosen(GetFrame(0))
  OBVIOUS
<1>2. /\ Count' = Count - 1 /\ Count > 0 /\ Count \in Nat
      /\ \A i \in 1..Count - 1 : cached'[i] = cached[i + 1]
  BY Pushed
<1>3. f \in Frames /\ GetFrame(0) = cached[1]
  BY <1>1, <1>2, FirstFrame
<1>4. muxed.below \in Canvas /\ muxed.sinceKey \in Nat
  BY DEF BaseInv, TypeInv
<1>5. muxed' = [below |-> Dispose(Draw(muxed.below, f), f), shown |-> Draw(muxed.below, f),
                any |-> TRUE,
                sinceKey |-> IF StartsAnew(f) THEN 0
                             ELSE IF Draw(muxed.below, f) = muxed.shown THEN muxed.sinceKey
                             ELSE muxed.sinceKey + 1]
  BY <1>1, Zenon DEF PushFrame
<1>6. Pushes(f)
  BY <1>1, <1>2, <1>3, <1>4, <1>5 DEF Pushes
<1> QED BY <1>6

\* The entries after it move up.
LEMMA PushKinds ==
  ASSUME KeysInv, NEW f, Pushes(f)
  PROVE  /\ \A i \in 1..Count - 1 : /\ i + 1 \in Keys => i \in Keys'
                                    /\ i + 1 \in Quiets => i \in Quiets'
         /\ KeysInv'
<1>1. /\ Count \in Nat /\ Count > 0 /\ f = Chosen(cached[1]) /\ f \in Frames
      /\ Count' = Count - 1 /\ \A i \in 1..Count - 1 : cached'[i] = cached[i + 1]
      /\ muxed'.below = Dispose(Draw(muxed.below, f), f)
      /\ muxed'.shown = Draw(muxed.below, f)
  BY DEF Pushes
<1>2. ASSUME NEW i \in 1..Count - 1, i + 1 \in Keys PROVE i \in Keys'
  BY <1>1, <1>2 DEF Keys
<1>3. ASSUME NEW i \in 1..Count - 1, i + 1 \in Quiets PROVE i \in Quiets'
  <2>1. /\ i + 1 \in 1..Count /\ i + 1 # 1 /\ (i + 1) - 1 = i /\ i \in 1..Count'
        /\ i # 1 => i - 1 \in 1..Count - 1 /\ (i - 1) + 1 = i
    BY <1>1
  <2>2. PICK j : j = i + 1
    OBVIOUS
  <2>3. Quiet(j) /\ j # 1 /\ j - 1 = i
    BY <1>3, <2>1, <2>2, Zenon DEF Quiets
  <2>4. /\ ~cached[j].isKey /\ \A b \in Canvas : Draw(b, Chosen(cached[j])) = b
        /\ ~Chosen(cached[i]).dispose
    BY <2>3 DEF Quiet
  <2>5. cached'[i] = cached[j]
    BY <1>1, <2>2
  <2>6. ~cached'[i].isKey /\ \A b \in Canvas : Draw(b, Chosen(cached'[i])) = b
    BY <2>4, <2>5
  <2>7. IF i = 1 THEN muxed'.below = muxed'.shown ELSE ~Chosen(cached'[i - 1]).dispose
    <3>1. CASE i = 1
      <4>1. ~f.dispose
        BY <1>1, <2>4, <3>1
      <4>2. Dispose(Draw(muxed.below, f), f) = Draw(muxed.below, f)
        BY <4>1, Zenon DEF Dispose
      <4> QED BY <1>1, <3>1, <4>2
    <3>2. CASE i # 1
      <4>1. cached'[i - 1] = cached[i]
        BY <1>1, <2>1, <3>2
      <4> QED BY <2>4, <3>2, <4>1
    <3> QED BY <3>1, <3>2
  <2>8. Quiet(i)'
    <3>1. \A b \in Canvas' : Draw(b, Chosen(cached[i]))' = b
      BY <2>6 DEF Canvas, Colors, Chosen, Draw
    <3>2. IF i = 1 THEN muxed'.below = muxed'.shown ELSE ~Chosen(cached[i - 1])'.dispose
      BY <2>7 DEF Chosen
    <3> QED BY <2>6, <3>1, <3>2 DEF Quiet
  <2> QED BY <2>1, <2>8 DEF Quiets
<1>4. ASSUME NEW i \in Keys' PROVE Whole(Chosen(cached'[i]))
  <2>1. i \in 1..Count - 1 /\ cached'[i].isKey
    BY <1>1 DEF Keys
  <2>2. i + 1 \in 1..Count /\ i + 1 # 1 /\ cached'[i] = cached[i + 1]
    BY <1>1, <2>1
  <2>3. i + 1 \in Keys
    BY <2>1, <2>2 DEF Keys
  <2>4. Whole(Chosen(cached[i + 1]))
    BY <2>2, <2>3 DEF KeysInv
  <2> QED BY <2>2, <2>4
<1>5. KeysInv'
  BY <1>4 DEF KeysInv, Whole, Chosen
<1> QED BY <1>2, <1>3, <1>5

\* How far the player is then from the last key frame.
LEMMA PushSince ==
  ASSUME KeysInv, NEW f, Pushes(f), NEW x
  PROVE  /\ muxed'.sinceKey \in Nat
         /\ \/ muxed'.sinceKey = 0
            \/ 1 \notin Keys \ x /\ muxed'.sinceKey <= muxed.sinceKey
            \/ 1 \notin Keys \ x /\ 1 \notin Quiets /\ muxed'.sinceKey <= muxed.sinceKey + 1
<1>1. /\ f = Chosen(cached[1]) /\ muxed.sinceKey \in Nat /\ muxed.below \in Canvas
      /\ muxed'.sinceKey = IF StartsAnew(f) THEN 0
                           ELSE IF Draw(muxed.below, f) = muxed.shown THEN muxed.sinceKey
                           ELSE muxed.sinceKey + 1
  BY DEF Pushes
<1>2. 1 \in Keys => StartsAnew(f)
  BY <1>1 DEF KeysInv, Whole, StartsAnew
<1>3. 1 \in Quiets => Draw(muxed.below, f) = muxed.shown
  <2> SUFFICES ASSUME 1 \in Quiets PROVE Draw(muxed.below, f) = muxed.shown
    OBVIOUS
  <2>1. PICK j : j = 1
    OBVIOUS
  <2>2. Quiet(j)
    BY <2>1, Zenon DEF Quiets
  <2>3. (\A b \in Canvas : Draw(b, Chosen(cached[j])) = b) /\ muxed.below = muxed.shown
    BY <2>1, <2>2 DEF Quiet
  <2> QED BY <1>1, <2>1, <2>3
<1> QED BY <1>1, <1>2, <1>3

\* A count goes on without the first frame.
LEMMA PushCount ==
  ASSUME KeysInv, NEW f, Pushes(f), UNCHANGED opts, NEW h, NEW x, NEW y, Counting(h, x),
         \A i \in 1..Count - 1 : i \in y => i + 1 \in x
  PROVE  \E g : /\ Counted(g, muxed'.sinceKey, Keys' \ y, Quiets', Count', Farthest')
                /\ g[Count'] = h[Count] /\ g = [i \in Nat |-> h[i + 1]]
<1>1. Count \in Nat /\ Count > 0 /\ Count' = Count - 1 /\ muxed.sinceKey \in Nat
  BY DEF Pushes
<1>2. Counted(h, muxed.sinceKey, Keys \ x, Quiets, Count, Farthest)
  BY DEF Counting
<1>3. Farthest' = Farthest
  BY DEF Farthest
<1>4. \A i \in 1..Count - 1 : /\ i + 1 \in Keys \ x => i \in Keys' \ y
                              /\ i + 1 \in Quiets => i \in Quiets'
  BY PushKinds
<1>5. PICK since, keys, quiets, now, rest, still :
        /\ since = muxed.sinceKey /\ keys = Keys \ x /\ quiets = Quiets
        /\ now = muxed'.sinceKey /\ rest = Keys' \ y /\ still = Quiets'
  OBVIOUS
<1>6. /\ now \in Nat
      /\ \/ now = 0
         \/ 1 \notin keys /\ now <= since
         \/ 1 \notin keys /\ 1 \notin quiets /\ now <= since + 1
  BY <1>5, PushSince
<1>7. PICK g : g = [i \in Nat |-> h[i + 1]]
  OBVIOUS
<1>8. PICK n : n = Count
  OBVIOUS
<1>9. /\ since \in Nat /\ n \in Nat /\ n > 0
      /\ Counted(h, since, keys, quiets, n, Farthest)
      /\ \A i \in 1..n - 1 : (i + 1 \in keys => i \in rest) /\ (i + 1 \in quiets => i \in still)
  BY <1>1, <1>2, <1>4, <1>5, <1>8
<1>10. Counted(g, now, rest, still, n - 1, Farthest) /\ g[n - 1] = h[n]
  BY <1>6, <1>7, <1>9, Shifted
<1> QED BY <1>1, <1>3, <1>5, <1>7, <1>8, <1>10

\* A frame is pushed: as a key frame, if it was the one that may be demoted.
LEMMA DistPush ==
  ASSUME BaseInv, DistInv, PushFrame
  PROVE  DistInv'
<1>1. /\ flushCount > 0 /\ keyframe' = (IF keyframe = -1 THEN -1 ELSE keyframe - 1)
      /\ UNCHANGED <<opts, bestDelta, sinceKey, isFirst>>
  BY DEF PushFrame, KeyframeAfterPush, flags
<1>2. PICK f : Pushes(f)
  BY PushMoves
<1>3. /\ Count \in Nat /\ Count > 0 /\ Count' = Count - 1
      /\ OptionsInv /\ sinceKey \in Nat /\ keyframe \in -1..Count - 1
      /\ bestDelta # DeltaInfinity => opts.kmin < opts.kmax
      /\ ~isFirst
  BY <1>1, <1>2 DEF Pushes, BaseInv, TypeInv, RoomInv, EntriesInv
<1>4. KeysInv /\ KeysInv' /\ (keyframe # -1 => bestDelta # DeltaInfinity)
  BY <1>2, PushKinds DEF DistInv
<1>5. PICK dist \in [Nat -> Nat], far \in [Nat -> Nat] : Near(dist, far)
  BY DEF DistInv
<1>6. /\ Counting(dist, {}) /\ Counting(far, {keyframe + 1})
      /\ keyframe = -1 => dist = far
      /\ far[Count] <= Reach
      /\ bestDelta # DeltaInfinity => dist[Count] <= Elapsed - opts.kmin - 1
      /\ dist[Count] \in Nat /\ far[Count] \in Nat
  BY <1>3, <1>5 DEF Near
<1>7. /\ Farthest' = Farthest /\ Reach' = Reach /\ Elapsed' = Elapsed
      /\ bestDelta # DeltaInfinity => Elapsed - opts.kmin - 1 <= Reach
  <2>1. Farthest' = Farthest /\ Reach' = Reach /\ Elapsed' = Elapsed
    BY <1>1 DEF Farthest, Reach, Elapsed
  <2>2. ASSUME bestDelta # DeltaInfinity PROVE Elapsed - opts.kmin - 1 <= Reach
    <3>1. /\ Elapsed \in Int /\ opts.kmax \in Int /\ opts.kmin \in Int
          /\ opts.kmin < opts.kmax
          /\ opts.kmax = 0 => opts.kmin = 0
          /\ opts.kmax # 0 => opts.kmax >= 2 /\ Reach = Elapsed + opts.kmax - opts.kmin - 1
      BY <1>3, <2>2, Limits DEF OptionsInv
    <3> QED BY <3>1
  <2> QED BY <2>1, <2>2
<1>8. PICK x : x = {}
  OBVIOUS
<1>9. PICK g : /\ Counted(g, muxed'.sinceKey, Keys' \ x, Quiets', Count', Farthest')
               /\ g[Count'] = dist[Count] /\ g = [i \in Nat |-> dist[i + 1]]
  <2>1. \A i \in 1..Count - 1 : i \in x => i + 1 \in x
    BY <1>8
  <2>2. Counting(dist, x)
    BY <1>6, <1>8
  <2> QED BY <1>1, <1>2, <1>4, <2>1, <2>2, PushCount
<1>10. Keys' \ {0} = Keys' /\ Keys' \ x = Keys' /\ Keys' \ {} = Keys'
  BY <1>8 DEF Keys
<1>11. Counting(g, {})'
  BY <1>9, <1>10 DEF Counting
<1>12. CASE keyframe' = -1
  <2>1. g[Count'] <= Reach'
    <3>1. CASE keyframe = -1
      BY <1>6, <1>7, <1>9, <3>1
    <3>2. CASE keyframe # -1
      <4>1. /\ dist[Count] <= Elapsed - opts.kmin - 1 /\ Elapsed - opts.kmin - 1 <= Reach
            /\ dist[Count] \in Nat
        BY <1>4, <1>6, <1>7, <3>2
      <4>2. Elapsed \in Int /\ Reach \in Nat /\ opts.kmin \in Int
        BY <1>3, Limits
      <4>3. dist[Count] <= Reach
        BY <4>1, <4>2
      <4> QED BY <1>7, <1>9, <4>3
    <3> QED BY <3>1, <3>2
  <2>2. keyframe' + 1 = 0
    BY <1>12
  <2>3. Counting(g, {keyframe + 1})'
    BY <1>9, <1>10, <2>2 DEF Counting
  <2>4. opts' = opts /\ bestDelta' = bestDelta
    BY <1>1
  <2>5. Near(g, g)'
    BY <1>6, <1>7, <1>9, <1>11, <2>1, <2>3, <2>4 DEF Near
  <2> QED BY <1>1, <1>3, <1>4, <1>12, <2>5, DistFrom
<1>13. CASE keyframe' # -1
  <2>1. keyframe # -1 /\ keyframe' + 1 = keyframe /\ bestDelta # DeltaInfinity
    BY <1>1, <1>3, <1>4, <1>13
  <2>2. PICK k, l : k = {keyframe} /\ l = {keyframe + 1}
    OBVIOUS
  <2>3. PICK h : /\ Counted(h, muxed'.sinceKey, Keys' \ k, Quiets', Count', Farthest')
                 /\ h[Count'] = far[Count] /\ h = [i \in Nat |-> far[i + 1]]
    <3>1. \A i \in 1..Count - 1 : i \in k => i + 1 \in l
      BY <2>2
    <3>2. Counting(far, l)
      BY <1>6, <2>2
    <3> QED BY <1>1, <1>2, <1>4, <3>1, <3>2, PushCount
  <2>4. Counting(h, {keyframe + 1})'
    BY <2>1, <2>2, <2>3 DEF Counting
  <2>5. opts' = opts /\ bestDelta' = bestDelta
    BY <1>1
  <2>6. Near(g, h)'
    BY <1>6, <1>7, <1>9, <1>11, <1>13, <2>3, <2>4, <2>5 DEF Near
  <2> QED BY <1>1, <1>3, <1>4, <2>1, <2>6, DistFrom
<1> QED BY <1>12, <1>13

\* The entries, and what is to come of them, stay.
LEMMA SameDist ==
  ASSUME BaseInv, DistInv,
         UNCHANGED <<opts, keyframe, bestDelta, sinceKey, isFirst, muxed, cached>>
  PROVE  DistInv'
<1>1. Count' = Count /\ Count \in Nat /\ TypeInv
  BY CachedTypes DEF Count, BaseInv
<1>2. SameKinds(0)
  BY <1>1 DEF SameKinds, Alike
<1> QED BY <1>1, <1>2, DistKept

\* A picture that could not be encoded leaves the disposal it asked for.
LEMMA DistFails ==
  ASSUME BaseInv, DistInv, EncodingFails
  PROVE  DistInv'
<1>1. Caching /\ UNCHANGED <<opts, keyframe, bestDelta, sinceKey, isFirst, muxed>>
  BY DEF EncodingFails, control, flags, history
<1>2. CASE cached' = cached
  BY <1>1, <1>2, SameDist
<1>3. ASSUME ~isFirst, NEW c \in Candidates(input.canvas, FALSE),
             cached' = SubSeq(CachedWith(c), 1, Count)
      PROVE  DistInv'
  <2>1. c.frame \in Frames /\ c.disposePrev \in BOOLEAN
    BY <1>1, SubCandidate
  <2>2. Count \in Nat /\ Count > 0 /\ TypeInv /\ EntriesInv
    BY <1>1, <1>3, CachingFacts DEF BaseInv
  <2>3. CachedWith(c) \in Seq(Entries) /\ Len(CachedWith(c)) = Count + 1
    BY <2>1, <2>2, CachedWithRight
  <2> DEFINE frames == CachedWith(c)
  <2>4. /\ \A i \in 1..Count :
             /\ frames[i].isKey = cached[i].isKey
             /\ Alike(Chosen(cached[i]), Chosen(frames[i]))
        /\ \A i \in 1..Count - 1 : frames[i] = cached[i]
    BY <2>1, <2>2, BeforeKinds
  <2> HIDE DEF frames
  <2>5. Len(cached') = Count /\ \A i \in 1..Count : cached'[i] = frames[i]
    BY <1>3, <2>2, <2>3 DEF frames
  <2>6. Count' = Count /\ \A i \in 1..Count - 1 : i \in 1..Count
    BY <2>2, <2>5 DEF Count
  <2>7. SameKinds(0)
    BY <1>1, <2>2, <2>4, <2>5, <2>6 DEF SameKinds
  <2> QED BY <1>1, <2>2, <2>6, <2>7, DistKept
<1> QED BY <1>2, <1>3, Zenon DEF EncodingFails

\* Every step keeps the distances.
LEMMA DistNext ==
  ASSUME ~UseAfterError, BaseInv, PlayInv, DistInv, [Next]_vars
  PROVE  DistInv'
<1>1. ASSUME NEW p \in Pictures, NEW d \in 0..MaxDuration - 1, Add(p, d)
      PROVE  DistInv'
  <2>1. /\ ~failed /\ d \in Nat
        /\ UNCHANGED <<opts, keyframe, bestDelta, isFirst, muxed>>
    BY <1>1, LimitsAssumption DEF Add
  <2>2. CASE isFirst
    <3>1. UNCHANGED <<cached, sinceKey>>
      BY <1>1, <2>2, Zenon DEF Add
    <3> QED BY <2>1, <3>1, SameDist
  <2>3. CASE ~isFirst
    <3>1. IncreasePreviousDuration(d) /\ pc = "idle"
      BY <1>1, <2>3, Zenon DEF Add
    <3>2. Count > 0
      <4>1. flushCount \in Nat /\ Count \in Nat
        BY CachedTypes DEF BaseInv, TypeInv
      <4>2. flushCount < Count
        BY <2>3, <3>1 DEF BaseInv, EntriesInv
      <4> QED BY <4>1, <4>2
    <3> QED BY <2>1, <3>1, <3>2, DistIncreased
  <2> QED BY <2>2, <2>3
<1>2. CASE Assemble
  <2>1. /\ ~failed
        /\ UNCHANGED <<opts, keyframe, bestDelta, isFirst, muxed>>
    BY <1>2 DEF Assemble
  <2>2. CASE ~gotNull /\ inCount > 1 /\ Count > 0
    <3>1. PICK average \in 0..MaxDuration - 1 : IncreasePreviousDuration(average)
      BY <1>2, <2>2, Zenon DEF Assemble
    <3>2. average \in Nat
      BY LimitsAssumption
    <3> QED BY <2>1, <2>2, <3>1, <3>2, DistIncreased
  <2>3. CASE ~ (~gotNull /\ inCount > 1 /\ Count > 0)
    <3>1. UNCHANGED <<cached, sinceKey>>
      BY <1>2, <2>3, Zenon DEF Assemble
    <3> QED BY <2>1, <3>1, SameDist
  <2> QED BY <2>2, <2>3
<1>3. CASE NullFrame \/ WrongFrame \/ Skip \/ FlushDone \/ PushFails \/ UNCHANGED vars
  <2>1. UNCHANGED <<opts, keyframe, bestDelta, sinceKey, isFirst, muxed, cached>>
    BY <1>3 DEF NullFrame, WrongFrame, Skip, FlushDone, PushFails, Accept,
                vars, control, flags, history
  <2> QED BY <2>1, SameDist
<1> QED BY <1>1, <1>2, <1>3, DistFirst, DistSub, DistBoth, DistPush, DistFails, Zenon DEF Next

\* There is no distance at first.
LEMMA DistInit == Init => DistInv
<1> SUFFICES ASSUME Init PROVE DistInv
  OBVIOUS
<1>1. /\ keyframe = -1 /\ bestDelta = DeltaInfinity /\ isFirst /\ sinceKey = 0 /\ Count = 0
      /\ ~muxed.any /\ muxed.sinceKey = 0
  BY DEF Init, Count
<1>2. OptionsInv
  BY InitBase DEF BaseInv
<1>3. Farthest \in Nat /\ Reach \in Nat
  BY <1>1, <1>2, Limits
<1>4. PICK g : g = [i \in Nat |-> 0]
  OBVIOUS
<1>5. g \in [Nat -> Nat] /\ g[0] = 0 /\ \A i \in Nat : g[i] = 0
  BY <1>4
<1>6. \A x : Counting(g, x)
  BY <1>1, <1>3, <1>5 DEF Counting, Counted
<1>7. Near(g, g)
  BY <1>1, <1>3, <1>5, <1>6 DEF Near
<1>8. KeysInv
  BY <1>1 DEF KeysInv, Keys
<1> QED BY <1>1, <1>5, <1>7, <1>8 DEF DistInv

\* Whatever the sizes of the variants, a player that has any of the frames
\* finds one to start at within twice kmax: a key frame that is demoted has a
\* better one in the same period, and the periods are no longer than kmax.
THEOREM KeyFramesComeBack ==
  ASSUME ~UseAfterError
  PROVE  Spec => []KeyFramesRecur
<1>1. Init => DistInv
  BY DistInit
<1>2. BaseInv /\ PlayInv /\ DistInv /\ [Next]_vars => DistInv'
  BY DistNext
<1>3. BaseInv /\ DistInv => KeyFramesRecur
  <2> SUFFICES ASSUME BaseInv, DistInv PROVE KeyFramesRecur
    OBVIOUS
  <2>1. PICK dist \in [Nat -> Nat], far \in [Nat -> Nat] : Near(dist, far)
    BY DEF DistInv
  <2>2. muxed.sinceKey <= dist[0] /\ dist[0] <= Farthest /\ dist[0] \in Nat
    BY <2>1 DEF Near, Counting, Counted
  <2>3. muxed.sinceKey \in Nat /\ Farthest \in Nat
    BY Limits DEF BaseInv, TypeInv
  <2>4. muxed.sinceKey <= Farthest
    BY <2>2, <2>3
  <2> QED BY <2>4 DEF KeyFramesRecur, Farthest
<1> QED BY <1>1, <1>2, <1>3, PlayerIsFollowed, PTL DEF Spec
=============================================================================
