----------------------------- MODULE AnimEncoder -----------------------------
(***************************************************************************)
(* WebPAnimEncoder (src/mux/anim_encode.c).  Each canvas is encoded as a   *)
(* sub-frame that repaints what changed, and late enough after a key frame *)
(* as a key frame too.  The variants wait in encoded_frames_ until it is   *)
(* known which of them is used, and the rectangle of the next frame, the   *)
(* disposal of the previous one and merged durations are decided           *)
(* meanwhile.                                                              *)
(*                                                                         *)
(* Frames are lossless, and allow_mixed is off.  The sizes of the encoded  *)
(* frames are arbitrary.  What has been pushed to the muxer is kept as the *)
(* canvas a player has at that point, not as a list of frames: the model   *)
(* is finite for animations of any length.                                 *)
(***************************************************************************)
EXTENDS AnimCanvas, FiniteSetsExt

CONSTANTS
  Canvases,        \* the pictures the client adds
  Options,         \* the WebPAnimEncoderOptions it may choose
  MaxDuration,     \* MAX_DURATION, 2^24 in the code
  NoKeyFrames,     \* INT_MAX, the kmax that disables key frames
  MaxCachedFrames, \* MAX_CACHED_FRAMES, 30 in the code
  Penalties,       \* values of KeyFramePenalty()
  UseAfterError    \* does the client go on after a call failed?

ASSUME CanvasesAssumption == Canvases \subseteq [Pixels -> Seq(Layers)]

ASSUME OptionsAssumption ==
  Options \subseteq [kmin : Int, kmax : Int, minimize : BOOLEAN]

\* INT_MAX and MAX_CACHED_FRAMES leave room for two frames, and DELTA_INFINITY
\* is past every penalty, the difference of two sizes.
ASSUME LimitsAssumption ==
  /\ MaxDuration \in Nat /\ NoKeyFrames \in Nat /\ NoKeyFrames >= 2
  /\ MaxCachedFrames \in Nat \ {0}
  /\ Penalties \subseteq Int /\ \E p \in Penalties : \A q \in Penalties : q <= p

DeltaInfinity == Max(Penalties) + 1
NoFrame == [w |-> 0, dur |-> 0]
NoRect == [x |-> 0, w |-> 0]
NullPicture == [picture |-> "null"]
WrongPicture == [picture |-> "wrong"]
Picture(c) == [picture |-> "canvas", canvas |-> c]

VARIABLES
  opts,       \* options_, sanitized
  prevCanvas, \* prev_canvas_
  prevRect,   \* prev_rect_
  cached,     \* encoded_frames_[start_ .. start_ + count_ - 1]
  start,      \* start_
  flushCount, \* flush_count_
  bestDelta,  \* best_delta_
  keyframe,   \* keyframe_, relative to start_; -1 for none
  sinceKey,   \* count_since_key_frame_
  undecided,  \* prev_candidate_undecided_
  isFirst,    \* is_first_frame_
  gotNull,    \* got_null_frame_
  inCount,    \* in_frame_count_, up to 2
  pc,         \* "idle", or how far the current call is
  input,      \* the picture of the current call
  failed,     \* a call returned an error
  muxed,      \* what playing the frames pushed so far leads to
  due,        \* the ticks to be played after the pushed frames
  extra,      \* ticks of the last picture not confirmed by a next call
  latest      \* the last picture accepted

control == <<opts, start, flushCount, bestDelta, keyframe, sinceKey>>
flags   == <<undecided, isFirst, gotNull, inCount>>
history == <<muxed, due, extra, latest>>
vars == <<control, flags, history, prevCanvas, prevRect, cached, pc, input, failed>>

\* Entries of encoded_frames_.
Chosen(e) == IF e.isKey THEN e.key ELSE e.sub
Size == Max({2, opts.kmax - opts.kmin + 1})
Count == Len(cached)

\* count_since_key_frame_ is only compared with kmin and kmax.
Saturated(n) == Min({n, opts.kmax + 1})
GetFrame(position) == cached[position + 1]

------------------------------------------------------------------------------
(* WebPAnimEncoderNew()                                                    *)

Disabled(o) == [o EXCEPT !.kmax = NoKeyFrames, !.kmin = NoKeyFrames - 1]

\* SanitizeEncoderOptions()
Kmin(o) ==
  IF o.kmin >= o.kmax THEN o.kmax - 1
  ELSE IF o.kmax \div 2 + 1 < o.kmax THEN Max({o.kmin, o.kmax \div 2 + 1})
  ELSE o.kmin

LimitKmin(o) == [o EXCEPT !.kmin = Max({Kmin(o), o.kmax - MaxCachedFrames})]

Sanitize(o) ==
  LET asked == IF o.minimize THEN Disabled(o) ELSE o IN
  IF asked.kmax = 1 THEN [asked EXCEPT !.kmin = 0, !.kmax = 0]
  ELSE LimitKmin(IF asked.kmax <= 0 THEN Disabled(asked) ELSE asked)

Init ==
  /\ opts \in {Sanitize(o) : o \in Options}
  /\ prevCanvas = Blank /\ prevRect = NoRect
  /\ cached = <<>> /\ start = 0 /\ flushCount = 0
  /\ bestDelta = DeltaInfinity /\ keyframe = -1 /\ sinceKey = 0
  /\ undecided = FALSE /\ isFirst = TRUE /\ gotNull = FALSE /\ inCount = 0
  /\ pc = "idle" /\ input = NullPicture /\ failed = FALSE
  /\ muxed = [below |-> Blank, shown |-> Blank, sinceKey |-> 0, any |-> FALSE]
  /\ due = <<>> /\ extra = 0 /\ latest = Blank

------------------------------------------------------------------------------
(* IncreasePreviousDuration()                                              *)

Extend(e, duration) ==
  LET total == e.sub.dur + duration
  IN [e EXCEPT !.sub.dur = total, !.key.dur = total]

\* The 1x1 transparent frame that carries the duration the previous one
\* cannot.
Filler(duration) ==
  [sub |-> [x |-> 0, w |-> 1, pix |-> [i \in {0} |-> Transparent], blend |-> TRUE,
            dispose |-> FALSE, dur |-> duration],
   key |-> NoFrame, isKey |-> FALSE]

Overflows(duration) == cached[Count].sub.dur + duration >= MaxDuration

\* All but flush_count_, which Assemble() sets again.
IncreasePreviousDuration(duration) ==
  IF Overflows(duration)
    THEN /\ cached' = Append(cached, Filler(duration))
         /\ sinceKey' = Saturated(sinceKey + 1)
         /\ undecided' = FALSE
         /\ prevRect' = [x |-> 0, w |-> 1]
    ELSE /\ cached' = [cached EXCEPT ![Count] = Extend(@, duration)]
         /\ UNCHANGED <<sinceKey, undecided, prevRect>>

------------------------------------------------------------------------------
(* Sub-frames, GetSubRect() to PickBestCandidate()                         *)

MinimizeChangeRectangle(src, dst) ==
  LET changed == {i \in Pixels : src[i] # dst[i]} IN
  IF changed = {} THEN NoRect
  ELSE [x |-> Min(changed), w |-> Max(changed) - Min(changed) + 1]

SnapToEvenOffsets(r) == [x |-> r.x - (r.x % 2), w |-> r.w + (r.x % 2)]

GetSubRect(prev, curr, isKey, emptyAllowed) ==
  LET r == IF ~isKey \/ isFirst THEN MinimizeChangeRectangle(prev, curr)
                                ELSE [x |-> 0, w |-> Width]
  IN IF r.w = 0 /\ ~emptyAllowed THEN [x |-> 0, w |-> 1] ELSE SnapToEvenOffsets(r)

IsBlendingPossible(src, dst, r) ==
  \A i \in In(r) : Opaque(dst[i]) \/ src[i] = dst[i]

IncreaseTransparency(src, dst, r) ==
  [i \in In(r) |-> IF src[i] = dst[i] THEN Transparent ELSE dst[i]]

\* GenerateCandidates(), with the disposal it implies for the previous frame.
Candidate(prev, curr, r, isKey, dispose) ==
  LET blend == ~isKey /\ IsBlendingPossible(prev, curr, r) IN
  [disposePrev |-> dispose,
   frame |-> [x |-> r.x, w |-> r.w, blend |-> blend, dispose |-> FALSE, dur |-> 0,
              pix |-> IF blend THEN IncreaseTransparency(prev, curr, r)
                               ELSE [i \in In(r) |-> curr[i]]]]

RectNone(curr, isKey) == GetSubRect(prevCanvas, curr, isKey, ~isFirst)

EvenIfUndecided(isKey) == ~isKey                                     \* (faulty)
DisposeBgPossible(isKey) == ~isKey /\ ~undecided

\* SetFrame(): the candidates among which the smallest one is chosen.  None
\* if the picture is the previous one.
Candidates(curr, isKey) ==
  LET none == RectNone(curr, isKey)
      prevDisposed == Clear(prevCanvas, prevRect)
      bg == GetSubRect(prevDisposed, curr, isKey, FALSE)
      tryBg == DisposeBgPossible(isKey) /\ (opts.minimize \/ bg.w < none.w)
      tryNone == ~tryBg \/ opts.minimize
  IN IF none.w = 0 THEN {}
     ELSE (IF tryNone THEN {Candidate(prevCanvas, curr, none, isKey, FALSE)} ELSE {})
          \cup (IF tryBg THEN {Candidate(prevDisposed, curr, bg, isKey, TRUE)} ELSE {})

\* SetPreviousDisposeMethod()
SetPreviousDispose(e, dispose) ==
  IF undecided THEN [e EXCEPT !.sub.dispose = dispose, !.key.dispose = dispose]
  ELSE IF e.isKey THEN [e EXCEPT !.key.dispose = dispose]
  ELSE [e EXCEPT !.sub.dispose = dispose]

\* The cached frames after the sub-frame variant of SetFrame().
CachedWith(c) ==
  Append([cached EXCEPT ![Count] = SetPreviousDispose(@, c.disposePrev)],
         [sub |-> c.frame, key |-> NoFrame, isKey |-> FALSE])

------------------------------------------------------------------------------
(* WebPAnimEncoderAdd()                                                    *)

Ticks(n, canvas) == [i \in 1..n |-> canvas]
Confirm == due' = due \o Ticks(extra, latest) /\ extra' = 0

\* When the duration took the last entry, frames are flushed before the next
\* one is cached.
NoFlush(count) == "cache"                                            \* (faulty)
AfterDuration(count) == IF count = Size THEN "room" ELSE "cache"

\* The client calls with a picture, d after the previous one; timestamps that
\* decrease, or are MAX_DURATION apart, are refused without effect.
Add(p, d) ==
  /\ pc = "idle" /\ ~gotNull /\ (failed => UseAfterError)
  /\ input' = p
  /\ IF isFirst
       THEN /\ pc' = "cache"
            /\ UNCHANGED <<cached, sinceKey, flushCount, undecided, prevRect, extra>>
       ELSE /\ d < MaxDuration
            /\ IncreasePreviousDuration(d)
            /\ flushCount' = IF Overflows(d) THEN Count ELSE flushCount
            /\ extra' = d
            /\ pc' = AfterDuration(Len(cached'))
  /\ UNCHANGED <<opts, start, bestDelta, keyframe, isFirst, gotNull, inCount, muxed,
                 due, latest, prevCanvas, failed>>

\* Special: last call.
NullFrame ==
  /\ pc = "cache" /\ input = NullPicture
  /\ gotNull' = TRUE /\ pc' = "idle" /\ Confirm
  /\ UNCHANGED <<control, undecided, isFirst, inCount, muxed, latest, prevCanvas,
                 prevRect, cached, input, failed>>

\* Dimensions, conversion or configuration refused.
WrongFrame ==
  /\ pc = "cache" /\ input = WrongPicture
  /\ failed' = TRUE /\ pc' = "idle" /\ input' = NullPicture
  /\ UNCHANGED <<control, flags, history, prevCanvas, prevRect, cached>>

\* What all the ways CacheFrame() succeeds have in common.
Accept ==
  /\ inCount' = Min({2, inCount + 1})
  /\ pc' = "flush" /\ input' = NullPicture
  /\ Confirm /\ latest' = input.canvas
  /\ UNCHANGED <<opts, start, gotNull, muxed, failed>>

NewPrevious == prevCanvas' = input.canvas /\ isFirst' = FALSE

Caching == pc = "cache" /\ input.picture = "canvas"

CacheFirst ==
  /\ Caching /\ isFirst
  /\ \E c \in Candidates(input.canvas, TRUE) :
       /\ cached' = <<[sub |-> NoFrame, key |-> c.frame, isKey |-> TRUE]>>
       /\ prevRect' = [x |-> c.frame.x, w |-> c.frame.w]
  /\ flushCount' = 0 /\ sinceKey' = 0 /\ undecided' = FALSE
  /\ NewPrevious /\ Accept
  /\ UNCHANGED <<bestDelta, keyframe>>

\* The picture is the previous one: its duration goes to the previous frame.
Skip ==
  /\ Caching /\ ~isFirst /\ Candidates(input.canvas, FALSE) = {}
  /\ Accept
  /\ UNCHANGED <<flushCount, bestDelta, keyframe, sinceKey, undecided, isFirst,
                 prevCanvas, prevRect, cached>>

CacheSubFrame ==
  /\ Caching /\ ~isFirst /\ sinceKey + 1 <= opts.kmin
  /\ \E c \in Candidates(input.canvas, FALSE) :
       /\ cached' = CachedWith(c)
       /\ prevRect' = [x |-> c.frame.x, w |-> c.frame.w]
  /\ sinceKey' = sinceKey + 1
  /\ flushCount' = Count
  /\ undecided' = FALSE
  /\ NewPrevious /\ Accept
  /\ UNCHANGED <<bestDelta, keyframe>>

\* Past kmax, the choice is made and the next period starts.
PeriodEnds == sinceKey + 1 >= opts.kmax

KeepBestDelta(chosen, penalty) == IF chosen THEN penalty ELSE bestDelta  \* (faulty)
NextBestDelta(chosen, penalty) ==
  IF PeriodEnds THEN DeltaInfinity ELSE IF chosen THEN penalty ELSE bestDelta

NextKeyframe(chosen) ==
  IF PeriodEnds THEN -1 ELSE IF chosen THEN Count ELSE keyframe

\* The frame whose rectangle the next one may dispose of.
AlwaysKey(chosen, key, sub) == key                                   \* (faulty)
LastFrame(chosen, key, sub) == IF chosen THEN key ELSE sub

\* The old key frame is a sub-frame if there is a better one.
Demote(frames, chosen) ==
  IF chosen /\ keyframe # -1 THEN [frames EXCEPT ![keyframe + 1].isKey = FALSE]
                             ELSE frames

\* As a sub-frame and as a key frame; the cheapest key frame so far is kept.
CacheBoth ==
  /\ Caching /\ ~isFirst /\ sinceKey + 1 > opts.kmin
  /\ \E c \in Candidates(input.canvas, FALSE), k \in Candidates(input.canvas, TRUE),
        penalty \in Penalties :
       LET chosen == penalty <= bestDelta
           last == LastFrame(chosen, k.frame, c.frame)
       IN /\ cached' = [Demote(CachedWith(c), chosen) EXCEPT
                          ![Count + 1] = [sub |-> c.frame, key |-> k.frame, isKey |-> chosen]]
          /\ undecided' = chosen
          /\ flushCount' = IF chosen \/ PeriodEnds THEN Count ELSE flushCount
          /\ keyframe' = NextKeyframe(chosen)
          /\ bestDelta' = NextBestDelta(chosen, penalty)
          /\ prevRect' = [x |-> last.x, w |-> last.w]
  /\ sinceKey' = IF PeriodEnds THEN 0 ELSE sinceKey + 1
  /\ NewPrevious /\ Accept

\* WebPEncode() fails, on the first variant or on the second one; the new
\* entry is released and the counters go back.
EncodingFails ==
  /\ Caching
  /\ failed' = TRUE /\ pc' = "idle" /\ input' = NullPicture
  /\ \/ /\ isFirst \/ Candidates(input.canvas, FALSE) # {}
        /\ UNCHANGED <<cached, prevRect>>
     \/ /\ ~isFirst /\ sinceKey + 1 > opts.kmin
        /\ \E c \in Candidates(input.canvas, FALSE) :
             /\ cached' = SubSeq(CachedWith(c), 1, Count)
             /\ prevRect' = [x |-> c.frame.x, w |-> c.frame.w]
  /\ UNCHANGED <<control, flags, history, prevCanvas>>

------------------------------------------------------------------------------
(* FlushFrames(), one frame at a time                                      *)

Flushing == pc \in {"room", "flush", "assemble"}

\* A player may start at such a frame.
StartsAnew(f) ==
  \/ ~muxed.any \/ muxed.below = Blank
  \/ f.w = Width /\ (~f.blend \/ \A i \in In(f) : Opaque(f.pix[i]))

KeyframeAfterPush == IF keyframe = -1 THEN -1 ELSE keyframe - 1

PushFrame ==
  /\ Flushing /\ flushCount > 0
  /\ LET f == Chosen(GetFrame(0))
         canvas == Draw(muxed.below, f)
     IN
       /\ muxed' = [below |-> Dispose(canvas, f), shown |-> canvas, any |-> TRUE,
                    sinceKey |-> IF StartsAnew(f) THEN 0
                                 ELSE IF canvas = muxed.shown THEN muxed.sinceKey
                                 ELSE muxed.sinceKey + 1]
       /\ due' = SubSeq(due, f.dur + 1, Len(due))
  /\ cached' = Tail(cached)
  /\ start' = start + 1 /\ flushCount' = flushCount - 1
  /\ keyframe' = KeyframeAfterPush
  /\ UNCHANGED <<opts, bestDelta, sinceKey, flags, extra, latest, prevCanvas, prevRect,
                 pc, input, failed>>

FlushDone ==
  /\ Flushing /\ flushCount = 0
  /\ start' = IF Count = 1 THEN 0 ELSE start
  /\ pc' = CASE pc = "room" -> "cache" [] pc = "flush" -> "idle" [] OTHER -> "done"
  /\ UNCHANGED <<opts, flushCount, bestDelta, keyframe, sinceKey, flags, history,
                 prevCanvas, prevRect, cached, input, failed>>

\* WebPMuxPushFrame() fails.
PushFails ==
  /\ Flushing /\ flushCount > 0
  /\ failed' = TRUE
  /\ pc' = IF pc = "assemble" THEN "done" ELSE "idle"
  /\ input' = NullPicture
  /\ UNCHANGED <<control, flags, history, prevCanvas, prevRect, cached>>

------------------------------------------------------------------------------
(* WebPAnimEncoderAssemble()                                               *)

\* With no NULL frame the last duration is the average of the others, which
\* is any duration here.
Assemble ==
  /\ pc = "idle" /\ inCount > 0 /\ (failed => UseAfterError)
  /\ IF ~gotNull /\ inCount > 1 /\ Count > 0
       THEN \E average \in 0..MaxDuration - 1 :
              /\ IncreasePreviousDuration(average)
              /\ due' = due \o Ticks(extra + average, latest)
       ELSE /\ due' = due \o Ticks(extra, latest)
            /\ UNCHANGED <<cached, sinceKey, undecided, prevRect>>
  /\ flushCount' = Len(cached')
  /\ extra' = 0 /\ pc' = "assemble"
  /\ UNCHANGED <<opts, start, bestDelta, keyframe, isFirst, gotNull, inCount, muxed,
                 latest, prevCanvas, input, failed>>

Pictures == {Picture(c) : c \in Canvases} \cup {NullPicture, WrongPicture}

Next ==
  \/ \E p \in Pictures, d \in 0..MaxDuration - 1 : Add(p, d)
  \/ NullFrame \/ WrongFrame
  \/ CacheFirst \/ Skip \/ CacheSubFrame \/ CacheBoth \/ EncodingFails
  \/ PushFrame \/ FlushDone \/ PushFails
  \/ Assemble

Spec == Init /\ [][Next]_vars

------------------------------------------------------------------------------
(* Properties                                                              *)

\* What a player that has the pushed frames shows during the next ones.
Played(frames) ==
  LET n == Len(frames)
      play[i \in 0..n] ==
        IF i = 0 THEN [below |-> muxed.below, shown |-> muxed.shown, ticks |-> <<>>]
        ELSE LET f == frames[i]
                 canvas == Draw(play[i - 1].below, f)
             IN [below |-> Dispose(canvas, f), shown |-> canvas,
                 ticks |-> play[i - 1].ticks \o Ticks(f.dur, canvas)]
  IN play[n]

Waiting == [i \in 1..Count |-> Chosen(cached[i])]

\* The animation plays the pictures that were added, each for the time up to
\* the next one: choosing rectangles, blending, disposal and key frames,
\* merging pictures and splitting durations change nothing to what is seen.
PlaysPictures ==
  LET p == Played(Waiting) IN
  /\ p.ticks = due \o Ticks(extra, latest)
  /\ Count > 0 => p.shown = latest

\* The key frame that may still be demoted can be: what follows was computed
\* without knowing which variant is used.
EitherVariant ==
  keyframe # -1 =>
    LET demoted == [Waiting EXCEPT ![keyframe + 1] = cached[keyframe + 1].sub]
    IN Played(demoted) = Played(Waiting)

\* There is an entry left for the next frame and, after a call, for the
\* filler before it (GetFrame() asserts it): encoded_frames_ has as many
\* entries as frames can wait.
RoomForNext ==
  pc \in {"idle", "cache"} /\ ~failed => start + Count < Size

\* Whatever the sizes, a player finds a frame to start at within twice kmax.
KeyFramesRecur == muxed.sinceKey <= Max({0, 2 * opts.kmax - opts.kmin - 2})
=============================================================================
