# A TLA+ model of libwebp

Specifications, model-checking runs and machine-checked proofs for the parts of
libwebp whose correctness depends on the order of things: threads that share a
frame or a picture, input that arrives in pieces and moves, decoding that goes
back to a checkpoint, errors that come late, choices about a frame that are made
after the next ones were encoded, passes that are made again, rows that come out of a pipeline later than
they went in, carries and lists that are resolved later. Paths are relative to
the `src/` directory of libwebp (`dec/idec_dec.c`, `webp/mux.h`, ...), or to its root
(`sharpyuv/`).

To check a run: `tlc -config <cfg> <module>`; the list is in `PROJECT.json`.
To check the proofs: `tlapm` on `Worker_proofs.tla`, `RowPipeline_proofs.tla`,
`IncrementalDecoder_proofs.tla`, `LosslessDecoder_proofs.tla`, `AnimDecoder_proofs.tla`,
`AnimEncoder_proofs.tla`, `Encoder_proofs.tla` and `Container_proofs.tla` (the longest:
ten minutes).

## 1. The system

libwebp encodes and decodes WebP images. Everything is a library called by one
thread; the only threads of its own are `WebPWorker` objects.

| component | state it keeps | operations | hard behaviour |
|---|---|---|---|
| worker, `utils/thread_utils.c` | status_, had_error, impl_ (mutex, condition, thread) | Init, Reset, Sync, Launch, Execute, End | two threads, one condition variable for both directions, unlocked signals |
| lossy frame, `dec/frame_dec.c`, `vp8_dec.c` | current row, caches, two sets of row buffers, status_ | VP8EnterCritical, VP8InitFrame, VP8ProcessRow, FinishRow, VP8ExitCritical, VP8Clear | one row finished by the worker while the next is parsed; lines held back for the filter, rotated and cropped |
| alpha plane, `dec/alpha_dec.c` | rows decoded so far | VP8DecompressAlphaRows | rows asked for in order, by the worker |
| incremental decoder, `dec/idec_dec.c` | state_, MemBuffer, addresses into it, last_mb_y_ | WebPIAppend, WebPIUpdate, WebPIDelete | input moves between two calls; a macroblock is tried again |
| lossless decoder, `dec/vp8l_dec.c` | bit reader, color cache, last pixel, checkpoint, last row | VP8LDecodeHeader, VP8LDecodeImage, VP8LDecodeAlphaImageStream | going back to the checkpoint; a color cache that is filled late; one reference that completes many rows |
| output, `dec/io_dec.c`, `buffer_dec.c`; container parsing, `webp_dec.c` | rescalers, the lines kept for the upsampler | CustomSetup, CustomPut, CustomTeardown; WebPParseHeaders | luma, chroma and alpha each have a delay of their own |
| rescaler, `utils/rescaler_utils.c` | accumulator, rows | import, export | rounding, factors that wrap around |
| bit readers and writers, `utils/bit_*` | value, range, pending 0xff bytes | VP8GetBit, VP8PutBit, Flush | carry, end of data |
| Huffman codes, `utils/huffman*`; color cache | tables | make, write, read, build | depth limits, over-subscribed and incomplete codes, table sizes |
| demuxer, `demux/demux.c` | frames and chunks found | WebPDemux, WebPDemuxPartial, iterators | partial files |
| animation decoder, `demux/anim_decode.c` | two canvases, previous frame | GetNext, Reset | disposal, blending, key frames |
| mux, `mux/mux*.c` | lists of chunks and images | Set, Push, Delete, Assemble, Create | clean-up before assembly |
| animation encoder, `mux/anim_encode.c` | ring of cached frames, counters | Add, Assemble | key frame or sub-frame decided later, skipped frames, merged durations |
| encoders, `enc/webp_enc.c`, `analysis_enc.c`, `alpha_enc.c`, `vp8l_enc.c` | VP8Encoder, its worker, the streams | WebPEncode | two uses of the worker, errors on either side, progress callbacks that abort |
| backward references, `enc/backward_references*_enc.c` | hash chain, references, intervals of costs | VP8LHashChainFill, VP8LGetBackwardReferences | arrays updated in place, intervals cut and split, a color cache that is replayed |
| samples: `dsp/`, `sharpyuv/`, pictures | none | kernels | SIMD versions (not a matter of states) |

How they interact. The incremental decoder owns a `VP8Decoder` or a
`VP8LDecoder` and gives it addresses in its input; the row loop of either lossy
decoder (`ParseFrame()` in `vp8_dec.c`, `DecodeRemaining()` in `idec_dec.c`)
parses a row and calls `VP8ProcessRow()`, which launches `FinishRow()` in the
decoder's worker; `FinishRow()` asks the alpha decoder (itself a lossless
decoder) for rows and calls the hooks of the `VP8Io` (`setup`, `put`,
`teardown`) that `io_dec.c` or the application supplies; `io_dec.c` sends the
rows through upsampler or rescaler to the output buffer. The encoders use the
worker in the same way. The muxer writes the files that the demuxer and the muxer
itself read; the animation encoder is above the former, the animation decoder
above the latter.

What makes the parts correct:

- the worker: a launched job runs exactly once, its data are the caller's again
  after `Sync()`, errors are not forgotten, no call hangs, nothing is used after
  it was freed;
- the frame: `put()` gets each line once, in order, when it is final, from
  buffers nobody is writing; `teardown()` is called if and only if `setup()`
  succeeded;
- the incremental decoder: the result does not depend on how the file was cut;
  addresses stay those of the bytes they were meant for; hooks are paired;
- the lossless decoder: the rows that leave it are those of the picture, whatever
  the cuts and however often it went back; what it keeps fits in its buffers;
- the output: each announced row is final in its luma and alpha, made of the right
  rows of the source, multiplied by its alpha once, whatever the strips; its chroma
  plane is final as soon as both rows of a pair are, or, rescaled, one call later
  (section 6); no loop waits for a row that only the next call has;
- the entropy codes: what is written is what is read, and tables have the size
  that was computed for them;
- the backward references: decoded, they are the picture; their costs are the
  least ones;
- mux and demux: what is assembled is read back as it was; a part of a file shows
  the frames that are entirely there and no error; a valid file is usable;
- the animation decoder: each canvas it returns is the composition of all the
  frames so far, though it looks at the previous one only;
- the animation encoder: a player shows each picture that was added, for the time
  up to the next one, whatever variants are chosen; waiting frames fit in the
  array; key frames come back often enough;
- the encoders: a success has the work of both threads and of a single pass, a
  failure has an error code, nothing is freed under the other thread, and
  `WebPEncode()` returns.

## 2. The modules

| module | role |
|---|---|
| `WorkerContract` | what `thread_utils.h` promises: abstract specification, no mutex, no thread |
| `Worker` | the pthread code of `thread_utils.c`, step by step; implements `WorkerContract` |
| `FrameOutput` | what a decoded frame promises the owner of a `VP8Io`: abstract specification |
| `RowPipeline` | the decoding of a lossy frame by two threads; uses the worker through `WorkerContract`, implements `FrameOutput` |
| `IncrementalDecoder` | `idec_dec.c` on lossy images |
| `LosslessDecoder` | `DecodeImageData()` and its two users: the lossless states of `idec_dec.c`, and the rows of a compressed alpha plane |
| `Rescaler`, `RowOutput` | the rescaler's rows; the emission of rows, in `io_dec.c`, `vp8l_dec.c` and `WebPPictureRescale()` |
| `WebPFile`, `Mux`, `Demux`, `Container` | chunks of a file; the muxer; the demuxer; both on the same file |
| `AnimCanvas` | canvases, frames, blending and disposal, shared by the next modules |
| `AnimPlayer` | what playing an animation means: abstract specification |
| `AnimDecoder` | `anim_decode.c`; implements `AnimPlayer` |
| `AnimEncoder` | `anim_encode.c` on lossless frames; its output is judged with the operators of `AnimCanvas` |
| `EncoderThreads` | `WebPEncode()` and its second thread; uses the worker through `WorkerContract` |
| `EncoderPasses` | the coding loops of `frame_enc.c`: `StatLoop()`, `VP8EncLoop()`, `VP8EncTokenLoop()` |
| `Encoder` | both together: the lossy encoder whole |
| `BoolCoder` | the boolean writer and reader |
| `HuffmanTable`, `HuffmanEncode` | the decoder's tables; codes made of a histogram, written and read |
| `CostManager`, `BackwardReferences` | the intervals of costs; the references of the lossless encoder |
| `EntropyCodes` | the five modules above, for one run |
| `MC...` | the instances for TLC |
| `..._proofs` | the theorems |

`RowPipeline` and `EncoderThreads` are composed with the worker by conjunction:
they hold the variables of `WorkerContract` and take its actions (`Wk!Accept`,
`Wk!Sync`, ...) together with their own. As `Worker` implements `WorkerContract`
(checked and proved), what holds of them holds with the real worker below.
`Container` composes `Mux` and `Demux` through the file one writes and the other
reads. `Encoder` gives the steps of `EncoderPasses` to the main thread of
`EncoderThreads` at the two places where the coding loop is one step each, and
`Encoder!EncoderSpec` implements `EncoderThreads!Spec` (proved).

Definitions marked `(faulty)` are variants of the operator that follows them,
with a bug such code could have. They are not part of any specification; putting
one in the place of the correct operator shows that a property would notice.

### Worker

`status`, `impl`, `hadError` and `data` are the fields of `WebPWorker`, `mutex`
and `waiting` the state of `impl->mutex_` and `impl->condition_`, `mainPc` and
`thrPc` where the caller and `ThreadLoop()` are. A step is what cannot be
interleaved: code under the mutex, up to a wait, the hook or the creation of the
thread. `pthread_cond_signal()` comes after the unlock, in a step of its own.
Waits may wake up without a signal. The client calls anything in any order the
header allows; `Launch()` and `Sync()` may come at any time, `SetHook` and
`Execute()` only between `Sync()` and `Launch()`.

`Reset()` clears `had_error` without the mutex while the hook may be running:
`had_error |= ...` in the worker is a read and a write, so the value it writes
is computed from the one before or after the `Reset()` (`seen`).

Not modelled: the Windows emulation of condition variables, the build without
threads, `Launch()` on an object that is down (it does nothing).

### RowPipeline

A frame (an element of `Configs`) is a height in macroblocks, a filter, a
cropping area, alpha or not, one-shot or incremental, with a worker or not.
Samples are abstracted to lines: an element of `cache` is the line of the picture
a row of the cache holds, and its stage: `"raw"` (reconstructed), `"own"` (the
edges of its row were filtered), `"done"` (the edge below too), `"bad"` when any
of them read something else than it should. So a wrong geometry, a wrong swap or
a wrong rotation shows as a line delivered with the wrong number or stage.
`ctx`, `decMb`, `decFi` model which of the two buffers each thread has; a buffer
holds `Garbage` while it is being written.

`VP8SetError()` is two steps (`SetError`, `WriteError`), because two threads call
it without a lock.

Not modelled: `mt_method_` 1, which `VP8GetThreadMethod()` never returns, columns
(filtering and cropping in `x` have the same structure without the held-back
lines), dithering; what `put()` does is in `RowOutput`.

### IncrementalDecoder

A file is the offsets of its parts; a buffer is known by the offset in the file
of its first byte (`base`), so "an address is right" is arithmetic: the address
`[buf, off]` means byte `base[buf] + off`, in a buffer that is still in `live`.
A reader has the address of its next byte, the number of bytes left, and, as
history, the position in the file this should be. `AppendToMemBuffer` always
moves to the other of two buffers when it reallocates, `RemapMemBuffer` may move
or not. A macroblock needs the bytes of its partition up to `file.mbs[i]`; a
reader may have loaded up to `Prefetch` bytes more than that.

Scaled down: `CHUNK_SIZE` 4096 is 4, `MAX_MB_SIZE` 4096 is 4 and the frame
header 10 bytes is 1; the files have 14 or 16 bytes. The constants only appear in
comparisons and in one rounding, whose cases all occur with these values; the
proofs hold for any of them.

`MbsInPartition` and `MbsFit` name the files two of the properties are about: those
whose even rows need no more than the first of two partitions has (in the others a
decoder waits for good), and those whose macroblocks are as small as
`DecodeRemaining()` takes them to be.

Not modelled: raw files without RIFF header (their chunk size is the size of the
first piece, `webp_dec.c:261`), files truncated within `WebPParseHeaders()`; an
address that moves is right before and after the call but the model says nothing
of the code between, which runs in one thread. Lossless images are in the next
module.

### LosslessDecoder

A file is the picture an encoder had and the tokens it wrote, each with the pixels
it describes and the amount of data after which it is there. The variables are
the fields of `VP8LDecoder` (`br`, `pixels`, `last_pixel_`, `last_row_`,
`color_cache`, the `saved` checkpoint) and the locals of `DecodeImageData()`,
which is cut at each token, each end of row (`Wrap`) and each call of
`process_func` (`ProcessRows`): a copy can complete many rows, and the rows are
due at rows that depend on the user. `Receive` brings any amount of data; at a
token whose end has not arrived (`EndOfStream`) decoding suspends
(`RestoreState()`) or fails. `cache` is filled up to `lastCached` only,
as the code does, and the checkpoint keeps a copy.

Scaled down: `SYNC_EVERY_N_ROWS` 8 is 2, `NUM_ARGB_CACHE_ROWS` 16 is 4; pictures
are eight rows of two pixels. So there are four rows between two batches and two
checkpoints in a batch, as in the code.

Not modelled: what the header holds (its sub-images are decoded by the same
function, at once), the inverse transforms (they take whole rows, in order), the
8-bit path `DecodeAlphaData()`, whose loop is the same without checkpoints, the
top and sides of the crop window, the input's addresses (`VP8LBitReaderSetBuffer()`
is called at the same place as in the lossy case, but a lossless reader has no
other address).

### Rescaler, RowOutput

A row of samples is what it is made of: its weights over the source's rows (or
columns), so a row that comes from the wrong place, or has a part of the wrong
row, shows, and rounding does not. The factor that wraps around to 0 in 32 bits
is kept (`fy_scale`). A source row comes in strips of any sizes, lossy strips
start at even rows as the decoder's do; `setup` chooses the way of emission as
`CustomSetup()` does, `Put` one call, whose loops are then steps (`Work`), with
luma, chroma and alpha in the order of the code. `times` counts how often a row
was multiplied by its alpha.

Not modelled: the conversion to colours (and the 4444 variants, that differ in it
only), failed allocations, `buffer_dec.c` (sizes and allocation), the SIMD
kernels.

### WebPFile, Mux, Demux, Container

A file is a sequence of chunks with their positions, sizes and what the payload
says; offsets and sizes are the code's arithmetic on small numbers: 3, 2, 2 and 2
in place of 12 (RIFF header), 8 (chunk header), 16 (ANMF) and 10 (features), with
payloads of 1 to 3 bytes, padded when odd. The canvas has one dimension: every
test on the height repeats the one on the width.

`Mux` is the object with its lists of chunks and of images; each of its functions
is an action, with its failures. `Assemble` removes the chunks it decides to remove
before it allocates, and may then fail; `Reopen` is `WebPMuxCreate()`. `Demux` is
one call of `WebPDemuxPartial()` on the first bytes of the file (none of them:
refused before `ReadHeader()`), one action per
chunk: headers, `StoreFrame()` chunk by chunk, validation. `Container` interleaves
edits and openings, and starts with no file or with one of 28 made by hand:
unusual but valid, or wrong in one way each (`Handmade`; of any such file it is only
assumed, by `HandmadeAssumption`, that it is a sequence of chunks that reaches the end
of the RIFF chunk, `IsFile`). `Assemble` has a guard, `ChainIsFrames`: a file with frames
and an image outside any frame passes the validation of `WebPMuxCreate()`, and
`GetAdjustedCanvasSize()` then stops the program at its assertion that the images of a
chain have a header; nothing is said of what a build without assertions does.

Not modelled: raw bitstreams without RIFF header, bytes after the RIFF chunk,
iterators and getters (they only read), copies and ownership of data, durations
and methods, limits on sizes, failed allocations of the demuxer, and bitstreams
whose features `MuxImageFinalize()` cannot read (`muxread.c:147` and `256`).

### AnimCanvas, AnimPlayer, AnimDecoder

A canvas is a row of `Width` pixels: the code treats rows alike but for the test
that a row lies in both rectangles, which is one more case where the whole row is
blended. A colour is the sequence of layers one sees, the nearest first: `<<>>` is
transparent, an opaque layer (`Solid`) hides what is under it, a partly
transparent one (`Sheer`) does not. So blending forgets nothing, and a pixel that
was blended twice, or with the wrong canvas, shows. `AnimPlayer` composes: dispose
of the previous frame, draw, add the duration.

The variables of `AnimDecoder` are the fields of `WebPAnimDecoder`; `out` is the
canvas the last successful call returned. `WebPDemuxGetFrame()` is modelled by
the choice of a frame of `Frames` at each call, which covers every file of
`FrameCount` frames; a file that changes when it is read again after a rewind is
covered too, and harmless. `GetNextFails` leaves a part of the frame in
`curr_frame_`, as a decoding that fails does; the same frame may be asked again.

Not modelled: the 8-bit arithmetic of the blending functions, the overflow of
timestamps, the failures of the demuxer.

### AnimEncoder

`cached` is the used part of `encoded_frames_` (`start_` and the capacity remain,
for the assertions of `GetFrame()`); an entry has both variants and which one is
chosen. `WebPAnimEncoderAdd()` is cut where it calls something that may fail:
`Add` (durations, and a flush when the array is full: `pc = "room"`), the caching
of the picture (one action per branch of `CacheFrame()`), and `FlushFrames()`, one
`PushFrame` per frame. The sizes of encoded frames, which decide between
candidates, variants and key frames, are arbitrary: `\E c \in Candidates`,
`\E penalty \in Penalties`.

History: `muxed` is the canvas of a player that has all the pushed frames, `due`
what is still to be played by the waiting ones, one entry per tick, `extra` the
time given to the last picture by a call that has not succeeded yet. Keeping what
is due, and not what was added and pushed, makes animations of any length a
finite model. `count_since_key_frame_` saturates above `kmax`.

Scaled down: `MAX_DURATION` 2^24 is 3, `MAX_CACHED_FRAMES` 30 is 3, `INT_MAX` (the
`kmax` without key frames) is 10. They appear only in comparisons; each side of
each is reached.

Not modelled: lossy and mixed compression (whose rectangles may ignore small
differences, so what is played is not exactly what was added), the re-encoding of
an animation that has a single frame (`OptimizeSingleFrame()`), timestamps that
decrease (refused without effect), a client that calls `Add` after a NULL frame.

### EncoderThreads

The inputs are the shape of the picture and of the configuration; each allocation,
stream, and call of the progress hook or of the writer may turn out any way. The
lossy path: the analysis split between two threads, the alpha plane compressed
during the coding loop or inline, waited for before the file is written or, after
an error, before the encoder is freed. The lossless path: the configurations split
between two threads, each with a picture, an encoder and a bit writer of its own,
and the choice of the shortest stream. What is coded is abstracted to what it was
made of: a row, a stream of a configuration and a size. Setting an error code is
a read and a write, since two threads do it (`SideSetsError`).

The coding loop of the lossy path is two steps: `EncLoop` stands for `StatLoop()`,
whose result is ignored, `EncLoopEnd` for the rest and for what it returns.

The error codes of writing the file (a failed write, a partition or a file too big)
are one, `"BAD_WRITE"`.

Not modelled: the transforms, the clustering of histograms (heuristics over pixels).

### EncoderPasses, Encoder

`EncoderPasses` is `frame_enc.c` without the pixels. Everything the loops keep is
the set of the macroblocks it was made of, each marked `"now"` or `"before"`: of the
pass that began last, or of another one, hence with another quantizer, or with
modes that did not fit. `BeginPass` turns the marks of what the code keeps; what it
resets is empty. `counted` is `proba_.stats_`, `skips` those `nb_skip_` was counted
over, `coeffs` and `skipProba` the probabilities, `tokens` the token buffer, `coded`
the token partition, each macroblock with the probabilities it was coded with (the
header will give the last ones), `sideInfo` the `block_count_` of the statistics and
`filterStats` what `VP8AdjustFilterStrength()` chooses the filter from.

`loop` says where the loops are; `left`, `last`, `dq` and `headerBits` decide whether a
pass is the last one, is made again (`StartOver`) or changes the quality
(`ComputeNextQ`). Whether the modes of a pass fit, and how far the quality is from its
target, may turn out any way. `Unsized` is the case that `StatLoop()` mistakes
for a refusal of the hook (section 6).

In `Encoder` the passes run while `pc` is `"loop"` (statistics) or `"loopEnd"`
(coding); `EncLoop` and `EncLoopEnd` are taken with the step that ends each, and give
`errorCode` and `ok` the values that follow. The other thread may compress the alpha
plane between any two of these steps.

Not modelled: the order of macroblocks in the partitions, the pages of tokens, the
percentages of the progress hook, the choice of modes.

### BoolCoder

The arithmetic of both directions on bytes of `ByteBits` bits, with all constants
derived from that: the writer's `value_`, `range_`, `run_` of pending 0xff bytes
and carry, the reader's words, single bytes and zeros past the end. A symbol is
written with a probability or uniformly, and read by `VP8GetBit()` or
`VP8GetSigned()`.

### HuffmanTable, HuffmanEncode

`HuffmanTable` is `BuildHuffmanTable()`: a pass that computes the size, and one
that fills the table, on any lengths, valid or not. `HuffmanEncode` makes the code
of a histogram (`OptimizeHuffmanForRle()`, the tree with a limit on its depth,
canonical codes), writes it (the simple codes, the run-length tokens, the code of
the lengths, trimmed) and reads it with `ReadHuffmanCode()`.
Scaled down: `MAX_ALLOWED_CODE_LENGTH` 15 is 4, `HUFFMAN_TABLE_BITS` 8 is 2, the
limit of the code of lengths 7 is 4, `DEFAULT_CODE_LENGTH` 8 is 2, `kMaxBits` 8 is 3.

Not modelled: the segments tables are allocated in, lengths above the limit.

### CostManager, BackwardReferences

`CostManager` is the structure of `backward_references_cost_enc.c`: the least cost
of reaching each pixel, when a copy offers its cost to all the pixels after it;
offers are intervals that do not overlap, cut, replaced or split by better ones,
written down when their pixel is reached or when the list is full.
`BackwardReferences` fills the hash chain (links from pixel to pixel first, matches
from the right after: the code keeps both in one array and overwrites the links that
it no longer needs, the model has two functions and says nothing of that), makes references in three ways (run lengths,
matches with a look at the next ones, matches in a box of plane codes), adds the
color cache, and looks for cheaper references through the manager
(`BackwardReferencesHashChainDistanceOnly()`, the trace backwards, and
`FollowChosenPath()`). Costs are an input and integers; entropies are left out, so
the choices they decide are made in every way.

Scaled down: `MIN_LENGTH` 4 is 2, `MAX_LENGTH` 4095 is 6, the length that ends a
search 256 is 4, the window 20, 6 tries, `HASH_SIZE` 2^18 is 16 (collisions
happen), `COST_CACHE_INTERVAL_SIZE_MAX` 500 is 4, `kSkipDistance` 10 is 3.

Not modelled: the entropies, the histograms, sub-resolution (clusters).

## 3. The runs

| run | distinct states | what it shows |
|---|---|---|
| `worker` | 11,251 | all interleavings with 2 jobs and no job: the protocol implements the contract, with its liveness |
| `row_pipeline` | 588 frames | output, races, hooks, termination |
| `incremental` | 130,249 | 9 files, pieces of 0, 1, 2 and 5 bytes: addresses, progress, hooks |
| `lossless` | 235,820 | 72 files cut anywhere, or decoded as alpha rows: going back to a checkpoint changes nothing |
| `row_output` | 282,663 | every division into strips, every way of emission: right rows, final (the chroma with its delays), in time |
| `container` | 268,991 | every container of two frames at most, 28 handmade files, cut anywhere |
| `anim_decoder` | | every file of 3 frames out of 32: what is shown is the composition of all frames |
| `anim_encoder` | | animations of any length, 7 options, 5 pictures: what is played, room in the array, key frames |
| `encoder` | 163,193 | both threads of the encoder and all its passes, every failure of either |
| `entropy_codes` | 1,139,000 | four entropy codes and the references that are coded with them |
| `container_fits`, `rescale_flat` | | disagreements between the code and what its documentation says, see section 6 |

Why these bounds are enough.

- *worker*: the state is finite for a given set of jobs: there is no bound but
  the set. Two jobs tell the fields of one from those of another; the absence of
  a hook is a third value.
- *row_pipeline*: five rows go through the three caches, wrap, and use the
  rotated lines of a wrap and the first row of the next; the last row is reached
  after a wrap. The cropping areas start and end on each side of a row and of the
  lines held back by the two filters (2 and 8): 14, 16, 18, 24, 34 and 39 to 48,
  75, 80. Frames with alpha have four rows, as alpha doubles the branches.
- *incremental*: partitions of 8 and 5+6 bytes are cut at each byte (pieces of 1),
  after several macroblocks (5), and calls may bring nothing (0). A file has one
  partition, which is released as it is read, or two, which are not; alpha is
  combined with headers that are corrupted, since such a decoder is never ready
  and yet has a `VP8Decoder` with an address in the input.
- *lossless*: eight rows make two batches and four checkpoints; copies of 1 to 7
  pixels and more (the last one fills the picture) end inside a row, at its end,
  and rows later; keys of the cache follow pixels that are not inserted yet. Some
  tokens take no data; a file may be one unit too short, or refer to pixels before
  the first one.
- *row_output*: up to 11 rows to up to 13, hence ratios above, below and equal to
  1, and more rows than one call can export; widths up to 7 to up to 10; refused
  sizes occur (`MaxDimension` 12).
- *container*: two frames, since the treatment of one frame is special and the
  rest is the same for each; payloads of odd and even size; known and unknown
  chunks, set, replaced and deleted; frames that fit the canvas and do not.
- *anim_decoder*: three frames are one to dispose of, one to blend and one that
  depends on both; three pixels make rectangles that are disjoint, nested, full and
  overlapping on each side. The proofs remove these bounds.
- *anim_encoder*: options of each kind: all key frames, none, `minimize_size`, and
  periods whose candidates are one, two and as many as may wait. Differences
  between pictures start at odd and even pixels, some can be blended over others and
  some cannot. Durations are 0 to 2 with a maximum of 3:
  two merged pictures already overflow.
- *encoder*: three rows are split 2 and 1, four configurations 2 and 2; sizes 1
  and 2 make each of the threads win. Three passes are one with the first step of the
  quality, one that may end the search and a last one; `HeaderBits` 2 lets a pass
  start over twice, 0 never; the probabilities are refreshed after each macroblock
  (`RefreshAfter`, 96 or more in the code), and a fast probe looks at one of the two.
  The proofs remove these bounds.
- *entropy_codes*: eight symbols of the boolean coder are what a carry through
  pending bytes of 3 bits takes, the reader has words, bytes and padding to read.
  All lengths of six symbols up to 4 with a first table of 4 entries give one to
  several second tables, complete or not, over-subscribed at each length. The
  3,300 histograms are all those of five symbols over five counts, some deeper than
  the limit, and long ones with runs of zeros of each repeat code; the runs of 138
  and more are at the end only, since TLC's recursion is too deep otherwise. The
  pictures are all those of eight pixels and two colours, in one and three
  columns, and wider ones of 27 to 31 pixels, so that the plane codes on the right
  of the pixel above occur, copies are longer than the maximum, and the list of
  intervals is full; two cost models, one for long copies, one for copies of two.

No run uses symmetry, because of the temporal properties and because the two
jobs are the only symmetric values. `CHECK_DEADLOCK` is off for `AnimEncoder`,
whose client is done after `Assemble()` or an error; it is on elsewhere: ended
decodings stutter in an explicit step.

### Properties

*Worker.* `NothingInUse` (neither the data nor the mutex), `ExactlyOnce`,
`FailureRemembered`; `RefinesFairContract` (refinement with liveness); `CallReturns` (no lost wakeup).

*RowPipeline.* `OutputCorrect` (each delivered line is the final one, in order,
with its alpha), `NoDataRace`, `IdleOutsideDecoding`, `RefinesFrameOutput`,
`DecodingReturns`.

*IncrementalDecoder.* `AddressesRight`, `DecodesAllItCan` (whatever the cuts, a
suspended decoder is waiting for bytes it does not have), `HooksPaired`,
`NoFalseError`.

*LosslessDecoder.* `OutputRight` (the rows that left are the picture's),
`BatchFits` (the assertion of `ProcessRows()`: never more rows than the buffer
holds, never backwards), `GoodFilesAreDecoded` (once all of it is there, and data
that has not arrived is not an error).

*RowOutput.* `OutputRight`, `PutReturns` (no loop waits for the next strip),
`AnnouncedRowsStay`: rows below `last_y` are not touched again, in luma, alpha, and in
the chroma rows all of whose rows are announced (`WholeChroma`). For
`EmitRescaledYUV()` the latter are there when the next call ends, and stay once they
are exported. Both delays happen in the run, and the words of the documentation do not
let one expect them (section 6).

*Container.* `WrittenIsRead`, `PartialIsPrefix` (a file cut anywhere is no error, except
for an empty buffer, which always is one), `DoneIsUsable` (also for files the
muxer did not write), `AssembleAgain` (a clean-up that precedes a failed
allocation does not change what is written later).

*AnimDecoder.* `PlaysAsSpecified` (refinement of `AnimPlayer`), `KeptCanvas`.

*AnimEncoder.* `PlaysPictures` (each picture, for its duration), `EitherVariant`
(what follows a frame that may still change its variant does not depend on it),
`RoomForNext`, `KeyFramesRecur` (the bound that does hold on the distance of key
frames).

*Encoder.* `SuccessIsComplete`, `FailureExplained`, `FreedWhenIdle`; `OnePassIsCoded`
(the stream, its probabilities, the side information and the filter are of one
pass, whichever turned out to be the last); `EncodeReturns` (no pass is made again
for ever, no thread waits for ever).

*EntropyCodes.* `RoundTrip` (the reader finds the symbols), `TableRight` (the
table decodes each code, has the computed size, and is refused exactly when the
lengths are no code), `CodesAgree` (the lengths the decoder reads are those of the
encoder's code, within the limit), `ReferencesAgree` (decoded, the references are
the picture, with any color cache; plane codes are inverted), `CostsAreLeast` (the
cost of a pixel that the search has passed is the least that was offered to it,
with the length of such an offer; offers that are skipped are those of copies
that others contain).

### Fairness

`Worker!FairSpec`: weak fairness of each thread (a runnable thread runs; hooks
return, as all hooks of the library do) and strong fairness of taking the mutex,
because the other thread releases and retakes it in a loop: POSIX does not
promise it, but without it the library could not promise anything. Nothing is
assumed of the client, nor of spurious wakeups.

`RowPipeline!FairSpec`: weak fairness of the two threads. Nothing forces the
caller of the incremental decoder to continue.

`LosslessDecoder!FairSpec`: weak fairness of `Decode` (the code runs on) and of
`DecodeAlphaRows` (the frame decoder asks for rows up to the last one, as
`FinishRow()` does). Nothing is assumed of the arrival of data:
`GoodFilesAreDecoded` only speaks of files that are all there.

`RowOutput!FairSpec`: weak fairness of `Work`: a call runs on.

`Encoder!FairEncoderSpec`: weak fairness of each of the two threads; `Sync()` is
disabled until the job is over, so it is no promise that a wait ends.

The others have only safety properties. Progress within a call of the incremental
decoder is `DecodesAllItCan`; the animation, container and entropy modules run in
one thread and have no loop that could not end.

## 4. The proofs

Assumptions: `JobAssumption` (the absence of a job is not a job),
`ConfigsAssumption` (values that `VP8GetThreadMethod()`, the frame header and
`WebPIoInitFromOptions()` can produce: any height, any cropping area),
`WidthAssumption` and `FramesAssumption` (frames lie in the canvas, and one whose
`has_alpha` is 0 has only opaque pixels), `EncoderAssumption` (some number of
rows, at least one configuration), `PassesAssumption` (at least one macroblock, one
pass, one macroblock between refreshes), `FilesAssumption` of `IncrementalDecoder` (the
order of the parts of a file, the sizes of its header and table of partitions) and
`BoundsAssumption` (numbers that are not negative), `SizesAssumption` and
`FilesAssumption` of `LosslessDecoder` (tokens follow each other and describe the
picture; rows between checkpoints are at most those of a batch, 8 and 16 in the
code), `FormatAssumption`, `MuxAssumption` and `HandmadeAssumption` of `Container` (sizes of the
format that are even where the format says so, bitstreams and files of any content),
`CanvasesAssumption`, `OptionsAssumption` (any integers: `Sanitize` makes of them
what `SanitizeEncoderOptions()` does) and `LimitsAssumption` of `AnimEncoder` (room for
one frame, a `kmax` of two at least for no key frames, `DELTA_INFINITY` above every
penalty). TLC evaluates all of them in the runs.

`Worker_proofs`: one inductive invariant gives `TypeOK`, `NothingInUse`, `ExactlyOnce` and `FailureRemembered`, and the refinement of
`WorkerContract` (`WorkerRefinesContract`; the run checks it with liveness). None
of them is inductive alone: that a job runs
once needs to know that only the owner of the mutex is between its lock and its
unlock, that `status` is `WORK` while the hook runs, that the caller is in a call
of `ChangeState()` only while `impl` is up, and that the thread exists from
`ResetCreate` to `EndJoin`; the invariant says which program counters hold the
mutex and which statuses each of them allows. The refinement maps each step to a
step of the contract or to a stutter: `ChangeAssign` to `Accept` or `Stop`,
`ThrFinish` to `Complete`, the last unlock of `ChangeState()` to `Sync`.

`RowPipeline_proofs`: `TypeOK`, `NoDataRace` and `IdleOutsideDecoding` for frames
of any height, with any cropping area and any filter. The inductive part relates
the job in flight to `FinishRow()`'s program counter (`job` is non-empty exactly
when the worker is in `FinishRow()`), the two sets of buffers (those of the main
thread and of the context differ whenever there is a worker, and the swaps
exchange them) and the states of the main thread in which no job can be in flight
(before the first launch, between `Sync()` and `Launch()`, suspended, after the
last `Sync()`).

Then `LinesAreFinal` (`OutputCorrect`) and `ImplementsFrameOutput` (every step is one of
`FrameOutput` or a stutter). `FrameInv` says what row `m` finds when its `FinishRow()`
starts: the lines held back of row `m - 1`, filtered on their own, just above its cache
(at the negative indices when the caches have wrapped), the samples above it of row `m -
1`, the alpha plane up to its first line; what each step has made of the 16 lines and
of those above; and how many lines are delivered by then, `DoneTo(m)`, which is the
arithmetic of cropping and held-back lines in one formula. The first row that is
filtered after unfiltered ones, the rows above and below the cropping area and the last
row each need a clause. That lines come in order is that `Delivered` is `DoneTo(m)` at the
start of each row, and the totals `FrameOutput` asks for are `DoneTo` past the last one.

`IncrementalDecoder_proofs`: the four safety properties, for any layout of the file, any
pieces, any sizes. `IncrementalInv` says, for each state of `idec_dec.c`, where in the
file the memory starts (`MemInv`, `HeadersInv`) and of which byte each address is
(`Part0Inv`, `PartsInv`, `AlphaInv`): `base[mem.buf] + mem.end = received`, and an address that
is still needed is not below the first byte a reallocation keeps, which is why
`alphaData` has an invariant of its own as long as the plane is not decoded. `RowsInv` ties
`last_mb_y_` to the rows whose modes are parsed; `MbInv` says how much of a single
partition is released, from which the `MAX_MB_SIZE` test does not fail for a file that
is `MbsFit` (`NoFalseError`). `SuspendedInv` is `DecodesAllItCan` itself: each place that
suspends knows which byte it lacks.

`LosslessDecoder_proofs`: `OutputRight` and `BatchFits`, for any picture, any list of
tokens that describes it, any size of batches and any arrival of data. The invariant,
`LosslessInv`: the pixels below `src` are the picture's; the reader is at the token that
describes `src`; the color cache is what the pixels below `lastCached` leave in it, and so
is that of the checkpoint for its place (`PlacesInv`); colors wait to be inserted only in
the middle of a row, where no checkpoint is made (`CallInv`); the rows that left are all
those that were due, at most a batch ahead of the place where decoding resumes
(`RowsInv`), and less than a batch ahead of the checkpoint (`SyncInv`): this is what
keeps a second pass over rows that were already given away from giving them twice, and
where `SyncRows <= CacheRows` is needed.

`AnimDecoder_proofs`: the decoder implements `AnimPlayer` for canvases of any
width, frames of any content and files of any length. The type invariant is not
enough: a key frame starts from an empty canvas when the previous frame is to be
disposed of and was itself a key frame, so nothing may be left outside its
rectangle; and pixels in the rectangle that was disposed of are not blended, so
they must be transparent. `KeptCanvas` says these two things of
`prev_frame_disposed_`, and is inductive with the types. `InsideFrame`
and `OutsideFrame` compare each pixel of a step with the one `Draw` gives: not
blended, key frame, blended over what is kept, left alone where it was cleared.

`Encoder_proofs`, about `EncoderThreads`: its three properties, for pictures of any
height and any number of configurations. A first invariant, `CtlInv`, is about control: at which
places of `WebPEncode()` the worker is up, a job may be in flight, or `ok` may be
false with the error code still unset (between a failed `Sync()` and the code
that sets it). It is inductive by itself and gives `FreedWhenIdle` and
`FailureExplained`. `SuccessIsComplete` needs what has been done at each place:
`LossyInv` (a thread's analysed rows are those of its part that precede the next
one, all of them once the job is over without error; the plane is compressed when
the alpha job ended well) and `LosslessInv` (what each thread has tried, that its
kept stream is the shortest of these, that its statistics describe it, and the
same of both after the choice). Each is preserved one path at a time: `LossyLeavesLossless`
and `LosslessLeavesLossy` say that an action of one path does not touch the
other's variables.

`Encoder_proofs`, about the whole encoder: `RefinesThreads`, that a step of the whole encoder is one of
`EncoderThreads` or changes none of its variables, hence `ThreadsAreSafe`, the three
properties above with the passes; and `OnePassHolds`, for pictures of any size, any
number of passes and any limit on the modes. The invariant, `PassesInv`, says at each
place of the loops which macroblocks of the current pass the statistics, the tokens
and the side information hold: exactly the first `block` ones in the last pass with
tokens, at least these in `StatLoop()`, none in a pass that is not the last. That
the side information is empty at the start of each pass is what `ResetSideInfo()` is
for.

`AnimEncoder_proofs`: for canvases of any width, animations of any length, all options
and whatever candidates, variants and key frames the sizes decide for.

- `EntriesStayUsable` (`BaseInv`) and `EncodedFramesSuffice` (`RoomForNext`), also for a
  client that goes on after an error. Sanitized options have either `kmax` 0 or
  `kmin < kmax` (`OptionsInv`); a frame waits only while a key frame that follows `kmin`
  others is not confirmed (`RoomInv`: `start + Count <= sinceKey - kmin`, hence less than
  `Size`); an entry that may be used both ways has both frames, with the same duration
  (`EntriesInv`).
- `PlayedAsAdded` (`PlaysPictures`) and `DemotionIsUnseen` (`EitherVariant`), for a
  client that stops at the first error (`~UseAfterError`, as in the run: section 6 says
  what happens otherwise). `Played` is a recursive function; `PlayTo` is the same with
  its initial state as an argument, and lemmas by well-founded induction say how it
  grows with a frame, how it starts from its second one and on what it depends.
  `PlayInv` says that a player that has the waiting frames shows the last picture, for the
  time that is due (`TicksInv`, `ShownInv`); that `prev_canvas_` is this picture and
  `prev_rect_` the rectangle of the last frame, which is not disposed of yet
  (`PrevInv`, `LastInv`): candidates are computed from these two, and are right
  only if a player has them too; that the frame that may be demoted paints the same
  canvas either way and, when it is the last one, is undecided, so no candidate of the
  next frame assumes anything of its rectangle (`KeyInv`); and that the ticks not
  confirmed yet are the last ones of the last frame, so that a frame pushed
  before never takes them (`ExtraInv`).
- `KeyFramesComeBack` (`KeyFramesRecur`), under the same condition. `DistInv` counts the
  frames since the last one a player may start at, entry by entry, twice: `dist`
  with the key frame that may still be demoted, `far` without it. Any functions that are
  at least the distances will do (`Counted`). Both stay within `Farthest`, the bound
  of the property; after the last entry `far` is at most `Reach`, that is
  `kmax - kmin - 1` more than the period has frames, and `dist` at most the number of
  frames since the first that could be a key frame. A better key frame takes the place
  of the one in `dist` and is counted from `far`; the end of a period, or a push, makes the
  key frame final and `dist` the only count. Key frames but the first repaint the whole
  canvas (`KeysInv`), which is what lets a player start there, and the transparent
  frame that carries a long duration takes no distance (`Quiet`).

`Container_proofs`: any object, any calls and any file that is chunks to its end, of any
length, cut anywhere.

- `InvHolds` is the inductive invariant. Of the muxer it says (`Muxes`) that each list
  holds chunks of its own kind and that an image has alpha exactly when its bitstream or
  an ALPH chunk gives it some. Of the file, that it is chunks one after the other
  (`FilesAreFiles`): the positions are sums of sizes, so this is a statement about the
  writer, and it is what the parser's positions are compared with. Of the parser
  (`ParserInv`), for each place in the code: at the head of a loop a chunk begins at
  `start` and its header is there (`PlaceInv`); each piece of data that a frame holds is
  there, and an alpha plane that precedes its image ends where the image starts
  (`FramesInv`, `FragmentInv`); while `StoreFrame()` runs, the counts of alphas and
  images say which of the two fields are filled, and as long as there is no image the
  alpha ends where the next chunk starts (`StoringInv`); and a simple file starts with its image, so
  it never has an alpha (`SimpleInv`).
- `DoneIsUsableHolds` follows from the part of `ParserInv` about frames, which is needed
  because `IsValidExtendedFormat()` itself only compares the offsets of image and alpha:
  that the payload `GetFramePayload()` makes of the two is contiguous, and that it is
  inside the data, is known from what `StoreFrame()` did before.
- `AssembleAgainHolds`: the clean-up of `WebPMuxAssemble()` leaves nothing to clean
  (`CleanupCleans`), and two objects that differ only in their VP8X chunk are assembled to
  the same one, since that chunk is deleted before it is made again (`AssembledSame`).
- `WrittenIsReadHolds`: `WebPMuxCreate()` undoes the writer, for any object that is
  written and whose images without header have no unknown chunks. The reader goes by tags
  and positions, the writer by lists: its chunks are followed list by list in the order of
  writing (`Run`, `At`, `PartIsTaken`), and between two lists the object has the lists
  before and nothing of the others (`Partly`). An image is followed by its chunks: an
  `ANMF` announces where its last chunk ends, and that this is exactly where it ends
  (`EndOfAnmf`) makes the image complete then and not before (`Within`). The object must
  be `Valid()` again with the canvas of its VP8X, and the first chunk one that
  `WebPMuxCreate()` accepts (`FirstTag`); so the invariant (`WrittenInv`) says that what
  is written was valid, and that its VP8X has its own canvas: `CreateVP8XChunk()` computes
  it from the images (`HeaderBecomesTrue`).

`TotalSize`, `FlattenSeq` and the `FoldLeft` of `Create` are recursive functions: that
each has a value of its type for every sequence is proved by induction on the length,
with the set of the lengths for which it is so in place of a predicate (`HasFolds`), since
the library's theorem of induction cannot be given an operator.

Only model-checked: liveness (`CallReturns`, `RefinesFairContract`,
`DecodingReturns`, `GoodFilesAreDecoded`, `PutReturns`, `EncodeReturns`), because the prover handles neither
fairness nor `ENABLED`; `PartialIsPrefix` of `Container`, which follows the parser through
a file cut anywhere as `WrittenIsReadHolds` follows `WebPMuxCreate()` through a whole one;
those of `RowOutput` and of the entropy codes, which compare loops with a definition
by recursion or fold over the data.

## 5. Plan

Done: the modules above, and the theorems of section 4. Next, in this order:

1. `PartialIsPrefix` for any object; `CostManager`: intervals never overlap.
2. The modules' remaining parts: lossy frames in `AnimEncoder`, raw bitstreams in
   `Demux` and `IncrementalDecoder`.

### Not modelled

- Headers, modes, quantizers and coefficients of a lossy frame: straight-line
  parsing whose only state is probabilities; `IncrementalDecoder` has their size
  and the retries.
- The transforms, the 8-bit path of alpha, prediction, dithering, `dsp/`,
  `sharpyuv/`, conversions of pictures: arithmetic on samples, without an order
  of things to get wrong.
- `buffer_dec.c`, allocations, limits on sizes: checked arithmetic and `malloc`.
- The heuristics of both encoders (segments, trellis, histogram clusters, palettes,
  predictors): any outcome is correct; where they choose between candidates the
  models choose any.
- Tools, image readers and writers, bindings, fuzzers, benchmarks, build files.
  Two files of the benchmarks and of the grafted SIMD code, generated by wasm2c,
  are more than two thirds of the C code of this repository.

## 6. What the runs found

- `container_fits`. `mux.h:321` says of the canvas size that it is "enforced
  during subsequent calls to WebPMuxAssemble() and an error is reported if any
  animated frame does not completely fit within the canvas". An animation of a
  single frame that leaves the canvas because of its offset is assembled:
  `GetAdjustedCanvasSize()` (`muxedit.c:456`) takes the size of the only image and
  ignores its offset. The demuxer rejects the file. (`PartialIsPrefix` excludes it.)
- `rescale_flat`. `WebPRescalerInit()` computes `fy_scale` as 2^32 / `x_add` when
  the height grows (`rescaler_utils.c:74`); for `x_add` 1 (a width of 1 that is not
  enlarged beyond 2, or the chroma of such a picture) this is 0 in 32 bits, and the
  picture, or its chroma, comes out as 0. The other such case is handled a few
  lines above (comment at lines 64-67).

Noticed while reading or modelling, not stated as runs:

- Lossy decoding. `vp8_dec.c:100`, "The oldest error reported takes precedence
  over the new one": not when the main thread and the worker report at the same
  time (the test and the write are not atomic). `vp8_dec.h:38` documents printing
  the status when `VP8Decode()` fails; a refusal of `put()` for the last rows, with
  a worker, fails with the status still OK. `frame_dec.c:723` says that `teardown()` is due
  after `setup()` "no matter what", while `vp8_dec.h` and the code exclude a
  `setup()` that fails (modelled as the code does). `thread_utils.h:45` calls
  `had_error` the "return value of the last call to 'hook'", but it accumulates the
  failures since `Reset()`, which the callers need.
- Incremental decoding. `idec_dec.c:36`, "If there is any error the decoder goes
  into state ERROR": not for a failed `VP8New()`, nor for a failed flip or final
  copy, after which the next call returns OK. `idec_dec.c:200` asserts a buffer
  that a first, empty `WebPIAppend()` did not allocate. A suspended decoder
  reports `BITSTREAM_ERROR` where a refusal of `put()` is reported as `USER_ABORT`
  elsewhere. The `MAX_MB_SIZE` test of `DecodeRemaining()` counts, for the first
  macroblock, the header bytes of partition 0, since `CopyParts0Data()` releases only
  the part of it that was not read yet (`MbsFit` takes this into account).
- Output. `decode.h:345`, "*last_y is the index of last decoded row in raster scan
  order", and line 353 for YUVA images, "Same as above function". For lossless
  pictures the chroma of the last announced row, if it is the first of a pair, is
  that row's alone until the next one is averaged with it (`ConvertToYUVA()`,
  `vp8l_dec.c:677`); this takes an odd number of rows, hence rescaling or a crop that
  starts at an odd row. With `use_scaling` from YUV to YUV (`io_dec.c:267`) the chroma
  of announced rows may not be written at all before the next call. `AnnouncedRowsStay`
  has these cases as its exceptions. `WebPPictureRescale()` leaks its work buffers when `RescalePlane()` fails.
- Mux and demux. `WebPMuxSetChunk()` with a second unknown fourcc returns
  `NOT_FOUND`. The test that the last frame is complete in `AddFrame()` of the
  demuxer is never false. A `PARSE_ERROR` of a frame may be replaced by
  `NEED_MORE_DATA` near the end of partial data.
- Animation encoder. `mux.h:431` calls `kmin` and `kmax` the "minimum and maximum
  distance between consecutive key frames in the output"; the period is counted
  from the last time `kmax` was reached and not from the key frame, which may come
  earlier, so the distance can be up to `2 * kmax - kmin - 1`. `mux.h:487`,
  "timestamp of next frame - timestamp of this frame": not after an `Add` that
  fails, whose duration was already counted. `anim_encode.c:54`, `prev_rect_` is the
  "Previous WebP frame rectangle": not after the key-frame variant of a picture
  failed to encode; a client that goes on has its next picture encoded for a canvas
  cleared at the wrong place.
- Encoders. `VP8EncLoop()` does not look at the result of `StatLoop()`, and
  `ResetAllMBInfo()` not at that of `WebPReportProgress()`: a hook that refuses once,
  there, is ignored, although `encode.h:264` calls it a request to abort;
  `WebPEncode()` then returns 1 with `error_code` `USER_ABORT`. `coded_size` is
  written by both threads when encoding fails, and the alpha job sets `error_code`
  without a lock. `OneStatPass()` returns the size of the modes, and `StatLoop()`
  takes 0 for a refusal of the hook (`frame_enc.c:646`); for methods 0 to 2 without a
  target nothing is added to it but the segment map, which is 0 for a single segment:
  then only one pass is made, and the probabilities it was made for are not
  computed (the table at `webp_enc.c:76` promises "dynamic proba"). In a fast probe
  `nb_skip_` counts the macroblocks of the probe and is compared with all of them.
  With `partition_limit` 100, `max_i4_header_bits_` is 0, so the first pass is the
  last one, whatever `target_size` asks for. A last pass that starts over in
  `VP8EncTokenLoop()` has already exported its macroblocks, so with
  `show_compressed` the next one encodes the compressed picture. The comment of
  `CompareHuffmanTrees()` says of counts and of values
  "(more comes first)"; among equal counts the smaller value comes first.
- References. Matches that `VP8LHashChainFill()` finds never cover the last pixel,
  so the `len == pix_count - i` of the assertion at
  `backward_references_cost_enc.c:656` can only come from the box.
