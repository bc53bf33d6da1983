------------------------------ MODULE Container ------------------------------
(***************************************************************************)
(* The muxer and the two parsers together: a container is made or read,    *)
(* edited, assembled, edited again, and what was written is opened by      *)
(* WebPMuxCreate() or, cut anywhere, by WebPDemuxPartial().                *)
(***************************************************************************)
EXTENDS Mux, Demux

CONSTANT Handmade     \* files that other programs wrote

ASSUME HandmadeAssumption == \A f \in Handmade : IsFile(f)

vars == <<file, mux, result, parser>>

Init ==
  /\ mux = NewMux /\ result = "none"
  /\ file \in Handmade \cup {NoFile}
  /\ DemuxInit

Edit == pc = "none" /\ MuxNext /\ UNCHANGED parser

Parse == DemuxNext /\ UNCHANGED <<mux, result>>

Next == Edit \/ Parse

Spec == Init /\ [][Next]_vars

------------------------------------------------------------------------------
(* Properties                                                              *)

\* The file is what the last WebPMuxAssemble() wrote, from mux as it is.
Written == file # NoFile /\ result = "OK"

\* What the file says of each image: its chunks, and where all of it ends.
ChunksWith(tags) == SelectSeq(file.chunks, LAMBDA c : c.tag \in tags)

End(i) ==
  LET c == IF HasHeader(mux.images[i]) THEN ChunksWith({"ANMF"})[i]
           ELSE ChunksWith(ImageTags)[i]
  IN  c.at + ChunkHeaderSize + Padded(c.size)

Shows(f, i) ==
  LET image == mux.images[i]
      bits == ChunksWith(ImageTags)[i]
      payload == FramePayload(f)
  IN /\ f.num = i /\ f.width = image.width /\ f.hasAlpha = image.hasAlpha
     /\ f.x = (IF HasHeader(image) THEN image.anmf[1].x ELSE 0)
     /\ payload.at + payload.size = bits.at + DiskSize(bits)
     /\ payload.at = bits.at - (IF image.alph
                                THEN DiskSize(ChunkOf("ALPH", <<>>)) ELSE 0)

FramesFit(canvas) ==
  \A i \in DOMAIN mux.images :
    HasHeader(mux.images[i]) =>
      mux.images[i].anmf[1].x + mux.images[i].width <= canvas

\* Wherever the data ends, WebPDemuxPartial() finds the frames that are there
\* entirely, in order, as the muxer had them.  It reports an error if there is
\* no data at all, and only then; with all of the file it is done and has every
\* chunk (except for a file whose only frame is outside the canvas, see
\* AssembledFits).
PartialIsPrefix ==
  pc = "returned" /\ Written
    /\ (mux.lists["VP8X"] # <<>> => FramesFit(mux.lists["VP8X"][1].info.canvas)) =>
    LET complete == SelectSeq(demuxer.frames, LAMBDA f : f.complete)
        there == {i \in DOMAIN mux.images : End(i) <= available}
        others == ChunksWith(MetadataTags \cup UnknownTags)
    IN /\ status = "ERROR" <=> available = 0
       /\ DOMAIN complete = there
       /\ \A i \in there : Shows(complete[i], i)
       /\ available = file.size =>
            /\ demuxer.state = "DONE"
            /\ demuxer.ext => demuxer.chunks = [i \in DOMAIN others |-> others[i].tag]

\* A file that is declared valid, whoever wrote it, has frames that can be
\* used: entire, numbered from 1, inside the canvas, and each payload is one
\* image with at most its alpha before it (IsValidExtendedFormat).
DoneIsUsable ==
  demuxer.state = "DONE" =>
    /\ demuxer.frames # <<>>
    /\ \A i \in DOMAIN demuxer.frames :
         LET f == demuxer.frames[i]
             payload == FramePayload(f)
         IN /\ f.complete /\ f.num = i /\ InCanvas(f, demuxer)
            /\ payload.size = f.image.size + f.alpha.size
            /\ payload.at + payload.size <= available

\* WebPMuxCreate() accepts what WebPMuxAssemble() wrote and rebuilds the same
\* object, with the canvas of the file (unknown chunks of a frame that became
\* an image are no longer its own).
WrittenIsRead ==
  pc = "none" /\ Written
    /\ (\A i \in DOMAIN mux.images :
          HasHeader(mux.images[i]) \/ mux.images[i].unknown = <<>>) =>
    Create(file) =
      <<[mux EXCEPT !.canvas =
           IF mux.lists["VP8X"] = <<>> THEN 0 ELSE mux.lists["VP8X"][1].info.canvas]>>

\* WebPMuxAssemble() removes chunks before it knows whether it will succeed.
\* Assembling again gives what the first call gave, or would have given if
\* its allocations had not failed.
AssembleAgain == [][Assemble => Assembled(mux') = Assembled(mux)]_vars

\* mux.h, WebPMuxSetCanvasSize(): "an error is reported if any animated frame
\* does not completely fit within the canvas".
AssembledFits == Written /\ mux.canvas # 0 => FramesFit(mux.canvas)
=============================================================================
