------------------------------- MODULE Encoder -------------------------------
(***************************************************************************)
(* The lossy encoder whole: the two threads of EncoderThreads, where       *)
(* VP8EncLoop() or VP8EncTokenLoop() is one step, with the passes that     *)
(* EncoderPasses gives them.  The main thread is in StatLoop() while pc is *)
(* "loop", and codes while pc is "loopEnd".  The alpha plane may be        *)
(* compressed by the other thread all this time.                           *)
(***************************************************************************)
EXTENDS EncoderThreads, EncoderPasses

encoderVars == <<vars, passVars>>

EncoderInit == Init /\ PassesInit

\* What StatLoop() returns is not looked at: if the hook refused, the code
\* is set, and the encoder goes on.
Statistics ==
  /\ pc = "loop"
  /\ BeginLoop \/ StatLoop
  /\ IF loop' \in {"stat", "statPass", "statEnd"} THEN UNCHANGED vars
     ELSE /\ EncLoop
          /\ errorCode' = IF statLoop' = "abort" THEN ErrorAfter(errorCode, "USER_ABORT")
                          ELSE errorCode

Coding ==
  /\ pc = "loopEnd"
  /\ CodingLoop \/ TokenLoop
  /\ UNCHANGED vars

\* PostLoopFinalize() reports a lack of memory, whatever ended the loop; an
\* error that was set before stays.
LoopReturns ==
  /\ pc = "loopEnd" /\ loop \in Ends
  /\ EncLoopEnd
  /\ ok' = (loop = "ok")
  /\ errorCode' = IF ok' THEN errorCode
                  ELSE ErrorAfter(errorCode, IF loop = "abort" THEN "USER_ABORT"
                                             ELSE "OUT_OF_MEMORY")
  /\ UNCHANGED passVars

Elsewhere == pc \notin {"loop", "loopEnd"} /\ Main /\ UNCHANGED passVars

MainThread == Statistics \/ Coding \/ LoopReturns \/ Elsewhere

SideThread == Side /\ UNCHANGED passVars

EncoderNext == MainThread \/ SideThread \/ (Finished /\ UNCHANGED passVars)

EncoderSpec == EncoderInit /\ [][EncoderNext]_encoderVars

\* Both threads run, and a hook or a writer returns.
FairEncoderSpec ==
  EncoderSpec /\ WF_encoderVars(MainThread) /\ WF_encoderVars(SideThread)

------------------------------------------------------------------------------
\* WebPEncode() returns, however many passes start over and whoever fails:
\* no pass is made again for ever, and no thread waits for one that is gone.
EncodeReturns == <>(pc = "done")
=============================================================================
