----------------------------- MODULE FrameOutput -----------------------------
(***************************************************************************)
(* What the decoding of a lossy frame promises the owner of a VP8Io        *)
(* (src/dec/vp8_dec.h): setup() comes first, put() delivers the lines of   *)
(* the cropping area from top to bottom, each of them once, and stops at   *)
(* the first refusal; teardown() is called once, if and only if setup()    *)
(* succeeded, and nothing is delivered after it.  The decoding succeeds    *)
(* only when every line was delivered.                                     *)
(***************************************************************************)
EXTENDS Naturals

VARIABLES
  total,    \* lines of the cropping area
  hooks,    \* "none", "open" (set up), "refused" (setup failed), "closed"
  lines,    \* lines delivered so far
  stopped,  \* put() returned false
  verdict   \* "none" while decoding, then "ok" or "failed"

outputVars == <<total, hooks, lines, stopped, verdict>>

Init ==
  /\ total \in Nat
  /\ hooks = "none" /\ lines = 0 /\ stopped = FALSE /\ verdict = "none"

Setup ==
  /\ hooks = "none"
  /\ hooks' \in {"open", "refused"}
  /\ UNCHANGED <<total, lines, stopped, verdict>>

Put ==
  /\ hooks = "open" /\ ~stopped
  /\ lines' \in (lines + 1)..total
  /\ stopped' \in BOOLEAN
  /\ UNCHANGED <<total, hooks, verdict>>

Teardown ==
  /\ hooks = "open"
  /\ hooks' = "closed"
  /\ UNCHANGED <<total, lines, stopped, verdict>>

\* The decoding function, or the last call to the incremental one, returns.
Return ==
  /\ hooks \in {"refused", "closed"} /\ verdict = "none"
  /\ \/ verdict' = "ok" /\ hooks = "closed" /\ lines = total /\ ~stopped
     \/ verdict' = "failed"
  /\ UNCHANGED <<total, hooks, lines, stopped>>

Next == Setup \/ Put \/ Teardown \/ Return

Spec == Init /\ [][Next]_outputVars
=============================================================================
