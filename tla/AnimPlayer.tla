----------------------------- MODULE AnimPlayer -----------------------------
(***************************************************************************)
(* What playing an animation means: before each frame the previous one is  *)
(* disposed of, the frame is rendered over what is left, and its duration  *)
(* follows those of the frames before it.                                  *)
(***************************************************************************)
EXTENDS AnimCanvas

CONSTANT Frames  \* the frames a file may hold

VARIABLES
  shown,  \* the canvas last shown
  below,  \* the canvas the next frame is rendered on
  time    \* when the last canvas shown ends

playerVars == <<shown, below, time>>

Init == shown = Blank /\ below = Blank /\ time = 0

Show(f) ==
  /\ shown' = Draw(below, f)
  /\ below' = Dispose(shown', f)
  /\ time' = time + f.dur

Rewind == below' = Blank /\ time' = 0 /\ UNCHANGED shown

Next == Rewind \/ \E f \in Frames : Show(f)

Spec == Init /\ [][Next]_playerVars
=============================================================================
