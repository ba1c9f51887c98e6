---------------------------- MODULE FrameChannel ----------------------------
(***************************************************************************)
(* What the backend may rely on when it sends a frame to the daemon: a     *)
(* frame nobody sent never arrives, a frame arrives at most once, and a    *)
(* frame that was given up, whose run has been failed for it, does not     *)
(* arrive afterwards.  Nothing is promised about the order of frames, and  *)
(* a frame may be lost without a word.  DispatchOutbox implements this.    *)
(***************************************************************************)
CONSTANT Frames

VARIABLE state      \* state[f]: what has become of frame f

Fate == {"unsent", "due", "arrived", "dropped"}

Init == state = [f \in Frames |-> "unsent"]

Becomes(f, from, to) ==
  /\ state[f] = from
  /\ state' = [state EXCEPT ![f] = to]

(* Several frames may be given up, or sent, by one step of the backend.    *)
Send(f)   == Becomes(f, "unsent", "due")
Arrive(f) == Becomes(f, "due", "arrived")
GiveUp(S) ==
  /\ \A f \in S : state[f] = "due"
  /\ state' = [f \in Frames |-> IF f \in S THEN "dropped" ELSE state[f]]

Next == \/ \E f \in Frames : Send(f) \/ Arrive(f)
        \/ \E S \in SUBSET Frames : GiveUp(S)

Spec == Init /\ [][Next]_state
=============================================================================
