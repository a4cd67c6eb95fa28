---------------------------- MODULE FrameChannel ----------------------------
(***************************************************************************)
(* What one direction of the transport promises: frames come out whole, in *)
(* the order they went in, each at most once, and each comes out but for   *)
(* two cases.  A sender that has given up drops all it still holds, and    *)
(* until it goes on it neither takes a frame nor sends one.  A receiver    *)
(* with no memory for the oldest frame on the way loses that frame.        *)
(***************************************************************************)
EXTENDS Sequences, Naturals

CONSTANTS Frame,     \* the frames
          NoFrame,   \* no frame
          MayLose    \* the receiver may be without memory for a frame

VARIABLES queued,    \* accepted and still with the sender, oldest first
          inFlight,  \* on the way, oldest first
          out,       \* the frame the receiver is handed, or NoFrame
          giveUp,    \* the sender has given up what it holds
          noMemory   \* the receiver has no memory for the oldest frame

vars == <<queued, inFlight, out, giveUp, noMemory>>

Init ==
  /\ queued = <<>> /\ inFlight = <<>> /\ out = NoFrame
  /\ giveUp = FALSE /\ noMemory = FALSE

Accept ==
  /\ ~giveUp
  /\ \E f \in Frame : queued' = Append(queued, f)
  /\ UNCHANGED <<inFlight, out, giveUp, noMemory>>

Send ==
  /\ ~giveUp /\ queued # <<>>
  /\ inFlight' = Append(inFlight, Head(queued))
  /\ queued' = Tail(queued)
  /\ UNCHANGED <<out, giveUp, noMemory>>

Deliver ==
  /\ ~noMemory /\ inFlight # <<>> /\ out = NoFrame
  /\ out' = Head(inFlight)
  /\ inFlight' = Tail(inFlight)
  /\ UNCHANGED <<queued, giveUp, noMemory>>

Return ==
  /\ out # NoFrame
  /\ out' = NoFrame
  /\ UNCHANGED <<queued, inFlight, giveUp, noMemory>>

GiveUp ==
  /\ ~giveUp
  /\ giveUp' = TRUE
  /\ UNCHANGED <<queued, inFlight, out, noMemory>>

Drop ==
  /\ giveUp /\ queued # <<>>
  /\ queued' = <<>>
  /\ giveUp' \in BOOLEAN
  /\ UNCHANGED <<inFlight, out, noMemory>>

GoOn ==
  /\ giveUp /\ queued = <<>>
  /\ giveUp' = FALSE
  /\ UNCHANGED <<queued, inFlight, out, noMemory>>

NoMemory ==
  /\ MayLose /\ ~noMemory /\ inFlight # <<>> /\ out = NoFrame
  /\ noMemory' = TRUE
  /\ UNCHANGED <<queued, inFlight, out, giveUp>>

Lose ==
  /\ noMemory /\ inFlight # <<>>
  /\ inFlight' = Tail(inFlight)
  /\ noMemory' = FALSE
  /\ UNCHANGED <<queued, out, giveUp>>

Next == Accept \/ Send \/ Deliver \/ Return \/ GiveUp \/ Drop \/ GoOn
          \/ NoMemory \/ Lose

Spec == Init /\ [][Next]_vars

=============================================================================
