---------------------------- MODULE MediaChannel ----------------------------
(***************************************************************************)
(* What the shared-memory ring and its event stream promise together: a    *)
(* bounded channel from the worker's receive thread to the plugin's sink   *)
(* that may lose frames but delivers each one whole, once and in order.    *)
(***************************************************************************)
EXTENDS Integers, Sequences

CONSTANTS
    Frames,     \* frames are numbered in the order the worker receives them
    Capacity    \* most frames in flight

VARIABLES
    chan,  \* frames announced and not yet handed to the sink
    sent,  \* newest frame announced, 0 before the first
    last   \* frame handed to the sink last, 0 before the first

Init == chan = <<>> /\ sent = 0 /\ last = 0

Send(f) ==
    /\ f > sent /\ Len(chan) < Capacity
    /\ chan' = Append(chan, f) /\ sent' = f
    /\ UNCHANGED last

Deliver ==
    /\ chan # <<>>
    /\ last' = Head(chan) /\ chan' = Tail(chan)
    /\ UNCHANGED sent

Lose ==
    /\ chan # <<>>
    /\ chan' = Tail(chan)
    /\ UNCHANGED <<sent, last>>

Next == (\E f \in Frames : Send(f)) \/ Deliver \/ Lose

Spec == Init /\ [][Next]_<<chan, sent, last>>
=============================================================================
