---------------------------- MODULE CaptureQueue ----------------------------
(***************************************************************************)
(* What an endpoint promises the loops that read from it, on either        *)
(* platform (DECISIONS.md:118): the captured frames come one at a time, in *)
(* order, each once and whole; "nothing to read" is answered only when     *)
(* nothing is left.  A frame the system delivered in part is left out.     *)
(***************************************************************************)
EXTENDS Sequences, Naturals

CONSTANTS
    Frames,  \* frames that may be captured
    NoFrame  \* the answer "nothing to read"

VARIABLES
    queue,   \* the captured frames, oldest first: [frame, whole]
    answer   \* what the reader was given last

vars == <<queue, answer>>

Init ==
    /\ queue = <<>>
    /\ answer = NoFrame

Capture ==
    /\ \E f \in Frames : queue' = Append(queue, [frame |-> f, whole |-> TRUE])
    /\ UNCHANGED answer

\* The system delivers a frame in part.
Tear ==
    /\ \E k \in DOMAIN queue : queue' = [queue EXCEPT ![k].whole = FALSE]
    /\ UNCHANGED answer

Hand ==
    /\ queue # <<>>
    /\ Head(queue).whole
    /\ answer' = Head(queue).frame
    /\ queue' = Tail(queue)

Discard ==
    /\ queue # <<>>
    /\ ~Head(queue).whole
    /\ queue' = Tail(queue)
    /\ UNCHANGED answer

AnswerNothing ==
    /\ queue = <<>>
    /\ answer' = NoFrame
    /\ UNCHANGED queue

Next == Capture \/ Tear \/ Hand \/ Discard \/ AnswerNothing

Spec == Init /\ [][Next]_vars
=============================================================================
