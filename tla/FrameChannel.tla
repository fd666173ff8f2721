----------------------------- MODULE FrameChannel -----------------------------
(***************************************************************************)
(* What the write side of a connection promises the code around it         *)
(* (sandbox-daemon/internal/ws: Publisher, writePump): a bounded, lossy    *)
(* channel.  A frame may be lost at any moment before it is delivered;     *)
(* what is delivered is delivered once, and in the order in which its      *)
(* source submitted it.                                                    *)
(***************************************************************************)
EXTENDS Naturals, SequencesExt

CONSTANTS
    Frames,    \* records with a source src and a serial number seq
    Capacity   \* frames accepted and not yet delivered or lost

VARIABLES queue, delivered

chan == <<queue, delivered>>

(* Later than every frame of the same source already accepted.             *)
Fresh(f, path) ==
    \A i \in DOMAIN path : path[i].src = f.src => path[i].seq < f.seq

Init == queue = <<>> /\ delivered = <<>>

Accept(f) ==
    /\ Len(queue) < Capacity
    /\ Fresh(f, delivered \o queue)
    /\ queue' = Append(queue, f)
    /\ UNCHANGED delivered

Deliver ==
    /\ queue # <<>>
    /\ delivered' = Append(delivered, Head(queue))
    /\ queue' = Tail(queue)

Lose(i) ==
    /\ queue' = RemoveAt(queue, i)
    /\ UNCHANGED delivered

(* A frame is lost and one that waited for room takes its place.           *)
Displace(i, f) ==
    /\ Fresh(f, delivered \o queue)
    /\ queue' = Append(RemoveAt(queue, i), f)
    /\ UNCHANGED delivered

Next ==
    \/ \E f \in Frames : Accept(f)
    \/ Deliver
    \/ \E i \in DOMAIN queue :
          Lose(i) \/ \E f \in Frames : Displace(i, f)

Spec == Init /\ [][Next]_chan
=============================================================================
