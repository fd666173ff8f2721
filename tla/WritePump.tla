------------------------------ MODULE WritePump ------------------------------
(***************************************************************************)
(* The write side of one WebSocket connection of the sandbox daemon        *)
(* (sandbox-daemon/internal/ws/pump.go).  A buffered Go channel `out` is   *)
(* filled by the connection's read loop (Send: responses and errors) and   *)
(* by any number of event goroutines (Publish: pty.output, pty.exit,       *)
(* fs.watch-event), and emptied by the pump's own goroutine, which writes  *)
(* each frame to the socket.                                               *)
(*                                                                         *)
(* Every step is one channel operation of the code: a `select` picks any   *)
(* of its ready cases, a goroutine blocked in a send hands its frame over  *)
(* in the very step that frees a slot, and a send on a closed channel      *)
(* panics.  A panic on the read loop is recovered by net/http; a panic on  *)
(* any other goroutine ends the daemon.                                    *)
(***************************************************************************)
EXTENDS Naturals, Sequences, FiniteSets

CONSTANTS
    Publishers,      \* the goroutines that call Publish
    Reader,          \* the connection's read loop, the only caller of Send
    PumpBufferSize,  \* capacity of the channel
    MaxFrames        \* bound: frames each caller submits

ASSUME PumpAssumption ==
    /\ Reader \notin Publishers
    /\ PumpBufferSize \in Nat \ {0}
    /\ MaxFrames \in Nat

Callers == Publishers \cup {Reader}

(* A frame is named by the goroutine that submits it and a serial number.  *)
Frames == [src : Callers, seq : 1..MaxFrames]

VARIABLES
    out,       \* the channel's buffer
    closing,   \* closeOnce: "open", "done" (done closed), "closed" (out too)
    loop,      \* control point of the pump's goroutine
    hand,      \* the frame that goroutine has received and not yet written
    pc,        \* control point of every caller
    sent,      \* serial number of every caller's latest frame
    wire,      \* the frames written to the socket, in order
    dropped,   \* the frames handed to dropFn
    refused,   \* the frames whose Publish returned false
    vanished,  \* the frames lost without dropFn: failed write or panic
    crashed    \* a panic no one recovers ended the daemon

vars == <<out, closing, loop, hand, pc, sent, wire, dropped, refused,
          vanished, crashed>>

-----------------------------------------------------------------------------
Init ==
    /\ out = <<>>
    /\ closing = "open"
    /\ loop = "recv"
    /\ hand = <<>>
    /\ pc = [c \in Callers |-> "idle"]
    /\ sent = [c \in Callers |-> 0]
    /\ wire = <<>>
    /\ dropped = {}
    /\ refused = {}
    /\ vanished = {}
    /\ crashed = FALSE

(* The frame a caller is submitting (or submitted last).                   *)
Current(c) == [src |-> c, seq |-> sent[c]]
Upcoming(c) == [src |-> c, seq |-> sent[c] + 1]

(* Mutant of Full: the buffer is full one frame too late.                  *)
FullTooLate == Len(out) = PumpBufferSize + 1

Full == Len(out) = PumpBufferSize

(* Mutants of Received: the blocked Send jumps the queue; or is woken      *)
(* without its frame being stored.                                         *)
ReceivedFirst ==
    IF pc[Reader] = "parked" THEN <<Current(Reader)>> \o Tail(out)
                             ELSE Tail(out)
ReceivedForgotten == Tail(out)

(* Receiving from the channel: a Send blocked on the full channel moves    *)
(* its frame into the freed slot in the same step.                         *)
Received ==
    IF pc[Reader] = "parked" THEN Append(Tail(out), Current(Reader))
                             ELSE Tail(out)
Unpark(control) ==
    IF control[Reader] = "parked" THEN [control EXCEPT ![Reader] = "idle"]
                                  ELSE control

-----------------------------------------------------------------------------
(* Send, called by the read loop: one select over `out <- f` and `<-done`. *)
Submit(c) ==
    /\ sent[c] < MaxFrames
    /\ sent' = [sent EXCEPT ![c] = @ + 1]

SendEnqueue ==
    /\ pc[Reader] = "idle" /\ Submit(Reader)
    /\ closing # "closed" /\ ~Full
    /\ out' = Append(out, Upcoming(Reader))
    /\ UNCHANGED <<closing, loop, hand, pc, wire, dropped, refused, vanished,
                   crashed>>

SendPark ==
    /\ pc[Reader] = "idle" /\ Submit(Reader)
    /\ closing = "open" /\ Full
    /\ pc' = [pc EXCEPT ![Reader] = "parked"]
    /\ UNCHANGED <<out, closing, loop, hand, wire, dropped, refused, vanished,
                   crashed>>

SendDone ==
    /\ pc[Reader] = "idle" /\ Submit(Reader)
    /\ closing # "open"
    /\ dropped' = dropped \cup {Upcoming(Reader)}
    /\ UNCHANGED <<out, closing, loop, hand, pc, wire, refused, vanished,
                   crashed>>

(* Both cases of the select are ready once `out` is closed; choosing the   *)
(* send panics.  net/http recovers, runConn's deferred cleanup runs.       *)
SendPanic ==
    /\ pc[Reader] = "idle" /\ Submit(Reader)
    /\ closing = "closed"
    /\ vanished' = vanished \cup {Upcoming(Reader)}
    /\ pc' = [pc EXCEPT ![Reader] = "close"]
    /\ UNCHANGED <<out, closing, loop, hand, wire, dropped, refused, crashed>>

(* ReadMessage fails: runConn returns and its deferred cleanup closes the  *)
(* pump.                                                                   *)
Disconnect ==
    /\ pc[Reader] = "idle"
    /\ pc' = [pc EXCEPT ![Reader] = "close"]
    /\ UNCHANGED <<out, closing, loop, hand, sent, wire, dropped, refused,
                   vanished, crashed>>

ReaderGone ==
    /\ pc[Reader] = "close" /\ closing = "closed"
    /\ pc' = [pc EXCEPT ![Reader] = "gone"]
    /\ UNCHANGED <<out, closing, loop, hand, sent, wire, dropped, refused,
                   vanished, crashed>>

-----------------------------------------------------------------------------
(* Publish: four selects in a row, each of them non-blocking.              *)
Refuse(f) ==
    /\ dropped' = dropped \cup {f}
    /\ refused' = refused \cup {f}

Panic(f) ==
    /\ vanished' = vanished \cup {f}
    /\ crashed' = TRUE

PublishCall(p) ==
    /\ pc[p] = "idle" /\ Submit(p)
    /\ IF closing = "open"
         THEN pc' = [pc EXCEPT ![p] = "try"] /\ UNCHANGED <<dropped, refused>>
         ELSE Refuse(Upcoming(p)) /\ UNCHANGED pc
    /\ UNCHANGED <<out, closing, loop, hand, wire, vanished, crashed>>

Enqueue(p) ==
    /\ closing # "closed" /\ ~Full
    /\ out' = Append(out, Current(p))
    /\ pc' = [pc EXCEPT ![p] = "idle"]
    /\ UNCHANGED <<closing, loop, hand, sent, wire, dropped, refused, vanished,
                   crashed>>

SendOnClosed(p) ==
    /\ closing = "closed"
    /\ Panic(Current(p))
    /\ UNCHANGED <<out, closing, loop, hand, pc, sent, wire, dropped, refused>>

PublishTry(p) ==
    /\ pc[p] = "try"
    /\ \/ Enqueue(p)
       \/ SendOnClosed(p)
       \/ /\ closing # "closed" /\ Full
          /\ pc' = [pc EXCEPT ![p] = "evict"]
          /\ UNCHANGED <<out, closing, loop, hand, sent, wire, dropped,
                         refused, vanished, crashed>>

(* Mutant of PublishEvict: dropFn is not called.                           *)
PublishEvictSilently(p) ==
    /\ pc[p] = "evict"
    /\ out' = IF out = <<>> THEN out ELSE Received
    /\ pc' = [(IF out = <<>> THEN pc ELSE Unpark(pc)) EXCEPT ![p] = "retry"]
    /\ UNCHANGED <<closing, loop, hand, sent, wire, dropped, refused, vanished,
                   crashed>>

(* The oldest frame is taken out and dropped.  On a channel that is closed *)
(* and drained the receive yields nil, and dropFn counts one frame that    *)
(* nobody submitted: `dropped` holds frames, so that call leaves no trace. *)
PublishEvict(p) ==
    /\ pc[p] = "evict"
    /\ IF out = <<>>
         THEN pc' = [pc EXCEPT ![p] = "retry"] /\ UNCHANGED <<out, dropped>>
         ELSE /\ dropped' = dropped \cup {Head(out)}
              /\ out' = Received
              /\ pc' = [Unpark(pc) EXCEPT ![p] = "retry"]
    /\ UNCHANGED <<closing, loop, hand, sent, wire, refused, vanished, crashed>>

PublishRetry(p) ==
    /\ pc[p] = "retry"
    /\ \/ Enqueue(p)
       \/ SendOnClosed(p)
       \/ /\ closing # "open" \/ Full
          /\ Refuse(Current(p))
          /\ pc' = [pc EXCEPT ![p] = "idle"]
          /\ UNCHANGED <<out, closing, loop, hand, sent, wire, vanished,
                         crashed>>

-----------------------------------------------------------------------------
(* loop: range over the channel, one WriteJSON for each frame.             *)
LoopReceive ==
    /\ loop = "recv" /\ out # <<>>
    /\ hand' = <<Head(out)>>
    /\ out' = Received
    /\ pc' = Unpark(pc)
    /\ loop' = "write"
    /\ UNCHANGED <<closing, sent, wire, dropped, refused, vanished, crashed>>

(* Mutant of LoopWrite: a retry of a write that had succeeded.             *)
LoopWriteTwice ==
    /\ loop = "write"
    /\ wire' = wire \o hand \o hand
    /\ hand' = <<>>
    /\ loop' = "recv"
    /\ UNCHANGED <<out, closing, pc, sent, dropped, refused, vanished, crashed>>

LoopWrite ==
    /\ loop = "write"
    /\ wire' = wire \o hand
    /\ hand' = <<>>
    /\ loop' = "recv"
    /\ UNCHANGED <<out, closing, pc, sent, dropped, refused, vanished, crashed>>

(* Mutant of LoopWriteError: the loop returns without closing the pump.    *)
LoopWriteErrorReturns ==
    /\ loop = "write"
    /\ vanished' = vanished \cup {hand[1]}
    /\ hand' = <<>>
    /\ loop' = "exit"
    /\ UNCHANGED <<out, closing, pc, sent, wire, dropped, refused, crashed>>

(* The write fails (peer gone, or the 5 s deadline): the frame in hand is  *)
(* logged, not passed to dropFn.                                           *)
LoopWriteError ==
    /\ loop = "write"
    /\ vanished' = vanished \cup {hand[1]}
    /\ hand' = <<>>
    /\ loop' = "close"
    /\ UNCHANGED <<out, closing, pc, sent, wire, dropped, refused, crashed>>

LoopClosed ==
    /\ loop = "close" /\ closing = "closed"
    /\ loop' = "drain"
    /\ UNCHANGED <<out, closing, hand, pc, sent, wire, dropped, refused,
                   vanished, crashed>>

LoopDrain ==
    /\ loop = "drain" /\ out # <<>>
    /\ dropped' = dropped \cup {Head(out)}
    /\ out' = Received
    /\ pc' = Unpark(pc)
    /\ UNCHANGED <<closing, loop, hand, sent, wire, refused, vanished, crashed>>

LoopExit ==
    /\ loop \in {"recv", "drain"} /\ out = <<>> /\ closing = "closed"
    /\ loop' = "exit"
    /\ UNCHANGED <<out, closing, hand, pc, sent, wire, dropped, refused,
                   vanished, crashed>>

-----------------------------------------------------------------------------
(* close, under closeOnce: whoever comes second waits for the first.       *)
(* Closing `done` wakes a blocked Send, which drops its frame.             *)
CloseDone ==
    /\ loop = "close" \/ pc[Reader] = "close"
    /\ closing = "open"
    /\ closing' = "done"
    /\ dropped' = IF pc[Reader] = "parked" THEN dropped \cup {Current(Reader)}
                                           ELSE dropped
    /\ pc' = Unpark(pc)
    /\ UNCHANGED <<out, loop, hand, sent, wire, refused, vanished, crashed>>

CloseOut ==
    /\ closing = "done"
    /\ closing' = "closed"
    /\ UNCHANGED <<out, loop, hand, pc, sent, wire, dropped, refused, vanished,
                   crashed>>

-----------------------------------------------------------------------------
ReaderStep == SendEnqueue \/ SendPark \/ SendDone \/ SendPanic \/ Disconnect
                \/ ReaderGone
PublishStep(p) == PublishTry(p) \/ PublishEvict(p) \/ PublishRetry(p)
LoopStep == LoopReceive \/ LoopWrite \/ LoopWriteError \/ LoopClosed
              \/ LoopDrain \/ LoopExit
CloseStep == CloseDone \/ CloseOut

Next ==
    /\ ~crashed
    /\ \/ ReaderStep
       \/ \E p \in Publishers : PublishCall(p) \/ PublishStep(p)
       \/ LoopStep
       \/ CloseStep

Spec == Init /\ [][Next]_vars

(* Goroutines are scheduled: one that can take its next step takes it.     *)
(* Nothing obliges a caller to submit another frame or a peer to leave.    *)
(* A write returns within writeDeadline, so LoopStep is fair too.          *)
PublisherFairness ==
    \A p \in Publishers : WF_vars(~crashed /\ PublishStep(p))
PumpFairness ==
    /\ WF_vars(~crashed /\ LoopStep)
    /\ WF_vars(~crashed /\ CloseStep)
    /\ WF_vars(~crashed /\ ReaderGone)

FairSpec == Spec /\ PublisherFairness /\ PumpFairness

-----------------------------------------------------------------------------
SetOf(s) == {s[i] : i \in DOMAIN s}

(* Every variable has its type, and no buffer outgrows the channel.        *)
TypeOK ==
    /\ out \in Seq(Frames) /\ Len(out) <= PumpBufferSize
    /\ closing \in {"open", "done", "closed"}
    /\ loop \in {"recv", "write", "close", "drain", "exit"}
    /\ hand \in Seq(Frames)
    /\ IF loop = "write" THEN Len(hand) = 1 ELSE hand = <<>>
    /\ pc \in [Callers -> {"idle", "try", "evict", "retry", "parked", "close",
                           "gone"}]
    /\ \A p \in Publishers : pc[p] \in {"idle", "try", "evict", "retry"}
    /\ pc[Reader] \in {"idle", "parked", "close", "gone"}
    /\ sent \in [Callers -> 0..MaxFrames]
    /\ wire \in Seq(Frames)
    /\ dropped \subseteq Frames
    /\ refused \subseteq dropped
    /\ vanished \subseteq Frames
    /\ crashed \in BOOLEAN

(* The whole path of a frame through the pump, oldest first.               *)
Pipeline == wire \o hand \o out

(* Terminal output and responses reach the browser in the order their      *)
(* goroutine produced them, and none twice, whatever is evicted between    *)
(* them: along the path each source's serial numbers strictly increase.    *)
InOrder ==
    \A i, j \in DOMAIN Pipeline :
        i < j /\ Pipeline[i].src = Pipeline[j].src
            => Pipeline[i].seq < Pipeline[j].seq

(* A caller in the middle of Send or Publish still holds its frame.        *)
Holding(c) == pc[c] \in {"try", "evict", "retry", "parked"}
Held == {Current(c) : c \in {d \in Callers : Holding(d)}}

(* No frame is lost silently: each frame submitted is on the path, in its  *)
(* caller's hands, handed to dropFn, or one of the three that the socket's *)
(* failed write, the read loop's panic and the daemon's crash may make     *)
(* vanish; and it is in one of these places only.                          *)
Submitted == {f \in Frames : f.seq <= sent[f.src]}

Accounted ==
    /\ Submitted \subseteq SetOf(Pipeline) \cup Held \cup dropped \cup vanished
    /\ dropped \cap (SetOf(Pipeline) \cup Held \cup vanished) = {}
    /\ vanished \cap SetOf(Pipeline) = {}
    /\ Cardinality(vanished) <= 3

(* A Send that found the buffer full and waits is never refused while the  *)
(* pump is open, and never panics: it is enqueued, or dropped by close.    *)
WaitingSendIsSafe ==
    [][pc[Reader] = "parked" /\ pc'[Reader] # "parked"
         => /\ pc'[Reader] = "idle"
            /\ Current(Reader) \in SetOf(out') \/ closing' # "open"]_vars

(* A blocked response is released.                                         *)
SendReturns == (pc[Reader] = "parked") ~> (pc[Reader] # "parked")

(* The pump is a lossy FIFO channel of PumpBufferSize frames and the one   *)
(* its goroutine is writing: the promise the Publisher interface rests on. *)
Channel == INSTANCE FrameChannel WITH
    Capacity <- PumpBufferSize + 1, queue <- hand \o out, delivered <- wire

ImplementsChannel == Channel!Spec

-----------------------------------------------------------------------------
(* What a comment in the code says, and the code does not do.              *)

(* pump.go: Publish "returns false" when the pump is shutting down.        *)
PublishNeverPanics == ~crashed
=============================================================================
