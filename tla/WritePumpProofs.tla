---------------------------- MODULE WritePumpProofs ----------------------------
(***************************************************************************)
(* Theorems about WritePump, for every set of publishers, every buffer     *)
(* size and every number of frames.                                        *)
(***************************************************************************)
EXTENDS WritePump, SequenceTheorems, FiniteSetTheorems, TLAPS

-----------------------------------------------------------------------------
(* Type correctness.  TypeOK alone is not inductive: a caller that still   *)
(* holds its frame must have submitted one, or the frame it enqueues would *)
(* have no serial number.                                                  *)
TypeInv ==
    /\ TypeOK
    /\ \A c \in Callers : Holding(c) => sent[c] > 0

(* A caller's current frame is a frame once it has submitted one.          *)
LEMMA CurrentFrame ==
    ASSUME TypeInv, NEW c \in Callers, Holding(c)
    PROVE  Current(c) \in Frames
BY PumpAssumption DEF TypeInv, TypeOK, Current, Frames

(* So is the one it is about to submit.                                    *)
LEMMA UpcomingFrame ==
    ASSUME TypeInv, NEW c \in Callers, sent[c] < MaxFrames
    PROVE  Upcoming(c) \in Frames
BY PumpAssumption DEF TypeInv, TypeOK, Upcoming, Frames

(* Receiving leaves a buffer of frames, no longer than before.             *)
LEMMA ReceivedType ==
    ASSUME TypeInv, out # <<>>
    PROVE  /\ Received \in Seq(Frames)
           /\ Len(Received) <= PumpBufferSize
           /\ Head(out) \in Frames
<1>1. Head(out) \in Frames /\ Tail(out) \in Seq(Frames)
      /\ Len(Tail(out)) = Len(out) - 1
  BY DEF TypeInv, TypeOK
<1>2. CASE pc[Reader] = "parked"
  <2>1. Current(Reader) \in Frames
    BY <1>2, CurrentFrame DEF Holding, Callers
  <2> QED
    BY <1>1, <1>2, <2>1, PumpAssumption DEF Received, TypeInv, TypeOK
<1>3. CASE pc[Reader] # "parked"
  BY <1>1, <1>3, PumpAssumption DEF Received, TypeInv, TypeOK
<1> QED BY <1>2, <1>3

LEMMA TypeInit == Init => TypeInv
<1> SUFFICES ASSUME Init PROVE TypeInv
  OBVIOUS
<1>1. /\ out \in Seq(Frames) /\ Len(out) <= PumpBufferSize
      /\ hand \in Seq(Frames) /\ wire \in Seq(Frames)
  BY PumpAssumption DEF Init
<1>2. /\ pc \in [Callers -> {"idle", "try", "evict", "retry", "parked",
                             "close", "gone"}]
      /\ sent \in [Callers -> 0..MaxFrames]
      /\ \A c \in Callers : pc[c] = "idle"
  BY PumpAssumption DEF Init
<1> QED
  BY <1>1, <1>2 DEF Init, TypeInv, TypeOK, Holding, Callers

LEMMA TypeReader == TypeInv /\ ReaderStep => TypeInv'
<1> SUFFICES ASSUME TypeInv, ReaderStep PROVE TypeInv'
  OBVIOUS
<1> USE PumpAssumption DEF TypeInv, TypeOK, Holding, Submit
<1>a. Reader \in Callers /\ \A p \in Publishers : p \in Callers /\ p # Reader
  BY DEF Callers
<1>b. sent[Reader] < MaxFrames => Upcoming(Reader) \in Frames
  BY <1>a, UpcomingFrame
<1>1. CASE SendEnqueue
  <2>1. out' \in Seq(Frames) /\ Len(out') <= PumpBufferSize
    BY <1>1, <1>b DEF SendEnqueue, Full
  <2> QED BY <1>1, <1>a, <2>1 DEF SendEnqueue
<1>2. CASE SendPark
  BY <1>2, <1>a DEF SendPark
<1>3. CASE SendDone
  BY <1>3, <1>a, <1>b DEF SendDone
<1>4. CASE SendPanic
  BY <1>4, <1>a, <1>b DEF SendPanic
<1>5. CASE Disconnect
  BY <1>5, <1>a DEF Disconnect
<1>6. CASE ReaderGone
  BY <1>6, <1>a DEF ReaderGone
<1> QED BY <1>1, <1>2, <1>3, <1>4, <1>5, <1>6 DEF ReaderStep

LEMMA TypeEnqueue ==
    ASSUME TypeInv, NEW p \in Publishers, pc[p] \in {"try", "retry"},
           Enqueue(p)
    PROVE  TypeInv'
<1> USE PumpAssumption DEF TypeInv, TypeOK, Holding
<1>a. p \in Callers /\ Reader \in Callers /\ p # Reader
      /\ \A q \in Publishers : q \in Callers /\ q # Reader
  BY DEF Callers
<1>1. Current(p) \in Frames
  BY <1>a, CurrentFrame
<1>2. out' \in Seq(Frames) /\ Len(out') <= PumpBufferSize
  BY <1>1 DEF Enqueue, Full
<1> QED BY <1>a, <1>2 DEF Enqueue

LEMMA TypePublish ==
    TypeInv /\ (\E p \in Publishers : PublishCall(p) \/ PublishStep(p))
        => TypeInv'
<1> SUFFICES ASSUME TypeInv, NEW p \in Publishers,
                    PublishCall(p) \/ PublishStep(p)
             PROVE  TypeInv'
  OBVIOUS
<1> USE PumpAssumption DEF TypeInv, TypeOK, Holding
<1>a. p \in Callers /\ Reader \in Callers /\ p # Reader
      /\ \A q \in Publishers : q \in Callers /\ q # Reader
  BY DEF Callers
<1>b. pc[p] \in {"try", "evict", "retry"} => Current(p) \in Frames
  BY <1>a, CurrentFrame
<1>1. CASE PublishCall(p)
  <2>1. Upcoming(p) \in Frames
    BY <1>1, <1>a, UpcomingFrame DEF PublishCall, Submit
  <2>2. CASE closing = "open"
    <3>1. pc' = [pc EXCEPT ![p] = "try"] /\ sent' = [sent EXCEPT ![p] = @ + 1]
          /\ sent[p] < MaxFrames
          /\ UNCHANGED <<out, closing, loop, hand, wire, dropped, refused,
                         vanished, crashed>>
      BY <1>1, <2>2 DEF PublishCall, Submit
    <3>2. sent' \in [Callers -> 0..MaxFrames]
          /\ sent'[p] > 0 /\ \A c \in Callers \ {p} : sent'[c] = sent[c]
      BY <3>1, <1>a
    <3>3. /\ pc' \in [Callers -> {"idle", "try", "evict", "retry", "parked",
                                  "close", "gone"}]
          /\ \A c \in Callers \ {p} : pc'[c] = pc[c]
          /\ pc'[p] = "try"
      BY <3>1, <1>a
    <3> QED BY <3>1, <3>2, <3>3, <1>a
  <2>3. CASE closing # "open"
    BY <1>1, <2>3, <1>a, <2>1 DEF PublishCall, Submit, Refuse
  <2> QED BY <2>2, <2>3
<1>2. CASE PublishTry(p)
  <2>1. CASE Enqueue(p)
    BY <1>2, <2>1, TypeEnqueue DEF PublishTry
  <2>2. CASE SendOnClosed(p)
    BY <1>2, <2>2, <1>b DEF PublishTry, SendOnClosed, Panic
  <2>3. CASE ~Enqueue(p) /\ ~SendOnClosed(p)
    BY <1>2, <2>3, <1>a DEF PublishTry
  <2> QED BY <2>1, <2>2, <2>3
<1>3. CASE PublishEvict(p)
  <2>1. CASE out = <<>>
    BY <1>3, <2>1, <1>a DEF PublishEvict
  <2>2. CASE out # <<>>
    BY <1>3, <2>2, <1>a, ReceivedType DEF PublishEvict, Unpark
  <2> QED BY <2>1, <2>2
<1>4. CASE PublishRetry(p)
  <2>1. CASE Enqueue(p)
    BY <1>4, <2>1, TypeEnqueue DEF PublishRetry
  <2>2. CASE SendOnClosed(p)
    BY <1>4, <2>2, <1>b DEF PublishRetry, SendOnClosed, Panic
  <2>3. CASE ~Enqueue(p) /\ ~SendOnClosed(p)
    BY <1>4, <2>3, <1>a, <1>b DEF PublishRetry, Refuse
  <2> QED BY <2>1, <2>2, <2>3
<1> QED BY <1>1, <1>2, <1>3, <1>4 DEF PublishStep

LEMMA TypeLoop == TypeInv /\ (LoopStep \/ CloseStep) => TypeInv'
<1> SUFFICES ASSUME TypeInv, LoopStep \/ CloseStep PROVE TypeInv'
  OBVIOUS
<1> USE PumpAssumption DEF TypeInv, TypeOK, Holding
<1>a. Reader \in Callers /\ \A q \in Publishers : q \in Callers /\ q # Reader
  BY DEF Callers
<1>b. /\ Unpark(pc) \in [Callers -> {"idle", "try", "evict", "retry", "parked",
                                     "close", "gone"}]
      /\ \A c \in Callers : Unpark(pc)[c] \in {pc[c], "idle"}
  BY <1>a DEF Unpark
<1>1. CASE LoopReceive
  <2>1. hand' \in Seq(Frames) /\ Len(hand') = 1
    BY <1>1, ReceivedType DEF LoopReceive
  <2> QED BY <1>1, <1>a, <1>b, <2>1, ReceivedType DEF LoopReceive
<1>2. CASE LoopWrite
  BY <1>2 DEF LoopWrite
<1>3. CASE LoopWriteError
  <2>1. hand[1] \in Frames
    <3>1. hand \in Seq(Frames) /\ Len(hand) = 1
      BY <1>3 DEF LoopWriteError
    <3> HIDE DEF TypeInv, TypeOK
    <3> QED BY <3>1
  <2>2. vanished' \subseteq Frames
    BY <1>3, <2>1 DEF LoopWriteError
  <2>3. hand' = <<>> /\ loop' = "close"
        /\ UNCHANGED <<out, closing, pc, sent, wire, dropped, refused, crashed>>
    BY <1>3 DEF LoopWriteError
  <2> QED BY <2>2, <2>3
<1>4. CASE LoopClosed
  BY <1>4 DEF LoopClosed
<1>5. CASE LoopDrain
  BY <1>5, <1>a, <1>b, ReceivedType DEF LoopDrain
<1>6. CASE LoopExit
  BY <1>6 DEF LoopExit
<1>7. CASE CloseDone
  <2>1. pc[Reader] = "parked" => Current(Reader) \in Frames
    BY <1>a, CurrentFrame
  <2> QED BY <1>7, <1>a, <1>b, <2>1 DEF CloseDone
<1>8. CASE CloseOut
  BY <1>8 DEF CloseOut
<1> QED
  BY <1>1, <1>2, <1>3, <1>4, <1>5, <1>6, <1>7, <1>8 DEF LoopStep, CloseStep

LEMMA TypeStutter == TypeInv /\ UNCHANGED vars => TypeInv'
BY DEF TypeInv, TypeOK, Holding, vars

LEMMA TypeStep == TypeInv /\ [Next]_vars => TypeInv'
BY TypeReader, TypePublish, TypeLoop, TypeStutter DEF Next

(* Every variable keeps its type and the buffer its bound, for every set   *)
(* of publishers and every buffer size.                                    *)
THEOREM TypeCorrect == Spec => []TypeOK
<1>1. TypeInv => TypeOK
  BY DEF TypeInv
<1> QED BY <1>1, TypeInit, TypeStep, PTL DEF Spec

-----------------------------------------------------------------------------
(* Order.  InOrder speaks of the concatenation of three sequences; the     *)
(* invariant that implies it speaks of each of them and of each pair, and  *)
(* adds what makes it inductive: no frame on the path is newer than its    *)
(* caller's count, nor as new while that caller still holds its frame.     *)
Earlier(f, g) == f.src = g.src => f.seq < g.seq
Sorted(s) == \A i, j \in DOMAIN s : i < j => Earlier(s[i], s[j])
Precedes(s, t) == \A i \in DOMAIN s, j \in DOMAIN t : Earlier(s[i], t[j])

Ordered(w, h, o) ==
    /\ Sorted(w) /\ Sorted(h) /\ Sorted(o)
    /\ Precedes(w, h) /\ Precedes(w, o) /\ Precedes(h, o)

Newest(f, s) == \A i \in DOMAIN s : Earlier(s[i], f)

Known(f, count, control) ==
    /\ f.seq <= count[f.src]
    /\ control[f.src] \in {"try", "evict", "retry", "parked"}
          => f.seq < count[f.src]
Behind(s, count, control) == \A i \in DOMAIN s : Known(s[i], count, control)

OrderInv ==
    /\ TypeInv
    /\ Ordered(wire, hand, out)
    /\ Behind(wire, sent, pc) /\ Behind(hand, sent, pc) /\ Behind(out, sent, pc)

LEMMA OrderedConcat ==
    ASSUME NEW S, NEW s \in Seq(S), NEW t \in Seq(S), Sorted(s), Sorted(t),
           Precedes(s, t)
    PROVE  Sorted(s \o t)
<1> SUFFICES ASSUME NEW i \in DOMAIN (s \o t), NEW j \in DOMAIN (s \o t), i < j
             PROVE  Earlier((s \o t)[i], (s \o t)[j])
  BY DEF Sorted
<1> DEFINE n == Len(s)
<1>1. n \in Nat /\ Len(t) \in Nat /\ DOMAIN s = 1..n /\ DOMAIN t = 1..Len(t)
      /\ DOMAIN (s \o t) = 1..(n + Len(t))
  OBVIOUS
<1>2. CASE j <= n
  <2>1. i \in DOMAIN s /\ j \in DOMAIN s
        /\ (s \o t)[i] = s[i] /\ (s \o t)[j] = s[j]
    BY <1>1, <1>2
  <2> QED BY <2>1 DEF Sorted
<1>3. CASE i <= n /\ n < j
  <2>1. i \in DOMAIN s /\ j - n \in DOMAIN t
        /\ (s \o t)[i] = s[i] /\ (s \o t)[j] = t[j - n]
    BY <1>1, <1>3
  <2> QED BY <2>1 DEF Precedes
<1>4. CASE n < i
  <2>1. i - n \in DOMAIN t /\ j - n \in DOMAIN t /\ i - n < j - n
        /\ (s \o t)[i] = t[i - n] /\ (s \o t)[j] = t[j - n]
    BY <1>1, <1>4
  <2> QED BY <2>1 DEF Sorted
<1> QED BY <1>1, <1>2, <1>3, <1>4

LEMMA PrecedesConcat ==
    ASSUME NEW S, NEW s \in Seq(S), NEW t \in Seq(S), NEW u \in Seq(S),
           Precedes(s, u), Precedes(t, u)
    PROVE  Precedes(s \o t, u)
<1> SUFFICES ASSUME NEW i \in DOMAIN (s \o t), NEW j \in DOMAIN u
             PROVE  Earlier((s \o t)[i], u[j])
  BY DEF Precedes
<1>1. CASE i <= Len(s)
  BY <1>1 DEF Precedes
<1>2. CASE Len(s) < i
  <2>1. i - Len(s) \in DOMAIN t /\ (s \o t)[i] = t[i - Len(s)]
    BY <1>2
  <2> QED BY <2>1 DEF Precedes
<1> QED BY <1>1, <1>2

LEMMA OrderInvInOrder == OrderInv => InOrder
<1> SUFFICES ASSUME OrderInv PROVE InOrder
  OBVIOUS
<1>1. wire \in Seq(Frames) /\ hand \in Seq(Frames) /\ out \in Seq(Frames)
      /\ wire \o hand \in Seq(Frames)
  BY DEF OrderInv, TypeInv, TypeOK
<1>2. Sorted(wire \o hand) /\ Precedes(wire \o hand, out) /\ Sorted(out)
  BY <1>1, OrderedConcat, PrecedesConcat DEF OrderInv, Ordered
<1>3. Sorted((wire \o hand) \o out)
  BY <1>1, <1>2, OrderedConcat
<1>4. Pipeline = (wire \o hand) \o out
  BY DEF Pipeline
<1> QED BY <1>3, <1>4 DEF InOrder, Sorted, Earlier

(* What the steps of the pump do to the three sequences.                   *)
LEMMA OrderedAppend ==
    ASSUME NEW w \in Seq(Frames), NEW h \in Seq(Frames), NEW o \in Seq(Frames),
           NEW f \in Frames, Ordered(w, h, o),
           Newest(f, w), Newest(f, h), Newest(f, o)
    PROVE  Ordered(w, h, Append(o, f))
<1>1. DOMAIN Append(o, f) = 1..(Len(o) + 1)
      /\ DOMAIN o = 1..Len(o) /\ Len(o) \in Nat
      /\ Append(o, f)[Len(o) + 1] = f
      /\ \A i \in 1..Len(o) : Append(o, f)[i] = o[i]
  OBVIOUS
<1>2. Sorted(Append(o, f))
  BY <1>1 DEF Ordered, Sorted, Newest
<1>3. Precedes(w, Append(o, f)) /\ Precedes(h, Append(o, f))
  BY <1>1 DEF Ordered, Precedes, Newest
<1> QED BY <1>2, <1>3 DEF Ordered

LEMMA TailFacts ==
    ASSUME NEW o \in Seq(Frames), o # <<>>
    PROVE  /\ Tail(o) \in Seq(Frames) /\ Head(o) \in Frames /\ Head(o) = o[1]
           /\ 1 \in DOMAIN o
           /\ \A i \in DOMAIN Tail(o) : i + 1 \in DOMAIN o /\ 1 < i + 1
                                       /\ Tail(o)[i] = o[i + 1]
           /\ \A i, j \in DOMAIN Tail(o) : i < j => i + 1 < j + 1
OBVIOUS

LEMMA OrderedTail ==
    ASSUME NEW w \in Seq(Frames), NEW h \in Seq(Frames), NEW o \in Seq(Frames),
           o # <<>>, Ordered(w, h, o)
    PROVE  Ordered(w, h, Tail(o))
<1>1. Sorted(Tail(o))
  BY TailFacts DEF Ordered, Sorted
<1>2. Precedes(w, Tail(o)) /\ Precedes(h, Tail(o))
  BY TailFacts DEF Ordered, Precedes
<1> QED BY <1>1, <1>2 DEF Ordered

LEMMA OrderedReceive ==
    ASSUME NEW w \in Seq(Frames), NEW o \in Seq(Frames),
           o # <<>>, Ordered(w, <<>>, o)
    PROVE  Ordered(w, <<Head(o)>>, Tail(o))
<1> DEFINE h == <<Head(o)>>
<1>1. DOMAIN h = {1} /\ h[1] = Head(o)
  OBVIOUS
<1>2. Sorted(h)
  BY <1>1 DEF Sorted
<1>3. Precedes(w, h)
  BY <1>1, TailFacts DEF Ordered, Precedes
<1>4. Precedes(h, Tail(o))
  <2> HIDE DEF h
  <2> QED BY <1>1, TailFacts DEF Ordered, Sorted, Precedes
<1>5. Sorted(w) /\ Sorted(Tail(o)) /\ Precedes(w, Tail(o))
  <2>1. <<>> \in Seq(Frames)
    OBVIOUS
  <2>2. Ordered(w, <<>>, Tail(o))
    BY <2>1, OrderedTail
  <2> QED BY <2>2 DEF Ordered
<1> QED BY <1>2, <1>3, <1>4, <1>5 DEF Ordered

LEMMA OrderedWrite ==
    ASSUME NEW w \in Seq(Frames), NEW h \in Seq(Frames), NEW o \in Seq(Frames),
           Ordered(w, h, o)
    PROVE  Ordered(w \o h, <<>>, o) /\ Ordered(w, <<>>, o)
<1>1. Sorted(w \o h) /\ Precedes(w \o h, o)
  BY OrderedConcat, PrecedesConcat DEF Ordered
<1>2. Sorted(<<>>) /\ Precedes(<<>>, o) /\ Precedes(w, <<>>)
      /\ Precedes(w \o h, <<>>)
  BY DEF Sorted, Precedes
<1> QED BY <1>1, <1>2 DEF Ordered

(* What they do to the frames' place behind their callers' counts.         *)
LEMMA BehindSeq ==
    ASSUME NEW s \in Seq(Frames), NEW t \in Seq(Frames), NEW f \in Frames,
           NEW n, NEW c, Behind(s, n, c)
    PROVE  /\ Known(f, n, c) => Behind(Append(s, f), n, c) /\ Behind(<<f>>, n, c)
           /\ s # <<>> => Behind(Tail(s), n, c) /\ Known(Head(s), n, c)
           /\ Behind(t, n, c) => Behind(s \o t, n, c)
           /\ Behind(<<>>, n, c)
<1>1. ASSUME Known(f, n, c)
      PROVE  Behind(Append(s, f), n, c) /\ Behind(<<f>>, n, c)
  <2>1. \A i \in DOMAIN Append(s, f) : Append(s, f)[i] = f
                \/ (i \in DOMAIN s /\ Append(s, f)[i] = s[i])
    OBVIOUS
  <2> QED BY <1>1, <2>1 DEF Behind
<1>2. ASSUME s # <<>> PROVE Behind(Tail(s), n, c) /\ Known(Head(s), n, c)
  BY <1>2, TailFacts DEF Behind
<1>3. ASSUME Behind(t, n, c) PROVE Behind(s \o t, n, c)
  <2>1. ASSUME NEW i \in DOMAIN (s \o t)
        PROVE  (i \in DOMAIN s /\ (s \o t)[i] = s[i])
                 \/ (i - Len(s) \in DOMAIN t /\ (s \o t)[i] = t[i - Len(s)])
    OBVIOUS
  <2> QED BY <1>3, <2>1 DEF Behind
<1>4. Behind(<<>>, n, c)
  BY DEF Behind
<1> QED BY <1>1, <1>2, <1>3, <1>4

Holds(control, c) == control[c] \in {"try", "evict", "retry", "parked"}

(* Counts only grow, and who begins to hold a frame has just counted it.   *)
Calm(n, c, m, d) ==
    \A x \in Callers :
        /\ n[x] \in Nat /\ m[x] \in Nat /\ n[x] <= m[x]
        /\ Holds(d, x) => Holds(c, x) \/ n[x] < m[x]

LEMMA BehindStep ==
    ASSUME NEW s \in Seq(Frames), NEW n, NEW c, NEW m, NEW d,
           Behind(s, n, c), Calm(n, c, m, d)
    PROVE  Behind(s, m, d)
<1> SUFFICES ASSUME NEW i \in DOMAIN s PROVE Known(s[i], m, d)
  BY DEF Behind
<1> DEFINE f == s[i]
<1>1. f.src \in Callers /\ f.seq \in Nat
  <2>1. f \in Frames
    OBVIOUS
  <2>2. MaxFrames \in Nat
    BY PumpAssumption
  <2> HIDE DEF f
  <2> QED BY <2>1, <2>2 DEF Frames
<1>2. Known(f, n, c)
  BY DEF Behind
<1> HIDE DEF f
<1>3. Known(f, m, d)
  BY <1>1, <1>2 DEF Known, Calm, Holds
<1> QED BY <1>3 DEF f

LEMMA PathFrames ==
    ASSUME OrderInv
    PROVE  /\ wire \in Seq(Frames) /\ hand \in Seq(Frames) /\ out \in Seq(Frames)
           /\ sent \in [Callers -> Nat]
BY PumpAssumption DEF OrderInv, TypeInv, TypeOK

(* The frame in a caller's hands is newer than all of its frames on the    *)
(* path; so is the one it is about to submit.                              *)
LEMMA CurrentNewest ==
    ASSUME OrderInv, NEW c \in Callers, Holding(c)
    PROVE  Newest(Current(c), wire) /\ Newest(Current(c), hand)
           /\ Newest(Current(c), out)
BY PathFrames DEF OrderInv, Behind, Known, Holding, Newest, Earlier, Current

LEMMA UpcomingNewest ==
    ASSUME OrderInv, NEW c \in Callers
    PROVE  Newest(Upcoming(c), wire) /\ Newest(Upcoming(c), hand)
           /\ Newest(Upcoming(c), out)
<1>1. ASSUME NEW s \in Seq(Frames), Behind(s, sent, pc)
      PROVE  Newest(Upcoming(c), s)
  <2> SUFFICES ASSUME NEW i \in DOMAIN s, s[i].src = c
               PROVE  s[i].seq < sent[c] + 1
    BY DEF Newest, Earlier, Upcoming
  <2>1. s[i] \in Frames /\ s[i].seq <= sent[c]
    BY <1>1 DEF Behind, Known
  <2>2. s[i].seq \in Nat /\ sent[c] \in Nat
    BY <2>1, PathFrames, PumpAssumption DEF Frames
  <2> QED BY <2>1, <2>2
<1> QED BY <1>1, PathFrames DEF OrderInv

(* A step that leaves the path alone.                                      *)
LEMMA OrderQuiet ==
    ASSUME OrderInv, TypeInv', UNCHANGED <<wire, hand, out>>,
           Calm(sent, pc, sent', pc')
    PROVE  OrderInv'
BY PathFrames, BehindStep DEF OrderInv

(* A step that adds a frame at the end of the buffer.                      *)
LEMMA OrderGrow ==
    ASSUME OrderInv, TypeInv', UNCHANGED <<wire, hand>>,
           Calm(sent, pc, sent', pc'),
           NEW f \in Frames, out' = Append(out, f), Known(f, sent', pc'),
           Newest(f, wire), Newest(f, hand), Newest(f, out)
    PROVE  OrderInv'
<1>1. Ordered(wire, hand, Append(out, f))
  BY PathFrames, OrderedAppend DEF OrderInv
<1>2. Behind(wire, sent', pc') /\ Behind(hand, sent', pc')
      /\ Behind(out, sent', pc')
  BY PathFrames, BehindStep DEF OrderInv
<1>3. Behind(Append(out, f), sent', pc')
  BY <1>2, PathFrames, BehindSeq
<1> QED BY <1>1, <1>2, <1>3 DEF OrderInv

(* A step that takes the oldest frame of the buffer, for a buffer to which *)
(* a blocked Send adds its own.                                            *)
LEMMA OrderReceived ==
    ASSUME OrderInv, out # <<>>, NEW d, Calm(sent, pc, sent, d),
           pc[Reader] = "parked" => ~Holds(d, Reader)
    PROVE  /\ Ordered(wire, hand, Received)
           /\ hand = <<>> => Ordered(wire, <<Head(out)>>, Received)
           /\ Behind(wire, sent, d) /\ Behind(hand, sent, d)
           /\ Behind(Received, sent, d) /\ Behind(<<Head(out)>>, sent, d)
<1> DEFINE f == Current(Reader)
<1>1. Tail(out) \in Seq(Frames) /\ Head(out) \in Frames
      /\ <<Head(out)>> \in Seq(Frames)
  BY PathFrames
<1>2. Ordered(wire, hand, Tail(out))
      /\ (hand = <<>> => Ordered(wire, <<Head(out)>>, Tail(out)))
  BY PathFrames, OrderedTail, OrderedReceive DEF OrderInv
<1>3. Behind(wire, sent, d) /\ Behind(hand, sent, d) /\ Behind(out, sent, d)
  BY PathFrames, BehindStep DEF OrderInv
<1>4. Behind(Tail(out), sent, d) /\ Behind(<<Head(out)>>, sent, d)
  BY <1>1, <1>3, PathFrames, BehindSeq
<1>5. CASE pc[Reader] = "parked"
  <2>1. Reader \in Callers /\ Holding(Reader)
    BY <1>5 DEF Callers, Holding
  <2>2. f \in Frames /\ Newest(f, wire) /\ Newest(f, hand) /\ Newest(f, out)
    BY <2>1, CurrentFrame, CurrentNewest DEF OrderInv
  <2>3. Newest(f, Tail(out)) /\ Newest(f, <<Head(out)>>)
    BY <2>2, PathFrames, TailFacts DEF Newest
  <2>4. Known(f, sent, d)
    BY <1>5, <2>1, PathFrames DEF Known, Current, Holds
  <2>5. Behind(Append(Tail(out), f), sent, d)
    BY <1>1, <1>4, <2>2, <2>4, BehindSeq
  <2> HIDE DEF f
  <2>6. Ordered(wire, hand, Append(Tail(out), f))
        /\ (hand = <<>> => Ordered(wire, <<Head(out)>>, Append(Tail(out), f)))
    BY <1>1, <1>2, <2>2, <2>3, PathFrames, OrderedAppend
  <2> QED BY <1>3, <1>4, <1>5, <2>5, <2>6 DEF Received, f
<1>6. CASE pc[Reader] # "parked"
  BY <1>2, <1>3, <1>4, <1>6 DEF Received
<1> QED BY <1>5, <1>6

LEMMA OrderInit == Init => OrderInv
<1> SUFFICES ASSUME Init PROVE OrderInv
  OBVIOUS
<1>1. wire = <<>> /\ hand = <<>> /\ out = <<>>
  BY DEF Init
<1>2. Ordered(wire, hand, out)
  BY <1>1 DEF Ordered, Sorted, Precedes
<1>3. Behind(wire, sent, pc) /\ Behind(hand, sent, pc) /\ Behind(out, sent, pc)
  BY <1>1 DEF Behind
<1> QED BY <1>2, <1>3, TypeInit DEF OrderInv

(* The steps of the read loop.                                             *)
LEMMA OrderReader ==
    ASSUME OrderInv, TypeInv', ReaderStep
    PROVE  OrderInv'
<1>a. Reader \in Callers /\ TypeInv
  BY DEF Callers, OrderInv
<1>b. /\ sent \in [Callers -> Nat]
      /\ pc \in [Callers -> {"idle", "try", "evict", "retry", "parked", "close",
                             "gone"}]
  BY PathFrames, <1>a DEF TypeInv, TypeOK
<1>1. CASE SendEnqueue
  <2>1. /\ sent[Reader] < MaxFrames /\ sent' = [sent EXCEPT ![Reader] = @ + 1]
        /\ pc[Reader] = "idle" /\ out' = Append(out, Upcoming(Reader))
        /\ UNCHANGED <<wire, hand, pc>>
    BY <1>1 DEF SendEnqueue, Submit
  <2>2. Calm(sent, pc, sent', pc')
    BY <1>b, <2>1 DEF Calm
  <2>3. Known(Upcoming(Reader), sent', pc')
    BY <1>a, <1>b, <2>1 DEF Known, Upcoming
  <2>4. Upcoming(Reader) \in Frames
    BY <1>a, <2>1, UpcomingFrame
  <2> QED BY <1>a, <2>1, <2>2, <2>3, <2>4, UpcomingNewest, OrderGrow
<1>2. CASE SendPark
  <2>1. /\ sent' = [sent EXCEPT ![Reader] = @ + 1]
        /\ pc' = [pc EXCEPT ![Reader] = "parked"]
        /\ UNCHANGED <<wire, hand, out>>
    BY <1>2 DEF SendPark, Submit
  <2>2. Calm(sent, pc, sent', pc')
    BY <1>a, <1>b, <2>1 DEF Calm, Holds
  <2> QED BY <2>1, <2>2, OrderQuiet
<1>3. CASE SendDone \/ SendPanic
  <2>1. /\ sent' = [sent EXCEPT ![Reader] = @ + 1]
        /\ pc' = pc \/ pc' = [pc EXCEPT ![Reader] = "close"]
        /\ UNCHANGED <<wire, hand, out>>
    BY <1>3 DEF SendDone, SendPanic, Submit
  <2>2. Calm(sent, pc, sent', pc')
    BY <1>a, <1>b, <2>1 DEF Calm, Holds
  <2> QED BY <2>1, <2>2, OrderQuiet
<1>4. CASE Disconnect \/ ReaderGone
  <2>1. /\ sent' = sent
        /\ pc' = [pc EXCEPT ![Reader] = "gone"]
             \/ pc' = [pc EXCEPT ![Reader] = "close"]
        /\ UNCHANGED <<wire, hand, out>>
    BY <1>4 DEF Disconnect, ReaderGone
  <2>2. Calm(sent, pc, sent', pc')
    BY <1>a, <1>b, <2>1 DEF Calm, Holds
  <2> QED BY <2>1, <2>2, OrderQuiet
<1> QED BY <1>1, <1>2, <1>3, <1>4 DEF ReaderStep

(* The steps of an event goroutine.                                        *)
LEMMA OrderEnqueue ==
    ASSUME OrderInv, TypeInv', NEW p \in Publishers,
           pc[p] \in {"try", "retry"}, Enqueue(p)
    PROVE  OrderInv'
<1>a. p \in Callers /\ Holding(p) /\ TypeInv
  BY DEF Callers, Holding, OrderInv
<1>b. /\ sent \in [Callers -> Nat]
      /\ pc \in [Callers -> {"idle", "try", "evict", "retry", "parked", "close",
                             "gone"}]
  BY PathFrames, <1>a DEF TypeInv, TypeOK
<1>1. /\ out' = Append(out, Current(p)) /\ pc' = [pc EXCEPT ![p] = "idle"]
      /\ UNCHANGED <<wire, hand, sent>>
  BY DEF Enqueue
<1>2. Calm(sent, pc, sent', pc')
  BY <1>a, <1>b, <1>1 DEF Calm, Holds
<1>3. Known(Current(p), sent', pc')
  BY <1>a, <1>b, <1>1 DEF Known, Current
<1> QED BY <1>a, <1>1, <1>2, <1>3, CurrentFrame, CurrentNewest, OrderGrow

LEMMA OrderPublish ==
    ASSUME OrderInv, TypeInv', NEW p \in Publishers,
           PublishCall(p) \/ PublishStep(p)
    PROVE  OrderInv'
<1>a. p \in Callers /\ Reader \in Callers /\ p # Reader /\ TypeInv
  BY PumpAssumption DEF Callers, OrderInv
<1>b. /\ sent \in [Callers -> Nat]
      /\ pc \in [Callers -> {"idle", "try", "evict", "retry", "parked", "close",
                             "gone"}]
  BY PathFrames, <1>a DEF TypeInv, TypeOK
<1>1. CASE PublishCall(p)
  <2>1. /\ sent' = [sent EXCEPT ![p] = @ + 1]
        /\ pc' = pc \/ pc' = [pc EXCEPT ![p] = "try"]
        /\ UNCHANGED <<wire, hand, out>>
    BY <1>1 DEF PublishCall, Submit
  <2>2. Calm(sent, pc, sent', pc')
    BY <1>a, <1>b, <2>1 DEF Calm, Holds
  <2> QED BY <2>1, <2>2, OrderQuiet
<1>2. CASE pc[p] \in {"try", "retry"} /\ Enqueue(p)
  BY <1>2, OrderEnqueue
<1>3. CASE SendOnClosed(p)
  <2>1. UNCHANGED <<wire, hand, out, sent, pc>>
    BY <1>3 DEF SendOnClosed
  <2>2. Calm(sent, pc, sent', pc')
    BY <1>b, <2>1 DEF Calm, Holds
  <2> QED BY <2>1, <2>2, OrderQuiet
<1>4. CASE (PublishTry(p) \/ PublishRetry(p)) /\ ~Enqueue(p) /\ ~SendOnClosed(p)
  <2>1. /\ sent' = sent /\ UNCHANGED <<wire, hand, out>>
        /\ pc' = [pc EXCEPT ![p] = "idle"]
             \/ (pc[p] = "try" /\ pc' = [pc EXCEPT ![p] = "evict"])
    BY <1>4 DEF PublishTry, PublishRetry
  <2>2. Calm(sent, pc, sent', pc')
    BY <1>a, <1>b, <2>1 DEF Calm, Holds
  <2> QED BY <2>1, <2>2, OrderQuiet
<1>5. CASE PublishEvict(p) /\ out = <<>>
  <2>1. /\ sent' = sent /\ UNCHANGED <<wire, hand, out>>
        /\ pc[p] = "evict" /\ pc' = [pc EXCEPT ![p] = "retry"]
    BY <1>5 DEF PublishEvict
  <2>2. Calm(sent, pc, sent', pc')
    BY <1>a, <1>b, <2>1 DEF Calm, Holds
  <2> QED BY <2>1, <2>2, OrderQuiet
<1>6. CASE PublishEvict(p) /\ out # <<>>
  <2>1. /\ pc[p] = "evict" /\ out' = Received
        /\ pc' = [Unpark(pc) EXCEPT ![p] = "retry"]
        /\ UNCHANGED <<wire, hand, sent>>
    BY <1>6 DEF PublishEvict
  <2>2. Calm(sent, pc, sent, pc')
    BY <1>a, <1>b, <2>1 DEF Calm, Holds, Unpark
  <2>3. pc[Reader] = "parked" => ~Holds(pc', Reader)
    BY <1>a, <1>b, <2>1 DEF Holds, Unpark
  <2>4. /\ Ordered(wire, hand, Received)
        /\ Behind(wire, sent, pc') /\ Behind(hand, sent, pc')
        /\ Behind(Received, sent, pc')
    BY <1>6, <2>2, <2>3, OrderReceived
  <2> QED BY <2>1, <2>4 DEF OrderInv
<1> QED
  BY <1>1, <1>2, <1>3, <1>4, <1>5, <1>6
  DEF PublishStep, PublishTry, PublishRetry, PublishEvict

(* The steps of the pump's own goroutine, and of close.                    *)
LEMMA UnparkCalm ==
    ASSUME OrderInv
    PROVE  Calm(sent, pc, sent, Unpark(pc)) /\ ~Holds(Unpark(pc), Reader)
<1>a. Reader \in Callers /\ TypeInv
  BY DEF Callers, OrderInv
<1>b. /\ sent \in [Callers -> Nat]
      /\ pc \in [Callers -> {"idle", "try", "evict", "retry", "parked", "close",
                             "gone"}]
      /\ pc[Reader] \in {"idle", "parked", "close", "gone"}
  BY PathFrames, <1>a DEF TypeInv, TypeOK
<1> QED BY <1>a, <1>b DEF Calm, Holds, Unpark

LEMMA OrderLoop ==
    ASSUME OrderInv, TypeInv', LoopStep \/ CloseStep
    PROVE  OrderInv'
<1>a. /\ TypeInv
      /\ sent \in [Callers -> Nat]
      /\ wire \in Seq(Frames) /\ hand \in Seq(Frames) /\ out \in Seq(Frames)
      /\ <<>> \in Seq(Frames)
  BY PathFrames DEF OrderInv
<1>b. Calm(sent, pc, sent, pc)
  BY <1>a DEF Calm
<1>1. CASE LoopReceive
  <2>1. /\ out # <<>> /\ hand = <<>> /\ out' = Received
        /\ hand' = <<Head(out)>> /\ pc' = Unpark(pc) /\ UNCHANGED <<wire, sent>>
    BY <1>1, <1>a DEF LoopReceive, TypeInv, TypeOK
  <2>2. /\ Ordered(wire, <<Head(out)>>, Received)
        /\ Behind(wire, sent, pc') /\ Behind(<<Head(out)>>, sent, pc')
        /\ Behind(Received, sent, pc')
    BY <2>1, UnparkCalm, OrderReceived
  <2> QED BY <2>1, <2>2 DEF OrderInv
<1>2. CASE LoopWrite
  <2>1. wire' = wire \o hand /\ hand' = <<>> /\ UNCHANGED <<out, sent, pc>>
    BY <1>2 DEF LoopWrite
  <2>2. Ordered(wire \o hand, <<>>, out)
    BY <1>a, OrderedWrite DEF OrderInv
  <2>3. Behind(wire, sent, pc) /\ Behind(hand, sent, pc)
        /\ Behind(out, sent, pc) /\ Behind(<<>>, sent, pc)
    BY DEF OrderInv, Behind
  <2>4. Behind(wire \o hand, sent, pc)
    <3>1. ASSUME NEW i \in DOMAIN (wire \o hand)
          PROVE  (i \in DOMAIN wire /\ (wire \o hand)[i] = wire[i])
                   \/ (i - Len(wire) \in DOMAIN hand
                         /\ (wire \o hand)[i] = hand[i - Len(wire)])
      BY <1>a
    <3> QED BY <2>3, <3>1 DEF Behind
  <2> QED BY <2>1, <2>2, <2>3, <2>4 DEF OrderInv
<1>3. CASE LoopWriteError
  <2>1. hand' = <<>> /\ UNCHANGED <<wire, out, sent, pc>>
    BY <1>3 DEF LoopWriteError
  <2>2. Ordered(wire, <<>>, out)
    BY <1>a, OrderedWrite DEF OrderInv
  <2>3. Behind(<<>>, sent, pc)
    BY DEF Behind
  <2> QED BY <2>1, <2>2, <2>3 DEF OrderInv
<1>4. CASE LoopDrain
  <2>1. /\ out # <<>> /\ out' = Received
        /\ pc' = Unpark(pc) /\ UNCHANGED <<wire, hand, sent>>
    BY <1>4 DEF LoopDrain
  <2>2. /\ Ordered(wire, hand, Received)
        /\ Behind(wire, sent, pc') /\ Behind(hand, sent, pc')
        /\ Behind(Received, sent, pc')
    BY <2>1, UnparkCalm, OrderReceived
  <2> QED BY <2>1, <2>2 DEF OrderInv
<1>5. CASE LoopClosed \/ LoopExit \/ CloseOut
  <2>1. UNCHANGED <<wire, hand, out, sent, pc>>
    BY <1>5 DEF LoopClosed, LoopExit, CloseOut
  <2> QED BY <1>b, <2>1, OrderQuiet
<1>6. CASE CloseDone
  <2>1. UNCHANGED <<wire, hand, out, sent>> /\ pc' = Unpark(pc)
    BY <1>6 DEF CloseDone
  <2> QED BY <2>1, UnparkCalm, OrderQuiet
<1> QED
  BY <1>1, <1>2, <1>3, <1>4, <1>5, <1>6 DEF LoopStep, CloseStep

LEMMA OrderStep == OrderInv /\ [Next]_vars => OrderInv'
<1> SUFFICES ASSUME OrderInv, [Next]_vars PROVE OrderInv'
  OBVIOUS
<1>1. TypeInv'
  BY TypeStep DEF OrderInv
<1>2. CASE UNCHANGED vars
  <2>1. UNCHANGED <<wire, hand, out, sent, pc>>
    BY <1>2 DEF vars
  <2> QED BY <1>1, <2>1 DEF OrderInv
<1>3. CASE Next
  BY <1>1, <1>3, OrderReader, OrderPublish, OrderLoop DEF Next
<1> QED BY <1>2, <1>3

(* Whatever the pump evicts, and however Sends, Publishes and the close    *)
(* interleave, each goroutine's frames stay in the order it submitted them *)
(* and none is written twice.                                              *)
THEOREM FramesInOrder == Spec => []InOrder
<1> QED BY OrderInit, OrderStep, OrderInvInOrder, PTL DEF Spec

-----------------------------------------------------------------------------
(* WritePump implements FrameChannel: what the Publisher interface         *)
(* promises is what the goroutine, the buffered channel and the evictions  *)
(* of pump.go do.                                                          *)

(* The abstract queue: the frame in hand, if any, and the buffer.          *)
Queue == hand \o out

(* A frame newer than all of its source's on the path is fresh.            *)
LEMMA NewestIsFresh ==
    ASSUME OrderInv, NEW f \in Frames,
           Newest(f, wire), Newest(f, hand), Newest(f, out)
    PROVE  Channel!Fresh(f, wire \o Queue)
<1> SUFFICES ASSUME NEW i \in DOMAIN (wire \o Queue),
                    (wire \o Queue)[i].src = f.src
             PROVE  (wire \o Queue)[i].seq < f.seq
  BY DEF Channel!Fresh, Queue
<1>1. /\ wire \in Seq(Frames) /\ hand \in Seq(Frames) /\ out \in Seq(Frames)
  BY PathFrames
<1>2. \/ i \in DOMAIN wire /\ (wire \o Queue)[i] = wire[i]
      \/ \E j \in DOMAIN hand : (wire \o Queue)[i] = hand[j]
      \/ \E j \in DOMAIN out : (wire \o Queue)[i] = out[j]
  <2>1. CASE i <= Len(wire)
    BY <1>1, <2>1 DEF Queue
  <2>2. CASE Len(wire) < i /\ i <= Len(wire) + Len(hand)
    <3>1. i - Len(wire) \in DOMAIN hand
          /\ (wire \o Queue)[i] = hand[i - Len(wire)]
      BY <1>1, <2>2 DEF Queue
    <3> QED BY <3>1
  <2>3. CASE Len(wire) + Len(hand) < i
    <3>1. i - Len(wire) - Len(hand) \in DOMAIN out
          /\ (wire \o Queue)[i] = out[i - Len(wire) - Len(hand)]
      BY <1>1, <2>3 DEF Queue
    <3> QED BY <3>1
  <2> QED BY <1>1, <2>1, <2>2, <2>3 DEF Queue
<1> QED BY <1>2 DEF Newest, Earlier

(* Sequences: what the steps of the pump do to the abstract queue.         *)
LEMMA QueueFacts ==
    ASSUME NEW h \in Seq(Frames), NEW o \in Seq(Frames)
    PROVE  /\ \A f \in Frames : h \o Append(o, f) = Append(h \o o, f)
           /\ Len(h \o o) = Len(h) + Len(o)
           /\ <<>> \o o = o
BY Z3

(* Losing the oldest frame of the buffer leaves the one in hand.           *)
LEMMA RemoveFacts ==
    ASSUME NEW h \in Seq(Frames), NEW o \in Seq(Frames), o # <<>>
    PROVE  /\ Len(h) + 1 \in DOMAIN (h \o o)
           /\ Channel!RemoveAt(h \o o, Len(h) + 1) = h \o Tail(o)
           /\ <<Head(o)>> \o Tail(o) = o
<1>1. Len(h) + 1 \in DOMAIN (h \o o)
  OBVIOUS
<1>2. SubSeq(h \o o, 1, Len(h)) = h
  OBVIOUS
<1>3. SubSeq(h \o o, Len(h) + 2, Len(h \o o)) = Tail(o)
  OBVIOUS
<1>4. Channel!RemoveAt(h \o o, Len(h) + 1) = h \o Tail(o)
  <2>1. (Len(h) + 1) - 1 = Len(h) /\ (Len(h) + 1) + 1 = Len(h) + 2
    OBVIOUS
  <2>2. Channel!RemoveAt(h \o o, Len(h) + 1)
          = SubSeq(h \o o, 1, (Len(h) + 1) - 1)
              \o SubSeq(h \o o, (Len(h) + 1) + 1, Len(h \o o))
    BY DEF Channel!RemoveAt
  <2> QED BY <1>2, <1>3, <2>1, <2>2
<1>5. <<Head(o)>> \o Tail(o) = o
  OBVIOUS
<1> QED BY <1>1, <1>4, <1>5

(* A sequence of one frame is that frame.                                  *)
LEMMA SingletonFacts ==
    ASSUME NEW h \in Seq(Frames), Len(h) = 1
    PROVE  Head(h) \in Frames /\ h = <<Head(h)>>
<1>1. DOMAIN h = {1} /\ h[1] \in Frames /\ Head(h) = h[1]
  OBVIOUS
<1>2. <<h[1]>> \in Seq(Frames) /\ Len(<<h[1]>>) = 1 /\ <<h[1]>>[1] = h[1]
  BY <1>1
<1>3. h = <<h[1]>>
  BY <1>1, <1>2, SeqEqual
<1> QED BY <1>1, <1>3

(* Losing or delivering the frame in hand leaves the buffer.               *)
LEMMA FirstFacts ==
    ASSUME NEW f \in Frames, NEW o \in Seq(Frames)
    PROVE  /\ <<f>> \o o # <<>> /\ 1 \in DOMAIN (<<f>> \o o)
           /\ Head(<<f>> \o o) = f /\ Tail(<<f>> \o o) = o
           /\ Channel!RemoveAt(<<f>> \o o, 1) = o
<1> DEFINE s == <<f>> \o o
<1>1. /\ s \in Seq(Frames) /\ Len(s) = Len(o) + 1 /\ s[1] = f
      /\ \A i \in 1..Len(o) : s[i + 1] = o[i]
      /\ Len(o) \in Nat
  OBVIOUS
<1> HIDE DEF s
<1>2. s # <<>> /\ 1 \in DOMAIN s /\ Head(s) = f
  BY <1>1
<1>3. Tail(s) = o
  <2>1. Tail(s) \in Seq(Frames) /\ Len(Tail(s)) = Len(o)
        /\ \A i \in 1..Len(o) : Tail(s)[i] = o[i]
    BY <1>1, <1>2
  <2> QED BY <2>1, SeqEqual
<1>4. Channel!RemoveAt(s, 1) = o
  <2>1. SubSeq(s, 1, 0) = <<>> /\ SubSeq(s, 2, Len(s)) = o
    BY <1>1, <1>3
  <2>2. Channel!RemoveAt(s, 1) = SubSeq(s, 1, 1 - 1) \o SubSeq(s, 1 + 1, Len(s))
    BY DEF Channel!RemoveAt
  <2>3. <<>> \o o = o
    OBVIOUS
  <2> QED BY <2>1, <2>2, <2>3
<1> QED BY <1>2, <1>3, <1>4 DEF s

-----------------------------------------------------------------------------
(* A step of the pump maps to a step of the channel, or to a stutter.      *)
ChannelStep == [Channel!Next]_(Channel!chan)

(* A step that leaves the path alone is a stutter of the channel.          *)
LEMMA QuietStep ==
    ASSUME UNCHANGED <<wire, hand, out>>
    PROVE  ChannelStep
BY DEF ChannelStep, Channel!chan

(* A frame that enters the buffer is accepted.                             *)
LEMMA AcceptStep ==
    ASSUME OrderInv, UNCHANGED <<wire, hand>>, ~Full,
           NEW f \in Frames, out' = Append(out, f),
           Newest(f, wire), Newest(f, hand), Newest(f, out)
    PROVE  ChannelStep
<1>1. Queue' = Append(Queue, f)
  BY PathFrames, QueueFacts DEF Queue
<1>2. Len(Queue) < PumpBufferSize + 1
  <2>1. Len(Queue) = Len(hand) + Len(out)
    BY PathFrames, QueueFacts DEF Queue
  <2>2. Len(hand) <= 1 /\ Len(hand) \in Nat
    <3>1. hand = <<>> \/ Len(hand) = 1
      BY DEF OrderInv, TypeInv, TypeOK
    <3>2. Len(hand) \in Nat
      BY PathFrames
    <3>3. CASE hand = <<>>
      BY <3>3
    <3>4. CASE Len(hand) = 1
      BY <3>4
    <3> QED BY <3>1, <3>2, <3>3, <3>4
  <2>3. Len(out) < PumpBufferSize /\ Len(out) \in Nat
    BY PathFrames, PumpAssumption DEF OrderInv, TypeInv, TypeOK, Full
  <2> QED BY <2>1, <2>2, <2>3, PumpAssumption
<1>3. Channel!Fresh(f, wire \o Queue)
  BY NewestIsFresh
<1>4. Channel!Accept(f)
  BY <1>1, <1>2, <1>3 DEF Channel!Accept, Queue
<1> QED BY <1>4 DEF ChannelStep, Channel!Next

(* What taking the oldest frame of the buffer leaves behind the frames in  *)
(* hand: a blocked Send's frame is fresh when it takes the freed slot.     *)
LEMMA ReceivedStep ==
    ASSUME OrderInv, out # <<>>, UNCHANGED <<wire, hand>>, out' = Received
    PROVE  ChannelStep
<1>1. Len(hand) + 1 \in DOMAIN Queue
      /\ Channel!RemoveAt(Queue, Len(hand) + 1) = hand \o Tail(out)
  BY PathFrames, RemoveFacts DEF Queue
<1>2. CASE pc[Reader] = "parked"
  <2>1. Reader \in Callers /\ Holding(Reader)
    BY <1>2 DEF Callers, Holding
  <2>2. /\ Current(Reader) \in Frames
        /\ Channel!Fresh(Current(Reader), wire \o Queue)
    BY <2>1, CurrentFrame, CurrentNewest, NewestIsFresh DEF OrderInv
  <2>3. Queue' = Append(hand \o Tail(out), Current(Reader))
    <3>1. Tail(out) \in Seq(Frames)
      BY PathFrames
    <3> QED BY <1>2, <2>2, <3>1, PathFrames, QueueFacts DEF Queue, Received
  <2>4. Channel!Displace(Len(hand) + 1, Current(Reader))
    BY <1>1, <2>2, <2>3 DEF Channel!Displace, Queue
  <2> QED BY <1>1, <2>2, <2>4 DEF ChannelStep, Channel!Next, Queue
<1>3. CASE pc[Reader] # "parked"
  <2>1. Channel!Lose(Len(hand) + 1)
    BY <1>1, <1>3 DEF Channel!Lose, Queue, Received
  <2> QED BY <1>1, <2>1 DEF ChannelStep, Channel!Next, Queue
<1> QED BY <1>2, <1>3

(* The goroutine's receive moves a frame from the buffer into its hand,    *)
(* which the channel does not see; a blocked Send's frame is accepted.     *)
LEMMA LoopReceiveStep ==
    ASSUME OrderInv, LoopReceive
    PROVE  ChannelStep
<1>1. /\ hand = <<>> /\ out # <<>> /\ hand' = <<Head(out)>>
      /\ out' = Received /\ wire' = wire
  BY DEF LoopReceive, OrderInv, TypeInv, TypeOK
<1>2. Queue = out /\ <<Head(out)>> \o Tail(out) = out
  BY <1>1, PathFrames, QueueFacts, RemoveFacts DEF Queue
<1>3. CASE pc[Reader] = "parked"
  <2>1. Reader \in Callers /\ Holding(Reader)
    BY <1>3 DEF Callers, Holding
  <2>2. /\ Current(Reader) \in Frames
        /\ Channel!Fresh(Current(Reader), wire \o Queue)
    BY <2>1, CurrentFrame, CurrentNewest, NewestIsFresh DEF OrderInv
  <2>3. Queue' = Append(Queue, Current(Reader))
    <3>1. Tail(out) \in Seq(Frames) /\ <<Head(out)>> \in Seq(Frames)
      BY <1>1, PathFrames
    <3>2. Queue' = <<Head(out)>> \o Append(Tail(out), Current(Reader))
      BY <1>1, <1>3 DEF Queue, Received
    <3>3. Queue' = Append(<<Head(out)>> \o Tail(out), Current(Reader))
      BY <2>2, <3>1, <3>2, QueueFacts
    <3> QED BY <1>2, <3>3
  <2>4. Len(Queue) < PumpBufferSize + 1
    BY <1>2, PathFrames, PumpAssumption DEF OrderInv, TypeInv, TypeOK
  <2>5. Channel!Accept(Current(Reader))
    BY <1>1, <2>2, <2>3, <2>4 DEF Channel!Accept, Queue
  <2> QED BY <2>2, <2>5 DEF ChannelStep, Channel!Next
<1>4. CASE pc[Reader] # "parked"
  <2>1. Queue' = Queue
    BY <1>1, <1>2, <1>4 DEF Queue, Received
  <2> QED BY <1>1, <2>1 DEF ChannelStep, Channel!chan, Queue
<1> QED BY <1>3, <1>4

(* The frame in hand is delivered, or lost by a failed write.              *)
LEMMA LoopWriteStep ==
    ASSUME OrderInv, LoopWrite \/ LoopWriteError
    PROVE  ChannelStep
<1>1. /\ Len(hand) = 1 /\ hand' = <<>> /\ out' = out
      /\ hand \in Seq(Frames) /\ out \in Seq(Frames) /\ wire \in Seq(Frames)
  BY PathFrames DEF LoopWrite, LoopWriteError, OrderInv, TypeInv, TypeOK
<1> DEFINE f == Head(hand)
<1>2. f \in Frames /\ hand = <<f>>
  BY <1>1, SingletonFacts
<1> HIDE DEF f
<1>3. /\ Queue # <<>> /\ Head(Queue) = f /\ Tail(Queue) = out
      /\ 1 \in DOMAIN Queue /\ Channel!RemoveAt(Queue, 1) = out
  BY <1>1, <1>2, FirstFacts DEF Queue
<1>4. Queue' = out
  BY <1>1, QueueFacts DEF Queue
<1>5. CASE LoopWrite
  <2>1. wire' = Append(wire, Head(Queue))
    BY <1>1, <1>2, <1>3, <1>5 DEF LoopWrite
  <2>2. Channel!Deliver
    BY <1>3, <1>4, <2>1 DEF Channel!Deliver, Queue
  <2> QED BY <2>2 DEF ChannelStep, Channel!Next
<1>6. CASE LoopWriteError
  <2>1. Channel!Lose(1)
    BY <1>3, <1>4, <1>6 DEF Channel!Lose, Queue, LoopWriteError
  <2> QED BY <1>3, <2>1 DEF ChannelStep, Channel!Next, Queue
<1> QED BY <1>5, <1>6

-----------------------------------------------------------------------------
(* The actions of Next, one by one.  A publisher that finds room.          *)
LEMMA EnqueueStep ==
    ASSUME OrderInv, NEW p \in Publishers, Holding(p), Enqueue(p)
    PROVE  ChannelStep
<1>1. p \in Callers
  BY DEF Callers
<1>2. Current(p) \in Frames
  BY <1>1, CurrentFrame DEF OrderInv
<1>3. Newest(Current(p), wire) /\ Newest(Current(p), hand)
      /\ Newest(Current(p), out)
  BY <1>1, CurrentNewest
<1> QED BY <1>2, <1>3, AcceptStep DEF Enqueue

(* The read loop: only an enqueued response is seen by the channel.        *)
LEMMA ReaderRefines == OrderInv /\ ReaderStep => ChannelStep
<1> SUFFICES ASSUME OrderInv, ReaderStep PROVE ChannelStep
  OBVIOUS
<1>1. CASE SendEnqueue
  <2>1. Reader \in Callers
    BY DEF Callers
  <2>2. Upcoming(Reader) \in Frames
    BY <1>1, <2>1, UpcomingFrame DEF OrderInv, SendEnqueue, Submit
  <2>3. Newest(Upcoming(Reader), wire) /\ Newest(Upcoming(Reader), hand)
        /\ Newest(Upcoming(Reader), out)
    BY <2>1, UpcomingNewest
  <2> QED BY <1>1, <2>2, <2>3, AcceptStep DEF SendEnqueue
<1>2. CASE SendPark \/ SendDone \/ SendPanic \/ Disconnect \/ ReaderGone
  BY <1>2, QuietStep
     DEF SendPark, SendDone, SendPanic, Disconnect, ReaderGone
<1> QED BY <1>1, <1>2 DEF ReaderStep

(* A publisher: an enqueued event is an Accept, an eviction a Lose.        *)
LEMMA PublishRefines ==
    ASSUME OrderInv, NEW p \in Publishers, PublishCall(p) \/ PublishStep(p)
    PROVE  ChannelStep
<1>1. CASE PublishCall(p)
  BY <1>1, QuietStep DEF PublishCall
<1>2. CASE PublishTry(p)
  <2>1. CASE Enqueue(p)
    BY <1>2, <2>1, EnqueueStep DEF PublishTry, Holding
  <2>2. CASE ~Enqueue(p)
    BY <1>2, <2>2, QuietStep DEF PublishTry, SendOnClosed
  <2> QED BY <2>1, <2>2
<1>3. CASE PublishEvict(p)
  <2>1. CASE out = <<>>
    BY <1>3, <2>1, QuietStep DEF PublishEvict
  <2>2. CASE out # <<>>
    BY <1>3, <2>2, ReceivedStep DEF PublishEvict
  <2> QED BY <2>1, <2>2
<1>4. CASE PublishRetry(p)
  <2>1. CASE Enqueue(p)
    BY <1>4, <2>1, EnqueueStep DEF PublishRetry, Holding
  <2>2. CASE ~Enqueue(p)
    BY <1>4, <2>2, QuietStep DEF PublishRetry, SendOnClosed
  <2> QED BY <2>1, <2>2
<1> QED BY <1>1, <1>2, <1>3, <1>4 DEF PublishStep

(* The pump's goroutine and the close, which the channel does not see.     *)
LEMMA LoopRefines == OrderInv /\ (LoopStep \/ CloseStep) => ChannelStep
<1> SUFFICES ASSUME OrderInv, LoopStep \/ CloseStep PROVE ChannelStep
  OBVIOUS
<1>1. CASE LoopDrain
  BY <1>1, ReceivedStep DEF LoopDrain
<1>2. CASE LoopClosed \/ LoopExit \/ CloseDone \/ CloseOut
  BY <1>2, QuietStep DEF LoopClosed, LoopExit, CloseDone, CloseOut
<1> QED BY <1>1, <1>2, LoopReceiveStep, LoopWriteStep DEF LoopStep, CloseStep

(* Every step, under the invariant of the order proof.                     *)
LEMMA StepRefines == OrderInv /\ [Next]_vars => ChannelStep
<1> SUFFICES ASSUME OrderInv, [Next]_vars PROVE ChannelStep
  OBVIOUS
<1>1. CASE Next
  BY <1>1, ReaderRefines, PublishRefines, LoopRefines DEF Next
<1>2. CASE UNCHANGED vars
  BY <1>2, QuietStep DEF vars
<1> QED BY <1>1, <1>2

(* A new pump is an empty channel.                                         *)
LEMMA InitRefines == Init => Channel!Init
BY DEF Init, Channel!Init

(* Whatever the interleaving of Sends, Publishes, evictions, failed writes *)
(* and the close, the pump's buffer with the frame being written behaves   *)
(* as the bounded lossy FIFO channel the Publisher interface stands for:   *)
(* each frame is delivered at most once, none overtakes another of its     *)
(* source, and no more than PumpBufferSize + 1 are ever pending.           *)
THEOREM PumpImplementsChannel == Spec => ImplementsChannel
<1>1. OrderInv /\ [Next]_vars => [Channel!Next]_(Channel!chan)
  BY StepRefines DEF ChannelStep
<1> QED
  BY <1>1, InitRefines, OrderInit, OrderStep, PTL
     DEF Spec, ImplementsChannel, Channel!Spec

(* A response waiting on the full buffer leaves that wait only by being    *)
(* enqueued in the slot some receive frees, or by the pump's close.        *)
THEOREM WaitingSendEnqueued == Spec => WaitingSendIsSafe
<1>1. ASSUME TypeInv, [Next]_vars, pc[Reader] = "parked",
             pc'[Reader] # "parked"
      PROVE  /\ pc'[Reader] = "idle"
             /\ Current(Reader) \in SetOf(out') \/ closing' # "open"
  <2>1. /\ Reader \in Callers /\ Reader \notin Publishers
        /\ DOMAIN pc = Callers /\ out \in Seq(Frames)
    BY <1>1, PumpAssumption DEF Callers, TypeInv, TypeOK
  <2>2. Current(Reader) \in Frames
    BY <1>1, <2>1, CurrentFrame DEF Holding
  <2>3. Unpark(pc)[Reader] = "idle"
    BY <1>1, <2>1 DEF Unpark
  <2>4. ASSUME out # <<>>, out' = Received
        PROVE  Current(Reader) \in SetOf(out')
    <3>1. Tail(out) \in Seq(Frames)
      BY <2>1, <2>4
    <3>2. out' = Append(Tail(out), Current(Reader))
      BY <1>1, <2>4 DEF Received
    <3>3. /\ Len(out') \in DOMAIN out'
          /\ out'[Len(out')] = Current(Reader)
      BY <2>2, <3>1, <3>2
    <3> QED BY <3>3 DEF SetOf
  <2>5. CASE LoopReceive \/ LoopDrain
    BY <2>3, <2>4, <2>5 DEF LoopReceive, LoopDrain
  <2>6. CASE CloseDone
    BY <2>3, <2>6 DEF CloseDone
  <2>7. ASSUME NEW p \in Publishers, PublishEvict(p)
        PROVE  pc'[Reader] = "idle" /\ Current(Reader) \in SetOf(out')
    <3>1. out # <<>> /\ out' = Received /\ pc'[Reader] = Unpark(pc)[Reader]
      BY <1>1, <2>1, <2>7 DEF PublishEvict, Unpark
    <3> QED BY <2>3, <2>4, <3>1
  <2>8. ASSUME NEW p \in Publishers
        PROVE  ~PublishCall(p) /\ ~PublishTry(p) /\ ~PublishRetry(p)
    BY <1>1, <2>1, <2>8
       DEF PublishCall, PublishTry, PublishRetry, Enqueue, SendOnClosed
  <2>9. ~ReaderStep
    BY <1>1
       DEF ReaderStep, SendEnqueue, SendPark, SendDone, SendPanic, Disconnect,
           ReaderGone
  <2>10. ~(LoopWrite \/ LoopWriteError \/ LoopClosed \/ LoopExit \/ CloseOut)
    BY <1>1 DEF LoopWrite, LoopWriteError, LoopClosed, LoopExit, CloseOut
  <2>11. Next
    BY <1>1 DEF vars
  <2> QED
    BY <2>5, <2>6, <2>7, <2>8, <2>9, <2>10, <2>11
       DEF Next, PublishStep, LoopStep, CloseStep
<1> QED BY <1>1, TypeInit, TypeStep, PTL DEF Spec, WaitingSendIsSafe

-----------------------------------------------------------------------------
(* No frame is lost silently.  The four places a frame submitted may be:   *)
(* on the path, in its caller's hands, dropped, or vanished.  Accounted is *)
(* inductive with the order invariant, by which a frame is on the path at  *)
(* most once and not at all while its caller holds it; with the converse,  *)
(* that nothing is dropped or vanishes which was not submitted; and with   *)
(* the count of what can make a frame vanish, each of which happens once.  *)
OnPath == SetOf(wire) \cup SetOf(hand) \cup SetOf(out)

Places(submitted, path, held, lost, gone) ==
    /\ submitted \subseteq path \cup held \cup lost \cup gone
    /\ lost \cap (path \cup held \cup gone) = {}
    /\ gone \cap path = {}
    /\ lost \subseteq submitted /\ gone \subseteq submitted

Causes ==
    (IF loop \in {"close", "drain", "exit"} THEN 1 ELSE 0)
      + (IF pc[Reader] \in {"close", "gone"} THEN 1 ELSE 0)
      + (IF crashed THEN 1 ELSE 0)

AccountInv ==
    /\ OrderInv
    /\ Places(Submitted, OnPath, Held, dropped, vanished)
    /\ ~crashed => vanished \cap Held = {}
    /\ IsFiniteSet(vanished) /\ Cardinality(vanished) <= Causes

(* The frames of a sequence.                                               *)
LEMMA ConcatSet ==
    ASSUME NEW S, NEW s \in Seq(S), NEW t \in Seq(S)
    PROVE  SetOf(s \o t) = SetOf(s) \cup SetOf(t)
<1> DEFINE u == s \o t
<1>1. /\ \A i \in DOMAIN s : i \in DOMAIN u /\ u[i] = s[i]
      /\ \A i \in DOMAIN t : Len(s) + i \in DOMAIN u /\ u[Len(s) + i] = t[i]
      /\ \A i \in DOMAIN u : (i \in DOMAIN s /\ u[i] = s[i])
            \/ (i - Len(s) \in DOMAIN t /\ u[i] = t[i - Len(s)])
  OBVIOUS
<1> HIDE DEF u
<1>2. SetOf(u) = SetOf(s) \cup SetOf(t)
  BY <1>1 DEF SetOf
<1> QED BY <1>2 DEF u

LEMMA AppendSet ==
    ASSUME NEW S, NEW s \in Seq(S), NEW e \in S
    PROVE  SetOf(Append(s, e)) = SetOf(s) \cup {e}
<1>1. /\ \A i \in DOMAIN s : i \in DOMAIN Append(s, e) /\ Append(s, e)[i] = s[i]
      /\ Len(s) + 1 \in DOMAIN Append(s, e) /\ Append(s, e)[Len(s) + 1] = e
      /\ \A i \in DOMAIN Append(s, e) : i \in DOMAIN s \/ i = Len(s) + 1
  OBVIOUS
<1> QED BY <1>1 DEF SetOf

LEMMA HeadTailSet ==
    ASSUME NEW S, NEW s \in Seq(S), s # <<>>
    PROVE  SetOf(s) = {Head(s)} \cup SetOf(Tail(s))
<1> DEFINE t == Tail(s)  h == Head(s)
<1>1. /\ 1 \in DOMAIN s /\ s[1] = h
      /\ \A i \in DOMAIN t : i + 1 \in DOMAIN s /\ t[i] = s[i + 1]
      /\ \A i \in DOMAIN s : i = 1 \/ (i - 1 \in DOMAIN t /\ s[i] = t[i - 1])
  OBVIOUS
<1> HIDE DEF t, h
<1>2. SetOf(s) = {h} \cup SetOf(t)
  BY <1>1 DEF SetOf
<1> QED BY <1>2 DEF t, h

LEMMA PathIsPipeline == ASSUME OrderInv PROVE SetOf(Pipeline) = OnPath
<1>1. wire \o hand \in Seq(Frames)
  BY PathFrames
<1>2. SetOf(wire \o hand) = SetOf(wire) \cup SetOf(hand)
  BY PathFrames, ConcatSet
<1>3. SetOf((wire \o hand) \o out) = SetOf(wire \o hand) \cup SetOf(out)
  BY <1>1, PathFrames, ConcatSet
<1> QED BY <1>2, <1>3 DEF Pipeline, OnPath

(* A newer frame than all of its source's is not among them.               *)
LEMMA NewestAbsent ==
    ASSUME OrderInv, NEW f \in Frames,
           Newest(f, wire), Newest(f, hand), Newest(f, out)
    PROVE  f \notin OnPath
<1>1. f.seq \in Nat
  BY PumpAssumption DEF Frames
<1> QED BY <1>1 DEF Newest, Earlier, OnPath, SetOf

(* The oldest frame of the buffer is nowhere else on the path.             *)
LEMMA HeadAbsent ==
    ASSUME OrderInv, out # <<>>
    PROVE  /\ Head(out) \in Frames /\ Head(out) \in OnPath
           /\ Head(out) \notin SetOf(wire) \cup SetOf(hand) \cup SetOf(Tail(out))
           /\ OnPath = SetOf(wire) \cup SetOf(hand) \cup {Head(out)}
                          \cup SetOf(Tail(out))
<1> DEFINE f == Head(out)
<1>1. f \in Frames /\ f = out[1] /\ 1 \in DOMAIN out
  BY PathFrames, TailFacts
<1>2. f.seq \in Nat
  BY <1>1, PumpAssumption DEF Frames
<1>3. \A i \in DOMAIN wire : Earlier(wire[i], f)
  BY <1>1 DEF OrderInv, Ordered, Precedes
<1>4. \A i \in DOMAIN hand : Earlier(hand[i], f)
  BY <1>1 DEF OrderInv, Ordered, Precedes
<1>5. \A i \in DOMAIN Tail(out) : Earlier(f, Tail(out)[i])
  BY <1>1, PathFrames, TailFacts DEF OrderInv, Ordered, Sorted
<1>6. f \notin SetOf(wire) \cup SetOf(hand) \cup SetOf(Tail(out))
  <2> HIDE DEF f
  <2> QED BY <1>2, <1>3, <1>4, <1>5 DEF SetOf, Earlier
<1>7. SetOf(out) = {f} \cup SetOf(Tail(out))
  BY PathFrames, HeadTailSet
<1> QED BY <1>1, <1>6, <1>7 DEF OnPath

(* A frame in a caller's hands, by its source and number.                  *)
LEMMA HeldFacts ==
    ASSUME TypeInv, NEW f \in Frames
    PROVE  f \in Held <=> Holding(f.src) /\ f.seq = sent[f.src]
<1>1. f.src \in Callers /\ f = [src |-> f.src, seq |-> f.seq]
  BY DEF Frames
<1>2. ASSUME f \in Held PROVE Holding(f.src) /\ f.seq = sent[f.src]
  BY <1>2 DEF Held, Current
<1>3. ASSUME Holding(f.src), f.seq = sent[f.src] PROVE f \in Held
  BY <1>1, <1>3 DEF Held, Current
<1> QED BY <1>2, <1>3

LEMMA HeldSubmitted == ASSUME TypeInv PROVE Held \subseteq Submitted
<1> SUFFICES ASSUME NEW c \in Callers, Holding(c)
             PROVE  Current(c) \in Submitted
  BY DEF Held
<1>1. sent[c] \in Nat
  BY PumpAssumption DEF TypeInv, TypeOK
<1> QED BY <1>1, CurrentFrame DEF Submitted, Current

LEMMA PathSubmitted == ASSUME OrderInv PROVE OnPath \subseteq Submitted
<1>1. \A s : s \in Seq(Frames) /\ Behind(s, sent, pc) => SetOf(s) \subseteq Submitted
  BY DEF SetOf, Behind, Known, Submitted
<1> QED BY <1>1, PathFrames DEF OrderInv, OnPath

(* What a step does to the frames in the callers' hands.                   *)
LEMMA HeldSame ==
    ASSUME sent' = sent, \A c \in Callers : Holding(c)' <=> Holding(c)
    PROVE  Held' = Held /\ Submitted' = Submitted
BY DEF Held, Current, Submitted

LEMMA HeldGone ==
    ASSUME sent' = sent, NEW c \in Callers, Holding(c), ~Holding(c)',
           \A d \in Callers \ {c} : Holding(d)' <=> Holding(d)
    PROVE  Held' = Held \ {Current(c)} /\ Submitted' = Submitted
           /\ Current(c) \in Held
BY DEF Held, Current, Submitted

LEMMA HeldSubmit ==
    ASSUME TypeInv, NEW c \in Callers, ~Holding(c), Upcoming(c) \in Frames,
           sent' = [sent EXCEPT ![c] = @ + 1],
           \A d \in Callers \ {c} : Holding(d)' <=> Holding(d)
    PROVE  /\ Submitted' = Submitted \cup {Upcoming(c)}
           /\ Upcoming(c) \notin Submitted
           /\ ~Holding(c)' => Held' = Held
           /\ Holding(c)' => Held' = Held \cup {Upcoming(c)}
<1>1. sent \in [Callers -> Nat] /\ \A f \in Frames : f.seq \in Nat
  BY PumpAssumption DEF TypeInv, TypeOK, Frames
<1>2. /\ sent'[c] = sent[c] + 1 /\ \A d \in Callers \ {c} : sent'[d] = sent[d]
  BY <1>1
<1>3. Upcoming(c) \notin Submitted
  BY <1>1 DEF Submitted, Upcoming
<1>4. \A f \in Frames :
          f.seq <= sent'[f.src] <=> f.seq <= sent[f.src] \/ f = Upcoming(c)
  BY <1>1, <1>2 DEF Frames, Upcoming
<1>5. Submitted' = Submitted \cup {Upcoming(c)}
  BY <1>4 DEF Submitted
<1>6. \A d \in Callers \ {c} : Current(d)' = Current(d)
  BY <1>2 DEF Current
<1>7. Current(c)' = Upcoming(c)
  BY <1>2 DEF Current, Upcoming
<1> QED BY <1>3, <1>5, <1>6, <1>7 DEF Held

(* What a step does to the frames on the path.                             *)
LEMMA PathGrows ==
    ASSUME OrderInv, UNCHANGED <<wire, hand>>, NEW f \in Frames,
           out' = Append(out, f)
    PROVE  OnPath' = OnPath \cup {f}
BY PathFrames, AppendSet DEF OnPath

LEMMA ReceivedSet ==
    ASSUME OrderInv, out # <<>>
    PROVE  SetOf(Received) = SetOf(Tail(out))
              \cup (IF pc[Reader] = "parked" THEN {Current(Reader)} ELSE {})
<1>1. Tail(out) \in Seq(Frames)
  BY PathFrames, TailFacts
<1>2. ASSUME pc[Reader] = "parked"
      PROVE  SetOf(Received) = SetOf(Tail(out)) \cup {Current(Reader)}
  <2>1. Reader \in Callers /\ Holding(Reader)
    BY <1>2 DEF Callers, Holding
  <2>2. Current(Reader) \in Frames
    BY <2>1, CurrentFrame DEF OrderInv
  <2>3. SetOf(Append(Tail(out), Current(Reader)))
          = SetOf(Tail(out)) \cup {Current(Reader)}
    <3>1. \A t \in Seq(Frames), f \in Frames :
              SetOf(Append(t, f)) = SetOf(t) \cup {f}
      BY AppendSet
    <3> QED BY <1>1, <2>2, <3>1
  <2> QED BY <1>2, <2>3 DEF Received
<1> QED BY <1>2 DEF Received

(* The causes of a silent loss.                                            *)
LEMMA CausesCount ==
    ASSUME AccountInv, \/ vanished' = vanished /\ Causes' >= Causes
                       \/ /\ \E f : vanished' = vanished \cup {f}
                          /\ Causes' >= Causes + 1
    PROVE  IsFiniteSet(vanished') /\ Cardinality(vanished') <= Causes'
<1>1. Causes \in Nat /\ Causes' \in Nat /\ IsFiniteSet(vanished)
      /\ Cardinality(vanished) \in Nat /\ Cardinality(vanished) <= Causes
  BY FS_CardinalityType DEF AccountInv, Causes
<1>2. CASE vanished' = vanished /\ Causes' >= Causes
  BY <1>1, <1>2
<1>3. ASSUME NEW f, vanished' = vanished \cup {f}, Causes' >= Causes + 1
      PROVE  IsFiniteSet(vanished') /\ Cardinality(vanished') <= Causes'
  <2>1. IsFiniteSet(vanished \cup {f})
        /\ Cardinality(vanished \cup {f}) <= Cardinality(vanished) + 1
    <3>1. IsFiniteSet(vanished \cup {f})
          /\ Cardinality(vanished \cup {f}) =
                IF f \in vanished THEN Cardinality(vanished)
                                  ELSE Cardinality(vanished) + 1
      BY <1>1, FS_AddElement
    <3> QED BY <1>1, <3>1
  <2>2. Cardinality(vanished \cup {f}) \in Nat
    BY <2>1, FS_CardinalityType
  <2> QED BY <1>1, <1>3, <2>1, <2>2
<1> QED BY <1>2, <1>3

-----------------------------------------------------------------------------
(* A step that moves no frame.                                             *)
LEMMA AccountQuiet ==
    ASSUME AccountInv, OrderInv', OnPath' = OnPath,
           UNCHANGED <<sent, dropped, vanished, crashed>>,
           \A c \in Callers : Holding(c)' <=> Holding(c), Causes' >= Causes
    PROVE  AccountInv'
BY HeldSame, CausesCount DEF AccountInv

(* A caller submits its next frame, which enters the buffer, stays in its  *)
(* hands, is dropped at once or vanishes.                                  *)
LEMMA AccountSubmit ==
    ASSUME AccountInv, OrderInv', NEW c \in Callers, ~Holding(c),
           sent[c] < MaxFrames, sent' = [sent EXCEPT ![c] = @ + 1],
           \A d \in Callers \ {c} : Holding(d)' <=> Holding(d),
           crashed' = crashed, NEW f, f = Upcoming(c),
           \/ /\ OnPath' = OnPath \cup {f} /\ ~Holding(c)'
              /\ UNCHANGED <<dropped, vanished>> /\ Causes' >= Causes
           \/ /\ OnPath' = OnPath /\ Holding(c)'
              /\ UNCHANGED <<dropped, vanished>> /\ Causes' >= Causes
           \/ /\ OnPath' = OnPath /\ ~Holding(c)'
              /\ dropped' = dropped \cup {f} /\ vanished' = vanished
              /\ Causes' >= Causes
           \/ /\ OnPath' = OnPath /\ ~Holding(c)'
              /\ dropped' = dropped /\ vanished' = vanished \cup {f}
              /\ Causes' >= Causes + 1
    PROVE  AccountInv'
<1>1. TypeInv /\ OrderInv /\ f \in Frames
  BY UpcomingFrame DEF AccountInv, OrderInv
<1>2. /\ Submitted' = Submitted \cup {f} /\ f \notin Submitted
      /\ ~Holding(c)' => Held' = Held
      /\ Holding(c)' => Held' = Held \cup {f}
  BY <1>1, HeldSubmit
<1>3. OnPath \subseteq Submitted /\ Held \subseteq Submitted
  BY <1>1, PathSubmitted, HeldSubmitted
<1>4. Places(Submitted, OnPath, Held, dropped, vanished)'
  BY <1>2, <1>3 DEF AccountInv, Places
<1>5. ~crashed' => vanished' \cap Held' = {}
  BY <1>2, <1>3 DEF AccountInv, Places
<1>6. IsFiniteSet(vanished') /\ Cardinality(vanished') <= Causes'
  BY CausesCount
<1> QED BY <1>4, <1>5, <1>6 DEF AccountInv

(* A frame leaves its caller's hands: it enters the buffer or is dropped.  *)
LEMMA AccountRelease ==
    ASSUME AccountInv, OrderInv', NEW c \in Callers, Holding(c), ~Holding(c)',
           \A d \in Callers \ {c} : Holding(d)' <=> Holding(d),
           UNCHANGED <<sent, vanished, crashed>>, ~crashed, Causes' >= Causes,
           NEW f, f = Current(c),
           \/ OnPath' = OnPath \cup {f} /\ dropped' = dropped
           \/ OnPath' = OnPath /\ dropped' = dropped \cup {f}
    PROVE  AccountInv'
<1>1. TypeInv /\ OrderInv
  BY DEF AccountInv, OrderInv
<1>2. Held' = Held \ {f} /\ Submitted' = Submitted /\ f \in Held
  BY HeldGone
<1>3. f \notin OnPath
  BY <1>1, CurrentFrame, CurrentNewest, NewestAbsent
<1>4. Held \subseteq Submitted
  BY <1>1, HeldSubmitted
<1>5. Places(Submitted, OnPath, Held, dropped, vanished)'
  BY <1>2, <1>3, <1>4 DEF AccountInv, Places
<1>6. IsFiniteSet(vanished') /\ Cardinality(vanished') <= Causes'
  BY CausesCount
<1> QED BY <1>2, <1>5, <1>6 DEF AccountInv

(* A panic on an event goroutine: its frame is lost with the daemon.       *)
LEMMA AccountCrash ==
    ASSUME AccountInv, OrderInv', NEW c \in Callers, Holding(c),
           UNCHANGED <<wire, hand, out, sent, pc, loop, dropped>>, ~crashed,
           crashed', vanished' = vanished \cup {Current(c)}
    PROVE  AccountInv'
<1>1. PICK f : f = Current(c)
  OBVIOUS
<1>2. TypeInv /\ OrderInv
  BY DEF AccountInv, OrderInv
<1>3. f \in Frames /\ f \notin OnPath /\ f \in Held /\ f \in Submitted
  BY <1>1, <1>2, CurrentFrame, CurrentNewest, NewestAbsent, HeldSubmitted
  DEF Held
<1>4. OnPath' = OnPath /\ Held' = Held /\ Submitted' = Submitted
  BY HeldSame DEF OnPath, Holding
<1>5. Places(Submitted, OnPath, Held, dropped, vanished)'
  BY <1>1, <1>3, <1>4 DEF AccountInv, Places
<1>6. Causes' >= Causes + 1
  BY DEF Causes
<1>7. IsFiniteSet(vanished') /\ Cardinality(vanished') <= Causes'
  BY <1>6, CausesCount
<1> QED BY <1>5, <1>7 DEF AccountInv

(* The oldest frame of the buffer is taken by the pump's goroutine or      *)
(* dropped, and the frame of a blocked Send takes a place in the buffer.   *)
LEMMA AccountTake ==
    ASSUME AccountInv, OrderInv', out # <<>>, out' = Received, ~crashed,
           UNCHANGED <<wire, sent, vanished, crashed>>, Causes' >= Causes,
           \A d \in Callers \ {Reader} : Holding(d)' <=> Holding(d),
           ~Holding(Reader)', Holding(Reader) => pc[Reader] = "parked",
           NEW g, g = Head(out),
           \/ hand' = hand /\ dropped' = dropped \cup {g}
           \/ hand = <<>> /\ hand' = <<g>> /\ dropped' = dropped
    PROVE  AccountInv'
<1>1. TypeInv /\ OrderInv /\ Reader \in Callers
  BY DEF AccountInv, OrderInv, Callers
<1> DEFINE rest == SetOf(wire) \cup SetOf(hand) \cup SetOf(Tail(out))
<1>2. g \in OnPath /\ g \notin rest /\ OnPath = rest \cup {g}
  BY <1>1, HeadAbsent
<1>3. SetOf(Received)
        = SetOf(Tail(out)) \cup (IF pc[Reader] = "parked" THEN {Current(Reader)}
                                                           ELSE {})
  BY <1>1, ReceivedSet
<1>4. PICK moved : moved = IF pc[Reader] = "parked" THEN {Current(Reader)} ELSE {}
  OBVIOUS
<1>5. SetOf(<<>>) = {} /\ SetOf(<<g>>) = {g}
  BY DEF SetOf
<1>6. \/ hand' = hand /\ OnPath' = rest \cup moved
      \/ hand' # hand /\ OnPath' = rest \cup {g} \cup moved
  BY <1>3, <1>4, <1>5 DEF OnPath
<1>7. Held' = Held \ moved /\ Submitted' = Submitted /\ moved \subseteq Held
  <2>1. CASE pc[Reader] = "parked"
    BY <1>1, <1>4, <2>1, HeldGone DEF Holding
  <2>2. CASE pc[Reader] # "parked"
    BY <1>1, <1>4, <2>2, HeldSame
  <2> QED BY <2>1, <2>2
<1>8. moved \cap OnPath = {}
  <2>1. CASE pc[Reader] = "parked"
    BY <1>1, <1>4, <2>1, CurrentFrame, CurrentNewest, NewestAbsent DEF Holding
  <2>2. CASE pc[Reader] # "parked"
    BY <1>4, <2>2
  <2> QED BY <2>1, <2>2
<1>9. OnPath \subseteq Submitted /\ Held \subseteq Submitted
  BY <1>1, PathSubmitted, HeldSubmitted
<1>10. Held \cap OnPath = {}
  <2> SUFFICES ASSUME NEW c \in Callers, Holding(c) PROVE Current(c) \notin OnPath
    BY DEF Held
  <2> QED BY <1>1, CurrentFrame, CurrentNewest, NewestAbsent
<1> HIDE DEF rest
<1>11. Places(Submitted, OnPath, Held, dropped, vanished)'
  <2>1. CASE hand' = hand /\ dropped' = dropped \cup {g}
    <3>1. OnPath' = rest \cup moved
      BY <1>6, <2>1
    <3> QED BY <1>2, <1>7, <1>8, <1>9, <1>10, <2>1, <3>1 DEF AccountInv, Places
  <2>2. CASE hand = <<>> /\ hand' = <<g>> /\ dropped' = dropped
    <3>1. OnPath' = rest \cup {g} \cup moved
      BY <1>6, <2>2
    <3> QED BY <1>2, <1>7, <1>8, <1>9, <2>2, <3>1 DEF AccountInv, Places
  <2> QED BY <2>1, <2>2
<1>12. IsFiniteSet(vanished') /\ Cardinality(vanished') <= Causes'
  BY CausesCount
<1> QED BY <1>7, <1>11, <1>12 DEF AccountInv

LEMMA AccountInit == Init => AccountInv
<1> SUFFICES ASSUME Init PROVE AccountInv
  OBVIOUS
<1>1. OnPath = {} /\ dropped = {} /\ vanished = {} /\ ~crashed
  BY DEF Init, OnPath, SetOf
<1>2. Submitted = {} /\ Held = {}
  <2>1. \A f \in Frames : f.src \in Callers /\ f.seq \in Nat \ {0}
    BY PumpAssumption DEF Frames
  <2>2. Submitted = {}
    BY <2>1 DEF Submitted, Init
  <2> QED BY <2>2 DEF Held, Holding, Init
<1>3. Places(Submitted, OnPath, Held, dropped, vanished)
  BY <1>1, <1>2 DEF Places
<1>4. IsFiniteSet(vanished) /\ Cardinality(vanished) <= Causes
  <2>1. Causes \in Nat
    BY DEF Causes
  <2>2. IsFiniteSet({}) /\ Cardinality({}) = 0
    BY FS_EmptySet
  <2> QED BY <1>1, <2>1, <2>2
<1> QED BY <1>1, <1>2, <1>3, <1>4, OrderInit DEF AccountInv

(* The control points, as the steps below need them.                       *)
LEMMA Controls ==
    ASSUME TypeInv
    PROVE  /\ Reader \in Callers /\ Publishers \subseteq Callers
           /\ Reader \notin Publishers
           /\ pc \in [Callers -> {"idle", "try", "evict", "retry", "parked",
                                  "close", "gone"}]
           /\ pc[Reader] \in {"idle", "parked", "close", "gone"}
           /\ loop \in {"recv", "write", "close", "drain", "exit"}
BY PumpAssumption DEF TypeInv, TypeOK, Callers

LEMMA UnparkHolds ==
    ASSUME TypeInv, pc' = Unpark(pc)
    PROVE  /\ ~Holding(Reader)' /\ (Holding(Reader) => pc[Reader] = "parked")
           /\ \A d \in Callers \ {Reader} : Holding(d)' <=> Holding(d)
           /\ pc'[Reader] \in {"close", "gone"} <=> pc[Reader] \in {"close", "gone"}
BY Controls DEF Unpark, Holding

(* The steps of the read loop.                                             *)
LEMMA AccountReader ==
    ASSUME AccountInv, OrderInv', ReaderStep, ~crashed
    PROVE  AccountInv'
<1>a. OrderInv /\ TypeInv
  BY DEF AccountInv, OrderInv
<1>b. PICK f : f = Upcoming(Reader)
  OBVIOUS
<1>1. CASE SendEnqueue
  <2>1. /\ pc[Reader] = "idle" /\ sent[Reader] < MaxFrames
        /\ sent' = [sent EXCEPT ![Reader] = @ + 1] /\ out' = Append(out, f)
        /\ UNCHANGED <<loop, hand, pc, wire, dropped, vanished, crashed>>
    BY <1>1, <1>b DEF SendEnqueue, Submit
  <2>2. \A d \in Callers : Holding(d)' <=> Holding(d)
    BY <2>1 DEF Holding
  <2>3. f \in Frames /\ ~Holding(Reader)
    BY <1>a, <1>b, <2>1, Controls, UpcomingFrame DEF Holding
  <2>4. OnPath' = OnPath \cup {f}
    BY <1>a, <2>1, <2>3, PathGrows
  <2>5. Causes' >= Causes
    BY <2>1 DEF Causes
  <2> QED BY <1>a, <1>b, <2>1, <2>2, <2>3, <2>4, <2>5, Controls, AccountSubmit
<1>2. CASE SendPark
  <2>1. /\ pc[Reader] = "idle" /\ sent[Reader] < MaxFrames
        /\ sent' = [sent EXCEPT ![Reader] = @ + 1]
        /\ pc' = [pc EXCEPT ![Reader] = "parked"]
        /\ UNCHANGED <<loop, hand, out, wire, dropped, vanished, crashed>>
    BY <1>2 DEF SendPark, Submit
  <2>2. /\ ~Holding(Reader) /\ Holding(Reader)'
        /\ \A d \in Callers \ {Reader} : Holding(d)' <=> Holding(d)
    BY <1>a, <2>1, Controls DEF Holding
  <2>3. OnPath' = OnPath /\ Causes' >= Causes
    BY <1>a, <2>1, Controls DEF OnPath, Causes
  <2> QED BY <1>a, <1>b, <2>1, <2>2, <2>3, Controls, AccountSubmit
<1>3. CASE SendDone
  <2>1. /\ pc[Reader] = "idle" /\ sent[Reader] < MaxFrames
        /\ sent' = [sent EXCEPT ![Reader] = @ + 1] /\ dropped' = dropped \cup {f}
        /\ UNCHANGED <<loop, hand, pc, out, wire, vanished, crashed>>
    BY <1>3, <1>b DEF SendDone, Submit
  <2>2. ~Holding(Reader) /\ \A d \in Callers : Holding(d)' <=> Holding(d)
    BY <2>1 DEF Holding
  <2>3. OnPath' = OnPath /\ Causes' >= Causes
    BY <2>1 DEF OnPath, Causes
  <2> QED BY <1>a, <1>b, <2>1, <2>2, <2>3, Controls, AccountSubmit
<1>4. CASE SendPanic
  <2>1. /\ pc[Reader] = "idle" /\ sent[Reader] < MaxFrames
        /\ sent' = [sent EXCEPT ![Reader] = @ + 1]
        /\ vanished' = vanished \cup {f} /\ pc' = [pc EXCEPT ![Reader] = "close"]
        /\ UNCHANGED <<loop, hand, out, wire, dropped, crashed>>
    BY <1>4, <1>b DEF SendPanic, Submit
  <2>2. /\ ~Holding(Reader) /\ ~Holding(Reader)'
        /\ \A d \in Callers \ {Reader} : Holding(d)' <=> Holding(d)
    BY <1>a, <2>1, Controls DEF Holding
  <2>3. OnPath' = OnPath /\ Causes' >= Causes + 1
    BY <1>a, <2>1, Controls DEF OnPath, Causes
  <2> QED BY <1>a, <1>b, <2>1, <2>2, <2>3, Controls, AccountSubmit
<1>5. CASE Disconnect \/ ReaderGone
  <2>1. /\ UNCHANGED <<loop, hand, out, wire, sent, dropped, vanished, crashed>>
        /\ \/ pc[Reader] = "idle" /\ pc' = [pc EXCEPT ![Reader] = "close"]
           \/ pc[Reader] = "close" /\ pc' = [pc EXCEPT ![Reader] = "gone"]
    BY <1>5 DEF Disconnect, ReaderGone
  <2>2. \A d \in Callers : Holding(d)' <=> Holding(d)
    BY <1>a, <2>1, Controls DEF Holding
  <2>3. OnPath' = OnPath /\ Causes' >= Causes
    BY <1>a, <2>1, Controls DEF OnPath, Causes
  <2> QED BY <2>1, <2>2, <2>3, AccountQuiet
<1> QED BY <1>1, <1>2, <1>3, <1>4, <1>5 DEF ReaderStep

(* The steps of an event goroutine.                                        *)
LEMMA AccountPublish ==
    ASSUME AccountInv, OrderInv', NEW p \in Publishers, ~crashed,
           PublishCall(p) \/ PublishStep(p)
    PROVE  AccountInv'
<1>a. OrderInv /\ TypeInv
  BY DEF AccountInv, OrderInv
<1>b. p \in Callers /\ p # Reader
  BY <1>a, Controls
<1>1. CASE PublishCall(p)
  <2>1. PICK f : f = Upcoming(p)
    OBVIOUS
  <2>2. /\ pc[p] = "idle" /\ sent[p] < MaxFrames
        /\ sent' = [sent EXCEPT ![p] = @ + 1]
        /\ UNCHANGED <<loop, hand, out, wire, vanished, crashed>>
        /\ \/ pc' = [pc EXCEPT ![p] = "try"] /\ dropped' = dropped
           \/ pc' = pc /\ dropped' = dropped \cup {f}
    BY <1>1, <2>1 DEF PublishCall, Submit, Refuse
  <2>3. /\ ~Holding(p) /\ \A d \in Callers \ {p} : Holding(d)' <=> Holding(d)
        /\ \/ Holding(p)' /\ dropped' = dropped
           \/ ~Holding(p)' /\ dropped' = dropped \cup {f}
    BY <1>a, <1>b, <2>2, Controls DEF Holding
  <2>4. OnPath' = OnPath /\ Causes' >= Causes
    BY <1>a, <1>b, <2>2, Controls DEF OnPath, Causes
  <2> QED BY <1>b, <2>1, <2>2, <2>3, <2>4, AccountSubmit
<1>2. CASE pc[p] \in {"try", "retry"} /\ Enqueue(p)
  <2>1. PICK f : f = Current(p)
    OBVIOUS
  <2>2. /\ out' = Append(out, f) /\ pc' = [pc EXCEPT ![p] = "idle"]
        /\ UNCHANGED <<loop, hand, sent, wire, dropped, vanished, crashed>>
    BY <1>2, <2>1 DEF Enqueue
  <2>3. /\ Holding(p) /\ ~Holding(p)'
        /\ \A d \in Callers \ {p} : Holding(d)' <=> Holding(d)
    BY <1>a, <1>b, <1>2, <2>2, Controls DEF Holding
  <2>4. f \in Frames
    BY <1>a, <1>b, <2>1, <2>3, CurrentFrame
  <2>5. OnPath' = OnPath \cup {f}
    BY <1>a, <2>2, <2>4, PathGrows
  <2>6. Causes' >= Causes
    BY <1>a, <1>b, <2>2, Controls DEF Causes
  <2> QED BY <1>b, <2>1, <2>2, <2>3, <2>5, <2>6, AccountRelease
<1>3. CASE pc[p] \in {"try", "retry"} /\ SendOnClosed(p)
  BY <1>b, <1>3, AccountCrash DEF SendOnClosed, Panic, Holding
<1>4. CASE pc[p] = "try" /\ pc' = [pc EXCEPT ![p] = "evict"]
           /\ UNCHANGED <<out, loop, hand, sent, wire, dropped, vanished, crashed>>
  <2>1. \A d \in Callers : Holding(d)' <=> Holding(d)
    BY <1>a, <1>b, <1>4, Controls DEF Holding
  <2>2. OnPath' = OnPath /\ Causes' >= Causes
    BY <1>a, <1>b, <1>4, Controls DEF OnPath, Causes
  <2> QED BY <1>4, <2>1, <2>2, AccountQuiet
<1>5. CASE PublishEvict(p) /\ out = <<>>
  <2>1. pc[p] = "evict" /\ pc' = [pc EXCEPT ![p] = "retry"]
        /\ UNCHANGED <<out, loop, hand, sent, wire, dropped, vanished, crashed>>
    BY <1>5 DEF PublishEvict
  <2>2. \A d \in Callers : Holding(d)' <=> Holding(d)
    BY <1>a, <1>b, <2>1, Controls DEF Holding
  <2>3. OnPath' = OnPath /\ Causes' >= Causes
    BY <1>a, <1>b, <2>1, Controls DEF OnPath, Causes
  <2> QED BY <2>1, <2>2, <2>3, AccountQuiet
<1>6. CASE PublishEvict(p) /\ out # <<>>
  <2>1. PICK g : g = Head(out)
    OBVIOUS
  <2>2. /\ pc[p] = "evict" /\ pc' = [Unpark(pc) EXCEPT ![p] = "retry"]
        /\ dropped' = dropped \cup {g} /\ out' = Received
        /\ UNCHANGED <<loop, hand, sent, wire, vanished, crashed>>
    BY <1>6, <2>1 DEF PublishEvict
  <2>3. /\ ~Holding(Reader)' /\ (Holding(Reader) => pc[Reader] = "parked")
        /\ \A d \in Callers \ {Reader} : Holding(d)' <=> Holding(d)
        /\ pc'[Reader] \in {"close", "gone"} <=> pc[Reader] \in {"close", "gone"}
    BY <1>a, <1>b, <2>2, Controls DEF Unpark, Holding
  <2>4. Causes' >= Causes
    BY <2>2, <2>3 DEF Causes
  <2> QED BY <1>6, <2>1, <2>2, <2>3, <2>4, AccountTake
<1>7. CASE pc[p] = "retry" /\ Refuse(Current(p)) /\ pc' = [pc EXCEPT ![p] = "idle"]
           /\ UNCHANGED <<out, loop, hand, sent, wire, vanished, crashed>>
  <2>1. PICK f : f = Current(p)
    OBVIOUS
  <2>2. dropped' = dropped \cup {f}
    BY <1>7, <2>1 DEF Refuse
  <2>3. /\ Holding(p) /\ ~Holding(p)'
        /\ \A d \in Callers \ {p} : Holding(d)' <=> Holding(d)
    BY <1>a, <1>b, <1>7, Controls DEF Holding
  <2>4. OnPath' = OnPath /\ Causes' >= Causes
    BY <1>a, <1>b, <1>7, Controls DEF OnPath, Causes
  <2> QED BY <1>b, <1>7, <2>1, <2>2, <2>3, <2>4, AccountRelease
<1> QED
  BY <1>1, <1>2, <1>3, <1>4, <1>5, <1>6, <1>7
  DEF PublishStep, PublishTry, PublishRetry, PublishEvict

(* The steps of the pump's own goroutine, and of close.                    *)
LEMMA AccountLoop ==
    ASSUME AccountInv, OrderInv', LoopStep \/ CloseStep, ~crashed
    PROVE  AccountInv'
<1>a. OrderInv /\ TypeInv
  BY DEF AccountInv, OrderInv
<1>1. CASE LoopReceive
  <2>1. PICK g : g = Head(out)
    OBVIOUS
  <2>2. /\ out # <<>> /\ out' = Received /\ hand' = <<g>> /\ pc' = Unpark(pc)
        /\ loop = "recv" /\ loop' = "write" /\ hand = <<>>
        /\ UNCHANGED <<sent, wire, dropped, vanished, crashed>>
    BY <1>a, <1>1, <2>1 DEF LoopReceive, TypeInv, TypeOK
  <2>3. Causes' >= Causes
    BY <1>a, <2>2, UnparkHolds DEF Causes
  <2> QED BY <1>a, <2>1, <2>2, <2>3, UnparkHolds, AccountTake
<1>2. CASE LoopDrain
  <2>1. PICK g : g = Head(out)
    OBVIOUS
  <2>2. /\ out # <<>> /\ out' = Received /\ pc' = Unpark(pc)
        /\ dropped' = dropped \cup {g}
        /\ UNCHANGED <<loop, hand, sent, wire, vanished, crashed>>
    BY <1>2, <2>1 DEF LoopDrain
  <2>3. Causes' >= Causes
    BY <1>a, <2>2, UnparkHolds DEF Causes
  <2> QED BY <1>a, <2>1, <2>2, <2>3, UnparkHolds, AccountTake
<1>3. CASE LoopWrite
  <2>1. /\ wire' = wire \o hand /\ hand' = <<>> /\ loop = "write" /\ loop' = "recv"
        /\ UNCHANGED <<out, pc, sent, dropped, vanished, crashed>>
    BY <1>3 DEF LoopWrite
  <2>2. SetOf(wire \o hand) = SetOf(wire) \cup SetOf(hand)
    BY <1>a, PathFrames, ConcatSet
  <2>3. OnPath' = OnPath
    <3>1. SetOf(<<>>) = {}
      BY DEF SetOf
    <3> QED BY <2>1, <2>2, <3>1 DEF OnPath
  <2>4. Causes' >= Causes /\ \A d \in Callers : Holding(d)' <=> Holding(d)
    BY <2>1 DEF Causes, Holding
  <2> QED BY <2>1, <2>3, <2>4, AccountQuiet
<1>4. CASE LoopWriteError
  <2>1. PICK g : g = hand[1]
    OBVIOUS
  <2>2. /\ vanished' = vanished \cup {g} /\ hand' = <<>>
        /\ loop = "write" /\ loop' = "close"
        /\ UNCHANGED <<out, pc, sent, wire, dropped, crashed>>
    BY <1>4, <2>1 DEF LoopWriteError
  <2>3. DOMAIN hand = {1}
    BY <1>a, <2>2 DEF TypeInv, TypeOK
  <2>4. g \in Frames /\ SetOf(hand) = {g} /\ SetOf(<<>>) = {}
    <3>1. g \in Frames
      <4>1. \A S : \A s \in Seq(S) : \A i \in DOMAIN s : s[i] \in S
        OBVIOUS
      <4>2. 1 \in DOMAIN hand /\ hand \in Seq(Frames)
        BY <1>a, <2>3, PathFrames
      <4> QED BY <2>1, <4>1, <4>2
    <3>2. SetOf(hand) = {g}
      BY <2>1, <2>3 DEF SetOf
    <3> QED BY <3>1, <3>2 DEF SetOf
  <2>5. g.seq \in Nat
    BY <2>4, PumpAssumption DEF Frames
  <2>6. g \notin SetOf(wire) \cup SetOf(out)
    BY <1>a, <2>1, <2>3, <2>5
    DEF SetOf, OrderInv, Ordered, Precedes, Earlier
  <2>7. OnPath' = SetOf(wire) \cup SetOf(out)
        /\ OnPath = SetOf(wire) \cup {g} \cup SetOf(out)
    BY <2>2, <2>4 DEF OnPath
  <2>8. Held' = Held /\ Submitted' = Submitted
    BY <2>2, HeldSame DEF Holding
  <2>9. g \in Submitted /\ g \notin Held
    <3>1. OnPath \subseteq Submitted
      BY <1>a, PathSubmitted
    <3>2. ASSUME NEW c \in Callers, Holding(c) PROVE Current(c) \notin OnPath
      BY <1>a, <3>2, CurrentFrame, CurrentNewest, NewestAbsent
    <3> QED BY <2>7, <3>1, <3>2 DEF Held
  <2>10. Places(Submitted, OnPath, Held, dropped, vanished)'
    BY <2>2, <2>6, <2>7, <2>8, <2>9 DEF AccountInv, Places
  <2>11. Causes' >= Causes + 1
    BY <2>2 DEF Causes
  <2>12. IsFiniteSet(vanished') /\ Cardinality(vanished') <= Causes'
    BY <2>2, <2>11, CausesCount
  <2> QED BY <2>2, <2>8, <2>9, <2>10, <2>12 DEF AccountInv
<1>5. CASE LoopClosed \/ LoopExit \/ CloseOut
  <2>1. /\ UNCHANGED <<out, hand, pc, sent, wire, dropped, vanished, crashed>>
        /\ loop' = loop \/ loop' \in {"drain", "exit"}
    BY <1>5 DEF LoopClosed, LoopExit, CloseOut
  <2>2. OnPath' = OnPath /\ \A d \in Callers : Holding(d)' <=> Holding(d)
    BY <2>1 DEF OnPath, Holding
  <2>3. Causes' >= Causes
    BY <2>1 DEF Causes
  <2> QED BY <2>1, <2>2, <2>3, AccountQuiet
<1>6. CASE CloseDone
  <2>1. PICK f : f = Current(Reader)
    OBVIOUS
  <2>2. /\ pc' = Unpark(pc)
        /\ UNCHANGED <<out, loop, hand, sent, wire, vanished, crashed>>
        /\ dropped' = IF pc[Reader] = "parked" THEN dropped \cup {f} ELSE dropped
    BY <1>6, <2>1 DEF CloseDone
  <2>3. OnPath' = OnPath
    BY <2>2 DEF OnPath
  <2>4. Causes' >= Causes
    BY <1>a, <2>2, UnparkHolds DEF Causes
  <2>5. CASE pc[Reader] = "parked"
    <3>1. Reader \in Callers /\ Holding(Reader)
      BY <1>a, <2>5, Controls DEF Holding
    <3> QED BY <1>a, <2>1, <2>2, <2>3, <2>4, <2>5, <3>1, UnparkHolds,
               AccountRelease
  <2>6. CASE pc[Reader] # "parked"
    <3>1. \A d \in Callers : Holding(d)' <=> Holding(d)
      BY <1>a, <2>2, <2>6, UnparkHolds
    <3> QED BY <2>2, <2>3, <2>4, <2>6, <3>1, AccountQuiet
  <2> QED BY <2>5, <2>6
<1> QED
  BY <1>1, <1>2, <1>3, <1>4, <1>5, <1>6 DEF LoopStep, CloseStep

LEMMA AccountStep == AccountInv /\ [Next]_vars => AccountInv'
<1> SUFFICES ASSUME AccountInv, [Next]_vars PROVE AccountInv'
  OBVIOUS
<1>1. OrderInv'
  BY OrderStep DEF AccountInv
<1>2. CASE UNCHANGED vars
  <2>1. /\ UNCHANGED <<wire, hand, out, sent, pc, loop>>
        /\ UNCHANGED <<dropped, vanished, crashed>>
    BY <1>2 DEF vars
  <2>2. OnPath' = OnPath /\ \A d \in Callers : Holding(d)' <=> Holding(d)
    BY <2>1 DEF OnPath, Holding
  <2>3. Causes' >= Causes
    BY <2>1 DEF Causes
  <2> QED BY <1>1, <2>1, <2>2, <2>3, AccountQuiet
<1>3. CASE Next
  BY <1>1, <1>3, AccountReader, AccountPublish, AccountLoop DEF Next
<1> QED BY <1>2, <1>3

LEMMA AccountInvAccounted == AccountInv => Accounted
<1> SUFFICES ASSUME AccountInv PROVE Accounted
  OBVIOUS
<1>1. SetOf(Pipeline) = OnPath
  BY PathIsPipeline DEF AccountInv
<1>2. Cardinality(vanished) <= 3
  <2>1. Cardinality(vanished) \in Nat /\ Causes \in Nat /\ Causes <= 3
    BY FS_CardinalityType DEF AccountInv, Causes
  <2> QED BY <2>1 DEF AccountInv
<1> QED BY <1>1, <1>2 DEF AccountInv, Places, Accounted

(* However many goroutines submit frames and whatever is evicted, refused  *)
(* or drained, a frame is written, under way, or reported to dropFn, and   *)
(* never two of these: at most the three of the failed write, the read     *)
(* loop's panic and the daemon's crash are lost without a word.            *)
THEOREM FramesAccounted == Spec => []Accounted
<1> QED BY AccountInit, AccountStep, AccountInvAccounted, PTL DEF Spec
=============================================================================
