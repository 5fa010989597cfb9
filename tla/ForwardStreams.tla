-------------------------- MODULE ForwardStreams ---------------------------
(***************************************************************************)
(* Proofs about module Forward, third part: what keeps the stream of       *)
(* chunks from one end of a tunnel to the other in order, the tasks that   *)
(* read and write locally, and accepted connections.                       *)
(***************************************************************************)
EXTENDS ForwardTables

\* Most leaves are first-order; those that need more cite SMT.
USE ZenonT(20)

-----------------------------------------------------------------------------
(* One stream. *)

\* m is who it was, and may have read more.
SenderStays(m) ==
    /\ m \in DOMAIN conns' /\ conns'[m].end = conns[m].end /\ conns'[m].role = conns[m].role
    /\ conns'[m].id = conns[m].id /\ conns'[m].mate = conns[m].mate /\ Sid(m)' = Sid(m)
    /\ conns[m].read \in Nat /\ conns'[m].read \in Nat /\ conns'[m].read >= conns[m].read
    /\ conns[m].reader = "eof" => conns'[m].reader = "eof" /\ conns'[m].read = conns[m].read
    /\ conns[m].reader # "none" => conns'[m].reader # "none"

\* The frames of m move up by k and its events by q; the first ones may be
\* gone, and there may be new ones.
Moves(m, k, q) ==
    /\ \A i \in Nat : FrameOf(m, i + k) /\ i # 0 => FrameOf(m, i)' /\ Fr(m, i)' = Fr(m, i + k)
    /\ \A i \in Nat : FrameOf(m, i)' => i # 0
    /\ \A j \in Nat : EventOf(m, j + q) /\ j # 0 => EventOf(m, j)' /\ Ev(m, j)' = Ev(m, j + q)
    /\ \A j \in Nat : EventOf(m, j)' => j # 0

NoNewFrames(m, k) == \A i \in Nat : FrameOf(m, i)' => FrameOf(m, i + k)
NoNewEvents(m, q) == \A j \in Nat : EventOf(m, j)' => EventOf(m, j + q)

\* The frames and the events of m as the queues of its end move.
LEMMA MovesFacts ==
  ASSUME Typed, Typed', NEW m, NEW e \in Ends, conns[m].end = e, conns'[m].end = e,
         NEW k \in Nat, NEW q \in Nat,
         Shifts(link[e], link'[e], k), Shifts(events[e], events'[e], q)
  PROVE  Moves(m, k, q)
<1>1. PICK x \in Seq(PeerFrame), y \in Seq(PeerFrame) : x = link[e] /\ y = link'[e]
  BY DEF Typed
<1>2. PICK v \in Seq(LocalEvent), w \in Seq(LocalEvent) : v = events[e] /\ w = events'[e]
  BY DEF Typed
<1>3. Shifts(x, y, k) /\ Shifts(v, w, q)
  BY <1>1, <1>2
<1>4. \A i \in DOMAIN y : i # 0
  BY SMTT(20)
<1>5. \A i \in DOMAIN w : i # 0
  BY SMTT(20)
<1>6. ASSUME NEW i \in Nat, i + k \in DOMAIN x, i # 0
      PROVE  i \in DOMAIN y /\ y[i] = x[i + k]
  <2>1. PICK n \in DOMAIN x : n = i + k /\ n > k /\ n - k = i
    BY <1>6, SMTT(20)
  <2>. QED
    BY <1>3, <2>1 DEF Shifts
<1>7. ASSUME NEW i \in Nat, i + q \in DOMAIN v, i # 0
      PROVE  i \in DOMAIN w /\ w[i] = v[i + q]
  <2>1. PICK n \in DOMAIN v : n = i + q /\ n > q /\ n - q = i
    BY <1>7, SMTT(20)
  <2>. QED
    BY <1>3, <2>1 DEF Shifts
<1>8. ASSUME NEW i \in Nat, FrameOf(m, i + k), i # 0
      PROVE  FrameOf(m, i)' /\ Fr(m, i)' = Fr(m, i + k)
  <2>1. i + k \in DOMAIN x /\ FrameItem(x[i + k]) /\ Owner(x[i + k]) = m
    BY <1>1, <1>8 DEF FrameOf, Fr
  <2>2. i \in DOMAIN y /\ y[i] = x[i + k]
    BY <1>6, <1>8, <2>1
  <2>. QED
    BY <1>1, <2>1, <2>2 DEF FrameOf, Fr, Owner, FrameItem
<1>9. ASSUME NEW i \in Nat, EventOf(m, i + q), i # 0
      PROVE  EventOf(m, i)' /\ Ev(m, i)' = Ev(m, i + q)
  <2>1. i + q \in DOMAIN v /\ EventItem(v[i + q]) /\ Owner(v[i + q]) = m
    BY <1>2, <1>9 DEF EventOf, Ev
  <2>2. i \in DOMAIN w /\ w[i] = v[i + q]
    BY <1>7, <1>9, <2>1
  <2>. QED
    BY <1>2, <2>1, <2>2 DEF EventOf, Ev, Owner, EventItem
<1>10. \A i \in Nat : (FrameOf(m, i)' => i # 0) /\ (EventOf(m, i)' => i # 0)
  BY <1>1, <1>2, <1>4, <1>5 DEF FrameOf, EventOf
<1>. QED
  BY <1>8, <1>9, <1>10 DEF Moves

\* An item that is not new is where it was, but for what is gone ahead of it.
LEMMA OldFrame ==
  ASSUME NEW m, NEW k \in Nat, NEW q \in Nat, Moves(m, k, q), NoNewFrames(m, k), NEW i \in Nat, FrameOf(m, i)'
  PROVE  i + k \in Nat /\ FrameOf(m, i + k) /\ Fr(m, i)' = Fr(m, i + k)
<1>1. i + k \in Nat /\ FrameOf(m, i + k) /\ i # 0
  BY SMTT(20) DEF NoNewFrames, Moves
<1>. QED
  BY <1>1 DEF Moves

\* An event found after the step was there before it.
LEMMA OldEvent ==
  ASSUME NEW m, NEW k \in Nat, NEW q \in Nat, Moves(m, k, q), NoNewEvents(m, q), NEW j \in Nat, EventOf(m, j)'
  PROVE  j + q \in Nat /\ EventOf(m, j + q) /\ Ev(m, j)' = Ev(m, j + q)
<1>1. j + q \in Nat /\ EventOf(m, j + q) /\ j # 0
  BY SMTT(20) DEF NoNewEvents, Moves
<1>. QED
  BY <1>1 DEF Moves

\* A frame behind those taken is still there.
LEMMA KeptFrame ==
  ASSUME NEW m, NEW k \in Nat, NEW q \in Nat, Moves(m, k, q), NEW i \in Nat, FrameOf(m, i), i > k
  PROVE  \E l \in Nat : l + k = i /\ FrameOf(m, l)' /\ Fr(m, l)' = Fr(m, i)
<1>1. PICK l \in Nat : l + k = i /\ l # 0
  <2>1. i - k \in Nat /\ (i - k) + k = i /\ i - k # 0
    BY SMTT(20)
  <2>. QED
    BY <2>1
<1>. QED
  BY <1>1 DEF Moves

\* An event behind those taken is still there.
LEMMA KeptEvent ==
  ASSUME NEW m, NEW k \in Nat, NEW q \in Nat, Moves(m, k, q), NEW j \in Nat, EventOf(m, j), j > q
  PROVE  \E l \in Nat : l + q = j /\ EventOf(m, l)' /\ Ev(m, l)' = Ev(m, j)
<1>1. PICK l \in Nat : l + q = j /\ l # 0
  <2>1. j - q \in Nat /\ (j - q) + q = j /\ j - q # 0
    BY SMTT(20)
  <2>. QED
    BY <2>1
<1>. QED
  BY <1>1 DEF Moves

\* An item stays one.
LEMMA ItemKeeps ==
  ASSUME NEW m, SenderStays(m), NEW x, NEW ends, ItemOK(m, x, ends)
  PROVE  /\ Num(x) \in Nat \ {0} /\ x.chunk = <<m, Num(x)>> /\ conns'[m].reader # "none"
         /\ IF ends THEN conns'[m].reader = "eof" /\ Num(x) = conns'[m].read + 1
            ELSE Num(x) <= conns'[m].read
<1>1. conns[m].read \in Nat /\ conns'[m].read \in Nat /\ conns'[m].read >= conns[m].read
  BY DEF SenderStays
<1>2. Num(x) \in Nat /\ (Num(x) <= conns[m].read => Num(x) <= conns'[m].read)
  BY <1>1, SMTT(20) DEF ItemOK
<1>. QED
  BY <1>2 DEF ItemOK, SenderStays

\* Events keep their order.
LEMMA EventsKeep ==
  ASSUME NEW m, SenderStays(m), NEW k \in Nat, NEW q \in Nat, Moves(m, k, q), NoNewEvents(m, q), EventsOK(m)
  PROVE  EventsOK(m)'
<1>1. ASSUME NEW j \in Nat, EventOf(m, j)'
      PROVE  j + q \in Nat /\ EventOf(m, j + q) /\ Ev(m, j)' = Ev(m, j + q)
  BY <1>1, OldEvent
<1>2. ASSUME NEW j \in Nat, EventOf(m, j)'
      PROVE  /\ ItemOK(m, Ev(m, j), Ev(m, j).k # "read")'
             /\ Ev(m, j)'.id = conns'[m].id
             /\ \A l \in Nat : EventOf(m, l)' /\ l > j => Num(Ev(m, l))' > Num(Ev(m, j))'
  <2>1. PICK x : x = Ev(m, j)' /\ x = Ev(m, j + q) /\ j + q \in Nat /\ EventOf(m, j + q)
    BY <1>1, <1>2
  <2>2. /\ ItemOK(m, x, x.k # "read") /\ x.id = conns[m].id
        /\ \A l \in Nat : EventOf(m, l) /\ l > j + q => Num(Ev(m, l)) > Num(x)
    BY <2>1 DEF EventsOK
  <2>3. ItemOK(m, x, x.k # "read")'
    BY <2>2, ItemKeeps DEF ItemOK, Num
  <2>4. ASSUME NEW l \in Nat, EventOf(m, l)', l > j
        PROVE  Num(Ev(m, l))' > Num(x)
    <3>1. l + q \in Nat /\ EventOf(m, l + q) /\ Ev(m, l)' = Ev(m, l + q) /\ l + q > j + q
      BY <1>1, <2>4, SMTT(20)
    <3>. QED
      BY <2>2, <3>1 DEF Num
  <2>. QED
    BY <2>1, <2>2, <2>3, <2>4 DEF Num, ItemOK, SenderStays
<1>. QED
  BY <1>2 DEF EventsOK

\* The answer that opened m's tunnel is still ahead of m's frames, if the mate
\* has not had it.
Answered(m, k) ==
    conns'[conns[m].mate].reader = "none" =>
        /\ conns[conns[m].mate].reader = "none"
        /\ \A j \in Nat : Asks(conns[m].end, j, "RESPONSE", conns[conns[m].mate].id) =>
              \E l \in Nat : l + k = j /\ Asks(conns[m].end, l, "RESPONSE", conns[conns[m].mate].id)'

\* What is new among m's events is behind everything m had read.
NewEventsLater(m, q) ==
    \A j \in Nat : EventOf(m, j)' =>
        EventOf(m, j + q) \/ (conns[m].reader # "eof" /\ Num(Ev(m, j))' > conns[m].read)

\* Frames keep their order, and stay ahead of what waits.
LEMMA FramesKeep ==
  ASSUME NEW m, SenderStays(m), NEW k \in Nat, NEW q \in Nat, Moves(m, k, q), NoNewFrames(m, k),
         NewEventsLater(m, q), Answered(m, k), EventsOK(m)', FramesOK(m)
  PROVE  FramesOK(m)'
<1>1. ASSUME NEW i \in Nat, FrameOf(m, i)'
      PROVE  i + k \in Nat /\ FrameOf(m, i + k) /\ Fr(m, i)' = Fr(m, i + k)
  BY <1>1, OldFrame
<1>2. ASSUME NEW i \in Nat, FrameOf(m, i)'
      PROVE  /\ ItemOK(m, Fr(m, i), Fr(m, i).h # "DATA")'
             /\ Fr(m, i)'.sid = Sid(m)' /\ Fr(m, i)'.s2d = (conns'[m].role = "source")
             /\ conns'[conns'[m].mate].reader = "none" =>
                   \E j \in Nat : j < i /\ Asks(conns[m].end, j, "RESPONSE", conns[conns[m].mate].id)'
             /\ \A l \in Nat : FrameOf(m, l)' /\ l > i =>
                   /\ Num(Fr(m, l))' >= Num(Fr(m, i))'
                   /\ Fr(m, i)'.h = "DATA" => Num(Fr(m, l))' # Num(Fr(m, i))'
             /\ \A j \in Nat : EventOf(m, j)' => Num(Ev(m, j))' > Num(Fr(m, i))'
  <2>1. PICK n, x : n \in Nat /\ n = i + k /\ x = Fr(m, i)' /\ x = Fr(m, n) /\ FrameOf(m, n)
    BY <1>1, <1>2
  <2>2. /\ ItemOK(m, x, x.h # "DATA") /\ x.sid = Sid(m) /\ x.s2d = (conns[m].role = "source")
        /\ conns[conns[m].mate].reader = "none" =>
              \E j \in Nat : j < n /\ Asks(conns[m].end, j, "RESPONSE", conns[conns[m].mate].id)
        /\ \A l \in Nat : FrameOf(m, l) /\ l > n =>
              Num(Fr(m, l)) >= Num(x) /\ (x.h = "DATA" => Num(Fr(m, l)) # Num(x))
        /\ \A j \in Nat : EventOf(m, j) => Num(Ev(m, j)) > Num(x)
    BY <2>1, SMTT(20) DEF FramesOK
  <2>3. ItemOK(m, x, x.h # "DATA")'
    BY <2>2, ItemKeeps DEF ItemOK, Num
  <2>4. ASSUME conns'[conns[m].mate].reader = "none"
        PROVE  \E j \in Nat : j < i /\ Asks(conns[m].end, j, "RESPONSE", conns[conns[m].mate].id)'
    <3>1. PICK j \in Nat : j < n /\ Asks(conns[m].end, j, "RESPONSE", conns[conns[m].mate].id)
      BY <2>2, <2>4 DEF Answered
    <3>2. PICK l \in Nat : l + k = j /\ Asks(conns[m].end, l, "RESPONSE", conns[conns[m].mate].id)'
      BY <2>4, <3>1 DEF Answered
    <3>3. l < i
      BY <2>1, <3>1, <3>2, SMTT(20)
    <3>. QED
      BY <3>2, <3>3
  <2>5. ASSUME NEW l \in Nat, FrameOf(m, l)', l > i
        PROVE  Num(Fr(m, l))' >= Num(x) /\ (x.h = "DATA" => Num(Fr(m, l))' # Num(x))
    <3>1. FrameOf(m, l + k) /\ Fr(m, l)' = Fr(m, l + k)
      BY <1>1, <2>5
    <3>2. l + k \in Nat /\ l + k > n
      BY <2>1, <2>5, SMTT(20)
    <3>. QED
      BY <2>2, <3>1, <3>2 DEF Num
  <2>6. ASSUME NEW j \in Nat, EventOf(m, j)'
        PROVE  Num(Ev(m, j))' > Num(x)
    <3>1. CASE EventOf(m, j + q)
      <4>1. j + q \in Nat /\ j # 0
        BY <2>6, SMTT(20) DEF Moves
      <4>2. Ev(m, j)' = Ev(m, j + q)
        BY <3>1, <4>1 DEF Moves
      <4>. QED
        BY <2>2, <3>1, <4>1, <4>2 DEF Num
    <3>2. CASE conns[m].reader # "eof" /\ Num(Ev(m, j))' > conns[m].read
      <4>1. Num(x) \in Nat /\ Num(x) <= conns[m].read /\ conns[m].read \in Nat
        BY <2>2, <3>2 DEF ItemOK, SenderStays
      <4>2. Num(Ev(m, j))' \in Nat
        BY <2>6 DEF EventsOK, ItemOK
      <4>. QED
        BY <3>2, <4>1, <4>2, SMTT(20)
    <3>. QED
      BY <2>6, <3>1, <3>2 DEF NewEventsLater
  <2>7. conns'[m].mate = conns[m].mate /\ conns'[m].role = conns[m].role /\ Sid(m)' = Sid(m)
    BY DEF SenderStays
  <2>8. x.sid = Sid(m)' /\ x.s2d = (conns'[m].role = "source")
    BY <2>2, <2>7
  <2>. QED
    BY <2>1, <2>3, <2>4, <2>5, <2>6, <2>7, <2>8 DEF Num, ItemOK
<1>. QED
  BY <1>2 DEF FramesOK

\* Nothing is lost on the way to a mate that still receives.
FlowStays(m, k, q) ==
    /\ Total(m)' = Total(m) /\ Total(m) \in Nat /\ Passed(conns[m].mate) \in Nat
    /\ Receiving(conns[m].mate)' =>
          /\ Receiving(conns[m].mate) /\ Passed(conns[m].mate)' = Passed(conns[m].mate)
          /\ \A i \in Nat : FrameOf(m, i) => i > k
    /\ Sending(m)' => Total(m) = 0 \/ (Sending(m) /\ \A j \in Nat : EventOf(m, j) => j > q)

\* A stream without gaps has none after a step that adds nothing to it.
LEMMA FlowKeeps ==
  ASSUME NEW m, NEW k \in Nat, NEW q \in Nat, Moves(m, k, q), NoNewFrames(m, k), NoNewEvents(m, q),
         FlowStays(m, k, q), FlowOK(m)
  PROVE  FlowOK(m)'
<1>1. SUFFICES ASSUME Receiving(conns[m].mate)'
               PROVE  /\ EventsAfter(m, Passed(conns[m].mate))' /\ FramesFollow(m, Passed(conns[m].mate))'
                      /\ Sending(m)' => Whole(m, Passed(conns[m].mate))'
  BY DEF FlowOK
<1>2. PICK n \in Nat : n = Passed(conns[m].mate) /\ n = Passed(conns[m].mate)'
  BY <1>1 DEF FlowStays
<1>3. /\ EventsAfter(m, n) /\ FramesFollow(m, n) /\ (Sending(m) => Whole(m, n))
      /\ \A i \in Nat : FrameOf(m, i) => i > k
  BY <1>1, <1>2 DEF FlowStays, FlowOK
<1>4. ASSUME NEW j \in Nat, EventOf(m, j)'
      PROVE  Num(Ev(m, j))' > n
  <2>1. j + q \in Nat /\ EventOf(m, j + q) /\ Ev(m, j)' = Ev(m, j + q)
    BY <1>4, OldEvent
  <2>. QED
    BY <1>3, <2>1 DEF EventsAfter, Num
<1>5. ASSUME NEW i \in Nat, FrameOf(m, i)'
      PROVE  /\ Num(Fr(m, i))' > n
             /\ \A x \in n + 1 .. Num(Fr(m, i))' :
                   \E l \in Nat : l <= i /\ FrameOf(m, l)' /\ Num(Fr(m, l))' = x
  <2>1. i + k \in Nat /\ FrameOf(m, i + k) /\ Fr(m, i)' = Fr(m, i + k)
    BY <1>5, OldFrame
  <2>2. /\ Num(Fr(m, i))' > n
        /\ \A x \in n + 1 .. Num(Fr(m, i))' : \E l \in Nat : l <= i + k /\ FrameOf(m, l) /\ Num(Fr(m, l)) = x
    BY <1>3, <2>1 DEF FramesFollow, Num
  <2>3. ASSUME NEW x \in n + 1 .. Num(Fr(m, i))'
        PROVE  \E l \in Nat : l <= i /\ FrameOf(m, l)' /\ Num(Fr(m, l))' = x
    <3>1. PICK l \in Nat : l <= i + k /\ FrameOf(m, l) /\ Num(Fr(m, l)) = x
      BY <2>2, <2>3
    <3>2. PICK h \in Nat : h + k = l /\ FrameOf(m, h)' /\ Fr(m, h)' = Fr(m, l)
      BY <1>3, <3>1, KeptFrame
    <3>3. h <= i
      BY <3>1, <3>2, SMTT(20)
    <3>. QED
      BY <3>1, <3>2, <3>3 DEF Num
  <2>. QED
    BY <2>2, <2>3
<1>6. ASSUME Sending(m)', NEW x \in n + 1 .. Total(m)'
      PROVE  \/ \E l \in Nat : FrameOf(m, l)' /\ Num(Fr(m, l))' = x
             \/ \E l \in Nat : EventOf(m, l)' /\ Num(Ev(m, l))' = x
  <2>1. Total(m)' = Total(m) /\ Total(m) \in Nat /\ Total(m) # 0
    <3>1. Total(m)' = Total(m) /\ Total(m) \in Nat
      BY DEF FlowStays
    <3>2. Total(m) # 0
      BY <1>6, <3>1, SMTT(20)
    <3>. QED
      BY <3>1, <3>2
  <2>2. Sending(m) /\ \A j \in Nat : EventOf(m, j) => j > q
    BY <1>6, <2>1 DEF FlowStays
  <2>3. \/ \E l \in Nat : FrameOf(m, l) /\ Num(Fr(m, l)) = x
        \/ \E l \in Nat : EventOf(m, l) /\ Num(Ev(m, l)) = x
    BY <1>3, <1>6, <2>1, <2>2 DEF Whole
  <2>4. ASSUME NEW l \in Nat, FrameOf(m, l), Num(Fr(m, l)) = x
        PROVE  \E h \in Nat : FrameOf(m, h)' /\ Num(Fr(m, h))' = x
    <3>1. \E h \in Nat : h + k = l /\ FrameOf(m, h)' /\ Fr(m, h)' = Fr(m, l)
      BY <1>3, <2>4, KeptFrame
    <3>. QED
      BY <2>4, <3>1 DEF Num
  <2>5. ASSUME NEW l \in Nat, EventOf(m, l), Num(Ev(m, l)) = x
        PROVE  \E h \in Nat : EventOf(m, h)' /\ Num(Ev(m, h))' = x
    <3>1. \E h \in Nat : h + q = l /\ EventOf(m, h)' /\ Ev(m, h)' = Ev(m, l)
      BY <2>2, <2>5, KeptEvent
    <3>. QED
      BY <2>5, <3>1 DEF Num
  <2>. QED
    BY <2>3, <2>4, <2>5
<1>7. EventsAfter(m, n)' /\ FramesFollow(m, n)' /\ (Sending(m)' => Whole(m, n)')
  BY <1>4, <1>5, <1>6 DEF EventsAfter, FramesFollow, Whole
<1>. QED
  BY <1>2, <1>7 DEF EventsAfter, FramesFollow, Whole

\* Nothing is added to the stream of m, and nothing that counts is lost.
Quiet(m) ==
    \E k, q \in Nat : /\ Moves(m, k, q) /\ NoNewFrames(m, k) /\ NoNewEvents(m, q)
                      /\ Answered(m, k) /\ FlowStays(m, k, q)

\* A quiet stream stays in order.
LEMMA QuietKeeps ==
  ASSUME NEW m, conns[m].mate # 0, SenderStays(m), Quiet(m), StreamOK(m)
  PROVE  StreamOK(m)'
<1>1. PICK k, q \in Nat : /\ Moves(m, k, q) /\ NoNewFrames(m, k) /\ NoNewEvents(m, q)
                          /\ Answered(m, k) /\ FlowStays(m, k, q)
  BY DEF Quiet
<1>2. EventsOK(m)'
  BY <1>1, EventsKeep DEF StreamOK
<1>3. NewEventsLater(m, q)
  BY <1>1 DEF NoNewEvents, NewEventsLater
<1>4. FramesOK(m)'
  BY <1>1, <1>2, <1>3, FramesKeep DEF StreamOK
<1>5. FlowOK(m)'
  BY <1>1, FlowKeeps DEF StreamOK
<1>. QED
  BY <1>2, <1>4, <1>5 DEF StreamOK

\* None of the k frames that e's link loses answers d, if d still waits.
KeepsAnswer(e, d, k) ==
    conns'[d].reader = "none" =>
        /\ conns[d].reader = "none"
        /\ \A i \in DOMAIN link[e] : i <= k => link[e][i].h # "RESPONSE" \/ link[e][i].id # conns[d].id

\* A destination's answer still comes before its first item.
LEMMA AnsweredKeeps ==
  ASSUME Typed, Typed', NEW m, SenderStays(m), NEW e \in Ends, e = conns[m].end,
         NEW k \in Nat, Shifts(link[e], link'[e], k),
         NEW d, d = conns[m].mate, conns'[d].id = conns[d].id, KeepsAnswer(e, d, k)
  PROVE  Answered(m, k)
<1>1. PICK x \in Seq(PeerFrame), y \in Seq(PeerFrame) : x = link[e] /\ y = link'[e]
  BY DEF Typed
<1>2. conns'[m].end = e /\ conns'[m].mate = d
  BY DEF SenderStays
<1>3. ASSUME conns'[d].reader = "none", NEW j \in Nat, Asks(e, j, "RESPONSE", conns[d].id)
      PROVE  \E l \in Nat : l + k = j /\ Asks(e, l, "RESPONSE", conns[d].id)'
  <2>1. j \in DOMAIN x /\ x[j].h = "RESPONSE" /\ x[j].id = conns[d].id
    BY <1>1, <1>3 DEF Asks
  <2>2. ~(j <= k)
    BY <1>1, <1>3, <2>1 DEF KeepsAnswer
  <2>3. PICK l \in Nat : l + k = j /\ l = j - k /\ j > k
    <3>1. j - k \in Nat /\ (j - k) + k = j /\ j > k
      BY <2>2, SMTT(20)
    <3>. QED
      BY <3>1
  <2>4. l \in DOMAIN y /\ l + k \in DOMAIN x
    BY <1>1, <2>1, <2>3 DEF Shifts
  <2>5. y[l] = x[j]
    BY <1>1, <2>3, <2>4 DEF Shifts
  <2>6. Asks(e, l, "RESPONSE", conns[d].id)'
    BY <1>1, <2>1, <2>4, <2>5 DEF Asks
  <2>. QED
    BY <2>3, <2>6
<1>4. conns'[d].reader = "none" => conns[d].reader = "none"
  BY DEF KeepsAnswer
<1>. QED
  BY <1>2, <1>3, <1>4 DEF Answered, Asks

-----------------------------------------------------------------------------
(* Steps that touch one connection. *)

\* The connection that a step touches has not unread anything.
ReadsOn(t) ==
    t \in DOMAIN conns => /\ conns'[t].read >= conns[t].read
                          /\ conns[t].reader = "eof" => conns'[t].reader = "eof" /\ conns'[t].read = conns[t].read

\* A step that touches one connection leaves the senders who they were.
LEMMA TouchStays ==
  ASSUME Typed, Typed', TableInv, NEW t, Touches(t), ReadsOn(t), NEW m \in DOMAIN conns, conns[m].mate # 0
  PROVE  SenderStays(m)
<1>1. m \in DOMAIN conns' /\ conns[m].read \in Nat
  BY ConnTypes DEF Touches
<1>2. conns'[m].read \in Nat
  <2>1. conns' \in Seq(Conn)
    BY DEF Typed
  <2>2. conns'[m] \in Conn
    BY <1>1, <2>1, SMTT(20)
  <2>. QED
    BY <2>2 DEF Conn
<1>3. /\ conns'[m].end = conns[m].end /\ conns'[m].role = conns[m].role
      /\ conns'[m].id = conns[m].id /\ conns'[m].mate = conns[m].mate /\ Sid(m)' = Sid(m)
      /\ conns'[m].reader = "none" <=> conns[m].reader = "none"
  BY SameIdentity DEF TableInv
<1>4. CASE m = t
  BY <1>1, <1>2, <1>3, <1>4 DEF SenderStays, ReadsOn
<1>5. CASE m # t
  <2>1. conns'[m] = conns[m]
    BY <1>5 DEF Touches
  <2>2. conns'[m].read >= conns[m].read
    BY <1>1, <2>1, SMTT(20)
  <2>. QED
    BY <1>1, <1>2, <1>3, <2>1, <2>2 DEF SenderStays
<1>. QED
  BY <1>4, <1>5

\* Nobody is registered, or listened to, by a step that removes entries.
LEMMA ShrinkStays ==
  ASSUME Typed, TableInv, NEW t, Touches(t), \A d \in Ends : Restricts(d), NEW u \in DOMAIN conns, conns[u].mate # 0
  PROVE  (Registered(u)' => Registered(u)) /\ (Sending(u)' => Sending(u))
<1>1. /\ conns'[u].end = conns[u].end /\ conns'[u].role = conns[u].role
      /\ conns'[u].id = conns[u].id /\ conns'[u].mate = conns[u].mate /\ Sid(u)' = Sid(u)
      /\ conns[u].end \in Ends
  BY SameIdentity, ConnTypes DEF TableInv
<1>2. /\ DOMAIN state'[conns[u].end].destinations \subseteq DOMAIN state[conns[u].end].destinations
      /\ DOMAIN state'[conns[u].end].source_sockets \subseteq DOMAIN state[conns[u].end].source_sockets
      /\ DOMAIN state'[conns[u].end].source_conn_ids \subseteq DOMAIN state[conns[u].end].source_conn_ids
  BY <1>1 DEF Restricts
<1>. QED
  BY <1>1, <1>2 DEF Registered, Sending

\* A queue without new items of m.
LEMMA NoNewItems ==
  ASSUME Typed, Typed', NEW m, NEW e \in Ends, e = conns[m].end, e = conns'[m].end
  PROVE  /\ \A k \in Nat :
              /\ Shifts(link[e], link'[e], k)
              /\ \A i \in DOMAIN link'[e] :
                    i + k \in DOMAIN link[e] \/ ~FrameItem(link'[e][i]) \/ Owner(link'[e][i]) # m
              => NoNewFrames(m, k)
         /\ \A q \in Nat :
              /\ Shifts(events[e], events'[e], q)
              /\ \A j \in DOMAIN events'[e] :
                    j + q \in DOMAIN events[e] \/ ~EventItem(events'[e][j]) \/ Owner(events'[e][j]) # m
              => NoNewEvents(m, q)
<1>1. ASSUME NEW k \in Nat, Shifts(link[e], link'[e], k),
             \A i \in DOMAIN link'[e] :
                i + k \in DOMAIN link[e] \/ ~FrameItem(link'[e][i]) \/ Owner(link'[e][i]) # m
      PROVE  NoNewFrames(m, k)
  <2>1. ASSUME NEW i \in Nat, FrameOf(m, i)'
        PROVE  FrameOf(m, i + k)
    <3>1. i \in DOMAIN link'[e] /\ FrameItem(link'[e][i]) /\ Owner(link'[e][i]) = m
      BY <2>1 DEF FrameOf, Fr, FrameItem, Owner
    <3>2. i + k \in DOMAIN link[e]
      BY <1>1, <3>1
    <3>3. link'[e][i] = link[e][i + k]
      BY <1>1, <3>1, <3>2 DEF Shifts
    <3>. QED
      BY <3>1, <3>2, <3>3 DEF FrameOf, Fr
  <2>. QED
    BY <2>1 DEF NoNewFrames
<1>2. ASSUME NEW q \in Nat, Shifts(events[e], events'[e], q),
             \A j \in DOMAIN events'[e] :
                j + q \in DOMAIN events[e] \/ ~EventItem(events'[e][j]) \/ Owner(events'[e][j]) # m
      PROVE  NoNewEvents(m, q)
  <2>1. ASSUME NEW j \in Nat, EventOf(m, j)'
        PROVE  EventOf(m, j + q)
    <3>1. j \in DOMAIN events'[e] /\ EventItem(events'[e][j]) /\ Owner(events'[e][j]) = m
      BY <2>1 DEF EventOf, Ev, EventItem, Owner
    <3>2. j + q \in DOMAIN events[e]
      BY <1>2, <3>1
    <3>3. events'[e][j] = events[e][j + q]
      BY <1>2, <3>1, <3>2 DEF Shifts
    <3>. QED
      BY <3>1, <3>2, <3>3 DEF EventOf, Ev
  <2>. QED
    BY <2>1 DEF NoNewEvents
<1>. QED
  BY <1>1, <1>2

\* Everyone else's items, and what an end is left with, belong to somebody.
LEMMA OwnersKeep ==
  ASSUME Typed, Typed', OwnerInv, NEW e \in Ends, NEW k \in Nat, NEW q \in Nat,
         Shifts(link[e], link'[e], k), Shifts(events[e], events'[e], q),
         \A u \in DOMAIN conns : conns[u].mate # 0 =>
            u \in DOMAIN conns' /\ conns'[u].end = conns[u].end /\ conns'[u].mate # 0,
         \A i \in DOMAIN link'[e] :
            i + k \in DOMAIN link[e] \/ ~FrameItem(link'[e][i]) \/ Owned(link'[e][i], e),
         \A j \in DOMAIN events'[e] :
            j + q \in DOMAIN events[e] \/ ~EventItem(events'[e][j]) \/ Owned(events'[e][j], e)
  PROVE  OwnersOK(e)'
<1>1. ASSUME NEW x, Owned(x, e)
      PROVE  Owner(x) \in DOMAIN conns' /\ conns'[Owner(x)].end = e /\ conns'[Owner(x)].mate # 0
  BY <1>1 DEF Owned
<1>2. ASSUME NEW j \in DOMAIN events'[e], EventItem(events'[e][j])
      PROVE  Owned(events[e][j], e)'
  <2>1. Owned(events'[e][j], e)
    <3>1. CASE j + q \in DOMAIN events[e]
      BY <1>2, <3>1 DEF Shifts, OwnerInv, OwnersOK
    <3>. QED
      BY <1>2, <3>1
  <2>. QED
    BY <1>1, <2>1 DEF Owned, Owner
<1>3. ASSUME NEW i \in DOMAIN link'[e], FrameItem(link'[e][i])
      PROVE  Owned(link[e][i], e)'
  <2>1. Owned(link'[e][i], e)
    <3>1. CASE i + k \in DOMAIN link[e]
      BY <1>3, <3>1 DEF Shifts, OwnerInv, OwnersOK
    <3>. QED
      BY <1>3, <3>1
  <2>. QED
    BY <1>1, <2>1 DEF Owned, Owner
<1>. QED
  BY <1>2, <1>3 DEF OwnersOK, EventItem, FrameItem

\* Length and domain of a sequence.
LEMMA LenFacts ==
  ASSUME NEW S, NEW x \in Seq(S)
  PROVE  Len(x) \in Nat /\ DOMAIN x = 1 .. Len(x)
BY SMTT(20)

\* What arrived at a connection is counted by a natural number.
LEMMA PassedTypes ==
  ASSUME Typed, NEW u \in DOMAIN conns
  PROVE  /\ Len(conns[u].got) \in Nat /\ DOMAIN conns[u].got = 1 .. Len(conns[u].got)
         /\ Len(conns[u].queue) \in Nat /\ DOMAIN conns[u].queue = 1 .. Len(conns[u].queue)
         /\ Passed(u) \in Nat
<1>1. conns[u].got \in Seq(Nat \X Nat) /\ conns[u].queue \in Seq(Nat \X Nat)
  BY ConnTypes
<1>2. Len(conns[u].got) \in Nat /\ Len(conns[u].queue) \in Nat
  BY <1>1, LenFacts
<1>3. Passed(u) \in Nat
  <2>1. PICK a \in Nat, b \in Nat : a = Len(conns[u].got) /\ b = Len(conns[u].queue)
    BY <1>2
  <2>2. a + b \in Nat
    BY SMTT(20)
  <2>. QED
    BY <2>1, <2>2 DEF Passed
<1>. QED
  BY <1>1, <1>2, <1>3, LenFacts

\* What a connection was passed stays right when none of it changes.
LEMMA GotKeeps ==
  ASSUME Typed, NEW u \in DOMAIN conns, GotOK(u), NEW d, d = conns[u].mate, d # 0 => SenderStays(d),
         conns'[u].mate = d, conns'[u].got = conns[u].got, conns'[u].queue = conns[u].queue,
         conns'[u].writer = "off" => conns[u].queue = <<>>,
         d # 0 /\ conns'[u].reader = "off" /\ conns'[u].writer \in {"draining", "off"} =>
            conns[d].reader = "eof" /\ Passed(u) = conns[d].read
  PROVE  GotOK(u)'
<1>1. Passed(u)' = Passed(u) /\ Passed(u) \in Nat
  BY PassedTypes DEF Passed
<1>2. d # 0 => Passed(u)' <= conns'[d].read
  <2>1. d # 0 => Passed(u) <= conns[d].read
    BY DEF GotOK
  <2>. QED
    BY <1>1, <2>1, SMTT(20) DEF SenderStays
<1>3. d # 0 /\ conns'[u].reader = "off" /\ conns'[u].writer \in {"draining", "off"} =>
         conns'[d].reader = "eof" /\ Passed(u)' = conns'[d].read
  BY <1>1 DEF SenderStays
<1>. QED
  BY <1>2, <1>3 DEF GotOK

\* A stream to which such a step adds nothing.
LEMMA TouchQuiet ==
  ASSUME Typed, Typed', TableInv, NEW t, Touches(t), ReadsOn(t), \A x \in Ends : Restricts(x),
         NEW m \in DOMAIN conns, conns[m].mate # 0, StreamOK(m), Total(m)' = Total(m),
         NEW e \in Ends, e = conns[m].end, NEW k \in Nat, NEW q \in Nat,
         Shifts(link[e], link'[e], k), Shifts(events[e], events'[e], q),
         NoNewFrames(m, k), NoNewEvents(m, q),
         \A i \in DOMAIN link[e] : i <= k => link[e][i].h # "RESPONSE",
         NEW d, d = conns[m].mate,
         Receiving(d)' => /\ conns[d].writer # "failed" /\ Passed(d)' = Passed(d)
                          /\ \A i \in Nat : FrameOf(m, i) => i > k,
         Sending(m)' => \A j \in Nat : EventOf(m, j) => j > q
  PROVE  StreamOK(m)'
<1>1. SenderStays(m)
  BY TouchStays
<1>2. d \in DOMAIN conns /\ conns[d].mate = m /\ m # 0
  BY ConnTypes DEF TableInv, MateInv, MateOK
<1>3. SenderStays(d)
  BY <1>2, TouchStays
<1>4. Moves(m, k, q)
  BY <1>1, MovesFacts DEF SenderStays
<1>5. conns'[d].reader = "none" <=> conns[d].reader = "none"
  BY <1>2, SameIdentity DEF TableInv
<1>6. Answered(m, k)
  <2>1. KeepsAnswer(e, d, k)
    BY <1>5 DEF KeepsAnswer
  <2>2. conns'[d].id = conns[d].id
    BY <1>3 DEF SenderStays
  <2>. QED
    BY <1>1, <2>1, <2>2, AnsweredKeeps
<1>7. FlowStays(m, k, q)
  <2>1. Passed(d) \in Nat
    BY <1>2, PassedTypes
  <2>2. Total(m) \in Nat
    <3>1. conns[m].read \in Nat
      BY ConnTypes
    <3>. QED
      BY <3>1, SMTT(20) DEF Total
  <2>3. (Registered(d)' => Registered(d)) /\ (Sending(m)' => Sending(m))
    BY <1>2, ShrinkStays
  <2>4. Receiving(d)' => Receiving(d)
    BY <1>2, <1>3, <1>5, <2>3 DEF Receiving, SenderStays
  <2>5. Receiving(d)' => /\ Receiving(d) /\ Passed(d)' = Passed(d)
                         /\ \A i \in Nat : FrameOf(m, i) => i > k
    BY <2>4
  <2>6. Receiving(conns[m].mate)' <=> Receiving(d)'
    BY <1>1 DEF SenderStays, Receiving, Registered, Sid
  <2>7. Passed(conns[m].mate)' = Passed(d)'
    BY <1>1 DEF SenderStays, Passed
  <2>. QED
    BY <2>1, <2>2, <2>3, <2>5, <2>6, <2>7 DEF FlowStays
<1>. QED
  BY <1>1, <1>4, <1>6, <1>7, QuietKeeps DEF Quiet

\* Connections that a step does not touch have what they had.
LEMMA TouchGot ==
  ASSUME Typed, Typed', TableInv, NEW t, Touches(t), ReadsOn(t), NEW u \in DOMAIN conns, u # t, GotOK(u)
  PROVE  GotOK(u)'
<1>1. conns'[u] = conns[u]
  BY DEF Touches
<1>2. PICK d : d = conns[u].mate
  OBVIOUS
<1>3. d # 0 => SenderStays(d)
  <2>1. d # 0 => d \in DOMAIN conns /\ conns[d].mate = u /\ u # 0
    BY <1>2, ConnTypes DEF TableInv, MateInv, MateOK
  <2>. QED
    BY <2>1, TouchStays
<1>4. conns[u].writer = "off" => conns[u].queue = <<>>
  BY DEF GotOK
<1>5. d # 0 /\ conns[u].reader = "off" /\ conns[u].writer \in {"draining", "off"} =>
         conns[d].reader = "eof" /\ Passed(u) = conns[d].read
  BY <1>2 DEF GotOK
<1>. QED
  BY <1>1, <1>2, <1>3, <1>4, <1>5, GotKeeps

\* Who owns an item still does.
LEMMA TouchOwners ==
  ASSUME Typed, Typed', TableInv, OwnerInv, NEW t, Touches(t),
         NEW e \in Ends, NEW k \in Nat, NEW q \in Nat,
         Shifts(link[e], link'[e], k), Shifts(events[e], events'[e], q),
         \A i \in DOMAIN link'[e] :
            i + k \in DOMAIN link[e] \/ ~FrameItem(link'[e][i]) \/ Owned(link'[e][i], e),
         \A j \in DOMAIN events'[e] :
            j + q \in DOMAIN events[e] \/ ~EventItem(events'[e][j]) \/ Owned(events'[e][j], e)
  PROVE  OwnersOK(e)'
<1>1. \A u \in DOMAIN conns : conns[u].mate # 0 =>
         u \in DOMAIN conns' /\ conns'[u].end = conns[u].end /\ conns'[u].mate # 0
  BY SameIdentity DEF TableInv, Touches
<1>. QED
  BY <1>1, OwnersKeep

\* Queues that stay as they are.
LEMMA StillQueues ==
  ASSUME Typed, NEW e \in Ends
  PROVE  /\ Shifts(link[e], link[e], 0) /\ \A i \in DOMAIN link[e] : i + 0 \in DOMAIN link[e]
         /\ \A i \in DOMAIN link[e] : ~(i <= 0)
         /\ Shifts(events[e], events[e], 0) /\ \A i \in DOMAIN events[e] : i + 0 \in DOMAIN events[e]
         /\ \A i \in DOMAIN events[e] : ~(i <= 0)
<1>1. PICK x \in Seq(PeerFrame), y \in Seq(LocalEvent) : x = link[e] /\ y = events[e]
  BY DEF Typed
<1>2. (\A i \in DOMAIN x : ~(i <= 0)) /\ (\A i \in DOMAIN y : ~(i <= 0))
  BY SMTT(20)
<1>. QED
  BY <1>1, <1>2, ShiftsSame

-----------------------------------------------------------------------------
(* The write task. *)

\* The head of x goes to the end of g.
Written(g, x, h, y) ==
    /\ h = Append(g, Head(x)) /\ y = Tail(x)
    /\ Len(h) = Len(g) + 1 /\ Len(x) = Len(y) + 1 /\ Len(y) \in Nat
    /\ \A i \in 1 .. Len(g) : h[i] = g[i]
    /\ h[Len(g) + 1] = x[1]
    /\ \A i \in 1 .. Len(y) : y[i] = x[i + 1]
    /\ Len(x) = 1 => y = <<>>

\* The chunk written locally moves from one sequence to the other.
LEMMA WrittenFacts ==
  ASSUME NEW S, NEW g \in Seq(S), NEW x \in Seq(S), x # <<>>
  PROVE  \E h, y : Written(g, x, h, y)
<1>1. Head(x) = x[1] /\ x[1] \in S
  BY SMTT(20)
<1>2. Len(Append(g, Head(x))) = Len(g) + 1
  BY <1>1, SMTT(20)
<1>3. \A i \in 1 .. Len(g) : Append(g, Head(x))[i] = g[i]
  BY <1>1, SMTT(20)
<1>4. Append(g, Head(x))[Len(g) + 1] = x[1]
  BY <1>1, SMTT(20)
<1>5. Len(x) = Len(Tail(x)) + 1 /\ Len(Tail(x)) \in Nat
  BY SMTT(20)
<1>6. \A i \in 1 .. Len(Tail(x)) : Tail(x)[i] = x[i + 1]
  BY SMTT(20)
<1>7. Len(x) = 1 => Tail(x) = <<>>
  <2>1. PICK y \in Seq(S) : y = Tail(x)
    BY ShiftsTail
  <2>2. Len(y) = 0 => y = <<>>
    BY SMTT(20)
  <2>3. Len(x) = 1 => Len(Tail(x)) = 0
    <3>1. PICK a \in Nat : a = Len(Tail(x))
      BY <1>5
    <3>2. a + 1 = 1 => a = 0
      BY SMTT(20)
    <3>. QED
      BY <1>5, <3>1, <3>2
  <2>. QED
    BY <2>1, <2>2, <2>3
<1>. QED
  BY <1>2, <1>3, <1>4, <1>5, <1>6, <1>7 DEF Written

\* What t was passed, once the next chunk of it is written.
LEMMA WriteGot ==
  ASSUME Typed, TableInv, NEW t, GotOK(t), WriteSome(t) \/ WriteFails(t), conns[t].mate # 0 => SenderStays(conns[t].mate)
  PROVE  GotOK(t)' /\ (conns'[t].writer # "failed" => Passed(t)' = Passed(t))
<1>1. /\ t \in DOMAIN conns /\ Touches(t)
      /\ conns[t].writer \in {"on", "draining"} /\ conns[t].queue # <<>>
      /\ conns'[t].reader = conns[t].reader /\ conns'[t].read = conns[t].read
      /\ \/ /\ conns'[t].got = Append(conns[t].got, Head(conns[t].queue))
            /\ conns'[t].queue = Tail(conns[t].queue)
            /\ conns'[t].writer = IF conns[t].writer = "draining" /\ Len(conns[t].queue) = 1
                                  THEN "off" ELSE conns[t].writer
         \/ conns'[t].got = conns[t].got /\ conns'[t].queue = <<>> /\ conns'[t].writer = "failed"
  BY WriteEffect
<1>2. PICK g \in Seq(Nat \X Nat), x \in Seq(Nat \X Nat) : g = conns[t].got /\ x = conns[t].queue /\ x # <<>>
  BY <1>1, ConnTypes
<1>3. PICK d : d = conns[t].mate /\ d = conns'[t].mate /\ d # 0 /\ SenderStays(d) /\ conns[d].read \in Nat
  BY <1>1 DEF Touches, SenderStays
<1>4. /\ \A i \in 1 .. Len(g) : g[i] = <<d, i>>
      /\ \A i \in 1 .. Len(x) : x[i] = <<d, Len(g) + i>>
      /\ Len(x) <= CONN_WRITE_QUEUE_DEPTH
      /\ Len(g) + Len(x) <= conns[d].read
      /\ conns[t].reader = "off" /\ conns[t].writer = "draining" =>
           conns[d].reader = "eof" /\ Len(g) + Len(x) = conns[d].read
  BY <1>2, <1>3 DEF GotOK, Passed
<1>5. Len(g) \in Nat /\ Len(x) \in Nat /\ CONN_WRITE_QUEUE_DEPTH \in Nat
  BY LenFacts, ForwardAssumption
<1>6. conns'[d].read \in Nat /\ conns'[d].read >= conns[d].read /\
      (conns[d].reader = "eof" => conns'[d].reader = "eof" /\ conns'[d].read = conns[d].read)
  BY <1>3 DEF SenderStays
<1>7. CASE /\ conns'[t].got = Append(g, Head(x)) /\ conns'[t].queue = Tail(x)
           /\ conns'[t].writer = IF conns[t].writer = "draining" /\ Len(x) = 1 THEN "off" ELSE conns[t].writer
  <2>0. PICK h, y : Written(g, x, h, y)
    BY <1>2, WrittenFacts
  <2>1. /\ h = Append(g, Head(x)) /\ y = Tail(x)
        /\ Len(h) = Len(g) + 1 /\ Len(x) = Len(y) + 1 /\ Len(y) \in Nat
        /\ \A i \in 1 .. Len(g) : h[i] = g[i]
        /\ h[Len(g) + 1] = x[1]
        /\ \A i \in 1 .. Len(y) : y[i] = x[i + 1]
        /\ Len(x) = 1 => y = <<>>
    BY <2>0 DEF Written
  <2>2. ASSUME NEW i \in 1 .. Len(h)
        PROVE  h[i] = <<d, i>>
    <3>1. CASE i \in 1 .. Len(g)
      BY <1>4, <2>1, <3>1
    <3>2. CASE i = Len(g) + 1
      <4>1. 1 \in 1 .. Len(x)
        BY <1>5, <2>1, SMTT(20)
      <4>. QED
        BY <1>4, <2>1, <3>2, <4>1
    <3>3. i \in 1 .. Len(g) \/ i = Len(g) + 1
      BY <1>5, <2>1, <2>2, SMTT(20)
    <3>. QED
      BY <3>1, <3>2, <3>3
  <2>3. ASSUME NEW i \in 1 .. Len(y)
        PROVE  y[i] = <<d, Len(h) + i>>
    <3>1. i + 1 \in 1 .. Len(x) /\ Len(g) + (i + 1) = Len(h) + i
      BY <1>5, <2>1, <2>3, SMTT(20)
    <3>. QED
      BY <1>4, <2>1, <2>3, <3>1
  <2>4. /\ Len(h) + Len(y) = Len(g) + Len(x)
        /\ Len(y) <= CONN_WRITE_QUEUE_DEPTH
    <3>1. PICK a, b \in Nat : a = Len(g) /\ b = Len(y)
      BY <1>5, <2>1
    <3>2. (a + 1) + b = a + (b + 1) /\ (b + 1 <= CONN_WRITE_QUEUE_DEPTH => b <= CONN_WRITE_QUEUE_DEPTH)
      BY <1>5, SMTT(20)
    <3>. QED
      BY <1>4, <2>1, <3>1, <3>2
  <2>5. Len(h) + Len(y) <= conns'[d].read
    <3>1. Len(g) + Len(x) \in Nat
      BY <1>5, SMTT(20)
    <3>. QED
      BY <1>3, <1>4, <1>6, <2>4, <3>1, SMTT(20)
  <2>6. conns'[t].writer = "off" => y = <<>>
    BY <1>1, <1>7, <2>1
  <2>7. conns'[t].reader = "off" /\ conns'[t].writer \in {"draining", "off"} =>
           conns'[d].reader = "eof" /\ Len(h) + Len(y) = conns'[d].read
    BY <1>1, <1>4, <1>6, <1>7, <2>4
  <2>8. Passed(t)' = Len(h) + Len(y) /\ Passed(t) = Len(g) + Len(x)
    BY <1>2, <1>7, <2>1 DEF Passed
  <2>9. GotOK(t)'
    BY <1>3, <1>7, <2>1, <2>2, <2>3, <2>4, <2>5, <2>6, <2>7, <2>8 DEF GotOK
  <2>. QED
    BY <2>4, <2>8, <2>9
<1>8. CASE conns'[t].got = g /\ conns'[t].queue = <<>> /\ conns'[t].writer = "failed"
  <2>1. Len(<<>>) = 0 /\ 0 <= CONN_WRITE_QUEUE_DEPTH
    BY <1>5, SMTT(20)
  <2>2. Len(g) + 0 <= conns'[d].read
    BY <1>3, <1>4, <1>5, <1>6, SMTT(20)
  <2>3. Passed(t)' = Len(g) + 0
    BY <1>8, <2>1 DEF Passed
  <2>4. \A i : i \notin 1 .. 0
    BY SMTT(20)
  <2>5. GotOK(t)'
    BY <1>3, <1>4, <1>8, <2>1, <2>2, <2>3, <2>4 DEF GotOK
  <2>. QED
    BY <1>8, <2>5
<1>. QED
  BY <1>1, <1>2, <1>7, <1>8

\* Writing adds nothing to any stream.
LEMMA WriteStreams ==
  ASSUME Typed, TableInv, StreamInv, NEW t, WriteSome(t) \/ WriteFails(t)
  PROVE  StreamInv'
<1>1. /\ Typed' /\ t \in DOMAIN conns /\ Touches(t)
      /\ state' = state /\ link' = link /\ events' = events
      /\ conns'[t].reader = conns[t].reader /\ conns'[t].read = conns[t].read
      /\ conns[t].writer \in {"on", "draining"}
  BY WriteEffect
<1>2. ReadsOn(t)
  <2>1. conns[t].read >= conns[t].read
    BY <1>1, ConnTypes, SMTT(20)
  <2>. QED
    BY <1>1, <2>1 DEF ReadsOn
<1>3. \A x \in Ends : Restricts(x)
  BY <1>1 DEF Restricts
<1>4. \A m \in DOMAIN conns : conns[m].mate # 0 => SenderStays(m)
  BY <1>1, <1>2, TouchStays
<1>5. t # 0 /\ conns[t].mate # 0 /\ conns[t].mate \in DOMAIN conns /\ conns[conns[t].mate].mate = t
  BY <1>1, ConnTypes DEF Touches, TableInv, MateInv, MateOK
<1>6. GotOK(t)' /\ (conns'[t].writer # "failed" => Passed(t)' = Passed(t))
  BY <1>1, <1>4, <1>5, WriteGot DEF StreamInv
<1>7. OwnerInv'
  <2>1. ASSUME NEW e \in Ends
        PROVE  OwnersOK(e)'
    BY <1>1, StillQueues, TouchOwners DEF StreamInv
  <2>. QED
    BY <2>1 DEF OwnerInv
<1>8. ASSUME NEW m \in DOMAIN conns, conns[m].mate # 0
      PROVE  StreamOK(m)'
  <2>1. PICK d \in DOMAIN conns : d = conns[m].mate
    BY <1>8 DEF TableInv, MateInv, MateOK
  <2>2. PICK e \in Ends : e = conns[m].end /\ e = conns'[m].end
    BY <1>4, <1>8, ConnTypes DEF SenderStays
  <2>3. NoNewFrames(m, 0) /\ NoNewEvents(m, 0)
    BY <1>1, <2>2, StillQueues, NoNewItems
  <2>4. Total(m)' = Total(m)
    BY <1>1 DEF Total, Touches
  <2>5. Receiving(d)' => conns[d].writer # "failed" /\ Passed(d)' = Passed(d)
    <3>1. CASE d = t
      BY <1>1, <1>6, <3>1 DEF Receiving
    <3>2. CASE d # t
      <4>1. conns'[d] = conns[d]
        BY <1>1, <3>2 DEF Touches
      <4>. QED
        BY <4>1 DEF Receiving, Passed
    <3>. QED
      BY <3>1, <3>2
  <2>6. \A i \in Nat : (FrameOf(m, i) => i > 0) /\ (EventOf(m, i) => i > 0)
    BY <2>2, StillQueues, SMTT(20) DEF FrameOf, EventOf
  <2>7. StreamOK(m)
    BY DEF StreamInv
  <2>. QED
    BY <1>1, <1>2, <1>3, <1>8, <2>1, <2>2, <2>3, <2>4, <2>5, <2>6, <2>7, StillQueues, TouchQuiet
<1>9. ASSUME NEW m \in DOMAIN conns, conns[m].mate = 0
      PROVE  StreamOK(m)'
  BY <1>1, <1>9 DEF Touches, StreamOK
<1>10. ASSUME NEW u \in DOMAIN conns
       PROVE  GotOK(u)'
  BY <1>1, <1>2, <1>6, TouchGot DEF StreamInv
<1>. QED
  BY <1>1, <1>7, <1>8, <1>9, <1>10 DEF StreamInv, Touches

-----------------------------------------------------------------------------
(* The read task. *)

\* Item x of t joins the n events of its end.
Posts(t, x, n) ==
    /\ EventOf(t, n + 1)' /\ Ev(t, n + 1)' = x
    /\ \A j \in Nat : EventOf(t, j) => EventOf(t, j)' /\ Ev(t, j)' = Ev(t, j) /\ j <= n
    /\ \A j \in Nat : EventOf(t, j)' => EventOf(t, j) \/ j = n + 1

\* An item posted is the last event of its end.
LEMMA PostsFacts ==
  ASSUME Typed, Typed', NEW t, NEW e \in Ends, e = conns[t].end, e = conns'[t].end, NEW x \in LocalEvent,
         events' = [events EXCEPT ![e] = Append(@, x)], EventItem(x), Owner(x) = t
  PROVE  \E n \in Nat : Posts(t, x, n)
<1>1. /\ Shifts(events[e], events'[e], 0)
      /\ \A i \in DOMAIN events'[e] : i + 0 \notin DOMAIN events[e] => i = Len(events[e]) + 1
      /\ Len(events[e]) + 1 \in DOMAIN events'[e] /\ events'[e][Len(events[e]) + 1] = x
  BY PostFacts
<1>2. PICK y \in Seq(LocalEvent), z \in Seq(LocalEvent) : y = events[e] /\ z = events'[e]
  BY DEF Typed
<1>n. PICK n \in Nat : n = Len(y)
  BY LenFacts
<1>3. EventOf(t, n + 1)' /\ Ev(t, n + 1)' = x
  BY <1>1, <1>2, <1>n DEF EventOf, Ev, EventItem, Owner
<1>4. ASSUME NEW j \in DOMAIN y
      PROVE  j \in DOMAIN z /\ z[j] = y[j] /\ j <= Len(y)
  <2>1. j > 0 /\ j - 0 = j /\ j + 0 = j /\ j <= Len(y)
    BY SMTT(20)
  <2>2. j \in DOMAIN z
    BY <1>1, <1>2, <2>1 DEF Shifts
  <2>. QED
    BY <1>1, <1>2, <2>1, <2>2 DEF Shifts
<1>5. ASSUME NEW j \in DOMAIN z, j # Len(y) + 1
      PROVE  j \in DOMAIN y
  <2>1. j + 0 = j
    BY SMTT(20)
  <2>. QED
    BY <1>1, <1>2, <1>5, <2>1
<1>6. ASSUME NEW j \in Nat, EventOf(t, j)
      PROVE  EventOf(t, j)' /\ Ev(t, j)' = Ev(t, j) /\ j <= n
  BY <1>2, <1>n, <1>4, <1>6 DEF EventOf, Ev
<1>7. ASSUME NEW j \in Nat, EventOf(t, j)', j # n + 1
      PROVE  EventOf(t, j)
  BY <1>2, <1>n, <1>4, <1>5, <1>7 DEF EventOf, Ev
<1>. QED
  BY <1>3, <1>6, <1>7 DEF Posts

\* What t reads comes after everything it read before.
LEMMA ReadOrder ==
  ASSUME Typed, NEW t \in DOMAIN conns, SenderStays(t), EventsOK(t), conns[t].reader = "on",
         NEW x, NEW N \in Nat, Posts(t, x, N), x.id = conns[t].id, x.chunk = <<t, conns[t].read + 1>>,
         \/ x.k = "read" /\ conns'[t].reader = "on" /\ conns'[t].read = conns[t].read + 1
         \/ x.k # "read" /\ conns'[t].reader = "eof" /\ conns'[t].read = conns[t].read
  PROVE  EventsOK(t)' /\ NewEventsLater(t, 0) /\ Num(x) = conns[t].read + 1
<1>2. PICK r \in Nat : r = conns[t].read
  BY ConnTypes
<1>3. Num(x) = r + 1 /\ x.chunk = <<t, Num(x)>>
  <2>1. <<t, r + 1>>[2] = r + 1
    BY SMTT(20)
  <2>. QED
    BY <1>2, <2>1 DEF Num
<1>4. ItemOK(t, x, x.k # "read")'
  <2>1. r + 1 \in Nat \ {0} /\ r + 1 <= r + 1
    BY SMTT(20)
  <2>. QED
    BY <1>2, <1>3, <2>1 DEF ItemOK, Num
<1>5. ASSUME NEW j \in Nat, EventOf(t, j)
      PROVE  /\ ItemOK(t, Ev(t, j), Ev(t, j).k # "read")' /\ Ev(t, j)'.id = conns'[t].id
             /\ Num(Ev(t, j)) <= r /\ Num(Ev(t, j)) < r + 1 /\ Num(Ev(t, j)) \in Nat
  <2>1. ItemOK(t, Ev(t, j), Ev(t, j).k # "read") /\ Ev(t, j).id = conns[t].id
    BY <1>5 DEF EventsOK
  <2>2. Ev(t, j)' = Ev(t, j)
    BY <1>5 DEF Posts
  <2>3. ItemOK(t, Ev(t, j), Ev(t, j).k # "read")'
    BY <2>1, <2>2, ItemKeeps DEF ItemOK, Num
  <2>4. Num(Ev(t, j)) <= r /\ Num(Ev(t, j)) \in Nat
    BY <1>2, <2>1 DEF ItemOK
  <2>5. Num(Ev(t, j)) < r + 1
    BY <2>4, SMTT(20)
  <2>. QED
    BY <2>1, <2>2, <2>3, <2>4, <2>5 DEF SenderStays
<1>6. ASSUME NEW j \in Nat, EventOf(t, j)'
      PROVE  /\ ItemOK(t, Ev(t, j), Ev(t, j).k # "read")' /\ Ev(t, j)'.id = conns'[t].id
             /\ \A l \in Nat : EventOf(t, l)' /\ l > j => Num(Ev(t, l))' > Num(Ev(t, j))'
  <2>1. CASE j = N + 1
    <3>1. \A l \in Nat : EventOf(t, l)' => ~(l > j)
      <4>1. ASSUME NEW l \in Nat, l <= N \/ l = N + 1
            PROVE  ~(l > N + 1)
        BY <4>1, SMTT(20)
      <4>. QED
        BY <2>1, <4>1 DEF Posts
    <3>2. Ev(t, j)' = x
      BY <2>1 DEF Posts
    <3>3. ItemOK(t, Ev(t, j), Ev(t, j).k # "read")'
      BY <1>4, <3>2 DEF ItemOK, Num
    <3>. QED
      BY <3>1, <3>2, <3>3 DEF SenderStays
  <2>2. CASE j # N + 1
    <3>1. EventOf(t, j) /\ Ev(t, j)' = Ev(t, j)
      BY <1>6, <2>2 DEF Posts
    <3>2. ASSUME NEW l \in Nat, EventOf(t, l)', l > j
          PROVE  Num(Ev(t, l))' > Num(Ev(t, j))'
      <4>1. CASE l = N + 1
        <5>1. Num(Ev(t, l))' = r + 1 /\ Num(Ev(t, j))' = Num(Ev(t, j))
          BY <1>3, <3>1, <4>1 DEF Posts, Num
        <5>2. PICK a \in Nat : a = Num(Ev(t, j)) /\ a < r + 1
          BY <1>5, <3>1
        <5>3. r + 1 > a
          BY <5>2, SMTT(20)
        <5>. QED
          BY <5>1, <5>2, <5>3
      <4>2. CASE l # N + 1
        <5>1. EventOf(t, l) /\ Ev(t, l)' = Ev(t, l)
          BY <3>2, <4>2 DEF Posts
        <5>. QED
          BY <3>1, <3>2, <5>1 DEF EventsOK, Num
      <4>. QED
        BY <4>1, <4>2
    <3>. QED
      BY <1>5, <3>1, <3>2
  <2>. QED
    BY <2>1, <2>2
<1>7. NewEventsLater(t, 0)
  <2>1. ASSUME NEW j \in Nat, EventOf(t, j)'
        PROVE  EventOf(t, j + 0) \/ Num(Ev(t, j))' > conns[t].read
    <3>1. j + 0 = j /\ r + 1 > r
      BY SMTT(20)
    <3>2. CASE j = N + 1
      BY <1>2, <1>3, <3>1, <3>2 DEF Posts, Num
    <3>. QED
      BY <2>1, <3>1, <3>2 DEF Posts
  <2>. QED
    BY <2>1 DEF NewEventsLater
<1>. QED
  BY <1>2, <1>3, <1>6, <1>7 DEF EventsOK

\* The next stream of m, d being its mate and n what d was passed.
LEMMA FlowFrom ==
  ASSUME NEW m, NEW d, d = conns'[m].mate, NEW n, n = Passed(d)',
         Receiving(d)' => EventsAfter(m, n)' /\ FramesFollow(m, n)' /\ (Sending(m)' => Whole(m, n)')
  PROVE  FlowOK(m)'
<1>1. SUFFICES ASSUME Receiving(conns[m].mate)'
               PROVE  /\ EventsAfter(m, Passed(conns[m].mate))' /\ FramesFollow(m, Passed(conns[m].mate))'
                      /\ Sending(m)' => Whole(m, Passed(conns[m].mate))'
  BY DEF FlowOK
<1>2. Receiving(d)'
  BY <1>1 DEF Receiving, Registered, Sid
<1>3. Passed(conns[m].mate)' = n
  BY DEF Passed
<1>. QED
  BY <1>2, <1>3 DEF EventsAfter, FramesFollow, Whole

\* What t reads continues what it read before.
LEMMA ReadFlow ==
  ASSUME NEW t, NEW d, d = conns[t].mate, d = conns'[t].mate, NEW r \in Nat, Total(t) = r, Total(t)' = r + 1,
         NEW x, NEW N \in Nat, Posts(t, x, N), Num(x) = r + 1,
         \A i \in Nat : (FrameOf(t, i)' <=> FrameOf(t, i)) /\ Fr(t, i)' = Fr(t, i),
         NEW n \in Nat, n = Passed(d), n = Passed(d)', n <= r,
         Receiving(d)' => Receiving(d), Sending(t)' => Sending(t), FlowOK(t)
  PROVE  FlowOK(t)'
<1>1. SUFFICES ASSUME Receiving(d)'
               PROVE  EventsAfter(t, n)' /\ FramesFollow(t, n)' /\ (Sending(t)' => Whole(t, n)')
  BY FlowFrom
<1>2. EventsAfter(t, n) /\ FramesFollow(t, n) /\ (Sending(t) => Whole(t, n))
  BY <1>1 DEF FlowOK
<1>3. EventsAfter(t, n)'
  <2>1. ASSUME NEW j \in Nat, EventOf(t, j)'
        PROVE  Num(Ev(t, j))' > n
    <3>1. CASE j = N + 1
      <4>1. r + 1 > n
        BY SMTT(20)
      <4>. QED
        BY <3>1, <4>1 DEF Posts, Num
    <3>2. CASE EventOf(t, j)
      BY <1>2, <3>2 DEF EventsAfter, Posts, Num
    <3>. QED
      BY <2>1, <3>1, <3>2 DEF Posts
  <2>. QED
    BY <2>1 DEF EventsAfter
<1>4. FramesFollow(t, n)'
  <2>1. \A i \in Nat : Num(Fr(t, i))' = Num(Fr(t, i))
    BY DEF Num
  <2>2. ASSUME NEW i \in Nat, FrameOf(t, i)'
        PROVE  /\ Num(Fr(t, i))' > n
               /\ \A k \in n + 1 .. Num(Fr(t, i))' :
                     \E l \in Nat : l <= i /\ FrameOf(t, l)' /\ Num(Fr(t, l))' = k
    <3>1. /\ Num(Fr(t, i)) > n
          /\ \A k \in n + 1 .. Num(Fr(t, i)) :
                \E l \in Nat : l <= i /\ FrameOf(t, l) /\ Num(Fr(t, l)) = k
      BY <1>2, <2>2 DEF FramesFollow
    <3>. QED
      BY <2>1, <3>1
  <2>. QED
    BY <2>2 DEF FramesFollow
<1>5. ASSUME Sending(t)'
      PROVE  Whole(t, n)'
  <2>1. Whole(t, n)
    BY <1>2, <1>5
  <2>2. ASSUME NEW k \in n + 1 .. r + 1
        PROVE  \/ \E l \in Nat : FrameOf(t, l)' /\ Num(Fr(t, l))' = k
               \/ \E l \in Nat : EventOf(t, l)' /\ Num(Ev(t, l))' = k
    <3>1. CASE k = r + 1
      <4>1. N + 1 \in Nat
        BY SMTT(20)
      <4>. QED
        BY <3>1, <4>1 DEF Posts, Num
    <3>2. CASE k \in n + 1 .. r
      <4>1. \/ \E l \in Nat : FrameOf(t, l) /\ Num(Fr(t, l)) = k
            \/ \E l \in Nat : EventOf(t, l) /\ Num(Ev(t, l)) = k
        BY <2>1, <3>2 DEF Whole
      <4>. QED
        BY <4>1 DEF Posts, Num
    <3>3. k = r + 1 \/ k \in n + 1 .. r
      BY <2>2, SMTT(20)
    <3>. QED
      BY <3>1, <3>2, <3>3
  <2>. QED
    BY <2>2 DEF Whole
<1>. QED
  BY <1>3, <1>4, <1>5

\* Reading adds to one stream only.
LEMMA ReadStreams ==
  ASSUME Typed, TableInv, StreamInv, NEW t, ReadSome(t) \/ ReadEnds(t)
  PROVE  StreamInv'
<1>1. /\ Typed' /\ t \in DOMAIN conns /\ Touches(t) /\ state' = state /\ link' = link
      /\ conns[t].reader = "on"
      /\ conns'[t].writer = conns[t].writer /\ conns'[t].queue = conns[t].queue
      /\ conns'[t].got = conns[t].got
  BY ReadEffect
<1>2. PICK e \in Ends, r \in Nat : e = conns[t].end /\ r = conns[t].read
  BY <1>1, ConnTypes
<1>3. PICK x \in LocalEvent :
         /\ x.id = conns[t].id /\ x.chunk = <<t, r + 1>> /\ EventItem(x) /\ Owner(x) = t
         /\ \/ x.k = "read" /\ conns'[t].reader = "on" /\ conns'[t].read = r + 1
            \/ x.k # "read" /\ conns'[t].reader = "eof" /\ conns'[t].read = r
         /\ events' = [events EXCEPT ![e] = Append(@, x)]
  <2>1. PICK k \in {"read", "eof", "error"} :
               /\ \/ k = "read" /\ conns'[t].reader = "on" /\ conns'[t].read = conns[t].read + 1
                  \/ k # "read" /\ conns'[t].reader = "eof" /\ conns'[t].read = conns[t].read
               /\ events' = [events EXCEPT ![conns[t].end] =
                               Append(@, ReadEnd(conns[t].id, k, <<t, conns[t].read + 1>>))]
               /\ ReadEnd(conns[t].id, k, <<t, conns[t].read + 1>>) \in LocalEvent
    BY ReadEffect
  <2>2. PICK x \in LocalEvent : x = ReadEnd(conns[t].id, k, <<t, r + 1>>)
    BY <1>2, <2>1
  <2>3. x.id = conns[t].id /\ x.k = k /\ x.chunk = <<t, r + 1>>
    BY <2>2 DEF ReadEnd
  <2>4. <<t, r + 1>>[1] = t
    BY SMTT(20)
  <2>5. EventItem(x) /\ Owner(x) = t
    BY <2>3, <2>4 DEF EventItem, Owner
  <2>. QED
    BY <1>2, <2>1, <2>2, <2>3, <2>5
<1>4. ReadsOn(t)
  <2>1. r + 1 >= r /\ r >= r
    BY SMTT(20)
  <2>. QED
    BY <1>1, <1>2, <1>3, <2>1 DEF ReadsOn
<1>5. \A z \in Ends : Restricts(z)
  BY <1>1 DEF Restricts
<1>6. \A m \in DOMAIN conns : conns[m].mate # 0 => SenderStays(m)
  BY <1>1, <1>4, TouchStays
<1>7. PICK d \in DOMAIN conns : d = conns[t].mate /\ d = conns'[t].mate /\ d # 0 /\ t # 0 /\ conns[d].mate = t /\ d # t
  BY <1>1, ConnTypes, PeerFacts DEF Touches, TableInv, MateInv, MateOK
<1>8. /\ \A z \in Ends : Shifts(events[z], events'[z], 0)
      /\ \A z \in Ends : \A i \in DOMAIN events'[z] :
            i + 0 \in DOMAIN events[z] \/ (z = e /\ events'[z][i] = x)
  <2>1. /\ \A z \in Ends : Shifts(events[z], events'[z], 0)
        /\ \A z \in Ends : \A i \in DOMAIN events'[z] :
              i + 0 \notin DOMAIN events[z] => z = e /\ i = Len(events[e]) + 1
        /\ events'[e][Len(events[e]) + 1] = x
    BY <1>3, PostFacts
  <2>. QED
    BY <2>1
<1>9. OwnerInv'
  <2>1. ASSUME NEW z \in Ends
        PROVE  OwnersOK(z)'
    <3>1. Owned(x, e)
      BY <1>1, <1>2, <1>3, <1>7 DEF Owned
    <3>2. \A j \in DOMAIN events'[z] :
             j + 0 \in DOMAIN events[z] \/ ~EventItem(events'[z][j]) \/ Owned(events'[z][j], z)
      BY <1>8, <3>1
    <3>. QED
      BY <1>1, <1>8, <3>2, StillQueues, TouchOwners DEF StreamInv
  <2>. QED
    BY <2>1 DEF OwnerInv
<1>10. ASSUME NEW m \in DOMAIN conns, conns[m].mate # 0, m # t
       PROVE  StreamOK(m)'
  <2>1. PICK g \in DOMAIN conns : g = conns[m].mate
    BY <1>10 DEF TableInv, MateInv, MateOK
  <2>2. PICK z \in Ends : z = conns[m].end /\ z = conns'[m].end
    BY <1>6, <1>10, ConnTypes DEF SenderStays
  <2>3. NoNewFrames(m, 0)
    BY <1>1, <2>2, StillQueues, NoNewItems
  <2>4. \A i \in DOMAIN events'[z] :
           i + 0 \in DOMAIN events[z] \/ ~EventItem(events'[z][i]) \/ Owner(events'[z][i]) # m
    BY <1>3, <1>8, <1>10
  <2>5. NoNewEvents(m, 0)
    <3>1. 0 \in Nat
      BY SMTT(20)
    <3>2. Shifts(events[z], events'[z], 0)
      BY <1>8
    <3>3. Typed'
      BY <1>1
    <3>. QED
      BY <3>2, <3>3, <2>2, <2>4, <3>1, NoNewItems
  <2>6. Total(m)' = Total(m)
    BY <1>1, <1>10 DEF Total, Touches
  <2>7. Receiving(g)' => conns[g].writer # "failed" /\ Passed(g)' = Passed(g)
    <3>1. conns'[g].writer = conns[g].writer /\ conns'[g].got = conns[g].got /\ conns'[g].queue = conns[g].queue
      BY <1>1 DEF Touches
    <3>. QED
      BY <3>1 DEF Receiving, Passed
  <2>8. \A i \in Nat : (FrameOf(m, i) => i > 0) /\ (EventOf(m, i) => i > 0)
    BY <2>2, StillQueues, SMTT(20) DEF FrameOf, EventOf
  <2>9. StreamOK(m)
    BY DEF StreamInv
  <2>. QED
    BY <1>1, <1>4, <1>5, <1>8, <1>10, <2>1, <2>2, <2>3, <2>5, <2>6, <2>7, <2>8, <2>9, StillQueues, TouchQuiet
<1>11. StreamOK(t)'
  <2>1. SenderStays(t) /\ SenderStays(d)
    BY <1>1, <1>6, <1>7
  <2>2. PICK N \in Nat : Posts(t, x, N)
    BY <1>1, <1>2, <1>3, <2>1, PostsFacts DEF SenderStays
  <2>3. EventsOK(t) /\ FramesOK(t) /\ FlowOK(t)
    BY <1>1, <1>7 DEF StreamInv, StreamOK
  <2>4. EventsOK(t)' /\ NewEventsLater(t, 0) /\ Num(x) = r + 1
    BY <1>1, <1>2, <1>3, <2>1, <2>2, <2>3, ReadOrder
  <2>5. e = conns'[t].end
    BY <1>2, <2>1 DEF SenderStays
  <2>6. Moves(t, 0, 0)
    BY <1>1, <1>2, <1>8, <2>5, StillQueues, MovesFacts
  <2>7. NoNewFrames(t, 0)
    BY <1>1, <1>2, <2>5, StillQueues, NoNewItems
  <2>8. conns'[d] = conns[d]
    BY <1>1, <1>7 DEF Touches
  <2>9. Answered(t, 0)
    <3>1. \A i \in DOMAIN link[e] : ~(i <= 0)
      BY StillQueues
    <3>2. PICK k \in Nat : k = 0
      BY SMTT(20)
    <3>3. Shifts(link[e], link'[e], k)
      BY <1>1, <3>2, StillQueues
    <3>4. Typed' /\ conns'[d].id = conns[d].id
      BY <1>1, <2>8
    <3>5. KeepsAnswer(e, d, k)
      BY <2>8, <3>1, <3>2 DEF KeepsAnswer
    <3>6. Answered(t, k)
      BY <1>2, <1>7, <2>1, <3>3, <3>4, <3>5, AnsweredKeeps
    <3>. QED
      BY <3>2, <3>6
  <2>10. FramesOK(t)'
    BY <2>1, <2>3, <2>4, <2>6, <2>7, <2>9, FramesKeep
  <2>11. PICK n \in Nat : n = Passed(d) /\ n = Passed(d)' /\ n <= r
    <3>1. Passed(d) \in Nat
      BY PassedTypes
    <3>2. Passed(d) <= r
      BY <1>2, <1>7 DEF StreamInv, GotOK
    <3>. QED
      BY <2>8, <3>1, <3>2 DEF Passed
  <2>12. Total(t) = r /\ Total(t)' = r + 1
    BY <1>1, <1>2, <1>3 DEF Total
  <2>13. \A i \in Nat : (FrameOf(t, i)' <=> FrameOf(t, i)) /\ Fr(t, i)' = Fr(t, i)
    BY <1>1, <1>2, <2>5 DEF FrameOf, Fr
  <2>14. (Receiving(d)' => Receiving(d)) /\ (Sending(t)' => Sending(t))
    <3>1. (Registered(d)' => Registered(d)) /\ (Sending(t)' => Sending(t))
      BY <1>1, <1>5, <1>7, ShrinkStays
    <3>. QED
      BY <2>8, <3>1 DEF Receiving
  <2>15. FlowOK(t)'
    BY <1>7, <2>2, <2>3, <2>4, <2>11, <2>12, <2>13, <2>14, ReadFlow
  <2>. QED
    BY <2>4, <2>10, <2>15 DEF StreamOK
<1>12. ASSUME NEW m \in DOMAIN conns, conns[m].mate = 0
       PROVE  StreamOK(m)'
  BY <1>1, <1>12 DEF Touches, StreamOK
<1>13. GotOK(t)'
  <2>1. conns[t].writer = "off" => conns[t].queue = <<>>
    BY <1>1 DEF StreamInv, GotOK
  <2>. QED
    BY <1>1, <1>3, <1>6, <1>7, <2>1, GotKeeps DEF StreamInv
<1>14. ASSUME NEW u \in DOMAIN conns
       PROVE  GotOK(u)'
  BY <1>1, <1>4, <1>13, TouchGot DEF StreamInv
<1>. QED
  BY <1>1, <1>9, <1>10, <1>11, <1>12, <1>14 DEF StreamInv, Touches

-----------------------------------------------------------------------------
(* Steps that open tunnels: they leave the streams alone. *)

\* z's link loses its first k frames and its events the first q: those that
\* go and those that come are no items of a stream.
PassiveLink(z, k) ==
    /\ Shifts(link[z], link'[z], k)
    /\ \A i \in DOMAIN link'[z] : i + k \in DOMAIN link[z] \/ ~FrameItem(link'[z][i])
    /\ \A i \in DOMAIN link[z] : FrameItem(link[z][i]) => i > k

PassiveEvents(z, q) ==
    /\ Shifts(events[z], events'[z], q)
    /\ \A j \in DOMAIN events'[z] : j + q \in DOMAIN events[z] \/ ~EventItem(events'[z][j])
    /\ \A j \in DOMAIN events[z] : EventItem(events[z][j]) => j > q

\* Who still waits for an answer from z has not lost it.
Heard(z, k) ==
    \A u \in DOMAIN conns : conns[u].end = z /\ conns[u].mate # 0 => KeepsAnswer(z, conns[u].mate, k)

Control(z) == \E k, q \in Nat : PassiveLink(z, k) /\ PassiveEvents(z, q) /\ Heard(z, k)

\* u was in a tunnel, and the step is not about its streams.
Remains(u) ==
    /\ SenderStays(u) /\ Total(u)' = Total(u)
    /\ conns'[u].got = conns[u].got /\ conns'[u].queue = conns[u].queue
    /\ conns'[u].writer \in {"draining", "off"} => conns'[u] = conns[u]
    /\ Receiving(u)' => Receiving(u)
    /\ Sending(u)' => Total(u) = 0 \/ Sending(u)

\* u was in no tunnel.
Fresh(u) ==
    conns'[u].mate # 0 =>
        /\ conns'[u].read = 0 /\ conns'[u].queue = <<>> /\ conns'[u].got = <<>>
        /\ conns'[u].reader # "eof" /\ (conns'[u].reader # "off" \/ conns'[u].writer = "failed")

\* A connection has not been passed anything before its tunnel.
LEMMA FreshGot ==
  ASSUME Typed', TableInv', NEW u \in DOMAIN conns', Fresh(u)
  PROVE  GotOK(u)'
<1>1. conns'[u].queue = <<>> /\ conns'[u].got = <<>>
  BY DEF Fresh, TableInv, ConnInv, ConnOK
<1>2. PICK g, x : g = conns'[u].got /\ x = conns'[u].queue /\ g = <<>> /\ x = <<>>
  BY <1>1
<1>3. /\ Len(g) = 0 /\ Len(x) = 0 /\ Len(g) + Len(x) = 0 /\ 1 .. Len(g) = {} /\ 1 .. Len(x) = {}
      /\ Len(x) <= CONN_WRITE_QUEUE_DEPTH
  BY <1>2, ForwardAssumption, SMTT(20)
<1>4. conns'[u].mate # 0 => Passed(u)' <= conns'[conns'[u].mate].read
  <2>1. SUFFICES ASSUME conns'[u].mate # 0
                 PROVE  Passed(u)' <= conns'[conns'[u].mate].read
    OBVIOUS
  <2>2. PICK d : d = conns'[u].mate /\ d \in DOMAIN conns'
    BY <2>1 DEF TableInv, MateInv, MateOK
  <2>3. conns'[d].read \in Nat
    <3>1. conns' \in Seq(Conn)
      BY DEF Typed
    <3>2. conns'[d] \in Conn
      BY <2>2, <3>1, SMTT(20)
    <3>. QED
      BY <3>2 DEF Conn
  <2>4. Passed(u)' = 0
    BY <1>2, <1>3 DEF Passed
  <2>5. 0 <= conns'[d].read
    BY <2>3, SMTT(20)
  <2>. QED
    BY <2>2, <2>4, <2>5
<1>5. conns'[u].mate # 0 /\ conns'[u].reader = "off" => conns'[u].writer = "failed"
  BY DEF Fresh
<1>. QED
  BY <1>2, <1>3, <1>4, <1>5 DEF GotOK

\* Neither has it sent anything.
LEMMA FreshStream ==
  ASSUME Typed, Typed', TableInv', OwnerInv, NEW u \in DOMAIN conns', Fresh(u),
         u \in DOMAIN conns => conns[u].mate = 0,
         NEW z \in Ends, z = conns'[u].end, NEW k, NEW q, PassiveLink(z, k), PassiveEvents(z, q)
  PROVE  StreamOK(u)'
<1>1. SUFFICES ASSUME conns'[u].mate # 0
               PROVE  EventsOK(u)' /\ FramesOK(u)' /\ FlowOK(u)'
  BY DEF StreamOK
<1>2. ASSUME NEW j \in Nat, EventOf(u, j)'
      PROVE  FALSE
  <2>1. PICK x : x = events'[z][j] /\ j \in DOMAIN events'[z] /\ EventItem(x) /\ Owner(x) = u
    BY <1>2 DEF EventOf, Ev, EventItem, Owner
  <2>2. j + q \in DOMAIN events[z] /\ x = events[z][j + q]
    BY <2>1 DEF PassiveLink, PassiveEvents, Shifts
  <2>3. Owned(x, z)
    BY <2>1, <2>2 DEF OwnerInv, OwnersOK
  <2>. QED
    BY <2>1, <2>3 DEF Owned
<1>3. ASSUME NEW i \in Nat, FrameOf(u, i)'
      PROVE  FALSE
  <2>1. PICK x : x = link'[z][i] /\ i \in DOMAIN link'[z] /\ FrameItem(x) /\ Owner(x) = u
    BY <1>3 DEF FrameOf, Fr, FrameItem, Owner
  <2>2. i + k \in DOMAIN link[z] /\ x = link[z][i + k]
    BY <2>1 DEF PassiveLink, PassiveEvents, Shifts
  <2>3. Owned(x, z)
    BY <2>1, <2>2 DEF OwnerInv, OwnersOK
  <2>. QED
    BY <2>1, <2>3 DEF Owned
<1>4. Total(u)' = 0
  BY <1>1 DEF Total, Fresh
<1>5. PICK n \in Nat : n = Passed(conns[u].mate)'
  <2>1. conns'[u].mate \in DOMAIN conns'
    BY <1>1 DEF TableInv, MateInv, MateOK
  <2>2. PICK d \in DOMAIN conns' : d = conns'[u].mate
    BY <2>1
  <2>3. conns'[d].got \in Seq(Nat \X Nat) /\ conns'[d].queue \in Seq(Nat \X Nat)
    <3>1. conns' \in Seq(Conn)
      BY DEF Typed
    <3>2. conns'[d] \in Conn
      BY <3>1, SMTT(20)
    <3>. QED
      BY <3>2 DEF Conn
  <2>4. PICK a, b \in Nat : a = Len(conns'[d].got) /\ b = Len(conns'[d].queue)
    BY <2>3, LenFacts
  <2>5. a + b \in Nat
    BY SMTT(20)
  <2>6. Passed(conns[u].mate)' = a + b
    BY <2>2, <2>4 DEF Passed
  <2>. QED
    BY <2>5, <2>6
<1>6. n + 1 .. 0 = {}
  BY SMTT(20)
<1>7. EventsAfter(u, n)' /\ FramesFollow(u, n)' /\ Whole(u, n)'
  BY <1>2, <1>3, <1>4, <1>6 DEF EventsAfter, FramesFollow, Whole
<1>8. FlowOK(u)'
  BY <1>5, <1>7 DEF FlowOK, EventsAfter, FramesFollow, Whole
<1>. QED
  BY <1>2, <1>3, <1>8 DEF EventsOK, FramesOK

\* A stream that such a step is not about.
LEMMA RemainsStream ==
  ASSUME Typed, Typed', TableInv, NEW m \in DOMAIN conns, conns[m].mate # 0, StreamOK(m),
         NEW z \in Ends, z = conns[m].end, Control(z),
         NEW d, d = conns[m].mate, d \in DOMAIN conns, Remains(m), Remains(d)
  PROVE  StreamOK(m)'
<1>1. PICK k, q \in Nat : PassiveLink(z, k) /\ PassiveEvents(z, q) /\ Heard(z, k)
  BY DEF Control
<1>2. SenderStays(m) /\ SenderStays(d)
  BY DEF Remains
<1>3. z = conns'[m].end /\ conns'[m].mate = d
  BY <1>2 DEF SenderStays
<1>4. Shifts(link[z], link'[z], k) /\ Shifts(events[z], events'[z], q)
  BY <1>1 DEF PassiveLink, PassiveEvents
<1>5. Moves(m, k, q)
  BY <1>3, <1>4, MovesFacts
<1>6. NoNewFrames(m, k) /\ NoNewEvents(m, q)
  <2>1. /\ \A i \in DOMAIN link'[z] : i + k \in DOMAIN link[z] \/ ~FrameItem(link'[z][i])
        /\ \A j \in DOMAIN events'[z] : j + q \in DOMAIN events[z] \/ ~EventItem(events'[z][j])
    BY <1>1 DEF PassiveLink, PassiveEvents
  <2>. QED
    BY <1>3, <1>4, <2>1, NoNewItems
<1>7. Answered(m, k)
  <2>1. KeepsAnswer(z, d, k)
    BY <1>1 DEF Heard
  <2>2. conns'[d].id = conns[d].id
    BY <1>2 DEF SenderStays
  <2>. QED
    BY <1>2, <1>4, <2>1, <2>2, AnsweredKeeps
<1>8. FlowStays(m, k, q)
  <2>1. Passed(d) \in Nat /\ Passed(d)' = Passed(d)
    BY PassedTypes DEF Remains, Passed
  <2>2. Total(m) \in Nat /\ Total(m)' = Total(m)
    <3>1. conns[m].read \in Nat
      BY ConnTypes
    <3>2. conns[m].read + 1 \in Nat
      BY <3>1, SMTT(20)
    <3>. QED
      BY <3>1, <3>2 DEF Total, Remains
  <2>3. (\A i \in Nat : FrameOf(m, i) => i > k) /\ (\A j \in Nat : EventOf(m, j) => j > q)
    BY <1>1 DEF PassiveLink, PassiveEvents, FrameOf, EventOf, Fr, Ev
  <2>4. (Receiving(d)' => Receiving(d)) /\ (Sending(m)' => Total(m) = 0 \/ Sending(m))
    BY DEF Remains
  <2>5. Receiving(conns[m].mate)' <=> Receiving(d)'
    BY <1>3 DEF Receiving, Registered, Sid
  <2>6. Passed(conns[m].mate)' = Passed(d)'
    BY <1>3 DEF Passed
  <2>. QED
    BY <2>1, <2>2, <2>3, <2>4, <2>5, <2>6 DEF FlowStays
<1>. QED
  BY <1>2, <1>5, <1>6, <1>7, <1>8, QuietKeeps DEF Quiet

\* All of them.
LEMMA ControlStreams ==
  ASSUME Typed, Typed', TableInv, TableInv', StreamInv, \A z \in Ends : Control(z),
         DOMAIN conns \subseteq DOMAIN conns',
         \A u \in DOMAIN conns : conns[u].mate # 0 => Remains(u),
         \A u \in DOMAIN conns' : (u \in DOMAIN conns => conns[u].mate = 0) => Fresh(u)
  PROVE  StreamInv'
<1>1. OwnerInv /\ \A u \in DOMAIN conns : StreamOK(u) /\ GotOK(u)
  BY DEF StreamInv
<1>2. \A u \in DOMAIN conns : conns[u].mate # 0 =>
         u \in DOMAIN conns' /\ conns'[u].end = conns[u].end /\ conns'[u].mate # 0
  BY DEF Remains, SenderStays
<1>3. ASSUME NEW z \in Ends
      PROVE  OwnersOK(z)'
  <2>1. PICK k, q \in Nat : PassiveLink(z, k) /\ PassiveEvents(z, q)
    BY DEF Control
  <2>2. /\ Shifts(link[z], link'[z], k) /\ Shifts(events[z], events'[z], q)
        /\ \A i \in DOMAIN link'[z] : i + k \in DOMAIN link[z] \/ ~FrameItem(link'[z][i])
        /\ \A j \in DOMAIN events'[z] : j + q \in DOMAIN events[z] \/ ~EventItem(events'[z][j])
    BY <2>1 DEF PassiveLink, PassiveEvents
  <2>. QED
    BY <1>1, <1>2, <2>2, OwnersKeep
<1>4. ASSUME NEW u \in DOMAIN conns, conns[u].mate # 0
      PROVE  StreamOK(u)' /\ GotOK(u)'
  <2>1. PICK d, z : /\ d = conns[u].mate /\ z = conns[u].end /\ z \in Ends
                    /\ d \in DOMAIN conns /\ conns[d].mate = u /\ u # 0
    BY <1>4, ConnTypes DEF TableInv, MateInv, MateOK
  <2>2. Remains(u) /\ Remains(d) /\ StreamOK(u) /\ GotOK(u) /\ Control(z)
    BY <1>1, <1>4, <2>1
  <2>3. StreamOK(u)'
    BY <1>4, <2>1, <2>2, RemainsStream
  <2>4. SenderStays(d) /\ conns'[u].mate = d /\ conns'[u].got = conns[u].got /\ conns'[u].queue = conns[u].queue
    BY <2>1, <2>2 DEF Remains, SenderStays
  <2>5. conns'[u].writer = "off" => conns[u].queue = <<>>
    BY <2>2 DEF Remains, GotOK
  <2>6. d # 0 /\ conns'[u].reader = "off" /\ conns'[u].writer \in {"draining", "off"} =>
           conns[d].reader = "eof" /\ Passed(u) = conns[d].read
    BY <2>1, <2>2 DEF Remains, GotOK
  <2>7. GotOK(u)'
    BY <2>1, <2>2, <2>4, <2>5, <2>6, GotKeeps
  <2>. QED
    BY <2>3, <2>7
<1>5. ASSUME NEW u \in DOMAIN conns', u \in DOMAIN conns => conns[u].mate = 0
      PROVE  StreamOK(u)' /\ GotOK(u)'
  <2>1. Fresh(u)
    BY <1>5
  <2>2. PICK z \in Ends : z = conns'[u].end
    <3>1. conns' \in Seq(Conn)
      BY DEF Typed
    <3>2. conns'[u] \in Conn
      BY <3>1, SMTT(20)
    <3>. QED
      BY <3>2 DEF Conn
  <2>3. PICK k, q \in Nat : PassiveLink(z, k) /\ PassiveEvents(z, q)
    BY DEF Control
  <2>. QED
    BY <1>1, <1>5, <2>1, <2>2, <2>3, FreshGot, FreshStream
<1>6. \A u \in DOMAIN conns' : StreamOK(u)' /\ GotOK(u)'
  BY <1>4, <1>5
<1>. QED
  BY <1>3, <1>6 DEF StreamInv, OwnerInv

\* Nothing that a queue loses or gains is an item of a stream.
LEMMA StillPassive ==
  ASSUME Typed, NEW z \in Ends
  PROVE  /\ link'[z] = link[z] => PassiveLink(z, 0)
         /\ events'[z] = events[z] => PassiveEvents(z, 0)
<1>1. \A i \in Nat : ~(i <= 0) => i > 0
  BY SMTT(20)
<1>2. PICK x \in Seq(PeerFrame), y \in Seq(LocalEvent) : x = link[z] /\ y = events[z]
  BY DEF Typed
<1>3. (\A i \in DOMAIN x : i \in Nat) /\ (\A j \in DOMAIN y : j \in Nat)
  BY SMTT(20)
<1>. QED
  BY <1>1, <1>2, <1>3, StillQueues DEF PassiveLink, PassiveEvents

\* An event that is no item joins the queue of e.
LEMMA PostPassive ==
  ASSUME Typed, NEW e \in Ends, NEW x \in LocalEvent, events' = [events EXCEPT ![e] = Append(@, x)],
         ~EventItem(x), NEW z \in Ends
  PROVE  PassiveEvents(z, 0)
<1>1. /\ Shifts(events[z], events'[z], 0)
      /\ \A i \in DOMAIN events'[z] : i + 0 \notin DOMAIN events[z] => z = e /\ i = Len(events[e]) + 1
      /\ events'[e][Len(events[e]) + 1] = x
  BY PostFacts
<1>2. PICK y \in Seq(LocalEvent) : y = events[z]
  BY DEF Typed
<1>3. \A j \in DOMAIN y : j > 0
  BY SMTT(20)
<1>. QED
  BY <1>1, <1>2, <1>3 DEF PassiveEvents

\* An event that is no item is taken.
LEMMA TakePassive ==
  ASSUME Typed, NEW e \in Ends, events[e] # <<>>, Take(e), ~EventItem(events[e][1])
  PROVE  PassiveEvents(e, 1)
<1>1. Shifts(events[e], events'[e], 1) /\ \A j \in DOMAIN events'[e] : j + 1 \in DOMAIN events[e]
  BY TakeFacts
<1>2. PICK y \in Seq(LocalEvent) : y = events[e]
  BY DEF Typed
<1>3. \A j \in DOMAIN y : j # 1 => j > 1
  BY SMTT(20)
<1>. QED
  BY <1>1, <1>2, <1>3 DEF PassiveEvents

\* A frame that is no item is sent.
LEMMA EmitPassive ==
  ASSUME Typed, NEW e \in Ends, NEW f \in PeerFrame, Emit(e, << f >>), ~FrameItem(f), NEW z \in Ends
  PROVE  PassiveLink(z, 0)
<1>1. PICK one \in Seq(PeerFrame) :
         one = << f >> /\ one # <<>> /\ Len(one) = 1 /\ one[1] = f /\ DOMAIN one = {1}
  BY OneFrame
<1>2. Emit(e, one)
  BY <1>1
<1>3. /\ \A d \in Ends : d # e => link'[d] = link[d]
      /\ Shifts(link[e], link'[e], 0)
      /\ \A i \in DOMAIN link'[e] : i + 0 \notin DOMAIN link[e] =>
            i - Len(link[e]) \in DOMAIN one /\ link'[e][i] = one[i - Len(link[e])]
  BY <1>2, EmitFacts
<1>4. PICK y \in Seq(PeerFrame) : y = link[e]
  BY DEF Typed
<1>5. \A j \in DOMAIN y : j > 0
  BY SMTT(20)
<1>6. PassiveLink(e, 0)
  BY <1>1, <1>3, <1>4, <1>5 DEF PassiveLink
<1>. QED
  BY <1>3, <1>6, StillPassive

\* A frame that is no item is answered by one.
LEMMA AnswerPassive ==
  ASSUME Typed, NEW e \in Ends, NEW p, p = Peer(e), NEW f \in PeerFrame, Answer(e, << f >>), ~FrameItem(f),
         link[p] # <<>>, ~FrameItem(link[p][1])
  PROVE  PassiveLink(e, 0) /\ PassiveLink(p, 1)
<1>1. PICK one \in Seq(PeerFrame) :
         one = << f >> /\ one # <<>> /\ Len(one) = 1 /\ one[1] = f /\ DOMAIN one = {1}
  BY OneFrame
<1>2. Answer(e, one)
  BY <1>1
<1>3. /\ Shifts(link[p], link'[p], 1) /\ \A i \in DOMAIN link'[p] : i + 1 \in DOMAIN link[p]
      /\ Shifts(link[e], link'[e], 0)
      /\ \A i \in DOMAIN link'[e] : i + 0 \notin DOMAIN link[e] =>
            i - Len(link[e]) \in DOMAIN one /\ link'[e][i] = one[i - Len(link[e])]
  BY <1>2, AnswerFacts
<1>4. PICK y \in Seq(PeerFrame), x \in Seq(PeerFrame) : y = link[e] /\ x = link[p]
  BY PeerFacts DEF Typed
<1>5. (\A j \in DOMAIN y : j > 0) /\ (\A j \in DOMAIN x : j # 1 => j > 1)
  BY SMTT(20)
<1>6. PassiveLink(e, 0)
  BY <1>1, <1>3, <1>4, <1>5 DEF PassiveLink
<1>7. PassiveLink(p, 1)
  BY <1>3, <1>4, <1>5 DEF PassiveLink
<1>. QED
  BY <1>6, <1>7

\* Nobody that still waits loses an answer when no answer is taken.
LEMMA HeardAll ==
  ASSUME Typed, TableInv, NEW z \in Ends, NEW k,
         \A u \in DOMAIN conns : conns[u].mate # 0 /\ conns'[u].reader = "none" => conns[u].reader = "none",
         \A i \in DOMAIN link[z] : i <= k => link[z][i].h # "RESPONSE"
  PROVE  Heard(z, k)
<1>1. ASSUME NEW u \in DOMAIN conns, conns[u].mate # 0
      PROVE  KeepsAnswer(z, conns[u].mate, k)
  <2>1. PICK d : d = conns[u].mate /\ d \in DOMAIN conns /\ conns[d].mate = u /\ u # 0
    BY <1>1, ConnTypes DEF TableInv, MateInv, MateOK
  <2>2. conns'[d].reader = "none" => conns[d].reader = "none"
    BY <2>1
  <2>. QED
    BY <2>1, <2>2 DEF KeepsAnswer
<1>. QED
  BY <1>1 DEF Heard

\* A connection that does not change, and is not registered.
LEMMA RemainsSame ==
  ASSUME Typed, TableInv, NEW u \in DOMAIN conns, conns[u].mate # 0, u \in DOMAIN conns', conns'[u] = conns[u],
         conns'[conns[u].mate].id = conns[conns[u].mate].id,
         Registered(u)' => Registered(u), Sending(u)' => Sending(u)
  PROVE  Remains(u)
<1>1. conns[u].read \in Nat /\ conns[u].read >= conns[u].read
  BY ConnTypes, SMTT(20)
<1>2. Sid(u)' = Sid(u)
  BY DEF Sid
<1>3. SenderStays(u) /\ Total(u)' = Total(u)
  BY <1>1, <1>2 DEF SenderStays, Total
<1>4. Receiving(u)' => Receiving(u)
  BY DEF Receiving
<1>. QED
  BY <1>3, <1>4 DEF Remains

\* A step that leaves tunnels and tables as they are.
LEMMA IdleRemains ==
  ASSUME Typed, TableInv,
         \A u \in DOMAIN conns : u \in DOMAIN conns' /\ (conns[u].mate # 0 => conns'[u] = conns[u]),
         \A d \in Ends : /\ state'[d].destinations = state[d].destinations
                         /\ state'[d].source_sockets = state[d].source_sockets
                         /\ state'[d].source_conn_ids = state[d].source_conn_ids,
         NEW u \in DOMAIN conns, conns[u].mate # 0
  PROVE  Remains(u)
<1>1. PICK d : d = conns[u].mate /\ d \in DOMAIN conns /\ conns[d].mate = u /\ u # 0
  BY ConnTypes DEF TableInv, MateInv, MateOK
<1>2. conns'[d] = conns[d] /\ conns'[u] = conns[u] /\ conns[u].end \in Ends
  BY <1>1, ConnTypes
<1>3. Sid(u)' = Sid(u)
  BY <1>1, <1>2 DEF Sid
<1>4. (Registered(u)' => Registered(u)) /\ (Sending(u)' => Sending(u))
  BY <1>2, <1>3 DEF Registered, Sending
<1>. QED
  BY <1>1, <1>2, <1>4, RemainsSame

\* A connection without a tunnel.
LEMMA LoneFresh ==
  ASSUME NEW u, conns'[u].mate = 0
  PROVE  Fresh(u)
BY DEF Fresh

\* An accept leaves the streams alone.
LEMMA AcceptStreams ==
  ASSUME Typed, TableInv, AskInv, StreamInv, NEW e \in Ends, Accept(e)
  PROVE  StreamInv'
<1>1. PICK n \in Nat \ {0} :
         /\ n = Len(conns) + 1 /\ n \notin DOMAIN conns /\ DOMAIN conns' = DOMAIN conns \cup {n}
         /\ Typed' /\ state' = state /\ link' = link
         /\ conns'[n] = Local(e, "source", 0, 0) /\ \A u \in DOMAIN conns : conns'[u] = conns[u]
         /\ events' = [events EXCEPT ![e] = Append(@, Accepted(n))] /\ Accepted(n) \in LocalEvent
  BY AcceptEffect
<1>2. TableInv'
  BY AcceptKeeps
<1>3. ASSUME NEW z \in Ends
      PROVE  Control(z)
  <2>1. ~EventItem(Accepted(n))
    BY DEF EventItem, Accepted
  <2>2. PassiveEvents(z, 0)
    BY <1>1, <2>1, PostPassive
  <2>3. PassiveLink(z, 0)
    BY <1>1, StillPassive
  <2>4. \A i \in DOMAIN link[z] : i <= 0 => link[z][i].h # "RESPONSE"
    BY StillQueues
  <2>5. Heard(z, 0)
    BY <1>1, <2>4, HeardAll
  <2>6. 0 \in Nat
    BY SMTT(20)
  <2>. QED
    BY <2>2, <2>3, <2>5, <2>6 DEF Control
<1>4. \A u \in DOMAIN conns : conns[u].mate # 0 => Remains(u)
  BY <1>1, IdleRemains
<1>5. \A u \in DOMAIN conns' : (u \in DOMAIN conns => conns[u].mate = 0) => Fresh(u)
  <2>1. conns'[n].mate = 0
    <3>1. conns'[n] = Local(e, "source", 0, 0)
      BY <1>1
    <3>. QED
      BY <3>1, SMTT(20) DEF Local
  <2>. QED
    BY <1>1, <2>1, LoneFresh
<1>6. DOMAIN conns \subseteq DOMAIN conns'
  BY <1>1
<1>. QED
  BY <1>1, <1>2, <1>3, <1>4, <1>5, <1>6, ControlStreams

\* So does the request sent for an accepted connection.
LEMMA HandleAcceptedStreams ==
  ASSUME Typed, TableInv, AskInv, StreamInv, IdsLeft, NEW e \in Ends, HandleAccepted(e)
  PROVE  Typed' /\ TableInv' /\ AskInv' /\ StreamInv'
<1>1. Typed' /\ \E t \in DOMAIN conns, id \in Nat \ {0} : Numbers(e, t, id)
  BY HandleAcceptedEffect
<1>2. PICK t \in DOMAIN conns, id \in Nat \ {0} : Numbers(e, t, id)
  BY <1>1
<1>3. TableInv' /\ AskInv'
  BY <1>1, <1>2, HandleAcceptedTables, HandleAcceptedAsks
<1>4. /\ events[e] # <<>> /\ Take(e) /\ Arrives(e, 1, t) /\ conns[t].mate = 0
      /\ DOMAIN conns' = DOMAIN conns /\ conns'[t] = [conns[t] EXCEPT !.id = id]
      /\ \A u \in DOMAIN conns : u # t => conns'[u] = conns[u]
      /\ Emit(e, << Request(id) >>) /\ Request(id) \in PeerFrame
  BY <1>2 DEF Numbers
<1>5. \A d \in Ends : /\ state'[d].destinations = state[d].destinations
                      /\ state'[d].source_sockets = state[d].source_sockets
                      /\ state'[d].source_conn_ids = state[d].source_conn_ids
  BY <1>2 DEF Numbers
<1>6. ASSUME NEW z \in Ends
      PROVE  Control(z)
  <2>1. ~FrameItem(Request(id))
    BY DEF FrameItem, Request
  <2>2. PassiveLink(z, 0)
    BY <1>4, <2>1, EmitPassive
  <2>3. \E q \in Nat : PassiveEvents(z, q)
    <3>1. CASE z = e
      <4>1. ~EventItem(events[e][1])
        BY <1>4 DEF Arrives, EventItem
      <4>2. PassiveEvents(e, 1)
        BY <1>4, <4>1, TakePassive
      <4>3. 1 \in Nat
        BY SMTT(20)
      <4>. QED
        BY <3>1, <4>2, <4>3
    <3>2. CASE z # e
      <4>1. events'[z] = events[z]
        BY <1>4, <3>2, TakeFacts
      <4>2. 0 \in Nat
        BY SMTT(20)
      <4>. QED
        BY <4>1, <4>2, StillPassive
    <3>. QED
      BY <3>1, <3>2
  <2>4. \A i \in DOMAIN link[z] : i <= 0 => link[z][i].h # "RESPONSE"
    BY StillQueues
  <2>5. Heard(z, 0)
    <3>1. \A u \in DOMAIN conns : conns[u].mate # 0 => conns'[u] = conns[u]
      BY <1>4
    <3>. QED
      BY <2>4, <3>1, HeardAll
  <2>6. 0 \in Nat
    BY SMTT(20)
  <2>. QED
    BY <2>2, <2>3, <2>5, <2>6 DEF Control
<1>7. \A u \in DOMAIN conns : conns[u].mate # 0 => Remains(u)
  BY <1>4, <1>5, IdleRemains
<1>8. \A u \in DOMAIN conns' : (u \in DOMAIN conns => conns[u].mate = 0) => Fresh(u)
  <2>1. conns[t] \in Conn /\ conns[t].mate = 0 /\ conns'[t] = [conns[t] EXCEPT !.id = id]
    BY <1>4, ConnTypes
  <2>2. conns'[t].mate = 0
    BY <2>1 DEF Conn
  <2>. QED
    BY <1>4, <2>2, LoneFresh
<1>9. StreamInv'
  BY <1>1, <1>3, <1>4, <1>6, <1>7, <1>8, ControlStreams
<1>. QED
  BY <1>1, <1>3, <1>9

\* A request is taken and answered.
LEMMA AnswerControl ==
  ASSUME Typed, TableInv, NEW e \in Ends, Incoming(e, {"REQUEST"}), NEW f \in PeerFrame, f.h = "RESPONSE",
         Answer(e, << f >>), events' = events,
         \A u \in DOMAIN conns : conns[u].mate # 0 => conns'[u].reader = conns[u].reader,
         NEW z \in Ends
  PROVE  Control(z)
<1>1. PICK p \in Ends : p = Peer(e) /\ p # e /\ (z = e \/ z = p)
  BY PeerFacts
<1>2. PICK x \in Seq(PeerFrame) : x = link[p] /\ x # <<>> /\ Head(x).h = "REQUEST"
  BY <1>1 DEF Typed, Incoming
<1>3. x[1].h = "REQUEST" /\ \A i \in DOMAIN x : i <= 1 => i = 1
  BY <1>2, SMTT(20)
<1>4. ~FrameItem(f) /\ ~FrameItem(x[1])
  BY <1>3 DEF FrameItem
<1>5. PassiveLink(e, 0) /\ PassiveLink(p, 1)
  BY <1>1, <1>2, <1>4, AnswerPassive
<1>6. PassiveEvents(z, 0)
  BY StillPassive
<1>7. Heard(e, 0)
  BY StillQueues, HeardAll
<1>8. Heard(p, 1)
  <2>1. \A i \in DOMAIN link[p] : i <= 1 => link[p][i].h # "RESPONSE"
    BY <1>2, <1>3
  <2>. QED
    BY <2>1, HeardAll
<1>9. 0 \in Nat /\ 1 \in Nat
  BY SMTT(20)
<1>. QED
  BY <1>1, <1>5, <1>6, <1>7, <1>8, <1>9 DEF Control

\* An answer to a request is a frame.
LEMMA ResponseFrame ==
  ASSUME Typed, NEW e \in Ends, Incoming(e, {"REQUEST"}), NEW sid \in Nat
  PROVE  Response(Frame(e).id, sid) \in PeerFrame /\ Response(Frame(e).id, sid).h = "RESPONSE"
<1>1. PICK x \in Seq(PeerFrame) : x = link[Peer(e)] /\ x # <<>> /\ Frame(e) = Head(x)
  BY PeerFacts DEF Typed, Incoming, Frame
<1>2. Head(x) \in PeerFrame
  BY <1>1, SMTT(20)
<1>3. PICK i \in Nat : i = Frame(e).id
  BY <1>1, <1>2 DEF PeerFrame
<1>4. Response(i, sid) \in PeerFrame /\ Response(i, sid).h = "RESPONSE"
  BY DEF Response, PeerFrame, Chunk
<1>. QED
  BY <1>3, <1>4

=============================================================================
