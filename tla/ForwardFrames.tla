--------------------------- MODULE ForwardFrames ---------------------------
(***************************************************************************)
(* Proofs about module Forward, fourth part: the handlers that pass on     *)
(* what was read, and those of the frames that arrive.                     *)
(***************************************************************************)
EXTENDS ForwardStreams

\* Most leaves are first-order; those that need more cite SMT.
USE ZenonT(20)

-----------------------------------------------------------------------------
(* handle_read. *)

\* f carries what x does.
Copies(f, x, sid, src) ==
    /\ FrameItem(f) /\ f.chunk = x.chunk /\ f.sid = sid /\ f.s2d = src
    /\ f.h = "DATA" <=> x.k = "read"

\* The first event of m joins the N frames of its end.
Forwards(m, x, N, sid, src) ==
    /\ EventOf(m, 1) /\ Ev(m, 1) = x
    /\ \A i \in Nat : FrameOf(m, i) => i <= N /\ FrameOf(m, i)' /\ Fr(m, i)' = Fr(m, i)
    /\ \A i \in Nat : FrameOf(m, i)' => FrameOf(m, i) \/ (i > N /\ Copies(Fr(m, i)', x, sid, src))
    /\ \E i \in Nat : i > N /\ FrameOf(m, i)' /\ Copies(Fr(m, i)', x, sid, src)
    /\ x.k = "read" => \A i, l \in Nat : FrameOf(m, i)' /\ FrameOf(m, l)' /\ i > N /\ l > N => i = l

\* An item passed on is the last frame of its end.
LEMMA ForwardsFacts ==
  ASSUME Typed, Typed', NEW m, NEW e \in Ends, e = conns[m].end, e = conns'[m].end,
         NEW x, EventOf(m, 1), Ev(m, 1) = x, Owner(x) = m, NEW t, NEW sid, NEW src,
         NEW frames \in Seq(PeerFrame), frames # <<>>, Passes(e, x, t, sid, src, frames)
  PROVE  \E N \in Nat : Forwards(m, x, N, sid, src) /\ \A i \in DOMAIN link[e] : i <= N
<1>1. /\ Emit(e, frames)
      /\ \A j \in DOMAIN frames : Copies(frames[j], x, sid, src)
      /\ x.k = "read" => Len(frames) <= 1
  BY DEF Passes, Copies
<1>2. PICK N \in Nat : N = Len(link[e]) /\ DOMAIN link[e] = 1 .. N
  <2>1. link[e] \in Seq(PeerFrame)
    BY DEF Typed
  <2>. QED
    BY <2>1, LenFacts
<1>3. /\ Shifts(link[e], link'[e], 0)
      /\ \A i \in DOMAIN link'[e] : i + 0 \notin DOMAIN link[e] =>
            i - N \in DOMAIN frames /\ link'[e][i] = frames[i - N]
      /\ \A j \in DOMAIN frames : N + j \in DOMAIN link'[e] /\ link'[e][N + j] = frames[j]
  <2>1. Emit(e, frames)
    BY <1>1
  <2>2. /\ Shifts(link[e], link'[e], 0)
        /\ \A i \in DOMAIN link'[e] : i + 0 \notin DOMAIN link[e] =>
              i - Len(link[e]) \in DOMAIN frames /\ link'[e][i] = frames[i - Len(link[e])]
        /\ \A j \in DOMAIN frames :
              Len(link[e]) + j \in DOMAIN link'[e] /\ link'[e][Len(link[e]) + j] = frames[j]
    BY <2>1, EmitFacts
  <2>. QED
    BY <1>2, <2>2
<1>4. PICK M \in Nat : M = Len(frames) /\ DOMAIN frames = 1 .. M /\ M # 0
  <2>1. PICK M \in Nat : M = Len(frames) /\ DOMAIN frames = 1 .. M
    BY LenFacts
  <2>2. Len(frames) # 0
    BY SMTT(20)
  <2>. QED
    BY <2>1, <2>2
<1>5. \A i \in Nat : i + 0 = i
  BY SMTT(20)
<1>6. \A i \in DOMAIN link[e] : i \in DOMAIN link'[e] /\ link'[e][i] = link[e][i] /\ i \in Nat /\ i <= N
  <2>1. \A i \in DOMAIN link[e] : i \in Nat /\ i > 0 /\ i <= N
    BY <1>2, SMTT(20)
  <2>2. \A i \in DOMAIN link[e] : i > 0 => i - 0 \in DOMAIN link'[e]
    BY <1>3 DEF Shifts
  <2>3. \A i \in DOMAIN link'[e] : i + 0 \in DOMAIN link[e] => link'[e][i] = link[e][i + 0]
    BY <1>3 DEF Shifts
  <2>4. \A i \in Nat : i - 0 = i
    BY SMTT(20)
  <2>. QED
    BY <1>5, <2>1, <2>2, <2>3, <2>4
<1>7. \A f : Copies(f, x, sid, src) => FrameItem(f) /\ Owner(f) = m
  BY DEF Copies, Owner
<1>8. \A i \in Nat : FrameOf(m, i) => i <= N /\ FrameOf(m, i)' /\ Fr(m, i)' = Fr(m, i)
  BY <1>6 DEF FrameOf, Fr
<1>9. \A i \in DOMAIN link'[e] : i \notin DOMAIN link[e] =>
         i > N /\ i \in Nat /\ i - N \in DOMAIN frames /\ Copies(link'[e][i], x, sid, src)
  <2>1. \A i \in DOMAIN link'[e] : i \in Nat \ {0}
    <3>1. link'[e] \in Seq(PeerFrame)
      BY DEF Typed
    <3>. QED
      BY <3>1, SMTT(20)
  <2>2. \A i \in Nat \ {0} : i \notin 1 .. N => i > N
    BY SMTT(20)
  <2>. QED
    BY <1>1, <1>2, <1>3, <1>5, <2>1, <2>2
<1>10. \A i \in Nat : FrameOf(m, i)' => FrameOf(m, i) \/ (i > N /\ Copies(Fr(m, i)', x, sid, src))
  BY <1>6, <1>9 DEF FrameOf, Fr
<1>11. \E i \in Nat : i > N /\ FrameOf(m, i)' /\ Copies(Fr(m, i)', x, sid, src)
  <2>1. 1 \in DOMAIN frames /\ N + 1 \in Nat /\ N + 1 > N
    BY <1>4, SMTT(20)
  <2>2. N + 1 \in DOMAIN link'[e] /\ Copies(link'[e][N + 1], x, sid, src)
    BY <1>1, <1>3, <2>1
  <2>. QED
    BY <1>7, <2>1, <2>2 DEF FrameOf, Fr
<1>12. x.k = "read" => \A i, l \in Nat : FrameOf(m, i)' /\ FrameOf(m, l)' /\ i > N /\ l > N => i = l
  <2>1. ASSUME x.k = "read", NEW i \in Nat, NEW l \in Nat, FrameOf(m, i)', FrameOf(m, l)', i > N, l > N
        PROVE  i = l
    <3>1. i \in DOMAIN link'[e] /\ l \in DOMAIN link'[e]
      BY <2>1 DEF FrameOf
    <3>2. ~(i <= N) /\ ~(l <= N)
      BY <2>1, SMTT(20)
    <3>3. i - N \in DOMAIN frames /\ l - N \in DOMAIN frames
      BY <1>6, <1>9, <3>1, <3>2
    <3>4. M <= 1
      BY <1>1, <1>4, <2>1
    <3>. QED
      BY <1>4, <2>1, <3>3, <3>4, SMTT(20)
  <2>. QED
    BY <2>1
<1>. QED
  BY <1>6, <1>8, <1>10, <1>11, <1>12 DEF Forwards

\* What m's engine passes on keeps its place between what is in flight and what
\* waits.
LEMMA PassOrder ==
  ASSUME NEW m, SenderStays(m), NEW x, NEW N \in Nat, NEW sid, NEW src, Forwards(m, x, N, sid, src),
         sid = Sid(m), src = (conns[m].role = "source"),
         Moves(m, 0, 1), NoNewEvents(m, 1), Answered(m, 0), EventsOK(m), FramesOK(m),
         conns[conns[m].mate].reader = "none" =>
            \E i \in Nat : i <= N /\ Asks(conns[m].end, i, "RESPONSE", conns[conns[m].mate].id)
  PROVE  EventsOK(m)' /\ FramesOK(m)'
<1>1. EventsOK(m)'
  <2>1. 0 \in Nat /\ 1 \in Nat
    BY SMTT(20)
  <2>. QED
    BY <2>1, EventsKeep
<1>2. PICK d : d = conns[m].mate /\ d = conns'[m].mate
  BY DEF SenderStays
<1>3. /\ EventOf(m, 1) /\ Ev(m, 1) = x /\ 1 \in Nat
      /\ ItemOK(m, x, x.k # "read") /\ Num(x) \in Nat
  <2>1. EventOf(m, 1) /\ Ev(m, 1) = x /\ 1 \in Nat
    BY SMTT(20) DEF Forwards
  <2>2. ItemOK(m, x, x.k # "read")
    BY <2>1 DEF EventsOK
  <2>. QED
    BY <2>1, <2>2 DEF ItemOK
<1>4. \A j \in Nat : EventOf(m, j)' => j # 0 /\ j + 1 \in Nat /\ EventOf(m, j + 1) /\ Ev(m, j)' = Ev(m, j + 1) /\ j + 1 > 1
  <2>1. \A j \in Nat : j # 0 => j + 1 \in Nat /\ j + 1 > 1
    BY SMTT(20)
  <2>2. \A j \in Nat : EventOf(m, j)' => EventOf(m, j + 1) /\ j # 0
    BY DEF NoNewEvents, Moves
  <2>3. \A j \in Nat : EventOf(m, j + 1) /\ j # 0 => Ev(m, j)' = Ev(m, j + 1)
    BY DEF Moves
  <2>. QED
    BY <2>1, <2>2, <2>3
<1>5. /\ \A i \in Nat : FrameOf(m, i) => i <= N /\ FrameOf(m, i)' /\ Fr(m, i)' = Fr(m, i)
      /\ \A i \in Nat : FrameOf(m, i)' => FrameOf(m, i) \/ (i > N /\ Copies(Fr(m, i)', x, sid, src))
      /\ x.k = "read" => \A i, l \in Nat : FrameOf(m, i)' /\ FrameOf(m, l)' /\ i > N /\ l > N => i = l
  BY DEF Forwards
<1>6. \A f : Copies(f, x, sid, src) => Num(f) = Num(x) /\ f.chunk = x.chunk /\ (f.h = "DATA" <=> x.k = "read")
  BY DEF Copies, Num
<1>7. \A i, l \in Nat : (i <= N /\ l > N => l > i) /\ (i > N /\ l > i => l > N) /\ (i > N => ~(i <= N))
  BY SMTT(20)
<1>8. ASSUME conns'[conns'[m].mate].reader = "none", NEW i \in Nat,
             \E j \in Nat : j < i /\ Asks(conns[m].end, j, "RESPONSE", conns[conns[m].mate].id)
      PROVE  \E j \in Nat : j < i /\ Asks(conns[m].end, j, "RESPONSE", conns[conns[m].mate].id)'
  <2>1. PICK j \in Nat : j < i /\ Asks(conns[m].end, j, "RESPONSE", conns[conns[m].mate].id)
    BY <1>8
  <2>2. conns'[conns[m].mate].reader = "none"
    BY <1>2, <1>8
  <2>3. PICK l \in Nat : l + 0 = j /\ Asks(conns[m].end, l, "RESPONSE", conns[conns[m].mate].id)'
    BY <2>1, <2>2 DEF Answered
  <2>4. l = j
    BY <2>3, SMTT(20)
  <2>. QED
    BY <2>1, <2>3, <2>4
<1>9. conns'[conns'[m].mate].reader = "none" => conns[conns[m].mate].reader = "none"
  <2>1. conns'[conns[m].mate].reader = "none" => conns[conns[m].mate].reader = "none"
    BY DEF Answered
  <2>2. conns'[m].mate = conns[m].mate
    BY <1>2
  <2>. QED
    BY <2>1, <2>2, SMTT(20)
<1>10. ASSUME NEW i \in Nat, FrameOf(m, i)', NEW f, f = Fr(m, i)',
              ItemOK(m, f, f.h # "DATA"), f.sid = Sid(m), f.s2d = (conns[m].role = "source"),
              conns'[conns'[m].mate].reader = "none" =>
                 \E j \in Nat : j < i /\ Asks(conns[m].end, j, "RESPONSE", conns[conns[m].mate].id)',
              \A l \in Nat : FrameOf(m, l)' /\ l > i =>
                 Num(Fr(m, l)') >= Num(f) /\ (f.h = "DATA" => Num(Fr(m, l)') # Num(f)),
              \A j \in Nat : EventOf(m, j)' => Num(Ev(m, j)') > Num(f)
       PROVE  /\ ItemOK(m, Fr(m, i), Fr(m, i).h # "DATA")'
              /\ Fr(m, i)'.sid = Sid(m)' /\ Fr(m, i)'.s2d = (conns'[m].role = "source")
              /\ conns'[conns'[m].mate].reader = "none" =>
                    \E j \in Nat : j < i /\ Asks(conns[m].end, j, "RESPONSE", conns[conns[m].mate].id)'
              /\ \A l \in Nat : FrameOf(m, l)' /\ l > i =>
                    /\ Num(Fr(m, l))' >= Num(Fr(m, i))'
                    /\ Fr(m, i)'.h = "DATA" => Num(Fr(m, l))' # Num(Fr(m, i))'
              /\ \A j \in Nat : EventOf(m, j)' => Num(Ev(m, j))' > Num(Fr(m, i))'
  <2>1. ItemOK(m, f, f.h # "DATA")'
    BY <1>10, ItemKeeps DEF ItemOK, Num
  <2>2. f.sid = Sid(m)' /\ f.s2d = (conns'[m].role = "source")
    BY <1>10 DEF SenderStays
  <2>. QED
    BY <1>10, <2>1, <2>2 DEF Num, ItemOK
<1>11. ASSUME NEW i \in Nat, FrameOf(m, i)', NEW f, f = Fr(m, i)', FrameOf(m, i), f = Fr(m, i)
       PROVE  /\ ItemOK(m, f, f.h # "DATA") /\ f.sid = Sid(m) /\ f.s2d = (conns[m].role = "source")
              /\ conns'[conns'[m].mate].reader = "none" =>
                    \E j \in Nat : j < i /\ Asks(conns[m].end, j, "RESPONSE", conns[conns[m].mate].id)'
              /\ \A l \in Nat : FrameOf(m, l)' /\ l > i =>
                    Num(Fr(m, l)') >= Num(f) /\ (f.h = "DATA" => Num(Fr(m, l)') # Num(f))
              /\ \A j \in Nat : EventOf(m, j)' => Num(Ev(m, j)') > Num(f)
  <2>1. /\ ItemOK(m, f, f.h # "DATA") /\ f.sid = Sid(m) /\ f.s2d = (conns[m].role = "source")
        /\ conns[conns[m].mate].reader = "none" =>
              \E j \in Nat : j < i /\ Asks(conns[m].end, j, "RESPONSE", conns[conns[m].mate].id)
        /\ \A l \in Nat : FrameOf(m, l) /\ l > i =>
              Num(Fr(m, l)) >= Num(f) /\ (f.h = "DATA" => Num(Fr(m, l)) # Num(f))
        /\ \A j \in Nat : EventOf(m, j) => Num(Ev(m, j)) > Num(f)
    BY <1>11, SMTT(20) DEF FramesOK
  <2>2. ASSUME NEW l \in Nat, FrameOf(m, l)', l > i
        PROVE  Num(Fr(m, l)') >= Num(f) /\ (f.h = "DATA" => Num(Fr(m, l)') # Num(f))
    <3>1. CASE FrameOf(m, l)
      BY <1>5, <2>1, <2>2, <3>1
    <3>2. CASE Copies(Fr(m, l)', x, sid, src)
      <4>1. Num(Fr(m, l)') = Num(x) /\ Num(x) > Num(f) /\ Num(f) \in Nat
        BY <1>3, <1>6, <2>1, <3>2 DEF ItemOK
      <4>2. Num(x) >= Num(f) /\ Num(x) # Num(f)
        BY <1>3, <4>1, SMTT(20)
      <4>. QED
        BY <4>1, <4>2
    <3>. QED
      BY <1>5, <2>2, <3>1, <3>2
  <2>3. \A j \in Nat : EventOf(m, j)' => Num(Ev(m, j)') > Num(f)
    BY <1>4, <2>1
  <2>. QED
    BY <1>8, <1>9, <2>1, <2>2, <2>3
<1>12. ASSUME NEW i \in Nat, FrameOf(m, i)', NEW f, f = Fr(m, i)', i > N, Copies(f, x, sid, src)
       PROVE  /\ ItemOK(m, f, f.h # "DATA") /\ f.sid = Sid(m) /\ f.s2d = (conns[m].role = "source")
              /\ conns'[conns'[m].mate].reader = "none" =>
                    \E j \in Nat : j < i /\ Asks(conns[m].end, j, "RESPONSE", conns[conns[m].mate].id)'
              /\ \A l \in Nat : FrameOf(m, l)' /\ l > i =>
                    Num(Fr(m, l)') >= Num(f) /\ (f.h = "DATA" => Num(Fr(m, l)') # Num(f))
              /\ \A j \in Nat : EventOf(m, j)' => Num(Ev(m, j)') > Num(f)
  <2>1. Num(f) = Num(x) /\ f.chunk = x.chunk /\ (f.h = "DATA" <=> x.k = "read") /\ f.sid = sid /\ f.s2d = src
    BY <1>6, <1>12 DEF Copies
  <2>2. ItemOK(m, f, f.h # "DATA")
    BY <1>3, <2>1 DEF ItemOK
  <2>3. conns[conns[m].mate].reader = "none" =>
           \E j \in Nat : j < i /\ Asks(conns[m].end, j, "RESPONSE", conns[conns[m].mate].id)
    <3>1. \A j \in Nat : j <= N => j < i
      BY <1>12, SMTT(20)
    <3>. QED
      BY <3>1
  <2>4. ASSUME NEW l \in Nat, FrameOf(m, l)', l > i
        PROVE  Num(Fr(m, l)') >= Num(f) /\ (f.h = "DATA" => Num(Fr(m, l)') # Num(f))
    <3>1. l > N /\ l # i
      BY <1>12, <2>4, SMTT(20)
    <3>2. Copies(Fr(m, l)', x, sid, src)
      BY <1>5, <1>7, <2>4, <3>1
    <3>3. Num(Fr(m, l)') = Num(x) /\ Num(x) >= Num(x)
      BY <1>3, <1>6, <3>2, SMTT(20)
    <3>4. x.k # "read"
      BY <1>5, <1>12, <2>4, <3>1
    <3>. QED
      BY <2>1, <3>3, <3>4
  <2>5. \A j \in Nat : EventOf(m, j)' => Num(Ev(m, j)') > Num(f)
    <3>1. \A l \in Nat : EventOf(m, l) /\ l > 1 => Num(Ev(m, l)) > Num(x)
      BY <1>3 DEF EventsOK
    <3>. QED
      BY <1>4, <2>1, <3>1
  <2>. QED
    BY <1>8, <1>9, <2>1, <2>2, <2>3, <2>4, <2>5
<1>13. ASSUME NEW i \in Nat, FrameOf(m, i)'
       PROVE  /\ ItemOK(m, Fr(m, i), Fr(m, i).h # "DATA")'
              /\ Fr(m, i)'.sid = Sid(m)' /\ Fr(m, i)'.s2d = (conns'[m].role = "source")
              /\ conns'[conns'[m].mate].reader = "none" =>
                    \E j \in Nat : j < i /\ Asks(conns[m].end, j, "RESPONSE", conns[conns[m].mate].id)'
              /\ \A l \in Nat : FrameOf(m, l)' /\ l > i =>
                    /\ Num(Fr(m, l))' >= Num(Fr(m, i))'
                    /\ Fr(m, i)'.h = "DATA" => Num(Fr(m, l))' # Num(Fr(m, i))'
              /\ \A j \in Nat : EventOf(m, j)' => Num(Ev(m, j))' > Num(Fr(m, i))'
  <2>1. PICK f : f = Fr(m, i)'
    OBVIOUS
  <2>2. CASE FrameOf(m, i)
    <3>1. f = Fr(m, i)
      BY <1>5, <2>1, <2>2
    <3>. QED
      BY <1>10, <1>11, <1>13, <2>1, <2>2, <3>1
  <2>3. CASE i > N /\ Copies(f, x, sid, src)
    BY <1>10, <1>12, <1>13, <2>1, <2>3
  <2>. QED
    BY <1>5, <1>13, <2>1, <2>2, <2>3
<1>. QED
  BY <1>1, <1>13 DEF FramesOK

\* What m's engine passes on leaves no gap.
LEMMA PassFlow ==
  ASSUME NEW m, NEW d, d = conns[m].mate, d = conns'[m].mate,
         NEW x, NEW N \in Nat, NEW sid, NEW src, Forwards(m, x, N, sid, src),
         Moves(m, 0, 1), NoNewEvents(m, 1), EventsOK(m), Sending(m),
         Total(m) \in Nat, Total(m)' = Total(m), conns[m].read \in Nat,
         NEW n \in Nat, n = Passed(d), n = Passed(d)',
         Receiving(d)' => Receiving(d), FlowOK(m), \A j \in Nat : EventOf(m, j) => j > 0
  PROVE  FlowOK(m)'
<1>1. SUFFICES ASSUME Receiving(d)'
               PROVE  EventsAfter(m, n)' /\ FramesFollow(m, n)' /\ (Sending(m)' => Whole(m, n)')
  BY FlowFrom
<1>2. EventsAfter(m, n) /\ FramesFollow(m, n) /\ Whole(m, n)
  BY <1>1 DEF FlowOK
<1>3. /\ EventOf(m, 1) /\ Ev(m, 1) = x /\ 1 \in Nat
      /\ Num(x) \in Nat /\ Num(x) <= Total(m) /\ Num(x) > n
      /\ \A l \in Nat : EventOf(m, l) /\ l > 1 => Num(Ev(m, l)) > Num(x)
  <2>1. EventOf(m, 1) /\ Ev(m, 1) = x /\ 1 \in Nat
    BY SMTT(20) DEF Forwards
  <2>2. /\ ItemOK(m, x, x.k # "read")
        /\ \A l \in Nat : EventOf(m, l) /\ l > 1 => Num(Ev(m, l)) > Num(x)
    BY <2>1 DEF EventsOK
  <2>3. Num(x) \in Nat /\ ((conns[m].reader = "eof" /\ Num(x) = conns[m].read + 1) \/ Num(x) <= conns[m].read)
    BY <2>2 DEF ItemOK
  <2>4. Num(x) <= Total(m)
    BY <2>3, SMTT(20) DEF Total
  <2>5. Num(x) > n
    BY <1>2, <2>1 DEF EventsAfter
  <2>. QED
    BY <2>1, <2>2, <2>3, <2>4, <2>5
<1>4. \A j \in Nat : EventOf(m, j)' => j + 1 \in Nat /\ EventOf(m, j + 1) /\ Ev(m, j)' = Ev(m, j + 1)
  <2>1. \A j \in Nat : j + 1 \in Nat
    BY SMTT(20)
  <2>2. \A j \in Nat : EventOf(m, j)' => EventOf(m, j + 1) /\ j # 0
    BY DEF NoNewEvents, Moves
  <2>3. \A j \in Nat : EventOf(m, j + 1) /\ j # 0 => Ev(m, j)' = Ev(m, j + 1)
    BY DEF Moves
  <2>. QED
    BY <2>1, <2>2, <2>3
<1>5. /\ \A i \in Nat : FrameOf(m, i) => i <= N /\ FrameOf(m, i)' /\ Fr(m, i)' = Fr(m, i)
      /\ \A i \in Nat : FrameOf(m, i)' => FrameOf(m, i) \/ (i > N /\ Copies(Fr(m, i)', x, sid, src))
      /\ \E i \in Nat : i > N /\ FrameOf(m, i)' /\ Copies(Fr(m, i)', x, sid, src)
  BY DEF Forwards
<1>6. \A f : Copies(f, x, sid, src) => Num(f) = Num(x)
  BY DEF Copies, Num
<1>7. EventsAfter(m, n)'
  <2>1. \A j \in Nat : EventOf(m, j)' => Num(Ev(m, j)') > n
    BY <1>2, <1>4 DEF EventsAfter
  <2>. QED
    BY <2>1 DEF EventsAfter, Num
<1>8. FramesFollow(m, n)'
  <2>1. ASSUME NEW i \in Nat, FrameOf(m, i)'
        PROVE  /\ Num(Fr(m, i)') > n
               /\ \A k \in n + 1 .. Num(Fr(m, i)') :
                     \E l \in Nat : l <= i /\ FrameOf(m, l)' /\ Num(Fr(m, l)') = k
    <3>1. CASE FrameOf(m, i)
      <4>1. /\ Num(Fr(m, i)) > n
            /\ \A k \in n + 1 .. Num(Fr(m, i)) :
                  \E l \in Nat : l <= i /\ FrameOf(m, l) /\ Num(Fr(m, l)) = k
        BY <1>2, <3>1 DEF FramesFollow
      <4>. QED
        BY <1>5, <3>1, <4>1
    <3>2. CASE i > N /\ Copies(Fr(m, i)', x, sid, src)
      <4>1. Num(Fr(m, i)') = Num(x)
        BY <1>6, <3>2
      <4>2. ASSUME NEW k \in n + 1 .. Num(x)
            PROVE  \E l \in Nat : l <= i /\ FrameOf(m, l)' /\ Num(Fr(m, l)') = k
        <5>1. CASE k = Num(x)
          <6>1. i <= i
            BY SMTT(20)
          <6>. QED
            BY <2>1, <4>1, <5>1, <6>1
        <5>2. CASE k # Num(x)
          <6>1. k \in n + 1 .. Total(m) /\ k \in Nat /\ k < Num(x)
            BY <1>3, <4>2, <5>2, SMTT(20)
          <6>2. ASSUME NEW l \in Nat, EventOf(m, l), Num(Ev(m, l)) = k
                PROVE  FALSE
            <7>1. ~(k > Num(x))
              BY <1>3, <6>1, SMTT(20)
            <7>2. l # 1 /\ ~(l > 1)
              BY <1>3, <5>2, <6>2, <7>1
            <7>3. l > 0
              BY <6>2
            <7>. QED
              BY <7>2, <7>3, SMTT(20)
          <6>3. PICK l \in Nat : FrameOf(m, l) /\ Num(Fr(m, l)) = k
            BY <1>2, <6>1, <6>2 DEF Whole
          <6>4. l <= N
            BY <1>5, <6>3
          <6>5. l <= i
            BY <3>2, <6>4, SMTT(20)
          <6>. QED
            BY <1>5, <6>3, <6>5
        <5>. QED
          BY <5>1, <5>2
      <4>. QED
        BY <1>3, <4>1, <4>2
    <3>. QED
      BY <1>5, <2>1, <3>1, <3>2
  <2>. QED
    BY <2>1 DEF FramesFollow, Num
<1>9. ASSUME Sending(m)'
      PROVE  Whole(m, n)'
  <2>1. ASSUME NEW k \in n + 1 .. Total(m)
        PROVE  \/ \E l \in Nat : FrameOf(m, l)' /\ Num(Fr(m, l)') = k
               \/ \E l \in Nat : EventOf(m, l)' /\ Num(Ev(m, l)') = k
    <3>1. CASE \E l \in Nat : FrameOf(m, l) /\ Num(Fr(m, l)) = k
      BY <1>5, <3>1
    <3>2. ASSUME NEW l \in Nat, EventOf(m, l), Num(Ev(m, l)) = k
          PROVE  \/ \E i \in Nat : FrameOf(m, i)' /\ Num(Fr(m, i)') = k
                 \/ \E i \in Nat : EventOf(m, i)' /\ Num(Ev(m, i)') = k
      <4>1. CASE l = 1
        BY <1>3, <1>5, <1>6, <3>2, <4>1
      <4>2. CASE l > 1
        <5>1. PICK i \in Nat : EventOf(m, i)' /\ Ev(m, i)' = Ev(m, l)
          <6>1. 0 \in Nat /\ 1 \in Nat
            BY SMTT(20)
          <6>. QED
            BY <3>2, <4>2, <6>1, KeptEvent
        <5>. QED
          BY <3>2, <5>1
      <4>3. l > 0
        BY <3>2
      <4>. QED
        BY <4>1, <4>2, <4>3, SMTT(20)
    <3>. QED
      BY <1>2, <3>1, <3>2 DEF Whole
  <2>. QED
    BY <2>1 DEF Whole, Num
<1>. QED
  BY <1>7, <1>8, <1>9

\* handle_read adds to the stream of the connection that was read.
LEMMA HandleReadStreams ==
  ASSUME Typed, TableInv, AskInv, StreamInv, NEW e \in Ends, HandleRead(e)
  PROVE  StreamInv'
<1>1. /\ events[e] # <<>> /\ Take(e) /\ EventItem(Head(events[e])) /\ Typed'
      /\ \E t, sid, src : \E frames \in Seq(PeerFrame) : Passes(e, Head(events[e]), t, sid, src, frames)
  BY HandleReadEffect
<1>2. PICK x : x = Head(events[e])
  OBVIOUS
<1>3. /\ \A z \in Ends : z # e => events'[z] = events[z]
      /\ Shifts(events[e], events'[e], 1) /\ \A i \in DOMAIN events'[e] : i + 1 \in DOMAIN events[e]
      /\ 1 \in DOMAIN events[e] /\ x = events[e][1] /\ EventItem(x)
  BY <1>1, <1>2, TakeFacts
<1>4. PICK t, sid, src : \E frames \in Seq(PeerFrame) : Passes(e, x, t, sid, src, frames)
  BY <1>1, <1>2
<1>5. PICK frames \in Seq(PeerFrame) : Passes(e, x, t, sid, src, frames)
  BY <1>4
<1>6. PICK m0 \in DOMAIN conns : m0 = Owner(x) /\ conns[m0].end = e /\ conns[m0].mate # 0
  BY <1>3 DEF StreamInv, OwnerInv, OwnersOK, Owned
<1>7. EventOf(m0, 1) /\ Ev(m0, 1) = x
  BY <1>3, <1>6 DEF EventOf, Ev
<1>8. EventsOK(m0) /\ FramesOK(m0) /\ FlowOK(m0)
  BY <1>6 DEF StreamInv, StreamOK
<1>9. ItemOK(m0, x, x.k # "read") /\ x.id = conns[m0].id
  <2>1. 1 \in Nat
    BY SMTT(20)
  <2>. QED
    BY <1>7, <1>8, <2>1 DEF EventsOK
<1>10. /\ Forgets(t) /\ Touches(t) /\ (\A z \in Ends : Restricts(z)) /\ Emit(e, frames)
       /\ \A j \in DOMAIN frames : FrameItem(frames[j]) /\ Owner(frames[j]) = m0
       /\ frames = <<>> => ~Sending(m0)
       /\ frames # <<>> => Sending(m0) /\ sid = Sid(m0) /\ src = (conns[m0].role = "source")
       /\ t \in DOMAIN conns => t = m0 /\ x.k # "read"
  BY <1>5, <1>6, <1>9 DEF Passes, Forgets, Owner
<1>11. t \in DOMAIN conns =>
          /\ conns[t].reader = "eof" /\ conns'[t].reader = "eof" /\ conns'[t].read = conns[t].read
          /\ conns'[t].queue = conns[t].queue /\ conns'[t].got = conns[t].got
          /\ conns'[t].mate = conns[t].mate
          /\ conns'[t].writer = "off" => conns[t].queue = <<>>
          /\ ~(Registered(t)')
  <2>1. ASSUME t \in DOMAIN conns
        PROVE  conns[t].reader = "eof" /\ conns'[t] = Teardown(conns[t]) /\ ~(Registered(t)')
    BY <1>9, <1>10, <2>1 DEF ItemOK, Forgets
  <2>. QED
    BY <2>1, TornDown
<1>12. ReadsOn(t)
  <2>1. t \in DOMAIN conns => conns[t].read >= conns[t].read
    BY ConnTypes, SMTT(20)
  <2>. QED
    BY <1>11, <2>1 DEF ReadsOn
<1>13. \A m \in DOMAIN conns : conns[m].mate # 0 => SenderStays(m)
  BY <1>1, <1>10, <1>12, TouchStays
<1>14. \A m \in DOMAIN conns : /\ Total(m)' = Total(m) /\ Passed(m)' = Passed(m)
                               /\ conns[m].mate # 0 /\ Receiving(m)' => Receiving(m) /\ conns[m].writer # "failed"
  <2>1. ASSUME NEW m \in DOMAIN conns
        PROVE  Total(m)' = Total(m) /\ Passed(m)' = Passed(m)
    BY <1>10, <1>11 DEF Touches, Total, Passed
  <2>2. ASSUME NEW m \in DOMAIN conns, conns[m].mate # 0, Receiving(m)'
        PROVE  Receiving(m) /\ conns[m].writer # "failed"
    <3>1. m # t
      BY <1>11, <2>2 DEF Receiving
    <3>2. conns'[m] = conns[m]
      BY <1>10, <3>1 DEF Touches
    <3>3. Registered(m)' => Registered(m)
      BY <1>10, <2>2, ShrinkStays
    <3>. QED
      BY <2>2, <3>2, <3>3 DEF Receiving
  <2>. QED
    BY <2>1, <2>2
<1>15. /\ \A z \in Ends : Shifts(link[z], link'[z], 0)
       /\ \A z \in Ends : \A i \in DOMAIN link'[z] :
             i + 0 \in DOMAIN link[z] \/ (z = e /\ frames # <<>> /\ Owner(link'[z][i]) = m0)
  <2>1. /\ \A z \in Ends : z # e => link'[z] = link[z]
        /\ Shifts(link[e], link'[e], 0)
        /\ \A i \in DOMAIN link'[e] : i + 0 \notin DOMAIN link[e] =>
              i - Len(link[e]) \in DOMAIN frames /\ link'[e][i] = frames[i - Len(link[e])]
    BY <1>10, EmitFacts
  <2>2. frames = <<>> => DOMAIN frames = {}
    BY SMTT(20)
  <2>3. \A z \in Ends : z # e => Shifts(link[z], link'[z], 0) /\ \A i \in DOMAIN link'[z] : i + 0 \in DOMAIN link[z]
    BY <2>1, StillQueues
  <2>4. \A i \in DOMAIN link'[e] : i + 0 \in DOMAIN link[e] \/ (frames # <<>> /\ Owner(link'[e][i]) = m0)
    BY <1>10, <2>1, <2>2
  <2>. QED
    BY <2>1, <2>3, <2>4
<1>16. \A z \in Ends : \E q \in Nat :
          /\ Shifts(events[z], events'[z], q)
          /\ \A j \in DOMAIN events'[z] : j + q \in DOMAIN events[z]
          /\ \A m : m # m0 /\ conns[m].end = z => \A j \in Nat : EventOf(m, j) => j > q
  <2>1. ASSUME NEW z \in Ends, z # e
        PROVE  \E q \in Nat :
                  /\ Shifts(events[z], events'[z], q)
                  /\ \A j \in DOMAIN events'[z] : j + q \in DOMAIN events[z]
                  /\ \A m : m # m0 /\ conns[m].end = z => \A j \in Nat : EventOf(m, j) => j > q
    <3>1. PICK q \in Nat : q = 0
      BY SMTT(20)
    <3>2. \A j \in Nat : ~(j <= q) => j > q
      BY SMTT(20)
    <3>. QED
      BY <1>3, <2>1, <3>1, <3>2, StillQueues DEF EventOf
  <2>2. \A m : m # m0 /\ conns[m].end = e => \A j \in Nat : EventOf(m, j) => j > 1
    <3>1. ASSUME NEW m, m # m0, conns[m].end = e, NEW j \in Nat, EventOf(m, j)
          PROVE  j # 1 /\ j # 0
      BY <1>3, <1>6, <3>1, StillQueues, SMTT(20) DEF EventOf, Ev
    <3>. QED
      BY <3>1, SMTT(20)
  <2>3. 1 \in Nat
    BY SMTT(20)
  <2>. QED
    BY <1>3, <2>1, <2>2, <2>3
<1>17. OwnerInv'
  <2>1. ASSUME NEW z \in Ends
        PROVE  OwnersOK(z)'
    <3>1. PICK q \in Nat : Shifts(events[z], events'[z], q) /\ \A j \in DOMAIN events'[z] : j + q \in DOMAIN events[z]
      BY <1>16
    <3>2. \A i \in DOMAIN link'[z] :
             i + 0 \in DOMAIN link[z] \/ ~FrameItem(link'[z][i]) \/ Owned(link'[z][i], z)
      BY <1>6, <1>15 DEF Owned
    <3>3. 0 \in Nat /\ Shifts(link[z], link'[z], 0)
      BY <1>15, SMTT(20)
    <3>4. Typed' /\ Touches(t) /\ OwnerInv
      BY <1>1, <1>10 DEF StreamInv
    <3>. QED
      BY <3>1, <3>2, <3>3, <3>4, TouchOwners
  <2>. QED
    BY <2>1 DEF OwnerInv
<1>18. ASSUME NEW m \in DOMAIN conns, conns[m].mate # 0, m # m0 \/ frames = <<>>
       PROVE  StreamOK(m)'
  <2>1. PICK g \in DOMAIN conns : g = conns[m].mate /\ conns[g].mate # 0
    <3>1. m # 0
      BY ConnTypes
    <3>. QED
      BY <1>18, <3>1 DEF TableInv, MateInv, MateOK
  <2>2. PICK z \in Ends : z = conns[m].end /\ z = conns'[m].end
    BY <1>13, <1>18, ConnTypes DEF SenderStays
  <2>3. 0 \in Nat /\ Typed' /\ Shifts(link[z], link'[z], 0)
    BY <1>1, <1>15, SMTT(20)
  <2>4. NoNewFrames(m, 0)
    <3>1. \A i \in DOMAIN link'[z] :
             i + 0 \in DOMAIN link[z] \/ ~FrameItem(link'[z][i]) \/ Owner(link'[z][i]) # m
      BY <1>15, <1>18
    <3>. QED
      BY <2>2, <2>3, <3>1, NoNewItems
  <2>5. PICK q \in Nat :
           /\ Shifts(events[z], events'[z], q)
           /\ \A j \in DOMAIN events'[z] : j + q \in DOMAIN events[z]
           /\ m # m0 => \A j \in Nat : EventOf(m, j) => j > q
    BY <1>16, <2>2
  <2>6. NoNewEvents(m, q)
    BY <2>2, <2>3, <2>5, NoNewItems
  <2>7. Sending(m)' => \A j \in Nat : EventOf(m, j) => j > q
    <3>1. Sending(m)' => Sending(m)
      BY <1>10, <1>18, ShrinkStays
    <3>. QED
      BY <1>10, <1>18, <2>5, <3>1
  <2>8. Receiving(g)' => /\ conns[g].writer # "failed" /\ Passed(g)' = Passed(g)
                         /\ \A i \in Nat : FrameOf(m, i) => i > 0
    <3>1. \A i \in Nat : FrameOf(m, i) => i > 0
      BY <2>2, StillQueues, SMTT(20) DEF FrameOf
    <3>2. Passed(g)' = Passed(g) /\ (Receiving(g)' => conns[g].writer # "failed")
      BY <1>14, <2>1
    <3>. QED
      BY <3>1, <3>2
  <2>9. StreamOK(m) /\ Total(m)' = Total(m) /\ Touches(t) /\ ReadsOn(t) /\ \A y \in Ends : Restricts(y)
    <3>1. StreamOK(m)
      BY DEF StreamInv
    <3>2. Total(m)' = Total(m)
      BY <1>14
    <3>. QED
      BY <1>10, <1>12, <3>1, <3>2
  <2>10. \A i \in DOMAIN link[z] : i <= 0 => link[z][i].h # "RESPONSE"
    BY StillQueues
  <2>. QED
    BY <1>18, <2>1, <2>2, <2>3, <2>4, <2>5, <2>6, <2>7, <2>8, <2>9, <2>10, TouchQuiet
<1>19. ASSUME frames # <<>>
       PROVE  StreamOK(m0)'
  <2>1. PICK d \in DOMAIN conns : d = conns[m0].mate /\ d = conns'[m0].mate /\ conns[d].mate = m0 /\ m0 # 0
                               /\ Peer(conns[d].end) = e
    <3>1. /\ conns[m0].mate \in DOMAIN conns /\ conns[conns[m0].mate].mate = m0 /\ m0 # 0
      BY <1>6, ConnTypes DEF TableInv, MateInv, MateOK
    <3>2. conns[m0].end = Peer(conns[conns[m0].mate].end)
      BY <3>1 DEF TableInv, MateInv, MateOK
    <3>. QED
      BY <1>6, <1>13, <3>1, <3>2 DEF SenderStays
  <2>2. SenderStays(m0) /\ e = conns'[m0].end
    BY <1>6, <1>13 DEF SenderStays
  <2>3. Typed' /\ 0 \in Nat /\ 1 \in Nat /\ Shifts(link[e], link'[e], 0)
    BY <1>1, <1>15, SMTT(20)
  <2>4. PICK N \in Nat : Forwards(m0, x, N, sid, src) /\ \A i \in DOMAIN link[e] : i <= N
    BY <1>5, <1>6, <1>7, <1>19, <2>2, <2>3, ForwardsFacts
  <2>5. Moves(m0, 0, 1)
    BY <1>3, <1>6, <2>2, <2>3, MovesFacts
  <2>6. NoNewEvents(m0, 1)
    BY <1>3, <1>6, <2>2, <2>3, NoNewItems
  <2>7. conns'[d].id = conns[d].id /\ (conns'[d].reader = "none" => conns[d].reader = "none")
    BY <1>10, SameIdentity DEF TableInv
  <2>8. Answered(m0, 0)
    <3>1. PICK k \in Nat : k = 0
      BY SMTT(20)
    <3>2. KeepsAnswer(e, d, k)
      BY <2>7, <3>1, StillQueues DEF KeepsAnswer
    <3>3. Shifts(link[e], link'[e], k)
      BY <2>3, <3>1
    <3>4. Answered(m0, k)
      BY <1>6, <2>1, <2>2, <2>3, <2>7, <3>2, <3>3, AnsweredKeeps
    <3>. QED
      BY <3>1, <3>4
  <2>9. conns[conns[m0].mate].reader = "none" =>
           \E i \in Nat : i <= N /\ Asks(conns[m0].end, i, "RESPONSE", conns[conns[m0].mate].id)
    <3>1. ASSUME conns[d].reader = "none"
          PROVE  \E i \in Nat : i <= N /\ Asks(e, i, "RESPONSE", conns[d].id)
      <4>1. PICK i \in Nat : Asks(e, i, "RESPONSE", conns[d].id)
        BY <2>1, <3>1 DEF AskInv, WaitingInv
      <4>. QED
        BY <2>4, <4>1 DEF Asks
    <3>. QED
      BY <1>6, <2>1, <3>1
  <2>10. Sending(m0) /\ sid = Sid(m0) /\ src = (conns[m0].role = "source")
    BY <1>10, <1>19
  <2>11. EventsOK(m0)' /\ FramesOK(m0)'
    BY <1>8, <2>2, <2>4, <2>5, <2>6, <2>8, <2>9, <2>10, PassOrder
  <2>12. PICK n \in Nat : n = Passed(d) /\ n = Passed(d)'
    <3>1. Passed(d)' = Passed(d)
      BY <1>14
    <3>. QED
      BY <3>1, PassedTypes
  <2>13. Total(m0) \in Nat /\ Total(m0)' = Total(m0) /\ conns[m0].read \in Nat
    <3>1. conns[m0].read \in Nat
      BY ConnTypes
    <3>2. conns[m0].read + 1 \in Nat
      BY <3>1, SMTT(20)
    <3>3. Total(m0)' = Total(m0)
      BY <1>14
    <3>. QED
      BY <3>1, <3>2, <3>3 DEF Total
  <2>14. (Receiving(d)' => Receiving(d)) /\ \A j \in Nat : EventOf(m0, j) => j > 0
    <3>1. Receiving(d)' => Receiving(d)
      BY <1>14, <2>1
    <3>2. \A j \in Nat : EventOf(m0, j) => j > 0
      BY <1>6, StillQueues, SMTT(20) DEF EventOf
    <3>. QED
      BY <3>1, <3>2
  <2>15. FlowOK(m0)'
    BY <1>8, <2>1, <2>4, <2>5, <2>6, <2>10, <2>12, <2>13, <2>14, PassFlow
  <2>. QED
    BY <2>11, <2>15 DEF StreamOK
<1>20. ASSUME NEW m \in DOMAIN conns, conns[m].mate = 0
       PROVE  StreamOK(m)'
  <2>1. conns'[m].mate = conns[m].mate
    BY <1>10, SameIdentity DEF TableInv
  <2>. QED
    BY <1>20, <2>1 DEF StreamOK
<1>21. ASSUME NEW u \in DOMAIN conns
       PROVE  GotOK(u)'
  <2>1. GotOK(u)
    BY DEF StreamInv
  <2>2. CASE u # t
    BY <1>1, <1>10, <1>12, <2>1, <2>2, TouchGot
  <2>3. CASE u = t
    <3>1. PICK d : d = conns[u].mate
      OBVIOUS
    <3>2. d # 0 => SenderStays(d)
      <4>1. d # 0 => d \in DOMAIN conns /\ conns[d].mate = u /\ u # 0
        BY <3>1, ConnTypes DEF TableInv, MateInv, MateOK
      <4>. QED
        BY <1>13, <4>1
    <3>. QED
      BY <1>11, <2>1, <2>3, <3>1, <3>2, GotKeeps
  <2>. QED
    BY <2>2, <2>3
<1>. QED
  BY <1>10, <1>17, <1>18, <1>19, <1>20, <1>21 DEF StreamInv, Touches

-----------------------------------------------------------------------------
(* Frames of a stream arrive. *)

\* f, the next frame from p to e, is m's, and d is the other end of m's tunnel.
Arriving(e, p, f, m, d) ==
    /\ p \in Ends /\ p # e /\ e = Peer(p) /\ p = Peer(e)
    /\ m \in DOMAIN conns /\ conns[m].end = p /\ conns[m].mate = d /\ m # 0
    /\ d \in DOMAIN conns /\ conns[d].end = e /\ conns[d].mate = m /\ d # 0 /\ m # d
    /\ FrameOf(m, 1) /\ Fr(m, 1) = f /\ Owner(f) = m /\ ItemOK(m, f, f.h # "DATA")
    /\ f.chunk \in Nat \X Nat /\ \A i \in Nat : FrameOf(m, i) => i > 0
    /\ conns[d].reader # "none"
    /\ Target(e, f) = IF Registered(d) THEN d ELSE 0

\* An item at the head of the link belongs to a stream.
LEMMA ArrivingFacts ==
  ASSUME Typed, TableInv, StreamInv, NEW e \in Ends, NEW f, f = Frame(e), link[Peer(e)] # <<>>, FrameItem(f)
  PROVE  \E p, m, d : Arriving(e, p, f, m, d)
<1>1. PICK p \in Ends : p = Peer(e) /\ p # e /\ e = Peer(p)
  BY PeerFacts
<1>2. 1 \in DOMAIN link[p] /\ f = link[p][1] /\ \A i \in DOMAIN link[p] : i \in Nat /\ ~(i < 1)
  <2>1. link[p] \in Seq(PeerFrame)
    BY DEF Typed
  <2>2. link[p] # <<>> /\ f = Head(link[p])
    BY <1>1 DEF Frame
  <2>3. \A x \in Seq(PeerFrame) : x # <<>> => Head(x) = x[1] /\ 1 \in DOMAIN x
    BY SMTT(20)
  <2>4. \A i \in DOMAIN link[p] : i \in Nat /\ ~(i < 1)
    BY <2>1, SMTT(20)
  <2>. QED
    BY <2>1, <2>2, <2>3, <2>4
<1>3. PICK m \in DOMAIN conns : m = Owner(f) /\ conns[m].end = p /\ conns[m].mate # 0
  BY <1>1, <1>2 DEF StreamInv, OwnerInv, OwnersOK, Owned
<1>4. PICK d \in DOMAIN conns : d = conns[m].mate /\ conns[d].mate = m /\ conns[d].end = e /\ conns[d].role # conns[m].role
  <2>1. MateOK(m)
    BY DEF TableInv, MateInv
  <2>2. /\ conns[m].mate \in DOMAIN conns /\ conns[conns[m].mate].mate = m
        /\ conns[conns[m].mate].end = Peer(conns[m].end) /\ conns[conns[m].mate].role # conns[m].role
    BY <1>3, <2>1 DEF MateOK
  <2>. QED
    BY <1>1, <1>3, <2>2
<1>5. /\ m # 0 /\ d # 0 /\ m # d /\ conns[m].role \in Role /\ conns[d].role \in Role /\ m \in Nat
  BY <1>1, <1>3, <1>4, ConnTypes
<1>6. FrameOf(m, 1) /\ Fr(m, 1) = f
  BY <1>2, <1>3 DEF FrameOf, Fr
<1>7. /\ ItemOK(m, f, f.h # "DATA") /\ f.sid = Sid(m) /\ f.s2d = (conns[m].role = "source")
      /\ conns[conns[m].mate].reader = "none" =>
            \E j \in Nat : j < 1 /\ Asks(conns[m].end, j, "RESPONSE", conns[conns[m].mate].id)
  <2>1. 1 \in Nat /\ FramesOK(m)
    BY <1>3, SMTT(20) DEF StreamInv, StreamOK
  <2>. QED
    BY <1>6, <2>1 DEF FramesOK
<1>8. conns[d].reader # "none"
  BY <1>2, <1>3, <1>4, <1>7 DEF Asks
<1>9. f.chunk \in Nat \X Nat
  <2>1. f.chunk = <<m, Num(f)>> /\ Num(f) \in Nat
    BY <1>7 DEF ItemOK
  <2>2. \A a, b \in Nat : <<a, b>> \in Nat \X Nat
    BY SMTT(20)
  <2>. QED
    BY <1>5, <2>1, <2>2
<1>10. \A i \in Nat : FrameOf(m, i) => i > 0
  <2>1. \A i \in Nat : ~(i < 1) => i > 0
    BY SMTT(20)
  <2>. QED
    BY <1>2, <1>3, <2>1 DEF FrameOf
<1>11. Target(e, f) = IF Registered(d) THEN d ELSE 0
  <2>1. CASE conns[m].role = "source"
    <3>1. f.s2d /\ conns[d].role = "destination" /\ f.sid = conns[d].id
      BY <1>4, <1>5, <1>7, <2>1 DEF Role, Sid
    <3>2. Registered(d) <=> f.sid \in DOMAIN state[e].destinations
      BY <1>4, <3>1 DEF Registered
    <3>3. Registered(d) => state[conns[d].end].destinations[conns[d].id] = d
      BY <3>1, Found
    <3>. QED
      BY <1>4, <3>1, <3>2, <3>3 DEF Target, TableOf
  <2>2. CASE conns[m].role # "source"
    <3>1. ~f.s2d /\ conns[d].role # "destination" /\ conns[m].role = "destination" /\ f.sid = Sid(d)
      BY <1>4, <1>5, <1>7, <2>2 DEF Role, Sid
    <3>2. Registered(d) <=> f.sid \in DOMAIN state[e].source_sockets
      BY <1>4, <1>5, <3>1 DEF Registered
    <3>3. Registered(d) => state[e].source_sockets[f.sid] = d
      BY <1>4, <3>1, Found
    <3>. QED
      BY <3>1, <3>2, <3>3 DEF Target, TableOf
  <2>. QED
    BY <2>1, <2>2
<1>. QED
  BY <1>1, <1>3, <1>4, <1>5, <1>6, <1>7, <1>8, <1>9, <1>10, <1>11 DEF Arriving

\* The next chunk for a mate that gets it is the one it has yet to get.
LEMMA ArrivingNext ==
  ASSUME NEW e, NEW p, NEW f, NEW m, NEW d, Arriving(e, p, f, m, d), FlowOK(m), Receiving(d),
         NEW n \in Nat, n = Passed(d)
  PROVE  Num(f) = n + 1
<1>1. FramesFollow(m, n) /\ FrameOf(m, 1) /\ Fr(m, 1) = f /\ Num(f) \in Nat
  BY DEF FlowOK, Arriving, ItemOK
<1>2. /\ Num(f) > n /\ \A k \in n + 1 .. Num(f) :
            \E l \in Nat : l <= 1 /\ FrameOf(m, l) /\ Num(Fr(m, l)) = k
  <2>1. 1 \in Nat
    BY SMTT(20)
  <2>. QED
    BY <1>1, <2>1 DEF FramesFollow
<1>3. ASSUME NEW l \in Nat, l <= 1, FrameOf(m, l)
      PROVE  Num(Fr(m, l)) = Num(f)
  <2>1. l > 0
    BY <1>3 DEF Arriving
  <2>2. l = 1
    BY <1>3, <2>1, SMTT(20)
  <2>. QED
    BY <1>1, <2>2
<1>4. n + 1 \in n + 1 .. Num(f)
  BY <1>1, <1>2, SMTT(20)
<1>. QED
  BY <1>2, <1>3, <1>4

\* The step that takes frame f from p.
Takes(e, p) ==
    /\ link'[e] = link[e] /\ Shifts(link[p], link'[p], 1) /\ events' = events
    /\ \A i \in DOMAIN link'[p] : i + 1 \in DOMAIN link[p]
    /\ \A i \in DOMAIN link[p] : i <= 1 => link[p][i].h # "RESPONSE"

\* A frame handled without an answer is taken off the link.
LEMMA TakesFacts ==
  ASSUME Typed, NEW e \in Ends, NEW p, p = Peer(e), link[p] # <<>>, Answer(e, <<>>), events' = events,
         Frame(e).h # "RESPONSE"
  PROVE  Takes(e, p)
<1>1. /\ link'[e] = link[e] /\ Shifts(link[p], link'[p], 1)
      /\ \A i \in DOMAIN link'[p] : i + 1 \in DOMAIN link[p]
      /\ Frame(e) = link[p][1]
  BY TakenFrame
<1>2. ASSUME NEW i \in DOMAIN link[p], i <= 1
      PROVE  i = 1
  <2>1. link[p] \in Seq(PeerFrame)
    BY PeerFacts DEF Typed
  <2>. QED
    BY <1>2, <2>1, SMTT(20)
<1>. QED
  BY <1>1, <1>2 DEF Takes

\* z's link loses its first k frames: none is an answer, or from anyone but m.
Loses(z, m, k) ==
    /\ Shifts(link[z], link'[z], k) /\ \A i \in DOMAIN link'[z] : i + k \in DOMAIN link[z]
    /\ \A i \in DOMAIN link[z] : i <= k => link[z][i].h # "RESPONSE"
    /\ \A u : u # m /\ conns[u].end = z => \A i \in Nat : FrameOf(u, i) => i > k

\* What is left when a frame is taken.
LEMMA TakesQueues ==
  ASSUME Typed, Typed', NEW e \in Ends, NEW p, NEW f, NEW m, NEW d, Arriving(e, p, f, m, d), Takes(e, p), NEW z \in Ends
  PROVE  \E k \in Nat : Loses(z, m, k) /\ (z = p => k = 1)
<1>1. CASE z = e
  <2>1. PICK k \in Nat : k = 0
    BY SMTT(20)
  <2>2. \A i \in Nat : ~(i <= 0) => i > 0
    BY SMTT(20)
  <2>3. p # e
    BY DEF Arriving
  <2>. QED
    BY <1>1, <2>1, <2>2, <2>3, StillQueues DEF Loses, Takes, FrameOf
<1>2. CASE z = p
  <2>1. PICK k \in Nat : k = 1
    BY SMTT(20)
  <2>2. link[z] \in Seq(PeerFrame)
    BY DEF Typed
  <2>3. \A i \in DOMAIN link[z] : i # 1 => i > 1
    BY <2>2, SMTT(20)
  <2>4. \A u : conns[u].end = z /\ FrameOf(u, 1) => u = m
    BY <1>2 DEF Arriving, FrameOf, Fr
  <2>5. \A u : u # m /\ conns[u].end = z => \A i \in Nat : FrameOf(u, i) => i > 1
    BY <2>3, <2>4 DEF FrameOf
  <2>. QED
    BY <1>2, <2>1, <2>5 DEF Loses, Takes
<1>3. z = e \/ z = p
  BY PeerFacts DEF Arriving
<1>. QED
  BY <1>1, <1>2, <1>3

\* What is left on its way still belongs to its stream.
LEMMA TakenOwners ==
  ASSUME Typed, Typed', TableInv, OwnerInv, NEW t, Touches(t), NEW e \in Ends, NEW p, NEW f, NEW m, NEW d,
         Arriving(e, p, f, m, d), Takes(e, p)
  PROVE  OwnerInv'
<1>1. ASSUME NEW z \in Ends
      PROVE  OwnersOK(z)'
  <2>1. PICK k \in Nat : Shifts(link[z], link'[z], k) /\ \A i \in DOMAIN link'[z] : i + k \in DOMAIN link[z]
    BY TakesQueues DEF Loses
  <2>2. 0 \in Nat /\ events'[z] = events[z]
    BY SMTT(20) DEF Takes
  <2>. QED
    BY <2>1, <2>2, StillQueues, TouchOwners
<1>. QED
  BY <1>1 DEF OwnerInv

\* Taking a frame that nobody gets adds nothing to a stream, and takes nothing
\* from any other.
LEMMA TakenQuiet ==
  ASSUME Typed, Typed', TableInv, NEW t, Touches(t), ReadsOn(t), \A x \in Ends : Restricts(x),
         NEW e \in Ends, NEW p, NEW f, NEW m, NEW d, Arriving(e, p, f, m, d), Takes(e, p),
         NEW u \in DOMAIN conns, conns[u].mate # 0, StreamOK(u), Total(u)' = Total(u),
         NEW g, g = conns[u].mate,
         Receiving(g)' => u # m /\ conns[g].writer # "failed" /\ Passed(g)' = Passed(g)
  PROVE  StreamOK(u)'
<1>1. SenderStays(u)
  BY TouchStays
<1>2. PICK z \in Ends : z = conns[u].end /\ z = conns'[u].end
  BY <1>1, ConnTypes DEF SenderStays
<1>3. PICK k \in Nat :
         /\ Shifts(link[z], link'[z], k) /\ \A i \in DOMAIN link'[z] : i + k \in DOMAIN link[z]
         /\ \A i \in DOMAIN link[z] : i <= k => link[z][i].h # "RESPONSE"
         /\ u # m => \A i \in Nat : FrameOf(u, i) => i > k
  <2>1. PICK k \in Nat : Loses(z, m, k)
    BY TakesQueues
  <2>. QED
    BY <1>2, <2>1 DEF Loses
<1>4. PICK q \in Nat : q = 0 /\ events'[z] = events[z]
  BY SMTT(20) DEF Takes
<1>5. Shifts(events[z], events'[z], q) /\ \A j \in DOMAIN events'[z] : j + q \in DOMAIN events[z]
  BY <1>4, StillQueues
<1>6. NoNewFrames(u, k) /\ NoNewEvents(u, q)
  BY <1>2, <1>3, <1>5, NoNewItems
<1>7. \A j \in Nat : EventOf(u, j) => j > q
  <2>1. \A j \in Nat : ~(j <= 0) => j > 0
    BY SMTT(20)
  <2>. QED
    BY <1>2, <1>4, <2>1, StillQueues DEF EventOf
<1>8. Receiving(g)' => /\ conns[g].writer # "failed" /\ Passed(g)' = Passed(g)
                       /\ \A i \in Nat : FrameOf(u, i) => i > k
  BY <1>3
<1>. QED
  BY <1>2, <1>3, <1>5, <1>6, <1>7, <1>8, TouchQuiet

\* A connection is removed, for a close or because its writer is gone: it had
\* everything if it was closed.
LEMMA ForgetStreams ==
  ASSUME Typed, Typed', TableInv, StreamInv, NEW e \in Ends, NEW p, NEW f, NEW m, NEW d,
         Arriving(e, p, f, m, d), Takes(e, p), NEW t, t = Target(e, f), Forgets(t),
         t \in DOMAIN conns => conns[t].writer = "failed" \/ f.h # "DATA"
  PROVE  StreamInv'
<1>1. Touches(t) /\ \A z \in Ends : Restricts(z)
  BY DEF Forgets
<1>2. /\ m \in DOMAIN conns /\ d \in DOMAIN conns /\ conns[d].reader # "none"
      /\ conns[m].mate = d /\ conns[d].mate = m /\ m # 0 /\ d # 0
      /\ t = (IF Registered(d) THEN d ELSE 0) /\ ItemOK(m, f, f.h # "DATA")
  BY DEF Arriving
<1>3. t \in DOMAIN conns => t = d /\ Registered(d)
  BY <1>2, ConnTypes
<1>4. t \in DOMAIN conns =>
         /\ conns'[t].reader = (IF conns[t].reader = "on" THEN "off" ELSE conns[t].reader)
         /\ conns'[t].read = conns[t].read /\ conns'[t].mate = conns[t].mate
         /\ conns'[t].queue = conns[t].queue /\ conns'[t].got = conns[t].got
         /\ conns'[t].writer = "off" => conns[t].queue = <<>>
         /\ conns'[t].reader # "none"
         /\ conns[t].writer = "failed" => conns'[t].writer = "failed"
         /\ ~(Registered(t)')
  <2>1. ASSUME t \in DOMAIN conns
        PROVE  conns'[t] = Teardown(conns[t]) /\ ~(Registered(t)') /\ conns[t].reader # "none"
    BY <1>2, <1>3, <2>1 DEF Forgets
  <2>. QED
    BY <2>1, TornDown
<1>5. ReadsOn(t)
  <2>1. t \in DOMAIN conns => conns[t].read >= conns[t].read
    BY ConnTypes, SMTT(20)
  <2>. QED
    BY <1>4, <2>1 DEF ReadsOn
<1>6. \A u \in DOMAIN conns : conns[u].mate # 0 => SenderStays(u)
  BY <1>1, <1>5, TouchStays
<1>7. ~(Receiving(d)')
  <2>1. Registered(d)' => Registered(d)
    BY <1>1, <1>2, ShrinkStays
  <2>2. ~(Registered(d)')
    BY <1>2, <1>4, <2>1
  <2>3. conns'[d].reader # "none"
    BY <1>1, <1>2, SameIdentity DEF TableInv
  <2>. QED
    BY <2>2, <2>3 DEF Receiving
<1>8. OwnerInv'
  BY <1>1, TakenOwners DEF StreamInv
<1>9. ASSUME NEW u \in DOMAIN conns, conns[u].mate # 0
      PROVE  StreamOK(u)'
  <2>1. PICK g \in DOMAIN conns : g = conns[u].mate /\ conns[g].mate = u
    BY <1>9 DEF TableInv, MateInv, MateOK
  <2>2. Total(u)' = Total(u)
    <3>1. conns'[u].read = conns[u].read /\ (conns'[u].reader = "eof" <=> conns[u].reader = "eof")
      BY <1>1, <1>4 DEF Touches
    <3>. QED
      BY <3>1 DEF Total
  <2>3. Receiving(g)' => u # m /\ conns[g].writer # "failed" /\ Passed(g)' = Passed(g)
    <3>1. ASSUME Receiving(g)'
          PROVE  g # d /\ u # m /\ g # t
      BY <1>2, <1>3, <1>7, <2>1, <3>1
    <3>2. g # t => conns'[g] = conns[g]
      BY <1>1 DEF Touches
    <3>. QED
      BY <3>1, <3>2 DEF Receiving, Passed
  <2>4. StreamOK(u)
    BY DEF StreamInv
  <2>. QED
    BY <1>1, <1>5, <1>9, <2>1, <2>2, <2>3, <2>4, TakenQuiet
<1>10. ASSUME NEW u \in DOMAIN conns, conns[u].mate = 0
       PROVE  StreamOK(u)'
  <2>1. conns'[u].mate = conns[u].mate
    BY <1>1, SameIdentity DEF TableInv
  <2>. QED
    BY <1>10, <2>1 DEF StreamOK
<1>11. ASSUME t \in DOMAIN conns, conns[t].writer # "failed"
       PROVE  conns[m].reader = "eof" /\ Passed(t) = conns[m].read
  <2>1. Receiving(d) /\ FlowOK(m) /\ f.h # "DATA"
    BY <1>2, <1>3, <1>11 DEF Receiving, StreamInv, StreamOK
  <2>2. PICK n \in Nat : n = Passed(d)
    BY <1>2, PassedTypes
  <2>3. Num(f) = n + 1
    BY <2>1, <2>2, ArrivingNext
  <2>4. conns[m].reader = "eof" /\ Num(f) = conns[m].read + 1
    BY <1>2, <2>1 DEF ItemOK
  <2>5. conns[m].read \in Nat
    BY <1>2, ConnTypes
  <2>6. n = conns[m].read
    BY <2>3, <2>4, <2>5, SMTT(20)
  <2>. QED
    BY <1>3, <1>11, <2>2, <2>4, <2>6
<1>12. ASSUME NEW u \in DOMAIN conns
       PROVE  GotOK(u)'
  <2>1. GotOK(u)
    BY DEF StreamInv
  <2>2. CASE u # t
    BY <1>1, <1>5, <2>1, <2>2, TouchGot
  <2>3. CASE u = t
    <3>1. m = conns[u].mate /\ SenderStays(m)
      BY <1>2, <1>3, <1>6, <2>3
    <3>2. /\ conns'[u].mate = m /\ conns'[u].got = conns[u].got /\ conns'[u].queue = conns[u].queue
          /\ conns'[u].writer = "off" => conns[u].queue = <<>>
      BY <1>4, <2>3, <3>1
    <3>3. conns'[u].writer \in {"draining", "off"} => conns[m].reader = "eof" /\ Passed(u) = conns[m].read
      BY <1>4, <1>11, <2>3
    <3>. QED
      BY <2>1, <3>1, <3>2, <3>3, GotKeeps
  <2>. QED
    BY <2>2, <2>3
<1>. QED
  BY <1>1, <1>8, <1>9, <1>10, <1>12 DEF StreamInv, Touches

\* A close, or an error.
LEMMA HandleClosedStreams ==
  ASSUME Typed, TableInv, AskInv, StreamInv, NEW e \in Ends, HandleClosed(e)
  PROVE  StreamInv'
<1>1. /\ Typed' /\ \E t : t = Target(e, Frame(e)) /\ Forgets(t)
      /\ link[Peer(e)] # <<>> /\ Frame(e).h \in {"CLOSED", "ERROR"} /\ Answer(e, <<>>) /\ events' = events
  BY HandleClosedEffect
<1>2. PICK f : f = Frame(e) /\ FrameItem(f) /\ f.h # "DATA" /\ f.h # "RESPONSE"
  BY <1>1 DEF FrameItem
<1>3. PICK p, m, d : Arriving(e, p, f, m, d)
  BY <1>1, <1>2, ArrivingFacts
<1>4. Takes(e, p)
  BY <1>1, <1>2, <1>3, TakesFacts DEF Arriving
<1>. QED
  BY <1>1, <1>2, <1>3, <1>4, ForgetStreams

\* The frame taken from m's stream continues what its mate was passed, and so
\* does the next one.
LEMMA TakenFlow ==
  ASSUME NEW e, NEW p, NEW f, NEW m, NEW d, Arriving(e, p, f, m, d), d = conns'[m].mate, f.h = "DATA",
         Moves(m, 1, 0), NoNewFrames(m, 1), NoNewEvents(m, 0), FramesOK(m), FlowOK(m), Receiving(d),
         Total(m) \in Nat, Total(m)' = Total(m), Sending(m)' => Sending(m),
         NEW n \in Nat, n = Passed(d), n + 1 = Passed(d)', \A j \in Nat : EventOf(m, j) => j > 0
  PROVE  FlowOK(m)'
<1>1. PICK n1 \in Nat : n1 = n + 1
  BY SMTT(20)
<1>2. SUFFICES EventsAfter(m, n1)' /\ FramesFollow(m, n1)' /\ (Sending(m)' => Whole(m, n1)')
  BY <1>1, FlowFrom
<1>3. Num(f) = n1
  BY <1>1, ArrivingNext
<1>4. EventsAfter(m, n) /\ FramesFollow(m, n) /\ (Sending(m) => Whole(m, n)) /\ d = conns[m].mate
  BY DEF FlowOK, Arriving
<1>5. FrameOf(m, 1) /\ Fr(m, 1) = f /\ \A i \in Nat : FrameOf(m, i) => i > 0
  BY DEF Arriving
<1>6. 0 \in Nat /\ 1 \in Nat
  BY SMTT(20)
<1>7. /\ \A l \in Nat : FrameOf(m, l) /\ l > 1 => Num(Fr(m, l)) >= n1 /\ Num(Fr(m, l)) # n1 /\ Num(Fr(m, l)) \in Nat
      /\ \A j \in Nat : EventOf(m, j) => Num(Ev(m, j)) > n1
  BY <1>3, <1>5, <1>6 DEF FramesOK, ItemOK
<1>8. ASSUME NEW l \in Nat, FrameOf(m, l), Num(Fr(m, l)) # n1
      PROVE  l > 1
  <2>1. l > 0 /\ l # 1
    BY <1>3, <1>5, <1>8
  <2>. QED
    BY <2>1, SMTT(20)
<1>9. EventsAfter(m, n1)'
  <2>1. \A j \in Nat : EventOf(m, j)' => Num(Ev(m, j)') > n1
    BY <1>6, <1>7, OldEvent
  <2>. QED
    BY <2>1 DEF EventsAfter, Num
<1>10. FramesFollow(m, n1)'
  <2>1. ASSUME NEW i \in Nat, FrameOf(m, i)'
        PROVE  /\ Num(Fr(m, i)') > n1
               /\ \A k \in n1 + 1 .. Num(Fr(m, i)') :
                     \E l \in Nat : l <= i /\ FrameOf(m, l)' /\ Num(Fr(m, l)') = k
    <3>1. i + 1 \in Nat /\ FrameOf(m, i + 1) /\ Fr(m, i)' = Fr(m, i + 1)
      BY <1>6, <2>1, OldFrame
    <3>2. i + 1 > 1
      <4>1. i # 0
        BY <2>1 DEF Moves
      <4>. QED
        BY <4>1, SMTT(20)
    <3>3. PICK b \in Nat : b = Num(Fr(m, i + 1)) /\ b >= n1 /\ b # n1
      BY <1>7, <3>1, <3>2
    <3>4. b > n1
      BY <3>3, SMTT(20)
    <3>5. ASSUME NEW k \in n1 + 1 .. b
          PROVE  \E l \in Nat : l <= i /\ FrameOf(m, l)' /\ Num(Fr(m, l)') = k
      <4>1. k \in n + 1 .. b /\ k # n1
        BY <1>1, <3>5, SMTT(20)
      <4>2. PICK l \in Nat : l <= i + 1 /\ FrameOf(m, l) /\ Num(Fr(m, l)) = k
        BY <1>4, <3>1, <3>3, <4>1 DEF FramesFollow
      <4>3. l > 1
        BY <1>8, <4>1, <4>2
      <4>4. PICK y \in Nat : y + 1 = l /\ FrameOf(m, y)' /\ Fr(m, y)' = Fr(m, l)
        BY <1>6, <4>2, <4>3, KeptFrame
      <4>5. y <= i
        BY <4>2, <4>4, SMTT(20)
      <4>. QED
        BY <4>2, <4>4, <4>5
    <3>. QED
      BY <3>1, <3>3, <3>4, <3>5
  <2>. QED
    BY <2>1 DEF FramesFollow, Num
<1>11. ASSUME Sending(m)'
       PROVE  Whole(m, n1)'
  <2>1. ASSUME NEW k \in n1 + 1 .. Total(m)
        PROVE  \/ \E l \in Nat : FrameOf(m, l)' /\ Num(Fr(m, l)') = k
               \/ \E l \in Nat : EventOf(m, l)' /\ Num(Ev(m, l)') = k
    <3>1. k \in n + 1 .. Total(m) /\ k # n1
      BY <1>1, <2>1, SMTT(20)
    <3>2. ASSUME NEW l \in Nat, FrameOf(m, l), Num(Fr(m, l)) = k
          PROVE  \E y \in Nat : FrameOf(m, y)' /\ Num(Fr(m, y)') = k
      <4>1. l > 1
        BY <1>8, <3>1, <3>2
      <4>2. PICK y \in Nat : y + 1 = l /\ FrameOf(m, y)' /\ Fr(m, y)' = Fr(m, l)
        BY <1>6, <3>2, <4>1, KeptFrame
      <4>. QED
        BY <3>2, <4>2
    <3>3. ASSUME NEW l \in Nat, EventOf(m, l), Num(Ev(m, l)) = k
          PROVE  \E y \in Nat : EventOf(m, y)' /\ Num(Ev(m, y)') = k
      <4>1. PICK y \in Nat : y + 0 = l /\ EventOf(m, y)' /\ Ev(m, y)' = Ev(m, l)
        <5>1. l > 0
          BY <3>3
        <5>2. l # 0 /\ l + 0 = l
          BY <5>1, SMTT(20)
        <5>. QED
          BY <3>3, <5>2 DEF Moves
      <4>. QED
        BY <3>3, <4>1
    <3>. QED
      BY <1>4, <1>11, <3>1, <3>2, <3>3 DEF Whole
  <2>. QED
    BY <2>1 DEF Whole, Num
<1>. QED
  BY <1>9, <1>10, <1>11

\* Chunk c is the n-th of m.
IsChunk(c, m, n) == c = <<m, n>>

\* What d was passed, with one chunk more.
LEMMA QueuedGot ==
  ASSUME Typed, NEW d \in DOMAIN conns, GotOK(d), NEW m, m = conns[d].mate, m = conns'[d].mate, m # 0,
         SenderStays(m), conns'[m].read = conns[m].read,
         NEW n \in Nat, n = Passed(d), NEW c \in Nat \X Nat, IsChunk(c, m, n + 1), n + 1 <= conns[m].read,
         conns'[d].got = conns[d].got, conns'[d].queue = Append(conns[d].queue, c), conns'[d].writer = "on", Room(d)
  PROVE  GotOK(d)' /\ Passed(d)' = n + 1
<1>1. PICK a, b \in Nat : a = Len(conns[d].got) /\ b = Len(conns[d].queue)
  BY PassedTypes
<1>2. n = a + b /\ n + 1 = a + (b + 1) /\ b + 1 \in Nat
  <2>1. n = a + b
    BY <1>1 DEF Passed
  <2>. QED
    BY <2>1, SMTT(20)
<1>3. PICK q, r : q = conns[d].queue /\ r = conns'[d].queue
  OBVIOUS
<1>4. /\ Len(r) = b + 1 /\ r[b + 1] = c /\ \A i \in 1 .. b : r[i] = q[i]
  <2>1. q \in Seq(Nat \X Nat) /\ Len(q) = b /\ r = Append(q, c)
    BY <1>1, <1>3, ConnTypes
  <2>2. PICK S : S = Nat \X Nat
    OBVIOUS
  <2>3. q \in Seq(S) /\ c \in S /\ r = Append(q, c) /\ b = Len(q)
    BY <2>1, <2>2
  <2>4. Len(r) = b + 1 /\ r[b + 1] = c /\ \A i \in 1 .. b : r[i] = q[i]
    BY <2>3, SMTT(20)
  <2>. QED
    BY <2>4
<1>5. \A i \in 1 .. a : conns'[d].got[i] = <<m, i>>
  BY <1>1 DEF GotOK
<1>6. \A i \in 1 .. b + 1 : r[i] = <<m, a + i>>
  <2>1. \A i \in 1 .. b : q[i] = <<m, a + i>>
    BY <1>1, <1>3 DEF GotOK
  <2>2. \A i \in 1 .. b + 1 : i \in 1 .. b \/ i = b + 1
    BY SMTT(20)
  <2>. QED
    BY <1>2, <1>4, <2>1, <2>2 DEF IsChunk
<1>7. b + 1 <= CONN_WRITE_QUEUE_DEPTH
  <2>1. b < CONN_WRITE_QUEUE_DEPTH /\ CONN_WRITE_QUEUE_DEPTH \in Nat
    BY <1>1, ForwardAssumption DEF Room
  <2>. QED
    BY <2>1, SMTT(20)
<1>8. Passed(d)' = n + 1
  BY <1>1, <1>2, <1>3, <1>4 DEF Passed
<1>. QED
  BY <1>1, <1>3, <1>4, <1>5, <1>6, <1>7, <1>8 DEF GotOK

\* Data that is queued.
LEMMA QueuedStreams ==
  ASSUME Typed, Typed', TableInv, StreamInv, NEW e \in Ends, NEW p, NEW f, NEW m, NEW d,
         Arriving(e, p, f, m, d), Takes(e, p), f.h = "DATA", Touches(d), Registered(d),
         state' = state, Room(d), conns[d].writer = "on", conns'[d].writer = "on",
         conns'[d].reader = conns[d].reader, conns'[d].read = conns[d].read,
         conns'[d].got = conns[d].got, conns'[d].queue = Append(conns[d].queue, f.chunk)
  PROVE  StreamInv'
<1>1. /\ p \in Ends /\ m \in DOMAIN conns /\ d \in DOMAIN conns /\ conns[m].end = p
      /\ conns[m].mate = d /\ conns[d].mate = m /\ m # 0 /\ d # 0 /\ m # d
      /\ ItemOK(m, f, f.h # "DATA") /\ f.chunk \in Nat \X Nat
  BY DEF Arriving
<1>2. \A z \in Ends : Restricts(z)
  BY DEF Restricts
<1>3. ReadsOn(d)
  <2>1. conns[d].read >= conns[d].read
    BY <1>1, ConnTypes, SMTT(20)
  <2>. QED
    BY <2>1 DEF ReadsOn
<1>4. \A u \in DOMAIN conns : conns[u].mate # 0 => SenderStays(u)
  BY <1>3, TouchStays
<1>5. OwnerInv'
  BY TakenOwners DEF StreamInv
<1>6. \A u \in DOMAIN conns : Total(u)' = Total(u)
  BY DEF Touches, Total
<1>7. ASSUME NEW u \in DOMAIN conns, conns[u].mate # 0, u # m
      PROVE  StreamOK(u)'
  <2>1. PICK g \in DOMAIN conns : g = conns[u].mate /\ conns[g].mate = u
    BY <1>7 DEF TableInv, MateInv, MateOK
  <2>2. g # d
    BY <1>1, <1>7, <2>1
  <2>3. conns'[g] = conns[g]
    BY <2>2 DEF Touches
  <2>4. Receiving(g)' => u # m /\ conns[g].writer # "failed" /\ Passed(g)' = Passed(g)
    BY <1>7, <2>3 DEF Receiving, Passed
  <2>5. StreamOK(u) /\ Total(u)' = Total(u)
    BY <1>6 DEF StreamInv
  <2>. QED
    BY <1>2, <1>3, <1>7, <2>1, <2>4, <2>5, TakenQuiet
<1>8. FramesOK(m) /\ EventsOK(m) /\ FlowOK(m) /\ GotOK(d)
  BY <1>1 DEF StreamInv, StreamOK
<1>9. PICK n \in Nat : n = Passed(d)
  BY <1>1, PassedTypes
<1>10. Receiving(d)
  BY <1>1 DEF Receiving
<1>11. Num(f) = n + 1
  BY <1>8, <1>9, <1>10, ArrivingNext
<1>12. GotOK(d)' /\ Passed(d)' = n + 1
  <2>1. PICK c \in Nat \X Nat : c = f.chunk
    BY <1>1
  <2>2. IsChunk(c, m, n + 1)
    BY <1>1, <1>11, <2>1 DEF ItemOK, IsChunk
  <2>3. n + 1 <= conns[m].read
    BY <1>1, <1>11 DEF ItemOK
  <2>4. SenderStays(m) /\ conns'[m].read = conns[m].read /\ m = conns'[d].mate
    BY <1>1, <1>4 DEF Touches, SenderStays
  <2>5. conns'[d].queue = Append(conns[d].queue, c)
    BY <2>1
  <2>. QED
    BY <1>1, <1>8, <1>9, <2>2, <2>3, <2>4, <2>5, QueuedGot
<1>13. StreamOK(m)'
  <2>1. SenderStays(m) /\ p = conns'[m].end /\ d = conns'[m].mate
    BY <1>1, <1>4 DEF SenderStays
  <2>2. /\ Shifts(link[p], link'[p], 1) /\ \A i \in DOMAIN link'[p] : i + 1 \in DOMAIN link[p]
        /\ \A i \in DOMAIN link[p] : i <= 1 => link[p][i].h # "RESPONSE"
        /\ events'[p] = events[p]
    BY DEF Takes
  <2>3. 0 \in Nat /\ 1 \in Nat
    BY SMTT(20)
  <2>4. /\ Shifts(events[p], events'[p], 0) /\ \A j \in DOMAIN events'[p] : j + 0 \in DOMAIN events[p]
        /\ \A j \in DOMAIN events[p] : ~(j <= 0)
    BY <1>1, <2>2, StillQueues
  <2>5. Moves(m, 1, 0)
    BY <1>1, <2>1, <2>2, <2>3, <2>4, MovesFacts
  <2>6. NoNewFrames(m, 1) /\ NoNewEvents(m, 0)
    BY <1>1, <2>1, <2>2, <2>3, <2>4, NoNewItems
  <2>7. EventsOK(m)'
    BY <1>8, <2>1, <2>3, <2>5, <2>6, EventsKeep
  <2>8. Answered(m, 1)
    <3>1. conns'[d].id = conns[d].id
      BY <1>1 DEF Touches
    <3>2. KeepsAnswer(p, d, 1)
      BY <2>2 DEF KeepsAnswer
    <3>. QED
      BY <1>1, <2>1, <2>2, <2>3, <3>1, <3>2, AnsweredKeeps
  <2>9. FramesOK(m)'
    <3>1. NewEventsLater(m, 0)
      BY <2>6 DEF NewEventsLater, NoNewEvents
    <3>. QED
      BY <1>8, <2>1, <2>3, <2>5, <2>6, <2>7, <2>8, <3>1, FramesKeep
  <2>10. FlowOK(m)'
    <3>1. \A j \in Nat : EventOf(m, j) => j > 0
      <4>1. \A j \in Nat : ~(j <= 0) => j > 0
        BY SMTT(20)
      <4>. QED
        BY <1>1, <2>4, <4>1 DEF EventOf
    <3>2. Sending(m)' => Sending(m)
      BY <1>1, <1>2, ShrinkStays
    <3>3. Total(m) \in Nat /\ Total(m)' = Total(m)
      <4>1. conns[m].read \in Nat
        BY <1>1, ConnTypes
      <4>2. conns[m].read + 1 \in Nat
        BY <4>1, SMTT(20)
      <4>. QED
        BY <1>1, <1>6, <4>1, <4>2 DEF Total
    <3>4. n + 1 = Passed(d)'
      BY <1>12
    <3>. QED
      BY <1>8, <1>9, <1>10, <2>1, <2>5, <2>6, <3>1, <3>2, <3>3, <3>4, TakenFlow
  <2>. QED
    BY <2>7, <2>9, <2>10 DEF StreamOK
<1>14. ASSUME NEW u \in DOMAIN conns, conns[u].mate = 0
       PROVE  StreamOK(u)'
  <2>1. conns'[u].mate = conns[u].mate
    BY SameIdentity DEF TableInv
  <2>. QED
    BY <1>14, <2>1 DEF StreamOK
<1>15. ASSUME NEW u \in DOMAIN conns
       PROVE  GotOK(u)'
  BY <1>3, <1>12, TouchGot DEF StreamInv
<1>. QED
  BY <1>5, <1>7, <1>13, <1>14, <1>15 DEF StreamInv, Touches

\* Data.
LEMMA HandleDataStreams ==
  ASSUME Typed, TableInv, AskInv, StreamInv, NEW e \in Ends, HandleData(e)
  PROVE  /\ Typed' /\ TableInv' /\ AskInv' /\ StreamInv'
         /\ \E t : Touches(t) /\ \A x \in Ends : Restricts(x)
<1>1. link[Peer(e)] # <<>> /\ Frame(e).h = "DATA"
  BY DEF HandleData, Incoming, Frame
<1>2. PICK f : f = Frame(e) /\ FrameItem(f) /\ f.h = "DATA" /\ f.h # "RESPONSE"
  BY <1>1 DEF FrameItem
<1>3. PICK p, m, d : Arriving(e, p, f, m, d)
  BY <1>1, <1>2, ArrivingFacts
<1>4. Frame(e).chunk \in Nat \X Nat
  BY <1>2, <1>3 DEF Arriving
<1>5. /\ Typed' /\ TableInv' /\ AskInv' /\ Answer(e, <<>>) /\ events' = events
      /\ \E t :
           /\ t = Target(e, Frame(e)) /\ Touches(t)
           /\ \/ Forgets(t) /\ (t \in DOMAIN conns => conns[t].writer = "failed")
              \/ /\ t \in DOMAIN conns /\ state' = state /\ Room(t)
                 /\ conns[t].writer = "on" /\ conns'[t].writer = "on"
                 /\ conns'[t].reader = conns[t].reader /\ conns'[t].read = conns[t].read
                 /\ conns'[t].got = conns[t].got
                 /\ conns'[t].queue = Append(conns[t].queue, Frame(e).chunk)
  BY <1>4, HandleDataEffect
<1>6. Takes(e, p)
  BY <1>1, <1>2, <1>3, <1>5, TakesFacts DEF Arriving
<1>7. PICK t :
           /\ t = Target(e, f) /\ Touches(t)
           /\ \/ Forgets(t) /\ (t \in DOMAIN conns => conns[t].writer = "failed")
              \/ /\ t \in DOMAIN conns /\ state' = state /\ Room(t)
                 /\ conns[t].writer = "on" /\ conns'[t].writer = "on"
                 /\ conns'[t].reader = conns[t].reader /\ conns'[t].read = conns[t].read
                 /\ conns'[t].got = conns[t].got
                 /\ conns'[t].queue = Append(conns[t].queue, f.chunk)
  BY <1>2, <1>5
<1>8. t \in DOMAIN conns => t = d /\ Registered(d)
  BY <1>3, <1>7, ConnTypes DEF Arriving
<1>9. CASE Forgets(t) /\ (t \in DOMAIN conns => conns[t].writer = "failed")
  <2>1. Touches(t) /\ \A x \in Ends : Restricts(x)
    BY <1>9 DEF Forgets
  <2>2. StreamInv'
    BY <1>3, <1>5, <1>6, <1>7, <1>9, ForgetStreams
  <2>. QED
    BY <1>5, <2>1, <2>2
<1>10. CASE /\ t \in DOMAIN conns /\ state' = state /\ Room(t)
            /\ conns[t].writer = "on" /\ conns'[t].writer = "on"
            /\ conns'[t].reader = conns[t].reader /\ conns'[t].read = conns[t].read
            /\ conns'[t].got = conns[t].got
            /\ conns'[t].queue = Append(conns[t].queue, f.chunk)
  <2>1. t = d /\ Registered(d)
    BY <1>8, <1>10
  <2>2. /\ Touches(d) /\ state' = state /\ Room(d)
        /\ conns[d].writer = "on" /\ conns'[d].writer = "on"
        /\ conns'[d].reader = conns[d].reader /\ conns'[d].read = conns[d].read
        /\ conns'[d].got = conns[d].got
        /\ conns'[d].queue = Append(conns[d].queue, f.chunk)
    BY <1>7, <1>10, <2>1
  <2>3. Typed' /\ f.h = "DATA"
    BY <1>2, <1>5
  <2>4. StreamInv'
    BY <1>3, <1>6, <2>1, <2>2, <2>3, QueuedStreams
  <2>5. \A x \in Ends : Restricts(x)
    BY <2>2 DEF Restricts
  <2>. QED
    BY <1>5, <2>2, <2>4, <2>5
<1>. QED
  BY <1>5, <1>7, <1>9, <1>10

=============================================================================
