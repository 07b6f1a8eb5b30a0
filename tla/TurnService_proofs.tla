-------------------------- MODULE TurnService_proofs --------------------------
(***************************************************************************)
(* The turn lock implements TurnService, for any threads, turns, prompts   *)
(* and memory of settled turns.                                            *)
(*                                                                         *)
(* The line of a thread is its lane's holder followed by its queue, so the *)
(* pump, which moves the head of the queue to the holder's place, leaves   *)
(* the line as it was and only begins to serve it.  An operation is then   *)
(* what it does to its lane before the pump.                               *)
(***************************************************************************)
EXTENDS TurnLock_proofs

\* The line of a lane, and whether its front is served.
LineOf(l) == (IF l.active = NoTurn THEN <<>> ELSE <<l.active>>) \o l.queue
ServedNow(l) == l.active # NoTurn

line == [th \in Threads |-> Order(th)]
serving == [th \in Threads |-> lane[th].active # NoTurn]

----------------------------------------------------------------------------
(* Lines.                                                                  *)

\* The line of a lane nobody holds, and of one that is held.
LEMMA LineShape ==
    ASSUME NEW l \in Lane
    PROVE  /\ LineOf(l) \in Seq(Turns)
           /\ l.active = NoTurn => LineOf(l) = l.queue
           /\ l.active # NoTurn =>
                /\ l.active \in Turns
                /\ Len(LineOf(l)) = Len(l.queue) + 1
                /\ LineOf(l)[1] = l.active
                /\ \A i \in 1..Len(l.queue) : LineOf(l)[i + 1] = l.queue[i]
<1>1. l.queue \in Seq(Turns) /\ l.active \in Turns \cup {NoTurn}
  BY DEF Lane
<1>2. CASE l.active = NoTurn
  <2>1. LineOf(l) = l.queue
    BY <1>1, <1>2, ConcatEmptySeq DEF LineOf
  <2> QED BY <1>1, <1>2, <2>1
<1>3. CASE l.active # NoTurn
  <2> DEFINE a == l.active
             q == l.queue
             w == <<a>> \o q
  <2>1. a \in Turns /\ q \in Seq(Turns) /\ LineOf(l) = w
    BY <1>1, <1>3 DEF LineOf
  <2>2. <<a>> \in Seq(Turns) /\ Len(<<a>>) = 1 /\ <<a>>[1] = a
    BY <2>1
  <2>3. /\ w \in Seq(Turns)
        /\ Len(w) = 1 + Len(q) /\ Len(q) \in Nat
        /\ \A i \in 1..(1 + Len(q)) : w[i] = IF i <= 1 THEN <<a>>[i] ELSE q[i - 1]
    <3> HIDE DEF a, q
    <3> QED BY <2>1, <2>2, ConcatProperties
  <2> HIDE DEF a, q, w
  <2>4. Len(w) = Len(q) + 1 /\ w[1] = a
    BY <2>2, <2>3
  <2>5. \A i \in 1..Len(q) : w[i + 1] = q[i]
    BY <2>3
  <2> QED BY <1>3, <2>1, <2>3, <2>4, <2>5 DEF a, q
<1> QED BY <1>2, <1>3

\* pump leaves the line as it was; it serves the front if there is one.
LEMMA PumpKeepsLine ==
    ASSUME NEW l \in Lane
    PROVE  /\ Pumped(l) \in Lane
           /\ LineOf(Pumped(l)) = LineOf(l)
           /\ ServedNow(Pumped(l)) <=> ServedNow(l) \/ l.queue # <<>>
<1>1. CASE ~Grants(l)
  BY <1>1 DEF Grants, Pumped, ServedNow
<1>2. CASE Grants(l)
  <2> DEFINE q == l.queue
             m == Pumped(l)
  <2>1. l.active = NoTurn /\ q \in Seq(Turns) /\ q # <<>> /\ l.waiters \subseteq Turns
    BY <1>2 DEF Grants, Lane
  <2>2. Head(q) \in Turns /\ Tail(q) \in Seq(Turns)
    BY <2>1, MembersHeadTail
  <2>3. /\ m = [active |-> Head(q), queue |-> Tail(q),
                state |-> "PROCESSING_TURN", waiters |-> l.waiters \ {Head(q)}]
        /\ m \in Lane
    BY <1>2, <2>1, <2>2 DEF Pumped, Lane, LaneStates
  <2>4. m.active = Head(q) /\ m.queue = Tail(q) /\ m.active # NoTurn
    BY <2>2, <2>3, NullAssumption
  <2> HIDE DEF m, q
  <2>5. /\ Len(q) \in Nat /\ Len(q) > 0 /\ Head(q) = q[1]
        /\ Len(Tail(q)) = Len(q) - 1
        /\ \A i \in 1..(Len(q) - 1) : Tail(q)[i] = q[i + 1]
    BY <2>1
  <2>6. /\ LineOf(m) \in Seq(Turns) /\ Len(LineOf(m)) = Len(q)
        /\ LineOf(m)[1] = q[1]
        /\ \A i \in 1..(Len(q) - 1) : LineOf(m)[i + 1] = q[i + 1]
    <3>1. /\ LineOf(m) \in Seq(Turns) /\ Len(LineOf(m)) = Len(m.queue) + 1
          /\ LineOf(m)[1] = m.active
          /\ \A i \in 1..Len(m.queue) : LineOf(m)[i + 1] = m.queue[i]
      BY <2>3, <2>4, LineShape
    <3> QED BY <2>4, <2>5, <3>1
  <2>7. ASSUME NEW i \in 1..Len(LineOf(m)) PROVE LineOf(m)[i] = q[i]
    <3>1. CASE i = 1
      BY <2>6, <3>1
    <3>2. CASE i # 1
      <4>1. i - 1 \in 1..(Len(q) - 1) /\ (i - 1) + 1 = i
        BY <2>5, <2>6, <3>2
      <4> QED BY <2>6, <4>1
    <3> QED BY <3>1, <3>2
  <2>8. LineOf(m) = q
    BY <2>1, <2>6, <2>7, SeqEqual
  <2>9. LineOf(l) = q
    BY <2>1, LineShape DEF q
  <2> QED BY <2>1, <2>3, <2>4, <2>8, <2>9 DEF m, q, ServedNow
<1> QED BY <1>1, <1>2

\* A place taken at the end of the queue is one at the end of the line.
LEMMA AppendToLine ==
    ASSUME NEW l \in Lane, NEW t \in Turns, NEW m \in Lane,
           m.active = l.active, m.queue = Append(l.queue, t)
    PROVE  LineOf(m) = Append(LineOf(l), t)
<1>1. l.queue \in Seq(Turns) /\ Append(l.queue, t) \in Seq(Turns)
  BY DEF Lane
<1>2. CASE l.active = NoTurn
  BY <1>1, <1>2, LineShape
<1>3. CASE l.active # NoTurn
  <2> DEFINE q == l.queue
             v == LineOf(l)
             w == LineOf(m)
  <2>1. /\ v \in Seq(Turns) /\ Len(v) = Len(q) + 1 /\ v[1] = l.active
        /\ \A i \in 1..Len(q) : v[i + 1] = q[i]
    BY <1>3, LineShape
  <2>2. /\ Len(m.queue) = Len(q) + 1 /\ Len(q) \in Nat
        /\ \A i \in 1..Len(q) : m.queue[i] = q[i]
        /\ m.queue[Len(q) + 1] = t
    BY <1>1, AppendProperties
  <2>3. /\ w \in Seq(Turns) /\ Len(w) = Len(m.queue) + 1 /\ w[1] = l.active
        /\ \A i \in 1..Len(m.queue) : w[i + 1] = m.queue[i]
    BY <1>3, LineShape
  <2> HIDE DEF q, v, w
  <2>4. /\ Append(v, t) \in Seq(Turns) /\ Len(Append(v, t)) = Len(v) + 1
        /\ \A i \in 1..Len(v) : Append(v, t)[i] = v[i]
        /\ Append(v, t)[Len(v) + 1] = t
    BY <2>1, AppendProperties
  <2>5. ASSUME NEW i \in 1..Len(w) PROVE w[i] = Append(v, t)[i]
    <3>1. CASE i = 1
      BY <2>1, <2>2, <2>3, <2>4, <3>1
    <3>2. CASE i # 1
      <4>1. i \in Nat /\ i - 1 \in 1..Len(m.queue) /\ (i - 1) + 1 = i
        BY <2>2, <2>3, <3>2
      <4>2. w[i] = m.queue[i - 1]
        BY <2>3, <4>1
      <4>3. CASE i - 1 \in 1..Len(q)
        <5>1. i \in 1..Len(v) /\ v[i] = q[i - 1]
          BY <2>1, <2>2, <4>1, <4>3
        <5> QED BY <2>2, <2>4, <4>2, <4>3, <5>1
      <4>4. CASE i - 1 = Len(q) + 1
        BY <2>1, <2>2, <2>4, <4>2, <4>4
      <4>5. i - 1 \in 1..Len(q) \/ i - 1 = Len(q) + 1
        BY <2>2, <4>1
      <4> QED BY <4>3, <4>4, <4>5
    <3> QED BY <3>1, <3>2
  <2>6. w = Append(v, t)
    BY <2>1, <2>2, <2>3, <2>4, <2>5, SeqEqual
  <2> QED BY <2>6 DEF v, w
<1> QED BY <1>2, <1>3

\* A turn that leaves the queue leaves the line, one place further back when
\* somebody holds the lane.
LEMMA WithoutFromLine ==
    ASSUME NEW l \in Lane, NEW i \in DOMAIN l.queue, NEW m \in Lane,
           m.active = l.active, m.queue = Without(l.queue, i),
           NEW k, k = IF l.active = NoTurn THEN i ELSE i + 1
    PROVE  /\ k \in DOMAIN LineOf(l)
           /\ ServedNow(l) => k > 1
           /\ LineOf(m) = [j \in 1..(Len(LineOf(l)) - 1) |->
                             IF j < k THEN LineOf(l)[j] ELSE LineOf(l)[j + 1]]
<1> DEFINE q == l.queue
           v == LineOf(l)
           w == LineOf(m)
<1>1. /\ q \in Seq(Turns) /\ Len(q) \in Nat /\ i \in 1..Len(q)
      /\ DOMAIN q = 1..Len(q)
  BY DEF Lane
<1>2. /\ m.queue \in Seq(Turns) /\ Len(m.queue) = Len(q) - 1
      /\ \A j \in 1..(Len(q) - 1) : m.queue[j] = IF j < i THEN q[j] ELSE q[j + 1]
  <2>1. /\ m.queue \in Seq(Turns)
        /\ DOMAIN m.queue = 1..(Len(q) - 1)
        /\ \A j \in 1..(Len(q) - 1) : m.queue[j] = IF j < i THEN q[j] ELSE q[j + 1]
    BY <1>1 DEF Without, Lane
  <2> QED BY <1>1, <2>1
<1>3. CASE l.active = NoTurn
  <2>1. v = q /\ k = i /\ ~ServedNow(l)
    BY <1>3, LineShape DEF ServedNow
  <2>2. w = Without(q, i)
    BY <1>3, LineShape
  <2> QED BY <1>1, <2>1, <2>2 DEF Without
<1>4. CASE l.active # NoTurn
  <2>1. /\ v \in Seq(Turns) /\ Len(v) = Len(q) + 1 /\ v[1] = l.active
        /\ \A j \in 1..Len(q) : v[j + 1] = q[j]
    BY <1>4, LineShape
  <2>2. /\ w \in Seq(Turns) /\ Len(w) = Len(q) /\ w[1] = l.active
        /\ \A j \in 1..(Len(q) - 1) : w[j + 1] = m.queue[j]
    <3>1. /\ w \in Seq(Turns) /\ Len(w) = Len(m.queue) + 1 /\ w[1] = m.active
          /\ \A j \in 1..Len(m.queue) : w[j + 1] = m.queue[j]
      BY <1>4, LineShape
    <3> QED BY <1>1, <1>2, <3>1
  <2> HIDE DEF v, w, q
  <2>3. k = i + 1 /\ k \in DOMAIN v /\ k > 1
    BY <1>1, <1>4, <2>1
  <2>4. w = [j \in 1..Len(q) |-> w[j]]
    BY <1>1, <2>2
  <2>5. ASSUME NEW j \in 1..Len(q) PROVE w[j] = IF j < k THEN v[j] ELSE v[j + 1]
    <3>1. CASE j = 1
      BY <1>1, <2>1, <2>2, <2>3, <3>1
    <3>2. CASE j # 1
      <4>1. j - 1 \in 1..(Len(q) - 1) /\ (j - 1) + 1 = j
        BY <1>1, <3>2
      <4>2. w[j] = IF j - 1 < i THEN q[j - 1] ELSE q[(j - 1) + 1]
        BY <1>2, <2>2, <4>1
      <4>3. q[j - 1] = v[j] /\ q[j] = v[j + 1]
        BY <1>1, <2>1, <4>1
      <4> QED BY <1>1, <2>3, <4>1, <4>2, <4>3
    <3> QED BY <3>1, <3>2
  <2>6. Len(v) - 1 = Len(q)
    BY <1>1, <2>1
  <2>7. w = [j \in 1..(Len(v) - 1) |-> IF j < k THEN v[j] ELSE v[j + 1]]
    BY <2>4, <2>5, <2>6
  <2> QED BY <2>3, <2>7 DEF v, w
<1> QED BY <1>3, <1>4

----------------------------------------------------------------------------
(* The steps.                                                              *)

\* What a change of one lane, pump included, is to the lines.
LEMMA LanesToLines ==
    ASSUME IInv, NEW th \in Threads, NEW l \in Lane,
           lane' = [lane EXCEPT ![th] = Pumped(l)] \/ lane' = [lane EXCEPT ![th] = l]
    PROVE  /\ line' = [line EXCEPT ![th] = LineOf(l)]
           /\ \E now \in BOOLEAN :
                /\ ServedNow(l) => now
                /\ now => ServedNow(l) \/ l.queue # <<>>
                /\ serving' = [serving EXCEPT ![th] = now]
<1> DEFINE m == lane'[th]
<1>1. lane \in [Threads -> Lane] /\ m \in {l, Pumped(l)} /\ lane' = [lane EXCEPT ![th] = m]
  BY DEF IInv, Good
<1>2. LineOf(m) = LineOf(l) /\ ServedNow(m) \in BOOLEAN
  BY <1>1, PumpKeepsLine DEF ServedNow
<1>3. /\ ServedNow(l) => ServedNow(m)
      /\ ServedNow(m) => ServedNow(l) \/ l.queue # <<>>
  BY <1>1, PumpKeepsLine
<1> HIDE DEF m
<1>4. line' = [x \in Threads |-> IF x = th THEN LineOf(m) ELSE line[x]]
  BY <1>1 DEF line, Order, LineOf
<1>5. serving' = [x \in Threads |-> IF x = th THEN ServedNow(m) ELSE serving[x]]
  BY <1>1 DEF serving, ServedNow
<1>6. line' = [line EXCEPT ![th] = LineOf(l)]
  BY <1>2, <1>4 DEF line
<1>7. serving' = [serving EXCEPT ![th] = ServedNow(m)]
  BY <1>5 DEF serving
<1> QED BY <1>2, <1>3, <1>6, <1>7

\* A line with a holder or a queue is not empty.
LEMMA LineNotEmpty ==
    ASSUME NEW l \in Lane
    PROVE  LineOf(l) # <<>> <=> ServedNow(l) \/ l.queue # <<>>
<1>1. l.queue \in Seq(Turns)
  BY DEF Lane
<1> QED BY <1>1, LineShape DEF ServedNow

\* Who is in the line of a lane.
LEMMA InLine ==
    ASSUME NEW l \in Lane, NEW t, t # l.active, t \notin Members(l.queue),
           NEW i \in DOMAIN LineOf(l)
    PROVE  LineOf(l)[i] # t
<1>1. l.queue \in Seq(Turns) /\ LineOf(l) \in Seq(Turns)
  BY LineShape DEF Lane
<1>2. CASE l.active = NoTurn
  BY <1>1, <1>2, LineShape DEF Members
<1>3. CASE l.active # NoTurn
  <2>1. CASE i = 1
    BY <1>3, <2>1, LineShape
  <2>2. CASE i # 1
    <3>1. i - 1 \in DOMAIN l.queue /\ LineOf(l)[(i - 1) + 1] = l.queue[i - 1] /\ (i - 1) + 1 = i
      BY <1>1, <1>3, <2>2, LineShape
    <3> QED BY <3>1 DEF Members
  <2> QED BY <2>1, <2>2
<1> QED BY <1>2, <1>3

LEMMA BarOf ==
    ASSUME IInv, NEW th \in Threads
    PROVE  /\ lane[th] \in Lane /\ Order(th) = LineOf(lane[th])
           /\ line[th] = LineOf(lane[th])
           /\ serving[th] = ServedNow(lane[th])
BY DEF IInv, Good, line, serving, Order, LineOf, ServedNow

\* A new turn arrives at the end of its thread's line.
LEMMA ArriveStep ==
    ASSUME IInv, NEW t \in Turns, NEW l \in Lane,
           t # Here(t).active, t \notin Members(Here(t).queue),
           l.active = Here(t).active, l.queue = Append(Here(t).queue, t),
           \/ lane' = [lane EXCEPT ![Home[t]] = Pumped(l)]
           \/ lane' = [lane EXCEPT ![Home[t]] = l]
    PROVE  Line!Next
<1> DEFINE th == Home[t]
<1>1. th \in Threads /\ Here(t) = lane[th]
  BY HomeAssumption DEF Here
<1> HIDE DEF th
<1>2. /\ lane[th] \in Lane
      /\ line[th] = LineOf(lane[th]) /\ serving[th] = ServedNow(lane[th])
  BY <1>1, BarOf
<1>3. LineOf(l) = Append(line[th], t) /\ ServedNow(l) = serving[th]
  BY <1>1, <1>2, AppendToLine DEF ServedNow
<1>4. PICK now \in BOOLEAN :
        /\ serving[th] => now
        /\ serving' = [serving EXCEPT ![th] = now]
  BY <1>1, <1>3, LanesToLines DEF th
<1>5. line' = [line EXCEPT ![th] = Append(line[th], t)]
  BY <1>1, <1>3, LanesToLines DEF th
<1>6. line'[th] # <<>>
  BY <1>1, <1>2, <1>5, LineShape, AppendProperties DEF line
<1>7. \A i \in DOMAIN line[th] : line[th][i] # t
  <2>1. t # lane[th].active /\ t \notin Members(lane[th].queue)
    BY <1>1
  <2>2. \A i \in DOMAIN LineOf(lane[th]) : LineOf(lane[th])[i] # t
    BY <1>2, <2>1, InLine
  <2> QED BY <1>2, <2>2
<1>8. Line!Arrive(th, t)
  BY <1>4, <1>5, <1>6, <1>7 DEF Line!Arrive, Line!MayServe, line, serving
<1> QED BY <1>1, <1>8 DEF Line!Next

\* The holder leaves the front.
LEMMA FinishStep ==
    ASSUME IInv, NEW t \in Turns, NEW o \in Outcomes, ReleaseTurn(t, o)
    PROVE  Line!Next
<1> DEFINE th == Home[t]
           l == [Here(t) EXCEPT !.active = NoTurn, !.state = "IDLE"]
<1>1. /\ th \in Threads /\ Here(t) = lane[th] /\ lane[th] \in Lane
      /\ line[th] = LineOf(lane[th]) /\ serving[th] = ServedNow(lane[th])
      /\ lane[th].active = t
  BY HomeAssumption, BarOf DEF Here, ReleaseTurn
<1>2. /\ l \in Lane /\ l.active = NoTurn /\ l.queue = lane[th].queue
      /\ lane' = [lane EXCEPT ![th] = Pumped(l)]
  BY <1>1 DEF ReleaseTurn, Pump, Lane, LaneStates
<1> HIDE DEF th, l
<1>3. serving[th] /\ ~ServedNow(l)
  BY <1>1, <1>2, NullAssumption DEF ServedNow
<1>4. LineOf(l) = Tail(line[th])
  <2> DEFINE v == LineOf(lane[th])
             q == lane[th].queue
  <2>1. /\ v \in Seq(Turns) /\ Len(v) = Len(q) + 1
        /\ \A i \in 1..Len(q) : v[i + 1] = q[i]
        /\ q \in Seq(Turns) /\ Len(q) \in Nat
    BY <1>1, LineShape, NullAssumption DEF Lane
  <2>2. LineOf(l) = q
    BY <1>2, LineShape
  <2> HIDE DEF v, q
  <2>3. v # <<>>
    BY <2>1
  <2>4. /\ Tail(v) \in Seq(Turns) /\ Len(Tail(v)) = Len(q)
        /\ \A i \in 1..Len(q) : Tail(v)[i] = v[i + 1]
    BY <2>1, <2>3, HeadTailProperties
  <2>5. Tail(v) = q
    BY <2>1, <2>4, SeqEqual
  <2> QED BY <1>1, <2>2, <2>5 DEF v
<1>5. PICK now \in BOOLEAN :
        /\ now => l.queue # <<>>
        /\ serving' = [serving EXCEPT ![th] = now]
  BY <1>1, <1>2, <1>3, LanesToLines
<1>6. line' = [line EXCEPT ![th] = Tail(line[th])]
  BY <1>1, <1>2, <1>4, LanesToLines
<1>7. now => line'[th] # <<>>
  BY <1>1, <1>2, <1>4, <1>5, <1>6, LineNotEmpty DEF line
<1>8. Line!Finish(th)
  BY <1>3, <1>5, <1>6, <1>7 DEF Line!Finish, Line!MayServe, line, serving
<1> QED BY <1>1, <1>8 DEF Line!Next

\* A waiting turn leaves its place.
LEMMA WithdrawStep ==
    ASSUME IInv, NEW t \in Turns, CancelTurn(t)
    PROVE  Line!Next
<1> DEFINE th == Home[t]
<1>1. /\ th \in Threads /\ Here(t) = lane[th] /\ lane[th] \in Lane
      /\ line[th] = LineOf(lane[th]) /\ serving[th] = ServedNow(lane[th])
  BY HomeAssumption, BarOf DEF Here
<1>2. PICK i \in DOMAIN lane[th].queue :
        lane' = [lane EXCEPT ![th] =
                   Pumped([lane[th] EXCEPT !.queue = Without(@, i), !.waiters = @ \ {t}])]
  BY <1>1 DEF CancelTurn, Pump
<1> DEFINE l == [lane[th] EXCEPT !.queue = Without(@, i), !.waiters = @ \ {t}]
           k == IF lane[th].active = NoTurn THEN i ELSE i + 1
<1>3. /\ l \in Lane /\ l.active = lane[th].active /\ l.queue = Without(lane[th].queue, i)
      /\ lane' = [lane EXCEPT ![th] = Pumped(l)]
  BY <1>1, <1>2, MembersWithout DEF Lane
<1> HIDE DEF th, l
<1>4. /\ k \in DOMAIN line[th]
      /\ serving[th] => k > 1
      /\ LineOf(l) = [j \in 1..(Len(line[th]) - 1) |->
                        IF j < k THEN line[th][j] ELSE line[th][j + 1]]
  BY <1>1, <1>2, <1>3, WithoutFromLine
<1> HIDE DEF k
<1>5. PICK now \in BOOLEAN :
        /\ serving[th] => now
        /\ now => LineOf(l) # <<>>
        /\ serving' = [serving EXCEPT ![th] = now]
  BY <1>1, <1>3, LanesToLines, LineNotEmpty DEF ServedNow
<1>6. line' = [line EXCEPT ![th] = LineOf(l)] /\ line'[th] = LineOf(l)
  <2>1. line' = [line EXCEPT ![th] = LineOf(l)]
    BY <1>1, <1>3, LanesToLines
  <2>2. th \in DOMAIN line
    BY <1>1 DEF line
  <2> QED BY <2>1, <2>2
<1>7. Line!Withdraw(th, k)
  BY <1>4, <1>5, <1>6 DEF Line!Withdraw, Line!MayServe, line, serving
<1> QED BY <1>1, <1>4, <1>7 DEF Line!Next, line

\* acquireTurn of a turn in line changes no line, and may serve its front.
LEMMA ServeStep ==
    ASSUME IInv, NEW t \in Turns, AcquireQueued(t)
    PROVE  Line!Next
<1> DEFINE th == Home[t]
           l == [Here(t) EXCEPT !.waiters = @ \cup {t}]
<1>1. /\ th \in Threads /\ Here(t) = lane[th] /\ lane[th] \in Lane
      /\ line[th] = LineOf(lane[th]) /\ serving[th] = ServedNow(lane[th])
  BY HomeAssumption, BarOf DEF Here
<1>2. /\ l \in Lane /\ l.active = lane[th].active /\ l.queue = lane[th].queue
      /\ lane' = [lane EXCEPT ![th] = Pumped(l)]
  BY <1>1 DEF AcquireQueued, Pump, Lane
<1> HIDE DEF th, l
<1>3. LineOf(l) = line[th] /\ ServedNow(l) = serving[th]
  BY <1>1, <1>2 DEF LineOf, ServedNow
<1>4. PICK now \in BOOLEAN :
        /\ serving[th] => now
        /\ now => LineOf(l) # <<>>
        /\ serving' = [serving EXCEPT ![th] = now]
  BY <1>1, <1>2, <1>3, LanesToLines, LineNotEmpty
<1>5. line' = line
  BY <1>1, <1>2, <1>3, LanesToLines DEF line
<1>6. Line!Serve(th)
  BY <1>1, <1>3, <1>4, <1>5 DEF Line!Serve, Line!MayServe, line, serving
<1> QED BY <1>1, <1>6 DEF Line!Next

\* A thread that is cleared loses its line.
LEMMA CloseStep ==
    ASSUME IInv, NEW th \in Threads, ClearThread(th)
    PROVE  Line!Next
<1>1. lane \in [Threads -> Lane] /\ lane' = [lane EXCEPT ![th] = EmptyLane]
  BY DEF IInv, Good, ClearThread
<1>2. EmptyLane.active = NoTurn /\ EmptyLane.queue = <<>> /\ LineOf(EmptyLane) = <<>>
  BY DEF EmptyLane, LineOf
<1>3. line' = [line EXCEPT ![th] = <<>>]
  BY <1>1, <1>2 DEF line, Order, LineOf
<1>4. serving' = [serving EXCEPT ![th] = FALSE]
  BY <1>1, <1>2 DEF serving
<1>5. Line!Close(th)
  BY <1>3, <1>4 DEF Line!Close, line, serving
<1> QED BY <1>5 DEF Line!Next

\* A park or a resume leaves holder and queue alone.
LEMMA LineStays ==
    ASSUME IInv, NEW t \in Turns, NEW s,
           lane' = [lane EXCEPT ![Home[t]].state = s] \/ lane' = lane
    PROVE  UNCHANGED <<line, serving>>
<1>1. lane \in [Threads -> Lane] /\ Home[t] \in Threads
  BY HomeAssumption DEF IInv, Good
<1>2. ASSUME NEW th \in Threads
      PROVE  lane'[th].active = lane[th].active /\ lane'[th].queue = lane[th].queue
  BY <1>1 DEF Lane
<1> QED BY <1>2 DEF line, serving, Order

LEMMA LineInit == LockInit => Line!Init
<1> SUFFICES ASSUME LockInit PROVE Line!Init
  OBVIOUS
<1>1. ASSUME NEW th \in Threads PROVE lane[th].active = NoTurn /\ Order(th) = <<>>
  BY DEF LockInit, EmptyLane, Order
<1> QED BY <1>1 DEF Line!Init

LEMMA LineStep == IInv /\ [LockNext]_lockVars => [Line!Next]_(Line!vars)
<1> SUFFICES ASSUME IInv, [LockNext]_lockVars
             PROVE  Line!Next \/ UNCHANGED <<line, serving>>
  BY DEF Line!vars, line, serving
<1>1. ASSUME NEW t \in Turns, Enqueue(t) PROVE Line!Next
  <2> DEFINE l == [Here(t) EXCEPT !.queue = Append(@, t)]
  <2>1. /\ Home[t] \in Threads /\ lane \in [Threads -> Lane] /\ Here(t) \in Lane
        /\ turn[t].status = "NEW"
        /\ TurnGood(t, Here(t), turn[t], settled) /\ LaneGood(Home[t], Here(t), turn)
    BY <1>1, Parts DEF Enqueue
  <2>2. t # Here(t).active /\ t \notin Members(Here(t).queue)
    BY <2>1, NullAssumption DEF TurnGood, LaneGood
  <2>3. /\ l \in Lane /\ l.active = Here(t).active /\ l.queue = Append(Here(t).queue, t)
        /\ lane' = [lane EXCEPT ![Home[t]] = l]
    <3>1. Here(t).queue \in Seq(Turns) /\ Append(Here(t).queue, t) \in Seq(Turns)
      BY <2>1, MembersAppend DEF Lane
    <3>2. lane' = [lane EXCEPT ![Home[t]] = l]
      BY <1>1, <2>1 DEF Enqueue, Here
    <3> QED BY <2>1, <3>1, <3>2 DEF Lane
  <2> HIDE DEF l
  <2> QED BY <2>2, <2>3, ArriveStep
<1>2. ASSUME NEW t \in Turns, AcquireTurn(t) PROVE Line!Next \/ UNCHANGED <<line, serving>>
  <2>1. CASE AcquireHeld(t) \/ AcquireSettled(t)
    BY <2>1, LineStays DEF AcquireHeld, AcquireSettled
  <2>2. CASE AcquireQueued(t)
    BY <2>2, ServeStep
  <2>3. CASE AcquireUnseen(t)
    <3> DEFINE l == [Here(t) EXCEPT !.queue = Append(@, t), !.waiters = @ \cup {t}]
    <3>1. Here(t) \in Lane
      BY Parts
    <3>2. t # Here(t).active /\ t \notin Members(Here(t).queue)
      BY <2>3 DEF AcquireUnseen
    <3>3. /\ l \in Lane /\ l.active = Here(t).active /\ l.queue = Append(Here(t).queue, t)
          /\ lane' = [lane EXCEPT ![Home[t]] = Pumped(l)]
      <4>1. Here(t).queue \in Seq(Turns) /\ Append(Here(t).queue, t) \in Seq(Turns)
        BY <3>1, MembersAppend DEF Lane
      <4>2. lane' = [lane EXCEPT ![Home[t]] = Pumped(l)]
        BY <2>3 DEF AcquireUnseen, Pump
      <4> QED BY <3>1, <4>1, <4>2 DEF Lane
    <3> HIDE DEF l
    <3> QED BY <3>2, <3>3, ArriveStep
  <2> QED BY <1>2, <2>1, <2>2, <2>3 DEF AcquireTurn
<1>3. ASSUME NEW t \in Turns, NEW o \in Outcomes, ReleaseTurn(t, o) PROVE Line!Next
  BY <1>3, FinishStep
<1>4. ASSUME NEW t \in Turns, CancelTurn(t) PROVE Line!Next
  BY <1>4, WithdrawStep
<1>5. ASSUME NEW t \in Turns, NEW p \in Prompts \cup {NoPrompt}, MarkAwaitingApproval(t, p)
      PROVE  UNCHANGED <<line, serving>>
  BY <1>5, LineStays DEF MarkAwaitingApproval
<1>6. ASSUME NEW t \in Turns, ResumeFromApproval(t) PROVE UNCHANGED <<line, serving>>
  BY <1>6, LineStays DEF ResumeFromApproval
<1>7. ASSUME NEW th \in Threads, ClearThread(th) PROVE Line!Next
  BY <1>7, CloseStep
<1>8. CASE UNCHANGED lockVars
  BY <1>8 DEF lockVars, line, serving, Order
<1> QED BY <1>1, <1>2, <1>3, <1>4, <1>5, <1>6, <1>7, <1>8 DEF LockNext

\* Exactly one turn per thread is served at a time, in order of arrival, and a
\* turn leaves the line only by finishing, being withdrawn or losing its thread:
\* the promise of AgentTurnLock.ts:10-21, for every behaviour of the lock.
THEOREM LockServesInOrder == LockSpec => ServesInOrder
<1>1. LockInit => Line!Init
  BY LineInit
<1>2. IInv /\ [LockNext]_lockVars => [Line!Next]_(Line!vars)
  BY LineStep
<1> QED BY <1>1, <1>2, InvariantHolds, PTL DEF LockSpec, ServesInOrder, Line!Spec
=============================================================================
