-------------------------- MODULE TurnLock_proofs --------------------------
(***************************************************************************)
(* Safety of the turn lock, for any threads, turns, prompts and memory of  *)
(* settled turns.                                                          *)
(*                                                                         *)
(* Every operation leaves one lane as l and the turns as known, and then   *)
(* pumps.  Good is what holds between those two halves; the pump adds that *)
(* nobody waits on a free lock.  So each operation is shown to leave a     *)
(* Good state, and one lemma about the pump serves them all.               *)
(***************************************************************************)
EXTENDS TurnLock, SequenceTheorems, TLAPS

----------------------------------------------------------------------------
(* Sequences.                                                              *)

NoRepeats(s) == \A i, j \in DOMAIN s : s[i] = s[j] => i = j

\* enqueue's push adds exactly the new turn.
LEMMA MembersAppend ==
    ASSUME NEW S, NEW s \in Seq(S), NEW e \in S
    PROVE  /\ Append(s, e) \in Seq(S)
           /\ Members(Append(s, e)) = Members(s) \cup {e}
           /\ NoRepeats(s) /\ e \notin Members(s) => NoRepeats(Append(s, e))
<1> DEFINE a == Append(s, e)
<1>1. /\ a \in Seq(S)
      /\ DOMAIN s = 1..Len(s) /\ DOMAIN a = 1..(Len(s) + 1)
      /\ \A i \in 1..Len(s) : a[i] = s[i]
      /\ a[Len(s) + 1] = e
      /\ Len(s) \in Nat
  OBVIOUS
<1> HIDE DEF a
<1>2. Members(a) = Members(s) \cup {e}
  <2>1. ASSUME NEW x \in Members(a) PROVE x \in Members(s) \cup {e}
    BY <1>1, <2>1 DEF Members
  <2>2. ASSUME NEW x \in Members(s) PROVE x \in Members(a)
    <3>1. PICK i \in 1..Len(s) : s[i] = x
      BY <1>1 DEF Members
    <3>2. i \in DOMAIN a /\ a[i] = x
      BY <1>1, <3>1
    <3> QED BY <3>2 DEF Members
  <2>3. e \in Members(a)
    <3>1. Len(s) + 1 \in DOMAIN a
      BY <1>1
    <3> QED BY <1>1, <3>1 DEF Members
  <2> QED BY <2>1, <2>2, <2>3
<1>3. ASSUME NoRepeats(s), e \notin Members(s) PROVE NoRepeats(a)
  BY <1>1, <1>3 DEF NoRepeats, Members
<1> QED BY <1>1, <1>2, <1>3 DEF a

\* The pump's shift takes the head and leaves the rest.
LEMMA MembersHeadTail ==
    ASSUME NEW S, NEW s \in Seq(S), s # <<>>
    PROVE  /\ Head(s) \in S
           /\ Tail(s) \in Seq(S)
           /\ Head(s) \in Members(s)
           /\ Members(s) = Members(Tail(s)) \cup {Head(s)}
           /\ NoRepeats(s) => NoRepeats(Tail(s)) /\ Head(s) \notin Members(Tail(s))
<1> DEFINE r == Tail(s)
<1>1. /\ r \in Seq(S)
      /\ Len(s) \in Nat /\ Len(s) > 0
      /\ DOMAIN s = 1..Len(s) /\ DOMAIN r = 1..(Len(s) - 1)
      /\ \A i \in 1..(Len(s) - 1) : r[i] = s[i + 1]
      /\ Head(s) = s[1] /\ s[1] \in S
  OBVIOUS
<1> HIDE DEF r
<1>2. Head(s) \in Members(s)
  <2>1. 1 \in DOMAIN s
    BY <1>1
  <2> QED BY <1>1, <2>1 DEF Members
<1>3. ASSUME NEW x \in Members(r) PROVE x \in Members(s)
  <2>1. PICK i \in 1..(Len(s) - 1) : r[i] = x
    BY <1>1 DEF Members
  <2>2. i + 1 \in DOMAIN s /\ s[i + 1] = x
    BY <1>1, <2>1
  <2> QED BY <2>2 DEF Members
<1>4. ASSUME NEW x \in Members(s), x # Head(s) PROVE x \in Members(r)
  <2>1. PICK i \in 1..Len(s) : s[i] = x
    BY <1>1 DEF Members
  <2>2. i - 1 \in DOMAIN r /\ r[i - 1] = x
    BY <1>1, <1>4, <2>1
  <2> QED BY <2>2 DEF Members
<1>5. ASSUME NoRepeats(s) PROVE NoRepeats(r) /\ Head(s) \notin Members(r)
  <2>1. ASSUME NEW i \in DOMAIN r, NEW j \in DOMAIN r, r[i] = r[j] PROVE i = j
    <3>1. /\ i + 1 \in DOMAIN s /\ j + 1 \in DOMAIN s
          /\ s[i + 1] = s[j + 1]
      BY <1>1, <2>1
    <3>2. i + 1 = j + 1
      BY <1>5, <3>1 DEF NoRepeats
    <3> QED BY <1>1, <3>2
  <2>2. ASSUME NEW i \in DOMAIN r PROVE r[i] # Head(s)
    <3>1. 1 \in DOMAIN s /\ i + 1 \in DOMAIN s /\ 1 # i + 1
      BY <1>1
    <3>2. s[1] # s[i + 1]
      BY <1>5, <3>1 DEF NoRepeats
    <3> QED BY <1>1, <3>2
  <2> QED BY <2>1, <2>2 DEF NoRepeats, Members
<1> QED BY <1>1, <1>2, <1>3, <1>4, <1>5 DEF r

\* cancelTurn's splice removes one turn and keeps the others.
LEMMA MembersWithout ==
    ASSUME NEW S, NEW s \in Seq(S), NEW i \in DOMAIN s
    PROVE  /\ Without(s, i) \in Seq(S)
           /\ NoRepeats(s) => /\ NoRepeats(Without(s, i))
                              /\ Members(Without(s, i)) = Members(s) \ {s[i]}
<1> DEFINE w == Without(s, i)
<1>1. /\ Len(s) \in Nat /\ Len(s) > 0 /\ i \in 1..Len(s)
      /\ DOMAIN s = 1..Len(s) /\ \A j \in 1..Len(s) : s[j] \in S
  OBVIOUS
<1>2. /\ DOMAIN w = 1..(Len(s) - 1)
      /\ \A j \in 1..(Len(s) - 1) : w[j] = IF j < i THEN s[j] ELSE s[j + 1]
  BY DEF Without
<1>3. w \in [1..(Len(s) - 1) -> S]
  BY <1>1 DEF Without
<1>4. w \in Seq(S)
  BY <1>1, <1>3
<1> HIDE DEF w
<1>5. ASSUME NoRepeats(s) PROVE NoRepeats(w)
  <2>1. ASSUME NEW j \in DOMAIN w, NEW k \in DOMAIN w, w[j] = w[k] PROVE j = k
    <3> DEFINE place(m) == IF m < i THEN m ELSE m + 1
    <3>1. /\ place(j) \in DOMAIN s /\ place(k) \in DOMAIN s
          /\ w[j] = s[place(j)] /\ w[k] = s[place(k)]
      BY <1>1, <1>2
    <3>2. place(j) = place(k)
      BY <1>5, <2>1, <3>1 DEF NoRepeats
    <3> QED BY <1>1, <1>2, <3>2
  <2> QED BY <2>1 DEF NoRepeats
<1>6. ASSUME NoRepeats(s), NEW x \in Members(w) PROVE x \in Members(s) \ {s[i]}
  <2>1. PICK j \in 1..(Len(s) - 1) : w[j] = x
    BY <1>2 DEF Members
  <2>2. CASE j < i
    BY <1>1, <1>2, <1>6, <2>1, <2>2 DEF Members, NoRepeats
  <2>3. CASE ~(j < i)
    BY <1>1, <1>2, <1>6, <2>1, <2>3 DEF Members, NoRepeats
  <2> QED BY <2>2, <2>3
<1>7. ASSUME NEW x \in Members(s) \ {s[i]} PROVE x \in Members(w)
  <2>1. PICK j \in 1..Len(s) : s[j] = x
    BY <1>1 DEF Members
  <2>2. CASE j < i
    <3>1. j \in DOMAIN w /\ w[j] = x
      BY <1>1, <1>2, <2>1, <2>2
    <3> QED BY <3>1 DEF Members
  <2>3. CASE j > i
    <3>1. j - 1 \in DOMAIN w /\ w[j - 1] = x
      BY <1>1, <1>2, <2>1, <2>3
    <3> QED BY <3>1 DEF Members
  <2> QED BY <1>1, <2>1, <2>2, <2>3
<1> QED BY <1>4, <1>5, <1>6, <1>7 DEF w

\* markSettled adds nothing but the turn that ended.
LEMMA MembersRemember ==
    ASSUME settled \in Seq(Turns), NEW t \in Turns
    PROVE  /\ Remember(t) \in Seq(Turns)
           /\ Members(Remember(t)) \subseteq Members(settled) \cup {t}
<1> DEFINE known == IF t \in Members(settled) THEN settled ELSE Append(settled, t)
<1>1. known \in Seq(Turns) /\ Members(known) \subseteq Members(settled) \cup {t}
  BY MembersAppend
<1>2. Remember(t) = IF Len(known) > SettledMemory THEN Tail(known) ELSE known
  BY DEF Remember
<1> HIDE DEF known
<1>3. ASSUME Len(known) > SettledMemory
      PROVE  Tail(known) \in Seq(Turns) /\ Members(Tail(known)) \subseteq Members(known)
  <2>1. known # <<>>
    BY <1>1, <1>3, SettledMemoryAssumption
  <2> QED BY <1>1, <2>1, MembersHeadTail
<1> QED BY <1>1, <1>2, <1>3

----------------------------------------------------------------------------
(* The inductive invariant.                                                *)

\* A lane of thread th whose turns are T.
LaneGood(th, l, T) ==
    /\ l \in Lane
    /\ l.active \in Turns => Home[l.active] = th
    /\ \A t \in Members(l.queue) : Home[t] = th /\ t # l.active
    /\ NoRepeats(l.queue)
    /\ l.waiters \subseteq Members(l.queue)
    /\ \/ l.active = NoTurn /\ l.state = "IDLE"
       \/ /\ l.active \in Turns
          /\ \/ l.state = "PROCESSING_TURN" /\ T[l.active].status = "PROCESSING"
             \/ l.state = "AWAITING_APPROVAL" /\ T[l.active].status = "AWAITING_APPROVAL"

\* A turn r = T[t], its lane l, and the memory S of settled turns.
TurnGood(t, l, r, S) ==
    /\ r \in Turn
    /\ t \in Members(S) => r.status \in Outcomes
    /\ r.status = "NEW" => r.answer = "unasked"
    /\ r.answer = "pending" <=> t \in l.waiters
    /\ t \in Members(l.queue) => r.answer \in {"unasked", "pending"}
    /\ r.status = "QUEUED" <=> t \in Members(l.queue)
    /\ r.status \in Running => l.active = t
    /\ r.status \in {"NEW", "QUEUED", "PROCESSING"} => r.prompt = NoPrompt

Good(L, T, S) ==
    /\ L \in [Threads -> Lane]
    /\ T \in [Turns -> Turn]
    /\ S \in Seq(Turns)
    /\ \A th \in Threads : LaneGood(th, L[th], T)
    /\ \A t \in Turns : TurnGood(t, L[Home[t]], T[t], S)

NobodyAwaitsFree(L) == \A th \in Threads : L[th].waiters # {} => L[th].active # NoTurn

IInv == Good(lane, turn, settled) /\ NobodyAwaitsFree(lane)

\* A lane disturbs only itself and the turns of its own thread.
LEMMA LocalChange ==
    ASSUME NEW L, NEW T, NEW S, Good(L, T, S),
           NEW th \in Threads, NEW l, NEW T2, NEW S2,
           T2 \in [Turns -> Turn], S2 \in Seq(Turns),
           LaneGood(th, l, T2),
           \A u \in Turns : Home[u] # th => T2[u] = T[u],
           \A u \in Turns : Home[u] = th => TurnGood(u, l, T2[u], S2),
           \A u \in Members(S2) : u \in Members(S) \/ Home[u] = th
    PROVE  Good([L EXCEPT ![th] = l], T2, S2)
<1> DEFINE L2 == [L EXCEPT ![th] = l]
<1>1. /\ L2 \in [Threads -> Lane]
      /\ L2[th] = l
      /\ \A x \in Threads : x # th => L2[x] = L[x]
  BY DEF Good, LaneGood
<1> HIDE DEF L2
<1>2. ASSUME NEW x \in Threads PROVE LaneGood(x, L2[x], T2)
  <2>1. CASE x = th
    BY <1>1, <2>1
  <2>2. CASE x # th
    <3>1. L2[x] = L[x] /\ LaneGood(x, L[x], T)
      BY <1>1, <2>2 DEF Good
    <3>2. L[x].active \in Turns => T2[L[x].active] = T[L[x].active]
      BY <2>2, <3>1 DEF LaneGood
    <3> QED BY <3>1, <3>2 DEF LaneGood
  <2> QED BY <2>1, <2>2
<1>3. ASSUME NEW u \in Turns PROVE TurnGood(u, L2[Home[u]], T2[u], S2)
  <2>1. CASE Home[u] = th
    BY <1>1, <2>1
  <2>2. CASE Home[u] # th
    <3>1. /\ L2[Home[u]] = L[Home[u]] /\ T2[u] = T[u]
          /\ TurnGood(u, L[Home[u]], T[u], S)
          /\ u \in Members(S2) => u \in Members(S)
      BY <1>1, <2>2, HomeAssumption DEF Good
    <3> QED BY <3>1 DEF TurnGood
  <2> QED BY <2>1, <2>2
<1> QED BY <1>1, <1>2, <1>3 DEF Good, L2

\* pump grants the head of a free lane and leaves everything else as it was, so
\* afterwards nobody awaits a free lock.
LEMMA PumpKeepsGood ==
    ASSUME NEW L, NEW T, NEW S, Good(L, T, S), NEW th \in Threads
    PROVE  /\ Good([L EXCEPT ![th] = Pumped(L[th])], Served(L[th], T), S)
           /\ Pumped(L[th]).waiters # {} => Pumped(L[th]).active # NoTurn
<1> DEFINE l == L[th]
           h == Head(l.queue)
           T2 == Served(l, T)
<1>1. LaneGood(th, l, T) /\ \A u \in Turns : Home[u] = th => TurnGood(u, l, T[u], S)
  BY DEF Good
<1>2. CASE ~Grants(l)
  <2>1. Pumped(l) = l /\ T2 = T /\ [L EXCEPT ![th] = l] = L
    BY <1>2 DEF Pumped, Served, Good
  <2>2. l.active # NoTurn \/ l.queue = <<>>
    BY <1>2 DEF Grants
  <2>3. l.queue = <<>> => l.waiters = {}
    BY <1>1 DEF LaneGood, Members
  <2> QED BY <2>1, <2>2, <2>3
<1>3. CASE Grants(l)
  <2>1. /\ l.active = NoTurn /\ l.queue \in Seq(Turns) /\ l.queue # <<>>
        /\ l.waiters \subseteq Turns
    BY <1>1, <1>3 DEF Grants, LaneGood, Lane
  <2>2. /\ h \in Turns /\ h \in Members(l.queue) /\ Home[h] = th
        /\ Tail(l.queue) \in Seq(Turns)
        /\ Members(l.queue) = Members(Tail(l.queue)) \cup {h}
        /\ h \notin Members(Tail(l.queue)) /\ NoRepeats(Tail(l.queue))
    BY <1>1, <2>1, MembersHeadTail DEF LaneGood
  <2>3. Pumped(l) = [active  |-> h, queue |-> Tail(l.queue),
                     state   |-> "PROCESSING_TURN", waiters |-> l.waiters \ {h}]
    BY <1>3 DEF Pumped
  <2>4. T \in [Turns -> Turn] /\ T[h] \in Turn
    BY <2>2 DEF Good
  <2>5. /\ T2 \in [Turns -> Turn]
        /\ T2[h].status = "PROCESSING" /\ T2[h].prompt = T[h].prompt
        /\ T2[h].answer = IF h \in l.waiters THEN "granted" ELSE T[h].answer
        /\ \A u \in Turns : u # h => T2[u] = T[u]
    BY <1>3, <2>2, <2>4 DEF Served, Turn, Running, Statuses, Answers
  <2> HIDE DEF T2
  <2>6. LaneGood(th, Pumped(l), T2)
    <3>1. Pumped(l) \in Lane
      BY <2>1, <2>2, <2>3 DEF Lane, LaneStates
    <3> QED BY <1>1, <2>2, <2>3, <2>5, <3>1 DEF LaneGood
  <2>7. ASSUME NEW u \in Turns, Home[u] = th PROVE TurnGood(u, Pumped(l), T2[u], S)
    <3>1. TurnGood(u, l, T[u], S) /\ TurnGood(h, l, T[h], S)
      BY <1>1, <2>2, <2>7
    <3>2. T2[u] \in Turn
      BY <2>5
    <3>3. CASE u = h
      <4>1. /\ Pumped(l).active = h /\ Pumped(l).state = "PROCESSING_TURN"
            /\ Pumped(l).waiters = l.waiters \ {h} /\ T2[h].status = "PROCESSING"
        BY <2>3, <2>5
      <4>2. T2[h].answer = "granted" \/ (h \notin l.waiters /\ T2[h].answer = T[h].answer)
        BY <2>5
      <4>3. /\ T[h].status = "QUEUED" /\ T[h].prompt = NoPrompt /\ h \notin Members(S)
            /\ T[h].answer \in {"unasked", "pending"} /\ (T[h].answer = "pending" <=> h \in l.waiters)
        BY <2>2, <3>1 DEF TurnGood, Outcomes
      <4>4. /\ T2[h].status = "PROCESSING" /\ T2[h].prompt = NoPrompt
            /\ T2[h].answer # "pending" /\ h \notin Pumped(l).waiters
            /\ Pumped(l).queue = Tail(l.queue)
        BY <2>3, <2>5, <4>1, <4>2, <4>3
      <4>5. TurnGood(h, Pumped(l), T2[h], S)
        BY <2>2, <3>2, <3>3, <4>1, <4>3, <4>4 DEF TurnGood, Running
      <4> QED BY <3>3, <4>5
    <3>4. CASE u # h
      BY <2>1, <2>2, <2>3, <2>5, <3>1, <3>2, <3>4, NullAssumption DEF TurnGood
    <3> QED BY <3>3, <3>4
  <2>8. Good([L EXCEPT ![th] = Pumped(l)], T2, S)
    <3>1. S \in Seq(Turns) /\ \A u \in Turns : Home[u] # th => T2[u] = T[u]
      BY <2>2, <2>5 DEF Good
    <3> QED BY <2>5, <2>6, <2>7, <3>1, LocalChange
  <2>9. Pumped(l).active # NoTurn
    BY <2>2, <2>3, NullAssumption
  <2> QED BY <2>8, <2>9 DEF T2
<1> QED BY <1>2, <1>3

\* An operation that leaves its lane as l and the turns as known, in a Good
\* state, and then pumps, restores the invariant.
LEMMA PumpRestores ==
    ASSUME IInv, NEW th \in Threads, NEW l, NEW known,
           Pump(th, l, known),
           Good([lane EXCEPT ![th] = l], known, settled')
    PROVE  IInv'
<1> DEFINE L == [lane EXCEPT ![th] = l]
<1>1. /\ lane \in [Threads -> Lane] /\ L[th] = l
      /\ lane' = [L EXCEPT ![th] = Pumped(L[th])]
      /\ turn' = Served(L[th], known)
  BY DEF IInv, Good, Pump
<1>2. /\ Good(lane', turn', settled')
      /\ Pumped(L[th]).waiters # {} => Pumped(L[th]).active # NoTurn
  BY <1>1, PumpKeepsGood
<1>3. NobodyAwaitsFree(lane')
  BY <1>1, <1>2 DEF IInv, NobodyAwaitsFree, Good
<1> QED BY <1>2, <1>3 DEF IInv, Good, LaneGood, TurnGood, NobodyAwaitsFree

----------------------------------------------------------------------------
(* Each operation preserves the invariant.                                 *)

\* What the invariant says of one turn and its lane.
LEMMA Parts ==
    ASSUME IInv, NEW t \in Turns
    PROVE  /\ Home[t] \in Threads /\ Here(t) \in Lane
           /\ lane \in [Threads -> Lane] /\ turn \in [Turns -> Turn] /\ turn[t] \in Turn
           /\ settled \in Seq(Turns)
           /\ LaneGood(Home[t], Here(t), turn)
           /\ \A u \in Turns : Home[u] = Home[t] => TurnGood(u, Here(t), turn[u], settled)
BY HomeAssumption DEF IInv, Good, Here, LaneGood

\* A change confined to t, to its lane and to the memory of settled turns.
LEMMA OwnChange ==
    ASSUME IInv, NEW t \in Turns, NEW l, NEW T2, NEW S2,
           T2 \in [Turns -> Turn], S2 \in Seq(Turns),
           \A u \in Turns : u # t => T2[u] = turn[u],
           Members(S2) \subseteq Members(settled) \cup {t},
           LaneGood(Home[t], l, T2),
           \A u \in Turns : Home[u] = Home[t] => TurnGood(u, l, T2[u], S2)
    PROVE  Good([lane EXCEPT ![Home[t]] = l], T2, S2)
BY LocalChange, HomeAssumption DEF IInv

LEMMA EnqueueKeeps ==
    ASSUME IInv, NEW t \in Turns, Enqueue(t)
    PROVE  IInv'
<1> DEFINE l == Here(t)
           l2 == [l EXCEPT !.queue = Append(@, t)]
           T2 == [turn EXCEPT ![t].status = "QUEUED"]
<1>1. /\ l \in Lane /\ turn[t] \in Turn /\ settled \in Seq(Turns)
      /\ LaneGood(Home[t], l, turn) /\ TurnGood(t, l, turn[t], settled)
      /\ turn[t].status = "NEW"
  BY Parts DEF Enqueue
<1>2. /\ t \notin Members(l.queue) /\ t # l.active /\ t \notin Members(settled)
      /\ turn[t].answer = "unasked" /\ turn[t].prompt = NoPrompt
  BY <1>1, NullAssumption DEF TurnGood, LaneGood, Outcomes
<1>3. /\ l2 \in Lane /\ l2.active = l.active /\ l2.state = l.state /\ l2.waiters = l.waiters
      /\ Members(l2.queue) = Members(l.queue) \cup {t} /\ NoRepeats(l2.queue)
  <2>1. l.queue \in Seq(Turns)
    BY <1>1 DEF Lane
  <2>2. /\ Append(l.queue, t) \in Seq(Turns)
        /\ Members(Append(l.queue, t)) = Members(l.queue) \cup {t}
        /\ NoRepeats(Append(l.queue, t))
    BY <1>1, <1>2, <2>1, MembersAppend DEF LaneGood
  <2> QED BY <1>1, <2>2 DEF Lane
<1>4. /\ T2 \in [Turns -> Turn]
      /\ T2[t].status = "QUEUED" /\ T2[t].answer = turn[t].answer /\ T2[t].prompt = turn[t].prompt
      /\ \A u \in Turns : u # t => T2[u] = turn[u]
  BY <1>1, Parts DEF Turn, Statuses
<1>5. lane' = [lane EXCEPT ![Home[t]] = l2] /\ turn' = T2 /\ settled' = settled
  BY Parts DEF Enqueue, Here
<1> HIDE DEF l2, T2
<1>6. LaneGood(Home[t], l2, T2)
  BY <1>1, <1>2, <1>3, <1>4 DEF LaneGood
<1>7. ASSUME NEW u \in Turns, Home[u] = Home[t] PROVE TurnGood(u, l2, T2[u], settled)
  <2>1. TurnGood(u, l, turn[u], settled) /\ T2[u] \in Turn
    BY <1>4, <1>7, Parts
  <2>2. CASE u = t
    BY <1>1, <1>2, <1>3, <1>4, <2>1, <2>2 DEF TurnGood, Running
  <2>3. CASE u # t
    BY <1>3, <1>4, <2>1, <2>3 DEF TurnGood
  <2> QED BY <2>2, <2>3
<1>8. Good(lane', turn', settled')
  BY <1>1, <1>4, <1>5, <1>6, <1>7, OwnChange
<1>9. NobodyAwaitsFree(lane')
  BY <1>3, <1>5, Parts DEF IInv, NobodyAwaitsFree, Here
<1> QED BY <1>8, <1>9 DEF IInv, Good, LaneGood, TurnGood, NobodyAwaitsFree

LEMMA AcquireHeldKeeps ==
    ASSUME IInv, NEW t \in Turns, AcquireHeld(t)
    PROVE  IInv'
<1> DEFINE l == Here(t)
           T2 == [turn EXCEPT ![t].answer = "granted"]
<1>1. /\ l \in Lane /\ turn[t] \in Turn /\ settled \in Seq(Turns)
      /\ LaneGood(Home[t], l, turn) /\ TurnGood(t, l, turn[t], settled)
      /\ l.active = t
  BY Parts DEF AcquireHeld
<1>2. t \notin l.waiters /\ t \notin Members(l.queue) /\ turn[t].status # "NEW"
  BY <1>1, NullAssumption DEF TurnGood, LaneGood
<1>3. /\ T2 \in [Turns -> Turn]
      /\ T2[t].status = turn[t].status /\ T2[t].answer = "granted" /\ T2[t].prompt = turn[t].prompt
      /\ \A u \in Turns : u # t => T2[u] = turn[u]
  BY <1>1, Parts DEF Turn, Answers
<1>4. lane' = lane /\ turn' = T2 /\ settled' = settled /\ lane = [lane EXCEPT ![Home[t]] = l]
  BY Parts DEF AcquireHeld, Here
<1> HIDE DEF T2
<1>5. LaneGood(Home[t], l, T2)
  BY <1>1, <1>3 DEF LaneGood
<1>6. ASSUME NEW u \in Turns, Home[u] = Home[t] PROVE TurnGood(u, l, T2[u], settled)
  <2>1. TurnGood(u, l, turn[u], settled) /\ T2[u] \in Turn
    BY <1>3, <1>6, Parts
  <2> QED BY <1>2, <1>3, <2>1 DEF TurnGood
<1>7. Good([lane EXCEPT ![Home[t]] = l], T2, settled)
  BY <1>1, <1>3, <1>5, <1>6, OwnChange
<1>8. Good(lane', turn', settled')
  BY <1>4, <1>7
<1> QED BY <1>4, <1>8 DEF IInv, Good, LaneGood, TurnGood, NobodyAwaitsFree

LEMMA AcquireSettledKeeps ==
    ASSUME IInv, NEW t \in Turns, AcquireSettled(t)
    PROVE  IInv'
<1> DEFINE l == Here(t)
           T2 == [turn EXCEPT ![t].answer = "refused"]
<1>1. /\ l \in Lane /\ turn[t] \in Turn /\ settled \in Seq(Turns)
      /\ LaneGood(Home[t], l, turn) /\ TurnGood(t, l, turn[t], settled)
      /\ t \notin Members(l.queue) /\ t \in Members(settled)
  BY Parts DEF AcquireSettled
<1>2. t \notin l.waiters /\ turn[t].status # "NEW"
  BY <1>1 DEF TurnGood, LaneGood, Outcomes
<1>3. /\ T2 \in [Turns -> Turn]
      /\ T2[t].status = turn[t].status /\ T2[t].answer = "refused" /\ T2[t].prompt = turn[t].prompt
      /\ \A u \in Turns : u # t => T2[u] = turn[u]
  BY <1>1, Parts DEF Turn, Answers
<1>4. lane' = lane /\ turn' = T2 /\ settled' = settled /\ lane = [lane EXCEPT ![Home[t]] = l]
  BY Parts DEF AcquireSettled, Here
<1> HIDE DEF T2
<1>5. LaneGood(Home[t], l, T2)
  BY <1>1, <1>3 DEF LaneGood
<1>6. ASSUME NEW u \in Turns, Home[u] = Home[t] PROVE TurnGood(u, l, T2[u], settled)
  <2>1. TurnGood(u, l, turn[u], settled) /\ T2[u] \in Turn
    BY <1>3, <1>6, Parts
  <2> QED BY <1>1, <1>2, <1>3, <2>1 DEF TurnGood
<1>7. Good([lane EXCEPT ![Home[t]] = l], T2, settled)
  BY <1>1, <1>3, <1>5, <1>6, OwnChange
<1>8. Good(lane', turn', settled')
  BY <1>4, <1>7
<1> QED BY <1>4, <1>8 DEF IInv, Good, LaneGood, TurnGood, NobodyAwaitsFree

LEMMA AcquireQueuedKeeps ==
    ASSUME IInv, NEW t \in Turns, AcquireQueued(t)
    PROVE  IInv'
<1> DEFINE l == Here(t)
           l2 == [l EXCEPT !.waiters = @ \cup {t}]
           T2 == [turn EXCEPT ![t].answer = "pending"]
<1>1. /\ l \in Lane /\ turn[t] \in Turn /\ settled \in Seq(Turns)
      /\ LaneGood(Home[t], l, turn) /\ TurnGood(t, l, turn[t], settled)
      /\ t \in Members(l.queue)
      /\ Pump(Home[t], l2, T2) /\ settled' = settled /\ Home[t] \in Threads
  BY Parts DEF AcquireQueued
<1>2. /\ l2 \in Lane /\ l2.active = l.active /\ l2.state = l.state /\ l2.queue = l.queue
      /\ l2.waiters = l.waiters \cup {t}
  BY <1>1 DEF Lane
<1>3. /\ T2 \in [Turns -> Turn]
      /\ T2[t].status = turn[t].status /\ T2[t].answer = "pending" /\ T2[t].prompt = turn[t].prompt
      /\ \A u \in Turns : u # t => T2[u] = turn[u]
  BY <1>1, Parts DEF Turn, Answers
<1> HIDE DEF l2, T2
<1>4. LaneGood(Home[t], l2, T2)
  BY <1>1, <1>2, <1>3 DEF LaneGood
<1>5. ASSUME NEW u \in Turns, Home[u] = Home[t] PROVE TurnGood(u, l2, T2[u], settled)
  <2>1. TurnGood(u, l, turn[u], settled) /\ T2[u] \in Turn
    BY <1>3, <1>5, Parts
  <2> QED BY <1>1, <1>2, <1>3, <2>1 DEF TurnGood
<1>6. Good([lane EXCEPT ![Home[t]] = l2], T2, settled')
  BY <1>1, <1>3, <1>4, <1>5, OwnChange
<1> QED BY <1>1, <1>6, PumpRestores

LEMMA AcquireUnseenKeeps ==
    ASSUME IInv, NEW t \in Turns, AcquireUnseen(t)
    PROVE  IInv'
<1> DEFINE l == Here(t)
           l2 == [l EXCEPT !.queue = Append(@, t), !.waiters = @ \cup {t}]
           r == [status |-> "QUEUED", prompt |-> NoPrompt, answer |-> "pending"]
           T2 == [turn EXCEPT ![t] = r]
<1>1. /\ l \in Lane /\ turn[t] \in Turn /\ settled \in Seq(Turns)
      /\ LaneGood(Home[t], l, turn)
      /\ t \notin Members(l.queue) /\ t # l.active /\ t \notin Members(settled)
      /\ Pump(Home[t], l2, T2) /\ settled' = settled /\ Home[t] \in Threads
  BY Parts DEF AcquireUnseen
<1>2. l.queue \in Seq(Turns)
  BY <1>1 DEF Lane
<1>3. /\ Append(l.queue, t) \in Seq(Turns)
      /\ Members(Append(l.queue, t)) = Members(l.queue) \cup {t}
      /\ NoRepeats(Append(l.queue, t))
  BY <1>1, <1>2, MembersAppend DEF LaneGood
<1>4. /\ l2 \in Lane /\ l2.active = l.active /\ l2.state = l.state
      /\ l2.queue = Append(l.queue, t) /\ l2.waiters = l.waiters \cup {t}
  BY <1>1, <1>3 DEF Lane
<1>5. /\ T2 \in [Turns -> Turn] /\ T2[t] = r
      /\ \A u \in Turns : u # t => T2[u] = turn[u]
  BY Parts DEF Turn, Statuses, Answers
<1> HIDE DEF l2, T2
<1>6. LaneGood(Home[t], l2, T2)
  BY <1>1, <1>3, <1>4, <1>5 DEF LaneGood
<1>7. ASSUME NEW u \in Turns, Home[u] = Home[t] PROVE TurnGood(u, l2, T2[u], settled)
  <2>1. TurnGood(u, l, turn[u], settled) /\ T2[u] \in Turn
    BY <1>5, <1>7, Parts
  <2>2. CASE u = t
    BY <1>1, <1>3, <1>4, <1>5, <2>1, <2>2 DEF TurnGood, Running
  <2>3. CASE u # t
    BY <1>3, <1>4, <1>5, <2>1, <2>3 DEF TurnGood
  <2> QED BY <2>2, <2>3
<1>8. Good([lane EXCEPT ![Home[t]] = l2], T2, settled')
  BY <1>1, <1>5, <1>6, <1>7, OwnChange
<1> QED BY <1>1, <1>8, PumpRestores

LEMMA ReleaseTurnKeeps ==
    ASSUME IInv, NEW t \in Turns, NEW o \in Outcomes, ReleaseTurn(t, o)
    PROVE  IInv'
<1> DEFINE l == Here(t)
           l2 == [l EXCEPT !.active = NoTurn, !.state = "IDLE"]
           T2 == [turn EXCEPT ![t].status = o]
           S2 == Remember(t)
<1>1. /\ l \in Lane /\ turn[t] \in Turn /\ settled \in Seq(Turns)
      /\ LaneGood(Home[t], l, turn) /\ TurnGood(t, l, turn[t], settled)
      /\ l.active = t
      /\ Pump(Home[t], l2, T2) /\ settled' = S2 /\ Home[t] \in Threads
  BY Parts DEF ReleaseTurn
<1>2. /\ l2 \in Lane /\ l2.active = NoTurn /\ l2.state = "IDLE"
      /\ l2.queue = l.queue /\ l2.waiters = l.waiters
  BY <1>1 DEF Lane, LaneStates
<1>3. /\ T2 \in [Turns -> Turn]
      /\ T2[t].status = o /\ T2[t].answer = turn[t].answer /\ T2[t].prompt = turn[t].prompt
      /\ \A u \in Turns : u # t => T2[u] = turn[u]
  BY <1>1, Parts DEF Turn, Statuses
<1>4. S2 \in Seq(Turns) /\ Members(S2) \subseteq Members(settled) \cup {t}
  BY <1>1, MembersRemember
<1>5. t \notin Members(l.queue) /\ turn[t].status # "NEW"
  BY <1>1, NullAssumption DEF LaneGood
<1> HIDE DEF l2, T2, S2
<1>6. LaneGood(Home[t], l2, T2)
  <2>1. Members(l.queue) \subseteq Turns
    BY <1>1 DEF Lane, Members
  <2> QED BY <1>1, <1>2, <2>1, NullAssumption DEF LaneGood
<1>7. ASSUME NEW u \in Turns, Home[u] = Home[t] PROVE TurnGood(u, l2, T2[u], S2)
  <2>1. TurnGood(u, l, turn[u], settled) /\ T2[u] \in Turn
    BY <1>3, <1>7, Parts
  <2>2. CASE u = t
    BY <1>1, <1>2, <1>3, <1>5, <2>1, <2>2 DEF TurnGood, Outcomes, Running
  <2>3. CASE u # t
    BY <1>1, <1>2, <1>3, <1>4, <2>1, <2>3 DEF TurnGood
  <2> QED BY <2>2, <2>3
<1>8. Good([lane EXCEPT ![Home[t]] = l2], T2, settled')
  BY <1>1, <1>3, <1>4, <1>6, <1>7, OwnChange
<1> QED BY <1>1, <1>8, PumpRestores

LEMMA CancelTurnKeeps ==
    ASSUME IInv, NEW t \in Turns, CancelTurn(t)
    PROVE  IInv'
<1>1. PICK i \in DOMAIN Here(t).queue :
        /\ Here(t).queue[i] = t
        /\ Pump(Home[t],
                [Here(t) EXCEPT !.queue = Without(@, i), !.waiters = @ \ {t}],
                [turn EXCEPT ![t].status = "CANCELLED",
                             ![t].answer = IF t \in Here(t).waiters THEN "refused" ELSE @])
        /\ settled' = Remember(t)
  BY DEF CancelTurn
<1> DEFINE l == Here(t)
           l2 == [l EXCEPT !.queue = Without(@, i), !.waiters = @ \ {t}]
           T2 == [turn EXCEPT ![t].status = "CANCELLED",
                              ![t].answer = IF t \in Here(t).waiters THEN "refused" ELSE @]
           S2 == Remember(t)
<1>2. /\ l \in Lane /\ turn[t] \in Turn /\ settled \in Seq(Turns)
      /\ LaneGood(Home[t], l, turn) /\ TurnGood(t, l, turn[t], settled)
      /\ Home[t] \in Threads
  BY Parts
<1>3. l.queue \in Seq(Turns) /\ t \in Members(l.queue)
  BY <1>1, <1>2 DEF Lane, Members
<1>4. /\ Without(l.queue, i) \in Seq(Turns)
      /\ NoRepeats(Without(l.queue, i))
      /\ Members(Without(l.queue, i)) = Members(l.queue) \ {t}
  BY <1>1, <1>2, <1>3, MembersWithout DEF LaneGood
<1>5. /\ l2 \in Lane /\ l2.active = l.active /\ l2.state = l.state
      /\ l2.queue = Without(l.queue, i) /\ l2.waiters = l.waiters \ {t}
  BY <1>2, <1>4 DEF Lane
<1>6. /\ T2 \in [Turns -> Turn]
      /\ T2[t].status = "CANCELLED" /\ T2[t].prompt = turn[t].prompt
      /\ T2[t].answer = IF t \in l.waiters THEN "refused" ELSE turn[t].answer
      /\ \A u \in Turns : u # t => T2[u] = turn[u]
  BY <1>2, Parts DEF Turn, Statuses, Outcomes, Answers
<1>7. S2 \in Seq(Turns) /\ Members(S2) \subseteq Members(settled) \cup {t}
  BY <1>2, MembersRemember
<1>8. Pump(Home[t], l2, T2) /\ settled' = S2
  BY <1>1
<1> HIDE DEF l2, T2, S2
<1>9. LaneGood(Home[t], l2, T2)
  BY <1>2, <1>3, <1>4, <1>5, <1>6 DEF LaneGood
<1>10. ASSUME NEW u \in Turns, Home[u] = Home[t] PROVE TurnGood(u, l2, T2[u], S2)
  <2>1. TurnGood(u, l, turn[u], settled) /\ T2[u] \in Turn
    BY <1>6, <1>10, Parts
  <2>2. CASE u = t
    BY <1>2, <1>3, <1>4, <1>5, <1>6, <2>1, <2>2 DEF TurnGood, Outcomes, Running
  <2>3. CASE u # t
    BY <1>4, <1>5, <1>6, <1>7, <2>1, <2>3 DEF TurnGood
  <2> QED BY <2>2, <2>3
<1>11. Good([lane EXCEPT ![Home[t]] = l2], T2, settled')
  BY <1>6, <1>7, <1>8, <1>9, <1>10, OwnChange
<1> QED BY <1>2, <1>8, <1>11, PumpRestores

LEMMA MarkAwaitingApprovalKeeps ==
    ASSUME IInv, NEW t \in Turns, NEW p \in Prompts \cup {NoPrompt}, MarkAwaitingApproval(t, p)
    PROVE  IInv'
<1> DEFINE l == Here(t)
           l2 == [l EXCEPT !.state = "AWAITING_APPROVAL"]
           T2 == [turn EXCEPT ![t].status = "AWAITING_APPROVAL",
                              ![t].prompt = IF p = NoPrompt THEN @ ELSE p]
<1>1. /\ l \in Lane /\ turn[t] \in Turn /\ settled \in Seq(Turns)
      /\ LaneGood(Home[t], l, turn) /\ TurnGood(t, l, turn[t], settled)
      /\ l.active = t
  BY Parts DEF MarkAwaitingApproval
<1>2. /\ l2 \in Lane /\ l2.active = t /\ l2.state = "AWAITING_APPROVAL"
      /\ l2.queue = l.queue /\ l2.waiters = l.waiters
  BY <1>1 DEF Lane, LaneStates
<1>3. /\ T2 \in [Turns -> Turn]
      /\ T2[t].status = "AWAITING_APPROVAL" /\ T2[t].answer = turn[t].answer
      /\ \A u \in Turns : u # t => T2[u] = turn[u]
  BY <1>1, Parts DEF Turn, Statuses, Running
<1>4. lane' = [lane EXCEPT ![Home[t]] = l2] /\ turn' = T2 /\ settled' = settled
  BY Parts DEF MarkAwaitingApproval, Here
<1>5. /\ t \notin Members(l.queue) /\ turn[t].status \in Running
  BY <1>1, NullAssumption DEF LaneGood, Running
<1> HIDE DEF l2, T2
<1>6. LaneGood(Home[t], l2, T2)
  BY <1>1, <1>2, <1>3 DEF LaneGood
<1>7. ASSUME NEW u \in Turns, Home[u] = Home[t] PROVE TurnGood(u, l2, T2[u], settled)
  <2>1. TurnGood(u, l, turn[u], settled) /\ T2[u] \in Turn
    BY <1>3, <1>7, Parts
  <2>2. CASE u = t
    BY <1>1, <1>2, <1>3, <1>5, <2>1, <2>2 DEF TurnGood, Outcomes, Running
  <2>3. CASE u # t
    BY <1>1, <1>2, <1>3, <2>1, <2>3 DEF TurnGood
  <2> QED BY <2>2, <2>3
<1>8. Good([lane EXCEPT ![Home[t]] = l2], T2, settled)
  BY <1>1, <1>3, <1>6, <1>7, OwnChange
<1>9. Good(lane', turn', settled') /\ NobodyAwaitsFree(lane')
  BY <1>1, <1>2, <1>4, <1>8, Parts DEF IInv, NobodyAwaitsFree, Here
<1> QED BY <1>9 DEF IInv, Good, LaneGood, TurnGood, NobodyAwaitsFree

LEMMA ResumeFromApprovalKeeps ==
    ASSUME IInv, NEW t \in Turns, ResumeFromApproval(t)
    PROVE  IInv'
<1> DEFINE l == Here(t)
           l2 == [l EXCEPT !.state = "PROCESSING_TURN"]
           T2 == [turn EXCEPT ![t].status = "PROCESSING", ![t].prompt = NoPrompt]
<1>1. /\ l \in Lane /\ turn[t] \in Turn /\ settled \in Seq(Turns)
      /\ LaneGood(Home[t], l, turn) /\ TurnGood(t, l, turn[t], settled)
      /\ l.active = t
  BY Parts DEF ResumeFromApproval
<1>2. /\ l2 \in Lane /\ l2.active = t /\ l2.state = "PROCESSING_TURN"
      /\ l2.queue = l.queue /\ l2.waiters = l.waiters
  BY <1>1 DEF Lane, LaneStates
<1>3. /\ T2 \in [Turns -> Turn]
      /\ T2[t].status = "PROCESSING" /\ T2[t].answer = turn[t].answer /\ T2[t].prompt = NoPrompt
      /\ \A u \in Turns : u # t => T2[u] = turn[u]
  BY <1>1, Parts DEF Turn, Statuses, Running
<1>4. lane' = [lane EXCEPT ![Home[t]] = l2] /\ turn' = T2 /\ settled' = settled
  BY Parts DEF ResumeFromApproval, Here
<1>5. /\ t \notin Members(l.queue) /\ turn[t].status \in Running
  BY <1>1, NullAssumption DEF LaneGood, Running
<1> HIDE DEF l2, T2
<1>6. LaneGood(Home[t], l2, T2)
  BY <1>1, <1>2, <1>3 DEF LaneGood
<1>7. ASSUME NEW u \in Turns, Home[u] = Home[t] PROVE TurnGood(u, l2, T2[u], settled)
  <2>1. TurnGood(u, l, turn[u], settled) /\ T2[u] \in Turn
    BY <1>3, <1>7, Parts
  <2>2. CASE u = t
    BY <1>1, <1>2, <1>3, <1>5, <2>1, <2>2 DEF TurnGood, Outcomes, Running
  <2>3. CASE u # t
    BY <1>1, <1>2, <1>3, <2>1, <2>3 DEF TurnGood
  <2> QED BY <2>2, <2>3
<1>8. Good([lane EXCEPT ![Home[t]] = l2], T2, settled)
  BY <1>1, <1>3, <1>6, <1>7, OwnChange
<1>9. Good(lane', turn', settled') /\ NobodyAwaitsFree(lane')
  BY <1>1, <1>2, <1>4, <1>8, Parts DEF IInv, NobodyAwaitsFree, Here
<1> QED BY <1>9 DEF IInv, Good, LaneGood, TurnGood, NobodyAwaitsFree

LEMMA ClearThreadKeeps ==
    ASSUME IInv, NEW th \in Threads, ClearThread(th)
    PROVE  IInv'
<1> DEFINE l == lane[th]
           inLane(t) == t = l.active \/ t \in Members(l.queue)
<1>1. /\ l \in Lane /\ settled \in Seq(Turns) /\ settled' = settled
      /\ lane \in [Threads -> Lane] /\ turn \in [Turns -> Turn]
      /\ LaneGood(th, l, turn)
      /\ lane' = [lane EXCEPT ![th] = EmptyLane]
      /\ \A u \in Turns : Home[u] = th => TurnGood(u, l, turn[u], settled)
  BY DEF IInv, Good, LaneGood, ClearThread
<1>2. /\ turn' \in [Turns -> Turn]
      /\ \A u \in Turns :
            /\ turn'[u].status = IF inLane(u) THEN "DROPPED" ELSE turn[u].status
            /\ turn'[u].answer = IF u \in l.waiters THEN "refused" ELSE turn[u].answer
            /\ turn'[u].prompt = turn[u].prompt
      /\ \A u \in Turns : ~inLane(u) /\ u \notin l.waiters => turn'[u] = turn[u]
  <2>1. turn' = [u \in Turns |->
                   [turn[u] EXCEPT !.status = IF inLane(u) THEN "DROPPED" ELSE @,
                                   !.answer = IF u \in l.waiters THEN "refused" ELSE @]]
    BY DEF ClearThread
  <2>2. ASSUME NEW u \in Turns
        PROVE  /\ turn'[u] \in Turn
               /\ turn'[u].status = IF inLane(u) THEN "DROPPED" ELSE turn[u].status
               /\ turn'[u].answer = IF u \in l.waiters THEN "refused" ELSE turn[u].answer
               /\ turn'[u].prompt = turn[u].prompt
               /\ ~inLane(u) /\ u \notin l.waiters => turn'[u] = turn[u]
    <3> HIDE DEF inLane, l
    <3>1. turn[u] \in Turn
      BY <1>1
    <3>2. turn'[u] = [turn[u] EXCEPT !.status = IF inLane(u) THEN "DROPPED" ELSE @,
                                     !.answer = IF u \in l.waiters THEN "refused" ELSE @]
      BY <2>1
    <3> QED BY <3>1, <3>2 DEF Turn, Statuses, Answers
  <2> HIDE DEF inLane, l
  <2> QED BY <2>1, <2>2
<1>3. \A u \in Turns : inLane(u) \/ u \in l.waiters => Home[u] = th
  BY <1>1 DEF LaneGood
<1>4. /\ EmptyLane \in Lane /\ Members(EmptyLane.queue) = {} /\ NoRepeats(EmptyLane.queue)
      /\ EmptyLane.active = NoTurn /\ EmptyLane.state = "IDLE" /\ EmptyLane.waiters = {}
  BY DEF EmptyLane, Lane, LaneStates, Members, NoRepeats
<1>5. LaneGood(th, EmptyLane, turn')
  BY <1>4, NullAssumption DEF LaneGood
<1>6. ASSUME NEW u \in Turns, Home[u] = th PROVE TurnGood(u, EmptyLane, turn'[u], settled)
  <2>1. TurnGood(u, l, turn[u], settled) /\ turn'[u] \in Turn
    BY <1>1, <1>2, <1>6
  <2>2. u = l.active => turn[u].status \in Running
    BY <1>1, NullAssumption DEF LaneGood, Running
  <2>3. u \in l.waiters => u \in Members(l.queue)
    BY <1>1 DEF LaneGood
  <2>4. CASE inLane(u)
    BY <1>2, <1>4, <2>1, <2>2, <2>3, <2>4 DEF TurnGood, Running, Outcomes
  <2>5. CASE ~inLane(u)
    BY <1>2, <1>4, <2>1, <2>3, <2>5 DEF TurnGood
  <2> QED BY <2>4, <2>5
<1> HIDE DEF inLane
<1>7. \A u \in Turns : Home[u] # th => turn'[u] = turn[u]
  BY <1>2, <1>3
<1>8. Good(lane, turn, settled)
  BY DEF IInv
<1>9. Good([lane EXCEPT ![th] = EmptyLane], turn', settled)
  BY <1>1, <1>2, <1>5, <1>6, <1>7, <1>8, LocalChange
<1>10. Good(lane', turn', settled') /\ NobodyAwaitsFree(lane')
  BY <1>1, <1>4, <1>9 DEF IInv, NobodyAwaitsFree
<1> QED BY <1>10 DEF IInv, Good, LaneGood, TurnGood, NobodyAwaitsFree

----------------------------------------------------------------------------
(* The invariant, and what follows from it.                                *)

LEMMA InitEstablishes == LockInit => IInv
<1> SUFFICES ASSUME LockInit PROVE IInv
  OBVIOUS
<1>1. /\ EmptyLane \in Lane /\ Members(EmptyLane.queue) = {} /\ NoRepeats(EmptyLane.queue)
      /\ EmptyLane.active = NoTurn /\ EmptyLane.state = "IDLE" /\ EmptyLane.waiters = {}
  BY DEF EmptyLane, Lane, LaneStates, Members, NoRepeats
<1>2. FreshTurn \in Turn
  BY DEF FreshTurn, Turn, Statuses, Answers
<1>3. settled \in Seq(Turns) /\ Members(settled) = {}
  BY DEF LockInit, Members
<1>4. ASSUME NEW th \in Threads PROVE lane[th] = EmptyLane /\ LaneGood(th, lane[th], turn)
  BY <1>1, NullAssumption DEF LockInit, LaneGood
<1>5. ASSUME NEW t \in Turns PROVE TurnGood(t, lane[Home[t]], turn[t], settled)
  BY <1>1, <1>2, <1>3, HomeAssumption DEF LockInit, FreshTurn, TurnGood, Running
<1> QED BY <1>1, <1>2, <1>3, <1>4, <1>5 DEF LockInit, IInv, Good, NobodyAwaitsFree

LEMMA StepKeeps == IInv /\ [LockNext]_lockVars => IInv'
<1> SUFFICES ASSUME IInv, [LockNext]_lockVars PROVE IInv'
  OBVIOUS
<1>1. CASE \E t \in Turns : Enqueue(t)
  BY <1>1, EnqueueKeeps
<1>2. CASE \E t \in Turns : AcquireTurn(t)
  BY <1>2, AcquireHeldKeeps, AcquireSettledKeeps, AcquireQueuedKeeps, AcquireUnseenKeeps
     DEF AcquireTurn
<1>3. CASE \E t \in Turns, o \in Outcomes : ReleaseTurn(t, o)
  BY <1>3, ReleaseTurnKeeps
<1>4. CASE \E t \in Turns : CancelTurn(t)
  BY <1>4, CancelTurnKeeps
<1>5. CASE \E t \in Turns, p \in Prompts \cup {NoPrompt} : MarkAwaitingApproval(t, p)
  BY <1>5, MarkAwaitingApprovalKeeps
<1>6. CASE \E t \in Turns : ResumeFromApproval(t)
  BY <1>6, ResumeFromApprovalKeeps
<1>7. CASE \E th \in Threads : ClearThread(th)
  BY <1>7, ClearThreadKeeps
<1>8. CASE UNCHANGED lockVars
  BY <1>8 DEF lockVars, IInv, Good, LaneGood, TurnGood, NobodyAwaitsFree
<1> QED BY <1>1, <1>2, <1>3, <1>4, <1>5, <1>6, <1>7, <1>8 DEF LockNext

LEMMA InvariantHolds == LockSpec => []IInv
BY InitEstablishes, StepKeeps, PTL DEF LockSpec

\* The lock's state always has its type.
THEOREM LockTypeCorrect == LockSpec => []LockTypeOK
<1>1. IInv => LockTypeOK
  BY DEF IInv, Good, LockTypeOK
<1> QED BY <1>1, InvariantHolds, PTL

\* A turn is held, queued or remembered as settled, in one place, once: the
\* pump never serves an instruction twice (AgentTurnLock.ts:397-415).
THEOREM TurnInOnePlace == LockSpec => []OnePlace
<1>1. IInv => OnePlace
  <2> SUFFICES ASSUME IInv PROVE OnePlace
    OBVIOUS
  <2>1. ASSUME NEW th \in Threads
        PROVE  /\ lane[th].active \in Turns => Home[lane[th].active] = th
               /\ \A t \in Waiting(th) : Home[t] = th /\ t # lane[th].active
               /\ \A i, j \in DOMAIN lane[th].queue :
                     lane[th].queue[i] = lane[th].queue[j] => i = j
    BY DEF IInv, Good, LaneGood, NoRepeats, Waiting
  <2>2. ASSUME NEW t \in Members(settled)
        PROVE  Here(t).active # t /\ t \notin Waiting(Home[t])
    <3>1. t \in Turns
      BY <2>2 DEF IInv, Good, Members
    <3>2. TurnGood(t, Here(t), turn[t], settled) /\ LaneGood(Home[t], Here(t), turn)
      BY <3>1, Parts
    <3> QED BY <2>2, <3>1, <3>2, NullAssumption
            DEF TurnGood, LaneGood, Outcomes, Waiting, Here
  <2> QED BY <2>1, <2>2 DEF OnePlace
<1> QED BY <1>1, InvariantHolds, PTL

\* Whoever awaits acquireTurn stands behind a turn that holds the lock: no
\* wake-up is lost between enqueue, acquire, release and cancel.
THEOREM NoLostWakeUp == LockSpec => []WaiterIsBehindHolder
<1>1. IInv => WaiterIsBehindHolder
  BY DEF IInv, Good, LaneGood, NobodyAwaitsFree, WaiterIsBehindHolder, Waiting
<1> QED BY <1>1, InvariantHolds, PTL

\* The promises acquireTurn returned agree with the lanes.
THEOREM PromisesAgree == LockSpec => []AnswersAgree
<1>1. IInv => AnswersAgree
  BY DEF IInv, Good, TurnGood, AnswersAgree, Waiting, Here
<1> QED BY <1>1, InvariantHolds, PTL

\* A turn that runs holds its thread's lock, and the lane's state says what the
\* holder is doing: two instructions never run on one thread.
THEOREM OneTurnAtATime == LockSpec => []StateAgrees
<1>1. IInv => StateAgrees
  <2> SUFFICES ASSUME IInv PROVE StateAgrees
    OBVIOUS
  <2>1. ASSUME NEW th \in Threads
        PROVE  LET a == lane[th].active IN
               /\ lane[th].state = "IDLE" <=> a = NoTurn
               /\ lane[th].state = "AWAITING_APPROVAL" =>
                     a \in Turns /\ turn[a].status = "AWAITING_APPROVAL"
               /\ lane[th].state = "PROCESSING_TURN" =>
                     a \in Turns /\ turn[a].status = "PROCESSING"
    BY NullAssumption DEF IInv, Good, LaneGood
  <2>2. ASSUME NEW t \in Turns
        PROVE  /\ turn[t].status \in Running => Here(t).active = t
               /\ turn[t].status = "QUEUED" <=> t \in Waiting(Home[t])
    BY DEF IInv, Good, TurnGood, Waiting, Here
  <2> QED BY <2>1, <2>2 DEF StateAgrees
<1> QED BY <1>1, InvariantHolds, PTL

\* A turn that generates shows no prompt.
THEOREM NoStalePrompt == LockSpec => []PromptUnderParkedTurn
<1>1. IInv => PromptUnderParkedTurn
  BY DEF IInv, Good, TurnGood, PromptUnderParkedTurn
<1> QED BY <1>1, InvariantHolds, PTL

\* Lane, statuses, promises and prompts of a thread agree.
THEOREM LaneAlwaysAgrees == LockSpec => []LaneAgrees
<1>1. StateAgrees /\ AnswersAgree /\ PromptUnderParkedTurn => LaneAgrees
  BY DEF LaneAgrees
<1> QED BY <1>1, OneTurnAtATime, PromisesAgree, NoStalePrompt, PTL
----------------------------------------------------------------------------
(* Settled turns.                                                          *)

\* A turn the lock remembers as settled is over, and in no lane.
LEMMA SettledIsNowhere ==
    ASSUME IInv, NEW s \in Members(settled)
    PROVE  /\ s \in Turns /\ turn[s].status \in Outcomes
           /\ \A th \in Threads : lane[th].active # s /\ s \notin Members(lane[th].queue)
<1>1. s \in Turns
  BY DEF IInv, Good, Members
<1>2. turn[s].status \in Outcomes
  BY <1>1 DEF IInv, Good, TurnGood
<1>3. ASSUME NEW th \in Threads PROVE lane[th].active # s /\ s \notin Members(lane[th].queue)
  <2>1. LaneGood(th, lane[th], turn) /\ TurnGood(s, lane[Home[s]], turn[s], settled)
    BY <1>1 DEF IInv, Good
  <2>2. lane[th].active # s
    BY <1>1, <1>2, <2>1, NullAssumption DEF LaneGood, Outcomes
  <2>3. s \notin Members(lane[th].queue)
    BY <1>2, <2>1 DEF LaneGood, TurnGood, Outcomes
  <2> QED BY <2>2, <2>3
<1> QED BY <1>1, <1>2, <1>3

\* The pump touches nobody but the head of the queue.
LEMMA ServedElsewhere ==
    ASSUME NEW l, l.queue \in Seq(Turns), NEW known \in [Turns -> Turn],
           NEW s \in Turns, s \notin Members(l.queue)
    PROVE  Served(l, known)[s] = known[s]
<1>1. CASE Grants(l)
  <2>1. Head(l.queue) \in Members(l.queue)
    BY <1>1, MembersHeadTail DEF Grants
  <2>2. s # Head(l.queue)
    BY <2>1
  <2> QED BY <1>1, <2>2 DEF Served
<1>2. CASE ~Grants(l)
  BY <1>2 DEF Served
<1> QED BY <1>1, <1>2

\* An operation of t that leaves its lane as l and pumps does not touch a turn
\* that is neither t nor in l's queue.
LEMMA PumpElsewhere ==
    ASSUME NEW th \in Threads, NEW l, NEW known \in [Turns -> Turn],
           l.queue \in Seq(Turns), Pump(th, l, known),
           NEW s \in Turns, s \notin Members(l.queue), known[s] = turn[s]
    PROVE  turn'[s] = turn[s]
BY ServedElsewhere DEF Pump

LEMMA OutcomeStep ==
    ASSUME IInv, LockNext, NEW s \in Members(settled)
    PROVE  turn'[s].status = turn[s].status
<1>1. /\ s \in Turns /\ turn[s].status \in Outcomes
      /\ \A th \in Threads : lane[th].active # s /\ s \notin Members(lane[th].queue)
  BY SettledIsNowhere
<1>2. ASSUME NEW t \in Turns
      PROVE  /\ Home[t] \in Threads /\ turn \in [Turns -> Turn] /\ turn[t] \in Turn
             /\ Here(t).queue \in Seq(Turns) /\ Here(t) \in Lane
             /\ Here(t).active # s /\ s \notin Members(Here(t).queue)
             /\ NoRepeats(Here(t).queue)
  <2>1. /\ Home[t] \in Threads /\ turn \in [Turns -> Turn] /\ turn[t] \in Turn
        /\ Here(t) \in Lane /\ LaneGood(Home[t], Here(t), turn)
    BY Parts
  <2> QED BY <1>1, <2>1 DEF Here, Lane, LaneGood
<1>3. ASSUME NEW t \in Turns, Enqueue(t) PROVE turn'[s].status = turn[s].status
  BY <1>1, <1>2, <1>3 DEF Enqueue, Outcomes
<1>4. ASSUME NEW t \in Turns, AcquireTurn(t) PROVE turn'[s].status = turn[s].status
  <2>1. CASE AcquireHeld(t)
    BY <1>1, <1>2, <2>1 DEF AcquireHeld, Turn
  <2>2. CASE AcquireSettled(t)
    BY <1>1, <1>2, <2>2 DEF AcquireSettled, Turn
  <2>3. CASE AcquireQueued(t)
    <3> DEFINE l == [Here(t) EXCEPT !.waiters = @ \cup {t}]
               known == [turn EXCEPT ![t].answer = "pending"]
    <3>1. l.queue = Here(t).queue
      BY <1>2 DEF Lane
    <3>2. known \in [Turns -> Turn] /\ known[s] = turn[s]
      BY <1>1, <1>2, <2>3 DEF AcquireQueued, Turn, Answers
    <3>3. Pump(Home[t], l, known)
      BY <2>3 DEF AcquireQueued
    <3> HIDE DEF l, known
    <3> QED BY <1>1, <1>2, <3>1, <3>2, <3>3, PumpElsewhere
  <2>4. CASE AcquireUnseen(t)
    <3> DEFINE l == [Here(t) EXCEPT !.queue = Append(@, t), !.waiters = @ \cup {t}]
               known == [turn EXCEPT ![t] = [status |-> "QUEUED", prompt |-> NoPrompt,
                                             answer |-> "pending"]]
    <3>1. l.queue = Append(Here(t).queue, t) /\ s # t
      BY <1>2, <2>4 DEF AcquireUnseen, Lane
    <3>2. l.queue \in Seq(Turns) /\ s \notin Members(l.queue)
      BY <1>2, <3>1, MembersAppend
    <3>3. known \in [Turns -> Turn] /\ known[s] = turn[s]
      BY <1>1, <1>2, <3>1 DEF Turn, Answers, Statuses
    <3>4. Pump(Home[t], l, known)
      BY <2>4 DEF AcquireUnseen
    <3> HIDE DEF l, known
    <3>5. turn'[s] = turn[s]
      BY <1>1, <1>2, <3>2, <3>3, <3>4, PumpElsewhere
    <3> QED BY <3>5
  <2> QED BY <1>4, <2>1, <2>2, <2>3, <2>4 DEF AcquireTurn
<1>5. ASSUME NEW t \in Turns, NEW o \in Outcomes, ReleaseTurn(t, o)
      PROVE  turn'[s].status = turn[s].status
  <2> DEFINE l == [Here(t) EXCEPT !.active = NoTurn, !.state = "IDLE"]
             known == [turn EXCEPT ![t].status = o]
  <2>1. l.queue = Here(t).queue /\ s # t
    BY <1>2, <1>5 DEF ReleaseTurn, Lane
  <2>2. known \in [Turns -> Turn] /\ known[s] = turn[s]
    BY <1>1, <1>2, <2>1 DEF Turn, Statuses
  <2>3. Pump(Home[t], l, known)
    BY <1>5 DEF ReleaseTurn
  <2> HIDE DEF l, known
  <2>4. Home[t] \in Threads /\ l.queue \in Seq(Turns) /\ s \notin Members(l.queue)
    BY <1>2, <2>1
  <2>5. turn'[s] = turn[s]
    BY <1>1, <2>2, <2>3, <2>4, PumpElsewhere
  <2> QED BY <2>5
<1>6. ASSUME NEW t \in Turns, CancelTurn(t) PROVE turn'[s].status = turn[s].status
  <2>1. PICK i \in DOMAIN Here(t).queue :
          /\ Here(t).queue[i] = t
          /\ Pump(Home[t],
                  [Here(t) EXCEPT !.queue = Without(@, i), !.waiters = @ \ {t}],
                  [turn EXCEPT ![t].status = "CANCELLED",
                               ![t].answer = IF t \in Here(t).waiters THEN "refused" ELSE @])
    BY <1>6 DEF CancelTurn
  <2> DEFINE l == [Here(t) EXCEPT !.queue = Without(@, i), !.waiters = @ \ {t}]
             known == [turn EXCEPT ![t].status = "CANCELLED",
                          ![t].answer = IF t \in Here(t).waiters THEN "refused" ELSE @]
  <2>2. l.queue = Without(Here(t).queue, i)
    BY <1>2 DEF Lane
  <2>3. /\ l.queue \in Seq(Turns)
        /\ Members(l.queue) = Members(Here(t).queue) \ {t}
    BY <1>2, <2>1, <2>2, MembersWithout
  <2>4. s # t
    BY <1>2, <2>1 DEF Members
  <2>5. known \in [Turns -> Turn] /\ known[s] = turn[s]
    <3>1. turn \in [Turns -> Turn] /\ turn[t] \in Turn
      BY <1>2
    <3>2. [turn[t] EXCEPT !.status = "CANCELLED",
             !.answer = IF t \in Here(t).waiters THEN "refused" ELSE @] \in Turn
      BY <3>1 DEF Turn, Statuses, Outcomes, Answers
    <3> QED BY <1>1, <2>4, <3>1, <3>2
  <2>6. Pump(Home[t], l, known)
    BY <2>1
  <2> HIDE DEF l, known
  <2>7. Home[t] \in Threads /\ s \notin Members(l.queue)
    BY <1>2, <2>3
  <2>8. turn'[s] = turn[s]
    BY <1>1, <2>3, <2>5, <2>6, <2>7, PumpElsewhere
  <2> QED BY <2>8
<1>7. ASSUME NEW t \in Turns, NEW p \in Prompts \cup {NoPrompt}, MarkAwaitingApproval(t, p)
      PROVE  turn'[s].status = turn[s].status
  BY <1>1, <1>2, <1>7 DEF MarkAwaitingApproval
<1>8. ASSUME NEW t \in Turns, ResumeFromApproval(t) PROVE turn'[s].status = turn[s].status
  BY <1>1, <1>2, <1>8 DEF ResumeFromApproval
<1>9. ASSUME NEW th \in Threads, ClearThread(th) PROVE turn'[s].status = turn[s].status
  <2>1. turn[s] \in Turn
    BY <1>1 DEF IInv, Good
  <2> QED BY <1>1, <1>9, <2>1 DEF ClearThread, Turn
<1> QED BY <1>3, <1>4, <1>5, <1>6, <1>7, <1>8, <1>9 DEF LockNext

\* Nothing rewrites how a turn ended while the lock remembers it: not a late
\* acquireTurn, a second release, a cancellation or a stray park
\* (markSettled, AgentTurnLock.ts:363-371).
THEOREM SettledStays == LockSpec => OutcomeStands
<1>1. IInv /\ [LockNext]_lockVars => [KeepsOutcomes]_lockVars
  BY OutcomeStep DEF KeepsOutcomes
<1> QED BY <1>1, InvariantHolds, PTL DEF LockSpec, OutcomeStands
=============================================================================
