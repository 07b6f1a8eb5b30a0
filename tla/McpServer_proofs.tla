-------------------------- MODULE McpServer_proofs --------------------------
(***************************************************************************)
(* Safety of McpServer for every set of calls and stops, every depth of    *)
(* the queue and every number of starts and handshakes.  The invariant has *)
(* two halves that share no variable: the queue (Lined), which the other   *)
(* steps leave alone, and the processes (Supervised).                      *)
(***************************************************************************)
EXTENDS McpServer, TLAPS

InSlot == InState("running") \cup InState("woken")

\* The line holds exactly the calls that wait, each once; `active` tells whether
\* a call runs; and one call at most runs or is about to.
Lined ==
    /\ QueueTypeOK
    /\ \A i, j \in DOMAIN waiting : waiting[i] = waiting[j] => i = j
    /\ \A i \in DOMAIN waiting : call[waiting[i]] = "waiting"
    /\ active <=> InState("running") # {}
    /\ \A c, d \in InSlot : c = d
    /\ waiting # <<>> => InSlot # {}

\* The supervised child and the children that stops wait for are alive.
Supervised ==
    /\ rt \in RuntimeStates
    /\ proc \in [Children -> {"unborn", "up", "absent"} \cup Exits]
    /\ stop \in [Stops -> [stage : {"unmade", "waiting", "returned"}, on : Children \cup {None}]]
    /\ StatusIsTrue
    /\ StoppedIsGone
    /\ \A x \in Stops : stop[x].on # None => proc[stop[x].on] # "unborn"
    /\ \A x \in Stops : stop[x].stage = "unmade" => stop[x].on = None
    /\ \A x \in Stops : stop[x].stage = "waiting" => stop[x].on # None

----------------------------------------------------------------------------
(* The queue.                                                              *)

\* Removing one place from a line keeps the others, each once.
LEMMA WithoutOne ==
    ASSUME NEW S, NEW s \in Seq(S), NEW i \in DOMAIN s,
           \A j, k \in DOMAIN s : s[j] = s[k] => j = k
    PROVE  LET w == Without(s, i) IN
           /\ w \in Seq(S)
           /\ \A j, k \in DOMAIN w : w[j] = w[k] => j = k
           /\ \A j \in DOMAIN w : w[j] # s[i] /\ \E k \in DOMAIN s : w[j] = s[k]
<1> DEFINE w == Without(s, i)
<1>1. Len(s) \in Nat /\ DOMAIN s = 1..Len(s) /\ Len(s) > 0 /\ \A j \in 1..Len(s) : s[j] \in S
  OBVIOUS
<1>2. /\ DOMAIN w = 1..(Len(s) - 1)
      /\ \A j \in 1..(Len(s) - 1) : w[j] = IF j < i THEN s[j] ELSE s[j + 1]
  BY DEF Without
<1>3. w \in Seq(S)
  <2>1. w \in [1..(Len(s) - 1) -> S]
    BY <1>1 DEF Without
  <2> QED BY <1>1, <2>1
<1> HIDE DEF w
<1> DEFINE from(j) == IF j < i THEN j ELSE j + 1
<1>4. \A j \in DOMAIN w : from(j) \in DOMAIN s /\ from(j) # i /\ w[j] = s[from(j)]
  BY <1>1, <1>2
<1>5. \A j, k \in DOMAIN w : from(j) = from(k) => j = k
  BY <1>1, <1>2
<1> HIDE DEF from
<1>6. QED
  BY <1>3, <1>4, <1>5 DEF w

LEMMA EnterKeepsLine ==
    ASSUME Lined, NEW c \in Calls, Enter(c)
    PROVE  Lined'
<1> USE DEF Lined, QueueTypeOK, CallStates, InSlot, InState
<1>1. CASE ~active /\ active' = TRUE /\ call' = [call EXCEPT ![c] = "running"] /\ UNCHANGED waiting
  <2>1. InSlot = {}
    BY <1>1 DEF Enter, HandingOver
  <2>2. waiting = <<>>
    BY <2>1
  <2>3. InState("running")' = {c} /\ InState("woken")' = {}
    BY <1>1, <2>1
  <2> QED BY <1>1, <2>2, <2>3
<1>2. CASE /\ active /\ waiting' = Append(waiting, c)
           /\ call' = [call EXCEPT ![c] = "waiting"] /\ UNCHANGED active
  <2>1. call[c] = "unmade"
    BY DEF Enter
  <2>2. InState("running")' = InState("running") /\ InState("woken")' = InState("woken")
    BY <1>2, <2>1
  <2>3. \A i \in DOMAIN waiting : waiting[i] # c
    BY <2>1
  <2>4. /\ waiting' \in Seq(Calls)
        /\ \A i, j \in DOMAIN waiting' : waiting'[i] = waiting'[j] => i = j
        /\ \A i \in DOMAIN waiting' : waiting'[i] = c \/ \E j \in DOMAIN waiting : waiting'[i] = waiting[j]
    BY <1>2, <2>3
  <2>5. \A i \in DOMAIN waiting' : call'[waiting'[i]] = "waiting"
    BY <1>2, <2>3, <2>4
  <2> QED BY <1>2, <2>2, <2>4, <2>5
<1>3. CASE active /\ call' = [call EXCEPT ![c] = "refused"] /\ UNCHANGED <<active, waiting>>
  <2>1. call[c] = "unmade"
    BY DEF Enter
  <2>2. InState("running")' = InState("running") /\ InState("woken")' = InState("woken")
    BY <1>3, <2>1
  <2> QED BY <1>3, <2>1, <2>2
<1> QED BY <1>1, <1>2, <1>3 DEF Enter

LEMMA ResumeKeepsLine ==
    ASSUME Lined, NEW c \in Calls, Resume(c)
    PROVE  Lined'
<1> USE DEF Lined, QueueTypeOK, CallStates, InSlot, InState
<1>1. /\ call[c] = "woken" /\ active' = TRUE /\ waiting' = waiting
      /\ call' = [call EXCEPT ![c] = "running"]
  BY DEF Resume
<1>2. InSlot = {c}
  BY <1>1
<1>3. InState("running")' = {c} /\ InState("woken")' = {}
  BY <1>1, <1>2
<1> QED BY <1>1, <1>3

LEMMA LeaveKeepsLine ==
    ASSUME Lined, NEW c \in Calls, Leave(c)
    PROVE  Lined'
<1> USE DEF Lined, QueueTypeOK, CallStates, InSlot, InState
<1>1. call[c] = "running" /\ active' = FALSE
  BY DEF Leave
<1>2. InSlot = {c}
  BY <1>1
<1>3. CASE waiting = <<>> /\ call' = [call EXCEPT ![c] = "settled"] /\ UNCHANGED waiting
  <2>1. InState("running")' = {} /\ InState("woken")' = {}
    BY <1>2, <1>3
  <2>2. call' \in [Calls -> CallStates]
    BY <1>3
  <2>3. waiting' = <<>> /\ waiting' \in Seq(Calls) /\ DOMAIN waiting' = {}
    BY <1>3
  <2>4. InSlot' = {}
    BY <2>1
  <2> HIDE DEF InSlot, InState, CallStates
  <2> QED BY <1>1, <2>1, <2>2, <2>3, <2>4
<1>4. CASE /\ waiting # <<>> /\ waiting' = Tail(waiting)
           /\ call' = [call EXCEPT ![c] = "settled", ![Head(waiting)] = "woken"]
  <2> DEFINE h == Head(waiting)
  <2>1. /\ h \in Calls /\ h = waiting[1] /\ 1 \in DOMAIN waiting
        /\ waiting' \in Seq(Calls) /\ DOMAIN waiting' = 1..(Len(waiting) - 1)
        /\ DOMAIN waiting = 1..Len(waiting) /\ Len(waiting) \in Nat
        /\ \A i \in DOMAIN waiting' : waiting'[i] = waiting[i + 1] /\ i + 1 \in DOMAIN waiting
    BY <1>4
  <2>2. h # c
    BY <1>1, <2>1
  <2> HIDE DEF h
  <2>3. InState("running")' = {} /\ InState("woken")' = {h}
    BY <1>2, <1>4, <2>1, <2>2 DEF h
  <2>4. \A i, j \in DOMAIN waiting' : waiting'[i] = waiting'[j] => i = j
    <3>1. TAKE i, j \in DOMAIN waiting'
    <3>2. HAVE waiting'[i] = waiting'[j]
    <3>3. i + 1 = j + 1
      BY <2>1, <3>1, <3>2
    <3> QED BY <2>1, <3>1, <3>3
  <2>5. \A i \in DOMAIN waiting' : call'[waiting'[i]] = "waiting"
    <3>1. TAKE i \in DOMAIN waiting'
    <3>2. waiting'[i] = waiting[i + 1] /\ i + 1 \in DOMAIN waiting /\ i + 1 # 1
      BY <2>1, <3>1
    <3>3. waiting'[i] # h /\ call[waiting'[i]] = "waiting" /\ waiting'[i] \in Calls
      BY <2>1, <3>2
    <3>4. waiting'[i] # c
      BY <1>1, <3>3
    <3> QED BY <1>4, <3>3, <3>4 DEF h
  <2>6. call' \in [Calls -> CallStates]
    BY <1>4, <2>1 DEF h
  <2>7. InSlot' = {h}
    BY <2>3
  <2> QED BY <1>1, <2>1, <2>3, <2>4, <2>5, <2>6, <2>7
<1> QED BY <1>3, <1>4 DEF Leave

LEMMA WaitTimeoutKeepsLine ==
    ASSUME Lined, NEW c \in Calls, WaitTimeout(c)
    PROVE  Lined'
<1> USE DEF Lined, QueueTypeOK, CallStates, InSlot, InState
<1>1. PICK i \in DOMAIN waiting : waiting[i] = c /\ waiting' = Without(waiting, i)
  BY DEF WaitTimeout
<1>2. call[c] = "waiting" /\ call' = [call EXCEPT ![c] = "abandoned"] /\ active' = active
  BY <1>1 DEF WaitTimeout
<1>3. /\ waiting' \in Seq(Calls)
      /\ \A j, k \in DOMAIN waiting' : waiting'[j] = waiting'[k] => j = k
      /\ \A j \in DOMAIN waiting' : waiting'[j] # c /\ \E k \in DOMAIN waiting : waiting'[j] = waiting[k]
  BY <1>1, WithoutOne
<1>4. \A j \in DOMAIN waiting' : call'[waiting'[j]] = "waiting"
  BY <1>2, <1>3
<1>5. InState("running")' = InState("running") /\ InState("woken")' = InState("woken")
  BY <1>2
<1>6. waiting # <<>>
  BY <1>1
<1> QED BY <1>2, <1>3, <1>4, <1>5, <1>6

LEMMA LineInitially == Init => Lined
<1> SUFFICES ASSUME QueueInit PROVE Lined
  BY DEF Init
<1>1. waiting \in Seq(Calls) /\ DOMAIN waiting = {} /\ waiting = <<>>
  BY DEF QueueInit
<1>2. InState("running") = {} /\ InState("woken") = {} /\ InSlot = {}
  BY DEF QueueInit, InSlot, InState
<1>3. call \in [Calls -> CallStates] /\ active = FALSE
  BY DEF QueueInit, CallStates
<1> QED BY <1>1, <1>2, <1>3 DEF Lined, QueueTypeOK

LEMMA LineStep == Lined /\ [Next]_vars => Lined'
<1> SUFFICES ASSUME Lined, [Next]_vars PROVE Lined'
  OBVIOUS
<1>1. CASE UNCHANGED queueVars
  BY <1>1 DEF Lined, queueVars, QueueTypeOK, InSlot, InState
<1>2. ASSUME NEW c \in Calls,
             CallTool(c) \/ CallResumes(c) \/ CallEnds(c) \/ CallFails(c) \/ CallGivesUp(c)
      PROVE  Lined'
  BY <1>2, EnterKeepsLine, ResumeKeepsLine, LeaveKeepsLine, WaitTimeoutKeepsLine
  DEF CallTool, CallResumes, CallEnds, CallFails, CallGivesUp
<1>3. CASE UNCHANGED vars
  BY <1>1, <1>3 DEF vars
<1> QED
  BY <1>1, <1>2, <1>3
  DEF Next, StartServer, RefreshCapabilities, HandshakeDone, HandshakeFails, StopServer, Exit

----------------------------------------------------------------------------
(* The processes.                                                          *)

LEMMA DisposeShape ==
    ASSUME NEW r \in RuntimeStates, NEW S
    PROVE  /\ Dispose(r, S) \in RuntimeStates
           /\ Dispose(r, S).child = r.child /\ Dispose(r, S).status = r.status
           /\ Dispose(r, S).start = r.start
<1> DEFINE disposed == [s \in Sessions |->
              IF s \in S THEN [r.session[s] EXCEPT !.stage = "disposed"] ELSE r.session[s]]
<1>1. disposed \in [Sessions -> [of : Children \cup {None}, opening : BOOLEAN,
                                 stage : {"unused", "discovering", "open", "disposed"}]]
  BY DEF RuntimeStates
<1>2. Dispose(r, S) = [r EXCEPT !.session = disposed]
  BY DEF Dispose
<1> HIDE DEF disposed
<1> QED BY <1>1, <1>2 DEF RuntimeStates

\* What the pieces of code between two events leave alone: the child, and, but
\* for a failed start, the status.
LEMMA RejectedShape ==
    ASSUME NEW r \in RuntimeStates, NEW S \in SUBSET Sessions, NEW p
    PROVE  /\ Rejected(r, S, p) \in RuntimeStates
           /\ Rejected(r, S, p).child = r.child
           /\ Rejected(r, S, p).status \in {r.status, "ERROR"}
<1> DEFINE dropped == IF S = {} THEN r ELSE [Dispose(r, S) EXCEPT !.client = None]
           of == {r.session[s].of : s \in {z \in S : r.session[z].opening}}
           left == {k \in of : r.status # "CRASHED" /\ p[k] \notin {"finished", "failed"}}
           start == [k \in Children |-> IF k \in left THEN "terminate"
                                        ELSE IF k \in of THEN "returned" ELSE dropped.start[k]]
<1>1. /\ dropped \in RuntimeStates /\ dropped.child = r.child
      /\ dropped.status = r.status
  <2>1. CASE S = {}
    BY <2>1
  <2>2. CASE S # {}
    <3> DEFINE d == Dispose(r, S)
    <3>1. d \in RuntimeStates /\ d.child = r.child /\ d.status = r.status
      BY DisposeShape
    <3> HIDE DEF d
    <3>2. dropped = [d EXCEPT !.client = None]
      BY <2>2 DEF d
    <3> HIDE DEF dropped
    <3> QED BY <3>1, <3>2 DEF RuntimeStates
  <2> QED BY <2>1, <2>2
<1>2. start \in [Children -> {"none", "handshake", "terminate", "returned"}]
  BY <1>1 DEF RuntimeStates
<1>3. (left # {}) \in BOOLEAN
  OBVIOUS
<1>4. Rejected(r, S, p) =
        [dropped EXCEPT
           !.status = IF of = {} \/ dropped.status = "CRASHED" THEN dropped.status ELSE "ERROR",
           !.stopping = IF of = {} \/ r.status = "CRASHED" THEN dropped.stopping ELSE left # {},
           !.start = start]
  BY DEF Rejected
<1> HIDE DEF dropped, of, left, start
<1> QED BY <1>1, <1>2, <1>3, <1>4 DEF RuntimeStates, Statuses

LEMMA HandshakeShape ==
    ASSUME NEW r \in RuntimeStates, NEW k \in Children, NEW s \in Sessions,
           NEW opening \in BOOLEAN, NEW p
    PROVE  /\ Handshake(r, k, s, opening, p) \in RuntimeStates
           /\ Handshake(r, k, s, opening, p).child = r.child
           /\ Handshake(r, k, s, opening, p).status \in {r.status, "ERROR"}
<1> DEFINE before == {r.client} \ {None}
           opened == [Dispose(r, before) EXCEPT
                        !.client = s,
                        !.session[s] = [of |-> k, opening |-> opening, stage |-> "discovering"]]
           lost == before \cap InStage(r, "discovering")
<1>1. opened \in RuntimeStates /\ opened.child = r.child /\ opened.status = r.status
  <2> DEFINE d == Dispose(r, before)
             new == [of |-> k, opening |-> opening, stage |-> "discovering"]
  <2>1. d \in RuntimeStates /\ d.child = r.child /\ d.status = r.status
    BY DisposeShape
  <2>2. new \in [of : Children \cup {None}, opening : BOOLEAN,
                 stage : {"unused", "discovering", "open", "disposed"}]
    OBVIOUS
  <2> HIDE DEF d, new
  <2>3. [d EXCEPT !.client = s, !.session[s] = new] \in RuntimeStates
    BY <2>1, <2>2 DEF RuntimeStates
  <2>4. /\ [d EXCEPT !.client = s, !.session[s] = new].child = d.child
        /\ [d EXCEPT !.client = s, !.session[s] = new].status = d.status
    BY <2>1 DEF RuntimeStates
  <2>5. opened = [d EXCEPT !.client = s, !.session[s] = new]
    BY DEF d, new
  <2> QED BY <2>1, <2>3, <2>4, <2>5
<1>2. lost \in SUBSET Sessions
  BY DEF InStage
<1>3. Handshake(r, k, s, opening, p) = Rejected(opened, lost, p)
  BY DEF Handshake
<1> HIDE DEF opened, lost
<1> QED BY <1>1, <1>2, <1>3, RejectedShape

\* A start leaves its new child supervised and alive, or no child and ERROR, and
\* changes no other process.
LEMMA StartShape ==
    ASSUME NEW r \in RuntimeStates, NEW lost \in SUBSET Sessions,
           NEW p \in [Children -> {"unborn", "up", "absent"} \cup Exits],
           StartFrom(r, lost, p), r.child # None => p[r.child] = "up"
    PROVE  /\ rt' \in RuntimeStates
           /\ proc' \in [Children -> {"unborn", "up", "absent"} \cup Exits]
           /\ rt'.status \in {"STARTING", "INITIALIZING", "ERROR"}
           /\ rt'.child # None => proc'[rt'.child] = "up"
           /\ \A k \in Children : p[k] # "unborn" => proc'[k] = p[k]
<1>1. PICK k \in Children, s \in Sessions :
        LET begun == [r EXCEPT !.status = "STARTING", !.stopping = FALSE,
                               !.child = k, !.start[k] = "handshake"]
            then == Rejected(begun, lost, p)
        IN  /\ p[k] = "unborn"
            /\ \/ /\ proc' = [p EXCEPT ![k] = "up"]
                  /\ rt' = Handshake([then EXCEPT !.status = "INITIALIZING"], k, s, TRUE, proc')
               \/ /\ proc' = [p EXCEPT ![k] = "absent"]
                  /\ rt' = [then EXCEPT !.status = "ERROR", !.child = None, !.start[k] = "returned"]
               \/ /\ proc' = [p EXCEPT ![k] = "absent"]
                  /\ rt' = Rejected([r EXCEPT !.status = "STARTING", !.stopping = FALSE,
                                              !.start[k] = "returned"], lost, p)
  BY DEF StartFrom
<1> DEFINE begun == [r EXCEPT !.status = "STARTING", !.stopping = FALSE,
                              !.child = k, !.start[k] = "handshake"]
           next == Rejected(begun, lost, p)
           ready == [next EXCEPT !.status = "INITIALIZING"]
<1>2. begun \in RuntimeStates /\ begun.child = k
  BY DEF RuntimeStates, Statuses
<1>3. next \in RuntimeStates /\ next.child = k
  <2> HIDE DEF begun
  <2> QED BY <1>2, RejectedShape
<1> HIDE DEF next
<1>4. k # None
  BY DEF Children, None
<1>5. CASE proc' = [p EXCEPT ![k] = "up"] /\ rt' = Handshake(ready, k, s, TRUE, proc')
  <2>1. ready \in RuntimeStates /\ ready.child = k /\ ready.status = "INITIALIZING"
    BY <1>3 DEF RuntimeStates, Statuses
  <2> HIDE DEF ready
  <2>2. /\ rt' \in RuntimeStates /\ rt'.child = k
        /\ rt'.status \in {"INITIALIZING", "ERROR"}
    <3> DEFINE opening == TRUE
    <3>1. opening \in BOOLEAN
      OBVIOUS
    <3>2. rt' = Handshake(ready, k, s, opening, proc')
      BY <1>5
    <3> HIDE DEF opening
    <3> QED BY <2>1, <3>1, <3>2, HandshakeShape
  <2> QED BY <1>1, <1>5, <2>2
<1>6. CASE /\ proc' = [p EXCEPT ![k] = "absent"]
           /\ rt' = [next EXCEPT !.status = "ERROR", !.child = None, !.start[k] = "returned"]
  <2>1. rt' \in RuntimeStates /\ rt'.child = None /\ rt'.status = "ERROR"
    BY <1>3, <1>6 DEF RuntimeStates, Statuses
  <2> QED BY <1>1, <1>6, <2>1
<1> DEFINE thrown == [r EXCEPT !.status = "STARTING", !.stopping = FALSE,
                               !.start[k] = "returned"]
<1>7. CASE proc' = [p EXCEPT ![k] = "absent"] /\ rt' = Rejected(thrown, lost, p)
  <2>1. thrown \in RuntimeStates /\ thrown.child = r.child /\ thrown.status = "STARTING"
    BY DEF RuntimeStates, Statuses
  <2> HIDE DEF thrown
  <2>2. /\ rt' \in RuntimeStates /\ rt'.child = r.child
        /\ rt'.status \in {"STARTING", "ERROR"}
    BY <1>7, <2>1, RejectedShape
  <2>3. r.child # None => r.child # k /\ r.child \in Children
    BY <1>1 DEF RuntimeStates
  <2> QED BY <1>1, <1>7, <2>2, <2>3
<1> QED BY <1>1, <1>5, <1>6, <1>7 DEF next

\* The steps that only move handshakes: no process, no stop, and neither the child
\* nor a status that says there is none.
LEMMA SameProcesses ==
    ASSUME Supervised, rt' \in RuntimeStates, rt'.child = rt.child,
           rt'.status \in {"STOPPED", "CRASHED"} => rt'.status = rt.status,
           UNCHANGED <<proc, stop>>
    PROVE  Supervised'
BY DEF Supervised, StatusIsTrue, StoppedIsGone

\* A start takes the stops as they are, for the children they wait for were born
\* before: r and p are the states that the code before the start has left.
LEMMA StartKeepsSupervised ==
    ASSUME NEW r \in RuntimeStates, NEW lost \in SUBSET Sessions,
           NEW p \in [Children -> {"unborn", "up", "absent"} \cup Exits],
           StartFrom(r, lost, p), r.child # None => p[r.child] = "up",
           stop' \in [Stops -> [stage : {"unmade", "waiting", "returned"},
                                on : Children \cup {None}]],
           \A x \in Stops : /\ stop'[x].stage = "unmade" => stop'[x].on = None
                            /\ stop'[x].stage = "waiting" => stop'[x].on # None
                            /\ stop'[x].on # None => p[stop'[x].on] # "unborn"
                            /\ stop'[x].on # None =>
                                 ((stop'[x].stage = "waiting") <=> (p[stop'[x].on] = "up"))
    PROVE  Supervised'
<1>1. /\ rt' \in RuntimeStates
      /\ proc' \in [Children -> {"unborn", "up", "absent"} \cup Exits]
      /\ rt'.status \in {"STARTING", "INITIALIZING", "ERROR"}
      /\ rt'.child # None => proc'[rt'.child] = "up"
      /\ \A k \in Children : p[k] # "unborn" => proc'[k] = p[k]
  BY StartShape
<1>2. \A x \in Stops : stop'[x].on # None => proc'[stop'[x].on] = p[stop'[x].on]
  <2>1. TAKE x \in Stops
  <2>2. HAVE stop'[x].on # None
  <2>3. stop'[x].on \in Children
    BY <2>1, <2>2
  <2> QED BY <1>1, <2>1, <2>2, <2>3
<1>3. StatusIsTrue'
  BY <1>1 DEF StatusIsTrue
<1>4. StoppedIsGone'
  BY <1>2 DEF StoppedIsGone
<1> QED BY <1>1, <1>2, <1>3, <1>4 DEF Supervised

LEMMA StopKeepsSupervised ==
    ASSUME Supervised, NEW x \in Stops, StopServer(x)
    PROVE  Supervised'
<1> DEFINE before == {rt.client} \ {None}
           lost == before \cap InStage(rt, "discovering")
           idle == [Dispose(rt, before) EXCEPT
                      !.client = None,
                      !.status = IF @ \in {"CRASHED", "ERROR"} THEN @ ELSE "STOPPED"]
<1>1. stop[x].stage = "unmade" /\ stop[x].on = None
  BY DEF StopServer, Supervised
<1>2. idle \in RuntimeStates /\ idle.child = rt.child
  <2> DEFINE d == Dispose(rt, before)
  <2>1. d \in RuntimeStates /\ d.child = rt.child
    BY DisposeShape DEF Supervised
  <2> HIDE DEF d
  <2>2. idle = [d EXCEPT !.client = None,
                         !.status = IF @ \in {"CRASHED", "ERROR"} THEN @ ELSE "STOPPED"]
    BY DEF d
  <2> QED BY <2>1, <2>2 DEF RuntimeStates, Statuses
<1>3. lost \in SUBSET Sessions
  BY DEF InStage
<1>4. CASE /\ rt.child # None
           /\ rt' = [rt EXCEPT !.stopping = TRUE]
           /\ stop' = [stop EXCEPT ![x] = [stage |-> "waiting", on |-> rt.child]]
           /\ UNCHANGED proc
  <2>1. /\ rt' \in RuntimeStates /\ rt'.child = rt.child /\ rt'.status = rt.status
        /\ rt.child \in Children
    BY <1>4 DEF RuntimeStates, Supervised
  <2>2. proc[rt.child] = "up"
    BY <1>4 DEF Supervised, StatusIsTrue
  <2>3. /\ stop' \in [Stops -> [stage : {"unmade", "waiting", "returned"},
                                on : Children \cup {None}]]
        /\ stop'[x].stage = "waiting" /\ stop'[x].on = rt.child
        /\ \A y \in Stops : y # x => stop'[y] = stop[y]
    BY <1>4, <2>1 DEF Supervised
  <2> QED BY <1>4, <2>1, <2>2, <2>3 DEF Supervised, StatusIsTrue, StoppedIsGone
<1> HIDE DEF idle, lost
<1>5. CASE /\ rt.child = None
           /\ stop' = [stop EXCEPT ![x].stage = "returned"]
           /\ \/ rt' = Rejected(idle, lost, proc) /\ UNCHANGED proc
              \/ StartFrom(idle, lost, proc)
  <2>1. /\ stop' \in [Stops -> [stage : {"unmade", "waiting", "returned"},
                                on : Children \cup {None}]]
        /\ stop'[x].stage = "returned" /\ stop'[x].on = None
        /\ \A y \in Stops : y # x => stop'[y] = stop[y]
    BY <1>1, <1>5 DEF Supervised
  <2>2. \A y \in Stops : /\ stop'[y].stage = "unmade" => stop'[y].on = None
                         /\ stop'[y].stage = "waiting" => stop'[y].on # None
                         /\ stop'[y].on # None => proc[stop'[y].on] # "unborn"
                         /\ stop'[y].on # None =>
                              ((stop'[y].stage = "waiting") <=> (proc[stop'[y].on] = "up"))
    BY <2>1 DEF Supervised, StoppedIsGone
  <2>3. CASE rt' = Rejected(idle, lost, proc) /\ UNCHANGED proc
    <3>1. rt' \in RuntimeStates /\ rt'.child = None
      BY <1>2, <1>3, <1>5, <2>3, RejectedShape
    <3> QED BY <2>1, <2>2, <2>3, <3>1 DEF Supervised, StatusIsTrue, StoppedIsGone
  <2>4. CASE StartFrom(idle, lost, proc)
    <3>1. proc \in [Children -> {"unborn", "up", "absent"} \cup Exits]
      BY DEF Supervised
    <3> QED BY <1>2, <1>3, <1>5, <2>1, <2>2, <2>4, <3>1, StartKeepsSupervised
  <2> QED BY <1>5, <2>3, <2>4
<1> QED BY <1>4, <1>5 DEF StopServer, idle, lost

\* The exit listener and those who waited for the child leave no supervised child.
LEMMA GoneShape ==
    ASSUME NEW r \in RuntimeStates, NEW k \in Children, NEW how \in Exits
    PROVE  /\ TerminateResolved(ExitHandler(r, how), k) \in RuntimeStates
           /\ TerminateResolved(ExitHandler(r, how), k).child = None
<1> DEFINE d == Dispose(r, {r.client} \ {None})
           e == ExitHandler(r, how)
           stopped == IF WaitingFor(k) = {} THEN e
                      ELSE [e EXCEPT !.stopping = FALSE, !.status = "STOPPED", !.child = None]
           gone == TerminateResolved(e, k)
<1>1. d \in RuntimeStates
  BY DisposeShape
<1>2. e \in RuntimeStates /\ e.child = None
  <2>1. e = [d EXCEPT !.child = None, !.client = None,
                      !.status = IF @ = "ERROR" THEN "ERROR"
                                 ELSE IF r.stopping \/ how = "finished" THEN "STOPPED"
                                 ELSE "CRASHED"]
    BY DEF ExitHandler
  <2> HIDE DEF d, e
  <2> QED BY <1>1, <2>1 DEF RuntimeStates, Statuses
<1> HIDE DEF d, e
<1>3. stopped \in RuntimeStates /\ stopped.child = None
  <2>1. CASE WaitingFor(k) = {}
    BY <1>2, <2>1
  <2>2. CASE WaitingFor(k) # {}
    <3>1. stopped = [e EXCEPT !.stopping = FALSE, !.status = "STOPPED", !.child = None]
      BY <2>2
    <3> HIDE DEF stopped
    <3> QED BY <1>2, <3>1 DEF RuntimeStates, Statuses
  <2> QED BY <2>1, <2>2
<1> DEFINE stopping == IF e.start[k] = "terminate" THEN FALSE ELSE stopped.stopping
           start == [stopped.start EXCEPT ![k] = IF @ = "terminate" THEN "returned" ELSE @]
<1>4. gone = [stopped EXCEPT !.stopping = stopping, !.start = start]
  BY DEF TerminateResolved
<1> HIDE DEF stopped, gone
<1>5. stopping \in BOOLEAN /\ start \in [Children -> {"none", "handshake", "terminate", "returned"}]
  BY <1>3 DEF RuntimeStates
<1> HIDE DEF stopping, start
<1>6. gone \in RuntimeStates /\ gone.child = None
  BY <1>3, <1>4, <1>5 DEF RuntimeStates
<1> QED BY <1>6 DEF gone, e

LEMMA ExitKeepsSupervised ==
    ASSUME Supervised, NEW k \in Children, NEW how \in Exits, Exit(k, how)
    PROVE  Supervised'
<1> DEFINE p == [proc EXCEPT ![k] = how]
           lost == {s \in InStage(rt, "discovering") : rt.session[s].of = k \/ s = rt.client}
           gone == TerminateResolved(ExitHandler(rt, how), k)
<1>1. p \in [Children -> {"unborn", "up", "absent"} \cup Exits] /\ how \notin {"unborn", "up"}
  BY DEF Supervised, Exits
<1>2. lost \in SUBSET Sessions
  BY DEF InStage
<1>3. gone \in RuntimeStates /\ gone.child = None
  BY GoneShape DEF Supervised
<1>4. stop' \in [Stops -> [stage : {"unmade", "waiting", "returned"},
                           on : Children \cup {None}]]
  BY DEF Exit, Supervised
<1>5. ASSUME NEW x \in Stops
      PROVE  /\ stop'[x].stage = "unmade" => stop'[x].on = None
             /\ stop'[x].stage = "waiting" => stop'[x].on # None
             /\ stop'[x].on # None => p[stop'[x].on] # "unborn"
             /\ stop'[x].on # None => ((stop'[x].stage = "waiting") <=> (p[stop'[x].on] = "up"))
  <2>1. CASE stop[x].on = k
    <3>1. k # None /\ proc[k] = "up" /\ p[k] = how
      BY DEF Exit, Children, None, Supervised
    <3>2. stop[x].stage = "waiting"
      BY <2>1, <3>1 DEF Supervised, StoppedIsGone
    <3>3. stop'[x] = [stop[x] EXCEPT !.stage = "returned"]
      BY <2>1, <3>2 DEF Exit, WaitingFor, Supervised
    <3>4. stop'[x].on = k /\ stop'[x].stage = "returned"
      BY <2>1, <3>3 DEF Supervised
    <3> QED BY <1>1, <3>1, <3>4
  <2>2. CASE stop[x].on # k
    <3>1. stop'[x] = stop[x]
      BY <2>2 DEF Exit, WaitingFor
    <3>2. stop[x].on # None => stop[x].on \in Children /\ p[stop[x].on] = proc[stop[x].on]
      BY <2>2 DEF Supervised
    <3> QED BY <3>1, <3>2 DEF Supervised, StoppedIsGone
  <2> QED BY <2>1, <2>2
<1>6. (rt' = Rejected(gone, lost, p) /\ proc' = p) \/ StartFrom(gone, lost, p)
  BY DEF Exit
<1> HIDE DEF p, lost, gone
<1>7. CASE rt' = Rejected(gone, lost, p) /\ proc' = p
  <2>1. rt' \in RuntimeStates /\ rt'.child = None
    BY <1>2, <1>3, <1>7, RejectedShape
  <2> QED BY <1>1, <1>4, <1>5, <1>7, <2>1 DEF Supervised, StatusIsTrue, StoppedIsGone
<1>8. CASE StartFrom(gone, lost, p)
  BY <1>1, <1>2, <1>3, <1>4, <1>5, <1>8, StartKeepsSupervised
<1> QED BY <1>6, <1>7, <1>8

LEMMA SupervisedInitially == Init => Supervised
<1> SUFFICES ASSUME Init PROVE Supervised
  OBVIOUS
<1>1. rt \in RuntimeStates /\ rt.child = None
  BY DEF Init, RuntimeStates, Statuses
<1> QED BY <1>1 DEF Init, Supervised, StatusIsTrue, StoppedIsGone

LEMMA SupervisedStep == Supervised /\ [Next]_vars => Supervised'
<1> SUFFICES ASSUME Supervised, [Next]_vars PROVE Supervised'
  OBVIOUS
<1> USE DEF Supervised
<1>1. CASE StartServer
  <2>1. {} \in SUBSET Sessions
    OBVIOUS
  <2> QED BY <1>1, <2>1, StartKeepsSupervised DEF StartServer, StoppedIsGone, StatusIsTrue
<1>2. CASE RefreshCapabilities
  <2>1. PICK s \in Sessions : rt' = Handshake(rt, rt.child, s, FALSE, proc)
    BY <1>2 DEF RefreshCapabilities
  <2>2. rt.child \in Children /\ rt.status = "RUNNING" /\ UNCHANGED <<proc, stop>>
    BY <1>2 DEF RefreshCapabilities, RuntimeStates
  <2> DEFINE opening == FALSE
  <2>3. opening \in BOOLEAN /\ rt' = Handshake(rt, rt.child, s, opening, proc)
    BY <2>1
  <2> HIDE DEF opening
  <2>4. rt' \in RuntimeStates /\ rt'.child = rt.child /\ rt'.status \in {"RUNNING", "ERROR"}
    BY <2>2, <2>3, HandshakeShape
  <2> QED BY <2>2, <2>4, SameProcesses
<1>3. ASSUME NEW s \in Sessions, HandshakeDone(s) PROVE Supervised'
  <2>1. UNCHANGED <<proc, stop>>
    BY <1>3 DEF HandshakeDone
  <2>2. /\ rt' \in RuntimeStates /\ rt'.child = rt.child
        /\ rt'.status = IF rt.session[s].opening THEN "RUNNING" ELSE rt.status
    <3> DEFINE k == rt.session[s].of
               opening == rt.session[s].opening
               session == [rt.session EXCEPT ![s].stage = "open"]
               status == IF opening THEN "RUNNING" ELSE rt.status
               start == [rt.start EXCEPT ![k] = IF opening THEN "returned" ELSE @]
    <3>1. rt' = [rt EXCEPT !.session = session, !.status = status, !.start = start]
      BY <1>3 DEF HandshakeDone
    <3>2. session \in [Sessions -> [of : Children \cup {None}, opening : BOOLEAN,
                           stage : {"unused", "discovering", "open", "disposed"}]]
      BY DEF RuntimeStates
    <3>3. start \in [Children -> {"none", "handshake", "terminate", "returned"}]
      BY DEF RuntimeStates
    <3>4. status \in Statuses
      BY DEF RuntimeStates, Statuses
    <3> HIDE DEF session, start
    <3> QED BY <3>1, <3>2, <3>3, <3>4 DEF RuntimeStates
  <2> QED BY <2>1, <2>2, SameProcesses
<1>4. ASSUME NEW s \in Sessions, HandshakeFails(s) PROVE Supervised'
  <2>1. rt' = Rejected(rt, {s}, proc) /\ UNCHANGED <<proc, stop>> /\ {s} \in SUBSET Sessions
    BY <1>4 DEF HandshakeFails
  <2>2. /\ rt' \in RuntimeStates /\ rt'.child = rt.child
        /\ rt'.status \in {rt.status, "ERROR"}
    BY <2>1, RejectedShape
  <2> QED BY <2>1, <2>2, SameProcesses
<1>5. ASSUME NEW x \in Stops, StopServer(x) PROVE Supervised'
  BY <1>5, StopKeepsSupervised
<1>6. ASSUME NEW k \in Children, NEW how \in Exits, Exit(k, how) PROVE Supervised'
  BY <1>6, ExitKeepsSupervised
<1>7. CASE UNCHANGED <<rt, proc, stop>>
  BY <1>7 DEF StatusIsTrue, StoppedIsGone
<1> QED
  BY <1>1, <1>2, <1>3, <1>4, <1>5, <1>6, <1>7
  DEF Next, vars, CallTool, CallResumes, CallEnds, CallFails, CallGivesUp

----------------------------------------------------------------------------
(* The theorems.                                                           *)

LEMMA LinedAlways == Spec => []Lined
  BY LineInitially, LineStep, PTL DEF Spec

LEMMA SupervisedAlways == Spec => []Supervised
  BY SupervisedInitially, SupervisedStep, PTL DEF Spec

\* SerialQueue never lets two tools/call of one server run at once, however many
\* are made, give up or fail, and although the slot looks free while it is handed over.
THEOREM OneCall == Spec => []OneCallAtATime
<1>1. Lined => OneCallAtATime
  BY DEF Lined, OneCallAtATime, InSlot
<1> QED BY <1>1, LinedAlways, PTL

\* SerialQueue never leaves a call in line with nobody in front who will wake it.
THEOREM NoCallForgotten == Spec => []NoLostWaiter
<1>1. Lined => NoLostWaiter
  BY DEF Lined, NoLostWaiter, InSlot
<1> QED BY <1>1, LinedAlways, PTL

\* The child in RuntimeState is always alive, and STOPPED and CRASHED always mean
\* that there is none, for any number of starts, failed handshakes and exits.
THEOREM StatusTold == Spec => []StatusIsTrue
<1>1. Supervised => StatusIsTrue
  BY DEF Supervised
<1> QED BY <1>1, SupervisedAlways, PTL

\* stopServer returns when the process it found is gone and not before.
THEOREM StopAwaitsExit == Spec => []StoppedIsGone
<1>1. Supervised => StoppedIsGone
  BY DEF Supervised
<1> QED BY <1>1, SupervisedAlways, PTL

\* The states of calls, sessions, children and stops stay within their kinds: no
\* start, refresh or exit leaves a status or a child the program has no name for.
THEOREM TypeCorrect == Spec => []TypeOK
<1> DEFINE Took == using \in [Calls -> Sessions \cup {None}]
<1>1. Init => Took
  BY DEF Init
<1>2. Took /\ Supervised /\ [Next]_vars => Took'
  <2> SUFFICES ASSUME Took, Supervised, [Next]_vars PROVE Took'
    OBVIOUS
  <2>1. ASSUME NEW c \in Calls, CallTool(c) PROVE Took'
    BY <2>1 DEF CallTool, Supervised, RuntimeStates
  <2>2. CASE UNCHANGED using
    BY <2>2
  <2> QED
    BY <2>1, <2>2 DEF Next, vars, StartServer, RefreshCapabilities, HandshakeDone, HandshakeFails,
                      StopServer, Exit, CallResumes, CallEnds, CallFails, CallGivesUp
<1>3. Took /\ Supervised /\ Lined => TypeOK
  BY DEF Supervised, Lined, TypeOK
<1> HIDE DEF Took
<1> QED BY <1>1, <1>2, <1>3, LinedAlways, SupervisedAlways, PTL DEF Spec
============================================================================
