-------------------------- MODULE Approvals_proofs --------------------------
(***************************************************************************)
(* Safety of the approvals, for any threads, requests, faults and crashes. *)
(*                                                                         *)
(* The invariant follows one request through the adapter's promise: what   *)
(* its row, the person's answer and the CLI may be at each stage.  It needs *)
(* the pipes as well: a line is read once, or a second reading of a        *)
(* request would ask again for what was already decided, and a second      *)
(* reading of a withdrawal would cancel what nobody withdraws any more.    *)
(***************************************************************************)
EXTENDS Approvals, TLAPS

Refusals == {"denied", "expired", "cancelled"}

\* A request at each stage of its promise.
RequestGood(r) ==
    /\ cli[r] = "unasked" => host[r].stage = "none"
    /\ host[r].aborted => cli[r] = "withdrew"
    /\ r \in pending <=> host[r].stage = "asking"
    /\ host[r].stage \in {"none", "starting"} => row[r] = "none" /\ ~host[r].approved
    /\ host[r].stage = "asking" /\ r \notin missed => row[r] = "pending"
    /\ host[r].stage = "resolved" /\ host[r].approved => said[r] = "approve"
    /\ host[r].stage = "resolved" /\ r \notin missed =>
          IF host[r].approved THEN row[r] = "approved" ELSE row[r] \in Refusals
    /\ cli[r] \in {"allowed", "denied"} => host[r].stage = "finished"
    /\ said[r] # "nothing" => host[r].stage \in {"resolved", "finished", "lost"}
    /\ cli[r] = "allowed" => said[r] = "approve"
    /\ r \notin missed => /\ cli[r] = "allowed" => row[r] = "approved"
                          /\ cli[r] = "denied" => row[r] \in Refusals

\* A line names a request of its thread that has been asked, and is there once:
\* the one that asks has not been read, nor has the one that withdraws.
PipeGood(th) ==
    \A i \in DOMAIN pipe[th] :
        LET line == pipe[th][i] IN
        /\ Home[line.of] = th
        /\ cli[line.of] # "unasked"
        /\ line.kind = "can_use_tool" => host[line.of].stage = "none"
        /\ line.kind = "cancel" => cli[line.of] = "withdrew" /\ ~host[line.of].aborted
        /\ \A j \in DOMAIN pipe[th] : pipe[th][j] = line => j = i

IInv ==
    /\ TypeOK
    /\ \A r \in Requests : RequestGood(r)
    /\ \A th \in Threads : PipeGood(th)

----------------------------------------------------------------------------
\* The UPDATE of some rows: a row that is not pending keeps its word, a pending
\* one takes the new word or its request is among the missed.
LEMMA UpdateShape ==
    ASSUME TypeOK, NEW words, DOMAIN words \in SUBSET Requests,
           \A r \in DOMAIN words : words[r] \in RowStates,
           Update(words)
    PROVE  /\ row' \in [Requests -> RowStates]
           /\ missed' \in SUBSET Requests
           /\ core' \in [up : BOOLEAN, faults : 0..MaxFaults, crashes : 0..MaxCrashes]
           /\ \A r \in Requests :
                 /\ r \in missed => r \in missed'
                 /\ r \notin DOMAIN words => row'[r] = row[r] /\ (r \in missed' => r \in missed)
                 /\ row[r] # "pending" => row'[r] = row[r]
                 /\ row'[r] # row[r] => r \in DOMAIN words /\ row'[r] = words[r]
                 /\ r \in DOMAIN words /\ row[r] = "pending" /\ r \notin missed'
                       => row'[r] = words[r]
<1>1. PICK bad \in SUBSET DOMAIN words :
        /\ bad # {} => core.faults < MaxFaults
        /\ core' = [core EXCEPT !.faults = IF bad = {} THEN @ ELSE @ + 1]
        /\ missed' = missed \cup bad
        /\ row' = [r \in Requests |->
                     IF r \in DOMAIN words \ bad /\ row[r] = "pending" THEN words[r] ELSE row[r]]
  BY DEF Update
<1>2. core' \in [up : BOOLEAN, faults : 0..MaxFaults, crashes : 0..MaxCrashes]
  <2>1. core \in [up : BOOLEAN, faults : 0..MaxFaults, crashes : 0..MaxCrashes]
    BY DEF TypeOK
  <2>2. CASE bad = {}
    <3>1. core' = core
      BY <1>1, <2>1, <2>2
    <3> QED BY <2>1, <3>1
  <2>3. CASE bad # {}
    <3>1. core' = [core EXCEPT !.faults = @ + 1] /\ core.faults < MaxFaults
      BY <1>1, <2>3
    <3> QED BY <2>1, <3>1, ApprovalAssumption
  <2> QED BY <2>2, <2>3
<1>3. row' \in [Requests -> RowStates] /\ missed' \in SUBSET Requests
  BY <1>1 DEF TypeOK
<1>4. ASSUME NEW r \in Requests
      PROVE  /\ row'[r] = IF r \in DOMAIN words \ bad /\ row[r] = "pending"
                          THEN words[r] ELSE row[r]
             /\ r \in missed' <=> r \in missed \/ r \in bad
             /\ r \in bad => r \in DOMAIN words
  BY <1>1
<1> QED BY <1>2, <1>3, <1>4

\* One word for each of some requests.
LEMMA EachShape ==
    ASSUME NEW S, NEW word
    PROVE  DOMAIN Each(S, word) = S /\ \A r \in S : Each(S, word)[r] = word
BY DEF Each

LEMMA ResolveShape ==
    ASSUME TypeOK, NEW S \in SUBSET Requests, NEW approved \in BOOLEAN, Resolve(S, approved)
    PROVE  /\ pending' \in SUBSET Requests
           /\ host' \in [Requests -> [stage : Stages, aborted : BOOLEAN, approved : BOOLEAN]]
           /\ \A r \in Requests :
                 /\ r \in pending' <=> r \in pending /\ r \notin S
                 /\ r \notin S => host'[r] = host[r]
                 /\ r \in S => /\ host'[r].stage = "resolved" /\ host'[r].approved = approved
                               /\ host'[r].aborted = host[r].aborted
<1> DEFINE Settled(r) == [host[r] EXCEPT !.stage = "resolved", !.approved = approved]
<1>1. host \in [Requests -> [stage : Stages, aborted : BOOLEAN, approved : BOOLEAN]]
  BY DEF TypeOK
<1>2. ASSUME NEW r \in Requests
      PROVE  /\ Settled(r) \in [stage : Stages, aborted : BOOLEAN, approved : BOOLEAN]
             /\ Settled(r).stage = "resolved" /\ Settled(r).approved = approved
             /\ Settled(r).aborted = host[r].aborted
  BY <1>1 DEF Stages
<1>3. /\ pending' = pending \ S
      /\ host' = [r \in Requests |-> IF r \in S THEN Settled(r) ELSE host[r]]
  BY DEF Resolve
<1> HIDE DEF Settled
<1>4. pending' \in SUBSET Requests
  BY <1>3 DEF TypeOK
<1>5. host' \in [Requests -> [stage : Stages, aborted : BOOLEAN, approved : BOOLEAN]]
  BY <1>1, <1>2, <1>3
<1>6. ASSUME NEW r \in Requests
      PROVE  /\ r \in pending' <=> r \in pending /\ r \notin S
             /\ host'[r] = IF r \in S THEN Settled(r) ELSE host[r]
  BY <1>3
<1> QED BY <1>2, <1>4, <1>5, <1>6

\* The pipes stay good when lines are only taken from them, in order, and no
\* request is unasked or unread again.
LEMMA PipesStay ==
    ASSUME IInv,
           \A th \in Threads : \/ pipe'[th] \in {pipe[th], <<>>}
                               \/ pipe[th] # <<>> /\ pipe'[th] = Tail(pipe[th]),
           \A r \in Requests : /\ cli[r] # "unasked" => cli'[r] # "unasked"
                               /\ cli[r] = "withdrew" => cli'[r] = "withdrew",
           \A th \in Threads : \A i \in DOMAIN pipe'[th] :
              LET line == pipe'[th][i] IN
              /\ line.kind = "can_use_tool" /\ host[line.of].stage = "none"
                    => host'[line.of].stage = "none"
              /\ line.kind = "cancel" /\ ~host[line.of].aborted => ~host'[line.of].aborted
    PROVE  \A th \in Threads : PipeGood(th)'
<1>1. TAKE th \in Threads
<1>2. pipe[th] \in Seq(Lines)
  BY DEF IInv, TypeOK
<1>3. \A i \in DOMAIN pipe[th] : pipe[th][i] \in Lines
  BY <1>2
<1>4. \A i \in DOMAIN pipe[th] : pipe[th][i].of \in Requests
  BY <1>3 DEF Lines
<1>5. PipeGood(th)
  BY DEF IInv
<1>6. CASE pipe'[th] = <<>>
  BY <1>6 DEF PipeGood
<1>7. CASE pipe'[th] = pipe[th]
  BY <1>4, <1>5, <1>7 DEF PipeGood
<1>8. CASE pipe[th] # <<>> /\ pipe'[th] = Tail(pipe[th])
  <2>1. \A i \in DOMAIN pipe'[th] :
           i + 1 \in DOMAIN pipe[th] /\ pipe'[th][i] = pipe[th][i + 1] /\ i \in Nat
    BY <1>2, <1>8
  <2> SUFFICES ASSUME NEW i \in DOMAIN pipe'[th]
               PROVE  LET line == pipe'[th][i] IN
                      /\ Home[line.of] = th
                      /\ cli'[line.of] # "unasked"
                      /\ line.kind = "can_use_tool" => host'[line.of].stage = "none"
                      /\ line.kind = "cancel" => cli'[line.of] = "withdrew" /\ ~host'[line.of].aborted
                      /\ \A j \in DOMAIN pipe'[th] : pipe'[th][j] = line => j = i
    BY DEF PipeGood
  <2>2. LET line == pipe[th][i + 1] IN
        /\ Home[line.of] = th
        /\ cli[line.of] # "unasked"
        /\ line.kind = "can_use_tool" => host[line.of].stage = "none"
        /\ line.kind = "cancel" => cli[line.of] = "withdrew" /\ ~host[line.of].aborted
        /\ \A j \in DOMAIN pipe[th] : pipe[th][j] = line => j = i + 1
    BY <1>5, <2>1 DEF PipeGood
  <2>3. \A j \in DOMAIN pipe'[th] : j + 1 = i + 1 => j = i
    BY <2>1
  <2> QED BY <1>4, <2>1, <2>2, <2>3
<1> QED BY <1>6, <1>7, <1>8

\* A line about r is written: its request had not been asked, or not withdrawn.
LEMMA PipeGrows ==
    ASSUME IInv, NEW r \in Requests, NEW k \in {"can_use_tool", "cancel"},
           pipe' = [pipe EXCEPT ![Home[r]] = Append(@, [kind |-> k, of |-> r])],
           \A q \in Requests : /\ cli[q] # "unasked" => cli'[q] # "unasked"
                               /\ cli[q] = "withdrew" => cli'[q] = "withdrew",
           cli'[r] # "unasked", host' = host,
           k = "can_use_tool" => cli[r] = "unasked",
           k = "cancel" => cli[r] = "waiting" /\ cli'[r] = "withdrew"
    PROVE  /\ pipe' \in [Threads -> Seq(Lines)]
           /\ \A th \in Threads : PipeGood(th)'
<1> DEFINE new == [kind |-> k, of |-> r]
<1>1. new \in Lines /\ new.kind = k /\ new.of = r
  BY DEF Lines
<1>2. Home[r] \in Threads /\ pipe \in [Threads -> Seq(Lines)]
  BY ApprovalAssumption DEF IInv, TypeOK
<1> HIDE DEF new
<1>3. \A th \in Threads : pipe'[th] = IF th = Home[r] THEN Append(pipe[th], new) ELSE pipe[th]
  BY <1>2 DEF new
<1>4. pipe' \in [Threads -> Seq(Lines)]
  BY <1>1, <1>2 DEF new
<1>5. ASSUME NEW th \in Threads PROVE PipeGood(th)'
  <2>1. /\ pipe[th] \in Seq(Lines)
        /\ \A i \in DOMAIN pipe[th] : pipe[th][i] \in Lines
    BY <1>2
  <2>2. \A i \in DOMAIN pipe[th] : pipe[th][i].of \in Requests
    BY <2>1 DEF Lines
  <2>3. PipeGood(th)
    BY DEF IInv
  <2>4. CASE th # Home[r]
    BY <1>3, <2>2, <2>3, <2>4 DEF PipeGood
  <2>5. CASE th = Home[r]
    <3>1. /\ DOMAIN pipe'[th] = DOMAIN pipe[th] \cup {Len(pipe[th]) + 1}
          /\ Len(pipe[th]) + 1 \notin DOMAIN pipe[th]
          /\ \A i \in DOMAIN pipe[th] : pipe'[th][i] = pipe[th][i]
          /\ pipe'[th][Len(pipe[th]) + 1] = new
      <4>1. pipe'[th] = Append(pipe[th], new)
        BY <1>3, <2>5
      <4>2. /\ Len(pipe[th]) \in Nat /\ DOMAIN pipe[th] = 1..Len(pipe[th])
            /\ DOMAIN pipe'[th] = 1..(Len(pipe[th]) + 1)
        BY <1>1, <2>1, <4>1
      <4>3. \A i \in 1..Len(pipe[th]) : pipe'[th][i] = pipe[th][i]
        BY <1>1, <2>1, <4>1
      <4>4. pipe'[th][Len(pipe[th]) + 1] = new
        BY <1>1, <2>1, <4>1
      <4> QED BY <4>2, <4>3, <4>4
    <3>2. \A i \in DOMAIN pipe[th] : pipe[th][i] # new
      <4> TAKE i \in DOMAIN pipe[th]
      <4>1. CASE k = "can_use_tool"
        BY <1>1, <2>3, <4>1 DEF PipeGood
      <4>2. CASE k = "cancel"
        BY <1>1, <2>3, <4>2 DEF PipeGood
      <4> QED BY <4>1, <4>2
    <3>3. /\ k = "can_use_tool" => host[r].stage = "none"
          /\ k = "cancel" => ~host[r].aborted
      BY DEF IInv, RequestGood
    <3> SUFFICES ASSUME NEW i \in DOMAIN pipe'[th]
                 PROVE  LET line == pipe'[th][i] IN
                        /\ Home[line.of] = th
                        /\ cli'[line.of] # "unasked"
                        /\ line.kind = "can_use_tool" => host'[line.of].stage = "none"
                        /\ line.kind = "cancel" => cli'[line.of] = "withdrew" /\ ~host'[line.of].aborted
                        /\ \A j \in DOMAIN pipe'[th] : pipe'[th][j] = line => j = i
      BY DEF PipeGood
    <3>4. CASE i \in DOMAIN pipe[th]
      <4>1. LET line == pipe[th][i] IN
            /\ Home[line.of] = th
            /\ cli[line.of] # "unasked"
            /\ line.kind = "can_use_tool" => host[line.of].stage = "none"
            /\ line.kind = "cancel" => cli[line.of] = "withdrew" /\ ~host[line.of].aborted
            /\ \A j \in DOMAIN pipe[th] : pipe[th][j] = line => j = i
        BY <2>3, <3>4 DEF PipeGood
      <4>2. new # pipe[th][i]
        BY <3>2, <3>4
      <4> QED BY <2>2, <3>1, <3>4, <4>1, <4>2
    <3>5. CASE i = Len(pipe[th]) + 1
      <4>1. pipe'[th][i] = new
        BY <3>1, <3>5
      <4>2. \A j \in DOMAIN pipe[th] : pipe'[th][j] # new
        BY <3>1, <3>2
      <4> QED BY <1>1, <2>5, <3>1, <3>3, <3>5, <4>1, <4>2
    <3> QED BY <3>1, <3>4, <3>5
  <2> QED BY <2>4, <2>5
<1> QED BY <1>4, <1>5

\* The words that go with an answer.
Fit(words, approved) ==
    \A r \in DOMAIN words : IF approved THEN words[r] = "approved" ELSE words[r] \in Refusals

\* What the requests that get those words are after the step, and all the others.
Settles(words, approved) ==
    \A r \in Requests :
        /\ r \in pending' <=> r \in pending /\ r \notin DOMAIN words
        /\ r \notin DOMAIN words \cap pending => host'[r] = host[r] /\ said'[r] = said[r]
        /\ r \in DOMAIN words \cap pending =>
              /\ host'[r].stage = "resolved" /\ host'[r].approved = approved
              /\ host'[r].aborted => host[r].aborted \/ cli[r] = "withdrew"
              /\ approved => said'[r] = "approve"
        /\ cli'[r] = cli[r] \/ (cli[r] = "waiting" /\ cli'[r] = "gone")

\* Some pending requests are resolved and their rows written: answers, expiry,
\* withdrawal, stop, exit, rejection.
LEMMA DecidedStaysGood ==
    ASSUME IInv, NEW approved \in BOOLEAN, NEW words, DOMAIN words \in SUBSET Requests,
           Update(words), Fit(words, approved), Settles(words, approved)
    PROVE  \A r \in Requests : RequestGood(r)'
<1> DEFINE S == DOMAIN words \cap pending
<1>1. TypeOK /\ S \in SUBSET Requests
  BY DEF IInv, TypeOK
<1>2. \A r \in DOMAIN words : words[r] \in RowStates
  BY DEF Fit, RowStates, Refusals
<1>3. \A r \in Requests :
         /\ r \in missed => r \in missed'
         /\ r \notin DOMAIN words \/ row[r] # "pending" => row'[r] = row[r]
         /\ r \in DOMAIN words /\ row[r] = "pending" /\ r \notin missed' => row'[r] = words[r]
         /\ row'[r] # row[r] => r \in DOMAIN words
  BY <1>1, <1>2, UpdateShape
<1>4. TAKE r \in Requests
<1>5. RequestGood(r)
  BY DEF IInv
<1>6. CASE r \in S
  <2>1. /\ host'[r].stage = "resolved" /\ host'[r].approved = approved
        /\ approved => said'[r] = "approve"
        /\ host'[r].aborted => cli[r] = "withdrew"
        /\ r \notin pending' /\ host[r].stage = "asking"
        /\ r \notin missed' => /\ row[r] = "pending" /\ row'[r] = words[r]
    BY <1>1, <1>3, <1>5, <1>6 DEF RequestGood, Settles
  <2>2. IF approved THEN words[r] = "approved" ELSE words[r] \in Refusals
    BY <1>6 DEF Fit
  <2>3. cli[r] \notin {"unasked", "allowed", "denied"} /\ cli'[r] \in {cli[r], "gone"}
    BY <1>5, <2>1 DEF RequestGood, Settles
  <2>4. host'[r].stage = "resolved" /\ r \notin pending' /\ cli'[r] \notin {"unasked", "allowed", "denied"}
    BY <2>1, <2>3
  <2>5. host'[r].aborted => cli'[r] = "withdrew"
    BY <1>6, <2>1 DEF Settles
  <2>6. CASE approved
    BY <2>1, <2>2, <2>4, <2>5, <2>6 DEF RequestGood
  <2>7. CASE ~approved
    BY <2>1, <2>2, <2>4, <2>5, <2>7 DEF RequestGood
  <2> QED BY <2>6, <2>7
<1>7. CASE r \notin S
  <2>1. /\ host'[r] = host[r] /\ said'[r] = said[r] /\ (r \in pending' <=> r \in pending)
        /\ cli'[r] = cli[r] \/ (cli[r] = "waiting" /\ cli'[r] = "gone")
    BY <1>7 DEF Settles
  <2>2. r \notin missed' => r \notin missed
    BY <1>3
  <2>3. r \in pending \/ row[r] # "pending" => row'[r] = row[r]
    BY <1>3, <1>7
  <2> QED BY <1>5, <2>1, <2>2, <2>3 DEF RequestGood, Refusals
<1> QED BY <1>6, <1>7

\* The same for a step that reads no line: an answer, the timer, a stop, an exit,
\* a rejection.
LEMMA DecidedKeeps ==
    ASSUME IInv, NEW S \in SUBSET pending, NEW approved \in BOOLEAN,
           NEW words, DOMAIN words \in SUBSET Requests, DOMAIN words \cap pending = S,
           Update(words), Resolve(S, approved),
           Fit(words, approved),
           said' \in [Requests -> {"nothing", "approve", "deny"}],
           process' \in [Threads -> {"up", "stopping", "down"}],
           leaving' \in SUBSET Threads,
           \A r \in Requests : /\ r \notin S => said'[r] = said[r]
                               /\ r \in S /\ approved => said'[r] = "approve",
           cli' = cli \/ \E th \in Threads : cli' = Ends(th),
           UNCHANGED <<pipe, chunk>>
    PROVE  IInv'
<1>1. TypeOK /\ S \in SUBSET Requests
  BY DEF IInv, TypeOK
<1>2. /\ cli' \in [Requests -> {"unasked", "waiting", "allowed", "denied", "withdrew", "gone"}]
      /\ \A r \in Requests : cli'[r] = cli[r] \/ (cli[r] = "waiting" /\ cli'[r] = "gone")
  BY <1>1 DEF TypeOK, Ends
<1>3. /\ pending' \in SUBSET Requests
      /\ host' \in [Requests -> [stage : Stages, aborted : BOOLEAN, approved : BOOLEAN]]
      /\ \A r \in Requests :
            /\ r \in pending' <=> r \in pending /\ r \notin S
            /\ r \notin S => host'[r] = host[r]
            /\ r \in S => /\ host'[r].stage = "resolved" /\ host'[r].approved = approved
                          /\ host'[r].aborted = host[r].aborted
  BY <1>1, ResolveShape
<1>4. \A r \in DOMAIN words : words[r] \in RowStates
  BY DEF Fit, RowStates, Refusals
<1>5. TypeOK'
  BY <1>1, <1>2, <1>3, <1>4, UpdateShape DEF TypeOK
<1>6. \A r \in Requests : RequestGood(r)'
  <2>1. Settles(words, approved)
    BY <1>2, <1>3 DEF Settles
  <2> QED BY <2>1, DecidedStaysGood
<1>7. \A th \in Threads : PipeGood(th)'
  <2>1. \A r \in Requests : /\ host[r].stage = "none" => host'[r].stage = "none"
                            /\ ~host[r].aborted => ~host'[r].aborted
    BY <1>3 DEF IInv, RequestGood
  <2>2. \A th \in Threads : \A i \in DOMAIN pipe[th] : pipe[th][i].of \in Requests
    <3> TAKE th \in Threads
    <3>1. pipe[th] \in Seq(Lines)
      BY <1>1 DEF TypeOK
    <3>2. \A i \in DOMAIN pipe[th] : pipe[th][i] \in Lines
      BY <3>1
    <3> QED BY <3>2 DEF Lines
  <2>3. \A r \in Requests : /\ cli[r] # "unasked" => cli'[r] # "unasked"
                            /\ cli[r] = "withdrew" => cli'[r] = "withdrew"
    BY <1>2
  <2>4. \A th \in Threads : pipe'[th] \in {pipe[th], <<>>}
    OBVIOUS
  <2> QED BY <2>1, <2>2, <2>3, <2>4, PipesStay
<1> QED BY <1>5, <1>6, <1>7 DEF IInv

LEMMA AnswerKeeps ==
    ASSUME IInv, NEW r \in Requests, NEW approved \in BOOLEAN, AnswerCard(r, approved)
    PROVE  IInv'
<1> DEFINE words == Each({r}, IF approved THEN "approved" ELSE "denied")
           S == {r} \cap pending
<1>1. /\ Update(words) /\ Resolve(S, approved) /\ cli' = cli
      /\ UNCHANGED <<process, leaving, pipe, chunk>>
  BY DEF AnswerCard
<1>2. /\ DOMAIN words = {r} /\ words[r] = IF approved THEN "approved" ELSE "denied"
  BY EachShape
<1>3. /\ S \in SUBSET pending /\ DOMAIN words \in SUBSET Requests /\ DOMAIN words \cap pending = S
      /\ Fit(words, approved)
  BY <1>2 DEF Fit, Refusals
<1>4. /\ said' \in [Requests -> {"nothing", "approve", "deny"}]
      /\ process' \in [Threads -> {"up", "stopping", "down"}]
      /\ leaving' \in SUBSET Threads
      /\ \A q \in Requests : /\ q \notin S => said'[q] = said[q]
                             /\ q \in S /\ approved => said'[q] = "approve"
  BY <1>1 DEF AnswerCard, IInv, TypeOK
<1> HIDE DEF words, S
<1> QED BY <1>1, <1>3, <1>4, DecidedKeeps

LEMMA RefusalKeeps ==
    ASSUME IInv, NEW S \in SUBSET pending,
           NEW words, DOMAIN words \in SUBSET Requests, DOMAIN words \cap pending = S,
           \A r \in DOMAIN words : words[r] \in Refusals,
           Update(words), Resolve(S, FALSE),
           said' \in [Requests -> {"nothing", "approve", "deny"}],
           process' \in [Threads -> {"up", "stopping", "down"}],
           leaving' \in SUBSET Threads,
           \A r \in Requests : r \notin S => said'[r] = said[r],
           cli' = cli \/ \E th \in Threads : cli' = Ends(th),
           UNCHANGED <<pipe, chunk>>
    PROVE  IInv'
<1> DEFINE approved == FALSE
<1>1. approved \in BOOLEAN /\ ~approved /\ Resolve(S, approved)
  OBVIOUS
<1> HIDE DEF approved
<1>2. Fit(words, approved)
  BY <1>1 DEF Fit
<1>3. \A r \in Requests : /\ r \notin S => said'[r] = said[r]
                          /\ r \in S /\ approved => said'[r] = "approve"
  BY <1>1
<1> QED BY <1>1, <1>2, <1>3, DecidedKeeps

\* Everything a thread waits for is cancelled.
LEMMA CancelForKeeps ==
    ASSUME IInv, NEW th \in Threads, CancelFor(th),
           process' \in [Threads -> {"up", "stopping", "down"}],
           leaving' \in SUBSET Threads,
           cli' = cli \/ cli' = Ends(th),
           UNCHANGED <<pipe, chunk, said>>
    PROVE  IInv'
<1> DEFINE S == Raised(th)
           words == Each(S, "cancelled")
<1>1. Update(words) /\ Resolve(S, FALSE)
  BY DEF CancelFor
<1>2. DOMAIN words = S /\ \A r \in S : words[r] = "cancelled"
  BY EachShape
<1>3. /\ S \in SUBSET pending /\ DOMAIN words \in SUBSET Requests /\ DOMAIN words \cap pending = S
      /\ \A r \in DOMAIN words : words[r] \in Refusals
  BY <1>2 DEF Raised, Refusals, IInv, TypeOK
<1>4. said' \in [Requests -> {"nothing", "approve", "deny"}] /\ said' = said
  BY DEF IInv, TypeOK
<1> HIDE DEF S, words
<1> QED BY <1>1, <1>3, <1>4, RefusalKeeps

\* A team rejects the turn of a thread.
LEMMA RejectKeeps ==
    ASSUME IInv, NEW th \in Threads, NEW told \in SUBSET Requests, RejectTurn(th, told)
    PROVE  IInv'
<1> DEFINE S == Raised(th)
           words == [r \in told \cup S |-> IF r \in told THEN "denied" ELSE "cancelled"]
<1>1. /\ Update(words) /\ Resolve(S, FALSE) /\ cli' = cli
      /\ said' = [r \in Requests |-> IF r \in told \cap pending THEN "deny" ELSE said[r]]
      /\ UNCHANGED <<process, leaving, pipe, chunk>>
  BY DEF RejectTurn
<1>2. S \in SUBSET pending /\ told \cap pending \in SUBSET S /\ S \in SUBSET Requests
  BY DEF Raised, RejectTurn, IInv, TypeOK
<1>3. /\ DOMAIN words \in SUBSET Requests /\ DOMAIN words \cap pending = S
      /\ \A r \in DOMAIN words : words[r] \in Refusals
  BY <1>2 DEF Refusals
<1>4. /\ said' \in [Requests -> {"nothing", "approve", "deny"}]
      /\ process' \in [Threads -> {"up", "stopping", "down"}]
      /\ leaving' \in SUBSET Threads
      /\ \A r \in Requests : r \notin S => said'[r] = said[r]
  BY <1>1, <1>2 DEF IInv, TypeOK
<1> HIDE DEF S, words
<1> QED BY <1>1, <1>2, <1>3, <1>4, RefusalKeeps

----------------------------------------------------------------------------
(* The lines the adapter reads.                                            *)

\* A line is its kind and its request.
LEMMA OneLine ==
    ASSUME NEW x \in Lines, NEW y \in Lines, x.kind = y.kind, x.of = y.of
    PROVE  x = y
BY DEF Lines

\* What the head of a pipe is, and that it is there once.
LEMMA HeadOfPipe ==
    ASSUME IInv, NEW th \in Threads, pipe[th] # <<>>
    PROVE  /\ Head(pipe[th]) \in Lines
           /\ Head(pipe[th]).of \in Requests
           /\ cli[Head(pipe[th]).of] # "unasked"
           /\ Head(pipe[th]).kind = "can_use_tool" => host[Head(pipe[th]).of].stage = "none"
           /\ Head(pipe[th]).kind = "cancel" => /\ cli[Head(pipe[th]).of] = "withdrew"
                                               /\ ~host[Head(pipe[th]).of].aborted
           /\ \A i \in DOMAIN Tail(pipe[th]) : Tail(pipe[th])[i] # Head(pipe[th])
           /\ Tail(pipe[th]) \in Seq(Lines)
<1>1. pipe[th] \in Seq(Lines)
  BY DEF IInv, TypeOK
<1>2. /\ 1 \in DOMAIN pipe[th] /\ Head(pipe[th]) = pipe[th][1] /\ pipe[th][1] \in Lines
      /\ Tail(pipe[th]) \in Seq(Lines)
      /\ \A i \in DOMAIN Tail(pipe[th]) :
            /\ i + 1 \in DOMAIN pipe[th] /\ i + 1 # 1
            /\ Tail(pipe[th])[i] = pipe[th][i + 1]
  BY <1>1
<1>3. PipeGood(th)
  BY DEF IInv
<1>4. LET line == pipe[th][1] IN
      /\ cli[line.of] # "unasked"
      /\ line.kind = "can_use_tool" => host[line.of].stage = "none"
      /\ line.kind = "cancel" => cli[line.of] = "withdrew" /\ ~host[line.of].aborted
      /\ \A j \in DOMAIN pipe[th] : pipe[th][j] = line => j = 1
  BY <1>2, <1>3 DEF PipeGood
<1>5. Head(pipe[th]).of \in Requests
  BY <1>2 DEF Lines
<1> QED BY <1>2, <1>4, <1>5

LEMMA LinesOfPipes ==
    ASSUME IInv, NEW th \in Threads
    PROVE  \A i \in DOMAIN pipe[th] : /\ pipe[th][i] \in Lines
                                      /\ pipe[th][i].of \in Requests
                                      /\ Home[pipe[th][i].of] = th
<1>1. pipe[th] \in Seq(Lines)
  BY DEF IInv, TypeOK
<1>2. \A i \in DOMAIN pipe[th] : pipe[th][i] \in Lines
  BY <1>1
<1> QED BY <1>2 DEF Lines, IInv, PipeGood

LEMMA AskKeeps ==
    ASSUME IInv, NEW th \in Threads, ReadControlRequest(th)
    PROVE  IInv'
<1> DEFINE r == Head(pipe[th]).of
<1>1. /\ pipe[th] # <<>> /\ Head(pipe[th]).kind = "can_use_tool"
      /\ pipe' = [pipe EXCEPT ![th] = Tail(@)] /\ chunk' = th
      /\ host' = [host EXCEPT ![r].stage = "starting"]
      /\ UNCHANGED <<cli, process, leaving, pending, row, missed, said, core>>
  BY DEF ReadControlRequest, Reads
<1>2. /\ Head(pipe[th]) \in Lines /\ r \in Requests /\ cli[r] # "unasked"
      /\ host[r].stage = "none" /\ Tail(pipe[th]) \in Seq(Lines)
      /\ \A i \in DOMAIN Tail(pipe[th]) : Tail(pipe[th])[i] # Head(pipe[th])
  BY <1>1, HeadOfPipe
<1> HIDE DEF r
<1>3. TypeOK'
  <2>1. /\ host \in [Requests -> [stage : Stages, aborted : BOOLEAN, approved : BOOLEAN]]
        /\ pipe \in [Threads -> Seq(Lines)]
    BY DEF IInv, TypeOK
  <2>2. host' \in [Requests -> [stage : Stages, aborted : BOOLEAN, approved : BOOLEAN]]
    BY <1>1, <1>2, <2>1 DEF Stages
  <2>3. pipe' \in [Threads -> Seq(Lines)]
    BY <1>1, <1>2, <2>1
  <2> QED BY <1>1, <2>2, <2>3 DEF IInv, TypeOK
<1>4. /\ \A q \in Requests : q # r => host'[q] = host[q]
      /\ host'[r].stage = "starting" /\ host'[r].aborted = host[r].aborted
      /\ host'[r].approved = host[r].approved
  BY <1>1, <1>2 DEF IInv, TypeOK
<1>5. ASSUME NEW q \in Requests PROVE RequestGood(q)'
  <2>1. RequestGood(q) /\ RequestGood(r)
    BY <1>2 DEF IInv
  <2>2. CASE q # r
    BY <1>1, <1>4, <2>1, <2>2 DEF RequestGood
  <2>3. CASE q = r
    BY <1>1, <1>2, <1>4, <2>1, <2>3 DEF RequestGood
  <2> QED BY <2>2, <2>3
<1>6. \A t \in Threads : \/ pipe'[t] \in {pipe[t], <<>>}
                         \/ pipe[t] # <<>> /\ pipe'[t] = Tail(pipe[t])
  BY <1>1 DEF IInv, TypeOK
<1>7. ASSUME NEW t \in Threads, NEW i \in DOMAIN pipe'[t],
             pipe'[t][i].kind = "can_use_tool"
      PROVE  pipe'[t][i].of \in Requests /\ pipe'[t][i].of # r
  <2>1. CASE t = th
    <3>1. pipe'[t] = Tail(pipe[th])
      BY <1>1, <2>1 DEF IInv, TypeOK
    <3>2. pipe'[t][i] \in Lines /\ pipe'[t][i] # Head(pipe[th])
      BY <1>2, <3>1
    <3>3. pipe'[t][i].of \in Requests
      BY <1>7, <3>2 DEF Lines
    <3> QED BY <1>1, <1>2, <1>7, <3>2, <3>3 DEF Lines, r
  <2>2. CASE t # th
    <3>1. pipe'[t] = pipe[t]
      BY <1>1, <2>2 DEF IInv, TypeOK
    <3>2. pipe'[t][i].of \in Requests /\ Home[pipe'[t][i].of] = t
      BY <3>1, LinesOfPipes
    <3>3. Home[r] = th
      <4>1. 1 \in DOMAIN pipe[th] /\ Head(pipe[th]) = pipe[th][1]
        BY <1>1 DEF IInv, TypeOK
      <4> QED BY <4>1, LinesOfPipes DEF r
    <3> QED BY <2>2, <3>2, <3>3
  <2> QED BY <2>1, <2>2
<1>8. ASSUME NEW t \in Threads, NEW i \in DOMAIN pipe'[t] PROVE pipe'[t][i].of \in Requests
  <2>1. pipe'[t] \in Seq(Lines)
    BY <1>3 DEF TypeOK
  <2>2. pipe'[t][i] \in Lines
    BY <2>1
  <2> QED BY <2>2 DEF Lines
<1>9. \A t \in Threads : PipeGood(t)'
  <2>1. \A t \in Threads : \A i \in DOMAIN pipe'[t] :
           LET line == pipe'[t][i] IN
           /\ line.kind = "can_use_tool" /\ host[line.of].stage = "none"
                 => host'[line.of].stage = "none"
           /\ line.kind = "cancel" /\ ~host[line.of].aborted => ~host'[line.of].aborted
    BY <1>4, <1>7, <1>8
  <2>2. \A q \in Requests : /\ cli[q] # "unasked" => cli'[q] # "unasked"
                            /\ cli[q] = "withdrew" => cli'[q] = "withdrew"
    BY <1>1
  <2> QED BY <1>6, <2>1, <2>2, PipesStay
<1> QED BY <1>3, <1>5, <1>9 DEF IInv

LEMMA CancelKeeps ==
    ASSUME IInv, NEW th \in Threads, ReadControlCancel(th)
    PROVE  IInv'
<1>0. PICK r \in Requests : r = Head(pipe[th]).of
  BY HeadOfPipe DEF ReadControlCancel, Reads
<1>1. /\ pipe[th] # <<>> /\ Head(pipe[th]).kind = "cancel"
      /\ pipe' = [pipe EXCEPT ![th] = Tail(@)] /\ chunk' = th
      /\ UNCHANGED <<cli, process, leaving, said>>
      /\ \/ /\ host[r].stage = "asking"
            /\ pending' = pending \ {r}
            /\ host' = [host EXCEPT ![r] = [stage |-> "resolved", aborted |-> TRUE, approved |-> FALSE]]
            /\ Update(Each({r}, "cancelled"))
         \/ /\ host[r].stage # "asking"
            /\ host' = [host EXCEPT ![r].aborted = TRUE] \/ host' = host
            /\ UNCHANGED <<pending, row, missed, core>>
  BY <1>0 DEF ReadControlCancel, Reads
<1>2. /\ Head(pipe[th]) \in Lines /\ r \in Requests /\ cli[r] = "withdrew"
      /\ Tail(pipe[th]) \in Seq(Lines)
      /\ \A i \in DOMAIN Tail(pipe[th]) : Tail(pipe[th])[i] # Head(pipe[th])
  BY <1>0, <1>1, HeadOfPipe
<1>3. pipe' \in [Threads -> Seq(Lines)] /\ chunk' \in Threads \cup {NoThread}
  BY <1>1, <1>2 DEF IInv, TypeOK
<1>4. host \in [Requests -> [stage : Stages, aborted : BOOLEAN, approved : BOOLEAN]]
  BY DEF IInv, TypeOK
<1>5. /\ TypeOK'
      /\ \A q \in Requests : RequestGood(q)'
      /\ \A q \in Requests : host[q].stage = "none" => host'[q].stage = "none"
      /\ \A q \in Requests : q # r => host'[q] = host[q]
  <2>1. CASE /\ host[r].stage = "asking"
             /\ pending' = pending \ {r}
             /\ host' = [host EXCEPT ![r] = [stage |-> "resolved", aborted |-> TRUE, approved |-> FALSE]]
             /\ Update(Each({r}, "cancelled"))
    <3> DEFINE S == {r}
               approved == FALSE
               words == Each({r}, "cancelled")
    <3>1. S \in SUBSET pending /\ S \in SUBSET Requests /\ S \cap pending = S
      BY <1>2, <2>1 DEF IInv, RequestGood
    <3>2. /\ DOMAIN words \in SUBSET Requests /\ DOMAIN words \cap pending = S
          /\ approved \in BOOLEAN /\ ~approved
          /\ Fit(words, approved) /\ \A q \in DOMAIN words : words[q] \in RowStates
      BY <1>2, <3>1, EachShape DEF Fit, RowStates, Refusals
    <3>3. \A q \in Requests :
             /\ q \in pending' <=> q \in pending /\ q \notin S
             /\ q \notin S => host'[q] = host[q] /\ said'[q] = said[q]
             /\ q \in S => /\ host'[q].stage = "resolved" /\ host'[q].approved = approved
                           /\ cli[q] = "withdrew"
             /\ cli'[q] = cli[q]
      BY <1>1, <1>2, <1>4, <2>1
    <3>4. host' \in [Requests -> [stage : Stages, aborted : BOOLEAN, approved : BOOLEAN]]
      BY <1>2, <1>4, <2>1 DEF Stages
    <3>5. Update(words)
      BY <2>1
    <3>6. TypeOK /\ pending' \in SUBSET Requests
      BY <2>1 DEF IInv, TypeOK
    <3> HIDE DEF S, approved, words
    <3>7. TypeOK'
      BY <1>1, <1>3, <3>1, <3>2, <3>4, <3>5, <3>6, UpdateShape DEF TypeOK
    <3>8. \A q \in Requests : RequestGood(q)'
      <4>1. Settles(words, approved)
        BY <3>2, <3>3 DEF Settles
      <4> QED BY <3>2, <3>5, <4>1, DecidedStaysGood
    <3>9. \A q \in Requests : q # r => host'[q] = host[q]
      BY <1>2, <1>4, <2>1
    <3> QED BY <1>2, <2>1, <3>7, <3>8, <3>9
  <2>2. CASE /\ host[r].stage # "asking"
             /\ host' = [host EXCEPT ![r].aborted = TRUE] \/ host' = host
             /\ UNCHANGED <<pending, row, missed, core>>
    <3>1. host' \in [Requests -> [stage : Stages, aborted : BOOLEAN, approved : BOOLEAN]]
      BY <1>2, <1>4, <2>2
    <3>2. \A q \in Requests : host'[q].stage = host[q].stage /\ host'[q].approved = host[q].approved
      BY <1>2, <1>4, <2>2
    <3>3. \A q \in Requests : q # r => host'[q] = host[q]
      BY <1>2, <1>4, <2>2
    <3>4. TypeOK'
      BY <1>1, <1>3, <2>2, <3>1 DEF IInv, TypeOK
    <3>5. ASSUME NEW q \in Requests PROVE RequestGood(q)'
      <4>1. RequestGood(q)
        BY DEF IInv
      <4>2. /\ host'[q].stage = host[q].stage /\ host'[q].approved = host[q].approved
            /\ q # r => host'[q] = host[q]
        BY <3>2, <3>3
      <4> QED BY <1>1, <1>2, <2>2, <4>1, <4>2 DEF RequestGood
    <3>6. \A q \in Requests : host[q].stage = "none" => host'[q].stage = "none"
      BY <3>2
    <3> QED BY <3>3, <3>4, <3>5, <3>6
  <2> QED BY <1>1, <2>1, <2>2
<1>6. \A t \in Threads : \/ pipe'[t] \in {pipe[t], <<>>}
                         \/ pipe[t] # <<>> /\ pipe'[t] = Tail(pipe[t])
  BY <1>1 DEF IInv, TypeOK
<1>7. ASSUME NEW t \in Threads, NEW i \in DOMAIN pipe'[t] PROVE pipe'[t][i].of \in Requests
  <2>1. pipe'[t] \in Seq(Lines)
    BY <1>3
  <2>2. pipe'[t][i] \in Lines
    BY <2>1
  <2> QED BY <2>2 DEF Lines
<1>8. ASSUME NEW t \in Threads, NEW i \in DOMAIN pipe'[t], pipe'[t][i].kind = "cancel"
      PROVE  pipe'[t][i].of # r
  <2>1. CASE t = th
    <3>1. pipe'[t] = Tail(pipe[t])
      BY <1>1, <2>1 DEF IInv, TypeOK
    <3>2. pipe'[t][i] \in Lines /\ pipe'[t][i] # Head(pipe[th])
      BY <1>2, <2>1, <3>1
    <3> QED BY <1>0, <1>1, <1>2, <1>8, <3>2, OneLine
  <2>2. CASE t # th
    <3>1. pipe'[t] = pipe[t]
      BY <1>1, <2>2 DEF IInv, TypeOK
    <3>2. Home[pipe'[t][i].of] = t
      BY <3>1, LinesOfPipes
    <3>3. Home[r] = th
      <4>1. 1 \in DOMAIN pipe[th] /\ Head(pipe[th]) = pipe[th][1]
        BY <1>1 DEF IInv, TypeOK
      <4> QED BY <1>0, <4>1, LinesOfPipes
    <3> QED BY <2>2, <3>2, <3>3
  <2> QED BY <2>1, <2>2
<1>9. \A t \in Threads : PipeGood(t)'
  <2>1. \A t \in Threads : \A i \in DOMAIN pipe'[t] :
           LET line == pipe'[t][i] IN
           /\ line.kind = "can_use_tool" /\ host[line.of].stage = "none"
                 => host'[line.of].stage = "none"
           /\ line.kind = "cancel" /\ ~host[line.of].aborted => ~host'[line.of].aborted
    <3> TAKE t \in Threads
    <3> TAKE i \in DOMAIN pipe'[t]
    <3> DEFINE o == pipe'[t][i].of
    <3>1. o \in Requests /\ (pipe'[t][i].kind = "cancel" => o # r)
      BY <1>7, <1>8
    <3> HIDE DEF o
    <3>2. /\ host[o].stage = "none" => host'[o].stage = "none"
          /\ pipe'[t][i].kind = "cancel" => host'[o] = host[o]
      BY <1>5, <3>1
    <3> QED BY <3>2 DEF o
  <2>2. \A q \in Requests : /\ cli[q] # "unasked" => cli'[q] # "unasked"
                            /\ cli[q] = "withdrew" => cli'[q] = "withdrew"
    BY <1>1
  <2> QED BY <1>6, <2>1, <2>2, PipesStay
<1> QED BY <1>5, <1>9 DEF IInv

----------------------------------------------------------------------------
(* The other steps.                                                        *)

LEMMA WriteKeeps ==
    ASSUME IInv, NEW r \in Requests, CliAsks(r) \/ CliWithdraws(r)
    PROVE  IInv'
<1>1. PICK k \in {"can_use_tool", "cancel"} :
         /\ k = "can_use_tool" => cli[r] = "unasked" /\ cli' = [cli EXCEPT ![r] = "waiting"]
         /\ k = "cancel" => cli[r] = "waiting" /\ cli' = [cli EXCEPT ![r] = "withdrew"]
         /\ pipe' = [pipe EXCEPT ![Home[r]] = Append(@, [kind |-> k, of |-> r])]
         /\ UNCHANGED <<process, leaving, chunk, host, pending, row, missed, said, core>>
  BY DEF CliAsks, CliWithdraws
<1>2. cli \in [Requests -> {"unasked", "waiting", "allowed", "denied", "withdrew", "gone"}]
  BY DEF IInv, TypeOK
<1>3. /\ cli' \in [Requests -> {"unasked", "waiting", "allowed", "denied", "withdrew", "gone"}]
      /\ cli'[r] \in {"waiting", "withdrew"}
      /\ \A q \in Requests : q # r => cli'[q] = cli[q]
  BY <1>1, <1>2
<1>4. pipe' \in [Threads -> Seq(Lines)] /\ \A th \in Threads : PipeGood(th)'
  BY <1>1, <1>3, PipeGrows
<1>5. TypeOK'
  BY <1>1, <1>3, <1>4 DEF IInv, TypeOK
<1>6. ASSUME NEW q \in Requests PROVE RequestGood(q)'
  BY <1>1, <1>3 DEF IInv, RequestGood
<1> QED BY <1>4, <1>5, <1>6 DEF IInv

LEMMA RaiseKeeps ==
    ASSUME IInv, NEW r \in Requests, RequestApproval(r)
    PROVE  IInv'
<1>1. /\ host[r].stage = "starting"
      /\ host' = [host EXCEPT ![r].stage = "asking"]
      /\ pending' = pending \cup {r}
      /\ UNCHANGED <<cli, process, leaving, pipe, chunk, said>>
      /\ \/ row' = [row EXCEPT ![r] = "pending"] /\ UNCHANGED <<missed, core>>
         \/ /\ core.faults < MaxFaults
            /\ core' = [core EXCEPT !.faults = @ + 1]
            /\ missed' = missed \cup {r} /\ row' = row
  BY DEF RequestApproval
<1>2. /\ host' \in [Requests -> [stage : Stages, aborted : BOOLEAN, approved : BOOLEAN]]
      /\ host'[r].stage = "asking" /\ host'[r].aborted = host[r].aborted
      /\ \A q \in Requests : q # r => host'[q] = host[q]
  BY <1>1 DEF IInv, TypeOK, Stages
<1>3. core' \in [up : BOOLEAN, faults : 0..MaxFaults, crashes : 0..MaxCrashes]
  <2>1. core \in [up : BOOLEAN, faults : 0..MaxFaults, crashes : 0..MaxCrashes]
    BY DEF IInv, TypeOK
  <2>2. CASE core.faults < MaxFaults /\ core' = [core EXCEPT !.faults = @ + 1]
    <3>1. core.faults + 1 \in 0..MaxFaults
      BY <2>1, <2>2, ApprovalAssumption
    <3> QED BY <2>1, <2>2, <3>1
  <2>3. CASE core' = core
    BY <2>1, <2>3
  <2> QED BY <1>1, <2>2, <2>3
<1>4. /\ row' \in [Requests -> RowStates] /\ missed' \in SUBSET Requests
      /\ \A q \in Requests : q # r => row'[q] = row[q] /\ (q \in missed' <=> q \in missed)
      /\ r \notin missed' => row'[r] = "pending"
  <2>1. row \in [Requests -> RowStates] /\ missed \in SUBSET Requests /\ "pending" \in RowStates
    BY DEF IInv, TypeOK, RowStates
  <2>2. CASE row' = [row EXCEPT ![r] = "pending"] /\ missed' = missed
    BY <2>1, <2>2
  <2>3. CASE missed' = missed \cup {r} /\ row' = row
    BY <2>1, <2>3
  <2> QED BY <1>1, <2>2, <2>3
<1>5. TypeOK'
  BY <1>1, <1>2, <1>3, <1>4 DEF IInv, TypeOK
<1>6. ASSUME NEW q \in Requests PROVE RequestGood(q)'
  <2>1. RequestGood(q)
    BY DEF IInv
  <2>2. CASE q # r
    BY <1>1, <1>2, <1>4, <2>1, <2>2 DEF RequestGood
  <2>3. CASE q = r
    BY <1>1, <1>2, <1>4, <2>1, <2>3 DEF RequestGood
  <2> QED BY <2>2, <2>3
<1>7. ASSUME NEW th \in Threads PROVE PipeGood(th)'
  <2>1. \A i \in DOMAIN pipe[th] :
           /\ host[pipe[th][i].of].stage = "none" => host'[pipe[th][i].of].stage = "none"
           /\ host'[pipe[th][i].of].aborted = host[pipe[th][i].of].aborted
    BY <1>1, <1>2, LinesOfPipes
  <2> QED BY <1>1, <2>1 DEF IInv, PipeGood
<1> QED BY <1>5, <1>6, <1>7 DEF IInv

\* A request that fails before it is raised is among the missed from then on.
LEMMA FailKeeps ==
    ASSUME IInv, NEW r \in Requests, RequestFails(r)
    PROVE  IInv'
<1>1. /\ host[r].stage = "starting"
      /\ host' = [host EXCEPT ![r].stage = "resolved"]
      /\ missed' = missed \cup {r}
      /\ core.faults < MaxFaults /\ core' = [core EXCEPT !.faults = @ + 1]
      /\ UNCHANGED <<cli, process, leaving, pipe, chunk, pending, row, said>>
  BY DEF RequestFails
<1>2. /\ host' \in [Requests -> [stage : Stages, aborted : BOOLEAN, approved : BOOLEAN]]
      /\ host'[r].stage = "resolved" /\ host'[r].approved = host[r].approved
      /\ host'[r].aborted = host[r].aborted
      /\ \A q \in Requests : q # r => host'[q] = host[q]
  BY <1>1 DEF IInv, TypeOK, Stages
<1>3. core' \in [up : BOOLEAN, faults : 0..MaxFaults, crashes : 0..MaxCrashes]
  <2>1. core \in [up : BOOLEAN, faults : 0..MaxFaults, crashes : 0..MaxCrashes]
    BY DEF IInv, TypeOK
  <2>2. core.faults + 1 \in 0..MaxFaults
    BY <1>1, <2>1, ApprovalAssumption
  <2> QED BY <1>1, <2>1, <2>2
<1>4. TypeOK'
  BY <1>1, <1>2, <1>3 DEF IInv, TypeOK
<1>5. ASSUME NEW q \in Requests PROVE RequestGood(q)'
  <2>1. RequestGood(q)
    BY DEF IInv
  <2>2. CASE q # r
    BY <1>1, <1>2, <2>1, <2>2 DEF RequestGood
  <2>3. CASE q = r
    BY <1>1, <1>2, <2>1, <2>3 DEF RequestGood
  <2> QED BY <2>2, <2>3
<1>6. ASSUME NEW th \in Threads PROVE PipeGood(th)'
  <2>1. \A i \in DOMAIN pipe[th] :
           /\ host[pipe[th][i].of].stage = "none" => host'[pipe[th][i].of].stage = "none"
           /\ host'[pipe[th][i].of].aborted = host[pipe[th][i].of].aborted
    BY <1>1, <1>2, LinesOfPipes
  <2> QED BY <1>1, <2>1 DEF IInv, PipeGood
<1> QED BY <1>4, <1>5, <1>6 DEF IInv

LEMMA RespondKeeps ==
    ASSUME IInv, NEW r \in Requests, Respond(r)
    PROVE  IInv'
<1>1. /\ host[r].stage = "resolved"
      /\ host' = [host EXCEPT ![r].stage = "finished"]
      /\ cli' = [cli EXCEPT ![r] = IF @ = "waiting" /\ ~host[r].aborted THEN Verdict(r) ELSE @]
      /\ UNCHANGED <<process, leaving, pipe, chunk, pending, row, missed, said, core>>
  BY DEF Respond
<1>2. /\ host' \in [Requests -> [stage : Stages, aborted : BOOLEAN, approved : BOOLEAN]]
      /\ host'[r].stage = "finished" /\ host'[r].approved = host[r].approved
      /\ host'[r].aborted = host[r].aborted
      /\ \A q \in Requests : q # r => host'[q] = host[q]
  BY <1>1 DEF IInv, TypeOK, Stages
<1>3. /\ cli' \in [Requests -> {"unasked", "waiting", "allowed", "denied", "withdrew", "gone"}]
      /\ \A q \in Requests : q # r => cli'[q] = cli[q]
      /\ cli'[r] = cli[r] \/ /\ cli[r] = "waiting"
                             /\ cli'[r] = IF host[r].approved THEN "allowed" ELSE "denied"
  BY <1>1 DEF IInv, TypeOK, Verdict
<1>4. TypeOK'
  BY <1>1, <1>2, <1>3 DEF IInv, TypeOK
<1>5. ASSUME NEW q \in Requests PROVE RequestGood(q)'
  <2>1. RequestGood(q)
    BY DEF IInv
  <2>2. CASE q # r
    BY <1>1, <1>2, <1>3, <2>1, <2>2 DEF RequestGood
  <2>3. CASE q = r
    BY <1>1, <1>2, <1>3, <2>1, <2>3 DEF RequestGood
  <2> QED BY <2>2, <2>3
<1>6. ASSUME NEW th \in Threads PROVE PipeGood(th)'
  <2>1. \A i \in DOMAIN pipe[th] :
           /\ host[pipe[th][i].of].stage = "none" => host'[pipe[th][i].of].stage = "none"
           /\ host'[pipe[th][i].of].aborted = host[pipe[th][i].of].aborted
           /\ cli[pipe[th][i].of] # "unasked" => cli'[pipe[th][i].of] # "unasked"
           /\ cli[pipe[th][i].of] = "withdrew" => cli'[pipe[th][i].of] = "withdrew"
    BY <1>1, <1>2, <1>3, LinesOfPipes
  <2> QED BY <1>1, <2>1 DEF IInv, PipeGood
<1> QED BY <1>4, <1>5, <1>6 DEF IInv

\* A step that touches no promise, row or answer, and of a waiting CLI only its end.
LEMMA EndsKeep ==
    ASSUME IInv,
           cli' \in [Requests -> {"unasked", "waiting", "allowed", "denied", "withdrew", "gone"}],
           \A r \in Requests : cli'[r] = cli[r] \/ (cli[r] = "waiting" /\ cli'[r] = "gone"),
           process' \in [Threads -> {"up", "stopping", "down"}],
           leaving' \in SUBSET Threads,
           pipe' \in [Threads -> Seq(Lines)],
           \A th \in Threads : pipe'[th] \in {pipe[th], <<>>},
           chunk' \in Threads \cup {NoThread},
           core' \in [up : BOOLEAN, faults : 0..MaxFaults, crashes : 0..MaxCrashes],
           UNCHANGED <<host, pending, row, missed, said>>
    PROVE  IInv'
<1>1. TypeOK'
  BY DEF IInv, TypeOK
<1>2. ASSUME NEW r \in Requests PROVE RequestGood(r)'
  BY DEF IInv, RequestGood
<1>3. \A r \in Requests : /\ cli[r] # "unasked" => cli'[r] # "unasked"
                          /\ cli[r] = "withdrew" => cli'[r] = "withdrew"
  OBVIOUS
<1>4. \A th \in Threads : PipeGood(th)'
  BY <1>3, PipesStay
<1> QED BY <1>1, <1>2, <1>4 DEF IInv

LEMMA CoreCrashKeeps ==
    ASSUME IInv, CoreCrashes
    PROVE  IInv'
<1>1. /\ cli' = [r \in Requests |-> IF cli[r] = "waiting" THEN "gone" ELSE cli[r]]
      /\ pipe' = [th \in Threads |-> <<>>]
      /\ host' = [r \in Requests |->
                    IF host[r].stage \in {"starting", "asking", "resolved"}
                    THEN [host[r] EXCEPT !.stage = "lost"] ELSE host[r]]
      /\ pending' = {}
      /\ UNCHANGED <<row, missed, said>>
  BY DEF CoreCrashes
<1>2. host \in [Requests -> [stage : Stages, aborted : BOOLEAN, approved : BOOLEAN]]
  BY DEF IInv, TypeOK
<1>3. /\ host' \in [Requests -> [stage : Stages, aborted : BOOLEAN, approved : BOOLEAN]]
      /\ \A r \in Requests :
            /\ host'[r].stage = IF host[r].stage \in {"starting", "asking", "resolved"}
                               THEN "lost" ELSE host[r].stage
            /\ host'[r].aborted = host[r].aborted /\ host'[r].approved = host[r].approved
  BY <1>1, <1>2 DEF Stages
<1>4. /\ cli' \in [Requests -> {"unasked", "waiting", "allowed", "denied", "withdrew", "gone"}]
      /\ \A r \in Requests : cli'[r] = IF cli[r] = "waiting" THEN "gone" ELSE cli[r]
  BY <1>1 DEF IInv, TypeOK
<1>5. core' \in [up : BOOLEAN, faults : 0..MaxFaults, crashes : 0..MaxCrashes]
  <2>1. core \in [up : BOOLEAN, faults : 0..MaxFaults, crashes : 0..MaxCrashes]
    BY DEF IInv, TypeOK
  <2>2. core' = [core EXCEPT !.up = FALSE, !.crashes = @ + 1] /\ core.crashes < MaxCrashes
    BY DEF CoreCrashes
  <2>3. core.crashes + 1 \in 0..MaxCrashes
    BY <2>1, <2>2, ApprovalAssumption
  <2> QED BY <2>1, <2>2, <2>3
<1>6. pipe' \in [Threads -> Seq(Lines)]
  BY <1>1
<1>7. TypeOK'
  BY <1>1, <1>3, <1>4, <1>5, <1>6 DEF IInv, TypeOK, CoreCrashes
<1>8. ASSUME NEW r \in Requests PROVE RequestGood(r)'
  <2>1. RequestGood(r)
    BY DEF IInv
  <2>2. /\ cli'[r] = IF cli[r] = "waiting" THEN "gone" ELSE cli[r]
        /\ host'[r].stage = IF host[r].stage \in {"starting", "asking", "resolved"}
                            THEN "lost" ELSE host[r].stage
        /\ host'[r].aborted = host[r].aborted /\ host'[r].approved = host[r].approved
        /\ r \notin pending'
        /\ row' = row /\ missed' = missed /\ said' = said
    BY <1>1, <1>3, <1>4
  <2> QED BY <2>1, <2>2 DEF RequestGood
<1>9. \A th \in Threads : PipeGood(th)'
  BY <1>1 DEF PipeGood
<1> QED BY <1>7, <1>8, <1>9 DEF IInv

----------------------------------------------------------------------------
(* The theorems.                                                           *)

LEMMA InitGood == Init => IInv
<1> SUFFICES ASSUME Init PROVE IInv
  OBVIOUS
<1>1. TypeOK
  BY ApprovalAssumption DEF Init, TypeOK, Stages, RowStates
<1>2. \A r \in Requests : RequestGood(r)
  BY DEF Init, RequestGood
<1>3. \A th \in Threads : PipeGood(th)
  BY DEF Init, PipeGood
<1> QED BY <1>1, <1>2, <1>3 DEF IInv

LEMMA NextKeeps == IInv /\ [Next]_vars => IInv'
<1> SUFFICES ASSUME IInv, [Next]_vars PROVE IInv'
  OBVIOUS
<1>1. ASSUME NEW r \in Requests, CliAsks(r) \/ CliWithdraws(r) PROVE IInv'
  BY <1>1, WriteKeeps
<1>2. ASSUME NEW r \in Requests, Continue(r) PROVE IInv'
  BY <1>2, RaiseKeeps, FailKeeps, RespondKeeps DEF Continue
<1>3. ASSUME NEW r \in Requests, NEW approved \in BOOLEAN, AnswerCard(r, approved) PROVE IInv'
  BY <1>3, AnswerKeeps
<1>4. ASSUME NEW r \in Requests, Expire(r) PROVE IInv'
  <2> DEFINE words == Each({r}, "expired")
             S == {r}
  <2>1. /\ S \in SUBSET pending /\ Update(words) /\ Resolve(S, FALSE)
        /\ cli' = cli /\ UNCHANGED <<process, leaving, pipe, chunk, said>>
    BY <1>4 DEF Expire
  <2>2. /\ DOMAIN words \in SUBSET Requests /\ DOMAIN words \cap pending = S
        /\ \A q \in DOMAIN words : words[q] \in Refusals
    BY <2>1, EachShape DEF Refusals
  <2>3. /\ process' \in [Threads -> {"up", "stopping", "down"}] /\ leaving' \in SUBSET Threads
        /\ said' \in [Requests -> {"nothing", "approve", "deny"}] /\ said' = said
    BY <2>1 DEF IInv, TypeOK
  <2> HIDE DEF S, words
  <2> QED BY <2>1, <2>2, <2>3, RefusalKeeps
<1>5. ASSUME NEW th \in Threads, StopAgent(th) \/ ExitHandled(th) PROVE IInv'
  <2>1. /\ CancelFor(th) /\ cli' = cli /\ UNCHANGED <<pipe, chunk, said>>
        /\ process' = [process EXCEPT ![th] = IF @ = "up" THEN "stopping" ELSE @]
        /\ leaving' = leaving \/ leaving' = leaving \ {th}
    BY <1>5 DEF StopAgent, ExitHandled, Stop
  <2>2. process' \in [Threads -> {"up", "stopping", "down"}] /\ leaving' \in SUBSET Threads
    BY <2>1 DEF IInv, TypeOK
  <2> QED BY <2>1, <2>2, CancelForKeeps
<1>10. ASSUME NEW th \in Threads, ProcessExits(th) PROVE IInv'
  <2>1. /\ cli' = Ends(th) /\ UNCHANGED <<pipe, chunk, said>>
        /\ process' = [process EXCEPT ![th] = "down"]
        /\ \/ CancelFor(th) /\ leaving' = leaving
           \/ leaving' = leaving \cup {th} /\ UNCHANGED <<host, pending, row, missed, core>>
    BY <1>10 DEF ProcessExits
  <2>2. process' \in [Threads -> {"up", "stopping", "down"}] /\ leaving' \in SUBSET Threads
    BY <2>1 DEF IInv, TypeOK
  <2>3. CASE CancelFor(th)
    BY <2>1, <2>2, <2>3, CancelForKeeps
  <2>4. CASE UNCHANGED <<host, pending, row, missed, core>>
    <3>1. TypeOK
      BY DEF IInv
    <3>2. /\ cli' \in [Requests -> {"unasked", "waiting", "allowed", "denied", "withdrew", "gone"}]
          /\ \A r \in Requests : cli'[r] = cli[r] \/ (cli[r] = "waiting" /\ cli'[r] = "gone")
      BY <2>1, <3>1 DEF TypeOK, Ends
    <3> QED BY <2>1, <2>2, <2>4, <3>1, <3>2, EndsKeep DEF TypeOK
  <2> QED BY <2>1, <2>3, <2>4
<1>11. ASSUME NEW th \in Threads, NEW told \in {{}} \cup {{r} : r \in Requests},
              RejectTurn(th, told)
       PROVE  IInv'
  <2>1. told \in SUBSET Requests
    OBVIOUS
  <2> QED BY <1>11, <2>1, RejectKeeps
<1>6. ASSUME NEW th \in Threads, ReadLine(th) PROVE IInv'
  BY <1>6, AskKeeps, CancelKeeps DEF ReadLine
<1>7. ASSUME NEW th \in Threads,
             ProcessStopped(th) \/ ProcessCrashes(th) \/ StartAgent(th)
      PROVE  IInv'
  <2>1. TypeOK
    BY DEF IInv
  <2>2. /\ cli' = cli \/ cli' = Ends(th)
        /\ pipe' = pipe \/ pipe' = [pipe EXCEPT ![th] = <<>>]
        /\ UNCHANGED <<leaving, chunk, host, pending, row, missed, said>>
    BY <1>7 DEF ProcessStopped, ProcessCrashes, StartAgent
  <2>3. /\ cli' \in [Requests -> {"unasked", "waiting", "allowed", "denied", "withdrew", "gone"}]
        /\ \A r \in Requests : cli'[r] = cli[r] \/ (cli[r] = "waiting" /\ cli'[r] = "gone")
    BY <2>1, <2>2 DEF TypeOK, Ends
  <2>4. process' \in [Threads -> {"up", "stopping", "down"}]
    <3>1. process \in [Threads -> {"up", "stopping", "down"}]
      BY <2>1 DEF TypeOK
    <3>2. \/ process' = [process EXCEPT ![th] = "down"]
          \/ process' = [process EXCEPT ![th] = "up"]
      BY <1>7 DEF ProcessStopped, ProcessCrashes, StartAgent
    <3> QED BY <3>1, <3>2
  <2>5. /\ pipe' \in [Threads -> Seq(Lines)]
        /\ \A t \in Threads : pipe'[t] \in {pipe[t], <<>>}
    <3>1. pipe \in [Threads -> Seq(Lines)] /\ <<>> \in Seq(Lines)
      BY <2>1 DEF TypeOK
    <3>2. CASE pipe' = pipe
      BY <3>1, <3>2
    <3>3. CASE pipe' = [pipe EXCEPT ![th] = <<>>]
      BY <3>1, <3>3
    <3> QED BY <2>2, <3>2, <3>3
  <2>6. core' \in [up : BOOLEAN, faults : 0..MaxFaults, crashes : 0..MaxCrashes]
    <3>1. core \in [up : BOOLEAN, faults : 0..MaxFaults, crashes : 0..MaxCrashes]
      BY <2>1 DEF TypeOK
    <3>2. CASE core' = core
      BY <3>1, <3>2
    <3>3. CASE core' = [core EXCEPT !.crashes = @ + 1] /\ core.crashes < MaxCrashes
      <4>1. core.crashes + 1 \in 0..MaxCrashes
        BY <3>1, <3>3, ApprovalAssumption
      <4> QED BY <3>1, <3>3, <4>1
    <3> QED BY <1>7, <3>2, <3>3 DEF ProcessStopped, ProcessCrashes, StartAgent
  <2>7. chunk' \in Threads \cup {NoThread} /\ leaving' \in SUBSET Threads
    BY <2>1, <2>2 DEF TypeOK
  <2> QED BY <2>2, <2>3, <2>4, <2>5, <2>6, <2>7, EndsKeep
<1>8. CASE EndChunk \/ CoreRestarts \/ UNCHANGED vars
  <2>1. UNCHANGED <<cli, process, leaving, pipe, host, pending, row, missed, said>>
    BY <1>8 DEF EndChunk, CoreRestarts, vars
  <2>2. /\ chunk' \in Threads \cup {NoThread}
        /\ core' \in [up : BOOLEAN, faults : 0..MaxFaults, crashes : 0..MaxCrashes]
    BY <1>8 DEF EndChunk, CoreRestarts, vars, IInv, TypeOK
  <2>3. TypeOK
    BY DEF IInv
  <2> QED BY <2>1, <2>2, <2>3, EndsKeep DEF TypeOK
<1>9. CASE CoreCrashes
  BY <1>9, CoreCrashKeeps
<1> QED BY <1>1, <1>2, <1>3, <1>4, <1>5, <1>6, <1>7, <1>8, <1>9, <1>10, <1>11 DEF Next

THEOREM Invariance == Spec => []IInv
BY InitGood, NextKeeps, PTL DEF Spec

\* Every variable keeps its type.
THEOREM TypeCorrect == Spec => []TypeOK
<1>1. IInv => TypeOK
  BY DEF IInv
<1> QED BY <1>1, Invariance, PTL

\* AllowedOnlyByAPerson: ApprovalManager and ClaudeAdapter allow nothing a person
\* did not approve while it was pending.
THEOREM NeverAllowedAlone == Spec => []AllowedOnlyByAPerson
<1>1. IInv => AllowedOnlyByAPerson
  BY DEF IInv, RequestGood, AllowedOnlyByAPerson
<1> QED BY <1>1, Invariance, PTL

\* PendingIsAwaited: the pending map holds exactly the promises somebody awaits.
THEOREM NoPromiseLost == Spec => []PendingIsAwaited
<1>1. IInv => PendingIsAwaited
  BY DEF IInv, TypeOK, RequestGood, PendingIsAwaited
<1> QED BY <1>1, Invariance, PTL

\* RowTellsOutcome: the approvals table tells what the CLI was told.
THEOREM TableTellsOutcome == Spec => []RowTellsOutcome
<1>1. IInv => RowTellsOutcome
  BY DEF IInv, RequestGood, RowTellsOutcome, Refusals
<1> QED BY <1>1, Invariance, PTL

\* DecisionStands: the row of a decided request is never written again.
THEOREM DecidedOnce == Spec => DecisionStands
<1> DEFINE Stands == \A r \in Requests : row[r] \notin {"none", "pending"} => row'[r] = row[r]
<1>1. ASSUME NEW words, Update(words) PROVE Stands
  BY <1>1 DEF Update
<1>2. IInv /\ [Next]_vars => [Stands]_vars
  <2> SUFFICES ASSUME IInv, Next PROVE Stands
    BY DEF vars
  <2>1. ASSUME row' = row PROVE Stands
    BY <2>1
  <2>2. ASSUME NEW r \in Requests, RequestApproval(r) PROVE Stands
    <3>1. row[r] = "none"
      BY <2>2 DEF IInv, RequestGood, RequestApproval
    <3> QED BY <2>2, <3>1 DEF RequestApproval, IInv, TypeOK
  <2>3. ASSUME NEW r \in Requests,
               CliAsks(r) \/ CliWithdraws(r) \/ RequestFails(r) \/ Respond(r)
        PROVE  row' = row
    BY <2>3 DEF CliAsks, CliWithdraws, RequestFails, Respond
  <2>4. ASSUME NEW r \in Requests, NEW approved \in BOOLEAN, AnswerCard(r, approved) PROVE Stands
    BY <1>1, <2>4 DEF AnswerCard
  <2>5. ASSUME NEW r \in Requests, Expire(r) PROVE Stands
    BY <1>1, <2>5 DEF Expire
  <2>6. ASSUME NEW th \in Threads, StopAgent(th) \/ ProcessExits(th) \/ ExitHandled(th)
        PROVE  Stands
    BY <1>1, <2>1, <2>6 DEF StopAgent, ProcessExits, ExitHandled, Stop, CancelFor
  <2>11. ASSUME NEW th \in Threads, NEW told, RejectTurn(th, told) PROVE Stands
    BY <1>1, <2>11 DEF RejectTurn
  <2>7. ASSUME NEW th \in Threads, ReadControlRequest(th) PROVE row' = row
    BY <2>7 DEF ReadControlRequest
  <2>8. ASSUME NEW th \in Threads, ReadControlCancel(th) PROVE Stands
    BY <1>1, <2>1, <2>8 DEF ReadControlCancel
  <2>9. ASSUME NEW th \in Threads,
               ProcessStopped(th) \/ ProcessCrashes(th) \/ StartAgent(th)
        PROVE  row' = row
    BY <2>9 DEF ProcessStopped, ProcessCrashes, StartAgent
  <2>10. CASE EndChunk \/ CoreCrashes \/ CoreRestarts
    BY <2>1, <2>10 DEF EndChunk, CoreCrashes, CoreRestarts
  <2> HIDE DEF Stands
  <2> QED BY <2>1, <2>2, <2>3, <2>4, <2>5, <2>6, <2>7, <2>8, <2>9, <2>10, <2>11
          DEF Next, Continue, ReadLine
<1> QED BY <1>2, Invariance, PTL DEF Spec, DecisionStands

\* CancelsItsThread: cancelApprovalsForThread leaves nothing of its thread on a
\* screen and touches nothing of another; a withdrawal goes alone.
THEOREM NoStrayCancel == Spec => CancelsItsThread
<1> DEFINE Cancels(r) == row[r] # "cancelled" /\ row'[r] = "cancelled"
           Untouched(r) == \A q \in Requests : Home[q] # Home[r] => host'[q] = host[q] /\ row'[q] = row[q]
           Alone(r) == ~host[r].aborted /\ host'[r].aborted
           Whole(r) == \A q \in pending' : Home[q] # Home[r]
           Thread == \A r \in Requests : Cancels(r) =>
                        /\ Untouched(r)
                        /\ \/ Alone(r)
                           \/ Whole(r)
<1>1. ASSUME NEW words, Update(words), NEW r \in Requests
      PROVE  /\ row'[r] # row[r] => r \in DOMAIN words /\ row'[r] = words[r]
             /\ Cancels(r) => r \in DOMAIN words /\ words[r] = "cancelled"
  BY <1>1 DEF Update
<1>2. IInv /\ [Next]_vars => [Thread]_vars
  <2> SUFFICES ASSUME IInv, Next PROVE Thread
    BY DEF vars
  <2>0. TypeOK
    BY DEF IInv
  <2>1. ASSUME row' = row PROVE Thread
    BY <2>1
  <2>2. ASSUME NEW words, Update(words), \A r \in DOMAIN words : words[r] # "cancelled"
        PROVE  Thread
    <3> HIDE DEF Untouched, Alone, Whole
    <3> QED BY <1>1, <2>2
  <2>3. ASSUME NEW th \in Threads, NEW words, Update(words), Resolve(Raised(th), FALSE),
               \A r \in DOMAIN words : Home[r] = th
        PROVE  Thread
    <3>1. /\ Raised(th) \in SUBSET Requests
          /\ \A q \in Requests : Home[q] # th => q \notin Raised(th)
      BY <2>0 DEF Raised, TypeOK
    <3>2. /\ \A q \in Requests : Home[q] # th => host'[q] = host[q]
          /\ pending' = pending \ Raised(th)
      BY <2>0, <2>3, <3>1, ResolveShape DEF Resolve
    <3>3. \A q \in pending' : Home[q] # th
      BY <3>2 DEF Raised
    <3>4. \A q \in Requests : Home[q] # th => row'[q] = row[q]
      BY <1>1, <2>3
    <3>5. ASSUME NEW r \in Requests, Cancels(r) PROVE Home[r] = th
      <4> HIDE DEF Cancels
      <4> QED BY <1>1, <2>3, <3>5
    <3> QED BY <3>2, <3>3, <3>4, <3>5
  <2>4. ASSUME NEW th \in Threads, CancelFor(th) PROVE Thread
    <3> DEFINE words == Each(Raised(th), "cancelled")
    <3>1. Update(words) /\ Resolve(Raised(th), FALSE)
      BY <2>4 DEF CancelFor
    <3>2. DOMAIN words = Raised(th)
      BY EachShape
    <3>3. \A r \in DOMAIN words : Home[r] = th
      BY <3>2 DEF Raised
    <3> HIDE DEF words, Thread
    <3> QED BY <2>3, <3>1, <3>3
  <2>5. ASSUME NEW r \in Requests, RequestApproval(r) PROVE Thread
    BY <2>0, <2>5 DEF RequestApproval, TypeOK
  <2>6. ASSUME NEW r \in Requests,
               CliAsks(r) \/ CliWithdraws(r) \/ RequestFails(r) \/ Respond(r)
        PROVE  row' = row
    BY <2>6 DEF CliAsks, CliWithdraws, RequestFails, Respond
  <2>7. ASSUME NEW r \in Requests, NEW approved \in BOOLEAN, AnswerCard(r, approved) PROVE Thread
    <3> DEFINE words == Each({r}, IF approved THEN "approved" ELSE "denied")
    <3>1. Update(words)
      BY <2>7 DEF AnswerCard
    <3>2. \A q \in DOMAIN words : words[q] # "cancelled"
      BY EachShape
    <3> HIDE DEF words, Thread
    <3> QED BY <2>2, <3>1, <3>2
  <2>8. ASSUME NEW r \in Requests, Expire(r) PROVE Thread
    <3> DEFINE words == Each({r}, "expired")
    <3>1. Update(words)
      BY <2>8 DEF Expire
    <3>2. \A q \in DOMAIN words : words[q] # "cancelled"
      BY EachShape
    <3> HIDE DEF words, Thread
    <3> QED BY <2>2, <3>1, <3>2
  <2>9. ASSUME NEW th \in Threads, StopAgent(th) \/ ProcessExits(th) \/ ExitHandled(th)
        PROVE  Thread
    <3> HIDE DEF Thread
    <3> QED BY <2>1, <2>4, <2>9 DEF StopAgent, ProcessExits, ExitHandled, Stop
  <2>10. ASSUME NEW th \in Threads, NEW told \in {{}} \cup {{r} : r \in Requests},
                RejectTurn(th, told)
         PROVE  Thread
    <3> DEFINE words == [r \in told \cup Raised(th) |-> IF r \in told THEN "denied" ELSE "cancelled"]
    <3>1. Update(words) /\ Resolve(Raised(th), FALSE)
      BY <2>10 DEF RejectTurn
    <3>2. \A r \in DOMAIN words : Home[r] = th
      BY <2>10 DEF RejectTurn, Raised
    <3> HIDE DEF words, Thread
    <3> QED BY <2>3, <3>1, <3>2
  <2>11. ASSUME NEW th \in Threads, ReadControlRequest(th) PROVE row' = row
    BY <2>11 DEF ReadControlRequest
  <2>12. ASSUME NEW th \in Threads, ReadControlCancel(th) PROVE Thread
    <3> DEFINE r == Head(pipe[th]).of
               words == Each({r}, "cancelled")
    <3>1. CASE row' = row
      BY <2>1, <3>1
    <3>2. CASE /\ host[r].stage = "asking" /\ Update(words)
               /\ host' = [host EXCEPT ![r] = [stage |-> "resolved", aborted |-> TRUE, approved |-> FALSE]]
      <4>1. r \in Requests
        BY <2>12, HeadOfPipe DEF ReadControlCancel, Reads
      <4>2. DOMAIN words = {r}
        BY EachShape
      <4> HIDE DEF words
      <4>3. \A q \in Requests : Cancels(q) => q = r
        <5> HIDE DEF Cancels, r
        <5> QED BY <1>1, <3>2, <4>2
      <4>4. \A q \in Requests : q # r => row'[q] = row[q]
        <5> HIDE DEF r
        <5> QED BY <1>1, <3>2, <4>2
      <4> HIDE DEF r
      <4>5. host'[r].aborted /\ \A q \in Requests : q # r => host'[q] = host[q]
        BY <2>0, <3>2, <4>1 DEF TypeOK
      <4>6. ~host[r].aborted
        BY <2>12, HeadOfPipe DEF ReadControlCancel, Reads, r
      <4> QED BY <4>1, <4>3, <4>4, <4>5, <4>6
    <3> QED BY <2>12, <3>1, <3>2 DEF ReadControlCancel
  <2>13. ASSUME NEW th \in Threads,
                ProcessStopped(th) \/ ProcessCrashes(th) \/ StartAgent(th)
         PROVE  row' = row
    BY <2>13 DEF ProcessStopped, ProcessCrashes, StartAgent
  <2>14. CASE EndChunk \/ CoreCrashes \/ CoreRestarts
    BY <2>1, <2>14 DEF EndChunk, CoreCrashes, CoreRestarts
  <2> HIDE DEF Thread
  <2> QED BY <2>1, <2>4, <2>5, <2>6, <2>7, <2>8, <2>9, <2>10, <2>11, <2>12, <2>13, <2>14
          DEF Next, Continue, ReadLine
<1> QED BY <1>2, Invariance, PTL DEF Spec, CancelsItsThread
=============================================================================
