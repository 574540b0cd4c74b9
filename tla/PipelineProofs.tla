-------------------------- MODULE PipelineProofs ---------------------------
(***************************************************************************)
(* The controller inside the pipeline behaves as SessionController says:   *)
(* what is proved there of every environment holds with the wrappers that  *)
(* really drive it.  PipelineInv follows the events on their way through   *)
(* the queues of the wrappers: a Pause meets the session it was sent for,  *)
(* and the session that the controller runs is the one that is transcoded, *)
(* or is about to be.                                                      *)
(***************************************************************************)
EXTENDS TranscodingPipeline, SessionControllerProofs

(* Every step of the pipeline is a step of the controller or leaves it      *)
(* alone.                                                                   *)
LEMMA PipelineStepLemma ==
    ASSUME ControllerInv, PipelineNext
    PROVE  [Next]_vars
<1>1. CASE SubmitNew
    BY <1>1 DEF SubmitNew, Next, ClientStep
<1>2. CASE ClientOrPolicy
    BY <1>2 DEF ClientOrPolicy, Next, ClientStep
<1>3. CASE LockHolder
    BY <1>3 DEF LockHolder, Next
<1>4. CASE Timeout \/ ReportTimeout
    BY <1>4 DEF Timeout, ReportTimeout, Next, WatchdogStep
<1>5. ASSUME NEW w \in Wrapper, Callback(w)
      PROVE  [Next]_vars
  <2>1. CASE UNCHANGED vars
      BY <2>1
  <2>2. CASE OnFinishOrError(callback[w].key) \/ OnResourceLost(callback[w].key)
    <3>1. callback[w].key \in Key
        BY <2>2 DEF OnFinishOrError, OnResourceLost, Heeded, ControllerInv, TypeOK
    <3> QED BY <2>2, <3>1 DEF Next, TranscoderStep
  <2> QED BY <1>5, <2>1, <2>2 DEF Callback
<1>6. ASSUME NEW w \in Wrapper, HandleEvent(w) \/ RunEnds(w)
      PROVE  [Next]_vars
    BY <1>6 DEF HandleEvent, RunEnds
<1>7. CASE NoticeArrives
    BY <1>7 DEF NoticeArrives
<1> QED BY <1>1, <1>2, <1>3, <1>4, <1>5, <1>6, <1>7 DEF PipelineNext

(* The pipeline implements the controller: SessionController's environment, *)
(* which may do anything at any time, allows all that clients, policies,    *)
(* wrappers and their threads do.                                           *)
THEOREM PipelineRefinesController == PipelineSpec => Spec
<1>1. PipelineInit => Init /\ ControllerInv
    BY InitLemma DEF PipelineInit
<1>2. ControllerInv /\ [PipelineNext]_allVars => [Next]_vars
    BY PipelineStepLemma DEF allVars
<1>3. ControllerInv /\ [Next]_vars => ControllerInv'
    BY NextLemma
<1> QED BY <1>1, <1>2, <1>3, PTL DEF PipelineSpec, Spec

(* With its wrappers, the controller keeps its invariant: in particular at  *)
(* most one session runs, however late ends, errors and timeouts arrive.    *)
THEOREM PipelineControllerSafe == PipelineSpec => []ControllerInv
BY PipelineRefinesController, ControllerSafe, PTL

-----------------------------------------------------------------------------
(* Queues of events.                                                        *)

(* What handling e makes of a run r: r goes on or is let go, unless e       *)
(* starts a run or is a Pause, after which nothing is run.                  *)
Follows(e, r, s) ==
    /\ e.type \in {"Start", "Resume"} => s.key \in {e.key, NoSession}
    /\ ~Switches(e) => s.key \in {r.key, NoSession}

(* An event that is added last only matters to what follows it. *)
LEMMA MeetsAppendLemma ==
    ASSUME NEW q \in Seq(ProperEvent), NEW e \in ProperEvent, NEW r, NEW k
    PROVE  /\ PausesMeet(q, r) /\ (e.type = "Pause" => Meets(q, r, Len(q) + 1, e.key))
                => PausesMeet(Append(q, e), r)
           /\ Meets(q, r, Len(q) + 1, k) /\ ~Switches(e)
                => Meets(Append(q, e), r, Len(Append(q, e)) + 1, k)
           /\ e.type \in {"Start", "Resume"} /\ e.key = k
                => Meets(Append(q, e), r, Len(Append(q, e)) + 1, k)
<1> DEFINE p == Append(q, e)
<1>1. /\ p \in Seq(ProperEvent) /\ Len(p) = Len(q) + 1 /\ Len(q) \in Nat
      /\ DOMAIN p = 1..Len(p) /\ DOMAIN q = 1..Len(q)
      /\ \A i \in 1..Len(q) : p[i] = q[i]
      /\ p[Len(q) + 1] = e
    OBVIOUS
<1> HIDE DEF p
<1>2. ASSUME NEW i \in 1..(Len(q) + 1), NEW j, Meets(q, r, i, j)
      PROVE  Meets(p, r, i, j)
  <2>1. \A m \in 1..(i - 1) : m \in 1..Len(q) /\ p[m] = q[m]
      BY <1>1
  <2>2. CASE \E n \in 1..(i - 1) :
                /\ q[n].type \in {"Start", "Resume"} /\ q[n].key = j
                /\ \A m \in (n + 1)..(i - 1) : ~Switches(q[m])
    <3>1. PICK n \in 1..(i - 1) :
                /\ q[n].type \in {"Start", "Resume"} /\ q[n].key = j
                /\ \A m \in (n + 1)..(i - 1) : ~Switches(q[m])
        BY <2>2
    <3>2. \A m \in (n + 1)..(i - 1) : p[m] = q[m]
        BY <2>1, <1>1
    <3> QED BY <2>1, <3>1, <3>2 DEF Meets
  <2>3. CASE (\A m \in 1..(i - 1) : ~Switches(q[m])) /\ r.key \in {j, NoSession}
      BY <2>1, <2>3 DEF Meets
  <2> QED BY <1>2, <2>2, <2>3 DEF Meets
<1>3. ASSUME PausesMeet(q, r), e.type = "Pause" => Meets(q, r, Len(q) + 1, e.key)
      PROVE  PausesMeet(p, r)
  <2> SUFFICES ASSUME NEW i \in 1..Len(p), p[i].type = "Pause"
               PROVE  Meets(p, r, i, p[i].key)
      BY <1>1 DEF PausesMeet
  <2>1. i \in 1..Len(q) \/ i = Len(q) + 1
      BY <1>1
  <2>2. CASE i \in 1..Len(q)
    <3>1. p[i] = q[i] /\ Meets(q, r, i, q[i].key)
        BY <1>1, <1>3, <2>2 DEF PausesMeet
    <3> QED BY <1>1, <1>2, <2>2, <3>1
  <2>3. CASE i = Len(q) + 1
    <3>1. p[i] = e /\ Meets(q, r, i, e.key)
        BY <1>1, <1>3, <2>3
    <3> QED BY <1>1, <1>2, <2>3, <3>1
  <2> QED BY <2>1, <2>2, <2>3
<1>4. ASSUME Meets(q, r, Len(q) + 1, k), ~Switches(e)
      PROVE  Meets(p, r, Len(p) + 1, k)
  <2>1. Meets(p, r, Len(q) + 1, k)
      BY <1>1, <1>2, <1>4
  <2>2. ~Switches(p[Len(q) + 1]) /\ (Len(p) + 1) - 1 = Len(q) + 1 /\ (Len(q) + 1) - 1 = Len(q)
      BY <1>1, <1>4
  <2>3. \A m \in 1..(Len(q) + 1) : m \in 1..Len(q) \/ m = Len(q) + 1
      BY <1>1
  <2>4. CASE (\A m \in 1..Len(q) : ~Switches(p[m])) /\ r.key \in {k, NoSession}
      BY <2>2, <2>3, <2>4 DEF Meets
  <2>5. CASE \E n \in 1..Len(q) :
                /\ p[n].type \in {"Start", "Resume"} /\ p[n].key = k
                /\ \A m \in (n + 1)..Len(q) : ~Switches(p[m])
    <3>1. PICK n \in 1..Len(q) :
                /\ p[n].type \in {"Start", "Resume"} /\ p[n].key = k
                /\ \A m \in (n + 1)..Len(q) : ~Switches(p[m])
        BY <2>5
    <3>2. \A m \in (n + 1)..(Len(q) + 1) : m \in (n + 1)..Len(q) \/ m = Len(q) + 1
        BY <1>1
    <3>3. n \in 1..(Len(q) + 1) /\ \A m \in (n + 1)..(Len(q) + 1) : ~Switches(p[m])
        BY <1>1, <2>2, <3>1, <3>2
    <3> QED BY <2>2, <3>1, <3>3 DEF Meets
  <2> QED BY <2>1, <2>2, <2>4, <2>5 DEF Meets
<1>5. ASSUME e.type \in {"Start", "Resume"}, e.key = k
      PROVE  Meets(p, r, Len(p) + 1, k)
  <2>1. (Len(p) + 1) - 1 = Len(p) /\ Len(p) \in 1..Len(p) /\ p[Len(p)] = e
      BY <1>1
  <2>2. \A m \in (Len(p) + 1)..Len(p) : FALSE
      BY <1>1
  <2> QED BY <1>5, <2>1, <2>2 DEF Meets
<1> QED BY <1>3, <1>4, <1>5 DEF p

(* Handling the first event of a queue leaves what the others will meet. *)
LEMMA MeetsTailLemma ==
    ASSUME NEW q \in Seq(ProperEvent), q # <<>>, NEW r, NEW s, Follows(Head(q), r, s)
    PROVE  /\ PausesMeet(q, r) => PausesMeet(Tail(q), s)
           /\ \A k : Meets(q, r, Len(q) + 1, k) => Meets(Tail(q), s, Len(Tail(q)) + 1, k)
<1> DEFINE t == Tail(q)
<1>1. /\ t \in Seq(ProperEvent) /\ Len(q) = Len(t) + 1 /\ Len(t) \in Nat
      /\ DOMAIN t = 1..Len(t) /\ DOMAIN q = 1..Len(q)
      /\ \A i \in 1..Len(t) : t[i] = q[i + 1]
      /\ Head(q) = q[1]
    OBVIOUS
<1> HIDE DEF t
<1>2. ASSUME NEW i \in 1..(Len(t) + 1), NEW k, Meets(q, r, i + 1, k)
      PROVE  Meets(t, s, i, k)
  <2>1. (i + 1) - 1 = i /\ i \in Nat
      BY <1>1
  <2>2. \A m \in 1..(i - 1) : t[m] = q[m + 1] /\ m + 1 \in 1..i
      BY <1>1
  <2>3. CASE (\A m \in 1..i : ~Switches(q[m])) /\ r.key \in {k, NoSession}
    <3>1. 1 \in 1..i /\ ~Switches(q[1])
        BY <1>1, <2>3
    <3>2. s.key \in {k, NoSession}
        BY <1>1, <2>3, <3>1 DEF Follows
    <3> QED BY <2>2, <2>3, <3>2 DEF Meets
  <2>4. CASE \E n \in 1..i :
                /\ q[n].type \in {"Start", "Resume"} /\ q[n].key = k
                /\ \A m \in (n + 1)..i : ~Switches(q[m])
    <3>1. PICK n \in 1..i :
                /\ q[n].type \in {"Start", "Resume"} /\ q[n].key = k
                /\ \A m \in (n + 1)..i : ~Switches(q[m])
        BY <2>4
    <3>2. CASE n = 1
      <4>1. s.key \in {k, NoSession}
          BY <1>1, <3>1, <3>2 DEF Follows
      <4>2. \A m \in 1..(i - 1) : m + 1 \in (n + 1)..i
          BY <1>1, <3>2
      <4> QED BY <2>2, <3>1, <4>1, <4>2 DEF Meets
    <3>3. CASE n # 1
      <4>1. n - 1 \in 1..(i - 1) /\ (n - 1) + 1 = n
          BY <3>3, <1>1
      <4>2. \A m \in ((n - 1) + 1)..(i - 1) : m \in 1..(i - 1) /\ m + 1 \in (n + 1)..i
          BY <1>1, <4>1
      <4>3. t[n - 1] = q[n] /\ \A m \in ((n - 1) + 1)..(i - 1) : ~Switches(t[m])
          BY <2>2, <3>1, <4>1, <4>2
      <4> QED BY <3>1, <4>1, <4>3 DEF Meets
    <3> QED BY <3>2, <3>3
  <2> QED BY <1>2, <2>1, <2>3, <2>4 DEF Meets
<1>3. ASSUME PausesMeet(q, r) PROVE PausesMeet(t, s)
  <2> SUFFICES ASSUME NEW i \in 1..Len(t), t[i].type = "Pause"
               PROVE  Meets(t, s, i, t[i].key)
      BY <1>1 DEF PausesMeet
  <2>1. i + 1 \in 1..Len(q) /\ t[i] = q[i + 1] /\ i \in 1..(Len(t) + 1)
      BY <1>1
  <2>2. Meets(q, r, i + 1, t[i].key)
      BY <1>1, <1>3, <2>1 DEF PausesMeet
  <2> QED BY <1>2, <2>1, <2>2
<1>4. ASSUME NEW k, Meets(q, r, Len(q) + 1, k) PROVE Meets(t, s, Len(t) + 1, k)
    BY <1>1, <1>2, <1>4
<1> QED BY <1>3, <1>4 DEF t

-----------------------------------------------------------------------------
(* What the controller's calls do to the queues.                            *)

CreateOnly == Call("create", NoSession)
StopAndAbandon(k) == <<Call("stop", k), Call("abandon", NoSession), CreateOnly>>

(* The factory makes a wrapper in a free slot. *)
Opens(w) == w \in Wrapper \ alive /\ alive' = alive \cup {w} /\ current' = w

LEMMA EventOfLemma ==
    ASSUME NEW k \in Key
    PROVE  /\ W!EventOf(Call("start", k)) = [type |-> "Start", key |-> k]
           /\ W!EventOf(Call("resume", k)) = [type |-> "Resume", key |-> k]
           /\ W!EventOf(Call("pause", k)) = [type |-> "Pause", key |-> k]
           /\ W!EventOf(Call("stop", k)) = [type |-> "Stop", key |-> k]
           /\ W!EventOf(Call("abandon", NoSession)) = [type |-> "Abandon", key |-> NoSession]
BY DEF W!EventOf, Call

(* Each call but create adds an event, to the wrapper made before it. *)
LEMMA TakeCallsLemma ==
    ASSUME ProperlyTyped, NEW calls, W!TakeCalls(calls)
    PROVE  /\ UNCHANGED <<running, pausedState, notices>>
           /\ calls = <<>> => UNCHANGED <<queue, alive, current>>
           /\ calls = <<CreateOnly>> => \E w : Opens(w) /\ UNCHANGED queue
           /\ \A c : calls = <<CreateOnly, c>> /\ c.op # "create" => \E w :
                Opens(w) /\ queue' = [queue EXCEPT ![w] = Append(@, W!EventOf(c))]
           /\ \A c : calls = <<c>> /\ c.op # "create" /\ current \in Wrapper =>
                /\ UNCHANGED <<alive, current>>
                /\ queue' = [queue EXCEPT ![current] = Append(@, W!EventOf(c))]
           /\ \A c, d : calls = <<c, d>> /\ c.op # "create" /\ d.op # "create" /\ current \in Wrapper =>
                /\ UNCHANGED <<alive, current>>
                /\ queue' = [queue EXCEPT ![current] =
                                Append(Append(@, W!EventOf(c)), W!EventOf(d))]
           /\ \A k : calls = StopAndAbandon(k) /\ current \in Wrapper => \E w :
                /\ Opens(w)
                /\ queue' = [queue EXCEPT ![current] =
                    Append(Append(@, W!EventOf(Call("stop", k))), W!EventOf(Call("abandon", NoSession)))]
<1> DEFINE created == \E i \in DOMAIN calls : calls[i].op = "create"
           createdFirst == calls # <<>> /\ calls[1].op = "create"
           events == [i \in 1..(Len(calls) - IF created THEN 1 ELSE 0) |->
                        W!EventOf(calls[IF createdFirst THEN i + 1 ELSE i])]
           post(w) == queue' = IF events = <<>> THEN queue ELSE [queue EXCEPT ![w] = @ \o events]
           fresh == CHOOSE w \in Wrapper \ alive : TRUE
<1>1. /\ created => Opens(fresh) /\ post(IF createdFirst THEN fresh ELSE current)
      /\ ~created => post(current) /\ UNCHANGED <<alive, current>>
      /\ UNCHANGED <<running, pausedState, notices>>
    BY DEF W!TakeCalls, Opens
<1>2. \A w \in Wrapper : queue[w] \in Seq(ProperEvent)
    BY DEF ProperlyTyped
<1>3. ASSUME calls = <<>> PROVE UNCHANGED <<queue, alive, current>>
  <2>1. ~created /\ events = <<>>
      BY <1>3
  <2> QED BY <1>1, <2>1
<1>4. ASSUME calls = <<CreateOnly>> PROVE \E w : Opens(w) /\ UNCHANGED queue
  <2>1. created /\ events = <<>>
      BY <1>4 DEF CreateOnly, Call
  <2> QED BY <1>1, <2>1
<1>5. ASSUME NEW c, calls = <<CreateOnly, c>>, c.op # "create"
      PROVE  \E w : Opens(w) /\ queue' = [queue EXCEPT ![w] = Append(@, W!EventOf(c))]
  <2>1. created /\ createdFirst /\ events = <<W!EventOf(c)>> /\ events # <<>>
    <3>1. Len(calls) = 2 /\ calls[1].op = "create" /\ calls[2] = c /\ 1 \in DOMAIN calls
        BY <1>5 DEF CreateOnly, Call
    <3>2. created /\ createdFirst
        BY <3>1
    <3> HIDE DEF created, createdFirst
    <3>3. events = [i \in 1..1 |-> W!EventOf(calls[i + 1])]
        BY <3>1, <3>2
    <3>4. [i \in 1..1 |-> W!EventOf(calls[i + 1])] = <<W!EventOf(c)>>
        BY <3>1
    <3> QED BY <3>2, <3>3, <3>4
  <2>2. fresh \in Wrapper
      BY <1>1, <2>1 DEF Opens
  <2>3. queue[fresh] \o <<W!EventOf(c)>> = Append(queue[fresh], W!EventOf(c))
      BY <1>2, <2>2
  <2> HIDE DEF fresh, created, createdFirst, events
  <2> QED BY <1>1, <2>1, <2>2, <2>3
<1>6. ASSUME NEW c, calls = <<c>>, c.op # "create", current \in Wrapper
      PROVE  /\ UNCHANGED <<alive, current>>
             /\ queue' = [queue EXCEPT ![current] = Append(@, W!EventOf(c))]
  <2>1. ~created /\ ~createdFirst /\ events = <<W!EventOf(c)>> /\ events # <<>>
      BY <1>6
  <2>2. queue[current] \o <<W!EventOf(c)>> = Append(queue[current], W!EventOf(c))
      BY <1>2, <1>6
  <2> HIDE DEF created, createdFirst, events
  <2> QED BY <1>1, <2>1, <2>2
<1>7. ASSUME NEW c, NEW d, calls = <<c, d>>, c.op # "create", d.op # "create", current \in Wrapper
      PROVE  /\ UNCHANGED <<alive, current>>
             /\ queue' = [queue EXCEPT ![current] = Append(Append(@, W!EventOf(c)), W!EventOf(d))]
  <2>1. ~created /\ ~createdFirst /\ events = <<W!EventOf(c), W!EventOf(d)>> /\ events # <<>>
      BY <1>7
  <2>2. queue[current] \o <<W!EventOf(c), W!EventOf(d)>>
            = Append(Append(queue[current], W!EventOf(c)), W!EventOf(d))
      BY <1>2, <1>7
  <2> HIDE DEF created, createdFirst, events
  <2> QED BY <1>1, <2>1, <2>2
<1>8. ASSUME NEW k, calls = StopAndAbandon(k), current \in Wrapper
      PROVE  \E w :
                /\ Opens(w)
                /\ queue' = [queue EXCEPT ![current] =
                    Append(Append(@, W!EventOf(Call("stop", k))), W!EventOf(Call("abandon", NoSession)))]
  <2> DEFINE a == W!EventOf(Call("stop", k))
             b == W!EventOf(Call("abandon", NoSession))
  <2>1. created /\ ~createdFirst /\ events = <<a, b>> /\ events # <<>>
    <3>1. /\ Len(calls) = 3 /\ 3 \in DOMAIN calls
          /\ calls[1] = Call("stop", k) /\ calls[2] = Call("abandon", NoSession)
          /\ calls[3] = CreateOnly
        BY <1>8 DEF StopAndAbandon
    <3>2. calls[1].op = "stop" /\ calls[3].op = "create"
        BY <3>1 DEF CreateOnly, Call
    <3>3. created /\ ~createdFirst
        BY <3>1, <3>2
    <3> HIDE DEF created, createdFirst
    <3>4. events = [i \in 1..2 |-> W!EventOf(calls[i])]
        BY <3>1, <3>3
    <3>5. [i \in 1..2 |-> W!EventOf(calls[i])] = <<a, b>>
        BY <3>1
    <3> HIDE DEF events, a, b
    <3> QED BY <3>3, <3>4, <3>5
  <2>2. queue[current] \o <<a, b>> = Append(Append(queue[current], a), b)
      BY <1>2, <1>8
  <2> HIDE DEF created, createdFirst, events, a, b, fresh
  <2>3. queue' = [queue EXCEPT ![current] = Append(Append(@, a), b)]
      BY <1>1, <2>1, <2>2
  <2> QED BY <1>1, <2>1, <2>3 DEF a, b
<1> QED BY <1>1, <1>3, <1>4, <1>5, <1>6, <1>7, <1>8

-----------------------------------------------------------------------------
(* Which calls a step of the controller makes, and when.                    *)

(* At most the sessions that ran before run now; at most top runs now. *)
Fewer == \A k \in Key : IsRunning(k)' => IsRunning(k)
Only(top) == \A k \in Key : IsRunning(k)' => k = top

MakesNoCall ==
    /\ out' = <<>> /\ Fewer
    /\ transcoderReady' = transcoderReady
    /\ \A k \in Key : Heeded(k)' => Heeded(k)

MakesFirstCall ==
    /\ ~transcoderReady /\ transcoderReady' /\ Sessions' \subseteq Sessions
    /\ \/ out' = <<CreateOnly>> /\ Only(NoSession)
       \/ \E op \in {"start", "resume"}, top \in Key :
            out' = <<CreateOnly, Call(op, top)>> /\ Only(top)

SwitchesSession ==
    /\ transcoderReady /\ transcoderReady' /\ Sessions' \subseteq Sessions
    /\ \/ \E c \in Key : IsRunning(c) /\ out' = <<Call("pause", c)>> /\ Only(NoSession)
       \/ \E op \in {"start", "resume"}, top \in Key : out' = <<Call(op, top)>> /\ Only(top)
       \/ \E c \in Key, op \in {"start", "resume"}, top \in Key :
            /\ IsRunning(c) /\ Only(top)
            /\ out' = <<Call("pause", c), Call(op, top)>>

StopsSession(k) ==
    /\ transcoderReady /\ transcoderReady' /\ Fewer
    /\ k \in Sessions /\ Sessions' = Sessions \ {k}
    /\ out' = <<Call("stop", k)>>

AbandonsWrapper(k) ==
    /\ transcoderReady /\ transcoderReady' /\ Fewer
    /\ k \in Sessions /\ Sessions' = Sessions \ {k}
    /\ out' = StopAndAbandon(k)

LEMMA ConcatLemma ==
    ASSUME NEW a, NEW b
    PROVE  /\ <<a>> \o <<>> \o <<b>> = <<a, b>>
           /\ <<>> \o <<a>> \o <<b>> = <<a, b>>
<1>1. <<a>> \o <<>> = <<a>> /\ <<>> \o <<a>> = <<a>>
    OBVIOUS
<1>2. <<a>> \o <<b>> = Append(<<a>>, b)
    OBVIOUS
<1>3. <<a, b>> = Append(<<a>>, b)
    OBVIOUS
<1> QED BY <1>1, <1>2, <1>3

LEMMA UpdateCallsLemma ==
    ASSUME ControllerInv, \A k \in Sessions : Heeded(k) => transcoderReady,
           UpdateCurrentSession
    PROVE  MakesNoCall \/ MakesFirstCall \/ SwitchesSession
<1>1. PICK top \in Key \cup {NoSession} :
        NothingToChange(top) \/ GoIdle(top) \/ StartTop(top) \/ ResumeTop(top) \/ DropTop(top)
    BY DEF UpdateCurrentSession
<1>2. transcoderReady' = TRUE /\ transcoderReady \in BOOLEAN
    BY DEF UpdateCurrentSession, ControllerInv, TypeOK
<1>3. /\ Sessions \subseteq Key /\ NoSession \notin Key
      /\ \A k \in Key : IsRunning(k) => k = currentSession
      /\ currentSession \in Key \cup {NoSession}
    BY NoSessionAssumption DEF ControllerInv, TypeOK, OneRunner, IsRunning
<1>4. ~transcoderReady => ~IsRunning(currentSession)
    BY DEF Heeded, IsRunning
<1>5. CASE NothingToChange(top)
  <2>1. /\ UNCHANGED <<sessionMap, currentSession>>
        /\ out' = IF transcoderReady THEN <<>> ELSE <<CreateOnly>>
      BY <1>5 DEF NothingToChange, schedVars, CreateCall, CreateOnly
  <2>2. \A k \in Key : (IsRunning(k)' <=> IsRunning(k)) /\ (Heeded(k)' <=> Heeded(k))
      BY <2>1 DEF IsRunning, Heeded, Sessions, StateOf
  <2>3. CASE transcoderReady
      BY <1>2, <2>1, <2>2, <2>3 DEF MakesNoCall, Fewer
  <2>4. CASE ~transcoderReady
    <3>1. Only(NoSession)
        BY <1>3, <1>4, <2>2, <2>4 DEF Only
    <3>2. Sessions' \subseteq Sessions
        BY <2>1 DEF Sessions
    <3> QED BY <1>2, <2>1, <2>4, <3>1, <3>2 DEF MakesFirstCall
  <2> QED BY <2>3, <2>4
<1>6. \A j \in Sessions : PausedMap[j].state # "RUNNING"
    BY AfterPauseLemma
<1>7. DOMAIN PausedMap = Sessions
    BY DEF PausedMap
<1>8. CASE GoIdle(top) \/ DropTop(top)
  <2>1. out' = CreateCall \o PauseCall
      BY <1>8 DEF GoIdle, DropTop
  <2>2. Sessions' \subseteq Sessions /\ \A j \in Sessions' : sessionMap'[j] = PausedMap[j]
    <3>1. CASE GoIdle(top)
        BY <1>7, <3>1 DEF GoIdle, Sessions
    <3>2. CASE DropTop(top)
      <4>1. sessionMap' = [j \in Sessions \ {top} |-> PausedMap[j]]
          BY <3>2 DEF DropTop, RemoveSession
      <4> QED BY <4>1 DEF Sessions
    <3> QED BY <1>8, <3>1, <3>2
  <2>3. Only(NoSession)
      BY <1>6, <2>2 DEF Only, IsRunning, StateOf, Sessions
  <2>4. CASE ~transcoderReady
    <3>1. out' = <<CreateOnly>>
        BY <1>4, <2>1, <2>4 DEF CreateCall, PauseCall, CreateOnly
    <3> QED BY <1>2, <2>2, <2>3, <2>4, <3>1 DEF MakesFirstCall
  <2>5. CASE transcoderReady /\ IsRunning(currentSession)
    <3>1. out' = <<Call("pause", currentSession)>> /\ currentSession \in Key
        BY <1>3, <2>1, <2>5 DEF CreateCall, PauseCall, IsRunning
    <3> QED BY <1>2, <2>2, <2>3, <2>5, <3>1 DEF SwitchesSession
  <2>6. CASE transcoderReady /\ ~IsRunning(currentSession)
    <3>1. out' = <<>>
        BY <2>1, <2>6 DEF CreateCall, PauseCall
    <3>2. Fewer
        BY <1>3, <2>3 DEF Fewer, Only
    <3>3. ASSUME NEW k \in Key, Heeded(k)' PROVE Heeded(k)
      <4>1. k \in Sessions /\ PausedMap[k].state # "NOT_STARTED"
          BY <2>2, <3>3 DEF Heeded, Sessions, StateOf
      <4> QED BY <2>6, <4>1 DEF Heeded, PausedMap, StateOf
    <3> QED BY <1>2, <2>6, <3>1, <3>2, <3>3 DEF MakesNoCall
  <2> QED BY <2>4, <2>5, <2>6
<1>9. CASE StartTop(top) \/ ResumeTop(top)
  <2>1. PICK op \in {"start", "resume"} : out' = SwitchCalls(op, top)
      BY <1>9 DEF StartTop, ResumeTop
  <2>2. /\ top \in Sessions /\ top \in Key
        /\ sessionMap' = [PausedMap EXCEPT ![top].state = "RUNNING"]
      BY <1>3, <1>9 DEF StartTop, ResumeTop
  <2>3. Sessions' = Sessions /\ Only(top)
      BY <1>6, <1>7, <2>2 DEF Only, IsRunning, StateOf, Sessions
  <2>4. CASE ~transcoderReady
    <3>1. out' = <<CreateOnly, Call(op, top)>>
        BY <1>4, <2>1, <2>4, ConcatLemma DEF SwitchCalls, CreateCall, PauseCall, CreateOnly
    <3> QED BY <1>2, <2>2, <2>3, <2>4, <3>1 DEF MakesFirstCall
  <2>5. CASE transcoderReady /\ IsRunning(currentSession)
    <3>1. out' = <<Call("pause", currentSession), Call(op, top)>> /\ currentSession \in Key
        BY <1>3, <2>1, <2>5, ConcatLemma DEF SwitchCalls, CreateCall, PauseCall, IsRunning
    <3> QED BY <1>2, <2>2, <2>3, <2>5, <3>1 DEF SwitchesSession
  <2>6. CASE transcoderReady /\ ~IsRunning(currentSession)
    <3>1. out' = <<Call(op, top)>>
        BY <2>1, <2>6 DEF SwitchCalls, CreateCall, PauseCall
    <3> QED BY <1>2, <2>2, <2>3, <2>6, <3>1 DEF SwitchesSession
  <2> QED BY <2>4, <2>5, <2>6
<1> QED BY <1>1, <1>5, <1>8, <1>9

(* A removal ends one session and changes no other. *)
LEMMA RemoveRunsLemma ==
    ASSUME ControllerInv, NEW k \in Sessions, NEW topUids, NEW reached,
           RemoveSession(k, sessionMap, watched, topUids, reached)
    PROVE  /\ Sessions' = Sessions \ {k}
           /\ Fewer
           /\ \A j \in Key : Heeded(j)' => Heeded(j)
<1>1. sessionMap' = [j \in Sessions \ {k} |-> sessionMap[j]]
    BY DEF RemoveSession
<1> QED BY <1>1 DEF Fewer, IsRunning, Heeded, StateOf, Sessions

LEMMA CallsLemma ==
    ASSUME ControllerInv, \A k \in Sessions : Heeded(k) => transcoderReady, Next
    PROVE  \/ MakesNoCall \/ MakesFirstCall \/ SwitchesSession
           \/ \E k \in Key : StopsSession(k) \/ (AbandonsWrapper(k) /\ OnWatchdogError)
<1>0. Sessions \subseteq Key /\ sessionMap \in [Sessions -> Session]
    BY DEF ControllerInv, TypeOK
<1>1. ASSUME out' = <<>>, UNCHANGED <<sessionMap, transcoderReady>>
      PROVE  MakesNoCall
    BY <1>1 DEF MakesNoCall, Fewer, IsRunning, Heeded, StateOf, Sessions
<1>2. ASSUME NEW k, NEW c, NEW u, NEW onTop, Submit(k, c, u, onTop)
      PROVE  MakesNoCall
  <2>1. sessionMap' = [j \in Sessions \cup {k} |->
                        IF j = k THEN [state |-> "NOT_STARTED", allClientUids |-> {u}, callingUid |-> c]
                                 ELSE sessionMap[j]]
      BY <1>2 DEF Submit
  <2>2. out' = <<>> /\ transcoderReady' = transcoderReady
      BY <1>2 DEF Submit
  <2> QED BY <2>1, <2>2 DEF MakesNoCall, Fewer, IsRunning, Heeded, StateOf, Sessions
<1>3. ASSUME NEW k, NEW u, NEW onTop, AddClientUid(k, u, onTop)
      PROVE  MakesNoCall
  <2>1. /\ k \in Sessions /\ out' = <<>> /\ transcoderReady' = transcoderReady
        /\ sessionMap' = [sessionMap EXCEPT ![k].allClientUids = @ \cup {u}]
      BY <1>3 DEF AddClientUid
  <2>2. Sessions' = Sessions /\ \A j \in Sessions : sessionMap'[j].state = sessionMap[j].state
      BY <1>0, <2>1 DEF Sessions, Session
  <2> QED BY <2>1, <2>2 DEF MakesNoCall, Fewer, IsRunning, Heeded, StateOf
<1>4. ASSUME NEW a, NEW b, NEW c, ThenRemove(a, b, c)
      PROVE  MakesNoCall
    BY <1>1, <1>4 DEF ThenRemove, schedVars
<1>5. CASE ClientStep
    BY <1>2, <1>3, <1>4, <1>5 DEF ClientStep, Cancel, CancelAll
<1>6. ASSUME NEW k, OnFinishOrError(k)
      PROVE  MakesNoCall
  <2>1. /\ k \in Sessions /\ out' = <<>> /\ transcoderReady' = transcoderReady
        /\ \E topUids, reached : RemoveSession(k, sessionMap, watched, topUids, reached)
      BY <1>6 DEF OnFinishOrError, Heeded
  <2> QED BY <2>1, RemoveRunsLemma DEF MakesNoCall
<1>7. ASSUME NEW k, OnResourceLost(k)
      PROVE  MakesNoCall
  <2>1. /\ k \in Sessions /\ out' = <<>> /\ transcoderReady' = transcoderReady
        /\ sessionMap' = [sessionMap EXCEPT ![k].state = "PAUSED"]
        /\ StateOf(k) = "RUNNING"
      BY <1>7 DEF OnResourceLost, Heeded
  <2> QED BY <1>0, <2>1 DEF MakesNoCall, Fewer, IsRunning, Heeded, StateOf, Sessions, Session
<1>8. CASE TranscoderStep
    BY <1>6, <1>7, <1>8 DEF TranscoderStep
<1>9. CASE PolicyStep
  <2>1. ASSUME NEW uids, OnTopUidsChanged(uids) PROVE MakesNoCall
      BY <1>1, <2>1 DEF OnTopUidsChanged
  <2>2. ASSUME NEW u, OnUidGone(u) PROVE MakesNoCall
      BY <1>4, <2>2 DEF OnUidGone
  <2>3. ASSUME OnResourceAvailable PROVE MakesNoCall
      BY <1>1, <2>3 DEF OnResourceAvailable, schedVars
  <2>4. ASSUME NEW t, OnThrottling(t) PROVE MakesNoCall
      BY <1>1, <2>4 DEF OnThrottling, schedVars
  <2> QED BY <1>9, <2>1, <2>2, <2>3, <2>4 DEF PolicyStep
<1>10. CASE UpdateCurrentSession
    BY <1>10, UpdateCallsLemma
<1>11. CASE RemoveNext
  <2>1. PICK k \in toRemove :
            /\ \E topUids, reached : RemoveSession(k, sessionMap, watched, topUids, reached)
            /\ out' = IF StateOf(k) = "NOT_STARTED" THEN <<>> ELSE <<Call("stop", k)>>
      BY <1>11 DEF RemoveNext
  <2>2. k \in Sessions /\ transcoderReady' = transcoderReady
      BY <1>11 DEF RemoveNext, ControllerInv, PendingAreLive
  <2>3. Sessions' = Sessions \ {k} /\ Fewer /\ \A j \in Key : Heeded(j)' => Heeded(j)
      BY <2>1, <2>2, RemoveRunsLemma
  <2>4. CASE StateOf(k) = "NOT_STARTED"
      BY <2>1, <2>2, <2>3, <2>4 DEF MakesNoCall
  <2>5. CASE StateOf(k) # "NOT_STARTED"
    <3>1. transcoderReady
        BY <2>2, <2>5 DEF Heeded
    <3>2. k \in Key /\ out' = <<Call("stop", k)>> /\ transcoderReady'
        BY <1>0, <2>1, <2>2, <2>5, <3>1
    <3>3. StopsSession(k)
        BY <2>2, <2>3, <3>1, <3>2 DEF StopsSession
    <3> QED BY <3>2, <3>3
  <2> QED BY <2>4, <2>5
<1>12. CASE TrimNext
  <2>1. PICK k \in toTrim :
            sessionMap' = [sessionMap EXCEPT ![k].allClientUids = @ \cap keepUids]
      BY <1>12 DEF TrimNext, TrimSession
  <2>2. k \in Sessions /\ transcoderReady' = transcoderReady /\ out' = <<>>
      BY <1>12 DEF TrimNext, ControllerInv, PendingAreLive
  <2>3. Sessions' = Sessions /\ \A j \in Sessions : sessionMap'[j].state = sessionMap[j].state
      BY <1>0, <2>1, <2>2 DEF Sessions, Session
  <2> QED BY <2>2, <2>3 DEF MakesNoCall, Fewer, IsRunning, Heeded, StateOf
<1>13. CASE RemovalDone
    BY <1>1, <1>13 DEF RemovalDone, schedVars
<1>14. CASE WatchdogTimeout
    BY <1>1, <1>14 DEF WatchdogTimeout, schedVars
<1>15. CASE OnWatchdogError
  <2>1. CASE Heeded(timedOut)
    <3>1. /\ timedOut \in Sessions /\ transcoderReady' = transcoderReady
          /\ out' = StopAndAbandon(timedOut)
          /\ \E topUids, reached : RemoveSession(timedOut, sessionMap, watched, topUids, reached)
        BY <1>15, <2>1 DEF OnWatchdogError, Heeded, AbandonCalls, StopAndAbandon, CreateOnly
    <3>2. Sessions' = Sessions \ {timedOut} /\ Fewer
        BY <3>1, RemoveRunsLemma
    <3>3. transcoderReady
        BY <2>1, <3>1
    <3>4. AbandonsWrapper(timedOut)
        BY <3>1, <3>2, <3>3 DEF AbandonsWrapper
    <3>5. timedOut \in Key
        BY <1>0, <3>1
    <3> QED BY <1>15, <3>4, <3>5, Zenon
  <2>2. CASE ~Heeded(timedOut)
      BY <1>1, <1>15, <2>2 DEF OnWatchdogError, schedVars
  <2> QED BY <2>1, <2>2
<1> QED BY <1>5, <1>8, <1>9, <1>10, <1>11, <1>12, <1>13, <1>14, <1>15
        DEF Next, LockHolderStep, WatchdogStep

LEMMA NoCallLemma ==
    ASSUME ControllerInv, \A k \in Sessions : Heeded(k) => transcoderReady, Next, out' = <<>>
    PROVE  MakesNoCall
<1>1. ~MakesFirstCall
    BY DEF MakesFirstCall
<1>2. ~SwitchesSession
    BY DEF SwitchesSession
<1>3. \A k \in Key : ~StopsSession(k) /\ ~AbandonsWrapper(k)
    BY DEF StopsSession, AbandonsWrapper, StopAndAbandon
<1> QED BY <1>1, <1>2, <1>3, CallsLemma

-----------------------------------------------------------------------------
(* Steps of the controller keep PipelineInv.                                *)

Undisturbed == UNCHANGED <<running, pausedState, callback, notices>>

(* One queue changes, to q, and the wrappers that exist may become more. *)
LEMMA QueueChangesLemma ==
    ASSUME PipelineInv, Undisturbed,
           NEW w \in Wrapper, NEW q \in Seq(ProperEvent), queue' = [queue EXCEPT ![w] = q],
           alive \subseteq alive', alive' \subseteq Wrapper, w \in alive',
           transcoderReady', current' \in alive',
           PausesMeet(q, running[w]),
           \A i \in DOMAIN q : q[i].type = "Abandon" => w # current',
           current' # w => queue[current'] = <<>>,
           \A k \in Key : IsRunning(k)' =>
                Meets(queue'[current'], running[current'], Len(queue'[current']) + 1, k)
    PROVE  PipelineInv'
<1>0. ProperlyTyped /\ SlotsAreClean /\ PausesWillMeet
    BY DEF PipelineInv
<1>1. queue' \in [Wrapper -> Seq(ProperEvent)] /\ queue'[w] = q
      /\ \A v \in Wrapper \ {w} : queue'[v] = queue[v]
    BY <1>0 DEF ProperlyTyped
<1>2. ProperlyTyped'
  <2>1. ProperNotice \subseteq ProperNotice'
      BY DEF ProperNotice
  <2>2. IsABag(notices)' /\ DOMAIN notices' \subseteq ProperNotice'
      BY <1>0, <2>1 DEF ProperlyTyped, Undisturbed, IsABag
  <2> QED BY <1>0, <1>1, <2>2 DEF ProperlyTyped, Undisturbed
<1>3. SlotsAreClean'
  <2>1. \A k \in Sessions' : Heeded(k)' => transcoderReady'
      OBVIOUS
  <2>2. ASSUME NEW v \in Wrapper
        PROVE  /\ \A i \in DOMAIN queue'[v] : queue'[v][i].type = "Abandon" => v # current'
               /\ v \notin alive' =>
                    queue'[v] = <<>> /\ running'[v] = W!NoRun /\ callback'[v] = W!NoCallback
      BY <1>0, <1>1 DEF SlotsAreClean, Undisturbed
  <2> QED BY <2>1, <2>2 DEF SlotsAreClean
<1>4. PausesWillMeet'
    BY <1>0, <1>1 DEF PausesWillMeet, Undisturbed
<1> QED BY <1>2, <1>3, <1>4 DEF PipelineInv

(* No queue changes, and a thread at most finishes its callback. *)
LEMMA QuietLemma ==
    ASSUME ControllerInv', PipelineInv,
           transcoderReady' = transcoderReady, Fewer, \A k \in Key : Heeded(k)' => Heeded(k),
           UNCHANGED <<current, alive, queue, running, pausedState, notices>>,
           callback' \in [Wrapper -> W!Callback \cup {W!NoCallback}],
           \A w \in Wrapper : callback'[w] \in {callback[w], W!NoCallback}
    PROVE  PipelineInv'
<1>0. ProperlyTyped /\ SlotsAreClean /\ PausesWillMeet
    BY DEF PipelineInv
<1>1. ProperlyTyped'
    BY <1>0 DEF ProperlyTyped, ProperNotice, IsABag
<1>2. SlotsAreClean'
  <2>1. ASSUME NEW k \in Sessions', Heeded(k)' PROVE transcoderReady'
    <3>1. k \in Key
        BY <2>1 DEF ControllerInv, TypeOK
    <3> QED BY <1>0, <2>1, <3>1 DEF Heeded, SlotsAreClean
  <2>2. \A w \in Wrapper \ alive : callback'[w] = W!NoCallback
      BY <1>0 DEF SlotsAreClean
  <2> QED BY <1>0, <2>1, <2>2 DEF SlotsAreClean
<1>3. PausesWillMeet'
    BY <1>0 DEF PausesWillMeet, Fewer
<1> QED BY <1>1, <1>2, <1>3 DEF PipelineInv

LEMMA DrivesLemma ==
    ASSUME ControllerInv, PipelineInv, Next, W!TakeCalls(out'), UNCHANGED callback
    PROVE  PipelineInv'
<1>0. ProperlyTyped /\ SlotsAreClean /\ PausesWillMeet
    BY DEF PipelineInv
<1>1. Undisturbed
    BY <1>0, TakeCallsLemma DEF Undisturbed
<1>2. /\ alive \subseteq Wrapper
      /\ \A v \in Wrapper : queue[v] \in Seq(ProperEvent) /\ PausesMeet(queue[v], running[v])
      /\ \A v \in Wrapper \ alive : queue[v] = <<>> /\ running[v] = W!NoRun
      /\ transcoderReady => current \in alive
      /\ NoWrapper \notin Wrapper
    BY <1>0, WrapperAssumption DEF ProperlyTyped, SlotsAreClean, PausesWillMeet
<1>3. /\ \A k \in Key, type \in {"Start", "Resume", "Pause", "Stop"} :
            [type |-> type, key |-> k] \in ProperEvent
      /\ [type |-> "Abandon", key |-> NoSession] \in ProperEvent
    BY DEF ProperEvent
<1>4. \A k \in Sessions : Heeded(k) => transcoderReady
    BY <1>0 DEF SlotsAreClean
<1>5. NoSession \notin Key
    BY NoSessionAssumption
<1>6. \A i \in DOMAIN queue[current] : transcoderReady => queue[current][i].type # "Abandon"
    BY <1>0, <1>2 DEF SlotsAreClean
<1>7. \A k \in Key : IsRunning(k) =>
            Meets(queue[current], running[current], Len(queue[current]) + 1, k)
    BY <1>0 DEF PausesWillMeet
<1>10. CASE MakesNoCall
  <2>1. UNCHANGED <<queue, alive, current>>
      BY <1>0, <1>10, TakeCallsLemma DEF MakesNoCall
  <2> QED BY <1>0, <1>1, <1>10, <2>1, NextLemma, QuietLemma
          DEF MakesNoCall, Undisturbed, ProperlyTyped
<1>11. CASE MakesFirstCall
  <2>1. CASE out' = <<CreateOnly>> /\ Only(NoSession)
    <3>1. PICK w : Opens(w) /\ UNCHANGED queue
        BY <1>0, <2>1, TakeCallsLemma
    <3>2. w \in Wrapper /\ queue[w] = <<>> /\ queue' = [queue EXCEPT ![w] = queue[w]]
        BY <1>0, <1>2, <3>1 DEF Opens, ProperlyTyped
    <3>3. PausesMeet(queue[w], running[w]) /\ \A k \in Key : ~IsRunning(k)'
        BY <1>2, <1>5, <2>1, <3>2 DEF Only
    <3>4. alive \subseteq alive' /\ alive' \subseteq Wrapper /\ w \in alive' /\ current' = w
        BY <1>2, <3>1 DEF Opens
    <3>5. queue[w] \in Seq(ProperEvent) /\ \A i \in DOMAIN queue[w] : FALSE
        BY <1>2, <3>2
    <3>6. transcoderReady'
        BY <1>11 DEF MakesFirstCall
    <3> QED BY <1>1, <3>2, <3>3, <3>4, <3>5, <3>6, QueueChangesLemma
  <2>2. CASE \E op \in {"start", "resume"}, top \in Key :
                out' = <<CreateOnly, Call(op, top)>> /\ Only(top)
    <3>1. PICK op \in {"start", "resume"}, top \in Key :
                out' = <<CreateOnly, Call(op, top)>> /\ Only(top)
        BY <2>2
    <3> DEFINE e == W!EventOf(Call(op, top))
    <3>2. e \in ProperEvent /\ e.type \in {"Start", "Resume"} /\ e.key = top
        BY <1>3, EventOfLemma
    <3>3. PICK w : Opens(w) /\ queue' = [queue EXCEPT ![w] = Append(@, e)]
      <4>1. Call(op, top).op # "create"
          BY DEF Call
      <4> QED BY <1>0, <3>1, <4>1, TakeCallsLemma
    <3> HIDE DEF e
    <3> DEFINE q == Append(queue[w], e)
    <3>4. w \in Wrapper /\ q \in Seq(ProperEvent) /\ queue[w] = <<>>
        BY <1>2, <3>2, <3>3 DEF Opens
    <3>5. queue' = [queue EXCEPT ![w] = q] /\ queue'[w] = q
        BY <1>0, <3>3, <3>4 DEF ProperlyTyped
    <3>6. PausesMeet(q, running[w]) /\ Meets(q, running[w], Len(q) + 1, top)
        BY <1>2, <3>2, <3>4, MeetsAppendLemma
    <3>7. \A i \in DOMAIN q : q[i].type # "Abandon"
        BY <3>2, <3>4
    <3> HIDE DEF q
    <3>8. alive \subseteq alive' /\ alive' \subseteq Wrapper /\ w \in alive' /\ current' = w
        BY <1>2, <3>3 DEF Opens
    <3>9. \A k \in Key : IsRunning(k)' =>
            Meets(queue'[current'], running[current'], Len(queue'[current']) + 1, k)
        BY <3>1, <3>5, <3>6, <3>8 DEF Only
    <3> QED BY <1>1, <1>11, <3>4, <3>5, <3>6, <3>7, <3>8, <3>9, QueueChangesLemma DEF MakesFirstCall
  <2> QED BY <1>11, <2>1, <2>2 DEF MakesFirstCall
<1>12. ASSUME transcoderReady, transcoderReady', NEW q \in Seq(ProperEvent),
              queue' = [queue EXCEPT ![current] = q], UNCHANGED <<alive, current>>,
              PausesMeet(q, running[current]),
              \A i \in DOMAIN q : q[i].type # "Abandon",
              \A k \in Key : IsRunning(k)' => Meets(q, running[current], Len(q) + 1, k)
       PROVE  PipelineInv'
  <2>1. current \in Wrapper /\ current \in alive /\ queue'[current'] = q
      BY <1>0, <1>2, <1>12 DEF ProperlyTyped
  <2> QED BY <1>1, <1>2, <1>12, <2>1, QueueChangesLemma
<1>13. ASSUME transcoderReady, NEW q \in Seq(ProperEvent), \A i \in DOMAIN q : q[i].type # "Abandon",
              NEW e \in ProperEvent, e.type # "Abandon"
       PROVE  /\ Append(q, e) \in Seq(ProperEvent)
              /\ \A i \in DOMAIN Append(q, e) : Append(q, e)[i].type # "Abandon"
    BY <1>13
<1>14. transcoderReady => current \in Wrapper /\ queue[current] \in Seq(ProperEvent)
    BY <1>2
<1>15. CASE SwitchesSession
  <2>1. transcoderReady /\ transcoderReady' /\ current \in Wrapper
      BY <1>14, <1>15 DEF SwitchesSession
  <2>2. CASE \E c \in Key : IsRunning(c) /\ out' = <<Call("pause", c)>> /\ Only(NoSession)
    <3>1. PICK c \in Key : IsRunning(c) /\ out' = <<Call("pause", c)>> /\ Only(NoSession)
        BY <2>2
    <3> DEFINE e == [type |-> "Pause", key |-> c]
               q == Append(queue[current], e)
    <3>2. UNCHANGED <<alive, current>> /\ queue' = [queue EXCEPT ![current] = q]
      <4>1. Call("pause", c).op # "create" /\ W!EventOf(Call("pause", c)) = e
          BY EventOfLemma DEF Call
      <4> QED BY <1>0, <2>1, <3>1, <4>1, TakeCallsLemma
    <3>3. e \in ProperEvent /\ e.type = "Pause" /\ e.key = c
        BY <1>3
    <3>4. PausesMeet(q, running[current])
        BY <1>2, <1>7, <2>1, <3>1, <3>3, MeetsAppendLemma
    <3>5. \A k \in Key : ~IsRunning(k)'
        BY <1>5, <3>1 DEF Only
    <3>6. q \in Seq(ProperEvent) /\ \A i \in DOMAIN q : q[i].type # "Abandon"
        BY <1>6, <1>13, <1>14, <2>1, <3>3
    <3> HIDE DEF q, e
    <3> QED BY <1>12, <2>1, <3>2, <3>4, <3>5, <3>6
  <2>3. CASE \E op \in {"start", "resume"}, top \in Key : out' = <<Call(op, top)>> /\ Only(top)
    <3>1. PICK op \in {"start", "resume"}, top \in Key : out' = <<Call(op, top)>> /\ Only(top)
        BY <2>3
    <3> DEFINE e == W!EventOf(Call(op, top))
               q == Append(queue[current], e)
    <3>2. UNCHANGED <<alive, current>> /\ queue' = [queue EXCEPT ![current] = q]
      <4>1. Call(op, top).op # "create"
          BY DEF Call
      <4> QED BY <1>0, <2>1, <3>1, <4>1, TakeCallsLemma
    <3>3. e \in ProperEvent /\ e.type \in {"Start", "Resume"} /\ e.key = top
        BY <1>3, EventOfLemma
    <3> HIDE DEF e
    <3>4. PausesMeet(q, running[current]) /\ Meets(q, running[current], Len(q) + 1, top)
        BY <1>2, <2>1, <3>3, MeetsAppendLemma
    <3>5. \A k \in Key : IsRunning(k)' => Meets(q, running[current], Len(q) + 1, k)
        BY <3>1, <3>4 DEF Only
    <3>6. q \in Seq(ProperEvent) /\ \A i \in DOMAIN q : q[i].type # "Abandon"
        BY <1>6, <1>13, <1>14, <2>1, <3>3
    <3> HIDE DEF q
    <3> QED BY <1>12, <2>1, <3>2, <3>4, <3>5, <3>6
  <2>4. CASE \E c \in Key, op \in {"start", "resume"}, top \in Key :
            /\ IsRunning(c) /\ Only(top)
            /\ out' = <<Call("pause", c), Call(op, top)>>
    <3>1. PICK c \in Key, op \in {"start", "resume"}, top \in Key :
            /\ IsRunning(c) /\ Only(top)
            /\ out' = <<Call("pause", c), Call(op, top)>>
        BY <2>4
    <3> DEFINE d == [type |-> "Pause", key |-> c]
               e == W!EventOf(Call(op, top))
               p == Append(queue[current], d)
               q == Append(p, e)
    <3>2. UNCHANGED <<alive, current>> /\ queue' = [queue EXCEPT ![current] = q]
      <4>1. /\ Call(op, top).op # "create" /\ Call("pause", c).op # "create"
            /\ W!EventOf(Call("pause", c)) = d
          BY EventOfLemma DEF Call
      <4> HIDE DEF d
      <4> QED BY <1>0, <2>1, <3>1, <4>1, TakeCallsLemma
    <3>3. d \in ProperEvent /\ d.type = "Pause" /\ d.key = c
        BY <1>3
    <3>4. e \in ProperEvent /\ e.type \in {"Start", "Resume"} /\ e.key = top
        BY <1>3, EventOfLemma
    <3> HIDE DEF d, e
    <3>5. PausesMeet(p, running[current])
        BY <1>2, <1>7, <2>1, <3>1, <3>3, MeetsAppendLemma
    <3>6. p \in Seq(ProperEvent) /\ \A i \in DOMAIN p : p[i].type # "Abandon"
        BY <1>6, <1>13, <1>14, <2>1, <3>3
    <3> HIDE DEF p
    <3>7. PausesMeet(q, running[current]) /\ Meets(q, running[current], Len(q) + 1, top)
        BY <3>4, <3>5, <3>6, MeetsAppendLemma
    <3>8. \A k \in Key : IsRunning(k)' => Meets(q, running[current], Len(q) + 1, k)
        BY <3>1, <3>7 DEF Only
    <3>9. q \in Seq(ProperEvent) /\ \A i \in DOMAIN q : q[i].type # "Abandon"
        BY <1>13, <2>1, <3>4, <3>6
    <3> HIDE DEF q
    <3> QED BY <1>12, <2>1, <3>2, <3>7, <3>8, <3>9
  <2> QED BY <1>15, <2>2, <2>3, <2>4 DEF SwitchesSession
<1>16. ASSUME NEW k \in Key, StopsSession(k) PROVE PipelineInv'
  <2>1. transcoderReady /\ transcoderReady' /\ current \in Wrapper /\ Fewer
      BY <1>14, <1>16 DEF StopsSession
  <2> DEFINE e == [type |-> "Stop", key |-> k]
             q == Append(queue[current], e)
  <2>2. UNCHANGED <<alive, current>> /\ queue' = [queue EXCEPT ![current] = q]
    <3>1. Call("stop", k).op # "create" /\ W!EventOf(Call("stop", k)) = e
        BY EventOfLemma DEF Call
    <3> QED BY <1>0, <1>16, <2>1, <3>1, TakeCallsLemma DEF StopsSession
  <2>3. e \in ProperEvent /\ e.type = "Stop"
      BY <1>3
  <2> HIDE DEF e
  <2>4. PausesMeet(q, running[current])
      BY <1>2, <2>1, <2>3, MeetsAppendLemma
  <2>5. \A j \in Key : IsRunning(j)' => Meets(q, running[current], Len(q) + 1, j)
      BY <1>7, <1>14, <2>1, <2>3, MeetsAppendLemma DEF Fewer, Switches
  <2>6. q \in Seq(ProperEvent) /\ \A i \in DOMAIN q : q[i].type # "Abandon"
      BY <1>6, <1>13, <1>14, <2>1, <2>3
  <2> HIDE DEF q
  <2> QED BY <1>12, <2>1, <2>2, <2>4, <2>5, <2>6
<1>17. ASSUME NEW k \in Key, AbandonsWrapper(k) PROVE PipelineInv'
  <2>1. transcoderReady /\ transcoderReady' /\ current \in Wrapper /\ current \in alive
      BY <1>2, <1>14, <1>17 DEF AbandonsWrapper
  <2> DEFINE d == [type |-> "Stop", key |-> k]
             e == [type |-> "Abandon", key |-> NoSession]
             p == Append(queue[current], d)
             q == Append(p, e)
  <2>2. PICK w : Opens(w) /\ queue' = [queue EXCEPT ![current] = q]
    <3>1. W!EventOf(Call("stop", k)) = d /\ W!EventOf(Call("abandon", NoSession)) = e
        BY EventOfLemma
    <3> HIDE DEF d, e
    <3> QED BY <1>0, <1>17, <2>1, <3>1, TakeCallsLemma DEF AbandonsWrapper
  <2>3. d \in ProperEvent /\ d.type = "Stop" /\ e \in ProperEvent /\ e.type = "Abandon"
      BY <1>3
  <2> HIDE DEF d, e
  <2>4. p \in Seq(ProperEvent) /\ PausesMeet(p, running[current])
    <3>1. queue[current] \in Seq(ProperEvent) /\ PausesMeet(queue[current], running[current])
        BY <1>2, <2>1
    <3>2. d.type # "Pause"
        BY <2>3
    <3>3. PausesMeet(Append(queue[current], d), running[current])
        BY <2>3, <3>1, <3>2, MeetsAppendLemma
    <3> QED BY <2>3, <3>1, <3>3
  <2> HIDE DEF p
  <2>5. q \in Seq(ProperEvent) /\ PausesMeet(q, running[current])
      BY <2>3, <2>4, MeetsAppendLemma
  <2> HIDE DEF q
  <2>6. /\ alive \subseteq alive' /\ alive' \subseteq Wrapper
        /\ current' = w /\ w \in alive' /\ w # current /\ w \in Wrapper \ alive
      BY <1>2, <2>1, <2>2 DEF Opens
  <2>7. queue[w] = <<>> /\ queue'[w] = <<>> /\ running[w] = W!NoRun
      BY <1>0, <1>2, <2>2, <2>6 DEF ProperlyTyped
  <2>8. \A j : Meets(queue'[current'], running[current'], Len(queue'[current']) + 1, j)
    <3>1. \A m \in 1..((0 + 1) - 1) : FALSE
        OBVIOUS
    <3> QED BY <2>6, <2>7, <3>1 DEF Meets, W!NoRun
  <2> QED BY <1>1, <2>1, <2>2, <2>5, <2>6, <2>7, <2>8, QueueChangesLemma
<1> QED BY <1>4, <1>10, <1>11, <1>15, <1>16, <1>17, CallsLemma

-----------------------------------------------------------------------------
(* Steps of the wrappers keep PipelineInv.                                  *)

NoticeOf(w, k) ==
    {W!FinishNotice(w, k), W!ErrorNotice(w, k, "resource"), W!ErrorNotice(w, k, "other")}

LEMMA ReportsLemma ==
    ASSUME ProperlyTyped, NEW w \in alive, NEW k \in Key, NEW left \in SUBSET NoticeOf(w, k),
           W!Reports(left)
    PROVE  IsABag(notices)' /\ DOMAIN notices' \subseteq ProperNotice
<1>1. left \subseteq ProperNotice
  <2>1. \A e \in ProperEvent : e.type \in {"Finish", "Error"} =>
            [wrapper |-> w, event |-> e] \in ProperNotice
      BY DEF ProperNotice
  <2>2. /\ [type |-> "Finish", key |-> k] \in ProperEvent
        /\ \A err \in {"resource", "other"} :
            [type |-> "Error", key |-> k, err |-> err] \in ProperEvent
      BY DEF ProperEvent
  <2>3. NoticeOf(w, k) \subseteq ProperNotice
      BY <2>1, <2>2 DEF NoticeOf, W!FinishNotice, W!ErrorNotice
  <2> QED BY <2>3
<1>2. notices' = [e \in DOMAIN notices \cup left |->
            (IF e \in DOMAIN notices THEN notices[e] ELSE 0) + (IF e \in left THEN 1 ELSE 0)]
    BY DEF W!Reports, W!(+), W!SetToBag
<1>3. notices \in [DOMAIN notices -> {n \in Nat : n > 0}] /\ DOMAIN notices \subseteq ProperNotice
    BY DEF ProperlyTyped, IsABag
<1> QED BY <1>1, <1>2, <1>3 DEF IsABag

(* What handling the first event of w's queue does, unless it is Abandon.   *)
Handled(w) ==
    /\ w \in alive /\ callback[w] = W!NoCallback
    /\ queue[w] # <<>> /\ queue' = [queue EXCEPT ![w] = Tail(@)]
    /\ UNCHANGED <<current, alive>>
    /\ running' \in [Wrapper -> W!Run \cup {W!NoRun}]
    /\ \A v \in Wrapper \ {w} : running'[v] = running[v] /\ callback'[v] = callback[v]
    /\ Follows(Head(queue[w]), running[w], running'[w])
    /\ pausedState' \in [Wrapper -> SUBSET Key]
    /\ callback' \in [Wrapper -> W!Callback \cup {W!NoCallback}]
    /\ IsABag(notices)' /\ DOMAIN notices' \subseteq ProperNotice

(* A session that the event starts, or whose run it ends, is run or         *)
(* reported, unless the event pauses or stops it: only then may the thread  *)
(* of the wrapper be stuck.                                                 *)
Accounted(w) ==
    LET e == Head(queue[w])
        found == {running'[w].key, callback'[w].key}
        stops == e.type = "Stop" /\ e.key = running[w].key
    IN  /\ e.type \in {"Start", "Resume"} => e.key \in found
        /\ ~Switches(e) /\ ~stops => running[w].key \in found \cup {NoSession}
        /\ running'[w].threads = "stuck" => e.type = "Pause" \/ stops

LEMMA HandledLemma ==
    ASSUME ProperlyTyped, NEW w \in Wrapper,
           \/ W!HandleStart(w) \/ W!HandlePause(w) \/ W!HandleResume(w) \/ W!HandleStop(w)
           \/ W!HandlerHangs(w) \/ W!HandleFinish(w) \/ W!HandleError(w)
    PROVE  Handled(w) /\ Accounted(w)
<1> DEFINE e == Head(queue[w])
<1>1. /\ queue[w] \in Seq(ProperEvent)
      /\ running \in [Wrapper -> W!Run \cup {W!NoRun}]
      /\ pausedState \in [Wrapper -> SUBSET Key]
      /\ callback \in [Wrapper -> W!Callback \cup {W!NoCallback}]
      /\ IsABag(notices) /\ DOMAIN notices \subseteq ProperNotice
    BY DEF ProperlyTyped
<1>2. /\ w \in alive /\ callback[w] = W!NoCallback
      /\ queue[w] # <<>> /\ queue' = [queue EXCEPT ![w] = Tail(@)]
      /\ UNCHANGED <<current, alive>>
      /\ running[w].threads # "stuck"
    BY DEF W!HandleStart, W!HandlePause, W!HandleResume, W!HandleStop, W!HandlerHangs,
           W!HandleFinish, W!HandleError, W!Pops, W!Looping, W!Stuck
<1>3. e \in ProperEvent
    BY <1>1, <1>2
<1>4. /\ \A k \in Key : [key |-> k, threads |-> "busy"] \in W!Run
      /\ \A k \in Key, name \in {"onFinish", "onError", "onResourceLost"} :
            [name |-> name, key |-> k] \in W!Callback
    BY DEF W!Run, W!Callback
<1>5. running[w] = W!NoRun \/ running[w].key \in Key
    BY <1>1 DEF W!Run
<1>6. W!NoRun.key = NoSession /\ NoSession \notin Key /\ W!NoRun.threads # "stuck"
    BY NoSessionAssumption DEF W!NoRun
<1> DEFINE Lets == /\ running' \in [Wrapper -> W!Run \cup {W!NoRun}]
                   /\ \A v \in Wrapper \ {w} : running'[v] = running[v]
           Tells == /\ callback' \in [Wrapper -> W!Callback \cup {W!NoCallback}]
                    /\ \A v \in Wrapper \ {w} : callback'[v] = callback[v]
           Notes == IsABag(notices)' /\ DOMAIN notices' \subseteq ProperNotice
           Saves == pausedState' \in [Wrapper -> SUBSET Key]
<1>7. ASSUME Lets, Tells, Notes, Saves, Follows(e, running[w], running'[w]) PROVE Handled(w)
    BY <1>2, <1>7 DEF Handled
<1>8. UNCHANGED notices => Notes
    BY <1>1 DEF IsABag
<1>9. UNCHANGED callback => Tells
    BY <1>1
<1>10. ASSUME NEW k \in Key, NEW err, NEW states \in SUBSET Key, W!ReportError(w, k, err, states)
       PROVE  Tells /\ Saves /\ callback'[w].key = k
  <2>1. PICK name \in {"onError", "onResourceLost"}, kept \in SUBSET Key :
            /\ callback' = [callback EXCEPT ![w] = [name |-> name, key |-> k]]
            /\ pausedState' = [pausedState EXCEPT ![w] = kept]
    <3>1. states \cup {k} \in SUBSET Key
        BY <1>10
    <3> QED BY <1>10, <3>1 DEF W!ReportError, W!Calls
  <2>2. [name |-> name, key |-> k] \in W!Callback /\ [name |-> name, key |-> k].key = k
      BY <1>4
  <2>3. callback'[w] = [name |-> name, key |-> k]
      BY <1>1, <2>1
  <2> QED BY <1>1, <2>1, <2>2, <2>3
<1>11. ASSUME NEW r \in W!Run \cup {W!NoRun}, running' = [running EXCEPT ![w] = r]
       PROVE  Lets /\ running'[w] = r
    BY <1>1, <1>11
<1>12. ASSUME NEW k \in Key, NEW states \in SUBSET Key, W!SetUp(w, k, states)
       PROVE  /\ Lets /\ Tells /\ Saves
              /\ running'[w].key \in {k, NoSession}
              /\ k \in {running'[w].key, callback'[w].key}
              /\ running'[w].threads # "stuck"
  <2>1. CASE /\ running' = [running EXCEPT ![w] = [key |-> k, threads |-> "busy"]]
             /\ pausedState' = [pausedState EXCEPT ![w] = states]
             /\ UNCHANGED callback
    <3>1. Lets /\ running'[w] = [key |-> k, threads |-> "busy"]
        BY <1>4, <1>11, <2>1
    <3> QED BY <1>1, <1>9, <2>1, <3>1
  <2>2. CASE /\ running' = [running EXCEPT ![w] = W!NoRun]
             /\ \E err : W!ReportError(w, k, err, states)
    <3>1. Lets /\ running'[w] = W!NoRun
        BY <1>11, <2>2
    <3>2. Tells /\ Saves /\ callback'[w].key = k
        BY <1>10, <2>2
    <3> QED BY <1>6, <3>1, <3>2
  <2> QED BY <1>12, <2>1, <2>2 DEF W!SetUp
<1>13. CASE W!HandleStart(w)
  <2>1. /\ e.type = "Start" /\ UNCHANGED notices
        /\ W!SetUp(w, e.key, pausedState[w])
      BY <1>13 DEF W!HandleStart, W!Pops
  <2>2. e.key \in Key /\ pausedState[w] \in SUBSET Key
      BY <1>1, <1>3, <2>1 DEF ProperEvent
  <2> HIDE DEF e, Lets, Tells, Notes, Saves
  <2>3. /\ Lets /\ Tells /\ Saves /\ Notes
        /\ running'[w].key \in {e.key, NoSession}
        /\ e.key \in {running'[w].key, callback'[w].key}
        /\ running'[w].threads # "stuck"
      BY <1>8, <1>12, <2>1, <2>2
  <2>4. Follows(e, running[w], running'[w])
      BY <2>1, <2>3 DEF Follows, Switches
  <2>5. Accounted(w)
      BY <2>1, <2>3 DEF Accounted, Switches, e
  <2> QED BY <1>7, <2>3, <2>4, <2>5
<1>14. CASE W!HandleResume(w)
  <2>1. /\ e.type = "Resume" /\ UNCHANGED notices
        /\ \/ W!SetUp(w, e.key, pausedState[w] \ {e.key})
           \/ /\ running' = [running EXCEPT ![w] = W!NoRun]
              /\ W!ReportError(w, e.key, "other", pausedState[w])
      BY <1>14 DEF W!HandleResume, W!Pops
  <2>2. e.key \in Key /\ pausedState[w] \in SUBSET Key /\ pausedState[w] \ {e.key} \in SUBSET Key
      BY <1>1, <1>3, <2>1 DEF ProperEvent
  <2> HIDE DEF e, Lets, Tells, Notes, Saves
  <2>3. /\ Lets /\ Tells /\ Saves /\ Notes
        /\ running'[w].key \in {e.key, NoSession}
        /\ e.key \in {running'[w].key, callback'[w].key}
        /\ running'[w].threads # "stuck"
    <3>1. CASE W!SetUp(w, e.key, pausedState[w] \ {e.key})
        BY <1>8, <1>12, <2>1, <2>2, <3>1
    <3>2. CASE /\ running' = [running EXCEPT ![w] = W!NoRun]
               /\ W!ReportError(w, e.key, "other", pausedState[w])
      <4>1. Lets /\ running'[w] = W!NoRun
          BY <1>11, <3>2
      <4> QED BY <1>6, <1>8, <1>10, <2>1, <2>2, <3>2, <4>1
    <3> QED BY <2>1, <3>1, <3>2
  <2>4. Follows(e, running[w], running'[w])
      BY <2>1, <2>3 DEF Follows, Switches
  <2>5. Accounted(w)
      BY <2>1, <2>3 DEF Accounted, Switches, e
  <2> QED BY <1>7, <2>3, <2>4, <2>5
<1>15. ASSUME NEW left \in W!Leftovers(w), running[w] # W!NoRun, W!Reports(left)
       PROVE  Notes
  <2>1. running[w].key \in Key
      BY <1>5, <1>15
  <2>2. left \subseteq NoticeOf(w, running[w].key)
      BY <1>15 DEF W!Leftovers, NoticeOf
  <2> QED BY <1>2, <1>15, <2>1, <2>2, ReportsLemma
<1>16. CASE W!HandlePause(w)
  <2>1. /\ e.type = "Pause"
        /\ running' = [running EXCEPT ![w] = W!NoRun]
        /\ \/ W!ReportError(w, e.key, "other", pausedState[w]) /\ UNCHANGED notices
           \/ /\ running[w] # W!NoRun
              /\ pausedState' = [pausedState EXCEPT ![w] = @ \cup {e.key}]
              /\ \E left \in W!Leftovers(w) : W!Reports(left)
              /\ UNCHANGED callback
      BY <1>16 DEF W!HandlePause, W!Pops
  <2>2. e.key \in Key /\ pausedState[w] \in SUBSET Key
      BY <1>1, <1>3, <2>1 DEF ProperEvent
  <2>3. pausedState' = [pausedState EXCEPT ![w] = @ \cup {e.key}] => Saves
      BY <1>1, <2>2
  <2> HIDE DEF e, Lets, Tells, Notes, Saves
  <2>4. Lets /\ running'[w] = W!NoRun
      BY <1>11, <2>1
  <2>5. Tells /\ Saves /\ Notes
      BY <1>8, <1>9, <1>10, <1>15, <2>1, <2>2, <2>3
  <2>6. Follows(e, running[w], running'[w])
      BY <1>6, <2>1, <2>4 DEF Follows, Switches
  <2>7. Accounted(w)
      BY <2>1 DEF Accounted, Switches, e
  <2> QED BY <1>7, <2>4, <2>5, <2>6, <2>7
<1>17. CASE W!HandleStop(w)
  <2>1. /\ e.type = "Stop" /\ UNCHANGED callback
        /\ \/ /\ running[w].key = e.key
              /\ running' = [running EXCEPT ![w] = W!NoRun]
              /\ \E left \in W!Leftovers(w) : W!Reports(left)
              /\ UNCHANGED pausedState
           \/ /\ running[w].key # e.key
              /\ pausedState' = [pausedState EXCEPT ![w] = @ \ {e.key}]
              /\ UNCHANGED <<running, notices>>
      BY <1>17 DEF W!HandleStop, W!Pops
  <2>2. e.key \in Key
      BY <1>3, <2>1 DEF ProperEvent
  <2>3. /\ pausedState' = [pausedState EXCEPT ![w] = @ \ {e.key}] => Saves
        /\ UNCHANGED pausedState => Saves
        /\ UNCHANGED running => Lets
      BY <1>1
  <2> HIDE DEF e, Lets, Tells, Notes, Saves
  <2>4. Tells
      BY <1>9, <2>1
  <2>5. CASE /\ running[w].key = e.key
             /\ running' = [running EXCEPT ![w] = W!NoRun]
             /\ \E left \in W!Leftovers(w) : W!Reports(left)
             /\ UNCHANGED pausedState
    <3>1. Lets /\ running'[w] = W!NoRun
        BY <1>11, <2>5
    <3>2. running[w] # W!NoRun
        BY <1>6, <2>2, <2>5
    <3>3. Notes /\ Saves
        BY <1>15, <2>3, <2>5, <3>2
    <3>4. Follows(e, running[w], running'[w])
        BY <1>6, <2>1, <3>1 DEF Follows, Switches
    <3>5. Accounted(w)
        BY <2>1, <2>5 DEF Accounted, Switches, e
    <3> QED BY <1>7, <2>4, <3>1, <3>3, <3>4, <3>5
  <2>6. CASE /\ running[w].key # e.key
             /\ pausedState' = [pausedState EXCEPT ![w] = @ \ {e.key}]
             /\ UNCHANGED <<running, notices>>
    <3>1. Lets /\ Saves /\ Notes
        BY <1>8, <2>3, <2>6
    <3>2. Follows(e, running[w], running'[w])
        BY <2>1, <2>6 DEF Follows, Switches
    <3>3. Accounted(w)
        BY <1>2, <2>1, <2>6 DEF Accounted, Switches, e
    <3> QED BY <1>7, <2>4, <3>1, <3>2, <3>3
  <2> QED BY <2>1, <2>5, <2>6
<1>18. ASSUME e.type \in {"Finish", "Error"}, e.key \in Key, W!LetGo(w, e.key),
              callback'[w].key = e.key, Tells, Saves, UNCHANGED notices
       PROVE  Handled(w) /\ Accounted(w)
  <2>1. /\ Lets
        /\ IF running[w].key = e.key THEN running'[w] = W!NoRun ELSE running'[w] = running[w]
      BY <1>1, <1>11, <1>18 DEF W!LetGo
  <2> HIDE DEF e, Lets, Tells, Notes, Saves
  <2>2. Follows(e, running[w], running'[w])
      BY <1>6, <1>18, <2>1 DEF Follows, Switches
  <2>3. Accounted(w)
      BY <1>2, <1>6, <1>18, <2>1 DEF Accounted, Switches, e
  <2> QED BY <1>7, <1>8, <1>18, <2>1, <2>2, <2>3
<1>19. CASE W!HandleFinish(w)
  <2>1. /\ e.type = "Finish" /\ UNCHANGED <<pausedState, notices>>
        /\ W!LetGo(w, e.key) /\ callback' = [callback EXCEPT ![w] = [name |-> "onFinish", key |-> e.key]]
      BY <1>19 DEF W!HandleFinish, W!Pops, W!Calls
  <2>2. e.key \in Key
      BY <1>3, <2>1 DEF ProperEvent
  <2>3. Tells /\ Saves /\ callback'[w].key = e.key
      BY <1>1, <1>4, <2>1, <2>2
  <2> HIDE DEF e, Lets, Tells, Notes, Saves
  <2> QED BY <1>18, <2>1, <2>2, <2>3
<1>20. CASE W!HandleError(w)
  <2>1. /\ e.type = "Error" /\ UNCHANGED notices
        /\ W!LetGo(w, e.key) /\ W!ReportError(w, e.key, e.err, pausedState[w])
      BY <1>20 DEF W!HandleError, W!Pops
  <2>2. e.key \in Key /\ pausedState[w] \in SUBSET Key
      BY <1>1, <1>3, <2>1 DEF ProperEvent
  <2> HIDE DEF e, Lets, Tells, Notes, Saves
  <2>3. Tells /\ Saves /\ callback'[w].key = e.key
      BY <1>10, <2>1, <2>2
  <2> QED BY <1>18, <2>1, <2>2, <2>3
<1>21. CASE W!HandlerHangs(w)
  <2>1. /\ e.type = "Pause" \/ (e.type = "Stop" /\ e.key = running[w].key)
        /\ running[w].threads = "busy"
        /\ running' = [running EXCEPT ![w].threads = "stuck"]
        /\ UNCHANGED <<pausedState, callback, notices>>
      BY <1>21 DEF W!HandlerHangs, W!Pops
  <2>2. running[w] \in W!Run
      BY <1>1, <2>1 DEF W!NoRun
  <2>3. Lets /\ running'[w].key = running[w].key
      BY <1>1, <2>1, <2>2 DEF W!Run
  <2>4. Saves
      BY <1>1, <2>1
  <2> HIDE DEF e, Lets, Tells, Notes, Saves
  <2>5. Follows(e, running[w], running'[w])
      BY <2>1, <2>3 DEF Follows, Switches
  <2>6. Accounted(w)
      BY <2>1 DEF Accounted, Switches, e
  <2> QED BY <1>7, <1>8, <1>9, <2>1, <2>3, <2>4, <2>5, <2>6
<1> QED BY <1>13, <1>14, <1>16, <1>17, <1>19, <1>20, <1>21

(* The wrappers move and the controller does not. *)
LEMMA SameControllerLemma ==
    ASSUME UNCHANGED vars
    PROVE  /\ transcoderReady' = transcoderReady /\ Sessions' = Sessions
           /\ \A k : (IsRunning(k)' <=> IsRunning(k)) /\ (Heeded(k)' <=> Heeded(k))
BY DEF vars, schedVars, Sessions, IsRunning, Heeded, StateOf

LEMMA HandleLemma ==
    ASSUME PipelineInv, UNCHANGED vars, NEW w \in Wrapper, Handled(w)
    PROVE  PipelineInv'
<1>0. ProperlyTyped /\ SlotsAreClean /\ PausesWillMeet
    BY DEF PipelineInv
<1>1. /\ queue \in [Wrapper -> Seq(ProperEvent)] /\ alive \subseteq Wrapper
      /\ \A v \in Wrapper : queue[v] \in Seq(ProperEvent)
    BY <1>0 DEF ProperlyTyped
<1>2. /\ w \in alive /\ queue[w] # <<>> /\ UNCHANGED <<current, alive>>
      /\ \A v \in Wrapper \ {w} :
            running'[v] = running[v] /\ callback'[v] = callback[v] /\ queue'[v] = queue[v]
      /\ queue'[w] = Tail(queue[w]) /\ Tail(queue[w]) \in Seq(ProperEvent)
    BY <1>1 DEF Handled
<1>3. ProperlyTyped'
  <2>1. queue' \in [Wrapper -> Seq(ProperEvent)]
      BY <1>1, <1>2 DEF Handled
  <2> QED BY <1>1, <2>1 DEF ProperlyTyped, Handled, ProperNotice
<1>4. SlotsAreClean'
  <2>1. \A i \in DOMAIN queue'[w] : queue'[w][i].type = "Abandon" => w # current
    <3>1. \A i \in DOMAIN Tail(queue[w]) :
            i + 1 \in DOMAIN queue[w] /\ Tail(queue[w])[i] = queue[w][i + 1]
        BY <1>1, <1>2
    <3> QED BY <1>0, <1>2, <3>1 DEF SlotsAreClean
  <2>2. ASSUME NEW v \in Wrapper
        PROVE  /\ \A i \in DOMAIN queue'[v] : queue'[v][i].type = "Abandon" => v # current'
               /\ v \notin alive' =>
                    queue'[v] = <<>> /\ running'[v] = W!NoRun /\ callback'[v] = W!NoCallback
      BY <1>0, <1>2, <2>1 DEF SlotsAreClean
  <2>3. \A k \in Sessions' : Heeded(k)' => transcoderReady'
      BY <1>0, SameControllerLemma DEF SlotsAreClean
  <2>4. IF transcoderReady' THEN current' \in alive' ELSE current' = NoWrapper
      BY <1>0, <1>2, SameControllerLemma DEF SlotsAreClean
  <2> QED BY <2>2, <2>3, <2>4 DEF SlotsAreClean
<1>5. /\ PausesMeet(queue[w], running[w]) => PausesMeet(Tail(queue[w]), running'[w])
      /\ \A k : Meets(queue[w], running[w], Len(queue[w]) + 1, k) =>
            Meets(Tail(queue[w]), running'[w], Len(Tail(queue[w])) + 1, k)
    BY <1>1, <1>2, MeetsTailLemma DEF Handled
<1>6. PausesWillMeet'
  <2>1. \A v \in Wrapper : PausesMeet(queue'[v], running'[v])
      BY <1>0, <1>2, <1>5 DEF PausesWillMeet
  <2>2. ASSUME NEW k \in Key, IsRunning(k)'
        PROVE  Meets(queue'[current'], running'[current'], Len(queue'[current']) + 1, k)
    <3>1. /\ Meets(queue[current], running[current], Len(queue[current]) + 1, k)
          /\ k \in Sessions /\ Heeded(k)
        BY <1>0, <2>2, SameControllerLemma DEF PausesWillMeet, IsRunning, Heeded
    <3>2. current \in Wrapper
        BY <1>0, <1>1, <3>1 DEF SlotsAreClean
    <3> QED BY <1>2, <1>5, <3>1, <3>2
  <2> QED BY <2>1, <2>2 DEF PausesWillMeet
<1> QED BY <1>3, <1>4, <1>6 DEF PipelineInv

LEMMA AbandonLemma ==
    ASSUME PipelineInv, UNCHANGED vars, NEW w \in Wrapper, W!HandleAbandon(w)
    PROVE  PipelineInv'
<1>0. ProperlyTyped /\ SlotsAreClean /\ PausesWillMeet
    BY DEF PipelineInv
<1>1. /\ w \in alive /\ callback[w] = W!NoCallback
      /\ queue[w] # <<>> /\ Head(queue[w]).type = "Abandon"
      /\ alive' = alive \ {w} /\ UNCHANGED <<current, callback>>
      /\ queue' = [queue EXCEPT ![w] = <<>>]
      /\ running' = [running EXCEPT ![w] = W!NoRun]
      /\ pausedState' = [pausedState EXCEPT ![w] = {}]
      /\ notices' = [n \in {m \in DOMAIN notices : m.wrapper # w} |-> notices[n]]
    BY DEF W!HandleAbandon, W!Looping
<1>2. /\ queue \in [Wrapper -> Seq(ProperEvent)] /\ alive \subseteq Wrapper
      /\ running \in [Wrapper -> W!Run \cup {W!NoRun}]
      /\ pausedState \in [Wrapper -> SUBSET Key]
    BY <1>0 DEF ProperlyTyped
<1>3. w # current
  <2>1. 1 \in DOMAIN queue[w] /\ queue[w][1].type = "Abandon"
      BY <1>1, <1>2
  <2> QED BY <1>0, <2>1 DEF SlotsAreClean
<1>4. /\ queue'[w] = <<>> /\ running'[w] = W!NoRun
      /\ \A v \in Wrapper \ {w} : queue'[v] = queue[v] /\ running'[v] = running[v]
    BY <1>1, <1>2
<1>5. ProperlyTyped'
  <2>1. DOMAIN notices' \subseteq ProperNotice'
    <3>1. \A n \in ProperNotice : n.wrapper # w => n \in ProperNotice'
        BY <1>1 DEF ProperNotice
    <3> QED BY <1>0, <1>1, <3>1 DEF ProperlyTyped
  <2>2. IsABag(notices)'
      BY <1>0, <1>1 DEF ProperlyTyped, IsABag
  <2>3. queue' \in [Wrapper -> Seq(ProperEvent)]
      BY <1>1, <1>2
  <2>4. running' \in [Wrapper -> W!Run \cup {W!NoRun}]
      BY <1>1, <1>2
  <2>5. pausedState' \in [Wrapper -> SUBSET Key]
      BY <1>1, <1>2
  <2> QED BY <1>0, <1>1, <1>2, <2>1, <2>2, <2>3, <2>4, <2>5 DEF ProperlyTyped
<1>6. SlotsAreClean'
  <2>1. ASSUME NEW v \in Wrapper
        PROVE  /\ \A i \in DOMAIN queue'[v] : queue'[v][i].type = "Abandon" => v # current'
               /\ v \notin alive' =>
                    queue'[v] = <<>> /\ running'[v] = W!NoRun /\ callback'[v] = W!NoCallback
      BY <1>0, <1>1, <1>3, <1>4 DEF SlotsAreClean
  <2>2. \A k \in Sessions' : Heeded(k)' => transcoderReady'
      BY <1>0, SameControllerLemma DEF SlotsAreClean
  <2>3. IF transcoderReady' THEN current' \in alive' ELSE current' = NoWrapper
      BY <1>0, <1>1, <1>3, SameControllerLemma DEF SlotsAreClean
  <2> QED BY <2>1, <2>2, <2>3 DEF SlotsAreClean
<1>7. PausesWillMeet'
  <2>1. PausesMeet(<<>>, W!NoRun)
      BY DEF PausesMeet
  <2>2. \A v \in Wrapper : PausesMeet(queue'[v], running'[v])
      BY <1>0, <1>4, <2>1 DEF PausesWillMeet
  <2>3. ASSUME NEW k \in Key, IsRunning(k)'
        PROVE  Meets(queue'[current'], running'[current'], Len(queue'[current']) + 1, k)
    <3>1. /\ Meets(queue[current], running[current], Len(queue[current]) + 1, k)
          /\ k \in Sessions /\ Heeded(k)
        BY <1>0, <2>3, SameControllerLemma DEF PausesWillMeet, IsRunning, Heeded
    <3>2. current \in Wrapper
        BY <1>0, <1>2, <3>1 DEF SlotsAreClean
    <3> QED BY <1>1, <1>3, <1>4, <3>1, <3>2
  <2> QED BY <2>2, <2>3 DEF PausesWillMeet
<1> QED BY <1>5, <1>6, <1>7 DEF PipelineInv

(* The end of a run changes no session's key. *)
LEMMA RunEndsLemma ==
    ASSUME PipelineInv, UNCHANGED vars, NEW w \in Wrapper,
           W!TranscoderFinishes(w) \/ W!TranscoderFails(w)
    PROVE  /\ PipelineInv'
           /\ \A v \in Wrapper :
                /\ running'[v].key = running[v].key
                /\ running'[v].threads = "stuck" => running[v].threads = "stuck"
           /\ UNCHANGED <<current, alive, queue, callback>>
<1>0. ProperlyTyped /\ SlotsAreClean /\ PausesWillMeet
    BY DEF PipelineInv
<1>1. PICK threads \in {"done", "failed"}, n \in NoticeOf(w, running[w].key) :
        W!ThreadsEnd(w, threads, n)
    BY DEF W!TranscoderFinishes, W!TranscoderFails, NoticeOf
<1>2. /\ running[w].threads = "busy"
      /\ running' = [running EXCEPT ![w].threads = threads]
      /\ W!Reports({n})
      /\ UNCHANGED <<current, alive, queue, pausedState, callback>>
    BY <1>1 DEF W!ThreadsEnd
<1>3. running \in [Wrapper -> W!Run \cup {W!NoRun}]
    BY <1>0 DEF ProperlyTyped
<1>4. running[w] # W!NoRun /\ running[w] \in W!Run
    BY <1>2, <1>3 DEF W!NoRun
<1>5. running[w].key \in Key /\ w \in alive
    BY <1>0, <1>4 DEF W!Run, SlotsAreClean
<1>6. /\ running' \in [Wrapper -> W!Run \cup {W!NoRun}]
      /\ \A v \in Wrapper :
            /\ running'[v].key = running[v].key
            /\ running'[v].threads = "stuck" => running[v].threads = "stuck"
      /\ \A v \in Wrapper \ alive : running'[v] = running[v]
    BY <1>2, <1>3, <1>4, <1>5 DEF W!Run
<1>7. IsABag(notices)' /\ DOMAIN notices' \subseteq ProperNotice
  <2>1. {n} \in SUBSET NoticeOf(w, running[w].key)
      BY <1>1
  <2> QED BY <1>0, <1>2, <1>5, <2>1, ReportsLemma
<1>8. ProperlyTyped'
    BY <1>0, <1>2, <1>6, <1>7 DEF ProperlyTyped, ProperNotice
<1>9. SlotsAreClean'
    BY <1>0, <1>2, <1>6, SameControllerLemma DEF SlotsAreClean
<1>10. \A v \in Wrapper : \A q, i, k : Meets(q, running[v], i, k) => Meets(q, running'[v], i, k)
    BY <1>6 DEF Meets
<1>11. PausesWillMeet'
  <2>1. \A v \in Wrapper : PausesMeet(queue'[v], running'[v])
      BY <1>0, <1>2, <1>10 DEF PausesWillMeet, PausesMeet
  <2>2. ASSUME NEW k \in Key, IsRunning(k)'
        PROVE  Meets(queue'[current'], running'[current'], Len(queue'[current']) + 1, k)
    <3>1. /\ Meets(queue[current], running[current], Len(queue[current]) + 1, k)
          /\ k \in Sessions /\ Heeded(k)
        BY <1>0, <2>2, SameControllerLemma DEF PausesWillMeet, IsRunning, Heeded
    <3>2. current \in Wrapper
        BY <1>0, <3>1 DEF SlotsAreClean, ProperlyTyped
    <3> QED BY <1>2, <1>10, <3>1, <3>2
  <2> QED BY <2>1, <2>2 DEF PausesWillMeet
<1> QED BY <1>2, <1>6, <1>8, <1>9, <1>11 DEF PipelineInv

LEMMA NotifyLemma ==
    ASSUME PipelineInv, UNCHANGED vars, NEW n \in DOMAIN notices, W!Notify(n)
    PROVE  PipelineInv'
<1>0. ProperlyTyped /\ SlotsAreClean /\ PausesWillMeet
    BY DEF PipelineInv
<1> DEFINE w == n.wrapper
           e == n.event
           q == Append(queue[w], e)
<1>1. /\ queue' = [queue EXCEPT ![w] = q]
      /\ UNCHANGED <<current, alive, running, pausedState, callback>>
    BY DEF W!Notify
<1>2. w \in alive /\ e \in ProperEvent /\ e.type \in {"Finish", "Error"}
    BY <1>0 DEF ProperlyTyped, ProperNotice
<1>3. /\ queue \in [Wrapper -> Seq(ProperEvent)] /\ alive \subseteq Wrapper
      /\ w \in Wrapper /\ queue[w] \in Seq(ProperEvent)
    BY <1>0, <1>2 DEF ProperlyTyped
<1> HIDE DEF w, e
<1>4. /\ q \in Seq(ProperEvent)
      /\ \A i \in DOMAIN q : q[i].type = "Abandon" =>
            i \in DOMAIN queue[w] /\ queue[w][i].type = "Abandon"
    BY <1>2, <1>3
<1>5. /\ PausesMeet(queue[w], running[w]) => PausesMeet(q, running[w])
      /\ \A k : Meets(queue[w], running[w], Len(queue[w]) + 1, k) =>
            Meets(q, running[w], Len(q) + 1, k)
  <2>1. ~Switches(e) /\ e.type # "Pause"
      BY <1>2 DEF Switches
  <2> QED BY <1>2, <1>3, <2>1, MeetsAppendLemma
<1> HIDE DEF q
<1>6. queue'[w] = q /\ \A v \in Wrapper \ {w} : queue'[v] = queue[v]
    BY <1>1, <1>3
<1>7. ProperlyTyped'
  <2>1. queue' \in [Wrapper -> Seq(ProperEvent)]
      BY <1>1, <1>3, <1>4
  <2>2. notices' = [m \in {d \in DOMAIN notices :
                        (IF d \in {n} THEN notices[d] - 1 ELSE notices[d]) > 0} |->
                    IF m \in {n} THEN notices[m] - 1 ELSE notices[m]]
      BY DEF W!Notify, W!(-), W!SetToBag
  <2>3. notices \in [DOMAIN notices -> {m \in Nat : m > 0}]
      BY <1>0 DEF ProperlyTyped, IsABag
  <2>4. IsABag(notices)' /\ DOMAIN notices' \subseteq DOMAIN notices
      BY <2>2, <2>3 DEF IsABag
  <2> QED BY <1>0, <1>1, <2>1, <2>4 DEF ProperlyTyped, ProperNotice
<1>8. SlotsAreClean'
  <2>1. ASSUME NEW v \in Wrapper
        PROVE  /\ \A i \in DOMAIN queue'[v] : queue'[v][i].type = "Abandon" => v # current'
               /\ v \notin alive' =>
                    queue'[v] = <<>> /\ running'[v] = W!NoRun /\ callback'[v] = W!NoCallback
      BY <1>0, <1>1, <1>2, <1>4, <1>6 DEF SlotsAreClean
  <2>2. \A k \in Sessions' : Heeded(k)' => transcoderReady'
      BY <1>0, SameControllerLemma DEF SlotsAreClean
  <2>3. IF transcoderReady' THEN current' \in alive' ELSE current' = NoWrapper
      BY <1>0, <1>1, SameControllerLemma DEF SlotsAreClean
  <2> QED BY <2>1, <2>2, <2>3 DEF SlotsAreClean
<1>9. PausesWillMeet'
  <2>1. \A v \in Wrapper : PausesMeet(queue'[v], running'[v])
      BY <1>0, <1>1, <1>5, <1>6 DEF PausesWillMeet
  <2>2. ASSUME NEW k \in Key, IsRunning(k)'
        PROVE  Meets(queue'[current'], running'[current'], Len(queue'[current']) + 1, k)
    <3>1. /\ Meets(queue[current], running[current], Len(queue[current]) + 1, k)
          /\ k \in Sessions /\ Heeded(k)
        BY <1>0, <2>2, SameControllerLemma DEF PausesWillMeet, IsRunning, Heeded
    <3>2. current \in Wrapper
        BY <1>0, <1>3, <3>1 DEF SlotsAreClean
    <3> QED BY <1>1, <1>5, <1>6, <3>1, <3>2
  <2> QED BY <2>1, <2>2 DEF PausesWillMeet
<1> QED BY <1>7, <1>8, <1>9 DEF PipelineInv

LEMMA CallbackLemma ==
    ASSUME ControllerInv, PipelineInv, NEW w \in Wrapper, Callback(w)
    PROVE  PipelineInv'
<1>0. ProperlyTyped /\ SlotsAreClean
    BY DEF PipelineInv
<1>1. /\ UNCHANGED <<current, alive, queue, running, pausedState, notices>>
      /\ callback' = [callback EXCEPT ![w] = W!NoCallback]
    BY DEF Callback
<1>2. /\ callback' \in [Wrapper -> W!Callback \cup {W!NoCallback}]
      /\ \A v \in Wrapper : callback'[v] \in {callback[v], W!NoCallback}
    BY <1>0, <1>1 DEF ProperlyTyped
<1>3. [Next]_vars
    BY PipelineStepLemma DEF PipelineNext
<1>4. ControllerInv'
    BY <1>3, NextLemma
<1>5. transcoderReady' = transcoderReady /\ Fewer /\ \A k \in Key : Heeded(k)' => Heeded(k)
  <2>1. CASE UNCHANGED vars
      BY <2>1, SameControllerLemma DEF Fewer
  <2>2. CASE OnFinishOrError(callback[w].key) \/ OnResourceLost(callback[w].key)
    <3>1. out' = <<>> /\ callback[w].key \in Key
        BY <2>2 DEF OnFinishOrError, OnResourceLost, Heeded, ControllerInv, TypeOK
    <3>2. Next
        BY <2>2, <3>1 DEF Next, TranscoderStep
    <3>3. MakesNoCall
        BY <1>0, <3>1, <3>2, NoCallLemma DEF SlotsAreClean
    <3> QED BY <3>3 DEF MakesNoCall
  <2> QED BY <2>1, <2>2 DEF Callback
<1> QED BY <1>1, <1>2, <1>4, <1>5, QuietLemma

LEMMA SubmitNewLemma ==
    ASSUME ControllerInv, PipelineInv, SubmitNew
    PROVE  PipelineInv'
<1>0. ProperlyTyped /\ SlotsAreClean
    BY DEF PipelineInv
<1>1. Next /\ out' = <<>> /\ UNCHANGED wrapperVars
  <2>1. UNCHANGED wrapperVars /\ \E k \in Key, c \in CallingUid, u \in Uid, onTop \in BOOLEAN :
            Submit(k, c, u, onTop)
      BY DEF SubmitNew
  <2>2. Next
      BY <2>1 DEF Next, ClientStep
  <2>3. out' = <<>>
      BY <2>1 DEF Submit
  <2> QED BY <2>1, <2>2, <2>3
<1>2. MakesNoCall
    BY <1>0, <1>1, NoCallLemma DEF SlotsAreClean
<1>3. UNCHANGED <<current, alive, queue, running, pausedState, callback, notices>>
    BY <1>1 DEF wrapperVars
<1> QED BY <1>0, <1>1, <1>2, <1>3, NextLemma, QuietLemma DEF MakesNoCall, ProperlyTyped

(* The steps in which the controller makes calls of its own accord. *)
LEMMA DrivingStepLemma ==
    ASSUME ClientOrPolicy \/ LockHolder \/ Timeout \/ ReportTimeout
    PROVE  Next /\ W!TakeCalls(out') /\ UNCHANGED <<callback, submitted>>
BY DEF ClientOrPolicy, LockHolder, Timeout, ReportTimeout, Drives, Next, ClientStep, WatchdogStep

LEMMA PipelineInvInitLemma ==
    ASSUME PipelineInit
    PROVE  PipelineInv
<1>1. /\ current = NoWrapper /\ alive = {}
      /\ queue = [w \in Wrapper |-> <<>>]
      /\ running = [w \in Wrapper |-> W!NoRun]
      /\ pausedState = [w \in Wrapper |-> {}]
      /\ callback = [w \in Wrapper |-> W!NoCallback]
      /\ notices = [e \in {} |-> 1]
      /\ transcoderReady = FALSE /\ Sessions = {}
    BY DEF PipelineInit, W!WrapperInit, W!EmptyBag, W!SetToBag, Init, Sessions
<1>2. ProperlyTyped
    BY <1>1 DEF ProperlyTyped, IsABag
<1>3. SlotsAreClean
    BY <1>1 DEF SlotsAreClean
<1>4. PausesWillMeet
    BY <1>1 DEF PausesWillMeet, PausesMeet, IsRunning
<1> QED BY <1>2, <1>3, <1>4 DEF PipelineInv

LEMMA PipelineInvStutterLemma ==
    ASSUME PipelineInv, UNCHANGED allVars
    PROVE  PipelineInv'
<1>1. UNCHANGED vars /\ UNCHANGED wrapperVars
    BY DEF allVars
<1>2. UNCHANGED <<current, alive, queue, running, pausedState, callback, notices>>
    BY <1>1 DEF wrapperVars
<1>3. ProperlyTyped'
    BY <1>2 DEF PipelineInv, ProperlyTyped, ProperNotice, IsABag
<1>4. SlotsAreClean'
    BY <1>1, <1>2, SameControllerLemma DEF PipelineInv, SlotsAreClean
<1>5. PausesWillMeet'
    BY <1>1, <1>2, SameControllerLemma DEF PipelineInv, PausesWillMeet
<1> QED BY <1>3, <1>4, <1>5 DEF PipelineInv

LEMMA PipelineInvLemma ==
    ASSUME ControllerInv, PipelineInv, [PipelineNext]_allVars
    PROVE  PipelineInv'
<1>1. CASE SubmitNew
    BY <1>1, SubmitNewLemma
<1>2. CASE ClientOrPolicy \/ LockHolder \/ Timeout \/ ReportTimeout
    BY <1>2, DrivingStepLemma, DrivesLemma
<1>3. ASSUME NEW w \in Wrapper, Callback(w) PROVE PipelineInv'
    BY <1>3, CallbackLemma
<1>4. ASSUME NEW w \in Wrapper, HandleEvent(w) PROVE PipelineInv'
  <2>1. UNCHANGED vars /\ W!Handle(w)
      BY <1>4 DEF HandleEvent
  <2>2. CASE W!HandleAbandon(w)
      BY <2>1, <2>2, AbandonLemma
  <2>3. CASE \/ W!HandleStart(w) \/ W!HandlePause(w) \/ W!HandleResume(w) \/ W!HandleStop(w)
             \/ W!HandlerHangs(w) \/ W!HandleFinish(w) \/ W!HandleError(w)
      BY <2>1, <2>3, HandledLemma, HandleLemma DEF PipelineInv
  <2> QED BY <2>1, <2>2, <2>3 DEF W!Handle
<1>5. ASSUME NEW w \in Wrapper, RunEnds(w) PROVE PipelineInv'
    BY <1>5, RunEndsLemma DEF RunEnds
<1>6. CASE NoticeArrives
    BY <1>6, NotifyLemma DEF NoticeArrives
<1>7. CASE UNCHANGED allVars
    BY <1>7, PipelineInvStutterLemma
<1> QED BY <1>1, <1>2, <1>3, <1>4, <1>5, <1>6, <1>7 DEF PipelineNext

(* However late events, reports and timeouts arrive, the controller's       *)
(* wrapper exists, an abandoned one is left alone, and every Pause on its   *)
(* way is going to meet the session it was sent for.                        *)
THEOREM PipelineSafe == PipelineSpec => [](ControllerInv /\ PipelineInv)
<1>1. PipelineInit => ControllerInv /\ PipelineInv
    BY InitLemma, PipelineInvInitLemma DEF PipelineInit
<1>2. ControllerInv /\ PipelineInv /\ [PipelineNext]_allVars
        => ControllerInv' /\ PipelineInv'
  <2>1. ControllerInv /\ [PipelineNext]_allVars => [Next]_vars
      BY PipelineStepLemma DEF allVars
  <2> QED BY <2>1, NextLemma, PipelineInvLemma
<1> QED BY <1>1, <1>2, PTL DEF PipelineSpec

(* The controller's variables and the wrappers' keep their types: no        *)
(* callback names a session that is none, no report is for a wrapper that   *)
(* is gone.                                                                 *)
THEOREM PipelineTypesAreKept == PipelineSpec => []PipelineTypeOK
<1>1. ControllerInv /\ PipelineInv => PipelineTypeOK
  <2> SUFFICES ASSUME ControllerInv, PipelineInv PROVE PipelineTypeOK
      OBVIOUS
  <2>1. ProperEvent \subseteq W!Event
      BY DEF ProperEvent, W!Event
  <2>2. \A w \in Wrapper : queue[w] \in Seq(W!Event)
    <3>1. ASSUME NEW w \in Wrapper PROVE queue[w] \in Seq(W!Event)
      <4>1. queue[w] \in Seq(ProperEvent)
          BY DEF PipelineInv, ProperlyTyped
      <4> QED BY <2>1, <4>1
    <3> QED BY <3>1
  <2>3. queue \in [Wrapper -> Seq(W!Event)]
      BY <2>2 DEF PipelineInv, ProperlyTyped
  <2>4. W!IsABag(notices)
      BY DEF PipelineInv, ProperlyTyped, IsABag, W!IsABag
  <2>5. current \in alive \cup {NoWrapper}
      BY DEF PipelineInv, SlotsAreClean
  <2>6. W!WrapperTypeOK
      BY <2>3, <2>4, <2>5 DEF PipelineInv, ProperlyTyped, W!WrapperTypeOK
  <2> QED BY <2>6 DEF ControllerInv, PipelineTypeOK
<1> QED BY <1>1, PipelineSafe, PTL

(* handlePause pauses whatever runs: it is always the session that the      *)
(* controller meant, with any number of sessions, wrappers and timeouts.    *)
THEOREM PausesHitTheirSession == PipelineSpec => []PauseHitsItsSession
<1>1. PipelineInv => PauseHitsItsSession
  <2> SUFFICES ASSUME PipelineInv, NEW w \in Wrapper, NEW k \in Key,
                      About(w, "Pause", k), running[w] # W!NoRun
               PROVE  running[w].key = k
      BY DEF PauseHitsItsSession
  <2>1. /\ queue[w] \in Seq(ProperEvent) /\ queue[w] # <<>>
        /\ Head(queue[w]).type = "Pause" /\ Head(queue[w]).key = k
      BY DEF PipelineInv, ProperlyTyped, About
  <2>2. 1 \in DOMAIN queue[w] /\ queue[w][1].type = "Pause" /\ queue[w][1].key = k
      BY <2>1
  <2>3. Meets(queue[w], running[w], 1, k)
      BY <2>2 DEF PipelineInv, PausesWillMeet, PausesMeet
  <2>4. running[w].key \in {k, NoSession}
      BY <2>3 DEF Meets
  <2>5. running[w].key \in Key
      BY DEF PipelineInv, ProperlyTyped, W!Run
  <2> QED BY <2>4, <2>5, NoSessionAssumption
<1> QED BY <1>1, PipelineSafe, PTL

-----------------------------------------------------------------------------
(* Without timeouts, the session that the controller believes to be running *)
(* does run.                                                                *)

(* Only submit adds a session. *)
LEMMA SessionsLemma ==
    ASSUME ControllerInv,
           \/ \E k \in Key, u \in RealTimeUid, onTop \in BOOLEAN : AddClientUid(k, u, onTop)
           \/ \E k \in Key : Cancel(k)
           \/ \E c \in Client : CancelAll(c)
           \/ PolicyStep
           \/ LockHolderStep
    PROVE  Sessions' \subseteq Sessions
<1>0. sessionMap \in [Sessions -> Session]
    BY DEF ControllerInv, TypeOK
<1>1. ASSUME UNCHANGED sessionMap PROVE Sessions' \subseteq Sessions
    BY <1>1 DEF Sessions
<1>2. ASSUME NEW k, NEW map, NEW w, NEW topUids, NEW reached,
             RemoveSession(k, map, w, topUids, reached)
      PROVE  Sessions' \subseteq Sessions
  <2>1. sessionMap' = [j \in Sessions \ {k} |-> map[j]]
      BY <1>2 DEF RemoveSession
  <2> QED BY <2>1 DEF Sessions
<1>3. ASSUME NEW a, NEW b, NEW c, ThenRemove(a, b, c) PROVE Sessions' \subseteq Sessions
    BY <1>1, <1>3 DEF ThenRemove, schedVars
<1>4. ASSUME NEW k, NEW u, NEW onTop, AddClientUid(k, u, onTop) PROVE Sessions' \subseteq Sessions
  <2>1. sessionMap' = [sessionMap EXCEPT ![k].allClientUids = @ \cup {u}]
      BY <1>4 DEF AddClientUid
  <2> QED BY <1>0, <2>1 DEF Sessions
<1>6. CASE PolicyStep
    BY <1>1, <1>3, <1>6
       DEF PolicyStep, OnTopUidsChanged, OnUidGone, OnResourceAvailable, OnThrottling, schedVars
<1>7. CASE UpdateCurrentSession
  <2>1. PICK top \in Key \cup {NoSession} :
            NothingToChange(top) \/ GoIdle(top) \/ StartTop(top) \/ ResumeTop(top) \/ DropTop(top)
      BY <1>7 DEF UpdateCurrentSession
  <2>2. DOMAIN PausedMap = Sessions
      BY DEF PausedMap
  <2>3. CASE NothingToChange(top)
      BY <1>1, <2>3 DEF NothingToChange, schedVars
  <2>4. CASE GoIdle(top)
      BY <2>2, <2>4 DEF GoIdle, Sessions
  <2>5. CASE StartTop(top) \/ ResumeTop(top)
    <3>1. sessionMap' = [PausedMap EXCEPT ![top].state = "RUNNING"]
        BY <2>5 DEF StartTop, ResumeTop
    <3> QED BY <2>2, <3>1 DEF Sessions
  <2>6. CASE DropTop(top)
      BY <1>2, <2>6 DEF DropTop
  <2> QED BY <2>1, <2>3, <2>4, <2>5, <2>6
<1>8. CASE RemoveNext
    BY <1>2, <1>8 DEF RemoveNext
<1>9. CASE TrimNext
  <2>1. PICK k \in toTrim :
            sessionMap' = [sessionMap EXCEPT ![k].allClientUids = @ \cap keepUids]
      BY <1>9 DEF TrimNext, TrimSession
  <2> QED BY <1>0, <2>1 DEF Sessions
<1>10. CASE RemovalDone
    BY <1>1, <1>10 DEF RemovalDone, schedVars
<1> QED BY <1>3, <1>4, <1>6, <1>7, <1>8, <1>9, <1>10 DEF LockHolderStep, Cancel, CancelAll

StopsAreOver(q, left) ==
    \A i \in DOMAIN q : q[i].type = "Stop" => q[i].key \in left

LEMMA ComingAppendLemma ==
    ASSUME NEW q \in Seq(ProperEvent), NEW e \in ProperEvent, NEW run, NEW call, NEW k, NEW left
    PROVE  /\ Append(q, e) \in Seq(ProperEvent)
           /\ ComesFrom(q, run, call, k) => ComesFrom(Append(q, e), run, call, k)
           /\ e.type \in {"Start", "Resume"} /\ e.key = k => ComesFrom(Append(q, e), run, call, k)
           /\ StopsAreOver(q, left) /\ (e.type = "Stop" => e.key \in left)
                => StopsAreOver(Append(q, e), left)
<1> DEFINE p == Append(q, e)
<1>1. /\ p \in Seq(ProperEvent) /\ Len(p) = Len(q) + 1 /\ Len(q) \in Nat
      /\ DOMAIN p = 1..Len(p) /\ DOMAIN q = 1..Len(q)
      /\ \A i \in 1..Len(q) : p[i] = q[i]
      /\ p[Len(q) + 1] = e
    OBVIOUS
<1> HIDE DEF p
<1>2. ComesFrom(q, run, call, k) => ComesFrom(p, run, call, k)
    BY <1>1 DEF ComesFrom
<1>3. e.type \in {"Start", "Resume"} /\ e.key = k => ComesFrom(p, run, call, k)
    BY <1>1 DEF ComesFrom
<1>4. StopsAreOver(q, left) /\ (e.type = "Stop" => e.key \in left) => StopsAreOver(p, left)
  <2>1. \A i \in DOMAIN p : i \in DOMAIN q \/ i = Len(q) + 1
      BY <1>1
  <2> QED BY <1>1, <2>1 DEF StopsAreOver
<1> QED BY <1>1, <1>2, <1>3, <1>4 DEF p

(* RunnerIsComing, part by part. *)
ComingParts ==
    /\ Sessions \subseteq submitted
    /\ \A w \in Wrapper : StopsAreOver(queue[w], submitted \ Sessions)
    /\ \A k \in Key : IsRunning(k) =>
            ComesFrom(queue[current], running[current], callback[current], k)

LEMMA ComingPartsLemma == RunnerIsComing <=> ComingParts
BY DEF RunnerIsComing, ComingParts, StopsAreOver

LEMMA ComingDrivesLemma ==
    ASSUME ControllerInv, PipelineInv, ComingParts, Next, W!TakeCalls(out'),
           UNCHANGED <<callback, submitted>>, Sessions' \subseteq Sessions, ~OnWatchdogError
    PROVE  ComingParts'
<1>0. ProperlyTyped /\ SlotsAreClean
    BY DEF PipelineInv
<1>1. /\ UNCHANGED <<running, callback, submitted>>
      /\ queue \in [Wrapper -> Seq(ProperEvent)]
      /\ transcoderReady => current \in Wrapper
      /\ NoSession \notin Key
    BY <1>0, TakeCallsLemma, NoSessionAssumption DEF ProperlyTyped, SlotsAreClean
<1>2. \A w \in Wrapper : StopsAreOver(queue[w], submitted \ Sessions')
    BY DEF ComingParts, StopsAreOver
<1>3. Sessions' \subseteq submitted'
    BY <1>1 DEF ComingParts
<1>4. /\ \A k \in Key, type \in {"Start", "Resume", "Pause", "Stop"} :
            [type |-> type, key |-> k] \in ProperEvent
    BY DEF ProperEvent
<1>5. CASE MakesNoCall
  <2>1. UNCHANGED <<queue, current>> /\ Fewer
      BY <1>0, <1>5, TakeCallsLemma DEF MakesNoCall
  <2> QED BY <1>1, <1>2, <1>3, <2>1 DEF ComingParts, Fewer
(* One queue grows; whatever runs now has an event in it. *)
<1>6. ASSUME NEW w \in Wrapper, NEW q \in Seq(ProperEvent), queue' = [queue EXCEPT ![w] = q],
             current' = w, StopsAreOver(q, submitted \ Sessions'),
             \A k \in Key : IsRunning(k)' => ComesFrom(q, running[w], callback[w], k)
      PROVE  ComingParts'
  <2>1. queue'[w] = q /\ \A v \in Wrapper \ {w} : queue'[v] = queue[v]
      BY <1>1, <1>6
  <2>2. \A v \in Wrapper : StopsAreOver(queue'[v], submitted' \ Sessions')
      BY <1>1, <1>2, <1>6, <2>1
  <2>3. \A k \in Key : IsRunning(k)' =>
            ComesFrom(queue'[current'], running'[current'], callback'[current'], k)
      BY <1>1, <1>6, <2>1
  <2> QED BY <1>3, <2>2, <2>3 DEF ComingParts
<1>7. CASE MakesFirstCall
  <2>1. CASE out' = <<CreateOnly>> /\ Only(NoSession)
    <3>1. UNCHANGED queue
        BY <1>0, <2>1, TakeCallsLemma
    <3>2. \A k \in Key : ~IsRunning(k)'
        BY <1>1, <2>1 DEF Only
    <3> QED BY <1>1, <1>2, <1>3, <3>1, <3>2 DEF ComingParts
  <2>2. CASE \E op \in {"start", "resume"}, top \in Key :
                out' = <<CreateOnly, Call(op, top)>> /\ Only(top)
    <3>1. PICK op \in {"start", "resume"}, top \in Key :
                out' = <<CreateOnly, Call(op, top)>> /\ Only(top)
        BY <2>2
    <3> DEFINE e == W!EventOf(Call(op, top))
    <3>2. e \in ProperEvent /\ e.type \in {"Start", "Resume"} /\ e.key = top
        BY <1>4, EventOfLemma
    <3>3. PICK w : Opens(w) /\ queue' = [queue EXCEPT ![w] = Append(@, e)]
      <4>1. Call(op, top).op # "create"
          BY DEF Call
      <4> QED BY <1>0, <3>1, <4>1, TakeCallsLemma
    <3> HIDE DEF e
    <3> DEFINE q == Append(queue[w], e)
    <3>4. w \in Wrapper /\ queue[w] \in Seq(ProperEvent) /\ current' = w
        BY <1>1, <3>3 DEF Opens
    <3>5. /\ q \in Seq(ProperEvent)
          /\ ComesFrom(q, running[w], callback[w], top)
          /\ StopsAreOver(q, submitted \ Sessions')
        BY <1>2, <3>2, <3>4, ComingAppendLemma
    <3>6. queue' = [queue EXCEPT ![w] = q]
        BY <3>3
    <3> HIDE DEF q
    <3> QED BY <1>6, <3>1, <3>4, <3>5, <3>6 DEF Only
  <2> QED BY <1>7, <2>1, <2>2 DEF MakesFirstCall
<1>8. ASSUME transcoderReady PROVE queue[current] \in Seq(ProperEvent) /\ current \in Wrapper
    BY <1>1, <1>8
<1>9. CASE SwitchesSession
  <2>1. /\ transcoderReady /\ current \in Wrapper /\ queue[current] \in Seq(ProperEvent)
        /\ StopsAreOver(queue[current], submitted \ Sessions')
      BY <1>2, <1>8, <1>9 DEF SwitchesSession
  <2>2. CASE \E c \in Key : IsRunning(c) /\ out' = <<Call("pause", c)>> /\ Only(NoSession)
    <3>1. PICK c \in Key : out' = <<Call("pause", c)>> /\ Only(NoSession)
        BY <2>2
    <3> DEFINE e == [type |-> "Pause", key |-> c]
               q == Append(queue[current], e)
    <3>2. UNCHANGED <<alive, current>> /\ queue' = [queue EXCEPT ![current] = q]
      <4>1. Call("pause", c).op # "create" /\ W!EventOf(Call("pause", c)) = e
          BY EventOfLemma DEF Call
      <4> QED BY <1>0, <2>1, <3>1, <4>1, TakeCallsLemma
    <3>3. e \in ProperEvent /\ e.type # "Stop"
        BY <1>4
    <3> HIDE DEF e
    <3>4. q \in Seq(ProperEvent) /\ StopsAreOver(q, submitted \ Sessions')
        BY <2>1, <3>3, ComingAppendLemma
    <3>5. \A k \in Key : ~IsRunning(k)'
        BY <1>1, <3>1 DEF Only
    <3> HIDE DEF q
    <3> QED BY <1>6, <2>1, <3>2, <3>4, <3>5
  <2>3. CASE \E op \in {"start", "resume"}, top \in Key : out' = <<Call(op, top)>> /\ Only(top)
    <3>1. PICK op \in {"start", "resume"}, top \in Key : out' = <<Call(op, top)>> /\ Only(top)
        BY <2>3
    <3> DEFINE e == W!EventOf(Call(op, top))
               q == Append(queue[current], e)
    <3>2. UNCHANGED <<alive, current>> /\ queue' = [queue EXCEPT ![current] = q]
      <4>1. Call(op, top).op # "create"
          BY DEF Call
      <4> QED BY <1>0, <2>1, <3>1, <4>1, TakeCallsLemma
    <3>3. e \in ProperEvent /\ e.type \in {"Start", "Resume"} /\ e.key = top
        BY <1>4, EventOfLemma
    <3> HIDE DEF e
    <3>4. /\ q \in Seq(ProperEvent) /\ StopsAreOver(q, submitted \ Sessions')
          /\ ComesFrom(q, running[current], callback[current], top)
        BY <2>1, <3>3, ComingAppendLemma
    <3> HIDE DEF q
    <3> QED BY <1>6, <2>1, <3>1, <3>2, <3>4 DEF Only
  <2>4. CASE \E c \in Key, op \in {"start", "resume"}, top \in Key :
            /\ IsRunning(c) /\ Only(top)
            /\ out' = <<Call("pause", c), Call(op, top)>>
    <3>1. PICK c \in Key, op \in {"start", "resume"}, top \in Key :
            /\ Only(top)
            /\ out' = <<Call("pause", c), Call(op, top)>>
        BY <2>4
    <3> DEFINE d == [type |-> "Pause", key |-> c]
               e == W!EventOf(Call(op, top))
               p == Append(queue[current], d)
               q == Append(p, e)
    <3>2. UNCHANGED <<alive, current>> /\ queue' = [queue EXCEPT ![current] = q]
      <4>1. /\ Call(op, top).op # "create" /\ Call("pause", c).op # "create"
            /\ W!EventOf(Call("pause", c)) = d
          BY EventOfLemma DEF Call
      <4> HIDE DEF d
      <4> QED BY <1>0, <2>1, <3>1, <4>1, TakeCallsLemma
    <3>3. d \in ProperEvent /\ d.type # "Stop"
        BY <1>4
    <3>4. e \in ProperEvent /\ e.type \in {"Start", "Resume"} /\ e.key = top
        BY <1>4, EventOfLemma
    <3> HIDE DEF d, e
    <3>5. p \in Seq(ProperEvent) /\ StopsAreOver(p, submitted \ Sessions')
        BY <2>1, <3>3, ComingAppendLemma
    <3> HIDE DEF p
    <3>6. /\ q \in Seq(ProperEvent) /\ StopsAreOver(q, submitted \ Sessions')
          /\ ComesFrom(q, running[current], callback[current], top)
        BY <3>4, <3>5, ComingAppendLemma
    <3> HIDE DEF q
    <3> QED BY <1>6, <2>1, <3>1, <3>2, <3>6 DEF Only
  <2> QED BY <1>9, <2>2, <2>3, <2>4 DEF SwitchesSession
<1>10. ASSUME NEW k \in Key, StopsSession(k) PROVE ComingParts'
  <2>1. /\ transcoderReady /\ current \in Wrapper /\ Fewer /\ queue[current] \in Seq(ProperEvent)
        /\ k \in submitted \ Sessions' /\ out' = <<Call("stop", k)>>
      BY <1>8, <1>10 DEF StopsSession, ComingParts
  <2> DEFINE e == [type |-> "Stop", key |-> k]
             q == Append(queue[current], e)
  <2>2. UNCHANGED <<alive, current>> /\ queue' = [queue EXCEPT ![current] = q]
    <3>1. Call("stop", k).op # "create" /\ W!EventOf(Call("stop", k)) = e
        BY EventOfLemma DEF Call
    <3> QED BY <1>0, <2>1, <3>1, TakeCallsLemma
  <2>3. e \in ProperEvent /\ e.key = k
      BY <1>4
  <2> HIDE DEF e
  <2>4. q \in Seq(ProperEvent) /\ StopsAreOver(q, submitted \ Sessions')
      BY <1>2, <2>1, <2>3, ComingAppendLemma
  <2>5. ASSUME NEW j \in Key, IsRunning(j)'
        PROVE  ComesFrom(q, running[current], callback[current], j)
    <3>1. ComesFrom(queue[current], running[current], callback[current], j)
        BY <2>1, <2>5 DEF Fewer, ComingParts
    <3> QED BY <2>1, <2>3, <3>1, ComingAppendLemma
  <2> HIDE DEF q
  <2> QED BY <1>6, <2>1, <2>2, <2>4, <2>5
<1>11. \A k \in Sessions : Heeded(k) => transcoderReady
    BY <1>0 DEF SlotsAreClean
<1> QED BY <1>5, <1>7, <1>9, <1>10, <1>11, CallsLemma

(* A running session has a wrapper. *)
LEMMA RunnerHasWrapperLemma ==
    ASSUME PipelineInv, NEW k \in Key, IsRunning(k)
    PROVE  current \in alive /\ current \in Wrapper
BY DEF PipelineInv, SlotsAreClean, ProperlyTyped, IsRunning, Heeded

LEMMA ComingHandleLemma ==
    ASSUME PipelineInv, ComingParts, UNCHANGED <<vars, submitted>>,
           NEW w \in Wrapper, Handled(w), Accounted(w)
    PROVE  ComingParts'
<1> DEFINE e == Head(queue[w])
           t == Tail(queue[w])
<1>1. /\ queue \in [Wrapper -> Seq(ProperEvent)] /\ queue[w] \in Seq(ProperEvent)
      /\ queue[w] # <<>> /\ callback[w] = W!NoCallback /\ current' = current
      /\ queue' = [queue EXCEPT ![w] = t]
      /\ \A v \in Wrapper \ {w} : running'[v] = running[v] /\ callback'[v] = callback[v]
    BY DEF PipelineInv, ProperlyTyped, Handled
<1>2. /\ queue'[w] = t /\ \A v \in Wrapper \ {w} : queue'[v] = queue[v]
      /\ e = queue[w][1] /\ t \in Seq(ProperEvent)
      /\ \A i \in DOMAIN t : i + 1 \in DOMAIN queue[w] /\ t[i] = queue[w][i + 1]
      /\ \A i \in DOMAIN queue[w] : i = 1 \/ (i - 1 \in DOMAIN t /\ t[i - 1] = queue[w][i])
      /\ 1 \in DOMAIN queue[w] /\ DOMAIN queue[w] = 1..Len(queue[w]) /\ Len(queue[w]) \in Nat
    BY <1>1
<1> HIDE DEF e, t
<1>3. Sessions' = Sessions /\ \A k : IsRunning(k)' <=> IsRunning(k)
    BY SameControllerLemma
<1>4. \A v \in Wrapper : StopsAreOver(queue'[v], submitted' \ Sessions')
    BY <1>2, <1>3 DEF ComingParts, StopsAreOver
<1>5. ASSUME NEW k \in Key, IsRunning(k), w = current
      PROVE  ComesFrom(t, running'[w], callback'[w], k)
  <2>1. ComesFrom(queue[w], running[w], callback[w], k)
      BY <1>5 DEF ComingParts
  <2>2. k # NoSession /\ callback[w].key = NoSession
      BY <1>1, NoSessionAssumption DEF W!NoCallback
  <2>3. /\ e.type \in {"Start", "Resume"} => e.key \in {running'[w].key, callback'[w].key}
        /\ ~Switches(e) /\ ~(e.type = "Stop" /\ e.key = running[w].key) =>
                running[w].key \in {running'[w].key, callback'[w].key, NoSession}
        /\ running'[w].threads = "stuck" =>
                e.type = "Pause" \/ (e.type = "Stop" /\ e.key = running[w].key)
      BY DEF Accounted, e
  <2>4. ASSUME NEW i \in DOMAIN queue[w],
               queue[w][i].type \in {"Start", "Resume"}, queue[w][i].key = k
        PROVE  ComesFrom(t, running'[w], callback'[w], k)
    <3>1. CASE i = 1
        BY <1>2, <2>3, <2>4, <3>1 DEF ComesFrom
    <3>2. CASE i # 1
        BY <1>2, <2>4, <3>2 DEF ComesFrom
    <3> QED BY <3>1, <3>2
  <2>5. CASE running[w].key = k /\ ~Switches(e)
    <3>1. ~(e.type = "Stop" /\ e.key = k)
      <4>1. k \in Sessions
          BY <1>5 DEF IsRunning
      <4> QED BY <1>2, <4>1 DEF ComingParts, StopsAreOver
    <3>2. running'[w].threads # "stuck"
        BY <2>3, <2>5, <3>1 DEF Switches
    <3>3. k \in {running'[w].key, callback'[w].key}
        BY <2>2, <2>3, <2>5, <3>1
    <3> QED BY <3>2, <3>3 DEF ComesFrom
  <2>6. CASE running[w].key = k /\ Switches(e)
    <3>1. Meets(queue[w], running[w], Len(queue[w]) + 1, k)
        BY <1>5 DEF PipelineInv, PausesWillMeet
    <3>2. (Len(queue[w]) + 1) - 1 = Len(queue[w]) /\ 1 \in 1..Len(queue[w])
        BY <1>2
    <3>3. \E i \in DOMAIN queue[w] :
            queue[w][i].type \in {"Start", "Resume"} /\ queue[w][i].key = k
        BY <1>2, <2>6, <3>1, <3>2 DEF Meets
    <3> QED BY <2>4, <3>3
  <2> QED BY <2>1, <2>2, <2>4, <2>5, <2>6 DEF ComesFrom
<1>6. ASSUME NEW k \in Key, IsRunning(k)'
      PROVE  ComesFrom(queue'[current'], running'[current'], callback'[current'], k)
  <2>1. IsRunning(k) /\ current \in Wrapper
      BY <1>3, <1>6, RunnerHasWrapperLemma
  <2>2. CASE w = current
      BY <1>1, <1>2, <1>5, <2>1, <2>2
  <2>3. CASE w # current
      BY <1>1, <1>2, <2>1, <2>3 DEF ComingParts
  <2> QED BY <2>2, <2>3
<1> QED BY <1>3, <1>4, <1>6 DEF ComingParts

LEMMA ComingAbandonLemma ==
    ASSUME PipelineInv, ComingParts, UNCHANGED <<vars, submitted>>,
           NEW w \in Wrapper, W!HandleAbandon(w)
    PROVE  ComingParts'
<1>1. /\ queue[w] # <<>> /\ Head(queue[w]).type = "Abandon"
      /\ queue' = [queue EXCEPT ![w] = <<>>]
      /\ running' = [running EXCEPT ![w] = W!NoRun]
      /\ UNCHANGED <<current, callback>>
    BY DEF W!HandleAbandon
<1>2. /\ queue \in [Wrapper -> Seq(ProperEvent)] /\ queue[w] \in Seq(ProperEvent)
      /\ running \in [Wrapper -> W!Run \cup {W!NoRun}]
    BY DEF PipelineInv, ProperlyTyped
<1>3. w # current
  <2>1. 1 \in DOMAIN queue[w] /\ queue[w][1].type = "Abandon"
      BY <1>1, <1>2
  <2> QED BY <2>1 DEF PipelineInv, SlotsAreClean
<1>4. /\ queue'[w] = <<>>
      /\ \A v \in Wrapper \ {w} : queue'[v] = queue[v] /\ running'[v] = running[v]
    BY <1>1, <1>2
<1>5. Sessions' = Sessions /\ \A k : IsRunning(k)' <=> IsRunning(k)
    BY SameControllerLemma
<1>6. \A v \in Wrapper : StopsAreOver(queue'[v], submitted' \ Sessions')
    BY <1>4, <1>5 DEF ComingParts, StopsAreOver
<1>7. ASSUME NEW k \in Key, IsRunning(k)'
      PROVE  ComesFrom(queue'[current'], running'[current'], callback'[current'], k)
  <2>1. IsRunning(k) /\ current \in Wrapper
      BY <1>5, <1>7, RunnerHasWrapperLemma
  <2> QED BY <1>1, <1>3, <1>4, <2>1 DEF ComingParts
<1> QED BY <1>5, <1>6, <1>7 DEF ComingParts

LEMMA ComingRunEndsLemma ==
    ASSUME PipelineInv, ComingParts, UNCHANGED <<vars, submitted>>,
           UNCHANGED <<current, queue, callback>>,
           \A v \in Wrapper : /\ running'[v].key = running[v].key
                              /\ running'[v].threads = "stuck" => running[v].threads = "stuck"
    PROVE  ComingParts'
<1>1. Sessions' = Sessions /\ \A k : IsRunning(k)' <=> IsRunning(k)
    BY SameControllerLemma
<1>2. ASSUME NEW k \in Key, IsRunning(k)'
      PROVE  ComesFrom(queue'[current'], running'[current'], callback'[current'], k)
  <2>1. /\ IsRunning(k) /\ current \in Wrapper
        /\ ComesFrom(queue[current], running[current], callback[current], k)
      BY <1>1, <1>2, RunnerHasWrapperLemma DEF ComingParts
  <2> QED BY <2>1 DEF ComesFrom
<1> QED BY <1>1, <1>2 DEF ComingParts

LEMMA ComingNotifyLemma ==
    ASSUME PipelineInv, ComingParts, UNCHANGED <<vars, submitted>>,
           NEW n \in DOMAIN notices, W!Notify(n)
    PROVE  ComingParts'
<1> DEFINE w == n.wrapper
           e == n.event
           q == Append(queue[w], e)
<1>1. queue' = [queue EXCEPT ![w] = q] /\ UNCHANGED <<current, running, callback>>
    BY DEF W!Notify
<1>2. w \in Wrapper /\ e \in ProperEvent /\ e.type \in {"Finish", "Error"}
    BY DEF PipelineInv, ProperlyTyped, ProperNotice
<1>3. queue \in [Wrapper -> Seq(ProperEvent)] /\ queue[w] \in Seq(ProperEvent)
    BY <1>2 DEF PipelineInv, ProperlyTyped
<1> HIDE DEF w, e
<1>4. /\ StopsAreOver(queue[w], submitted \ Sessions) => StopsAreOver(q, submitted \ Sessions)
      /\ \A k : ComesFrom(queue[w], running[w], callback[w], k) =>
            ComesFrom(q, running[w], callback[w], k)
  <2>1. e.type # "Stop"
      BY <1>2
  <2> QED BY <1>2, <1>3, <2>1, ComingAppendLemma
<1> HIDE DEF q
<1>5. queue'[w] = q /\ \A v \in Wrapper \ {w} : queue'[v] = queue[v]
    BY <1>1, <1>2, <1>3
<1>6. Sessions' = Sessions /\ \A k : IsRunning(k)' <=> IsRunning(k)
    BY SameControllerLemma
<1>7. \A v \in Wrapper : StopsAreOver(queue'[v], submitted' \ Sessions')
    BY <1>2, <1>4, <1>5, <1>6 DEF ComingParts
<1>8. ASSUME NEW k \in Key, IsRunning(k)'
      PROVE  ComesFrom(queue'[current'], running'[current'], callback'[current'], k)
  <2>1. /\ IsRunning(k) /\ current \in Wrapper
        /\ ComesFrom(queue[current], running[current], callback[current], k)
      BY <1>6, <1>8, RunnerHasWrapperLemma DEF ComingParts
  <2> QED BY <1>1, <1>4, <1>5, <2>1
<1> QED BY <1>6, <1>7, <1>8 DEF ComingParts

(* A callback that the controller ignores is not about a running session;   *)
(* one that it heeds ends or pauses the session.                            *)
LEMMA ComingCallbackLemma ==
    ASSUME ControllerInv, PipelineInv, ComingParts, NEW w \in Wrapper, Callback(w)
    PROVE  ComingParts'
<1>0. PICK c : c = callback[w]
    OBVIOUS
<1> DEFINE lost == c.name = "onResourceLost"
<1>1. /\ UNCHANGED <<current, queue, running, submitted>>
      /\ callback' = [callback EXCEPT ![w] = W!NoCallback]
      /\ phase = "idle"
      /\ \/ OnFinishOrError(c.key)
         \/ OnResourceLost(c.key)
         \/ ~(Heeded(c.key) /\ (lost => ~resourceLost /\ IsRunning(c.key))) /\ UNCHANGED vars
    BY <1>0 DEF Callback
<1>2. callback \in [Wrapper -> W!Callback \cup {W!NoCallback}]
    BY DEF PipelineInv, ProperlyTyped
<1>3. \A v \in Wrapper \ {w} : callback'[v] = callback[v]
    BY <1>1, <1>2
<1> HIDE DEF lost
<1>4. Fewer /\ Sessions' \subseteq Sessions /\ ~IsRunning(c.key)'
  <2>1. CASE OnFinishOrError(c.key)
    <3>1. /\ c.key \in Sessions
          /\ \E topUids, reached : RemoveSession(c.key, sessionMap, watched, topUids, reached)
        BY <2>1 DEF OnFinishOrError, Heeded
    <3>2. Sessions' = Sessions \ {c.key} /\ Fewer
        BY <3>1, RemoveRunsLemma
    <3> QED BY <3>2 DEF IsRunning
  <2>2. CASE OnResourceLost(c.key)
    <3>1. /\ c.key \in Sessions
          /\ sessionMap' = [sessionMap EXCEPT ![c.key].state = "PAUSED"]
        BY <2>2 DEF OnResourceLost, Heeded
    <3>2. sessionMap \in [Sessions -> Session]
        BY DEF ControllerInv, TypeOK
    <3>3. /\ Sessions' = Sessions /\ sessionMap'[c.key].state = "PAUSED"
          /\ \A k \in Sessions \ {c.key} : sessionMap'[k] = sessionMap[k]
        BY <3>1, <3>2 DEF Sessions, Session
    <3> QED BY <3>3 DEF Fewer, IsRunning, StateOf
  <2>3. CASE ~(Heeded(c.key) /\ (lost => ~resourceLost /\ IsRunning(c.key))) /\ UNCHANGED vars
    <3>1. Fewer /\ Sessions' = Sessions
        BY <2>3, SameControllerLemma DEF Fewer
    <3>2. ASSUME IsRunning(c.key) PROVE FALSE
      <4>1. Heeded(c.key) /\ c.key \in Sessions /\ StateOf(c.key) = "RUNNING"
          BY <3>2 DEF IsRunning, Heeded
      <4>2. resourceLost
          BY <2>3, <3>2, <4>1
      <4> QED BY <1>1, <4>1, <4>2 DEF ControllerInv, RightSessionRuns, GloballyPaused
    <3> QED BY <2>3, <3>1, <3>2, SameControllerLemma
  <2> QED BY <1>1, <2>1, <2>2, <2>3
<1>5. \A v \in Wrapper : StopsAreOver(queue'[v], submitted' \ Sessions')
    BY <1>1, <1>4 DEF ComingParts, StopsAreOver
<1>6. ASSUME NEW k \in Key, IsRunning(k)'
      PROVE  ComesFrom(queue'[current'], running'[current'], callback'[current'], k)
  <2>1. /\ IsRunning(k) /\ current \in Wrapper /\ k # c.key
        /\ ComesFrom(queue[current], running[current], callback[current], k)
      BY <1>4, <1>6, RunnerHasWrapperLemma DEF ComingParts, Fewer
  <2>2. CASE w = current
      BY <1>0, <1>1, <2>1, <2>2 DEF ComesFrom
  <2>3. CASE w # current
      BY <1>1, <1>3, <2>1, <2>3
  <2> QED BY <2>2, <2>3
<1>7. Sessions' \subseteq submitted'
    BY <1>1, <1>4 DEF ComingParts
<1> QED BY <1>5, <1>6, <1>7 DEF ComingParts

(* ClientImpl uses a session key once: no Stop on its way is about it. *)
LEMMA ComingSubmitLemma ==
    ASSUME ControllerInv, PipelineInv, ComingParts, SubmitNew
    PROVE  ComingParts'
<1>1. PICK k \in Key \ submitted, c \in CallingUid, u \in Uid, onTop \in BOOLEAN :
            Submit(k, c, u, onTop) /\ submitted' = submitted \cup {k}
    BY DEF SubmitNew
<1>2. Sessions' = Sessions \cup {k}
    BY <1>1 DEF Submit, Sessions
<1>3. UNCHANGED <<current, queue, running, callback>>
    BY DEF SubmitNew, wrapperVars
<1>4. MakesNoCall
  <2>1. Next /\ out' = <<>>
      BY <1>1 DEF Submit, Next, ClientStep
  <2> QED BY <2>1, NoCallLemma DEF PipelineInv, SlotsAreClean
<1> QED BY <1>1, <1>2, <1>3, <1>4 DEF ComingParts, StopsAreOver, MakesNoCall, Fewer

LEMMA ComingStepLemma ==
    ASSUME ControllerInv, PipelineInv, RunnerIsComing, [PipelineNext]_allVars,
           timedOut = NoSession, timedOut' = NoSession
    PROVE  RunnerIsComing'
<1>0. ComingParts
    BY ComingPartsLemma
<1> SUFFICES ComingParts'
    BY ComingPartsLemma, PTL
<1>1. CASE SubmitNew
    BY <1>0, <1>1, ComingSubmitLemma
<1>2. CASE ClientOrPolicy \/ LockHolder
  <2>1. Next /\ W!TakeCalls(out') /\ UNCHANGED <<callback, submitted>>
      BY <1>2, DrivingStepLemma
  <2>2. ~OnWatchdogError
      BY DEF OnWatchdogError
  <2>3. Sessions' \subseteq Sessions
      BY <1>2, SessionsLemma DEF ClientOrPolicy, LockHolder
  <2> QED BY <1>0, <2>1, <2>2, <2>3, ComingDrivesLemma
<1>3. CASE Timeout \/ ReportTimeout
    BY <1>3 DEF Timeout, ReportTimeout, WatchdogTimeout, OnWatchdogError
<1>4. ASSUME NEW w \in Wrapper, Callback(w) PROVE ComingParts'
    BY <1>0, <1>4, ComingCallbackLemma
<1>5. ASSUME NEW w \in Wrapper, HandleEvent(w) PROVE ComingParts'
  <2>1. UNCHANGED <<vars, submitted>> /\ W!Handle(w)
      BY <1>5 DEF HandleEvent
  <2>2. CASE W!HandleAbandon(w)
      BY <1>0, <2>1, <2>2, ComingAbandonLemma
  <2>3. CASE \/ W!HandleStart(w) \/ W!HandlePause(w) \/ W!HandleResume(w) \/ W!HandleStop(w)
             \/ W!HandlerHangs(w) \/ W!HandleFinish(w) \/ W!HandleError(w)
      BY <1>0, <2>1, <2>3, HandledLemma, ComingHandleLemma DEF PipelineInv
  <2> QED BY <2>1, <2>2, <2>3 DEF W!Handle
<1>6. ASSUME NEW w \in Wrapper, RunEnds(w) PROVE ComingParts'
    BY <1>0, <1>6, RunEndsLemma, ComingRunEndsLemma DEF RunEnds
<1>7. CASE NoticeArrives
    BY <1>0, <1>7, ComingNotifyLemma DEF NoticeArrives
<1>8. CASE UNCHANGED allVars
  <2>1. UNCHANGED <<vars, submitted>> /\ UNCHANGED <<current, queue, callback, running>>
      BY <1>8 DEF allVars, wrapperVars
  <2> QED BY <1>0, <2>1, ComingRunEndsLemma
<1> QED BY <1>1, <1>2, <1>3, <1>4, <1>5, <1>6, <1>7, <1>8 DEF PipelineNext

(* As long as the watchdog does not time out, once everything in flight has *)
(* arrived the session that the controller believes to be running is the    *)
(* one that its wrapper transcodes: no order of late ends, errors, pauses   *)
(* and stops leaves the wrapper idle or with another session.               *)
THEOREM RunnerIsDrivenWithoutTimeouts ==
    PipelineSpec /\ [](timedOut = NoSession) => []RunnerIsDriven
<1>1. PipelineInit => RunnerIsComing
    BY DEF PipelineInit, Init, W!WrapperInit, RunnerIsComing, Sessions, IsRunning
<1>2. ControllerInv /\ PipelineInv /\ RunnerIsComing /\ [PipelineNext]_allVars
            /\ timedOut = NoSession /\ (timedOut = NoSession)'
        => RunnerIsComing'
    BY ComingStepLemma
<1>3. ControllerInv /\ PipelineInv /\ RunnerIsComing => RunnerIsDriven
  <2> SUFFICES ASSUME ControllerInv, PipelineInv, RunnerIsComing, Settled,
                      NEW k \in Sessions, StateOf(k) = "RUNNING"
               PROVE  /\ current \in Wrapper /\ running[current].key = k
                      /\ running[current].threads # "stuck"
      BY DEF RunnerIsDriven, W!Stuck
  <2>1. k \in Key /\ IsRunning(k) /\ k # NoSession
      BY NoSessionAssumption DEF ControllerInv, TypeOK, IsRunning
  <2>2. current \in Wrapper
      BY <2>1, RunnerHasWrapperLemma
  <2>3. queue[current] = <<>> /\ callback[current].key = NoSession
      BY <2>2 DEF Settled, W!NoCallback
  <2>4. ComesFrom(queue[current], running[current], callback[current], k)
      BY <2>1 DEF RunnerIsComing
  <2> QED BY <2>1, <2>2, <2>3, <2>4 DEF ComesFrom
<1> QED BY <1>1, <1>2, <1>3, PipelineSafe, PTL DEF PipelineSpec
=============================================================================
