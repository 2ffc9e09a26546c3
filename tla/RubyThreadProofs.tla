--------------------------- MODULE RubyThreadProofs ---------------------------
(***************************************************************************)
(* Proofs about RubyThread for any number of workers and calls.            *)
(***************************************************************************)
EXTENDS RubyThread, TLAPS

(***************************************************************************)
(* The inductive invariant.                                                *)
(***************************************************************************)

\* A queued request: its owner is blocked for it and it is not done.
Awaited(r) ==
  /\ r \in Requests
  /\ r = Current(Owner(r))
  /\ Waiting(Owner(r))
  /\ ~ done[r]

\* Where the Ruby thread is, what it holds and what state the interpreter
\* is in agree.
ThreadInv ==
  /\ pc[Ruby] \in {"execute", "selflock", "finalize"} <=> queue_mutex = Ruby
  /\ pc[Ruby] \in {"none", "boot"} <=> interp = "down"
  /\ pc[Ruby] = "exited" <=> interp = "finalized"
  /\ pc[Ruby] \notin {"none", "boot", "announce"} <=> ruby_is_running
  /\ queue_mutex = Ruby => queue # None /\ req = queue
  /\ pc[Ruby] \in {"execute", "selflock"} => queue \notin shutdown
  /\ pc[Ruby] = "finalize" => queue \in shutdown
  /\ pc[Ruby] = "exited" => queue # None /\ done[queue]

\* A request is open exactly while its owner is inside the call it made it
\* for, and it is untouched before it is linked in.
CallInv ==
  /\ \A t \in Callers : InCall(t) => calls[t] >= 1
  /\ \A t \in Callers : InCall(t) => outcome[Current(t)] = "none"
  /\ \A r \in Requests : r[2] > calls[Owner(r)] =>
       ~ done[r] /\ next[r] = None /\ outcome[r] = "none" /\ r \notin shutdown
  /\ \A t \in Callers : pc[t] = "calling" =>
       ~ done[Current(t)] /\ next[Current(t)] = None

\* Until the Ruby thread has exited, the queue is empty, or one awaited
\* request, or two.
QueueInv ==
  pc[Ruby] # "exited" /\ queue # None =>
    /\ Awaited(queue)
    /\ next[queue] # None =>
         /\ Awaited(next[queue])
         /\ next[queue] # queue
         /\ next[next[queue]] = None

\* The part of ruby_child_init and ruby_child_cleanup in it.
PhaseInv ==
  /\ phase \in {"init", "starting", "sleeping", "aborted"} =>
       \A t \in Callers : pc[t] = "idle" /\ calls[t] = 0
  /\ phase = "init" => pc[Ruby] = "none"
  /\ phase = "childInit" =>
       /\ calls[Main] <= 1
       /\ \A w \in Workers : pc[w] = "idle"
  /\ phase = "serving" => calls[Main] <= 1 /\ pc[Main] = "idle"
  /\ init_failed = "none" /\ phase \notin {"init", "starting", "sleeping", "aborted"} =>
       ruby_is_running
  /\ init_failed # "none" =>
       phase \in {"serving", "exited", "crashed"} /\ pc[Ruby] = "none"
  /\ JoinsWorkers /\ phase \in {"cleanup", "exited"} =>
       \A w \in Workers : pc[w] \in {"idle", "joined"}
  /\ JoinsWorkers /\ phase = "cleanup" =>
       \A w \in Workers : pc[w] = "joined"

IInv == TypeOK /\ ThreadInv /\ CallInv /\ QueueInv /\ PhaseInv

-----------------------------------------------------------------------------
LEMMA RequestFacts ==
  ASSUME NEW r \in Requests
  PROVE  /\ Owner(r) \in Callers
         /\ r[2] \in 1..Limit(Owner(r))
         /\ r = <<Owner(r), r[2]>>
BY ThreadsAssumption DEF Requests, Owner, Callers, Limit

LEMMA CurrentFacts ==
  ASSUME NEW t \in Callers, NEW n \in Nat, n >= 1, n <= Limit(t)
  PROVE  /\ <<t, n>> \in Requests
         /\ Owner(<<t, n>>) = t
         /\ <<t, n>>[2] = n
BY ThreadsAssumption DEF Requests, Owner, Callers, Limit

LEMMA InitInv == Init => IInv
<1> SUFFICES ASSUME Init PROVE IInv
  OBVIOUS
<1> USE ThreadsAssumption DEF Init
<1>1. TypeOK
  <2>1. \A t \in Callers : calls[t] = 0 /\ 0 <= Limit(t) /\ pc[t] = "idle"
    BY DEF Limit, Threads
  <2>2. /\ calls \in [Callers -> Nat]
        /\ pc \in [Threads -> CallerPCs \cup RubyPCs]
        /\ pc[Ruby] = "none"
    BY DEF CallerPCs, RubyPCs, Threads
  <2> QED
    BY <2>1, <2>2 DEF TypeOK, Phases, CallerPCs, RubyPCs
<1>2. ThreadInv
  BY DEF ThreadInv, Threads
<1>3. CallInv
  <2>1. \A t \in Callers : pc[t] = "idle"
    BY DEF Threads
  <2> QED
    BY <2>1, RequestFacts DEF CallInv, InCall
<1>4. QueueInv
  BY DEF QueueInv
<1>5. PhaseInv
  BY DEF PhaseInv, Threads, Callers
<1> QED
  BY <1>1, <1>2, <1>3, <1>4, <1>5 DEF IInv

LEMMA Frame ==
  ASSUME IInv,
         UNCHANGED <<calls, shutdown, outcome, queue, next, done>>,
         \A t \in Callers : /\ pc'[t] = "calling" <=> pc[t] = "calling"
                            /\ Waiting(t)' <=> Waiting(t),
         pc'[Ruby] = "exited" <=> pc[Ruby] = "exited"
  PROVE  CallInv' /\ QueueInv'
<1>1. \A t \in Callers : Current(t)' = Current(t) /\ (InCall(t)' <=> InCall(t))
  BY DEF Current, InCall, Waiting
<1>2. CallInv'
  BY <1>1 DEF IInv, CallInv
<1>3. \A r \in Requests : Awaited(r) => Awaited(r)'
  BY RequestFacts DEF Awaited, Current
<1>4. QueueInv'
  BY <1>3 DEF IInv, TypeOK, QueueInv, Awaited
<1> QED
  BY <1>2, <1>4

LEMMA EnqueueInv == ASSUME IInv, NEW t \in Callers, Enqueue(t) PROVE IInv'
<1> USE ThreadsAssumption DEF IInv
<1> DEFINE r == Current(t)
<1>1. /\ r \in Requests /\ Owner(r) = t /\ r[2] = calls[t]
      /\ next[r] = None /\ ~ done[r]
  BY CurrentFacts DEF Enqueue, TypeOK, CallInv, InCall, Current
<1>2. /\ pc[t] = "calling" /\ queue_mutex = None /\ pc'[t] = "waiting"
      /\ pc'[Ruby] = IF pc[Ruby] = "waiting" THEN "woken" ELSE pc[Ruby]
      /\ \A u \in Callers : u # t => pc'[u] = pc[u]
      /\ pc' \in [Threads -> CallerPCs \cup RubyPCs]
      /\ UNCHANGED <<phase, init_failed, ruby_is_running, interp, calls,
                     shutdown, outcome, done, result, req, queue_mutex>>
  BY DEF Enqueue, TypeOK, Threads, Callers, childVars, Signalled, CallerPCs, RubyPCs
<1>3. queue # None => next' = [next EXCEPT ![queue] = r] /\ queue' = queue
  BY DEF Enqueue, Link
<1>4. queue = None => queue' = r /\ next' = next
  BY DEF Enqueue, Link
<1>5. TypeOK'
  BY <1>1, <1>2, <1>3, <1>4 DEF TypeOK, CallerPCs, RubyPCs
<1>6. ThreadInv'
  BY <1>1, <1>2, <1>3, <1>4 DEF TypeOK, ThreadInv
<1>7. queue # None => /\ queue \in Requests
                      /\ queue[2] <= calls[Owner(queue)]
                      /\ \A u \in Callers : pc[u] = "calling" => queue # Current(u)
  BY <1>1, RequestFacts
     DEF TypeOK, ThreadInv, QueueInv, CallInv, Awaited, Waiting, Current, Owner
<1>8. CallInv'
  <2>1. \A u \in Callers : Current(u)' = Current(u)
    BY <1>2 DEF Current
  <2>2. \A u \in Callers : pc'[u] = "calling" => pc[u] = "calling"
    BY <1>2
  <2>3. \A u \in Callers : InCall(u)' => InCall(u)
    BY <1>2 DEF InCall
  <2>4. \A q \in Requests : next[q] = None /\ q # queue /\ q # r => next'[q] = None
    BY <1>3, <1>4 DEF TypeOK
  <2>5. next'[r] = None
    BY <1>1, <1>2, <1>3, <1>4, <1>7 DEF TypeOK
  <2>6. \A q \in Requests : q[2] > calls[Owner(q)] => next'[q] = None
    BY <1>1, <1>4, <1>7, <2>4, <2>5, RequestFacts DEF CallInv, TypeOK, Limit
  <2>7. \A u \in Callers : pc[u] = "calling" => next'[Current(u)] = None
    <3> SUFFICES ASSUME NEW u \in Callers, pc[u] = "calling"
                 PROVE  next'[Current(u)] = None
      OBVIOUS
    <3>1. Current(u) \in Requests
      BY CurrentFacts DEF Current, CallInv, InCall, TypeOK
    <3> QED
      BY <1>4, <1>7, <3>1, <2>4, <2>5 DEF CallInv
  <2> QED
    BY <1>2, <2>1, <2>2, <2>3, <2>6, <2>7 DEF CallInv
<1>9. QueueInv'
  <2>1. \A q \in Requests : Awaited(q) => Awaited(q)' /\ q # r
    BY <1>1, <1>2, RequestFacts DEF Awaited, Waiting, Current
  <2>2. Awaited(r)'
    BY <1>1, <1>2 DEF Awaited, Waiting, Current
  <2>3. r' = r
    BY <1>2 DEF Current
  <2>4. CASE queue = None
    BY <1>1, <1>4, <2>2, <2>3, <2>4 DEF QueueInv, TypeOK
  <2>5. CASE queue # None
    BY <1>1, <1>2, <1>3, <1>7, <2>1, <2>2, <2>3, <2>5 DEF QueueInv, TypeOK
  <2> QED
    BY <2>4, <2>5
<1>10. PhaseInv'
  BY <1>2 DEF PhaseInv, TypeOK, Callers
<1> QED
  BY <1>5, <1>6, <1>8, <1>9, <1>10
\* The steps of ruby_child_init and of the head of ruby_thread_start, and
\* those that end the process, leave the queue and the callers alone.
LEMMA LifecycleInv ==
  ASSUME IInv,
         \/ \E what \in {"mutex", "thread"} : ChildInitFails(what)
         \/ CreateRubyThread \/ RubyInitInterpreter \/ RubyInitExits \/ RubyAnnounce
         \/ MainSleeps \/ MainWakesSpuriously \/ MainSeesRunning
         \/ ChildInitReturns \/ ExitWithoutCleanup \/ JoinRubyThread
         \/ \E t \in Callers : EnqueueCrashes(t)
         \/ UNCHANGED vars
  PROVE  IInv'
<1> USE ThreadsAssumption
<1> DEFINE Same == /\ UNCHANGED <<calls, shutdown, outcome, queueVars>>
                   /\ \A t \in Callers : pc'[t] = pc[t]
                   /\ pc' \in [Threads -> CallerPCs \cup RubyPCs]
                   /\ pc'[Ruby] \in RubyPCs
                   /\ pc'[Ruby] = "exited" <=> pc[Ruby] = "exited"
<1>1. ASSUME NEW what \in {"mutex", "thread"}, ChildInitFails(what)
      PROVE  Same /\ TypeOK' /\ ThreadInv' /\ PhaseInv'
  BY <1>1 DEF ChildInitFails, IInv, TypeOK, ThreadInv, PhaseInv, queueVars, Phases, Callers
<1>2. ASSUME CreateRubyThread
      PROVE  Same /\ TypeOK' /\ ThreadInv' /\ PhaseInv'
  BY <1>2 DEF CreateRubyThread, IInv, TypeOK, ThreadInv, PhaseInv, queueVars,
     Phases, Threads, Callers, CallerPCs, RubyPCs
<1>3. ASSUME RubyInitInterpreter
      PROVE  Same /\ TypeOK' /\ ThreadInv' /\ PhaseInv'
  BY <1>3 DEF RubyInitInterpreter, IInv, TypeOK, ThreadInv, PhaseInv, queueVars,
     Phases, Threads, Callers, CallerPCs, RubyPCs
<1>12. ASSUME RubyInitExits
      PROVE  Same /\ TypeOK' /\ ThreadInv' /\ PhaseInv'
  BY <1>12 DEF RubyInitExits, Alive, IInv, TypeOK, ThreadInv, PhaseInv, queueVars,
     Phases, Callers
<1>4. ASSUME RubyAnnounce
      PROVE  Same /\ TypeOK' /\ ThreadInv' /\ PhaseInv'
  BY <1>4 DEF RubyAnnounce, IInv, TypeOK, ThreadInv, PhaseInv, queueVars,
     Phases, Threads, Callers, CallerPCs, RubyPCs
<1>5. ASSUME MainSleeps \/ MainWakesSpuriously \/ MainSeesRunning
      PROVE  Same /\ TypeOK' /\ ThreadInv' /\ PhaseInv'
  BY <1>5 DEF MainSleeps, MainWakesSpuriously, MainSeesRunning, Running, IInv,
     TypeOK, ThreadInv, PhaseInv, queueVars, Phases, Callers
<1>6. ASSUME ChildInitReturns
      PROVE  Same /\ TypeOK' /\ ThreadInv' /\ PhaseInv'
  BY <1>6 DEF ChildInitReturns, IInv, TypeOK, ThreadInv, PhaseInv, queueVars,
     Phases, Callers
<1>7. ASSUME ExitWithoutCleanup \/ JoinRubyThread
      PROVE  Same /\ TypeOK' /\ ThreadInv' /\ PhaseInv'
  BY <1>7 DEF ExitWithoutCleanup, ChildStops, JoinRubyThread, IInv, TypeOK,
     ThreadInv, PhaseInv, queueVars, Phases, Callers
<1>8. ASSUME NEW t \in Callers, EnqueueCrashes(t)
      PROVE  Same /\ TypeOK' /\ ThreadInv' /\ PhaseInv'
  BY <1>8 DEF EnqueueCrashes, IInv, TypeOK, ThreadInv, PhaseInv, queueVars,
     Phases, Callers, Alive
<1>9. ASSUME UNCHANGED vars
      PROVE  Same /\ TypeOK' /\ ThreadInv' /\ PhaseInv'
  BY <1>9 DEF vars, childVars, IInv, TypeOK, ThreadInv, PhaseInv, queueVars
<1>10. Same /\ TypeOK' /\ ThreadInv' /\ PhaseInv'
  BY <1>1, <1>2, <1>3, <1>12, <1>4, <1>5, <1>6, <1>7, <1>8, <1>9
<1>11. CallInv' /\ QueueInv'
  BY <1>10, Frame DEF queueVars, Waiting
<1> QED
  BY <1>10, <1>11 DEF IInv

\* A new request, made by a call or by the child's cleanup: its owner was
\* idle, and no other caller notices.
LEMMA AllocateInv ==
  ASSUME IInv, NEW t \in Callers, pc[t] = "idle", calls[t] < Limit(t), Allocate(t),
         UNCHANGED <<outcome, queue, next, done>>,
         shutdown' = shutdown \/ shutdown' = shutdown \cup {<<t, calls[t] + 1>>}
  PROVE  CallInv' /\ QueueInv'
<1> USE ThreadsAssumption
<1> DEFINE r == <<t, calls[t] + 1>>
<1>1. /\ r \in Requests /\ Owner(r) = t /\ r[2] = calls[t] + 1
      /\ ~ done[r] /\ next[r] = None /\ outcome[r] = "none"
  BY CurrentFacts DEF IInv, TypeOK, CallInv, Limit
<1>2. /\ pc'[t] = "calling" /\ pc'[Ruby] = pc[Ruby]
      /\ calls'[t] = calls[t] + 1
      /\ \A u \in Callers : u # t => pc'[u] = pc[u] /\ calls'[u] = calls[u]
  BY DEF Allocate, IInv, TypeOK, Threads, Callers
<1>3. /\ Current(t)' = r
      /\ \A u \in Callers : u # t => Current(u)' = Current(u) /\ (InCall(u)' <=> InCall(u))
  BY <1>2 DEF Current, InCall
<1>4. CallInv'
  <2>1. \A q \in Requests : q[2] > calls'[Owner(q)] =>
           q[2] > calls[Owner(q)] /\ q # r
    BY <1>1, <1>2, RequestFacts DEF IInv, TypeOK, Limit
  <2>2. \A u \in Callers : InCall(u)' => calls'[u] >= 1
    BY <1>2, <1>3 DEF IInv, TypeOK, CallInv
  <2> QED
    BY <1>1, <1>2, <1>3, <2>1, <2>2 DEF IInv, CallInv
<1>5. \A q \in Requests : Awaited(q) => Awaited(q)'
  BY <1>2, <1>3, RequestFacts DEF Awaited, Waiting
<1>6. QueueInv'
  BY <1>2, <1>5 DEF IInv, TypeOK, QueueInv, Awaited
<1> QED
  BY <1>4, <1>6

LEMMA CallInvariance == ASSUME IInv, NEW t \in Callers, Call(t) PROVE IInv'
<1> USE ThreadsAssumption
<1>1. CallInv' /\ QueueInv'
  BY AllocateInv DEF Call, MayCall, queueVars
<1>2. TypeOK'
  BY DEF Call, MayCall, Allocate, IInv, TypeOK, queueVars, childVars, Threads,
     Callers, CallerPCs, RubyPCs, Limit
<1>3. ThreadInv'
  BY DEF Call, MayCall, Allocate, IInv, TypeOK, ThreadInv, queueVars, childVars,
     Threads, Callers
<1>4. PhaseInv'
  BY DEF Call, MayCall, Allocate, Alive, IInv, TypeOK, PhaseInv, queueVars,
     childVars, Threads, Callers
<1> QED
  BY <1>1, <1>2, <1>3, <1>4 DEF IInv

LEMMA CallFailsInv == ASSUME IInv, NEW t \in Callers, CallFails(t) PROVE IInv'
<1> USE ThreadsAssumption
<1> DEFINE r == <<t, calls[t] + 1>>
<1>1. /\ r \in Requests /\ Owner(r) = t /\ r[2] = calls[t] + 1
  BY CurrentFacts DEF CallFails, MayCall, IInv, TypeOK, Limit
<1>2. /\ calls'[t] = calls[t] + 1 /\ pc[t] = "idle"
      /\ \A u \in Callers : u # t => calls'[u] = calls[u]
      /\ outcome' = [outcome EXCEPT ![r] = "failed"]
      /\ UNCHANGED <<phase, init_failed, ruby_is_running, interp, pc, shutdown,
                     queue, next, done, result, req, queue_mutex>>
  BY DEF CallFails, MayCall, IInv, TypeOK, childVars, queueVars
<1>3. TypeOK'
  BY <1>1, <1>2 DEF CallFails, MayCall, IInv, TypeOK, Limit
<1>4. ThreadInv'
  BY <1>2 DEF IInv, ThreadInv
<1>5. PhaseInv'
  BY <1>2 DEF CallFails, MayCall, Alive, IInv, TypeOK, PhaseInv, Callers
<1>6. \A u \in Callers : InCall(u) => u # t /\ Current(u)' = Current(u) /\ Current(u) # r
  BY <1>2 DEF InCall, Current
<1>7. CallInv'
  <2>1. \A q \in Requests : q[2] > calls'[Owner(q)] =>
           q[2] > calls[Owner(q)] /\ q # r
    BY <1>1, <1>2, RequestFacts DEF IInv, TypeOK, Limit
  <2>2. \A u \in Callers : InCall(u)' => InCall(u)
    BY <1>2 DEF InCall
  <2>3. \A q \in Requests : q # r => outcome'[q] = outcome[q]
    BY <1>2 DEF IInv, TypeOK
  <2>4. \A u \in Callers : InCall(u) => Current(u) \in Requests
    BY CurrentFacts DEF Current, IInv, CallInv, TypeOK
  <2>5. \A u \in Callers : InCall(u)' => outcome'[Current(u)'] = "none"
    BY <1>6, <2>2, <2>3, <2>4 DEF IInv, CallInv
  <2>6. \A u \in Callers : pc'[u] = "calling" =>
           ~ done'[Current(u)'] /\ next'[Current(u)'] = None
    BY <1>2, <1>6 DEF IInv, CallInv, InCall
  <2>7. \A u \in Callers : InCall(u)' => calls'[u] >= 1
    BY <1>2, <1>6, <2>2 DEF IInv, CallInv
  <2> QED
    BY <1>2, <2>1, <2>3, <2>5, <2>6, <2>7 DEF IInv, CallInv
<1>8. \A q \in Requests : Awaited(q) => Awaited(q)'
  BY <1>2, <1>6, RequestFacts DEF Awaited, Waiting, InCall
<1>9. QueueInv'
  BY <1>2, <1>8 DEF IInv, TypeOK, QueueInv, Awaited
<1> QED
  BY <1>3, <1>4, <1>5, <1>7, <1>9 DEF IInv

\* A caller that wakes up, or a worker that exits, leaves the queue alone.
LEMMA CallerMovesInv ==
  ASSUME IInv,
         \/ \E t \in Callers : CallerWakesSpuriously(t)
         \/ \E w \in Workers : WorkerExits(w)
  PROVE  IInv'
<1> USE ThreadsAssumption
<1>1. PICK t \in Callers : CallerWakesSpuriously(t) \/ (t \in Workers /\ WorkerExits(t))
  BY DEF Callers
<1>2. /\ UNCHANGED <<phase, init_failed, ruby_is_running, interp, calls, shutdown,
                     outcome, queue, next, done, result, req, queue_mutex>>
      /\ \/ pc[t] = "waiting" /\ pc'[t] = "woken"
         \/ t \in Workers /\ pc[t] = "idle" /\ pc'[t] = "joined"
             /\ phase \in {"serving", "cleanup"}
      /\ pc'[Ruby] = pc[Ruby]
      /\ \A u \in Callers : u # t => pc'[u] = pc[u]
      /\ pc' \in [Threads -> CallerPCs \cup RubyPCs]
  BY <1>1 DEF CallerWakesSpuriously, WorkerExits, queueVars, childVars, IInv,
     TypeOK, Threads, Callers, CallerPCs, RubyPCs
<1>3. TypeOK'
  BY <1>2 DEF IInv, TypeOK, CallerPCs, RubyPCs
<1>4. ThreadInv'
  BY <1>2 DEF IInv, ThreadInv
<1>5. PhaseInv'
  BY <1>2 DEF IInv, TypeOK, PhaseInv, Callers
<1>6. CallInv' /\ QueueInv'
  BY <1>2, Frame DEF Waiting
<1> QED
  BY <1>3, <1>4, <1>5, <1>6 DEF IInv

LEMMA RecheckInv == ASSUME IInv, NEW t \in Callers, Recheck(t) PROVE IInv'
<1> USE ThreadsAssumption
<1> DEFINE r == Current(t)
<1>1. /\ r \in Requests /\ Owner(r) = t /\ r[2] = calls[t]
  BY CurrentFacts DEF Recheck, IInv, TypeOK, CallInv, InCall, Current
<1>2. /\ UNCHANGED <<phase, init_failed, ruby_is_running, interp, calls, shutdown,
                     queue, next, done, result, req, queue_mutex>>
      /\ pc[t] = "woken" /\ pc'[Ruby] = pc[Ruby]
      /\ \A u \in Callers : u # t => pc'[u] = pc[u]
      /\ pc' \in [Threads -> CallerPCs \cup RubyPCs]
  BY DEF Recheck, queueVars, childVars, IInv, TypeOK, Threads, Callers,
     CallerPCs, RubyPCs
<1>3. \/ /\ done[r] /\ pc'[t] = "idle"
         /\ outcome' = [outcome EXCEPT ![r] = result[r]]
      \/ ~ done[r] /\ pc'[t] = "waiting" /\ outcome' = outcome
  BY DEF Recheck, Answered, IInv, TypeOK, Threads, Callers
<1>4. TypeOK'
  BY <1>1, <1>2, <1>3 DEF IInv, TypeOK, CallerPCs, RubyPCs
<1>5. ThreadInv'
  BY <1>2 DEF IInv, ThreadInv
<1>6. PhaseInv'
  BY <1>2, <1>3 DEF IInv, TypeOK, PhaseInv, Callers
<1>7. CASE done[r]
  <2>1. \A q \in Requests : q # r => outcome'[q] = outcome[q]
    BY <1>3, <1>7 DEF IInv, TypeOK
  <2>2. \A u \in Callers : /\ Current(u)' = Current(u)
                           /\ InCall(u)' => InCall(u) /\ u # t /\ Current(u) # r
    BY <1>2, <1>3, <1>7 DEF Current, InCall
  <2>3. \A u \in Callers : InCall(u) => Current(u) \in Requests
    BY CurrentFacts DEF Current, IInv, CallInv, TypeOK
  <2>4. \A q \in Requests : q[2] > calls[Owner(q)] => q # r
    BY <1>1 DEF IInv, TypeOK
  <2>5. CallInv'
    <3>1. \A u \in Callers : InCall(u)' =>
             calls'[u] >= 1 /\ outcome'[Current(u)'] = "none"
      BY <1>2, <2>1, <2>2, <2>3 DEF IInv, CallInv
    <3>2. \A q \in Requests : q[2] > calls'[Owner(q)] =>
             ~ done'[q] /\ next'[q] = None /\ outcome'[q] = "none" /\ q \notin shutdown'
      BY <1>2, <2>1, <2>4 DEF IInv, CallInv
    <3>3. \A u \in Callers : pc'[u] = "calling" => pc[u] = "calling"
      BY <1>2, <1>3
    <3>4. \A u \in Callers : pc'[u] = "calling" =>
             ~ done'[Current(u)'] /\ next'[Current(u)'] = None
      BY <1>2, <2>2, <3>3 DEF IInv, CallInv
    <3> QED
      BY <3>1, <3>2, <3>4 DEF CallInv
  <2>6. \A q \in Requests : Awaited(q) => Awaited(q)'
    BY <1>1, <1>2, <1>7, <2>2, RequestFacts DEF Awaited, Waiting
  <2>7. QueueInv'
    BY <1>2, <2>6 DEF IInv, TypeOK, QueueInv, Awaited
  <2> QED
    BY <1>4, <1>5, <1>6, <2>5, <2>7 DEF IInv
<1>8. CASE ~ done[r]
  <2>1. CallInv' /\ QueueInv'
    BY <1>2, <1>3, <1>8, Frame DEF Waiting
  <2> QED
    BY <1>4, <1>5, <1>6, <2>1 DEF IInv
<1> QED
  BY <1>7, <1>8

LEMMA CleanupCallsInv == ASSUME IInv, CleanupCalls PROVE IInv'
<1> USE ThreadsAssumption
<1>1. /\ Main \in Callers /\ pc[Main] = "idle" /\ calls[Main] + 1 <= 2
      /\ phase = "serving" /\ init_failed = "none" /\ phase' = "cleanup"
      /\ shutdown' = shutdown \cup {<<Main, calls[Main] + 1>>}
      /\ Allocate(Main)
      /\ JoinsWorkers => \A w \in Workers : pc[w] = "joined"
      /\ UNCHANGED <<init_failed, ruby_is_running, interp, outcome,
                     queue, next, done, result, req, queue_mutex>>
  BY DEF CleanupCalls, ChildStops, IInv, TypeOK, PhaseInv, Callers, queueVars
<1>2. Limit(Main) = 2 /\ calls[Main] < Limit(Main) /\ <<Main, calls[Main] + 1>> \in Requests
  BY <1>1, CurrentFacts DEF Limit, IInv, TypeOK
<1>3. CallInv' /\ QueueInv'
  BY <1>1, <1>2, AllocateInv
<1>4. /\ pc' = [pc EXCEPT ![Main] = "calling"]
      /\ calls' = [calls EXCEPT ![Main] = @ + 1]
  BY <1>1 DEF Allocate
<1>5. TypeOK'
  BY <1>1, <1>2, <1>4 DEF IInv, TypeOK, Phases, Threads, Callers, CallerPCs, RubyPCs
<1>6. ThreadInv'
  <2>1. pc'[Ruby] = pc[Ruby]
    BY <1>1, <1>4 DEF IInv, TypeOK, Threads
  <2>2. queue # None /\ pc[Ruby] # "exited" => queue # <<Main, calls[Main] + 1>>
    BY <1>1, <1>2 DEF IInv, TypeOK, QueueInv, Awaited, Owner, Current
  <2> QED
    BY <1>1, <2>1, <2>2 DEF IInv, ThreadInv, TypeOK
<1>7. PhaseInv'
  BY <1>1, <1>4 DEF IInv, TypeOK, PhaseInv, Threads, Callers
<1> QED
  BY <1>3, <1>5, <1>6, <1>7 DEF IInv

LEMMA RubyWaitsInv ==
  ASSUME IInv, RubyWaits \/ RubyWakesSpuriously \/ RubyTakes \/ RubyCallsItself
  PROVE  IInv'
<1> USE ThreadsAssumption
<1>1. /\ UNCHANGED <<phase, init_failed, ruby_is_running, interp, calls, shutdown,
                     outcome, queue, next, done, result>>
      /\ pc' \in [Threads -> CallerPCs \cup RubyPCs]
      /\ \A t \in Callers : pc'[t] = pc[t]
      /\ \/ UNCHANGED <<req, queue_mutex>> /\ pc'[Ruby] \in {"waiting", "woken"}
            /\ pc[Ruby] \in {"loop", "waiting", "woken"}
         \/ UNCHANGED <<req, queue_mutex>> /\ pc'[Ruby] = "selflock" /\ pc[Ruby] = "execute"
         \/ /\ req' = queue /\ queue # None /\ queue_mutex' = Ruby
            /\ pc[Ruby] \in {"loop", "woken"}
            /\ pc'[Ruby] = IF queue \in shutdown THEN "finalize" ELSE "execute"
  BY DEF RubyWaits, RubyWakesSpuriously, RubyTakes, LockedWhileRunning,
     RubyCallsItself, IInv, TypeOK, queueVars, childVars, Threads, Callers,
     CallerPCs, RubyPCs
<1>2. TypeOK'
  BY <1>1 DEF IInv, TypeOK, CallerPCs, RubyPCs
<1>3. ThreadInv'
  BY <1>1 DEF IInv, TypeOK, ThreadInv
<1>4. PhaseInv'
  <2>1. phase # "init"
    BY <1>1 DEF IInv, PhaseInv
  <2> QED
    BY <1>1, <2>1 DEF IInv, TypeOK, PhaseInv, Callers
<1>5. CallInv' /\ QueueInv'
  BY <1>1, Frame DEF Waiting
<1> QED
  BY <1>2, <1>3, <1>4, <1>5 DEF IInv

\* The Ruby thread finishes the head of the queue: its owner is woken, and
\* whatever was linked behind it becomes the head.
LEMMA RubyCompletesInv ==
  ASSUME IInv, NEW res \in {"value", "raised"}, RubyCompletes(res)
  PROVE  IInv'
<1> USE ThreadsAssumption
<1> DEFINE o == Owner(req)
<1>1. /\ req = queue /\ queue \in Requests /\ Awaited(queue) /\ o \in Callers
      /\ pc[Ruby] = "execute" /\ queue_mutex' = None /\ queue' = next[queue]
      /\ result' = [result EXCEPT ![req] = res]
      /\ done' = [done EXCEPT ![req] = TRUE]
      /\ UNCHANGED <<phase, init_failed, ruby_is_running, interp, calls, shutdown,
                     outcome, next, req>>
  BY RequestFacts DEF RubyCompletes, Advance, IInv, TypeOK, ThreadInv, QueueInv,
     childVars
<1>2. /\ pc' \in [Threads -> CallerPCs \cup RubyPCs]
      /\ pc'[Ruby] = "loop" /\ pc'[o] = "woken"
      /\ \A u \in Callers : u # o => pc'[u] = pc[u]
  BY <1>1 DEF RubyCompletes, Signalled, IInv, TypeOK, Threads, Callers, CallerPCs,
     RubyPCs, Awaited, Waiting
<1>3. /\ \A u \in Callers : Current(u)' = Current(u) /\ (InCall(u)' <=> InCall(u))
      /\ \A u \in Callers : Waiting(u) => Waiting(u)'
      /\ \A u \in Callers : pc'[u] = "calling" => pc[u] = "calling" /\ Current(u) # req
  BY <1>1, <1>2 DEF Current, InCall, Waiting, Awaited, Owner
<1>4. TypeOK'
  BY <1>1, <1>2 DEF IInv, TypeOK, CallerPCs, RubyPCs
<1>5. ThreadInv'
  BY <1>1, <1>2 DEF IInv, ThreadInv
<1>6. PhaseInv'
  <2>1. o \in Workers => pc[o] \notin {"idle", "joined"}
    BY <1>1 DEF Awaited, Waiting
  <2>2. pc[o] # "idle"
    BY <1>1 DEF Awaited, Waiting
  <2> QED
    BY <1>1, <1>2, <2>1, <2>2 DEF IInv, TypeOK, PhaseInv, Callers
<1>7. CallInv'
  <2>1. \A q \in Requests : q # req => done'[q] = done[q]
    BY <1>1 DEF IInv, TypeOK
  <2>2. req[2] <= calls[o]
    BY <1>1 DEF Awaited, Current, IInv, TypeOK
  <2>3. \A q \in Requests : q[2] > calls[Owner(q)] => q # req
    BY <2>2, <1>1, RequestFacts DEF IInv, TypeOK, Limit
  <2>4. \A u \in Callers : pc[u] = "calling" => Current(u) \in Requests
    BY CurrentFacts DEF Current, InCall, IInv, CallInv, TypeOK
  <2> QED
    BY <1>1, <1>3, <2>1, <2>3, <2>4 DEF IInv, CallInv
<1>8. QueueInv'
  <2>1. \A q \in Requests : Awaited(q) /\ q # req => Awaited(q)'
    BY <1>1, <1>3, RequestFacts DEF Awaited, IInv, TypeOK
  <2>2. CASE next[queue] = None
    BY <1>1, <2>2 DEF QueueInv
  <2>3. CASE next[queue] # None
    <3>1. /\ Awaited(next[queue]) /\ next[queue] # req /\ next[queue] \in Requests
          /\ next[next[queue]] = None
      BY <1>1, <2>3 DEF IInv, QueueInv, Awaited
    <3> QED
      BY <1>1, <2>1, <3>1 DEF QueueInv
  <2> QED
    BY <2>2, <2>3
<1> QED
  BY <1>4, <1>5, <1>6, <1>7, <1>8 DEF IInv

LEMMA RubyFinalizesInv == ASSUME IInv, RubyFinalizes PROVE IInv'
<1> USE ThreadsAssumption
<1> DEFINE o == Owner(req)
<1>1. /\ req = queue /\ queue \in Requests /\ Awaited(queue) /\ o \in Callers
      /\ pc[Ruby] = "finalize" /\ queue_mutex' = None
      /\ interp' = "finalized"
      /\ done' = [done EXCEPT ![req] = TRUE]
      /\ UNCHANGED <<phase, init_failed, ruby_is_running, calls, shutdown,
                     outcome, queue, next, result, req>>
  BY RequestFacts DEF RubyFinalizes, IInv, TypeOK, ThreadInv, QueueInv
<1>2. /\ pc' \in [Threads -> CallerPCs \cup RubyPCs]
      /\ pc'[Ruby] = "exited" /\ pc'[o] = "woken"
      /\ \A u \in Callers : u # o => pc'[u] = pc[u]
  BY <1>1 DEF RubyFinalizes, Signalled, IInv, TypeOK, Threads, Callers, CallerPCs,
     RubyPCs, Awaited, Waiting
<1>3. /\ \A u \in Callers : Current(u)' = Current(u) /\ (InCall(u)' <=> InCall(u))
      /\ \A u \in Callers : pc'[u] = "calling" => pc[u] = "calling" /\ Current(u) # req
  BY <1>1, <1>2 DEF Current, InCall, Waiting, Awaited, Owner
<1>4. TypeOK'
  BY <1>1, <1>2 DEF IInv, TypeOK, CallerPCs, RubyPCs
<1>5. ThreadInv'
  BY <1>1, <1>2 DEF IInv, TypeOK, ThreadInv
<1>6. PhaseInv'
  <2>1. pc[o] \notin {"idle", "joined"}
    BY <1>1 DEF Awaited, Waiting
  <2> QED
    BY <1>1, <1>2, <2>1 DEF IInv, TypeOK, PhaseInv, Callers
<1>7. CallInv'
  <2>1. \A q \in Requests : q # req => done'[q] = done[q]
    BY <1>1 DEF IInv, TypeOK
  <2>2. req[2] <= calls[o]
    BY <1>1 DEF Awaited, Current, IInv, TypeOK
  <2>3. \A q \in Requests : q[2] > calls[Owner(q)] => q # req
    BY <2>2, <1>1, RequestFacts DEF IInv, TypeOK, Limit
  <2>4. \A u \in Callers : pc[u] = "calling" => Current(u) \in Requests
    BY CurrentFacts DEF Current, InCall, IInv, CallInv, TypeOK
  <2> QED
    BY <1>1, <1>3, <2>1, <2>3, <2>4 DEF IInv, CallInv
<1>8. QueueInv'
  BY <1>2 DEF QueueInv
<1> QED
  BY <1>4, <1>5, <1>6, <1>7, <1>8 DEF IInv

LEMMA NextInv == IInv /\ [Next]_vars => IInv'
<1> SUFFICES ASSUME IInv, [Next]_vars PROVE IInv'
  OBVIOUS
<1>1. CASE MainStep
  BY <1>1, LifecycleInv DEF MainStep
<1>2. CASE RubyStep
  BY <1>2, LifecycleInv, RubyWaitsInv, RubyCompletesInv, RubyFinalizesInv DEF RubyStep
<1>3. ASSUME NEW t \in Callers, CallStep(t) PROVE IInv'
  BY <1>3, EnqueueInv, RecheckInv DEF CallStep
<1>4. CASE OptionalStep
  BY <1>4, LifecycleInv, RubyWaitsInv, CleanupCallsInv, CallInvariance, CallFailsInv,
     CallerMovesInv DEF OptionalStep
<1>5. CASE Terminated \/ UNCHANGED vars
  BY <1>5, LifecycleInv DEF Terminated
<1> QED
  BY <1>1, <1>2, <1>3, <1>4, <1>5 DEF Next

THEOREM Invariance == Spec => []IInv
<1>1. IInv /\ [Next]_vars => IInv'
  BY NextInv
<1> QED
  BY InitInv, <1>1, PTL DEF Spec

-----------------------------------------------------------------------------
(* The safety properties, for any number of workers and calls.             *)

\* Every variable of mod_ruby.c's queue keeps its type.
THEOREM TypeCorrect == Spec => []TypeOK
BY Invariance, PTL DEF IInv

\* The Ruby thread only ever finds requests whose callers are still blocked
\* in ruby_call_interpreter for them, each once and not yet done.
THEOREM QueueLiveness == Spec => []QueueIsLive
<1>1. IInv => QueueIsLive
  BY RequestFacts, ThreadsAssumption
     DEF IInv, TypeOK, QueueInv, QueueIsLive, Queued, Awaited
<1> QED
  BY Invariance, <1>1, PTL

\* Functions run with the mutex held, between ruby_init and ruby_finalize.
THEOREM RunningDiscipline == Spec => []RunsOnlyWhileUp
<1>1. IInv => RunsOnlyWhileUp
  BY ThreadsAssumption DEF IInv, TypeOK, RubyPCs, ThreadInv, RunsOnlyWhileUp
<1> QED
  BY Invariance, <1>1, PTL

\* No call comes before the interpreter announced itself, and none is under
\* way once the child's cleanup begins, if the MPM joins its workers.
THEOREM CallLifetime == Spec => []CallsWithinLifetime
<1>1. IInv => CallsWithinLifetime
  BY ThreadsAssumption
     DEF IInv, TypeOK, ThreadInv, PhaseInv, CallsWithinLifetime, InCall, Callers
<1> QED
  BY Invariance, <1>1, PTL

-----------------------------------------------------------------------------
(* A queue of two is long enough for two workers.                          *)

AtMostTwo(S) == \A x, y, z \in S : x = y \/ y = z \/ x = z

\* While three different threads are in ruby_call_interpreter, three workers
\* are.
LEMMA NotThreeInCall ==
  ASSUME IInv, JoinsWorkers, AtMostTwo(Workers), Alive,
         NEW x \in Callers, NEW y \in Callers, NEW z \in Callers,
         InCall(x), InCall(y), InCall(z)
  PROVE  x = y \/ y = z \/ x = z
<1>1. CASE phase = "serving"
  BY <1>1 DEF IInv, PhaseInv, InCall, Callers, AtMostTwo
<1>2. CASE phase \in {"childInit", "cleanup"}
  BY <1>2 DEF IInv, PhaseInv, InCall, Callers
<1>3. CASE phase \in {"init", "starting", "sleeping"}
  BY <1>3 DEF IInv, PhaseInv, InCall
<1> QED
  BY <1>1, <1>2, <1>3 DEF Alive, IInv, TypeOK, Phases

\* A step that leaves the queue alone strands nobody.
LEMMA NothingLostFrame ==
  ASSUME IInv, NothingLost, UNCHANGED <<queue, next, done>>,
         pc[Ruby] = "exited" => pc'[Ruby] = "exited",
         \A t \in Callers : Waiting(t)' => Waiting(t) /\ calls'[t] = calls[t]
  PROVE  NothingLost'
BY DEF NothingLost, Queued, Current

LEMMA NothingLostEnqueue ==
  ASSUME IInv, NothingLost, JoinsWorkers, AtMostTwo(Workers),
         NEW t \in Callers, Enqueue(t)
  PROVE  NothingLost'
<1> USE ThreadsAssumption
<1>1. /\ InCall(t) /\ Alive /\ pc[t] = "calling"
      /\ Link(Current(t))
      /\ UNCHANGED <<calls, done>>
      /\ \A u \in Callers : u # t => pc'[u] = pc[u]
      /\ pc'[Ruby] = "exited" <=> pc[Ruby] = "exited"
      /\ Current(t) \in Requests
  BY CurrentFacts DEF Enqueue, InCall, IInv, TypeOK, Threads, Callers, Signalled,
     CallInv, Current
<1>2. SUFFICES ASSUME pc'[Ruby] # "exited", pc[Ruby] # "exited",
                      NEW u \in Callers, Waiting(u)', ~ done[Current(u)]
               PROVE  Queued(Current(u))'
  BY <1>1 DEF NothingLost, Current
<1>3. CASE queue = None
  <2>1. queue' = Current(t)
    BY <1>1, <1>3 DEF Link
  <2>2. u # t => Waiting(u)
    BY <1>1, <1>2 DEF Waiting
  <2>3. u = t
    BY <1>2, <1>3, <2>2 DEF NothingLost, Queued
  <2> QED
    BY <1>1, <2>1, <2>3 DEF Queued, Current, IInv, TypeOK
<1>4. CASE queue # None
  <2>1. /\ Awaited(queue) /\ queue' = queue
        /\ next' = [next EXCEPT ![queue] = Current(t)]
        /\ Owner(queue) \in Callers /\ InCall(Owner(queue)) /\ Owner(queue) # t
    BY <1>1, <1>2, <1>4, RequestFacts DEF Link, IInv, QueueInv, Awaited, Waiting, InCall
  <2>2. next'[queue'] = Current(t)
    BY <2>1 DEF IInv, TypeOK, Awaited
  <2>3. CASE u = t
    BY <1>1, <1>4, <2>1, <2>2, <2>3 DEF Queued, Current
  <2>4. CASE u # t
    <3>1. Waiting(u) /\ InCall(u)
      BY <1>1, <1>2, <2>4 DEF Waiting, InCall
    <3>2. u = Owner(queue)
      BY <1>1, <2>1, <2>4, <3>1, NotThreeInCall
    <3> QED
      BY <1>1, <1>4, <2>1, <3>2 DEF Queued, Awaited, Current
  <2> QED
    BY <2>3, <2>4
<1> QED
  BY <1>3, <1>4

LEMMA NothingLostCompletes ==
  ASSUME IInv, NothingLost, NEW res \in {"value", "raised"}, RubyCompletes(res)
  PROVE  NothingLost'
<1> USE ThreadsAssumption
<1>1. /\ req = queue /\ queue \in Requests /\ queue # None /\ Owner(req) \in Callers
      /\ pc[Ruby] = "execute" /\ queue' = next[queue]
      /\ done' = [done EXCEPT ![req] = TRUE]
      /\ Waiting(Owner(req))
      /\ UNCHANGED <<calls, next>>
  BY RequestFacts DEF RubyCompletes, Advance, IInv, TypeOK, ThreadInv, QueueInv,
     Awaited
<1>2. \A u \in Callers : Waiting(u)' => Waiting(u)
  BY <1>1 DEF RubyCompletes, Signalled, IInv, TypeOK, Threads, Callers, Waiting
<1>3. SUFFICES ASSUME NEW u \in Callers, Waiting(u), ~ done'[Current(u)]
               PROVE  Queued(Current(u))'
  BY <1>1, <1>2 DEF NothingLost, Current
<1>4. Current(u) \in Requests
  BY <1>3, CurrentFacts DEF IInv, CallInv, InCall, Waiting, TypeOK, Current
<1>5. ~ done[Current(u)] /\ Current(u) # queue
  BY <1>1, <1>3, <1>4 DEF IInv, TypeOK
<1>6. Current(u) = next[queue]
  BY <1>1, <1>3, <1>5 DEF NothingLost, Queued
<1> QED
  BY <1>1, <1>4, <1>6 DEF Queued, Current

\* With at most two workers, joined before the child exits, no caller of
\* ruby_call_interpreter is ever dropped from the queue; with three one can
\* be.
THEOREM TwoWorkersLoseNothing ==
  ASSUME JoinsWorkers, AtMostTwo(Workers)
  PROVE  Spec => []NothingLost
<1> USE ThreadsAssumption
<1>1. Init => NothingLost
  BY DEF Init, NothingLost, Waiting, Threads, Callers
<1>2. ASSUME IInv, NothingLost, [Next]_vars PROVE NothingLost'
  <2>1. ASSUME NEW t \in Callers, CallStep(t) PROVE NothingLost'
    <3>1. CASE Enqueue(t)
      BY <1>2, <3>1, NothingLostEnqueue
    <3>2. CASE Recheck(t)
      BY <1>2, <3>2, NothingLostFrame
         DEF Recheck, queueVars, Waiting, IInv, TypeOK, Threads, Callers
    <3> QED
      BY <2>1, <3>1, <3>2 DEF CallStep
  <2>2. ASSUME NEW res \in {"value", "raised"}, RubyCompletes(res) PROVE NothingLost'
    BY <1>2, <2>2, NothingLostCompletes
  <2>3. CASE RubyFinalizes
    BY <1>2, <2>3, RequestFacts
       DEF RubyFinalizes, NothingLost, IInv, TypeOK, ThreadInv, Threads, Callers
  <2>4. CASE RubyWaits \/ RubyTakes \/ RubyWakesSpuriously \/ RubyCallsItself
             \/ RubyInitInterpreter \/ RubyInitExits \/ RubyAnnounce \/ CreateRubyThread
    BY <1>2, <2>4, NothingLostFrame
       DEF RubyWaits, RubyTakes, RubyWakesSpuriously, RubyCallsItself,
           RubyInitInterpreter, RubyInitExits, RubyAnnounce, CreateRubyThread, queueVars,
           Waiting, IInv, PhaseInv, TypeOK, Threads, Callers
  <2>5. CASE MainSleeps \/ MainSeesRunning \/ ChildInitReturns \/ JoinRubyThread
             \/ MainWakesSpuriously \/ ExitWithoutCleanup
    BY <1>2, <2>5, NothingLostFrame
       DEF MainSleeps, MainSeesRunning, ChildInitReturns, JoinRubyThread,
           MainWakesSpuriously, ExitWithoutCleanup, queueVars, Waiting
  <2>6. CASE Terminated \/ UNCHANGED vars
    BY <1>2, <2>6, NothingLostFrame DEF Terminated, vars, queueVars, Waiting
  <2>7. ASSUME NEW what \in {"mutex", "thread"}, ChildInitFails(what) PROVE NothingLost'
    BY <1>2, <2>7, NothingLostFrame DEF ChildInitFails, queueVars, Waiting
  <2>8. CASE CleanupCalls
    BY <1>2, <2>8, NothingLostFrame
       DEF CleanupCalls, Allocate, queueVars, Waiting, IInv, TypeOK, Threads, Callers
  <2>9. ASSUME NEW t \in Callers,
               Call(t) \/ CallFails(t) \/ EnqueueCrashes(t) \/ CallerWakesSpuriously(t)
               \/ (t \in Workers /\ WorkerExits(t))
        PROVE  NothingLost'
    BY <1>2, <2>9, NothingLostFrame
       DEF Call, CallFails, MayCall, Allocate, EnqueueCrashes, CallerWakesSpuriously,
           WorkerExits, queueVars, Waiting, IInv, TypeOK, Threads, Callers
  <2> QED
    BY <1>2, <2>1, <2>2, <2>3, <2>4, <2>5, <2>6, <2>7, <2>8, <2>9
       DEF Next, MainStep, RubyStep, OptionalStep, Callers
<1> QED
  BY Invariance, <1>1, <1>2, PTL DEF Spec

-----------------------------------------------------------------------------
(***************************************************************************)
(* The Ruby thread and its queue implement InterpreterService, for any     *)
(* number of workers and calls and whatever fails: every step of RubyThread *)
(* is a step of the service or a stuttering step of it.                    *)
(***************************************************************************)

\* An unfinished request has no result, and only Main asks for the shutdown.
ResultInv ==
  /\ \A r \in Requests : ~ done[r] => result[r] = "null"
  /\ shutdown \subseteq {Main} \X (1..2)

LEMMA ResultInvariance == Spec => []ResultInv
<1> USE ThreadsAssumption
<1>1. Init => ResultInv
  BY DEF Init, ResultInv
<1>2. ASSUME IInv, ResultInv, [Next]_vars PROVE ResultInv'
  <2>1. ASSUME NEW res \in {"value", "raised"}, RubyCompletes(res) PROVE ResultInv'
    <3>1. /\ req \in Requests /\ result' = [result EXCEPT ![req] = res]
          /\ done' = [done EXCEPT ![req] = TRUE] /\ shutdown' = shutdown
      BY <1>2, <2>1 DEF RubyCompletes, IInv, TypeOK, ThreadInv, QueueInv, Awaited
    <3> QED
      BY <1>2, <3>1 DEF ResultInv, IInv, TypeOK
  <2>2. CASE RubyFinalizes
    <3>1. /\ req \in Requests /\ result' = result
          /\ done' = [done EXCEPT ![req] = TRUE] /\ shutdown' = shutdown
      BY <1>2, <2>2 DEF RubyFinalizes, IInv, TypeOK, ThreadInv, QueueInv, Awaited
    <3> QED
      BY <1>2, <3>1 DEF ResultInv, IInv, TypeOK
  <2>3. CASE CleanupCalls
    <3>1. /\ calls[Main] + 1 \in 1..2 /\ done' = done /\ result' = result
          /\ shutdown' = shutdown \cup {<<Main, calls[Main] + 1>>}
      BY <1>2, <2>3 DEF CleanupCalls, ChildStops, queueVars, IInv, TypeOK, PhaseInv,
         Callers
    <3> QED
      BY <1>2, <3>1 DEF ResultInv
  <2>4. CASE UNCHANGED <<done, result, shutdown>>
    BY <1>2, <2>4 DEF ResultInv
  <2>5. ASSUME NEW t \in Callers,
               CallStep(t) \/ Call(t) \/ CallFails(t) \/ EnqueueCrashes(t)
               \/ CallerWakesSpuriously(t) \/ (t \in Workers /\ WorkerExits(t))
        PROVE  UNCHANGED <<done, result, shutdown>>
    BY <2>5 DEF CallStep, Enqueue, Recheck, Call, CallFails, EnqueueCrashes,
       CallerWakesSpuriously, WorkerExits, queueVars
  <2>6. ASSUME \/ \E what \in {"mutex", "thread"} : ChildInitFails(what)
               \/ CreateRubyThread \/ RubyInitInterpreter \/ RubyInitExits
               \/ RubyAnnounce \/ MainSleeps \/ MainWakesSpuriously \/ MainSeesRunning
               \/ ChildInitReturns \/ ExitWithoutCleanup \/ JoinRubyThread
               \/ RubyWaits \/ RubyTakes \/ RubyWakesSpuriously \/ RubyCallsItself
               \/ Terminated \/ UNCHANGED vars
        PROVE  UNCHANGED <<done, result, shutdown>>
    BY <2>6 DEF ChildInitFails, CreateRubyThread, RubyInitInterpreter, RubyInitExits,
       RubyAnnounce, MainSleeps, MainWakesSpuriously, MainSeesRunning, ChildInitReturns,
       ExitWithoutCleanup, JoinRubyThread, RubyWaits, RubyTakes, RubyWakesSpuriously,
       RubyCallsItself, Terminated, vars, queueVars
  <2> QED
    BY <1>2, <2>1, <2>2, <2>3, <2>4, <2>5, <2>6
       DEF Next, MainStep, RubyStep, OptionalStep, Callers
<1> QED
  BY Invariance, <1>1, <1>2, PTL DEF Spec

-----------------------------------------------------------------------------
Inv == IInv /\ ResultInv

\* A request none of whose fields change makes no progress.
LEMMA SameProgress ==
  ASSUME NEW q \in Requests,
         q[2] > calls'[Owner(q)] <=> q[2] > calls[Owner(q)],
         outcome'[q] = outcome[q], result'[q] = result[q],
         done[q] \in BOOLEAN, done'[q] = done[q],
         Executing(q)' <=> Executing(q),
         calls[Owner(q)] \in Nat, calls'[Owner(q)] \in Nat
  PROVE  CallProgress(q)' = CallProgress(q) /\ Answer(q)' = Answer(q)
<1>1. q[2] \in Nat /\ (Open(q)' <=> Open(q))
  BY RequestFacts, ThreadsAssumption DEF Open, Limit
<1> QED
  BY <1>1 DEF CallProgress, Answer

\* What the service sees of a request that is waited for.
LEMMA OpenProgress ==
  ASSUME NEW q \in Requests, calls[Owner(q)] \in Nat,
         q[2] <= calls[Owner(q)], outcome[q] = "none", done[q] \in BOOLEAN
  PROVE  /\ CallProgress(q) = IF done[q] THEN "done"
                              ELSE IF Executing(q) THEN "running" ELSE "pending"
         /\ Answer(q) = IF done[q] THEN result[q] ELSE "none"
<1>1. q[2] \in Nat /\ Open(q) /\ ~ (q[2] > calls[Owner(q)])
  BY RequestFacts, ThreadsAssumption DEF Open, Limit
<1> QED
  BY <1>1 DEF CallProgress, Answer

\* The refinement mapping, as functions.
callMap   == [r \in Requests |-> CallProgress(r)]
answerMap == [r \in Requests |-> Answer(r)]

\* A step in which only r makes progress.
OnlyMoves(r) ==
  \A q \in Requests : q # r =>
    CallProgress(q)' = CallProgress(q) /\ Answer(q)' = Answer(q)

LEMMA MapFacts ==
  ASSUME NEW r \in Requests, OnlyMoves(r)
  PROVE  /\ callMap' = [callMap EXCEPT ![r] = CallProgress(r)']
         /\ answerMap' = [answerMap EXCEPT ![r] = Answer(r)']
BY DEF callMap, answerMap, OnlyMoves

LEMMA NothingMoves ==
  ASSUME \A q \in Requests :
           CallProgress(q)' = CallProgress(q) /\ Answer(q)' = Answer(q)
  PROVE  callMap' = callMap /\ answerMap' = answerMap
BY DEF callMap, answerMap

\* The request the Ruby thread holds is the head, open and not done.
LEMMA HeldFacts ==
  ASSUME Inv, queue_mutex = Ruby
  PROVE  /\ req = queue /\ req \in Requests /\ Owner(req) \in Callers
         /\ req[2] <= calls[Owner(req)] /\ calls[Owner(req)] \in Nat
         /\ outcome[req] = "none" /\ ~ done[req] /\ result[req] = "null"
<1>1. pc[Ruby] # "exited" /\ queue # None /\ req = queue
  BY DEF Inv, IInv, ThreadInv
<1>2. Awaited(queue)
  BY <1>1 DEF Inv, IInv, QueueInv
<1> QED
  BY <1>1, <1>2, RequestFacts
     DEF Inv, IInv, ResultInv, TypeOK, CallInv, InCall, Waiting, Awaited, Current

\* A step that leaves every request, and what the Ruby thread holds, alone.
LEMMA IdleStep ==
  ASSUME Inv, UNCHANGED <<calls, outcome, result, done, shutdown>>,
         \/ UNCHANGED <<req, queue_mutex>>
         \/ queue_mutex = None /\ queue_mutex' = Ruby /\ req' \in shutdown
  PROVE  callMap' = callMap /\ answerMap' = answerMap
<1> USE ThreadsAssumption
<1>1. \A q \in Requests : Executing(q)' <=> Executing(q)
  BY DEF Executing
<1>2. \A q \in Requests :
        calls[Owner(q)] \in Nat /\ calls'[Owner(q)] \in Nat /\ done[q] \in BOOLEAN
  BY RequestFacts DEF Inv, IInv, TypeOK
<1>3. \A q \in Requests :
        CallProgress(q)' = CallProgress(q) /\ Answer(q)' = Answer(q)
  BY <1>1, <1>2, SameProgress
<1> QED
  BY <1>3, NothingMoves

\* Only r changes: the others keep their fields.
LEMMA OthersKeep ==
  ASSUME Inv, Inv', NEW r \in Requests,
         \A q \in Requests : q # r =>
           /\ q[2] > calls'[Owner(q)] <=> q[2] > calls[Owner(q)]
           /\ outcome'[q] = outcome[q] /\ result'[q] = result[q] /\ done'[q] = done[q]
           /\ Executing(q)' <=> Executing(q)
  PROVE  OnlyMoves(r)
<1>1. \A q \in Requests :
        calls[Owner(q)] \in Nat /\ calls'[Owner(q)] \in Nat /\ done[q] \in BOOLEAN
  BY RequestFacts DEF Inv, IInv, TypeOK
<1> QED
  BY <1>1, SameProgress DEF OnlyMoves

\* Allocating a request submits it.
LEMMA SubmitStep ==
  ASSUME Inv, Inv', NEW t \in Callers, NEW r \in Requests,
         r = <<t, calls[t] + 1>>, Allocate(t), pc[t] = "idle",
         UNCHANGED <<interp, outcome, result, done, req, queue_mutex>>,
         shutdown' = shutdown \/ shutdown' = shutdown \cup {r}
  PROVE  Service!Submit(r)
<1> USE ThreadsAssumption
<1>1. /\ Owner(r) = t /\ r[2] = calls[t] + 1 /\ calls[t] \in Nat
      /\ calls' = [calls EXCEPT ![t] = calls[t] + 1] /\ calls' [t] = calls[t] + 1
  BY DEF Inv, IInv, TypeOK, Allocate, Owner
<1>2. ~ done[r] /\ outcome[r] = "none" /\ result[r] = "null"
  BY <1>1 DEF Inv, IInv, CallInv, ResultInv, TypeOK
<1>3. ~ Executing(r) /\ ~ Executing(r)'
  <2>1. queue_mutex = Ruby => req # r
    BY <1>1, HeldFacts
  <2> QED
    BY <2>1 DEF Executing
<1>4. OnlyMoves(r)
  <2>1. \A q \in Requests : q # r => (q[2] > calls'[Owner(q)] <=> q[2] > calls[Owner(q)])
    <3>1. SUFFICES ASSUME NEW q \in Requests, q # r
                   PROVE  q[2] > calls'[Owner(q)] <=> q[2] > calls[Owner(q)]
      OBVIOUS
    <3>2. q = <<Owner(q), q[2]>> /\ Owner(q) \in Callers /\ q[2] \in Nat
      BY RequestFacts
    <3>3. CASE Owner(q) = t
      BY <1>1, <3>1, <3>2, <3>3
    <3>4. CASE Owner(q) # t
      BY <1>1, <3>2, <3>4 DEF Inv, IInv, TypeOK
    <3> QED
      BY <3>3, <3>4
  <2>2. \A q \in Requests : q # r => (Executing(q)' <=> Executing(q))
    BY DEF Executing
  <2> QED
    BY <2>1, <2>2, OthersKeep
<1>5. CallProgress(r) = "none" /\ Answer(r) = "none"
  <2>1. r[2] > calls[Owner(r)] /\ ~ Open(r)
    BY <1>1 DEF Open
  <2> QED
    BY <1>2, <2>1 DEF CallProgress, Answer
<1>6. CallProgress(r)' = "pending" /\ Answer(r)' = "none"
  <2>1. ~ (r[2] > calls'[Owner(r)]) /\ outcome'[r] = "none" /\ ~ done'[r]
    BY <1>1, <1>2
  <2> QED
    BY <1>3, <2>1 DEF CallProgress, Answer, Open
<1>7. callMap' = [callMap EXCEPT ![r] = "pending"]
  BY <1>4, <1>6, MapFacts
<1>8. answerMap' = answerMap
  <2>1. answerMap' = [answerMap EXCEPT ![r] = answerMap[r]]
    BY <1>4, <1>5, <1>6, MapFacts DEF answerMap
  <2> QED
    BY <2>1 DEF answerMap
<1> QED
  BY <1>5, <1>7, <1>8 DEF Service!Submit, callMap, answerMap

LEMMA FailStep ==
  ASSUME Inv, Inv', NEW t \in Callers, NEW r \in Requests,
         r = <<t, calls[t] + 1>>, CallFails(t)
  PROVE  Service!Fail(r)
<1> USE ThreadsAssumption
<1>1. /\ Owner(r) = t /\ r[2] = calls[t] + 1 /\ calls[t] \in Nat
      /\ calls' = [calls EXCEPT ![t] = calls[t] + 1] /\ calls'[t] = calls[t] + 1
      /\ outcome' = [outcome EXCEPT ![r] = "failed"] /\ outcome'[r] = "failed"
      /\ UNCHANGED <<result, done, req, queue_mutex, shutdown, interp>>
  BY DEF Inv, IInv, TypeOK, CallFails, Owner, queueVars, childVars
<1>2. ~ done[r] /\ outcome[r] = "none"
  BY <1>1 DEF Inv, IInv, CallInv
<1>3. OnlyMoves(r)
  <2>1. \A q \in Requests : q # r => (q[2] > calls'[Owner(q)] <=> q[2] > calls[Owner(q)])
    <3>1. SUFFICES ASSUME NEW q \in Requests, q # r
                   PROVE  q[2] > calls'[Owner(q)] <=> q[2] > calls[Owner(q)]
      OBVIOUS
    <3>2. q = <<Owner(q), q[2]>> /\ Owner(q) \in Callers /\ q[2] \in Nat
      BY RequestFacts
    <3>3. CASE Owner(q) = t
      BY <1>1, <3>1, <3>2, <3>3
    <3>4. CASE Owner(q) # t
      BY <1>1, <3>2, <3>4 DEF Inv, IInv, TypeOK
    <3> QED
      BY <3>3, <3>4
  <2>2. \A q \in Requests : q # r => /\ outcome'[q] = outcome[q]
                                     /\ Executing(q)' <=> Executing(q)
    BY <1>1 DEF Executing, Inv, IInv, TypeOK
  <2> QED
    BY <1>1, <2>1, <2>2, OthersKeep
<1>4. CallProgress(r) = "none" /\ Answer(r) = "none"
  <2>1. r[2] > calls[Owner(r)] /\ ~ Open(r)
    BY <1>1 DEF Open
  <2> QED
    BY <1>2, <2>1 DEF CallProgress, Answer
<1>5. CallProgress(r)' = "failed" /\ Answer(r)' = "none"
  <2>1. ~ (r[2] > calls'[Owner(r)]) /\ ~ done'[r] /\ ~ Open(r)'
    BY <1>1, <1>2 DEF Open
  <2> QED
    BY <1>1, <2>1 DEF CallProgress, Answer
<1>6. callMap' = [callMap EXCEPT ![r] = "failed"]
  BY <1>3, <1>5, MapFacts
<1>7. answerMap' = answerMap
  <2>1. answerMap' = [answerMap EXCEPT ![r] = answerMap[r]]
    BY <1>3, <1>4, <1>5, MapFacts DEF answerMap
  <2> QED
    BY <2>1 DEF answerMap
<1> QED
  BY <1>1, <1>4, <1>6, <1>7 DEF Service!Fail, callMap, answerMap

\* Between two functions no request is running.
LEMMA NoneRunning ==
  ASSUME \A q \in Requests : ~ Executing(q)
  PROVE  \A q \in Requests : callMap[q] # "running"
BY DEF callMap, CallProgress

LEMMA RunStep ==
  ASSUME Inv, Inv', RubyTakes, queue \notin shutdown
  PROVE  queue \in Requests /\ Service!Run(queue)
<1> USE ThreadsAssumption
<1>1. PICK r \in Requests : r = queue
  BY DEF Inv, IInv, TypeOK, RubyTakes
<1>2. /\ req' = r /\ queue_mutex = None /\ queue_mutex' = Ruby /\ r \notin shutdown
      /\ UNCHANGED <<calls, outcome, result, done, shutdown, interp>>
      /\ interp = "up"
  BY <1>1 DEF RubyTakes, LockedWhileRunning, childVars, Inv, IInv, TypeOK, ThreadInv
<1>3. /\ ~ done[r] /\ outcome[r] = "none" /\ result[r] = "null"
      /\ Owner(r) \in Callers /\ calls[Owner(r)] \in Nat /\ r[2] <= calls[Owner(r)]
  <2>1. pc[Ruby] # "exited" /\ queue # None
    BY DEF RubyTakes
  <2>2. Awaited(r)
    BY <1>1, <2>1 DEF Inv, IInv, QueueInv
  <2> QED
    BY <2>2, RequestFacts
       DEF Inv, IInv, ResultInv, TypeOK, CallInv, InCall, Waiting, Awaited, Current
<1>4. (\A q \in Requests : ~ Executing(q)) /\ Executing(r)'
  BY <1>2 DEF Executing
<1>5. CallProgress(r) = "pending" /\ Answer(r) = "none"
  BY <1>3, <1>4, OpenProgress DEF Inv, IInv, TypeOK
<1>6. CallProgress(r)' = "running" /\ Answer(r)' = "none"
  <2>1. r[2] \in Nat /\ ~ (r[2] > calls'[Owner(r)]) /\ outcome'[r] = "none" /\ ~ done'[r]
    BY <1>2, <1>3, RequestFacts DEF Limit
  <2>2. Open(r)'
    BY <1>2, <1>3 DEF Open
  <2> QED
    BY <1>4, <2>1, <2>2 DEF CallProgress, Answer
<1>7. OnlyMoves(r)
  <2>1. \A q \in Requests : q # r => (Executing(q)' <=> Executing(q))
    BY <1>2 DEF Executing
  <2> QED
    BY <1>2, <2>1, OthersKeep
<1>8. callMap' = [callMap EXCEPT ![r] = "running"]
  BY <1>6, <1>7, MapFacts
<1>9. answerMap' = answerMap
  <2>1. answerMap' = [answerMap EXCEPT ![r] = answerMap[r]]
    BY <1>5, <1>6, <1>7, MapFacts DEF answerMap
  <2> QED
    BY <2>1 DEF answerMap
<1>10. callMap[r] = "pending" /\ \A q \in Requests : callMap[q] # "running"
  BY <1>4, <1>5, NoneRunning DEF callMap
<1>11. Service!Run(r)
  BY <1>2, <1>8, <1>9, <1>10 DEF Service!Run, callMap, answerMap
<1> QED
  BY <1>1, <1>11

\* What marking the request the Ruby thread holds done does to the service.
LEMMA DoneStep ==
  ASSUME Inv, Inv', queue_mutex = Ruby, queue_mutex' = None,
         NEW r \in Requests, r = req, NEW res,
         done' = [done EXCEPT ![r] = TRUE], result' = [result EXCEPT ![r] = res],
         UNCHANGED <<calls, outcome, shutdown>>
  PROVE  /\ callMap[r] = IF r \in shutdown THEN "pending" ELSE "running"
         /\ callMap' = [callMap EXCEPT ![r] = "done"]
         /\ answerMap' = [answerMap EXCEPT ![r] = res]
<1> USE ThreadsAssumption
<1>1. /\ ~ done[r] /\ outcome[r] = "none" /\ done'[r] /\ result'[r] = res
      /\ Owner(r) \in Callers /\ calls[Owner(r)] \in Nat /\ r[2] <= calls[Owner(r)]
  BY HeldFacts DEF Inv, IInv, TypeOK
<1>2. CallProgress(r) = IF r \in shutdown THEN "pending" ELSE "running"
  BY <1>1, OpenProgress DEF Executing, Inv, IInv, TypeOK
<1>3. CallProgress(r)' = "done" /\ Answer(r)' = res
  <2>1. r[2] \in Nat /\ ~ (r[2] > calls'[Owner(r)]) /\ outcome'[r] = "none"
    BY <1>1, RequestFacts DEF Limit
  <2>2. Open(r)'
    BY <1>1 DEF Open
  <2> QED
    BY <1>1, <2>1, <2>2 DEF CallProgress, Answer
<1>4. OnlyMoves(r)
  <2>1. \A q \in Requests : q # r => /\ result'[q] = result[q] /\ done'[q] = done[q]
                                     /\ Executing(q)' <=> Executing(q)
    BY DEF Executing, Inv, IInv, TypeOK
  <2> QED
    BY <2>1, OthersKeep
<1> QED
  BY <1>2, <1>3, <1>4, MapFacts DEF callMap

LEMMA FinishStep ==
  ASSUME Inv, Inv', NEW res \in {"value", "raised"}, RubyCompletes(res)
  PROVE  req \in Requests /\ Service!Finish(req, res)
<1>1. queue_mutex = Ruby /\ req \notin shutdown
  BY DEF RubyCompletes, Inv, IInv, ThreadInv
<1>2. PICK r \in Requests : r = req
  BY <1>1, HeldFacts
<1>3. /\ queue_mutex' = None
      /\ done' = [done EXCEPT ![r] = TRUE] /\ result' = [result EXCEPT ![r] = res]
      /\ UNCHANGED <<calls, outcome, shutdown, interp>>
  BY <1>2 DEF RubyCompletes, childVars
<1>4. /\ callMap[r] = "running"
      /\ callMap' = [callMap EXCEPT ![r] = "done"]
      /\ answerMap' = [answerMap EXCEPT ![r] = res]
  BY <1>1, <1>2, <1>3, DoneStep
<1>5. Service!Finish(r, res)
  BY <1>3, <1>4 DEF Service!Finish, callMap, answerMap
<1> QED
  BY <1>2, <1>5

LEMMA StopStep ==
  ASSUME Inv, Inv', RubyFinalizes
  PROVE  req \in Requests /\ Service!Stop(req)
<1> USE ThreadsAssumption
<1>1. queue_mutex = Ruby /\ req \in shutdown /\ interp = "up"
  BY DEF RubyFinalizes, Inv, IInv, TypeOK, ThreadInv
<1>2. PICK r \in Requests : r = req
  BY <1>1, HeldFacts
<1>3. /\ queue_mutex' = None /\ interp' = "finalized"
      /\ done' = [done EXCEPT ![r] = TRUE] /\ result' = result
      /\ UNCHANGED <<calls, outcome, shutdown>>
  BY <1>2 DEF RubyFinalizes
<1>4. result' = [result EXCEPT ![r] = "null"]
  BY <1>1, <1>2, <1>3, HeldFacts DEF Inv, IInv, TypeOK
<1>5. /\ callMap[r] = "pending"
      /\ callMap' = [callMap EXCEPT ![r] = "done"]
      /\ answerMap' = [answerMap EXCEPT ![r] = "null"]
  BY <1>1, <1>2, <1>3, <1>4, DoneStep
<1>6. \A q \in Requests : callMap[q] # "running"
  BY <1>1, NoneRunning DEF Executing
<1>7. r \in {Main} \X (1..2)
  BY <1>1, <1>2 DEF Inv, ResultInv
<1>8. Service!Stop(r)
  BY <1>1, <1>3, <1>5, <1>6, <1>7 DEF Service!Stop, callMap, answerMap
<1> QED
  BY <1>2, <1>8

LEMMA ReturnStep ==
  ASSUME Inv, Inv', NEW t \in Callers, Recheck(t), Answered(Current(t))
  PROVE  Current(t) \in Requests /\ Service!Return(Current(t))
<1> USE ThreadsAssumption
<1>1. PICK r \in Requests : r = Current(t) /\ Owner(r) = t /\ r[2] = calls[t]
  BY CurrentFacts DEF Recheck, Inv, IInv, TypeOK, CallInv, InCall, Current
<1>2. /\ done[r] /\ outcome[r] = "none" /\ calls[Owner(r)] \in Nat
      /\ outcome' = [outcome EXCEPT ![r] = result[r]]
      /\ outcome'[r] = result[r] /\ result[r] \in {"null", "value", "raised"}
      /\ UNCHANGED <<calls, shutdown, interp, done, result, req, queue_mutex>>
  BY <1>1 DEF Recheck, Answered, Inv, IInv, TypeOK, CallInv, InCall, childVars,
     queueVars
<1>3. CallProgress(r) = "done" /\ Answer(r) = result[r]
  <2>1. r[2] <= calls[Owner(r)] /\ done[r] \in BOOLEAN
    BY <1>1, <1>2 DEF Inv, IInv, TypeOK
  <2> QED
    BY <1>2, <2>1, OpenProgress
<1>4. CallProgress(r)' = "returned" /\ Answer(r)' = result[r]
  <2>1. ~ (r[2] > calls'[Owner(r)]) /\ ~ Open(r)' /\ outcome'[r] # "failed"
        /\ outcome'[r] \in {"null", "value", "raised"}
    BY <1>1, <1>2 DEF Open
  <2> QED
    BY <1>2, <2>1 DEF CallProgress, Answer
<1>5. OnlyMoves(r)
  <2>1. \A q \in Requests : q # r => /\ outcome'[q] = outcome[q]
                                     /\ Executing(q)' <=> Executing(q)
    BY <1>2 DEF Executing, Inv, IInv, TypeOK
  <2> QED
    BY <1>2, <2>1, OthersKeep
<1>6. callMap' = [callMap EXCEPT ![r] = "returned"]
  BY <1>4, <1>5, MapFacts
<1>7. answerMap' = answerMap
  <2>1. answerMap' = [answerMap EXCEPT ![r] = answerMap[r]]
    BY <1>3, <1>4, <1>5, MapFacts DEF answerMap
  <2> QED
    BY <2>1 DEF answerMap
<1>8. Service!Return(r)
  BY <1>2, <1>3, <1>6, <1>7 DEF Service!Return, callMap, answerMap
<1> QED
  BY <1>1, <1>8

-----------------------------------------------------------------------------
LEMMA InitRefines == ASSUME Init PROVE Service!Init
<1> USE ThreadsAssumption
<1>1. \A r \in Requests : CallProgress(r) = "none" /\ Answer(r) = "none"
  <2>1. SUFFICES ASSUME NEW r \in Requests
                 PROVE  CallProgress(r) = "none" /\ Answer(r) = "none"
    OBVIOUS
  <2>2. r[2] > calls[Owner(r)] /\ ~ Open(r) /\ outcome[r] = "none" /\ ~ done[r]
    BY RequestFacts DEF Init, Open, Limit
  <2> QED
    BY <2>2 DEF CallProgress, Answer
<1> QED
  BY <1>1 DEF Init, Service!Init

\* The steps that leave the service as it is.
LEMMA StutterStep ==
  ASSUME Inv, interp' = interp,
         UNCHANGED <<calls, outcome, result, done, shutdown>>,
         \/ UNCHANGED <<req, queue_mutex>>
         \/ queue_mutex = None /\ queue_mutex' = Ruby /\ req' \in shutdown
  PROVE  UNCHANGED Service!svars
BY IdleStep DEF Service!svars, callMap, answerMap

LEMMA StepRefines ==
  ASSUME Inv, Inv', [Next]_vars
  PROVE  [Service!Next]_(Service!svars)
<1> USE ThreadsAssumption
<1>1. CASE RubyInitInterpreter
  <2>1. /\ UNCHANGED <<calls, outcome, result, done, shutdown, req, queue_mutex>>
        /\ interp = "down" /\ interp' = "up"
    BY <1>1 DEF RubyInitInterpreter, queueVars, Inv, IInv, ThreadInv
  <2>2. Service!BringUp
    BY <2>1, IdleStep DEF Service!BringUp, callMap, answerMap
  <2> QED
    BY <2>2 DEF Service!Next
<1>2. CASE RubyTakes
  <2>1. CASE queue \notin shutdown
    BY <1>2, <2>1, RunStep DEF Service!Next
  <2>2. CASE queue \in shutdown
    <3>1. /\ UNCHANGED <<calls, outcome, result, done, shutdown, interp>>
          /\ queue_mutex = None /\ queue_mutex' = Ruby /\ req' \in shutdown
      BY <1>2, <2>2 DEF RubyTakes, LockedWhileRunning, childVars
    <3> QED
      BY <3>1, StutterStep
  <2> QED
    BY <2>1, <2>2
<1>3. ASSUME NEW res \in {"value", "raised"}, RubyCompletes(res)
      PROVE  [Service!Next]_(Service!svars)
  BY <1>3, FinishStep DEF Service!Next
<1>4. CASE RubyFinalizes
  BY <1>4, StopStep DEF Service!Next
<1>5. ASSUME NEW t \in Callers, Recheck(t)
      PROVE  [Service!Next]_(Service!svars)
  <2>1. CASE Answered(Current(t))
    BY <1>5, <2>1, ReturnStep DEF Service!Next
  <2>2. CASE ~ Answered(Current(t))
    <3>1. UNCHANGED <<calls, outcome, result, done, shutdown, interp, req, queue_mutex>>
      BY <1>5, <2>2 DEF Recheck, childVars, queueVars
    <3> QED
      BY <3>1, StutterStep
  <2> QED
    BY <2>1, <2>2
<1>6. ASSUME NEW t \in Callers, Call(t)
      PROVE  [Service!Next]_(Service!svars)
  <2>1. PICK r \in Requests : r = <<t, calls[t] + 1>>
    <3>1. calls[t] + 1 \in Nat /\ calls[t] + 1 >= 1 /\ calls[t] + 1 <= Limit(t)
      BY <1>6 DEF Call, MayCall, Inv, IInv, TypeOK, Limit
    <3> QED
      BY <3>1, CurrentFacts
  <2>2. /\ Allocate(t) /\ pc[t] = "idle" /\ shutdown' = shutdown
        /\ UNCHANGED <<interp, outcome, result, done, req, queue_mutex>>
    BY <1>6 DEF Call, MayCall, childVars, queueVars
  <2>3. Service!Submit(r)
    BY <2>1, <2>2, SubmitStep
  <2> QED
    BY <2>3 DEF Service!Next
<1>7. ASSUME NEW t \in Callers, CallFails(t)
      PROVE  [Service!Next]_(Service!svars)
  <2>1. PICK r \in Requests : r = <<t, calls[t] + 1>>
    <3>1. calls[t] + 1 \in Nat /\ calls[t] + 1 >= 1 /\ calls[t] + 1 <= Limit(t)
      BY <1>7 DEF CallFails, MayCall, Inv, IInv, TypeOK, Limit
    <3> QED
      BY <3>1, CurrentFacts
  <2>2. Service!Fail(r)
    BY <1>7, <2>1, FailStep
  <2> QED
    BY <2>2 DEF Service!Next
<1>8. CASE CleanupCalls
  <2>1. /\ Allocate(Main) /\ pc[Main] = "idle" /\ calls[Main] <= 1 /\ Main \in Callers
        /\ shutdown' = shutdown \cup {<<Main, calls[Main] + 1>>}
        /\ UNCHANGED <<interp, outcome, result, done, req, queue_mutex>>
    BY <1>8 DEF CleanupCalls, ChildStops, queueVars, Callers, Inv, IInv, PhaseInv
  <2>2. PICK r \in Requests : r = <<Main, calls[Main] + 1>>
    BY <2>1, CurrentFacts DEF Inv, IInv, TypeOK, Limit
  <2>3. Service!Submit(r)
    BY <2>1, <2>2, SubmitStep
  <2> QED
    BY <2>3 DEF Service!Next
<1>9. ASSUME \/ \E t \in Callers :
                  \/ Enqueue(t) \/ EnqueueCrashes(t) \/ CallerWakesSpuriously(t)
                  \/ t \in Workers /\ WorkerExits(t)
             \/ \E what \in {"mutex", "thread"} : ChildInitFails(what)
             \/ CreateRubyThread \/ RubyInitExits \/ RubyAnnounce \/ MainSleeps
             \/ MainWakesSpuriously \/ MainSeesRunning \/ ChildInitReturns \/ ExitWithoutCleanup
             \/ JoinRubyThread \/ RubyWaits \/ RubyWakesSpuriously
             \/ RubyCallsItself \/ Terminated \/ UNCHANGED vars
      PROVE  [Service!Next]_(Service!svars)
  <2>1. UNCHANGED <<calls, outcome, result, done, shutdown, interp, req, queue_mutex>>
    BY <1>9 DEF Enqueue, EnqueueCrashes, CallerWakesSpuriously, WorkerExits,
       ChildInitFails, CreateRubyThread, RubyInitExits, RubyAnnounce, MainSleeps,
       MainWakesSpuriously, MainSeesRunning, ChildInitReturns, ExitWithoutCleanup,
       JoinRubyThread, RubyWaits, RubyWakesSpuriously, RubyCallsItself, Terminated,
       vars, childVars, queueVars
  <2> QED
    BY <2>1, StutterStep
<1> QED
  BY <1>1, <1>2, <1>3, <1>4, <1>5, <1>6, <1>7, <1>8, <1>9
     DEF Next, MainStep, RubyStep, CallStep, OptionalStep, Callers

\* The Ruby thread and its queue implement the service ruby_call_interpreter
\* promises, however many threads call and whatever fails: one function at a
\* time, each at most once and only between ruby_init and ruby_finalize, and
\* every caller that returns has the result of its own function.
THEOREM Refinement == Spec => ServiceSpec
<1>1. Init => Service!Init
  BY InitRefines
<1>2. Inv /\ Inv' /\ [Next]_vars => [Service!Next]_(Service!svars)
  BY StepRefines
<1>3. Spec => []Inv
  BY Invariance, ResultInvariance, PTL DEF Inv
<1> QED
  BY <1>1, <1>2, <1>3, PTL DEF Spec, ServiceSpec, Service!Spec
=============================================================================
