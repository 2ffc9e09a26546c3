----------------------------- MODULE RubyThread -----------------------------
(***************************************************************************)
(* The Ruby thread of a threaded MPM and the request queue through which   *)
(* the Apache threads of one child process reach it: ruby_child_init,      *)
(* ruby_thread_start, ruby_call_interpreter and ruby_child_cleanup of      *)
(* mod_ruby.c.                                                             *)
(*                                                                         *)
(* A step is a stretch of code between two points where another thread can *)
(* get in.  Everything a thread does from the moment it locks              *)
(* ruby_request_queue_mutex to the moment it unlocks it or waits on a      *)
(* condition is one step, because every access to the queue is made under  *)
(* that mutex; only the Ruby thread keeps it over several steps, while it  *)
(* runs the function of a request.  Waiting on a condition releases the    *)
(* mutex; a signal, or a spurious wake-up, makes the thread "woken", and   *)
(* it goes on once it has the mutex again.                                 *)
(***************************************************************************)
EXTENDS Naturals

CONSTANTS
  Workers,       \* the Apache worker threads of the child process
  Main,          \* the thread that runs child_init and the child's cleanups
  Ruby,          \* the thread created for the interpreter
  None,          \* the NULL pointer
  MaxCalls,      \* bound: calls of ruby_call_interpreter per worker
  JoinsWorkers,  \* does the MPM join its workers before the child exits?
  NestedCalls,   \* do handlers do what calls ruby_call_interpreter again?
  MayFail        \* may the creation of pools, mutexes, conditions and threads
                 \* fail, and a required library call exit?

Callers  == Workers \cup {Main}
Threads  == Callers \cup {Ruby}

\* A request is a ruby_request_t: the k-th one its owner allocated.  Main
\* makes at most two, for RubyChildInitHandler and for the shutdown.
Limit(t) == IF t = Main THEN 2 ELSE MaxCalls
Requests == (Workers \X (1..MaxCalls)) \cup ({Main} \X (1..2))
Owner(r) == r[1]

ASSUME ThreadsAssumption ==
  /\ Main \notin Workers
  /\ Ruby \notin Callers
  /\ None \notin Requests \cup {Ruby}
  /\ MaxCalls \in Nat \ {0}
  /\ JoinsWorkers \in BOOLEAN
  /\ NestedCalls \in BOOLEAN
  /\ MayFail \in BOOLEAN

VARIABLES
  phase,               \* how far the child process is
  init_failed,         \* what ruby_child_init failed to create
  ruby_is_running,
  interp,              \* the interpreter: "down", "up" or "finalized"
  pc,                  \* where each thread is
  calls,               \* how many requests each caller has allocated
  queue,               \* ruby_request_queue: the head, or None
  next,                \* req->next
  shutdown,            \* requests whose func is SHUTDOWN_RUBY_THREAD
  result,              \* req->result and req->state, once set
  done,                \* req->done
  req,                 \* the Ruby thread's local variable
  queue_mutex,         \* who keeps ruby_request_queue_mutex over a step
  outcome              \* what each call returned to its caller

childVars == <<phase, init_failed, ruby_is_running, interp>>
queueVars == <<queue, next, done, result, req, queue_mutex>>
vars == <<childVars, pc, calls, shutdown, outcome, queueVars>>

Phases == {"init", "starting", "sleeping", "childInit", "serving", "cleanup",
           "exited", "aborted", "crashed"}
CallerPCs == {"idle", "calling", "waiting", "woken", "joined"}
RubyPCs == {"none", "boot", "announce", "loop", "waiting", "woken",
            "execute", "selflock", "finalize", "exited"}

TypeOK ==
  /\ phase \in Phases
  /\ init_failed \in {"none", "mutex", "thread"}
  /\ ruby_is_running \in BOOLEAN
  /\ interp \in {"down", "up", "finalized"}
  /\ pc \in [Threads -> CallerPCs \cup RubyPCs]
  /\ pc[Ruby] \in RubyPCs
  /\ \A t \in Callers : pc[t] \in CallerPCs
  /\ calls \in [Callers -> Nat]
  /\ \A t \in Callers : calls[t] <= Limit(t)
  /\ queue \in Requests \cup {None}
  /\ next \in [Requests -> Requests \cup {None}]
  /\ shutdown \in SUBSET Requests
  /\ result \in [Requests -> {"null", "value", "raised"}]
  /\ done \in [Requests -> BOOLEAN]
  /\ req \in Requests \cup {None}
  /\ queue_mutex \in {Ruby, None}
  /\ outcome \in [Requests -> {"none", "null", "value", "raised", "failed"}]

Init ==
  /\ phase = "init"
  /\ init_failed = "none"
  /\ ruby_is_running = FALSE
  /\ interp = "down"
  /\ pc = [t \in Threads |-> IF t = Ruby THEN "none" ELSE "idle"]
  /\ calls = [t \in Callers |-> 0]
  /\ queue = None
  /\ next = [r \in Requests |-> None]
  /\ shutdown = {}
  /\ result = [r \in Requests |-> "null"]
  /\ done = [r \in Requests |-> FALSE]
  /\ req = None
  /\ queue_mutex = None
  /\ outcome = [r \in Requests |-> "none"]

\* The request a caller allocated last: the local variable req of its
\* ruby_call_interpreter.
Current(t) == <<t, calls[t]>>
InCall(t) == pc[t] \in {"calling", "waiting", "woken"}
Alive == phase \notin {"exited", "aborted", "crashed"}

\* A thread blocked in ruby_call_interpreter waits for its request.
Waiting(t) == pc[t] \in {"waiting", "woken"}

\* What a thread that waits on a condition becomes when it is signalled.
SignalForgotten(p) == p
Signalled(p) == IF p = "waiting" THEN "woken" ELSE p

-----------------------------------------------------------------------------
(* Start-up: ruby_child_init, and the head of ruby_thread_start.           *)

\* One of the creations fails: ruby_child_init logs it and returns, and the
\* child process serves requests all the same.
ChildInitFails(what) ==
  /\ MayFail
  /\ phase = "init"
  /\ phase' = "serving"
  /\ init_failed' = what
  /\ UNCHANGED <<ruby_is_running, interp, pc, calls, shutdown, outcome, queueVars>>

CreateRubyThread ==
  /\ phase = "init"
  /\ phase' = "starting"
  /\ pc' = [pc EXCEPT ![Ruby] = "boot"]
  /\ UNCHANGED <<init_failed, ruby_is_running, interp, calls, shutdown,
                 outcome, queueVars>>

RubyInitInterpreter ==
  /\ Alive
  /\ pc[Ruby] = "boot"
  /\ interp' = "up"
  /\ pc' = [pc EXCEPT ![Ruby] = "announce"]
  /\ UNCHANGED <<phase, init_failed, ruby_is_running, calls, shutdown,
                 outcome, queueVars>>

\* A library that ruby_init_interpreter requires calls exit, and
\* ruby_require_directly ends the process with it.
RubyInitExits ==
  /\ MayFail
  /\ Alive
  /\ pc[Ruby] = "boot"
  /\ phase' = "aborted"
  /\ UNCHANGED <<init_failed, ruby_is_running, interp, pc, calls, shutdown,
                 outcome, queueVars>>

\* Sets ruby_is_running and signals ruby_is_running_cond, under its mutex.
RubyAnnounce ==
  /\ pc[Ruby] = "announce"
  /\ ruby_is_running' = TRUE
  /\ phase' = IF phase = "sleeping" THEN "starting" ELSE phase
  /\ pc' = [pc EXCEPT ![Ruby] = "loop"]
  /\ UNCHANGED <<init_failed, interp, calls, shutdown, outcome, queueVars>>

MainSleeps ==
  /\ phase = "starting"
  /\ ~ ruby_is_running
  /\ phase' = "sleeping"
  /\ UNCHANGED <<init_failed, ruby_is_running, interp, pc, calls, shutdown,
                 outcome, queueVars>>

MainWakesSpuriously ==
  /\ phase = "sleeping"
  /\ phase' = "starting"
  /\ UNCHANGED <<init_failed, ruby_is_running, interp, pc, calls, shutdown,
                 outcome, queueVars>>

\* ruby_running().
RunningUnchecked == TRUE
Running == ruby_is_running

\* ruby_child_cleanup is registered.
MainSeesRunning ==
  /\ phase = "starting"
  /\ Running
  /\ phase' = "childInit"
  /\ UNCHANGED <<init_failed, ruby_is_running, interp, pc, calls, shutdown,
                 outcome, queueVars>>

\* ruby_child_init returns, with or without a RubyChildInitHandler run.
ChildInitReturns ==
  /\ phase = "childInit"
  /\ pc[Main] = "idle"
  /\ phase' = "serving"
  /\ UNCHANGED <<init_failed, ruby_is_running, interp, pc, calls, shutdown,
                 outcome, queueVars>>

-----------------------------------------------------------------------------
(* ruby_call_interpreter.                                                  *)

MayCallAlways(t) == Alive /\ pc[t] = "idle" /\ calls[t] < Limit(t)
MayCall(t) ==
  /\ Alive
  /\ pc[t] = "idle"
  /\ calls[t] < Limit(t)
  /\ IF t = Main THEN phase = "childInit" /\ calls[t] = 0
                 ELSE phase \in {"serving", "cleanup"}

\* The request is allocated and filled in, its done_cond created.
Allocate(t) ==
  /\ calls' = [calls EXCEPT ![t] = @ + 1]
  /\ pc' = [pc EXCEPT ![t] = "calling"]

Call(t) ==
  /\ MayCall(t)
  /\ Allocate(t)
  /\ UNCHANGED <<childVars, shutdown, outcome, queueVars>>

\* apr_thread_cond_create fails: nothing is queued.
CallFails(t) ==
  /\ MayFail
  /\ MayCall(t)
  /\ calls' = [calls EXCEPT ![t] = @ + 1]
  /\ outcome' = [outcome EXCEPT ![<<t, calls[t] + 1>>] = "failed"]
  /\ UNCHANGED <<childVars, pc, shutdown, queueVars>>

\* ruby_request_queue->next = req if there is a head, else the head is req.
LinkAsHead(r) == queue' = r /\ UNCHANGED next
Link(r) ==
  IF queue # None
    THEN next' = [next EXCEPT ![queue] = r] /\ UNCHANGED queue
    ELSE queue' = r /\ UNCHANGED next

\* The request is linked in, the queue's condition is signalled, and the
\* caller waits on its done_cond.
Enqueue(t) ==
  /\ Alive
  /\ pc[t] = "calling"
  /\ init_failed # "mutex"
  /\ queue_mutex = None
  /\ Link(Current(t))
  /\ pc' = [pc EXCEPT ![t] = "waiting", ![Ruby] = Signalled(@)]
  /\ UNCHANGED <<childVars, calls, shutdown, outcome, done, result, req,
                 queue_mutex>>

\* A mutex or condition that was never created, or a head whose pool is
\* gone (its owner has returned), may take the process down.
EnqueueCrashes(t) ==
  /\ Alive
  /\ pc[t] = "calling"
  /\ \/ init_failed = "mutex"
     \/ /\ queue_mutex = None
        /\ queue # None
        /\ outcome[queue] # "none"
  /\ phase' = "crashed"
  /\ UNCHANGED <<init_failed, ruby_is_running, interp, pc, calls, shutdown,
                 outcome, queueVars>>

CallerWakesSpuriously(t) ==
  /\ Alive
  /\ pc[t] = "waiting"
  /\ pc' = [pc EXCEPT ![t] = "woken"]
  /\ UNCHANGED <<childVars, calls, shutdown, outcome, queueVars>>

\* The condition of the caller's loop, while (!req->done).
NotRechecked(r) == TRUE
Answered(r) == done[r]

\* The caller has the mutex again: it returns if its request is done and
\* waits on otherwise.
Recheck(t) ==
  /\ Alive
  /\ pc[t] = "woken"
  /\ queue_mutex = None
  /\ IF Answered(Current(t))
       THEN /\ pc' = [pc EXCEPT ![t] = "idle"]
            /\ outcome' = [outcome EXCEPT ![Current(t)] = result[Current(t)]]
       ELSE /\ pc' = [pc EXCEPT ![t] = "waiting"]
            /\ UNCHANGED outcome
  /\ UNCHANGED <<childVars, calls, shutdown, queueVars>>

-----------------------------------------------------------------------------
(* The loop of ruby_thread_start.                                          *)

RubyWaits ==
  /\ Alive
  /\ pc[Ruby] \in {"loop", "woken"}
  /\ queue_mutex = None
  /\ queue = None
  /\ pc' = [pc EXCEPT ![Ruby] = "waiting"]
  /\ UNCHANGED <<childVars, calls, shutdown, outcome, queueVars>>

RubyWakesSpuriously ==
  /\ Alive
  /\ pc[Ruby] = "waiting"
  /\ pc' = [pc EXCEPT ![Ruby] = "woken"]
  /\ UNCHANGED <<childVars, calls, shutdown, outcome, queueVars>>

\* The mutex is unlocked only after the function has run.
UnlockedWhileRunning == UNCHANGED queue_mutex
LockedWhileRunning == queue_mutex' = Ruby

\* The head becomes req and the mutex stays locked.
RubyTakes ==
  /\ Alive
  /\ pc[Ruby] \in {"loop", "woken"}
  /\ queue_mutex = None
  /\ queue # None
  /\ req' = queue
  /\ LockedWhileRunning
  /\ pc' = [pc EXCEPT ![Ruby] =
              IF queue \in shutdown THEN "finalize" ELSE "execute"]
  /\ UNCHANGED <<childVars, calls, shutdown, outcome, queue, next, done, result>>

\* ruby_request_queue = ruby_request_queue->next.
KeepHead == UNCHANGED queue
Advance == queue' = next[queue]

\* The function of req returned or raised: the result is stored, the queue
\* advances, the caller is signalled and the mutex unlocked.
RubyCompletes(res) ==
  /\ Alive
  /\ pc[Ruby] = "execute"
  /\ result' = [result EXCEPT ![req] = res]
  /\ Advance
  /\ done' = [done EXCEPT ![req] = TRUE]
  /\ queue_mutex' = None
  /\ pc' = [pc EXCEPT ![Ruby] = "loop", ![Owner(req)] = Signalled(@)]
  /\ UNCHANGED <<childVars, calls, shutdown, outcome, next, req>>

\* The function itself calls ruby_call_interpreter, as a phase handler of a
\* subrequest or internal redirect does: it locks the mutex its own thread
\* holds, and there is no step from there.
RubyCallsItself ==
  /\ Alive
  /\ NestedCalls
  /\ pc[Ruby] = "execute"
  /\ pc' = [pc EXCEPT ![Ruby] = "selflock"]
  /\ UNCHANGED <<childVars, calls, shutdown, outcome, queueVars>>

\* After the loop: the interpreter is finalized and the shutdown request
\* marked done; it stays at the head of the queue.
RubyFinalizes ==
  /\ Alive
  /\ pc[Ruby] = "finalize"
  /\ interp' = "finalized"
  /\ done' = [done EXCEPT ![req] = TRUE]
  /\ queue_mutex' = None
  /\ pc' = [pc EXCEPT ![Ruby] = "exited", ![Owner(req)] = Signalled(@)]
  /\ UNCHANGED <<phase, init_failed, ruby_is_running, calls, shutdown,
                 outcome, queue, next, result, req>>

-----------------------------------------------------------------------------
(* The end of the child process: ruby_child_cleanup.                       *)

WorkerExits(w) ==
  /\ phase \in {"serving", "cleanup"}
  /\ pc[w] = "idle"
  /\ pc' = [pc EXCEPT ![w] = "joined"]
  /\ UNCHANGED <<childVars, calls, shutdown, outcome, queueVars>>

ChildStops ==
  /\ phase = "serving"
  /\ JoinsWorkers => \A w \in Workers : pc[w] = "joined"

\* The cleanup was registered: it calls the interpreter with
\* SHUTDOWN_RUBY_THREAD.
CleanupCalls ==
  /\ ChildStops
  /\ init_failed = "none"
  /\ Allocate(Main)
  /\ shutdown' = shutdown \cup {<<Main, calls[Main] + 1>>}
  /\ phase' = "cleanup"
  /\ UNCHANGED <<init_failed, ruby_is_running, interp, outcome, queueVars>>

\* No cleanup was registered, or its pool or done_cond cannot be created.
ExitWithoutCleanup ==
  /\ ChildStops
  /\ init_failed # "none" \/ MayFail
  /\ phase' = "exited"
  /\ UNCHANGED <<init_failed, ruby_is_running, interp, pc, calls, shutdown,
                 outcome, queueVars>>

\* ruby_call_interpreter returned; apr_thread_join waits for the thread.
JoinRubyThread ==
  /\ phase = "cleanup"
  /\ pc[Main] = "idle"
  /\ pc[Ruby] = "exited"
  /\ phase' = "exited"
  /\ UNCHANGED <<init_failed, ruby_is_running, interp, pc, calls, shutdown,
                 outcome, queueVars>>

\* The process is gone.
Terminated ==
  /\ ~ Alive
  /\ UNCHANGED vars

-----------------------------------------------------------------------------
MainStep ==
  \/ CreateRubyThread
  \/ MainSleeps
  \/ MainSeesRunning
  \/ ChildInitReturns
  \/ JoinRubyThread

RubyStep ==
  \/ RubyInitInterpreter
  \/ RubyAnnounce
  \/ RubyWaits
  \/ RubyTakes
  \/ \E res \in {"value", "raised"} : RubyCompletes(res)
  \/ RubyFinalizes

CallStep(t) ==
  \/ Enqueue(t)
  \/ Recheck(t)

\* Steps that need not happen: failures, spurious wake-ups, and what the
\* MPM, the clients and the handlers decide.
OptionalStep ==
  \/ \E what \in {"mutex", "thread"} : ChildInitFails(what)
  \/ RubyInitExits
  \/ MainWakesSpuriously
  \/ RubyWakesSpuriously
  \/ RubyCallsItself
  \/ CleanupCalls
  \/ ExitWithoutCleanup
  \/ \E t \in Callers : \/ Call(t)
                        \/ CallFails(t)
                        \/ EnqueueCrashes(t)
                        \/ CallerWakesSpuriously(t)
  \/ \E w \in Workers : WorkerExits(w)

Next ==
  \/ MainStep
  \/ RubyStep
  \/ \E t \in Callers : CallStep(t)
  \/ OptionalStep
  \/ Terminated

Spec == Init /\ [][Next]_vars

\* The operating system runs every thread that can run, handlers return,
\* and a thread that asks for the mutex while it is free gets it.
Fairness ==
  /\ WF_vars(MainStep)
  /\ WF_vars(RubyStep)
  /\ \A t \in Callers : WF_vars(CallStep(t))

FairSpec == Spec /\ Fairness
-----------------------------------------------------------------------------
(* Properties.                                                             *)

\* A request can be found by the Ruby thread: it is the head of the queue
\* or the one linked behind it.
Queued(r) ==
  /\ queue # None
  /\ r = queue \/ r = next[queue]

\* ruby_call_interpreter never strands a caller: while the Ruby thread runs,
\* a thread waiting for done is in the queue or already done.  Appending is
\* ruby_request_queue->next = req, so this depends on how many threads call.
NothingLost ==
  pc[Ruby] # "exited" =>
    \A t \in Callers : Waiting(t) =>
      done[Current(t)] \/ Queued(Current(t))

\* The queue holds only requests whose callers are still blocked in
\* ruby_call_interpreter, each at most once and not yet done: the Ruby
\* thread never runs a function twice and never touches a request whose
\* memory its owner's pool has taken back.
QueueIsLive ==
  pc[Ruby] # "exited" =>
    /\ \A r \in Requests : Queued(r) =>
         /\ r = Current(Owner(r))
         /\ Waiting(Owner(r))
         /\ ~ done[r]
    /\ queue # None => next[queue] # queue

\* A handler only ever runs between ruby_init and ruby_finalize, holding
\* the queue mutex, and never after shutdown was taken from the queue.
RunsOnlyWhileUp ==
  /\ pc[Ruby] \in {"execute", "selflock", "finalize"} <=> queue_mutex = Ruby
  /\ pc[Ruby] \in {"execute", "selflock"} =>
       interp = "up" /\ queue = req /\ req \notin shutdown
  /\ interp = "finalized" <=> pc[Ruby] = "exited"

\* Unless ruby_child_init failed, no thread is in ruby_call_interpreter
\* before the interpreter announced itself; when the MPM joins its workers
\* first, none is left in it once the shutdown request is made.
CallsWithinLifetime ==
  /\ init_failed = "none" =>
       \A t \in Callers : InCall(t) => ruby_is_running /\ interp # "down"
  /\ JoinsWorkers /\ phase \in {"cleanup", "exited"} =>
       \A w \in Workers : ~ InCall(w)

\* RubyHandler, RubyTransHandler, ...: a request handed to the interpreter
\* gets its answer.
EveryCallAnswered ==
  \A t \in Callers :
    (InCall(t) /\ init_failed = "none") ~> (~ InCall(t) \/ ~ Alive)

\* Once the child's cleanup asks the interpreter to stop, the interpreter is
\* finalized, its thread joined, and the child gone.
ShutdownCompletes ==
  (phase = "cleanup") ~> (phase = "exited" /\ interp = "finalized")

-----------------------------------------------------------------------------
(* The threads implement the service their callers see.                    *)

\* The function of r is on the Ruby thread's stack.
Executing(r) == queue_mutex = Ruby /\ req = r /\ r \notin shutdown

\* The caller of r has not returned.
Open(r) == r[2] <= calls[Owner(r)] /\ outcome[r] = "none"

CallProgress(r) ==
  CASE r[2] > calls[Owner(r)]         -> "none"
    [] outcome[r] = "failed"          -> "failed"
    [] outcome[r] \in {"null", "value", "raised"} -> "returned"
    [] Open(r) /\ done[r]             -> "done"
    [] Open(r) /\ ~ done[r] /\ Executing(r) -> "running"
    [] OTHER                          -> "pending"

\* Before the caller returns, the answer is in its request; afterwards it is
\* what the caller was given.
Answer(r) ==
  IF outcome[r] \in {"null", "value", "raised"} THEN outcome[r]
  ELSE IF done[r] THEN result[r] ELSE "none"

Service == INSTANCE InterpreterService WITH
  Stoppers <- {Main} \X (1..2),
  call     <- [r \in Requests |-> CallProgress(r)],
  answer   <- [r \in Requests |-> Answer(r)]

\* One call at a time, each at most once, only while the interpreter is up,
\* and every caller gets the result of its own function.
ServiceSpec == Service!Spec
=============================================================================
