---------------------------- MODULE HandlerCalls ----------------------------
(***************************************************************************)
(* What a call of a Ruby handler sets up and puts back: per_request_init   *)
(* and per_request_cleanup of mod_ruby.c around the handlers of a phase,   *)
(* the Apache::Request objects request.c keeps for the requests, and the   *)
(* pool cleanups that take them away.  Apache is the environment: it       *)
(* accepts requests, runs phases, makes subrequests and internal           *)
(* redirects, and destroys pools.                                          *)
(*                                                                         *)
(* In a prefork child handlers nest: a handler that looks up a URI,        *)
(* redirects, or makes Apache log an error has Apache call mod_ruby again  *)
(* before it returns.  In a threaded MPM several requests are alive at     *)
(* once but one handler runs at a time, on the Ruby thread (RubyThread),   *)
(* and a nested call never gets that far.                                  *)
(***************************************************************************)
EXTENDS Naturals, Sequences, FiniteSets

CONSTANTS
  Initials,      \* requests read from connections
  Others,        \* subrequests and internal redirects
  None,          \* NULL, and Ruby's nil
  Base,          \* the environment of the child process
  Scenarios,     \* what handlers and Apache do, and the connection requests they do it for
  MaxHandlers    \* bound: calls of ruby_handler_internal

Requests == Initials \cup Others
Envs     == Requests \cup {Base}

ASSUME HandlersAssumption ==
  /\ Initials \cap Others = {}
  /\ None \notin Requests \cup {Base}
  /\ None \notin Requests \X Nat
  /\ None \notin [saved_env : Envs, request_object : Requests \X Nat]
  /\ Base \notin Requests
  /\ Scenarios \subseteq
       [does : SUBSET {"lookup", "redirect", "errorlog", "errordocument", "subrequest"},
        for : SUBSET Initials]
  /\ MaxHandlers \in Nat

VARIABLES
  scenario,      \* one of Scenarios
  ruby_is_threaded_mpm,
  handled,       \* how many calls of ruby_handler_internal there were
  status,        \* of each request_rec: "fresh", "live", "lookedUp" (Apache runs
                 \* no more phases of it), "dying" or "gone"
  main,          \* r->main
  next,          \* r->next
  pool,          \* r->pool, named by the request it was made for
  cleanups,      \* the cleanups registered on each pool, the last one first
  rconf,         \* get_request_config(r), or None
  made,          \* how many objects apache_request_new made for a request
  registered,    \* the values of rb_apache_objrefs
  destroyed,     \* objects whose data is NULL
  rb_request,    \* with $stdin and $stdout; None is nil and the originals
  env,           \* whose variables environ holds
  frames,        \* the C stack: handler calls and what they called, last first
  orphans        \* history: objects that no rconf refers to

apacheVars == <<scenario, ruby_is_threaded_mpm, status, main, next, pool>>
objectVars == <<cleanups, made, registered, destroyed, orphans>>
vars == <<apacheVars, handled, objectVars, rconf, rb_request, env, frames>>

\* The objects made so far, of each request from 1 on.
Objects == {o \in Requests \X (Nat \ {0}) : o[2] <= made[o[1]]}

Handler(r, flush) == [does |-> "handler", req |-> r, flush |-> flush, env |-> env]
Frames ==
  [does : {"handler"}, req : Requests, flush : BOOLEAN, env : Envs]
  \cup [does : {"lookup", "redirect"}, req : Requests]
Cleanups ==
  ({"handler", "object"} \X Requests) \cup ({"unregister"} \X Objects)

TypeOK ==
  /\ scenario \in Scenarios
  /\ ruby_is_threaded_mpm \in BOOLEAN
  /\ handled \in 0..MaxHandlers
  /\ status \in [Requests -> {"fresh", "live", "lookedUp", "dying", "gone"}]
  /\ main \in [Requests -> Requests \cup {None}]
  /\ next \in [Requests -> Requests \cup {None}]
  /\ pool \in [Requests -> Requests]
  /\ cleanups \in [Requests -> Seq(Cleanups)]
  /\ rconf \in [Requests ->
                  [saved_env : Envs, request_object : Objects] \cup {None}]
  /\ made \in [Requests -> Nat]
  /\ registered \subseteq Objects
  /\ destroyed \subseteq Objects
  /\ orphans \subseteq Objects
  /\ rb_request \in Objects \cup {None}
  /\ env \in Envs
  /\ frames \in Seq(Frames)

Init ==
  /\ scenario \in Scenarios
  /\ ruby_is_threaded_mpm \in BOOLEAN
  /\ handled = 0
  /\ status = [r \in Requests |-> "fresh"]
  /\ main = [r \in Requests |-> None]
  /\ next = [r \in Requests |-> None]
  /\ pool = [r \in Requests |-> r]
  /\ cleanups = [r \in Requests |-> <<>>]
  /\ rconf = [r \in Requests |-> None]
  /\ made = [r \in Requests |-> 0]
  /\ registered = {}
  /\ destroyed = {}
  /\ rb_request = None
  /\ env = Base
  /\ frames = <<>>
  /\ orphans = {}

Push(f) == frames' = <<f>> \o frames
Pop == frames' = Tail(frames)
Running(does) == frames # <<>> /\ Head(frames).does = does
\* The request the running handler was called for.
Current == Head(frames).req

\* The last request of a chain of internal redirects.
Last(r) ==
  LET last[q \in Requests] == IF next[q] = None THEN q ELSE last[next[q]]
  IN  last[r]

-----------------------------------------------------------------------------
(* Request objects.                                                        *)

\* What apache_request_new returns, and its effect for each request of S:
\* the object is registered, and a cleanup for it on the request's pool.
SameNumber(r) == <<r, made[r]>>
NewObject(r) == <<r, made[r] + 1>>
MakeObjects(S, cl) ==
  /\ made' = [r \in Requests |-> IF r \in S THEN made[r] + 1 ELSE made[r]]
  /\ registered' = registered \cup {NewObject(r) : r \in S}
  /\ cleanups' = [p \in Requests |->
       LET Its == {r \in S : pool[r] = p}
       IN  IF Its = {} THEN cl[p]
                       ELSE <<<<"object", CHOOSE r \in Its : TRUE>>>> \o cl[p]]
  /\ UNCHANGED destroyed

\* rb_get_request_object: the object rconf has, or a new one, which is kept
\* only if there is an rconf to keep it in.
ObjectOf(r) == IF rconf[r] # None THEN rconf[r].request_object ELSE NewObject(r)
Lacking(S) == {r \in S : rconf[r] = None}

-----------------------------------------------------------------------------
(* ruby_handler_internal.                                                  *)

AlwaysNeedsConfig(r) == TRUE
NeedsConfig(r) == rconf[r] = None

\* per_request_init, with cl the cleanups registered so far: an rconf with
\* the environment saved and a request object, unless an earlier handler
\* call made them.
PerRequestInit(r, cl) ==
  /\ IF NeedsConfig(r)
       THEN /\ rconf' = [rconf EXCEPT ![r] =
                           [saved_env |-> env, request_object |-> NewObject(r)]]
            /\ rb_request' = NewObject(r)
            /\ MakeObjects({r}, cl)
       ELSE /\ rb_request' = ObjectOf(r)
            /\ MakeObjects({}, cl)
            /\ UNCHANGED rconf
  /\ UNCHANGED <<env, orphans>>

\* A call of ruby_handler_internal starts, for a phase that has handlers.
Begin(r, flush, cl) ==
  /\ handled < MaxHandlers
  /\ handled' = handled + 1
  /\ PerRequestInit(r, cl)
  /\ Push(Handler(r, flush))
  /\ UNCHANGED apacheVars

\* Apache runs a phase of r: when no handler is running, of the last request
\* of a chain of redirects or, to log it, of the first; or of the request a
\* running handler made it work on.  In a threaded MPM that request has no
\* handlers: their call would never return (RubyCallsItself of RubyThread).
PhaseHandler(r, flush) ==
  /\ status[r] = "live"
  /\ \/ /\ frames = <<>>
        /\ r \in {pool[r], Last(pool[r])}
        /\ ruby_is_threaded_mpm \/ \A q \in Requests : status[q] # "dying"
     \/ /\ ~ ruby_is_threaded_mpm
        /\ Running("lookup") \/ Running("redirect")
        /\ r = Last(Current)
  /\ Begin(r, flush, cleanups)

\* ap_log_rerror on the request of the running handler: ruby_error_log_handler,
\* if there is one, for else it does nothing; in a threaded MPM its call would
\* not return either.
ErrorLogHandler(r) ==
  /\ "errorlog" \in scenario.does
  /\ ~ ruby_is_threaded_mpm
  /\ Running("handler")
  /\ r = Current
  /\ Begin(r, FALSE, cleanups)

\* Apache::Request#setup_cgi_env: environ is cleared and filled for r.
SetupCgiEnv ==
  /\ Running("handler")
  /\ env' = Current
  /\ UNCHANGED <<apacheVars, handled, objectVars, rconf, rb_request, frames>>

\* The environment per_request_cleanup leaves, and whose object it makes
\* rb_request: for the last request of the chain, not for r.
NothingRestored(r) == env
EnvOfOuter(r) ==
  IF main[r] # None /\ rconf[main[r]] # None THEN rconf[main[r]].saved_env
  ELSE IF rconf[r] # None THEN rconf[r].saved_env ELSE env
RestoredEnv(r) == IF rconf[r] # None THEN rconf[r].saved_env ELSE env
NoOuterRequest(r) == None
OuterRequest(r) == main[r]

\* per_request_cleanup.  The objects it makes for requests without an rconf
\* are registered but kept nowhere.
EndHandler(ok) ==
  /\ Running("handler")
  /\ LET r == Last(Current)
         flushed == IF ok /\ Head(frames).flush THEN {r} ELSE {}
         outer == {OuterRequest(r)} \ {None}
         new == Lacking(flushed \cup outer)
     IN  /\ MakeObjects(new, cleanups)
         /\ orphans' = orphans \cup {NewObject(q) : q \in new}
         /\ rb_request' = IF outer = {} THEN None ELSE ObjectOf(OuterRequest(r))
         /\ env' = RestoredEnv(r)
  /\ Pop
  /\ UNCHANGED <<apacheVars, handled, rconf>>

-----------------------------------------------------------------------------
(* What handlers have Apache do.                                           *)

\* Apache makes s, a subrequest of r with a pool below r's, or a redirect of
\* r with the pool of r, in place of an earlier one; post_read_request, run for
\* all but subrequests, registers ruby_cleanup_handler.
NewSubrequest(s, r) ==
  /\ status[s] = "fresh"
  /\ s \in Others
  /\ status[r] = "live"
  /\ status' = [status EXCEPT ![s] = "live"]
  /\ main' = [main EXCEPT ![s] = r]
  /\ UNCHANGED <<scenario, ruby_is_threaded_mpm, next, pool, cleanups>>

NewRedirect(s, r) ==
  /\ status[s] = "fresh"
  /\ s \in Others
  /\ status[r] = "live"
  /\ status' = [status EXCEPT ![s] = "live"]
  /\ main' = [main EXCEPT ![s] = main[r]]
  /\ next' = [next EXCEPT ![r] = s]
  /\ pool' = [pool EXCEPT ![s] = pool[r]]
  /\ cleanups' = [cleanups EXCEPT ![pool[r]] = <<<<"handler", s>>>> \o @]
  /\ UNCHANGED <<scenario, ruby_is_threaded_mpm>>

\* Apache::Request#lookup_uri and #lookup_file.
LookupUri(s) ==
  /\ "lookup" \in scenario.does
  /\ Running("handler")
  /\ NewSubrequest(s, Current)
  /\ Push([does |-> "lookup", req |-> s])
  /\ UNCHANGED <<handled, made, registered, destroyed, orphans, rconf, rb_request, env>>

\* They return a new object even if a handler of the subrequest had one.
LookupReturns ==
  /\ Running("lookup")
  /\ LET s == Current
     IN  /\ MakeObjects({s}, cleanups)
         /\ IF rconf[s] = None
              THEN /\ orphans' = orphans \cup {NewObject(s)}
                   /\ UNCHANGED rconf
              ELSE /\ orphans' = orphans \cup {rconf[s].request_object}
                   /\ rconf' = [rconf EXCEPT ![s].request_object = NewObject(s)]
         /\ status' = [q \in Requests |->
              IF status[q] = "live" /\ pool[q] = s THEN "lookedUp" ELSE status[q]]
  /\ Pop
  /\ UNCHANGED <<scenario, ruby_is_threaded_mpm, main, next, pool, handled, rb_request, env>>

\* Apache::Request#internal_redirect.
InternalRedirect(s) ==
  /\ "redirect" \in scenario.does
  /\ Running("handler")
  /\ NewRedirect(s, Current)
  /\ Push([does |-> "redirect", req |-> s])
  /\ UNCHANGED <<handled, made, registered, destroyed, orphans, rconf, rb_request, env>>

RedirectReturns ==
  /\ Running("redirect")
  /\ Pop
  /\ UNCHANGED <<apacheVars, handled, objectVars, rconf, rb_request, env>>

-----------------------------------------------------------------------------
(* What Apache does by itself.                                             *)

\* A request is read; post_read_request registers ruby_cleanup_handler.
Accept(r) ==
  /\ r \in scenario.for
  /\ status[r] = "fresh"
  /\ ruby_is_threaded_mpm \/ \A q \in Requests : status[q] \in {"fresh", "gone"}
  /\ status' = [status EXCEPT ![r] = "live"]
  /\ cleanups' = [cleanups EXCEPT ![r] = <<<<"handler", r>>>>]
  /\ UNCHANGED <<scenario, ruby_is_threaded_mpm, main, next, pool, handled, made, registered,
                 destroyed, orphans, rconf, rb_request, env, frames>>

\* A module other than mod_ruby makes a subrequest, or an error has a
\* document of its own.
ApacheSubrequest(s, r) ==
  /\ "subrequest" \in scenario.does
  /\ frames = <<>>
  /\ NewSubrequest(s, r)
  /\ UNCHANGED <<handled, made, registered, destroyed, orphans, rconf, rb_request,
                 env, frames>>

ErrorDocument(s, r) ==
  /\ "errordocument" \in scenario.does
  /\ frames = <<>>
  /\ main[r] = None
  /\ next[r] = None
  /\ NewRedirect(s, r)
  /\ UNCHANGED <<handled, made, registered, destroyed, orphans, rconf, rb_request,
                 env, frames>>

\* The requests that die with the pool of r: r's redirects, and every
\* subrequest below them.
Below(r) ==
  LET below[n \in Nat] ==
        {q \in Requests : \/ pool[q] = r
                          \/ n > 0 /\ \E b \in below[n - 1] :
                               q = b \/ main[q] = b \/ pool[q] = pool[b]}
  IN  below[Cardinality(Requests)]

\* Apache is done with a request and destroys its pool.
EndRequest(r) ==
  /\ status[r] = "live"
  /\ pool[r] = r
  /\ \A i \in 1..Len(frames) : frames[i].req \notin Below(r)
  /\ r \in Initials \/ "subrequest" \in scenario.does
  /\ ruby_is_threaded_mpm \/ frames = <<>>
  /\ status' = [q \in Requests |-> IF q \in Below(r) /\ status[q] \in {"live", "lookedUp"}
                                     THEN "dying" ELSE status[q]]
  /\ UNCHANGED <<scenario, ruby_is_threaded_mpm, main, next, pool, handled, objectVars, rconf,
                 rb_request, env, frames>>

\* Apache is at the cleanups of p: the pools below p are gone, and the
\* thread that destroys p is in no handler.
AtCleanups(p) ==
  /\ status[p] = "dying"
  /\ pool[p] = p
  /\ \A q \in Requests : main[q] # None /\ pool[main[q]] = p /\ pool[q] # p =>
       status[q] = "gone"
  /\ ruby_is_threaded_mpm \/ frames = <<>>
  /\ \A i \in 1..Len(frames) : pool[frames[i].req] # p

Due(p, what) ==
  /\ AtCleanups(p)
  /\ cleanups[p] # <<>>
  /\ Head(cleanups[p])[1] = what

Done(p) == [cleanups EXCEPT ![p] = Tail(@)]

\* ruby_cleanup_handler, with and without a RubyCleanupHandler configured.
CleanupHandler(p) ==
  /\ Due(p, "handler")
  /\ frames = <<>>
  /\ Begin(Head(cleanups[p])[2], FALSE, Done(p))

NoCleanupHandler(p) ==
  /\ Due(p, "handler")
  /\ cleanups' = Done(p)
  /\ UNCHANGED <<apacheVars, handled, made, registered, destroyed, orphans, rconf,
                 rb_request, env, frames>>

\* cleanup_request_object: the object's data is freed and the rconf dropped;
\* the object is then unregistered, on the Ruby thread if there is one.
CleanupRequestObject(p) ==
  /\ Due(p, "object")
  /\ LET r == Head(cleanups[p])[2]
     IN  IF rconf[r] = None
           THEN /\ cleanups' = Done(p)
                /\ UNCHANGED <<destroyed, rconf>>
           ELSE /\ destroyed' = destroyed \cup {rconf[r].request_object}
                /\ cleanups' = [cleanups EXCEPT
                     ![p] = <<<<"unregister", rconf[r].request_object>>>> \o Tail(@)]
                /\ rconf' = [rconf EXCEPT ![r] = None]
  /\ UNCHANGED <<apacheVars, handled, made, registered, orphans, rb_request, env, frames>>

StillRegistered(o) == registered
Unregistered(o) == registered \ {o}
UnregisterObject(p) ==
  /\ Due(p, "unregister")
  /\ frames = <<>>
  /\ registered' = Unregistered(Head(cleanups[p])[2])
  /\ cleanups' = Done(p)
  /\ UNCHANGED <<apacheVars, handled, made, destroyed, orphans, rconf, rb_request,
                 env, frames>>

PoolGone(p) ==
  /\ AtCleanups(p)
  /\ cleanups[p] = <<>>
  /\ status' = [q \in Requests |-> IF pool[q] = p THEN "gone" ELSE status[q]]
  /\ UNCHANGED <<scenario, ruby_is_threaded_mpm, main, next, pool, handled, objectVars, rconf,
                 rb_request, env, frames>>

\* The child waits for another request.
Idle ==
  /\ \A r \in Requests : status[r] \in {"fresh", "gone"}
  /\ \A r \in scenario.for : status[r] = "gone"
  /\ UNCHANGED vars

Next ==
  \/ \E r \in Requests, flush \in BOOLEAN : PhaseHandler(r, flush)
  \/ \E r \in Requests : ErrorLogHandler(r) \/ EndRequest(r) \/ Accept(r)
  \/ SetupCgiEnv
  \/ \E ok \in BOOLEAN : EndHandler(ok)
  \/ \E s \in Others : LookupUri(s) \/ InternalRedirect(s)
  \/ LookupReturns
  \/ RedirectReturns
  \/ \E s \in Others, r \in Requests : ApacheSubrequest(s, r) \/ ErrorDocument(s, r)
  \/ \E p \in Requests : \/ CleanupHandler(p)
                         \/ NoCleanupHandler(p)
                         \/ CleanupRequestObject(p)
                         \/ UnregisterObject(p)
                         \/ PoolGone(p)
  \/ Idle

Spec == Init /\ [][Next]_vars
-----------------------------------------------------------------------------
(* Properties.                                                             *)

\* Apache.request, $stdin and $stdout are, whenever the code of a handler
\* runs, the request the handler was called for, and its object is usable.
CurrentRequest ==
  Running("handler") =>
    /\ rb_request # None
    /\ rb_request[1] = Current
    /\ rb_request \notin destroyed

OnlyLookups == scenario.does \subseteq {"lookup"}

\* That holds of handlers that do no more than look up URIs, in each other's
\* calls too.
LookupsKeepCurrent == OnlyLookups => CurrentRequest

\* With them, nothing of a request is left in the interpreter between handler
\* calls: neither its object as the current request nor its CGI variables.
NothingLeftBehind ==
  OnlyLookups /\ frames = <<>> => rb_request = None /\ env = Base

\* With them, a handler call leaves the environment as it found it, so that a
\* handler that makes Apache call mod_ruby again keeps its own.
EnvLeftAsFound ==
  [][OnlyLookups /\ Len(frames') < Len(frames) /\ Running("handler")
       => env' = Head(frames).env]_vars

\* Successive handler calls for a request get the same object, whatever
\* other handlers run in between, until its pool is destroyed.
SameObject ==
  [][\A r \in Requests : main[r] = None /\ rconf[r] # None /\ rconf'[r] # None =>
       rconf'[r].request_object = rconf[r].request_object]_vars

\* Once the pool of a request is gone, every object an rconf ever held is
\* cut off from the request_rec and left to the garbage collector, the one
\* the cleanup handler had made included.
ObjectsGoWithRequest ==
  \A r \in Requests : status[r] = "gone" =>
    \A k \in 1..made[r] : <<r, k>> \notin orphans =>
      <<r, k>> \in destroyed /\ <<r, k>> \notin registered
=============================================================================
