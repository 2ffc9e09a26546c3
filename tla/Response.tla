------------------------------ MODULE Response ------------------------------
(***************************************************************************)
(* How the handlers of a request are run, and what of their output reaches *)
(* the client: the loop of ruby_handler_internal, run_safely with its      *)
(* timeout and its end of all threads (mod_ruby.c), and the output buffer, *)
(* the header flags and flush of Apache::Request (request.c).              *)
(*                                                                         *)
(* Apache runs the fixup phase and the content phase of a request.  A      *)
(* content handler may redirect, and then both phases of the new request   *)
(* are run within that handler.  Ruby threads switch only while Ruby code  *)
(* runs, so a step of a handler is atomic, and so is what mod_ruby does    *)
(* between handlers.                                                       *)
(***************************************************************************)
EXTENDS Naturals, Sequences

CONSTANTS
  MaxRequests,   \* bound: the request and its redirects
  MaxHandlers,   \* bound: handlers configured for a phase
  MaxWrites,     \* bound: strings that handlers write
  Careful,       \* do handlers ask sent_http_header? before they send the
                 \* header, and set sync modes before they write?
  RubyTimeOut,   \* is it set?
  StartsThreads, \* do handlers start Ruby threads?
  None

ASSUME ResponseAssumption ==
  /\ MaxRequests \in Nat \ {0}
  /\ MaxHandlers \in Nat \ {0}
  /\ MaxWrites \in Nat
  /\ Careful \in BOOLEAN
  /\ RubyTimeOut \in BOOLEAN
  /\ StartsThreads \in BOOLEAN

\* The n-th request of a chain of redirects.
Requests == 1..MaxRequests

VARIABLES
  header_only,   \* is it a HEAD request?
  last,          \* the last request of the chain
  todo,          \* the phases Apache has yet to run for each request
  object,        \* the Apache::Request object of each request, or None
  frames,        \* ruby_handler_internal calls, the innermost one last
  threads,       \* the Ruby threads that handlers and timeouts have started
  written,       \* how many strings handlers have written
  client         \* what was sent to the client

outputVars == <<object, written, client>>
vars == <<header_only, last, todo, frames, threads, outputVars>>

Phases  == {"fixup", "handler"}
Results == {"OK", "DECLINED", "error"}

\* The last two arguments ruby_handler gets from the hooks of the phases.
RunAll(phase)  == phase = "fixup"
Flushes(phase) == phase = "handler"

Header(r) == <<"header", r>>
Body(r, n) == <<"body", r, n>>
Items == {Header(r) : r \in Requests}
         \cup {Body(r, n) : r \in Requests, n \in 1..MaxWrites}

Object == [sync_header : BOOLEAN, sync_output : BOOLEAN, header_pending : BOOLEAN,
           sent_header : BOOLEAN, outbuf : Seq(Items)]

\* 0, where there is no object.
ASSUME NoneAssumption == None \notin Object

\* i of n handlers has been started; ret is what it returned, once it is at
\* the end of run_safely_0.
Frame == [req : Requests, phase : Phases, n : 1..MaxHandlers, i : 1..MaxHandlers,
          at : {"running", "returned"}, ret : Results, overdue : BOOLEAN]

\* A thread is named by the handler it was started for.
ThreadOf(kind, f) == <<kind, f.req, f.phase, f.i>>
Thread(kind, d) == ThreadOf(kind, frames[d])

TypeOK ==
  /\ header_only \in BOOLEAN
  /\ last \in Requests
  /\ todo \in [Requests -> Seq(Phases)]
  /\ object \in [Requests -> Object \cup {None}]
  /\ frames \in Seq(Frame)
  /\ threads \subseteq {"timeout", "helper"} \X Requests \X Phases \X (1..MaxHandlers)
  /\ written \in 0..MaxWrites
  /\ client \in Seq(Items)

BothPhases == <<"fixup", "handler">>

Init ==
  /\ header_only \in BOOLEAN
  /\ last = 1
  /\ todo = [r \in Requests |-> IF r = 1 THEN BothPhases ELSE <<>>]
  /\ object = [r \in Requests |-> None]
  /\ frames = <<>>
  /\ threads = {}
  /\ written = 0
  /\ client = <<>>

Depth == Len(frames)
Top == frames[Depth]
Pop == SubSeq(frames, 1, Depth - 1)

\* Apache is at work on the last request: no handler of it is running.
ApacheRuns == frames # <<>> => Top.req # last
\* The code of the innermost handler is running.
Executing == frames # <<>> /\ Top.at = "running" /\ (Top.req = last \/ todo[last] = <<>>)

-----------------------------------------------------------------------------
(* ruby_handler_internal and run_safely.                                   *)

TimeoutOnce(f) == IF RubyTimeOut /\ f.i = 1 THEN {ThreadOf("timeout", f)} ELSE {}
\* The thread run_safely_0 starts for the handler of f that is to run.
Timeout(f) == IF RubyTimeOut THEN {ThreadOf("timeout", f)} ELSE {}

\* per_request_init gives the request an object, with the flags of its
\* RubyOutputMode; then the first of its n handlers is run.
NewObject(mode) ==
  [sync_header |-> mode \in {"syncheader", "sync"}, sync_output |-> mode = "sync",
   header_pending |-> FALSE, sent_header |-> FALSE, outbuf |-> <<>>]

BeginPhase(n, mode) ==
  /\ todo[last] # <<>>
  /\ ApacheRuns
  /\ todo' = [todo EXCEPT ![last] = Tail(@)]
  /\ object' = [object EXCEPT ![last] = IF @ = None THEN NewObject(mode) ELSE @]
  /\ LET f == [req |-> last, phase |-> Head(todo[last]), n |-> n, i |-> 1,
               at |-> "running", ret |-> "DECLINED", overdue |-> FALSE]
     IN  /\ frames' = Append(frames, f)
         /\ threads' = threads \cup Timeout(f)
  /\ UNCHANGED <<header_only, last, written, client>>

\* No handlers are configured for the phase.
SkipPhase ==
  /\ todo[last] # <<>>
  /\ ApacheRuns
  /\ todo' = [todo EXCEPT ![last] = Tail(@)]
  /\ UNCHANGED <<header_only, last, frames, threads, outputVars>>

\* A handler ends: with a status, or with an exception, which ruby_handler_0
\* logs and makes HTTP_INTERNAL_SERVER_ERROR.
HandlerReturns(ret) ==
  /\ Executing
  /\ frames' = [frames EXCEPT ![Depth].at = "returned", ![Depth].ret = ret]
  /\ UNCHANGED <<header_only, last, todo, threads, outputVars>>

\* A handler makes a Ruby thread.
StartThread ==
  /\ StartsThreads
  /\ Executing
  /\ threads' = threads \cup {Thread("helper", Depth)}
  /\ UNCHANGED <<header_only, last, todo, frames, outputVars>>

\* The time of the handler that call d is running is over.
TimePasses(d) ==
  /\ RubyTimeOut
  /\ d \in 1..Depth
  /\ frames[d].at = "running"
  /\ frames' = [frames EXCEPT ![d].overdue = TRUE]
  /\ UNCHANGED <<header_only, last, todo, threads, outputVars>>

\* do_timeout raises TimeoutError in the thread that ran run_safely_0, in
\* whatever that thread is doing: ruby_handler_0, or run_safely itself if
\* the handler has returned, makes it an error.
TimeoutRaises(d) ==
  /\ d \in 1..Depth
  /\ Thread("timeout", d) \in threads
  /\ frames[d].overdue
  /\ Executing \/ Top.at = "returned"
  /\ threads' = threads \ {Thread("timeout", d)}
  /\ frames' = [frames EXCEPT ![Depth].at = "returned", ![Depth].ret = "error"]
  /\ UNCHANGED <<header_only, last, todo, outputVars>>

\* kill_threads: all but the main thread.
KillsItsTimeout == threads \ {Thread("timeout", Depth)}
KillThreads == {}

\* Whether the loop over the handlers is left early.
Ends(f) == f.ret # "DECLINED" /\ (~ RunAll(f.phase) \/ f.ret # "OK")

\* i < handlers_len, after i++.
NotPast(f) == f.i <= f.n
More(f) == f.i < f.n

\* run_safely ends, and the next handler of the phase is started.
NextHandler ==
  /\ frames # <<>>
  /\ Top.at = "returned"
  /\ ~ Ends(Top)
  /\ More(Top)
  /\ LET f == [Top EXCEPT !.at = "running", !.i = @ + 1, !.overdue = FALSE]
     IN  /\ frames' = [frames EXCEPT ![Depth] = f]
         /\ threads' = KillThreads \cup Timeout(f)
  /\ UNCHANGED <<header_only, last, todo, outputVars>>

-----------------------------------------------------------------------------
(* The output of Apache::Request.                                          *)

\* rb_apache_request_flush: a pending header, then the buffer, unless the
\* client only wants the header.
BodyFirst(r, o) ==
  o.outbuf \o (IF o.header_pending THEN <<Header(r)>> ELSE <<>>)
FlushedItems(r, o) ==
  (IF o.header_pending THEN <<Header(r)>> ELSE <<>>)
  \o (IF header_only /\ (o.header_pending \/ o.sent_header) THEN <<>> ELSE o.outbuf)

StillPending(o) == [o EXCEPT !.sent_header = @ \/ o.header_pending, !.outbuf = <<>>]
FlushedObject(o) ==
  [o EXCEPT !.sent_header = @ \/ o.header_pending, !.header_pending = FALSE, !.outbuf = <<>>]

\* ruby_handler_internal's flush argument to per_request_cleanup.
FlushAlways(f) == Flushes(f.phase)
FlushWanted(f) == Flushes(f.phase) /\ f.ret = "OK"

\* run_safely ends, and so does the phase: what is flushed is the last
\* request of the chain, whichever request the handlers were for.  A status
\* that is not OK or DECLINED ends the request.
PhaseEnds ==
  /\ frames # <<>>
  /\ Top.at = "returned"
  /\ Ends(Top) \/ ~ More(Top)
  /\ IF FlushWanted(Top) /\ object[last] # None
       THEN /\ client' = client \o FlushedItems(last, object[last])
            /\ object' = [object EXCEPT ![last] = FlushedObject(@)]
       ELSE UNCHANGED <<client, object>>
  /\ todo' = IF Top.ret = "error" THEN [todo EXCEPT ![Top.req] = <<>>] ELSE todo
  /\ frames' = Pop
  /\ threads' = KillThreads
  /\ UNCHANGED <<header_only, last, written>>

\* The object of the running handler's request.
Own == object[Top.req]
Untouched(r) ==
  /\ object[r].outbuf = <<>>
  /\ \A i \in 1..Len(client) : client[i][2] # r

\* write, to which print, puts, putc and << come down.
Write ==
  /\ Executing
  /\ written < MaxWrites
  /\ written' = written + 1
  /\ LET r == Top.req
         str == Body(r, written + 1)
     IN  IF Own.sync_output
           THEN /\ client' = IF header_only /\ Own.sent_header THEN client
                                                               ELSE Append(client, str)
                /\ UNCHANGED object
           ELSE /\ object' = [object EXCEPT ![r].outbuf = Append(@, str)]
                /\ UNCHANGED client
  /\ UNCHANGED <<header_only, last, todo, frames, threads>>

Cancel ==
  /\ Executing
  /\ object' = [object EXCEPT ![Top.req].outbuf = <<>>]
  /\ UNCHANGED <<header_only, last, todo, frames, threads, written, client>>

\* sync_header=, sync_output= and sync=.
SetSync(header, output) ==
  /\ Executing
  /\ Careful => Untouched(Top.req)
  /\ object' = [object EXCEPT ![Top.req].sync_header = header,
                              ![Top.req].sync_output = output]
  /\ UNCHANGED <<header_only, last, todo, frames, threads, written, client>>

SentHttpHeader(o) == o.sent_header \/ o.header_pending

SendHttpHeader ==
  /\ Executing
  /\ Careful => ~ SentHttpHeader(Own)
  /\ IF Own.sync_header
       THEN /\ client' = Append(client, Header(Top.req))
            /\ object' = [object EXCEPT ![Top.req].sent_header = TRUE,
                                        ![Top.req].header_pending = FALSE]
       ELSE /\ object' = [object EXCEPT ![Top.req].header_pending = TRUE]
            /\ UNCHANGED client
  /\ UNCHANGED <<header_only, last, todo, frames, threads, written>>

\* send_fd, which sets both sync flags for good, flushes, and sends the file
\* unless it is none.
FileThenBuffer(r, o, file) == file \o FlushedItems(r, o)
BufferThenFile(r, o, file) == FlushedItems(r, o) \o file
SendFd(isFile) ==
  /\ Executing
  /\ written < MaxWrites
  /\ LET r == Top.req
         file == IF isFile THEN <<Body(r, written + 1)>> ELSE <<>>
     IN  /\ client' = client \o BufferThenFile(r, Own, file)
         /\ object' = [object EXCEPT ![r] =
              [FlushedObject(Own) EXCEPT !.sync_header = TRUE, !.sync_output = TRUE]]
  /\ written' = written + 1
  /\ UNCHANGED <<header_only, last, todo, frames, threads>>

\* internal_redirect, called from a content handler on its own request.  The
\* safe level is one at which handlers run in the main thread: otherwise the
\* kill_threads of the redirect would kill the thread it runs in itself, and
\* what then happens is Ruby's, not modelled.
InternalRedirect ==
  /\ Executing
  /\ Top.phase = "handler"
  /\ last < MaxRequests
  /\ last' = last + 1
  /\ todo' = [todo EXCEPT ![last + 1] = BothPhases]
  /\ UNCHANGED <<header_only, frames, threads, outputVars>>

\* The request is over.
Served ==
  /\ frames = <<>>
  /\ todo[last] = <<>>
  /\ UNCHANGED vars

-----------------------------------------------------------------------------
CodeStep ==
  \/ \E n \in 1..MaxHandlers, mode \in {"nosync", "syncheader", "sync"} : BeginPhase(n, mode)
  \/ SkipPhase
  \/ NextHandler
  \/ PhaseEnds

HandlerStep ==
  \/ \E ret \in Results : HandlerReturns(ret)
  \/ StartThread
  \/ Write
  \/ Cancel
  \/ \E header, output \in BOOLEAN : SetSync(header, output)
  \/ SendHttpHeader
  \/ \E isFile \in BOOLEAN : SendFd(isFile)
  \/ InternalRedirect

Timeouts == \E d \in 1..MaxRequests : TimeoutRaises(d)

Next ==
  \/ CodeStep
  \/ HandlerStep
  \/ Timeouts
  \/ \E d \in 1..MaxRequests : TimePasses(d)
  \/ Served

Spec == Init /\ [][Next]_vars

\* mod_ruby and Apache go on, and Ruby's scheduler runs a timeout thread that
\* is ready; a handler need never return.
Fairness == WF_vars(CodeStep) /\ WF_vars(Timeouts)

FairSpec == Spec /\ Fairness
-----------------------------------------------------------------------------
(* Properties.                                                             *)

Sent(item) == {i \in 1..Len(client) : client[i] = item}
IsBody(item, r) == item[1] = "body" /\ item[2] = r

\* send_http_header sends the header once, over all phases, modes and
\* flushes, if handlers ask sent_http_header? first.
HeaderOnce ==
  \A r \in Requests : \A i, j \in Sent(Header(r)) : i = j

\* The client gets, and the buffer holds for it, what the handlers of a
\* request have written in the order they wrote it, whether it was sent by
\* write, flush or send_fd.
InOrder ==
  \A r \in Requests : object[r] # None =>
    LET out == client \o object[r].outbuf
    IN  \A i, j \in 1..Len(out) :
          i < j /\ IsBody(out[i], r) /\ IsBody(out[j], r) => out[i][3] < out[j][3]

\* The header of a request goes out before its body, except for a body that
\* its handlers chose to send at once.
HeaderFirst ==
  \A r \in Requests : \A j \in Sent(Header(r)) :
    (\E i \in 1..(j - 1) : IsBody(client[i], r)) => object[r].sync_output

\* What is not sent in a synchronous mode waits for the content phase to end
\* with OK: output of handlers that failed, were timed out or belong to other
\* phases is not sent.
BufferedUntilOK ==
  [][\A i \in (Len(client) + 1)..Len(client') :
       \/ IF client'[i][1] = "header" THEN object'[Top.req].sync_header
                                      ELSE object'[Top.req].sync_output
       \/ /\ Len(frames') < Depth
          /\ Top.phase = "handler" /\ Top.ret = "OK"]_vars

\* No thread started for a handler outlives it, neither its timeout, which
\* would hit a later handler, nor a thread of its own.
NoThreadSurvives ==
  \A t \in threads : \E d \in 1..Depth : t \in {Thread("timeout", d), Thread("helper", d)}

Overdue(d) == d <= Depth /\ frames[d].at = "running" /\ frames[d].overdue

\* A handler whose time is over is ended, unless it redirects.
OverdueEnds == (Overdue(1) /\ last = 1) ~> (~ Overdue(1) \/ last # 1)

\* RubyTimeOut: scripts which are still running after the timeout expires
\* will be terminated.
TimedOutIsTerminated == Overdue(1) ~> ~ Overdue(1)
=============================================================================
