# Verification of mod_ruby

mod_ruby embeds one Ruby interpreter in each Apache child process. Apache's
modules call it through hooks; it hands every call to handlers written in Ruby,
which see the request as an `Apache::Request` object. This directory holds
TLA+ modules translated from the C and Ruby source in `src/`, TLC
configurations that check them on small instances, and TLAPS proofs of what
holds for every number of threads, calls, redirects and sections, and for every body.

To check a run: `tlc -workers 2 -config MCRubyThread_two.cfg MCRubyThread`.
To check the proofs: `tlapm RubyThreadProofs.tla`, `tlapm HandlerCallsProofs.tla`,
`tlapm ResponseProofs.tla`,
`tlapm ConfigurationProofs.tla`, `tlapm ConfigurationRequests.tla`,
`tlapm ConfigurationHandlers.tla`, `tlapm RequestInputProofs.tla`,
`tlapm MultipartProofs.tla` (the last two take several minutes each).
`PROJECT.json` lists runs, the mutants that show each property can fail, the
source lines of every definition, hazards, findings and theorems.

## 1. Inventory

| Component | State | Operations | What is hard |
|---|---|---|---|
| Ruby thread and request queue (`mod_ruby.c` 105-129, 763-947) | `ruby_is_running`, `ruby_request_queue`, its mutex and condition, one `ruby_request_t` per call | `ruby_child_init`, `ruby_thread_start`, `ruby_call_interpreter`, `ruby_child_cleanup` | Threads, two kinds of condition variable, memory of callers, partial start-up, shutdown |
| Handler calls and request objects (`mod_ruby.c` 1111-1221, 1268-1536; `request.c` 143-252) | `rb_request`, `$stdin`/`$stdout`, `environ`, `rconf` of each request, `rb_apache_objrefs`, pool cleanups | `per_request_init`, `per_request_cleanup`, `rb_get_request_object`, `cleanup_request_object`, the phase handlers | Handlers nest in a prefork child; objects outlive or underlive requests; order of pool cleanups |
| Handler chain, timeouts, safe levels (`mod_ruby.c` 1017-1109, 1223-1338) | Result so far, Ruby threads, `$SAFE` | The loop of `ruby_handler_internal`, `ruby_handler_0`, `run_safely`, `do_timeout`, `kill_threads` | A timeout racing the end of a handler; nested handlers kill the outer one's timeout |
| Output of `Apache::Request` (`request.c`) | `outbuf`, `sync_header`, `sync_output`, header sent or not | `write`, `print`, `<<`, `send_http_header`, `flush`, `cancel`, `sync=` | Header before body, exactly once; buffered output after errors |
| Input of `Apache::Request` (`request.c`) | `remaining` and `read_length` of the `request_rec`, what has come of the body | `read`, `getc`, `setup_client_block`, `should_client_block`, `get_client_block` | Reads share their counters with each other and with the parser |
| Request parsing, libapreq (`apache_request.c`, `apache_multipart_buffer.c`, `upload.c`, `paramtable.c`, `multival.c`) | `req->parsed`, `req->status`, the parameter table, the multipart buffer, uploads | `ApacheRequest___parse`, `fill_buffer`, `multipart_buffer_read`, upload hooks, `ParamTable#set`, `each` | Delimiters split between blocks, stale memory behind the data, failing half-way, hooks that come back in, tables changed while they are walked |
| Configuration (`ruby_config.c`, the phase functions of `mod_ruby.c`) | Server and section configurations, the default safe level, libraries to require, load path, `$KCODE` | create, merge, directives, `.htaccess`, `RubyRequire`, the handlers of each phase | Order and inheritance over nested scopes; what a phase knows of its sections; what stays in the interpreter |
| Cookies (`cookie.c`, `apache_cookie.c`) | The cookie jar of a request | parse, bake | Characters that part cookies; the rest is formatting |
| Wrappers (`connection.c`, `server.c`, `uri.c`, `table.c`, `array_header.c`, `error.c`, `apachelib.c`) | None of their own, but for `rb_apache_objrefs` | attribute access | Lifetime of what is wrapped |
| Ruby libraries (`lib/auto-reload.rb`, `lib/apache/registry.rb`, `ruby-run.rb`, `eruby-run.rb`, `rails-dispatcher.rb`) | Cache of compiled scripts, modification times | run a script, reload, dispatch | Stale caches, errors while loading |
| Debuggers, profilers; build files | - | - | Not modelled |

How they interact. Apache runs a hook; `ruby_handler` either calls
`ruby_handler_internal` itself (prefork) or, in a threaded MPM, hands it with
`ruby_call_interpreter` to the one thread that owns the interpreter and sleeps
until it is done. `ruby_handler_internal` makes the request current, runs the
configured handlers one by one under `run_safely`, and puts back what it set.
A handler may make Apache run other phases (`lookup_uri`,
`internal_redirect`, an error that is logged), and these come back to
`ruby_handler` before the first handler has returned. When Apache destroys the
request's pool, cleanups registered by both `mod_ruby.c` and `request.c` run,
last one first.

What makes each component correct:

- Ruby thread: every call runs at most once, its caller gets its own result,
  nothing runs before start-up or after shutdown, no call is forgotten, and
  the child stops when asked.
- Handler calls: the running handler's request is the current one; nothing of
  a request stays in the interpreter after it; one request keeps one object,
  and the object is cut off when its memory goes.
- Handler chain: the status Apache gets is that of the handler the code's rule
  picks; a timeout hits the handler it was set for, and only while it runs.
- Output: one header, before the body; the client gets what handlers wrote in
  the order they wrote it, or none of it.
- Input: what a handler reads is the body, each byte once.
- Parsing: parameters and files do not depend on where the buffer ends, nor,
  as far as the code can tell delimiters, on how the body is cut into blocks;
  the parser stays within its memory and does not wait for what will not come;
  a table may be edited while it is walked.
- Configuration: handlers find the settings of the scopes they are in, nothing
  of others, and no section lowers a safe level; merging does not depend on how
  sections are grouped.
- Libraries: a script that runs is the one on disk, as of some moment since it
  was last asked for.

## 2. Plan

Written, in this order:

1. `InterpreterService`, the abstract specification of `ruby_call_interpreter`.
2. `RubyThread`, the threads and the queue; it implements `InterpreterService`.
3. `RubyThreadProofs`, which has the refinement too.
4. `HandlerCalls`, what a handler call sets up and puts back.
5. `Response`, how the handlers of a phase are run under `run_safely`, and what
   of their output reaches the client.

6. `ClientBlock`, `MultipartBuffer`, `FormData`, `ParamTable`, and
   `RequestInput`, which composes them: what a handler gets from the body.
7. `Configuration`: directives, merging, and what the handlers of each phase find.
8. `ConfigurationProofs` and `ResponseProofs`.
9. `HandlerCallsProofs`.
10. `ConfigurationRequests` and `ConfigurationHandlers`.
11. `RequestInputProofs`, about `RequestInput` and all that it is made of.
12. `MultipartProofs`, about what arrives of a multipart form.

Still to be written, most important first:

13. `ScriptCache`: the registry and `auto-reload.rb`, against edits of files at
    any moment.

## 3. RubyThread and InterpreterService

`RubyThread` models the threaded MPM. A step is a stretch of code between two
points where another thread can get in: whatever is done from locking
`ruby_request_queue_mutex` to unlocking it or waiting is one step, except that
the Ruby thread keeps the mutex over three steps while it runs a request
(`RubyTakes`, the function, `RubyCompletes`), as the code does.

| Model | Code |
|---|---|
| `phase`, `init_failed` | how far `ruby_child_init` and `ruby_child_cleanup` are, and which creation failed |
| `pc[t]` | where thread `t` is; `waiting` is inside `apr_thread_cond_wait`, `woken` is signalled and wanting the mutex |
| `queue`, `next` | `ruby_request_queue`, `req->next`; the source keeps a head only |
| `done`, `result`, `shutdown` | fields of `ruby_request_t` |
| `queue_mutex` | the mutex, when kept over a step |
| `outcome` | what `ruby_call_interpreter` gave its caller |
| `Enqueue`, `Recheck` | the two halves of `ruby_call_interpreter` around its wait |
| `RubyWaits`, `RubyTakes`, `RubyCompletes`, `RubyFinalizes` | the loop of `ruby_thread_start` and its end |
| `ChildInitFails`, `CallFails`, `EnqueueCrashes` | failures of creation, and what follows from them |
| `RubyInitExits` | a script that RubyRequire names calls `exit`: `ruby_require_directly` ends the whole process (`phase` is `"aborted"`) |
| `RubyCallsItself` | a handler on the Ruby thread reaching `ruby_call_interpreter` again |

Environment assumptions, named in the module: `JoinsWorkers` (the MPM joins its
workers before the child's cleanups run; both values are checked),
`NestedCalls`, `MayFail` (creations fail, and a required script exits). A request is named by its owner and number, because
its memory comes from the caller's pool; a reference to an earlier request of
an owner is a reference to memory that may be reused. The queue read by
`EnqueueCrashes` when a head has already been given back stands for this use
of memory after its pool has gone.

Runs:

| Run | Instance | Shows |
|---|---|---|
| `thread_two` | 2 workers, 2 calls each, failures, workers joined | nothing is lost, calls stay in the interpreter's lifetime, the refinement, every call is answered, shutdown completes |
| `thread_three` | 3 workers, 1 call each, not joined, nested calls, failures | what is queued is never stale while the Ruby thread is there, functions run only while the interpreter is up |
| `thread_lost` | 3 workers, no failures | **violation** of `EveryCallAnswered`: the third caller overwrites the link to the second |
| `thread_nested` | 2 workers, nested calls | **violation** of `EveryCallAnswered`: the Ruby thread locks the mutex it holds |

The bounds are enough for the interesting cases: with the thread of the child
process making at most two calls, three workers fill the queue of two and lose
the third, and two calls per worker let a request be linked behind an old
one of the same owner. `thread_three` and `thread_nested` have
`CHECK_DEADLOCK FALSE`: a nested call, or a call after the
Ruby thread has gone, really stops all threads. `thread_three` uses symmetry of
the workers and checks no liveness.

Fairness is weak fairness of `MainStep`, of `RubyStep` and of each caller's
`CallStep`: every thread that can run is run, a handler that was called
returns, and a caller that wants the mutex while it is free gets it. Since
calls are bounded, the mutex is in the end free for good or kept for good, and
weak fairness is enough; with unbounded calls the same properties would need a
mutex that starves nobody. Calls, failures, spurious wake-ups and
the end of the child are never forced.

### Proofs

`RubyThreadProofs` proves, under `ThreadsAssumption` (names are distinct, at
least one call per worker) and for any sets of workers and numbers of calls:

- `TypeCorrect`, `QueueLiveness`, `RunningDiscipline`, `CallLifetime`:
  `TypeOK`, `QueueIsLive`, `RunsOnlyWhileUp`, `CallsWithinLifetime`.
- `TwoWorkersLoseNothing`: if the MPM joins workers and there are at most two,
  `NothingLost`. `thread_lost` shows that the number matters.

None of these is inductive by itself. `IInv` adds: `ThreadInv` (where the Ruby
thread is, what it holds and the interpreter's state agree), `CallInv` (a
request is open exactly while its owner is in the call that made it, and
untouched before it is linked in), `QueueInv` (until the Ruby thread has exited
the head and what is linked behind it are awaited and different), and
`PhaseInv` (which threads can be where in each phase of the child). The proof
has a lemma per action or group of actions that change the same variables.
`TwoWorkersLoseNothing` needs that in a step that appends, the third caller
that could be lost does not exist.

`Refinement` is `Spec => ServiceSpec`: the mapping reads the
progress of a call from `outcome`, `done`, `queue_mutex` and `req`, and its
answer from `result` until the caller has it. `Enqueue` and waits stutter,
`Call` is `Submit`, `RubyTakes` is `Run` unless it takes the shutdown request,
`RubyCompletes` is `Finish`, `RubyFinalizes` is `Stop`, `Recheck` is `Return`
or a stutter. It needs one more invariant, `ResultInv`: a result is untouched
until its request is done and a shutdown request's result stays null.

With three workers, nested calls and workers that are not joined the refinement
is not run: `Refinement` proves it for these too.

What no property says: a worker that is not joined and calls after the Ruby
thread has exited links itself to the shutdown request, whose memory has gone,
and waits for ever. The model has these calls; `QueueIsLive` is about the time
before, `CallsWithinLifetime` and `ShutdownCompletes` about joined workers.

`EveryCallAnswered` and `ShutdownCompletes` are liveness and are checked with
TLC only.

## 4. HandlerCalls

The module models `per_request_init` and `per_request_cleanup` around the
handlers of a phase, the objects `request.c` makes, and the cleanups of request
pools. Apache is the environment: it accepts requests, runs phases, makes
subrequests and redirects, and destroys pools. `ruby_is_threaded_mpm` is chosen
in `Init`: in a prefork child one connection is served at a time and handlers
nest; in a threaded child several requests are alive, one handler runs at a
time (what `RunsOnlyWhileUp` and the refinement give), and a nested call that
meets a Ruby handler never gets this far (`thread_nested`): lookups, redirects
and logged errors do go through where no phase has one (`PhaseHandler`).

| Model | Code |
|---|---|
| `status`, `main`, `next`, `pool` | the `request_rec` and its pool |
| `cleanups` | `apr_pool_cleanup_register`, last first; `"unregister"` is the second half of `cleanup_request_object`, done on the Ruby thread |
| `rconf` | `ruby_request_config`: `saved_env`, `request_object` |
| `made`, `registered`, `destroyed` | objects of `apache_request_new`, the values of `rb_apache_objrefs`, objects whose data is `NULL` |
| `rb_request` | `rb_request`, and with it `$stdin` and `$stdout` |
| `env` | whose variables `environ` holds |
| `frames` | handler calls on the C stack with what they have called |
| `orphans` | history: objects no `rconf` refers to |

Runs:

| Run | Instance | Shows |
|---|---|---|
| `handlers` | 4 handler calls, both kinds of MPM; 2 connection requests with 2 lookups, or 1 with 2 more of any kind and everything Apache does | with lookups, each handler runs with its own request current, the environment is given back, nothing is left between handlers; always, a request has one object through its phases, and the objects go with its pool |
| `handlers_redirect` | 1 request, 1 redirect | **violation** of `CurrentRequest`: after `internal_redirect` the handler goes on with `Apache.request` nil |

Two further requests make a lookup within a lookup, a redirect of a redirect
and a subrequest of a redirect; four handler calls allow a phase before, a
nested one within, one after and the cleanup handler. `MaxHandlers` is in the
guard of `Begin`; when it is used up, phases without handlers and the
destruction of pools go on.

`LookupsKeepCurrent`, `NothingLeftBehind` and `EnvLeftAsFound` are about
scenarios with lookups only. With redirects the code does not keep them (`handlers_redirect` shows it of the current request; the
environment is restored from the last request of the chain), and after a
subrequest another module makes, the main request's object stays current.
`SameObject` is about main requests: `lookup_uri` replaces the object of its
subrequest. `ObjectsGoWithRequest` excepts `orphans`: objects returned by
`lookup_uri` after a handler of the subrequest had one, or made while there was
no `rconf` to keep them, are never unregistered.

`$KCODE` and the load path are in `Configuration`. Not modelled: `$0`; the `fake_request_rec` of
`child_init`; procedures given to `register_cleanup`; lookups and redirects
within cleanup handlers, and error log handlers during pool destruction;
an error document made while a handler runs; results of handlers (these are
in `Response`).

### Proofs

Everything the run `handlers` checks is proved of `Spec` for any sets of requests,
any number of handler calls and any scenarios, from `HandlersAssumption` alone (the
two kinds of requests are apart, and `None` is neither a request, an object nor an `rconf`).

`HandlerCallsProofs` proves `TypeCorrect` (`TypeOK`), `AlwaysObjectsGo`
(`ObjectsGoWithRequest`) and `AlwaysSameObject` (`SameObject`), whatever handlers
and Apache do. The invariant has three layers, each proved with those before:

- `Known`: the types, and that chains of redirects end (`ChainsEnd`, in the form that
  every set of requests has one whose `next` is not in it). `per_request_cleanup`
  walks to the end of the chain, and without this the walk (`Last`) has no type.
- `Pools`: requests of a chain share a pool, a pool's requests go together and not
  before the subrequests made for them, and whoever is on the C stack or in a list
  of cleanups is a request that is not gone. An unmade request is named by nothing.
- `Owned`: where each of the objects ever made for a request is (`Accounted`): an
  orphan, kept by the `rconf` with its cleanup registered, or destroyed and out of
  `rb_apache_objrefs` or about to be (`"unregister"` is in the list of the pool).
  `ObjectsGoWithRequest` follows, since a pool that is gone has run its cleanups.

Its second half, about scenarios with lookups only, proves `AlwaysKeepCurrent` (`LookupsKeepCurrent`),
`AlwaysNothingLeft` (`NothingLeftBehind`) and `AlwaysEnvLeft` (`EnvLeftAsFound`).
That the running handler's request is current is not inductive: when a handler
of a subrequest returns, what is current next is taken from the main request's `rconf`, which
must be that of the handler below it. `Lookups` says how the C stack is built: every
handler call but the outermost one sits on the lookup of its own request, every
lookup on a handler of the main request (`Stacked`), each `rconf` holds the environment
its handler found, and a lookup that runs no handler has the environment of the
handler that made it (`TopIsCurrent`). With a redirect all of this
fails, as `handlers_redirect` shows.

## 5. Response

The module follows one request and its redirects through their fixup and
content phases. A call of `ruby_handler_internal` is a frame; a redirect runs
the phases of the new request within the handler that asked for it, so frames
nest. Ruby 1.8 threads switch only while Ruby code runs: a step of a handler is
one action, and so is everything mod_ruby does between the end of `run_safely`
for one handler and the start of the next.

| Model | Code |
|---|---|
| `frames[d].i`, `n`, `ret`, `at` | the loop of `ruby_handler_internal`; `"returned"` is inside `run_safely_0` after its function, where a timeout still turns the result into an error |
| `threads` | the threads of `do_timeout` and those handlers start |
| `object[r]` | the flags and `outbuf` of the request's object |
| `client` | what `ap_send_http_header`, `ap_rwrite` and `ap_send_fd` were given |
| `todo` | the phases Apache has left for a request |
| `TimePasses`, `overdue` | the time of a handler is over, at any moment |

`ap_send_http_header` is taken as sending the header, as the code uses it.

| Run | Instance | Shows |
|---|---|---|
| `response` | a request and a redirect, 2 handlers a phase, 2 writes, HEAD or not, timeouts and threads | header once and first, body in order, buffered output only after a content phase that ended with OK; no thread outlives its handler; a handler that does not redirect ends when its time is over |
| `response_nested` | the same, without body | **violation** of `TimedOutIsTerminated`: a redirect's handler kills the timeout of the one around it |

Two handlers show both ways through the loop, two writes an order, and one
redirect the nesting. `Apart` (in `MCResponse`) keeps the product of output and
threads small: once something is written, no handler starts a thread or is
overdue. The two touch each other's state only through the result a timeout
gives, and handlers return errors by themselves too. What is proved is about
`Spec`, without this bound.

`Careful` says that handlers ask `sent_http_header?` before they send the
header, and set sync modes before they write; `HeaderOnce`, `InOrder` and
`HeaderFirst` need it, since a second `send_http_header` without asking calls
`ap_send_http_header` again and turning `sync_output` on does not flush.

Fairness: mod_ruby and Apache go on (`CodeStep`), and Ruby's scheduler runs a
timeout thread that is ready (`Timeouts`). A handler need never return.

Not modelled: handlers that rescue `TimeoutError`; redirects and lookups from
a handler in a Ruby thread of its own (safe level above the main thread's), where
`kill_threads` would kill the thread it runs in; `replace` and direct edits of
the buffer; pages Apache sends by itself; Ruby 1.9, where
`run_safely` has neither threads nor timeouts (`#ifndef RUBY_VM`).

### Proofs

`ResponseProofs` proves about `Spec`, for any numbers of redirects, handlers
and strings, with or without timeouts:

- `TypeCorrect` (`TypeOK`), `ThreadsEndWithHandlers` (`NoThreadSurvives`) and
  `OutputWaits` (`BufferedUntilOK`), whether handlers are careful or not;
- `OneHeader` (`HeaderOnce`), `OutputInOrder` (`InOrder`) and `HeaderPrecedesBody`
  (`HeaderFirst`), if they are.

The first three follow from `ChainInv`: the types of the object that a handler
writes to need `ObjectsExist` (`per_request_init` comes before the first handler, so
every call on the stack is for a request that has its object). `OutputWaits` is
an action property: for each action that sends anything, every item it sends
is in a synchronous mode of the handler's own object, or is sent by the end of a
content phase with OK. `NoneAssumption` says that `None` is no object.

The others need to know how redirects nest, and what the flags say about what was
sent. `NestInv`: only the last request of the chain has phases left, a content phase
is the last one of its request, the calls on the stack are for ever later requests,
and only the innermost of them can have returned. `OutputInvs` adds to the three
properties `ItemInv` (items belong to requests with an object; what is buffered for
a request is its own body), `FlagInv` (a header that was sent is noted in
`sent_header`, then none is pending, and nothing is buffered in a synchronous mode)
and `FlushedInv`: the body of a request that was sent without `sync_output` was
flushed by the content phase, and after that none of its handlers runs. This is
what makes the header come first: `PhaseEnds` flushes the last request of the
chain, whichever request the handlers were for, and `NestInv` shows that it is one
that has no phases left. `Sends` is the lemma for every step that sends
something, `Quiet` for those that do not.

`OverdueEnds` is liveness and model-checked only.

## 6. RequestInput and its parts

The bytes a client sends come through Apache's client block calls; a handler
reads them itself, or asks for a parameter, an upload or a cookie, which parses
the request. `RequestInput` has the handler, the parser and the upload hook as
one thread of control with a position, `pc`; Apache's side (`ClientBlock`) is
external and modelled as the code relies on it.

| Model | Code |
|---|---|
| `request` (`ClientBlock`) | what the client sends, where what arrives at once ends, where the connection fails; whether Apache counts `r->remaining` down with every block (1.x) or keeps it to the end (2.x) |
| `buf` (`MultipartBuffer`) | `multipart_buffer`: its memory byte for byte, what is left of earlier fills included, `buf_begin`, `bytes_in_buffer`, and the connection |
| `FillBuffer`, `NextLine`, `MultipartBufferHeaders`, `Match`, `MultipartBufferRead` | `fill_buffer`, `next_line` and `get_line`, `multipart_buffer_headers`, `my_memstr`, `multipart_buffer_read` |
| `SplitToParms`, `CookieParse`, `CookieAsString` (`FormData`) | `split_to_parms`, `ApacheCookie_parse`, the part of `ApacheCookie_as_string` that carries name and values |
| `parms`, `nalloc`, `each` (`ParamTable`) | `req->parms`, how many entries it has room for, the loop in `paramtable_each` with the place of the entries it began with |
| `apreq`, `uploads`, `upload_table`, `jar` | `ApacheRequest`, its uploads, `Apache::Request#uploads` and `#cookies` |
| `Parse`, `NextPart`, `FileChunk`, `HookReturns`, `HookRaises` | `ApacheRequest___parse` and its loop, cut where the hook runs Ruby code |
| `NoTmpfile`, `ShortWrite` | an upload's file cannot be made, or written |
| `Read`, `SetupClientBlock`, `GetClientBlock` | `read_client_block` and the client block calls |

A byte is a string; a header line, or an escape such as `%26`, is one byte. The
constants give the boundary, the line tables and `FILLUNIT`. `Text` is what all
of these modules share. The code's loops over data that change nothing else are
`While` (`Loops`), a function of the number of passes, so that they can be proved about.

Run `request_input` (`MCRequestInput`) checks, for each request of these kinds:

| Requests | Shows |
|---|---|
| two parts with awkward contents (CR, LF, beginnings of the delimiter), or four, in up to three blocks, or as many as `Harmless` allows, with and without an upload hook, both ways of counting; a file of which one byte comes alone | `TypeOK`, `FormComplete`, `UploadsComplete`, `BufferInBounds` |
| bodies that are two bytes shorter than announced | `NeverWaits` |
| an upload whose hook raises or parses again, whose file fails, or whose connection fails after any number of bytes; limits and errors | `QueryTellsApart`, and the error paths |
| forms and query strings with every character that parts or escapes | `FormComplete`, `QueryTellsApart` |
| cookies that were baked | `CookiesComeBack` |
| a table of three entries, two edits | `EachSeesEveryName` |
| six bytes, three reads of several sizes, with `get_client_block` in between | `ReadsAreBody` |

`FILLUNIT` is 12, so every body fills the buffer (of 12 bytes) many times and
delimiters fall on its end in all ways; `HUGE_STRING_LEN` is 16. A table has
room for two entries before it moves.

Run `input_cut` (`MCRequestInput_cut.cfg`, `CutSpec`) takes two parts whose body arrives
in two pieces, parted between the CR and the LF before a delimiter, which may be any of
them. It is a **violation** of `CompleteHoweverCut`: a value that is empty becomes a CR.
`my_memstr` looks for LF and the delimiter and finds no match, so
`multipart_buffer_read` gives the CR that ends what has arrived as a byte of the
value; the parse ends with OK.

What the properties leave out, because the code does not do it:

- `LinesArriveWhole`, which `FormComplete` and `UploadsComplete` both ask for: every block
  that arrives at once ends where it does no harm (`Harmless`), which is not after a CR,
  not in what may become a delimiter, and not in the header lines but at their
  end. Elsewhere a value may keep a CR, as above, or end early, or a line
  be lost, as `get_line` fills the buffer only once. In all of these cases the
  parse ends with OK. Some of these ends do no harm, as when the buffer had data left
  before; which of them is a matter of `FILLUNIT`, and `Harmless` names none.
- Names and values with NUL (`AreStrings`, asked for by `FormComplete`):
  `multipart_buffer_read_body` appends C strings, so of each piece that it reads the
  bytes from a NUL on are lost, and `ap_unescape_url_u` ends a text at `%00`; a
  malformed `%u` takes five bytes with it and ends the text too. The model does all of this
  (`CString`, `Unescape`). A file may have any bytes.
- A Content-Disposition with neither name nor file name: the code would add its value
  under a key that is NULL, and no client is taken to send it. A file without a name
  is passed over like a part without the line. `filename=""` is a file, with an empty
  name (`NoText` is the file name of what is no file).
- A client that breaks off gives a short, unreported result; `FormComplete`
  and `UploadsComplete` are about connections that hold.
- A hook that raises leaves `parsed` unset, so the next question parses again
  and doubles the query string's parameters; these properties are about
  handlers that parse once (`entered = 1`).
- A body that was read before it was parsed has no parameters; `FormComplete`
  is about handlers that did not read.
- The allowance for bodies two bytes short does not work with Apache 2.x, which
  does not count `remaining` down: `NeverWaits` excepts it.
- `ParamTable#each` with an `Apache::MultiVal` written back, or names set behind
  it, skips entries or reads where the table was.
- A last cookie value that is empty does not come back.

Not modelled: the removal of temporary files with the pool, expiry dates and
other attributes of cookies, the delegators of `MultiVal`, and the options of
`Apache::Request#parse` (`:disable_uploads` is given to `post_max=` there,
`request.c` 1956-1957): handlers in the model set both limits directly.

### Proofs

`RequestInputProofs`, and `MultipartProofs` for the two theorems that need
`MultipartSent`, prove of `Spec`, for any request that has its types
(`RequestTypeOK`), any boundary, `FILLUNIT` and sizes of reads, any places where
blocks end or the connection fails, either way of counting, and any number of edits,
parses and parts:

| Theorem | Property | Needs |
|---|---|---|
| `TypeCorrect` | `TypeOK` | |
| `DataInBuffer` | `BufferInBounds` | |
| `LoopsSeeAll` | `EachSeesEveryName` | |
| `ReadsReturnBody` | `ReadsAreBody` | |
| `ParserWaitsForNothing` | `NeverWaits` | `request.missing = 0` |
| `QueryComesFirst` | `QueryTellsApart` | `Encodes(request.args, request.query)` |
| `FormsArriveWhole` | `FormComplete`, `CompleteHoweverCut` | `FormSent` |
| `PartsArriveWhole` | `FormComplete`, `CompleteHoweverCut` | `MultipartSent`, `LinesArriveWhole` |
| `FilesArriveWhole` | `UploadsComplete` | `MultipartSent`; `UploadsComplete` asks for `LinesArriveWhole` |
| `CookiesSurvive` | `CookiesComeBack` | `request.cookies \in Seq(Baked)`, and `request.cookie` is `CookieField` of them |

The hypotheses are about the request, which never changes. They say what a client
does, not what the server makes of it, and the requests of `MCRequestInput` are
of these kinds:

- `missing = 0`: the client sends what it announces. A client that announces two bytes
  too many is left to TLC: that it does not make the parser wait depends on where its
  last delimiter is.
- `Encodes(text, pairs)`: text is each name, "=" and value in *some* encoding that `Decode`
  undoes and that leaves no `&`, `;` or `=` in them, with `&` or `;` between. Percent
  escapes, pluses and `%u` escapes are such encodings, in any mixture.
- `FormSent`: a form whose query string, and body if it is posted, encodes what the
  client means, and the body has no NUL. The body may be cut up in any way: for forms,
  unlike parts, `CompleteHoweverCut` holds too, since `util_read` joins the blocks first.
- `Baked`: a cookie with at least one value, the last not empty unless it is the only
  one, of text in which nothing looks like an escape. The code does not give back an
  empty last value, and `ap_os_escape_path` is only relied on for what it escapes.

`BufferAssumption`, `FormAssumption` and `TableAssumption` only give the constants their
types and say that sizes are not 0, and that neither the boundary nor a header line is or has a NUL;
`TextAssumption` says that NUL is a byte and `NoText` no text; `InputAssumption` says besides that OK differs from
the errors. `EscapeAssumption` says that each byte that parts cookies, names or
values (`Parting`) has an escape, and neither they nor "+" are escapes.

`IInv` has a part for each thing that an action relies on:

- `GoodBuffer`: types and bounds of the multipart buffer. `bytes_in_buffer` must
  not become negative and `buf_begin` not pass the end, where `next_line` may take a full
  buffer as one line and `multipart_buffer_read` takes what `my_memstr` found.
  `FillBuffer` puts the data at the front again and asks for no more than the room
  behind it (`FillBufferOn`).
- `TableInv`: the table has room for its entries, and `LoopGood`: while a loop goes on, the
  entries are where they were, and each
  name that was there is seen or still to come. `set` drops the entries after
  the first one of a name, so the names to come must be looked for after `next`, with
  the entry it stands on seen already.
- `ReadInv`: what was read is the body up to where the connection is, or the connection
  is `Stuck`. The two branches of `read_client_block`, which keep and
  clear `read_length`, need that before any parse the connection is either
  `Untouched` or `SetUp` (no less remains than is still to come); this is also why
  the end is told only at the end. After a form was parsed it is either read up to
  that place or `Spent`.
- `WaitInv`: with Apache 1.x no more remains than there is (`Modest`), hence no call waits.
- `Structure`: before the first parse nothing is parsed; the parser is in a file only
  with an upload, in the hook only with an object for it.
- `QuerySplit`: the entries up to `nargs` are the query string's, until the table is edited.

Every operation on the connection moves it `Onward`, which is what the proof needs of
a parse: `FillBuffer`, lines, headers and parts each have a lemma that says so and
that they keep `GoodBuffer`. A loop takes three steps: the recursive function exists,
so the one that `While` or a fold chooses is one, so what each pass keeps holds of its
last value (`Upward`, as in `ConfigurationProofs`).

For forms and cookies it is shown that decoding undoes encoding:

- What `Join` puts together is told apart again. `Joined` gives the rest after each of the
  texts, `Tails` that of what `FlattenSeq` puts together: these are functions with an
  equation from the end, and their first value is the whole (`FlattenTails`,
  `JoinTails`). The fold itself says nothing of a part.
- `Before` and `After` at the first stop (`BeforeStop`, `AfterStop`), and at the end where there is
  none (`BeforeFree`, `AfterFree`); what is encoded is `Free` of the stops.
- `Chops`: a loop that takes one text off its data in each pass ends after as many passes
  as there are texts, with what it made of each. It serves values (`ValuesBack`), cookies (`CookiesBack`) and
  pairs (`PairsBack`). That `Len(text)` passes are enough is a part of this
  (`JoinLength`): neither the separators nor the last text are empty.
- `EscapeUrlFacts`: unescaping undoes `escape_url`, which leaves no stop in a text.
- `EncodesBack` and `CookiesBack` put these together. `CookiesComeBack` follows since
  nothing but `Cookies` sets the jar (`JarStep`).
- `FormInv` follows a form to the table: as long as no handler has read, the connection is new at the
  first parse; the bytes `util_read` returns are then the body from its start to where it is
  `Spent` (`UtilReadFacts`), which is its end unless the connection failed (`FormBody`); and
  each other way through `ParseBody` reports an error or has no body to read.

`MultipartProofs` is about bodies made of parts. `MultipartSent` says what such a body is,
by a layout, which tells where each part begins and what its header lines are:

- A part is a delimiter, any number of header lines of which one says what its name and
  file name are (`DispositionOf`), an empty line, and a content, in which the delimiter that
  follows does not occur. The closing delimiter and its CR and LF are the end of the body. A
  content may have CR, LF and any beginnings of the delimiter, but no header line, which
  in this model is a byte; that of a field has no NUL (`PartAt`), while a file may have any bytes.
- `Ordinary`: a delimiter with its CR and LF, and two bytes more, fit into `FILLUNIT` (5120 in the code;
  RFC 2046 gives a boundary at most 70 bytes), there is no CR or LF in the boundary, and the line
  table has none. Lines longer than the buffer are taken in pieces by `get_line`.
- The client sends what it announces, the query string `Encodes` its pairs, and with an upload hook
  the files have names of their own (`NamesDiffer`): what comes of a second file of one name is handed to
  the object of the first, which is the one that `upload_table` has.

The requests of `request_input` with two parts, and the file of one byte, are of this kind.
Both theorems are about connections that hold and blocks that end where it does no
harm (`LinesArriveWhole`, a hypothesis of `PartsArriveWhole`); run `input_cut` shows that
they do not hold without it. The proof has no bound on the number of blocks.

The argument has three layers.

- `BufAt(b, p)`: buffer `b` has the bytes of the body from `p` on, up to where the connection is,
  in whichever part of its memory. Each operation of the buffer has a lemma that says to
  which byte it comes: filling keeps `p`; a line that the body has at `p` is read
  whole when no block ends within it, though the buffer may, since `get_line` fills it
  once more; header lines are read up to the empty one.
- A read of the content gives a piece of it and stops before the delimiter, or gives the
  rest of it. The buffer's end may fall inside the delimiter: `my_memstr` finds what agrees with it as far as
  the data goes (`Agree`), `multipart_buffer_read` then gives what comes before, and the next
  read begins there. That it does not stop for good is where room for a delimiter and two bytes is needed.
- `MultipartInv`: if this is the first parse and no handler has read, there is a layout for which `Progress`
  holds: between two parts the buffer is at the delimiter and the table and uploads are
  those of the parts before (`PartsDone`); within a file (`Within`), `j` bytes of its content are in the upload and `m`
  are read, where `m` is `j` but in the hook, which has the bytes between. It needs to be said
  of the uploads that the object of a name is for that name (`Fitting`). Each step of the
  parser, `NextPart` for fields and for files, `FileChunk`, `HookReturns`, and the first parse, has
  a lemma; a step that refuses, fails or raises sets `told`, or parses again, and ends the claim.

`Files` is a recursive function of the number of parts, so that the upload of part `k` is the last one
of those up to `k`.

Left to TLC: a client that announces too much (`NeverWaits` for `missing` other than 0), and a
form with a part that has no Content-Disposition (the four parts of `request_input`): the code
does not read such a part but looks for the next delimiter line by line, so a content of any
lines would have to be followed through `get_line`. Nothing here is about liveness.

## 7. Configuration

A configuration file is read line by line into server and section
configurations, a child starts its interpreter and requires libraries, then it
serves requests one at a time; each is in some of the sections and may have a
`.htaccess` file. The argument of a directive is the name of the scope it is in,
so that what handlers find tells where it came from.

| Model | Code |
|---|---|
| `server_config`, `dir_config`, `default_safe_level`, `required` | `ruby_server_config`, `ruby_dir_config`, the globals of `ruby_config.c` |
| `ruby` | the interpreter's load path, `default_load_path`, `$KCODE` |
| `r` | the request: its phase, its configuration so far, `ruby_init_ran` |
| `MergeServerConfig`, `MergeDirConfig` | `ruby_merge_server_config`, `ruby_merge_dir_config` |
| `RubySafeLevel`, `RubyAddPath`, ... | the `ruby_cmd_*` functions |
| `Refused`, `RefusedLine` | `check_restrict_directives` |
| `InitInterpreter` | `ruby_init_interpreter` and what it requires |
| `Phase`, `RunHandlers` | the functions of the hooks, as far as they choose handlers and set things up |
| `OpenHtaccess`, `Walk`, `EndOfWalks`, `ConfigFor` | Apache's walks: which configurations are merged, and when |
| `last`, `ran`, `loaded`, `written` | history: what the last handlers found, which ran, which libraries saw which path, what the file says |

| Run | Instance | Shows |
|---|---|---|
| `configuration` | three lines of one of nine topics, two servers, two sections, a `.htaccess` line | safe levels, paths, settings, environment, handlers and restrictions as the scopes say, in order; groups merge alike |
| `config_init` | `RubyInitHandler` | **violation** of `SectionInitRuns`: the section's handlers are skipped |

Bounds: `MaxLines` is 3: a main server, a virtual host and a section, or a server
and two sections, each with a directive; or a directive in two of them and the
handlers that see what comes of it. A topic is a set of directives whose effects
meet; within a scope they come in the topic's order, and, but for
`RubySafeLevel`, a server's lines before its sections (`Early`), since
only the order of safe levels is read back while the file is read.
`MaxRequests` is 2 where an effect may outlast a request (`Lasting`:
`RubyKanjiCode`), and 1 elsewhere. A request is in all the sections of its
servers, or in all but one. `HooksInit` takes Apache 1.x only for the topics with a
hook that 2.x lacks; for the others it differs only in how sections are grouped, which
`MergeDirConfigAssociative` shows to make no difference.

`SafeLevelKept` allows the default of 1 where the main server's own level comes
after what depends on it. The output mode a request's object gets is that of the
configuration at its first handler (`request.c` 205-243): a handler of an early
phase fixes it before the sections are known. That is in the model
(`RunHandlers`), and nothing in the repository says otherwise.

What the code gives here is not always what one would expect of a configuration:

- `EnvOfScopes`: of several scopes that `RubySetEnv` the same variable the *outermost*
  one wins. `apr_table_overlay` puts the entries of inner scopes first, and all
  of them are set in turn. With `RubyPassEnv` the same variable is set before all of those.
- `OneAccessFileName`: `is_from_htaccess` compares the end of the file's name with the whole of
  AccessFileName. With several names in it no file is taken for a `.htaccess` file, and
  restricted directives get past `Refused`; `RestrictedHtaccess` is about one name.
  (`RubyRestrictDirectives off` says what is the default and is not a line of the model.)
- `TooLong`: where a scope's `RubyTimeOut` is not below the server's TimeOut, Apache 1.x
  takes none (`TimeOut`); `InnermostSettings` says so.

Handlers that run within a handler, as `lookup_uri` makes them, are in `HandlerCalls` but not
here: one leaves the outer handler without its load path and `$KCODE`, which are
reset at its end. `PathsInScope` and `InnermostSettings` are about what a handler finds when it starts.

### Proofs

Everything that the run `configuration` checks but `EnvOfScopes` is proved of `Spec`, for any sections,
levels and topics and any number of lines and requests, from
`ConfigurationAssumption` (the names of scopes differ from each other and from
those the code gives a meaning, levels are numbers) and `MissingAssumption`
(`NULL` is no configuration). That a directive is used at most once in a scope
is a part of the model (`Line`), and of what is proved.

`ConfigurationProofs` is about what configurations are made of:

- `MergeDirConfigAssociative`, by a lemma per kind of field (the innermost
  setting, lists that may be missing, handlers in reverse, tables, the highest
  level), and `MergeNeverLowers`;
- `WalkIsFold`: however Apache groups the sections of a walk, the result is that of
  merging them one by one. What a fold gives is proved by induction over the
  number of elements: not with the library's theorem, which takes an operator, but
  with the least element of a set of numbers (`LeastNumber`, `Upward`). The same
  way gives what `Those` keeps of a sequence (`ThoseElements`) and how it goes
  with concatenation;
- `TypeCorrect` (`TypeOK`), from `Sound`, which adds to the types for which scopes there are
  configurations at which stage (`Structure`): without it a section's
  configuration, or that of a merged server, might not be there when it is used.

`ConfigurationRequests` builds three more invariants on `Sound`:

- `Progress`: which merge of configurations the request has in each phase, and that what
  ran belongs to phases that are over. `ConfigurationsMergeAlike` (`GroupsMergeAlike`)
  follows with `WalkIsFold`;
- `AsWritten`: each configuration says what the lines of its scope say, the merged
  server's what those of its two servers say, and the default safe level is that of
  the main server. It holds of a .htaccess file until a line is refused;
- `SettingsFound`: what the last handlers found is what the scopes of their phase say.
  It needs that these scopes and what they say stay the same until the next handlers
  run (`SameScopes`), although a .htaccess file is read in between. The merged
  configuration is a fold over the scopes, which are cut into layers (servers,
  directories and .htaccess, locations); for each kind of field a lemma says what the fold gives.

These give `SafeLevelNeverLowered` (`SafeLevelKept`) and `InnermostSettingFound`
(`InnermostSettings`).

`ConfigurationHandlers` proves what handlers run and what they see:

- `HandlersInsideOut` (`InsideOut`): the handlers in a merged configuration are the
  scopes that name one, reversed (`RequestHandlers`), and those of the phase
  that ran are a prefix of them (`RanInOrder`);
- `InitHandlersOnce` (`InitOnce`): the scopes of a request are distinct
  (`ScopesDistinct`), and `ruby_init_ran` is set as soon as an init handler ran;
- `SectionCleanupsRun` (`CleanupOfSections`): the phase after the last is reached
  either through the cleanup phase or with no cleanup handlers to run (`Cleaned`);
- `HtaccessRestricted` (`RestrictedHtaccess`), from `Unheard`: configurations of
  other scopes never hold what is of a .htaccess file, and where directives are
  restricted those of a .htaccess file and of the request do not either;
- `LoadPathsInScope` (`PathsInScope`): the load path is cut into the parts that the servers,
  the directories and the locations add; the main server's may be there twice, which the
  order of first places does not see (`PathParts`). `HandlersSee` and `LibrariesSee` say
  so of the last handlers and of every library, while later lines are read (`SeesStays`).

`PathsInScope` leaves out a library that a .htaccess file requires before it adds
its path (`PathFirst`): it is loaded at once and does not see it.

## 8. Bounds

`MaxCalls` (calls per worker) in `MayCall`; the thread of the child process makes at
most two calls because the code has only two. `MaxHandlers` (calls of
`ruby_handler_internal`) in `Begin`; `Objects` is a finite range wide enough
for what `MaxHandlers` lets be made. In `Response`, `MaxRequests` bounds the
chain of redirects, `MaxHandlers` the handlers of a phase, `MaxWrites` what is
written. In `RequestInput`, `MaxReads` bounds a handler's own reads and `MaxEdits`
its edits of the table; bodies are those of `MCRequestInput`. In `Configuration`,
`MaxLines`, `MaxHtaccess` and `MaxRequests`, as said above.

## 9. What is not modelled

- Wrappers of Apache's structures (`connection.c`, `server.c`, `uri.c`, `table.c`,
  `array_header.c`, `error.c`): attribute readers and writers that keep no
  state; what they wrap lives as long as `rb_apache_objrefs` says, which is in
  `HandlerCalls`.
- The Ruby libraries, which run scripts and cache them: planned as `ScriptCache`.
- `RubyChildInitHandler`, `RubyOption`, `RubyGcPerRequest`, and a restart of the
  server, which reads the configuration again in the same process.
- `Apache::Request#replace` and edits of the output buffer itself, procedures
  given to `register_cleanup`, attributes of cookies.
- Debuggers, profilers and the build files: no state of the server.
- The TAG_* codes of the interpreter, the garbage collector, and the branches for
  Apache 1.3 (`#ifndef APACHE2`) outside `RequestInput` and `Configuration`.
