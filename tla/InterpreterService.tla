------------------------- MODULE InterpreterService -------------------------
(***************************************************************************)
(* What ruby_call_interpreter promises to the Apache threads that call it: *)
(* one Ruby interpreter, used by one call at a time; a call runs at most   *)
(* once, only while the interpreter is up, and its caller gets the result  *)
(* of its own function.  The queue, the mutex and the condition variables  *)
(* of mod_ruby.c do not appear here; RubyThread refines this module.       *)
(***************************************************************************)
EXTENDS Naturals

CONSTANTS
  Requests,   \* the calls a child process may make
  Stoppers    \* those of the thread that may stop the interpreter

VARIABLES
  interp,   \* "down", "up" or "finalized"
  call,     \* the progress of each call
  answer    \* what each caller was given back

svars == <<interp, call, answer>>

Progress == {"none", "pending", "running", "done", "returned", "failed"}
Answers  == {"none", "null", "value", "raised"}

Init ==
  /\ interp = "down"
  /\ call   = [r \in Requests |-> "none"]
  /\ answer = [r \in Requests |-> "none"]

BringUp ==
  /\ interp = "down"
  /\ interp' = "up"
  /\ UNCHANGED <<call, answer>>

Submit(r) ==
  /\ call[r] = "none"
  /\ call' = [call EXCEPT ![r] = "pending"]
  /\ UNCHANGED <<interp, answer>>

\* The call could not even be submitted; its function never runs.
Fail(r) ==
  /\ call[r] = "none"
  /\ call' = [call EXCEPT ![r] = "failed"]
  /\ UNCHANGED <<interp, answer>>

Run(r) ==
  /\ interp = "up"
  /\ call[r] = "pending"
  /\ \A q \in Requests : call[q] # "running"
  /\ call' = [call EXCEPT ![r] = "running"]
  /\ UNCHANGED <<interp, answer>>

Finish(r, a) ==
  /\ call[r] = "running"
  /\ call' = [call EXCEPT ![r] = "done"]
  /\ answer' = [answer EXCEPT ![r] = a]
  /\ UNCHANGED interp

Stop(r) ==
  /\ interp = "up"
  /\ r \in Stoppers
  /\ call[r] = "pending"
  /\ \A q \in Requests : call[q] # "running"
  /\ interp' = "finalized"
  /\ call' = [call EXCEPT ![r] = "done"]
  /\ answer' = [answer EXCEPT ![r] = "null"]

Return(r) ==
  /\ call[r] = "done"
  /\ call' = [call EXCEPT ![r] = "returned"]
  /\ UNCHANGED <<interp, answer>>

Next ==
  \/ BringUp
  \/ \E r \in Requests :
       \/ Submit(r)
       \/ Fail(r)
       \/ Run(r)
       \/ \E a \in {"value", "raised"} : Finish(r, a)
       \/ Stop(r)
       \/ Return(r)

Spec == Init /\ [][Next]_svars
=============================================================================
