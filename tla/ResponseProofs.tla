--------------------------- MODULE ResponseProofs ---------------------------
(***************************************************************************)
(* Proofs about Response, for any number of requests, handlers, strings    *)
(* and whatever the client asked for.                                      *)
(***************************************************************************)
EXTENDS Response, SequenceTheorems, TLAPS

(***************************************************************************)
(* What a request's calls and objects look like, however its handlers      *)
(* behave.                                                                 *)
(***************************************************************************)

\* per_request_init comes before the first handler.
ObjectsExist == \A d \in 1..Len(frames) : object[frames[d].req] # None

ChainInv == TypeOK /\ ObjectsExist /\ NoThreadSurvives

LEMMA ItemTypes ==
  /\ \A r \in Requests : Header(r) \in Items
  /\ \A r \in Requests, n \in 1..MaxWrites : Body(r, n) \in Items
BY DEF Items

LEMMA PhaseTypes ==
  /\ BothPhases \in Seq(Phases) /\ BothPhases # <<>>
  /\ <<>> \in Seq(Phases)
BY DEF BothPhases, Phases

LEMMA ChainInit == Init => ChainInv
<1> SUFFICES ASSUME Init PROVE ChainInv
  OBVIOUS
<1>1. 1 \in Requests
  BY ResponseAssumption DEF Requests
<1>2. todo \in [Requests -> Seq(Phases)]
  BY PhaseTypes DEF Init
<1>3. frames \in Seq(Frame) /\ client \in Seq(Items) /\ Len(frames) = 0
  BY DEF Init
<1>4. TypeOK
  BY <1>1, <1>2, <1>3, ResponseAssumption DEF Init, TypeOK
<1>5. ObjectsExist /\ NoThreadSurvives
  BY <1>3 DEF Init, ObjectsExist, NoThreadSurvives
<1>6. QED
  BY <1>4, <1>5 DEF ChainInv

\* Every call.
LEMMA FrameFacts ==
  ASSUME ChainInv
  PROVE  /\ Len(frames) \in Nat
         /\ \A d \in 1..Len(frames) : frames[d] \in Frame /\ frames[d].req \in Requests
<1>1. frames \in Seq(Frame)
  BY DEF ChainInv, TypeOK
<1>2. \A d \in 1..Len(frames) : frames[d] \in Frame
  BY <1>1, ElementOfSeq, Zenon
<1>3. QED
  BY <1>1, <1>2, LenProperties DEF Frame

\* The innermost call.
LEMMA TopFacts ==
  ASSUME ChainInv, frames # <<>>
  PROVE  /\ Depth \in 1..Len(frames) /\ Depth \in Nat /\ Top \in Frame
         /\ Own \in Object /\ Top.req \in Requests
<1>1. Depth \in Nat \ {0}
  BY EmptySeq DEF ChainInv, TypeOK, Depth
<1>2. Top \in Frame
  BY <1>1, ElementOfSeq DEF ChainInv, TypeOK, Top, Depth
<1>3. Top.req \in Requests /\ object[Top.req] # None
  BY <1>1, <1>2 DEF ChainInv, ObjectsExist, Top, Depth, Frame
<1>4. QED
  BY <1>1, <1>2, <1>3 DEF ChainInv, TypeOK, Own, Depth

\* A step that only tells that calls have returned or are overdue.
LEMMA NotedStep ==
  ASSUME ChainInv, NEW d \in 1..Len(frames), NEW f \in Frame,
         f.req = frames[d].req, f.phase = frames[d].phase, f.i = frames[d].i,
         frames' = [frames EXCEPT ![d] = f],
         threads' \subseteq threads,
         UNCHANGED <<header_only, last, todo, outputVars>>
  PROVE  ChainInv'
<1>1. /\ frames' \in Seq(Frame) /\ Len(frames') = Len(frames)
      /\ \A e \in 1..Len(frames) : frames'[e] = IF e = d THEN f ELSE frames[e]
  BY ExceptSeq DEF ChainInv, TypeOK
<1>2. TypeOK'
  BY <1>1 DEF ChainInv, TypeOK, outputVars
<1>3. ObjectsExist'
  BY <1>1 DEF ChainInv, ObjectsExist, outputVars
<1>4. NoThreadSurvives'
  <2>1. \A kind \in {"timeout", "helper"}, e \in 1..Len(frames) :
          Thread(kind, e)' = Thread(kind, e)
    BY <1>1 DEF Thread, ThreadOf
  <2>2. QED
    BY <1>1, <2>1 DEF ChainInv, NoThreadSurvives, Depth
<1>5. QED
  BY <1>2, <1>3, <1>4 DEF ChainInv

\* What is flushed, and what is left.
LEMMA FlushTypes ==
  ASSUME NEW r \in Requests, NEW o \in Object
  PROVE  FlushedItems(r, o) \in Seq(Items) /\ FlushedObject(o) \in Object
<1>1. <<Header(r)>> \in Seq(Items) /\ <<>> \in Seq(Items) /\ o.outbuf \in Seq(Items)
  BY ItemTypes DEF Object
<1>2. FlushedItems(r, o) \in Seq(Items)
  BY <1>1, ConcatProperties DEF FlushedItems
<1>3. FlushedObject(o) \in Object
  BY <1>1 DEF FlushedObject, Object
<1>4. QED
  BY <1>2, <1>3

\* A step of a handler that changes its request's object and the output.
LEMMA OutputStep ==
  ASSUME ChainInv, frames # <<>>, NEW o \in Object,
         object' = [object EXCEPT ![Top.req] = o],
         client' \in Seq(Items), written' \in 0..MaxWrites,
         UNCHANGED <<header_only, last, todo, frames, threads>>
  PROVE  ChainInv'
<1>1. TypeOK'
  BY TopFacts DEF ChainInv, TypeOK
<1>2. ObjectsExist'
  <2>1. \A r \in Requests : object'[r] = IF r = Top.req THEN o ELSE object[r]
    BY TopFacts DEF ChainInv, TypeOK
  <2>2. QED
    BY <2>1, FrameFacts, NoneAssumption DEF ChainInv, ObjectsExist
<1>3. NoThreadSurvives'
  BY DEF ChainInv, NoThreadSurvives, Thread, ThreadOf, Depth
<1>4. QED
  BY <1>1, <1>2, <1>3 DEF ChainInv

LEMMA TimeoutTypes ==
  ASSUME NEW f \in Frame
  PROVE  /\ Timeout(f) \subseteq {ThreadOf("timeout", f)}
         /\ \A kind \in {"timeout", "helper"} :
              ThreadOf(kind, f) \in {"timeout", "helper"} \X Requests \X Phases \X (1..MaxHandlers)
BY DEF Timeout, ThreadOf, Frame

LEMMA BeginPhaseInv ==
  ASSUME ChainInv, NEW n \in 1..MaxHandlers, NEW mode \in {"nosync", "syncheader", "sync"},
         BeginPhase(n, mode)
  PROVE  ChainInv'
<1> DEFINE f == [req |-> last, phase |-> Head(todo[last]), n |-> n, i |-> 1,
                 at |-> "running", ret |-> "DECLINED", overdue |-> FALSE]
<1>1. /\ Head(todo[last]) \in Phases /\ Tail(todo[last]) \in Seq(Phases)
      /\ last \in Requests
  BY HeadTailProperties DEF ChainInv, TypeOK, BeginPhase
<1>2. f \in Frame
  BY <1>1, ResponseAssumption DEF Frame, Results
<1>3. NewObject(mode) \in Object
  BY EmptySeq DEF NewObject, Object
<1> HIDE DEF f
<1>4. /\ frames' = Append(frames, f) /\ threads' = threads \cup Timeout(f)
      /\ todo' = [todo EXCEPT ![last] = Tail(@)]
      /\ object' = [object EXCEPT ![last] = IF @ = None THEN NewObject(mode) ELSE @]
      /\ UNCHANGED <<header_only, last, written, client>>
  BY DEF BeginPhase, f
<1>5. /\ frames' \in Seq(Frame) /\ Len(frames') = Len(frames) + 1
      /\ \A e \in 1..Len(frames) : frames'[e] = frames[e]
      /\ frames'[Len(frames) + 1] = f /\ Len(frames) \in Nat
  BY <1>2, <1>4, AppendProperties DEF ChainInv, TypeOK
<1>6. object' \in [Requests -> Object \cup {None}]
  BY <1>1, <1>3, <1>4 DEF ChainInv, TypeOK
<1>7. TypeOK'
  <2>1. threads' \subseteq {"timeout", "helper"} \X Requests \X Phases \X (1..MaxHandlers)
    BY <1>2, <1>4, TimeoutTypes DEF ChainInv, TypeOK
  <2>2. todo' \in [Requests -> Seq(Phases)]
    BY <1>1, <1>4 DEF ChainInv, TypeOK
  <2>3. QED
    BY <2>1, <2>2, <1>4, <1>5, <1>6 DEF ChainInv, TypeOK
<1>8. ObjectsExist'
  <2>1. \A r \in Requests : object'[r] # None <=> (object[r] # None \/ r = last)
    BY <1>1, <1>3, <1>4, NoneAssumption DEF ChainInv, TypeOK
  <2>2. f.req = last
    BY DEF f
  <2>3. QED
    BY <2>1, <2>2, <1>1, <1>5, FrameFacts DEF ChainInv, ObjectsExist
<1>9. NoThreadSurvives'
  <2>1. \A kind \in {"timeout", "helper"}, e \in 1..Len(frames) :
          Thread(kind, e)' = Thread(kind, e)
    BY <1>5 DEF Thread, ThreadOf
  <2>2. PICK own \in 1..Len(frames') : own = Len(frames) + 1
    BY <1>5
  <2>3. Thread("timeout", own)' = ThreadOf("timeout", f)
    BY <1>5, <2>2 DEF Thread, ThreadOf
  <2>4. \A t \in threads' : t \in threads \/ t = ThreadOf("timeout", f)
    BY <1>2, <1>4, TimeoutTypes
  <2>5. QED
    BY <1>5, <2>1, <2>2, <2>3, <2>4 DEF ChainInv, NoThreadSurvives, Depth
<1>10. QED
  BY <1>7, <1>8, <1>9 DEF ChainInv

LEMMA NextHandlerInv == ASSUME ChainInv, NextHandler PROVE ChainInv'
<1> DEFINE f == [Top EXCEPT !.at = "running", !.i = @ + 1, !.overdue = FALSE]
<1>1. /\ frames # <<>> /\ Top.i < Top.n
      /\ frames' = [frames EXCEPT ![Depth] = f] /\ threads' = Timeout(f)
      /\ UNCHANGED <<header_only, last, todo, object, written, client>>
  BY DEF NextHandler, More, KillThreads, outputVars
<1>2. f \in Frame /\ f.req = Top.req
  <2>1. Top.i + 1 \in 1..MaxHandlers
    BY <1>1, TopFacts, ResponseAssumption DEF Frame
  <2>2. QED
    BY <1>1, <2>1, TopFacts DEF Frame
<1> HIDE DEF f
<1>3. /\ frames' \in Seq(Frame) /\ Len(frames') = Len(frames)
      /\ \A e \in 1..Len(frames) : frames'[e] = IF e = Depth THEN f ELSE frames[e]
  BY <1>1, <1>2, TopFacts, ExceptSeq DEF ChainInv, TypeOK
<1>4. TypeOK'
  BY <1>1, <1>2, <1>3, TimeoutTypes DEF ChainInv, TypeOK
<1>5. ObjectsExist'
  BY <1>1, <1>2, <1>3 DEF ChainInv, ObjectsExist, Top
<1>6. NoThreadSurvives'
  <2>1. threads' \subseteq {ThreadOf("timeout", frames'[Depth])}
    BY <1>1, <1>2, <1>3, TopFacts, TimeoutTypes
  <2>2. QED
    BY <1>1, <1>3, <2>1, TopFacts DEF NoThreadSurvives, Thread, Depth
<1>7. QED
  BY <1>4, <1>5, <1>6 DEF ChainInv

LEMMA PhaseEndsInv == ASSUME ChainInv, PhaseEnds PROVE ChainInv'
<1>1. /\ frames # <<>> /\ frames' = SubSeq(frames, 1, Depth - 1) /\ threads' = {}
      /\ UNCHANGED <<header_only, last, written>>
  BY DEF PhaseEnds, KillThreads, Pop
<1>2. /\ frames' \in Seq(Frame) /\ Len(frames') = Depth - 1
      /\ \A e \in 1..Len(frames') : e \in 1..Len(frames) /\ frames'[e] = frames[e]
  <2>1. \A e \in 1..(Depth - 1) : frames[e] \in Frame
    BY TopFacts, <1>1, ElementOfSeq DEF ChainInv, TypeOK
  <2>2. QED
    BY <2>1, <1>1, TopFacts, SubSeqProperties
<1>3. \/ UNCHANGED <<client, object>>
      \/ /\ object[last] # None
         /\ client' = client \o FlushedItems(last, object[last])
         /\ object' = [object EXCEPT ![last] = FlushedObject(@)]
  BY DEF PhaseEnds
<1>4. /\ client' \in Seq(Items) /\ object' \in [Requests -> Object \cup {None}]
      /\ \A r \in Requests : object[r] # None => object'[r] # None
  <2>1. CASE UNCHANGED <<client, object>>
    BY <2>1 DEF ChainInv, TypeOK
  <2>2. CASE /\ object[last] # None
             /\ client' = client \o FlushedItems(last, object[last])
             /\ object' = [object EXCEPT ![last] = FlushedObject(@)]
    <3>1. last \in Requests /\ object[last] \in Object /\ client \in Seq(Items)
      BY <2>2 DEF ChainInv, TypeOK
    <3>2. client' \in Seq(Items)
      BY <2>2, <3>1, FlushTypes, ConcatProperties
    <3>3. FlushedObject(object[last]) \in Object
      BY <3>1, FlushTypes
    <3>4. QED
      BY <2>2, <3>1, <3>2, <3>3, NoneAssumption DEF ChainInv, TypeOK
  <2>3. QED
    BY <1>3, <2>1, <2>2
<1>5. todo' \in [Requests -> Seq(Phases)]
  BY PhaseTypes DEF PhaseEnds, ChainInv, TypeOK
<1>6. TypeOK'
  BY <1>1, <1>2, <1>4, <1>5 DEF ChainInv, TypeOK
<1>7. ObjectsExist'
  BY FrameFacts, <1>2, <1>4 DEF ChainInv, ObjectsExist
<1>8. NoThreadSurvives'
  BY <1>1 DEF NoThreadSurvives
<1>9. QED
  BY <1>6, <1>7, <1>8 DEF ChainInv

\* Ends of handlers and timeouts.
LEMMA ReturnsInv ==
  ASSUME ChainInv,
         \/ \E ret \in Results : HandlerReturns(ret)
         \/ \E d \in 1..MaxRequests : TimeoutRaises(d) \/ TimePasses(d)
  PROVE  ChainInv'
<1>1. ASSUME NEW ret \in Results, HandlerReturns(ret) PROVE ChainInv'
  <2> DEFINE f == [Top EXCEPT !.at = "returned", !.ret = ret]
  <2>1. frames # <<>> /\ frames' = [frames EXCEPT ![Depth] = f]
    BY <1>1 DEF HandlerReturns, Executing, Top
  <2>2. f \in Frame /\ f.req = Top.req /\ f.phase = Top.phase /\ f.i = Top.i
    BY <2>1, TopFacts DEF Frame
  <2> HIDE DEF f
  <2>3. QED
    BY <1>1, <2>1, <2>2, TopFacts, NotedStep DEF HandlerReturns, Top
<1>2. ASSUME NEW d \in 1..MaxRequests, TimeoutRaises(d) PROVE ChainInv'
  <2> DEFINE f == [Top EXCEPT !.at = "returned", !.ret = "error"]
  <2>1. frames # <<>> /\ frames' = [frames EXCEPT ![Depth] = f]
    <3>1. d \in 1..Len(frames)
      BY <1>2 DEF TimeoutRaises, Depth
    <3>2. frames # <<>>
      BY <3>1
    <3>3. frames' = [frames EXCEPT ![Depth].at = "returned", ![Depth].ret = "error"]
      BY <1>2 DEF TimeoutRaises
    <3>4. QED
      BY <3>2, <3>3, TopFacts DEF Top, ChainInv, TypeOK
  <2>2. f \in Frame /\ f.req = Top.req /\ f.phase = Top.phase /\ f.i = Top.i
    BY <2>1, TopFacts DEF Frame, Results
  <2> HIDE DEF f
  <2>3. QED
    BY <1>2, <2>1, <2>2, TopFacts, NotedStep DEF TimeoutRaises, Top
<1>3. ASSUME NEW d \in 1..MaxRequests, TimePasses(d) PROVE ChainInv'
  <2> DEFINE f == [frames[d] EXCEPT !.overdue = TRUE]
  <2>1. d \in 1..Len(frames) /\ frames' = [frames EXCEPT ![d] = f]
    BY <1>3 DEF TimePasses, Depth
  <2>2. f \in Frame /\ f.req = frames[d].req /\ f.phase = frames[d].phase /\ f.i = frames[d].i
    BY <2>1, FrameFacts DEF Frame
  <2> HIDE DEF f
  <2>3. QED
    BY <1>3, <2>1, <2>2, NotedStep DEF TimePasses
<1>4. QED
  BY <1>1, <1>2, <1>3

LEMMA StartThreadInv == ASSUME ChainInv, StartThread PROVE ChainInv'
<1>1. frames # <<>> /\ threads' = threads \cup {Thread("helper", Depth)}
  BY DEF StartThread, Executing
<1>2. Thread("helper", Depth) \in {"timeout", "helper"} \X Requests \X Phases \X (1..MaxHandlers)
  BY <1>1, TopFacts, FrameFacts, TimeoutTypes DEF Thread
<1>3. TypeOK'
  BY <1>1, <1>2 DEF StartThread, outputVars, ChainInv, TypeOK
<1>4. ObjectsExist'
  BY DEF StartThread, outputVars, ChainInv, ObjectsExist
<1>5. NoThreadSurvives'
  BY <1>1, TopFacts DEF StartThread, ChainInv, NoThreadSurvives, Thread, Depth
<1>6. QED
  BY <1>3, <1>4, <1>5 DEF ChainInv

\* Steps of Apache::Request.
LEMMA OutputInv ==
  ASSUME ChainInv,
         \/ Write
         \/ Cancel
         \/ \E header, output \in BOOLEAN : SetSync(header, output)
         \/ SendHttpHeader
         \/ \E isFile \in BOOLEAN : SendFd(isFile)
  PROVE  ChainInv'
<1>0. written \in 0..MaxWrites /\ client \in Seq(Items) /\ MaxWrites \in Nat
      /\ object \in [Requests -> Object \cup {None}]
  BY ResponseAssumption DEF ChainInv, TypeOK
<1>1. ASSUME Write PROVE ChainInv'
  <2> DEFINE str == Body(Top.req, written + 1)
             o == IF Own.sync_output THEN Own
                  ELSE [Own EXCEPT !.outbuf = Append(@, str)]
  <2>1. frames # <<>> /\ written + 1 \in 1..MaxWrites
    BY <1>0, <1>1 DEF Write, Executing
  <2>2. str \in Items
    BY <2>1, TopFacts, ItemTypes
  <2>3. o \in Object
    BY <2>1, <2>2, TopFacts, AppendProperties DEF Object
  <2>4. object' = [object EXCEPT ![Top.req] = o]
    BY <1>0, <1>1, <2>1, TopFacts DEF Write, Own
  <2>5. Append(client, str) \in Seq(Items)
    BY <1>0, <2>2, AppendProperties
  <2>6. /\ client' \in Seq(Items) /\ written' \in 0..MaxWrites
        /\ UNCHANGED <<header_only, last, todo, frames, threads>>
    <3>1. client' = client \/ client' = Append(client, str)
      BY <1>1, Zenon DEF Write
    <3>2. QED
      BY <1>0, <1>1, <2>1, <2>5, <3>1 DEF Write
  <2> HIDE DEF o
  <2>7. QED
    BY <2>1, <2>3, <2>4, <2>6, OutputStep
<1>2. ASSUME Cancel PROVE ChainInv'
  <2>1. frames # <<>>
    BY <1>2 DEF Cancel, Executing
  <2>2. [Own EXCEPT !.outbuf = <<>>] \in Object
    BY <2>1, TopFacts, EmptySeq DEF Object
  <2>3. QED
    BY <1>0, <1>2, <2>1, <2>2, OutputStep DEF Cancel, Own
<1>3. ASSUME NEW header \in BOOLEAN, NEW output \in BOOLEAN, SetSync(header, output)
      PROVE  ChainInv'
  <2> DEFINE o == [Own EXCEPT !.sync_header = header, !.sync_output = output]
  <2>1. frames # <<>>
    BY <1>3 DEF SetSync, Executing
  <2>2. o \in Object
    BY <2>1, TopFacts DEF Object
  <2>3. object' = [object EXCEPT ![Top.req] = o]
    BY <1>0, <1>3, <2>1, TopFacts DEF SetSync, Own
  <2> HIDE DEF o
  <2>4. QED
    BY <1>0, <1>3, <2>1, <2>2, <2>3, OutputStep DEF SetSync
<1>4. ASSUME SendHttpHeader PROVE ChainInv'
  <2> DEFINE o == IF Own.sync_header
                    THEN [Own EXCEPT !.sent_header = TRUE, !.header_pending = FALSE]
                  ELSE [Own EXCEPT !.header_pending = TRUE]
  <2>1. frames # <<>>
    BY <1>4 DEF SendHttpHeader, Executing
  <2>2. o \in Object
    BY <2>1, TopFacts DEF Object
  <2>3. object' = [object EXCEPT ![Top.req] = o]
    BY <1>0, <1>4, <2>1, TopFacts DEF SendHttpHeader, Own
  <2>4. client' \in Seq(Items)
    <3>1. Header(Top.req) \in Items
      BY <2>1, TopFacts, ItemTypes
    <3>2. Append(client, Header(Top.req)) \in Seq(Items)
      BY <1>0, <3>1, AppendProperties
    <3>3. QED
      BY <1>0, <1>4, <3>2 DEF SendHttpHeader
  <2> HIDE DEF o
  <2>5. QED
    <3>1. UNCHANGED <<header_only, last, todo, frames, threads>> /\ written' \in 0..MaxWrites
      BY <1>0, <1>4 DEF SendHttpHeader
    <3>2. QED
      BY <2>1, <2>2, <2>3, <2>4, <3>1, OutputStep
<1>5. ASSUME NEW isFile \in BOOLEAN, SendFd(isFile) PROVE ChainInv'
  <2> DEFINE file == IF isFile THEN <<Body(Top.req, written + 1)>> ELSE <<>>
             o == [FlushedObject(Own) EXCEPT !.sync_header = TRUE, !.sync_output = TRUE]
  <2>1. frames # <<>> /\ written + 1 \in 1..MaxWrites
    BY <1>0, <1>5 DEF SendFd, Executing
  <2>2. o \in Object
    BY <2>1, TopFacts, FlushTypes DEF Object
  <2>3. FlushedItems(Top.req, Own) \in Seq(Items) /\ file \in Seq(Items)
    BY <2>1, TopFacts, FlushTypes, ItemTypes
  <2>4. client' = client \o (FlushedItems(Top.req, Own) \o file)
        /\ object' = [object EXCEPT ![Top.req] = o] /\ written' = written + 1
        /\ UNCHANGED <<header_only, last, todo, frames, threads>>
    BY <1>5 DEF SendFd, BufferThenFile
  <2> HIDE DEF o, file
  <2>5. client' \in Seq(Items)
    BY <1>0, <2>3, <2>4, ConcatProperties
  <2>6. written' \in 0..MaxWrites
    BY <1>0, <2>1, <2>4
  <2>7. QED
    BY <2>1, <2>2, <2>4, <2>5, <2>6, OutputStep
<1>6. QED
  BY <1>1, <1>2, <1>3, <1>4, <1>5

LEMMA ChainStep == ASSUME ChainInv, [Next]_vars PROVE ChainInv'
<1>1. ASSUME SkipPhase PROVE ChainInv'
  <2>1. todo' \in [Requests -> Seq(Phases)]
    <3>1. Tail(todo[last]) \in Seq(Phases)
      BY <1>1, HeadTailProperties DEF SkipPhase, ChainInv, TypeOK
    <3>2. QED
      BY <1>1, <3>1 DEF SkipPhase, ChainInv, TypeOK
  <2>2. QED
    BY <1>1, <2>1 DEF SkipPhase, outputVars, ChainInv, TypeOK, ObjectsExist,
                      NoThreadSurvives, Thread, ThreadOf, Depth
<1>2. ASSUME InternalRedirect PROVE ChainInv'
  <2>1. last' \in Requests
    BY <1>2, ResponseAssumption DEF InternalRedirect, ChainInv, TypeOK, Requests
  <2>2. todo' \in [Requests -> Seq(Phases)]
    BY <1>2, PhaseTypes DEF InternalRedirect, ChainInv, TypeOK
  <2>3. QED
    BY <1>2, <2>1, <2>2 DEF InternalRedirect, outputVars, ChainInv, TypeOK, ObjectsExist,
                            NoThreadSurvives, Thread, ThreadOf, Depth
<1>3. ASSUME UNCHANGED vars PROVE ChainInv'
  BY <1>3 DEF vars, outputVars, ChainInv, TypeOK, ObjectsExist, NoThreadSurvives,
              Thread, ThreadOf, Depth
<1>4. ASSUME Served PROVE ChainInv'
  BY <1>3, <1>4 DEF Served
<1>5. QED
  BY <1>1, <1>2, <1>3, <1>4, BeginPhaseInv, NextHandlerInv, PhaseEndsInv, ReturnsInv,
     StartThreadInv, OutputInv
  DEF Next, CodeStep, HandlerStep, Timeouts

LEMMA ChainAlways == Spec => []ChainInv
<1>1. QED
  BY ChainInit, ChainStep, PTL DEF Spec

\* Every variable keeps its type, for any number of requests and handlers.
THEOREM TypeCorrect == Spec => []TypeOK
<1>1. ChainInv => TypeOK
  BY DEF ChainInv
<1>2. QED
  BY <1>1, ChainAlways, PTL

\* No thread of a handler, its timeout or one of its own, outlives it: every
\* run_safely ends with kill_threads, and only then the next handler is run.
THEOREM ThreadsEndWithHandlers == Spec => []NoThreadSurvives
<1>1. ChainInv => NoThreadSurvives
  BY DEF ChainInv
<1>2. QED
  BY <1>1, ChainAlways, PTL

-----------------------------------------------------------------------------
(***************************************************************************)
(* When output is sent.                                                    *)
(***************************************************************************)

LEMMA ItemFacts ==
  /\ \A r : Header(r)[1] = "header" /\ Header(r)[2] = r
  /\ \A r, n : Body(r, n)[1] = "body" /\ Body(r, n)[2] = r /\ Body(r, n)[3] = n
  /\ \A x \in Items : \/ x[1] = "header" /\ x = Header(x[2])
                      \/ x[1] = "body" /\ x[3] \in 1..MaxWrites
BY DEF Header, Body, Items

\* BufferedUntilOK of a step.
MaySend ==
  \A i \in (Len(client) + 1)..Len(client') :
    \/ IF client'[i][1] = "header" THEN object'[Top.req].sync_header
                                   ELSE object'[Top.req].sync_output
    \/ /\ Len(frames') < Depth
       /\ Top.phase = "handler" /\ Top.ret = "OK"

LEMMA StepMaySend == ASSUME ChainInv, [Next]_vars PROVE MaySend
<1>0. /\ client \in Seq(Items) /\ Len(client) \in Nat
      /\ object \in [Requests -> Object \cup {None}]
  BY LenProperties DEF ChainInv, TypeOK
<1>1. CASE client' = client
  BY <1>0, <1>1 DEF MaySend
<1>2. CASE Write /\ client' # client
  <2>1. /\ frames # <<>> /\ Own.sync_output /\ object' = object
        /\ client' = Append(client, Body(Top.req, written + 1))
    BY <1>2 DEF Write, Executing
  <2>2. Body(Top.req, written + 1) \in Items
    <3>1. written + 1 \in 1..MaxWrites
      BY <1>2, ResponseAssumption DEF Write, ChainInv, TypeOK
    <3>2. QED
      BY <2>1, <3>1, TopFacts, ItemTypes
  <2>3. \A i \in (Len(client) + 1)..Len(client') : client'[i] = Body(Top.req, written + 1)
    BY <1>0, <2>1, <2>2, AppendProperties
  <2>4. QED
    BY <2>1, <2>3, ItemFacts DEF MaySend, Own
<1>3. CASE SendHttpHeader /\ client' # client
  <2>1. /\ frames # <<>> /\ Own.sync_header
        /\ client' = Append(client, Header(Top.req))
        /\ object' = [object EXCEPT ![Top.req].sent_header = TRUE,
                                    ![Top.req].header_pending = FALSE]
    BY <1>3 DEF SendHttpHeader, Executing
  <2>2. Header(Top.req) \in Items
    BY <2>1, TopFacts, ItemTypes
  <2>3. \A i \in (Len(client) + 1)..Len(client') : client'[i] = Header(Top.req)
    BY <1>0, <2>1, <2>2, AppendProperties
  <2>4. object'[Top.req].sync_header
    BY <1>0, <2>1, TopFacts DEF Own, Object
  <2>5. QED
    BY <2>3, <2>4, ItemFacts DEF MaySend
<1>4. ASSUME NEW isFile \in BOOLEAN, SendFd(isFile) PROVE MaySend
  <2>1. /\ frames # <<>>
        /\ object' = [object EXCEPT ![Top.req] =
              [FlushedObject(Own) EXCEPT !.sync_header = TRUE, !.sync_output = TRUE]]
    BY <1>4 DEF SendFd, Executing
  <2>2. object'[Top.req].sync_header /\ object'[Top.req].sync_output
    BY <1>0, <2>1, TopFacts, FlushTypes DEF Object
  <2>3. QED
    BY <2>2 DEF MaySend
<1>5. CASE PhaseEnds /\ client' # client
  <2>1. /\ frames # <<>> /\ frames' = SubSeq(frames, 1, Depth - 1)
        /\ Top.phase = "handler" /\ Top.ret = "OK"
    BY <1>5 DEF PhaseEnds, Pop, FlushWanted, Flushes
  <2>2. Len(frames') = Depth - 1 /\ Depth \in Nat
    <3>1. \A e \in 1..(Depth - 1) : frames[e] \in Frame
      BY TopFacts, <2>1, FrameFacts
    <3>2. QED
      BY <2>1, <3>1, TopFacts, SubSeqProperties
  <2>3. QED
    BY <2>1, <2>2 DEF MaySend
<1>6. QED
  BY <1>1, <1>2, <1>3, <1>4, <1>5
  DEF Next, CodeStep, HandlerStep, Timeouts, BeginPhase, SkipPhase, NextHandler,
      HandlerReturns, StartThread, Cancel, SetSync, InternalRedirect, TimeoutRaises, TimePasses,
      Served, vars, outputVars

\* What is not sent in a synchronous mode waits for a content phase that ends
\* with OK, however phases, redirects and timeouts are nested.
THEOREM OutputWaits == Spec => BufferedUntilOK
<1>1. ChainInv /\ [Next]_vars => [MaySend]_vars
  BY StepMaySend
<1>2. QED
  BY <1>1, ChainAlways, PTL DEF Spec, BufferedUntilOK, MaySend

-----------------------------------------------------------------------------
(***************************************************************************)
(* How phases and redirects are nested.                                    *)
(***************************************************************************)

\* What Apache has to run for each request; only the last one has anything.
Rest == {<<>>, <<"handler">>, BothPhases}
TodoInv ==
  /\ \A r \in Requests : todo[r] \in Rest
  /\ \A r \in Requests : r # last => todo[r] = <<>>
  /\ \A r \in Requests : r > last => object[r] = None

\* A content phase is the last one, and only the innermost call returns, when
\* Apache has done with the requests it made.
CallsInv ==
  \A d \in 1..Len(frames) :
    /\ frames[d].req <= last
    /\ frames[d].phase = "handler" => todo[frames[d].req] = <<>>
    /\ frames[d].at = "returned" =>
         d = Len(frames) /\ (frames[d].req = last \/ todo[last] = <<>>)

NestedInv == \A d, e \in 1..Len(frames) : d < e => frames[d].req < frames[e].req

NestInv == TodoInv /\ CallsInv /\ NestedInv

LEMMA NestInit == Init => NestInv
BY ResponseAssumption DEF Init, NestInv, TodoInv, CallsInv, NestedInv, Requests, Rest

\* The rest of what Apache has to run for the last request.
LEMMA TailFacts ==
  ASSUME ChainInv, NestInv, todo[last] # <<>>,
         todo' = [todo EXCEPT ![last] = Tail(@)]
  PROVE  /\ \A r \in Requests : todo'[r] \in Rest
         /\ Head(todo[last]) = "handler" => todo'[last] = <<>>
         /\ \A r \in Requests : r # last => todo'[r] = todo[r]
         /\ \A r \in Requests : todo[r] = <<>> => todo'[r] = <<>>
<1>1. last \in Requests /\ todo \in [Requests -> Seq(Phases)]
  BY DEF ChainInv, TypeOK
<1>2. todo[last] \in {<<"handler">>, <<"fixup", "handler">>}
  BY <1>1 DEF NestInv, TodoInv, Rest, BothPhases
<1>3. /\ Head(<<"handler">>) = "handler" /\ Tail(<<"handler">>) = <<>>
      /\ Head(<<"fixup", "handler">>) = "fixup"
      /\ Tail(<<"fixup", "handler">>) = <<"handler">>
  OBVIOUS
<1>4. /\ Tail(todo[last]) \in Rest
      /\ Head(todo[last]) = "handler" => Tail(todo[last]) = <<>>
  BY <1>2, <1>3 DEF Rest
<1>5. \A r \in Requests : todo'[r] = IF r = last THEN Tail(todo[last]) ELSE todo[r]
  BY <1>1
<1>6. QED
  BY <1>1, <1>4, <1>5 DEF NestInv, TodoInv

\* A step that changes where calls are and leaves alone what they are for.
LEMMA SameCalls ==
  ASSUME NestInv, Len(frames') = Len(frames),
         \A e \in 1..Len(frames) :
           frames'[e].req = frames[e].req /\ frames'[e].phase = frames[e].phase,
         \A e \in 1..Len(frames) : frames'[e].at = "returned" =>
           e = Len(frames) /\ (frames[e].req = last \/ todo[last] = <<>>),
         UNCHANGED <<last, todo, object>>
  PROVE  NestInv'
<1>1. TodoInv'
  BY DEF NestInv, TodoInv
<1>2. CallsInv'
  BY DEF NestInv, CallsInv
<1>3. NestedInv'
  BY DEF NestInv, NestedInv
<1>4. QED
  BY <1>1, <1>2, <1>3 DEF NestInv

LEMMA CallStep ==
  ASSUME ChainInv, NestInv, NEW d \in 1..Len(frames), NEW f \in Frame,
         frames' = [frames EXCEPT ![d] = f], f.req = frames[d].req, f.phase = frames[d].phase,
         f.at = "returned" => d = Len(frames) /\ (f.req = last \/ todo[last] = <<>>),
         UNCHANGED <<last, todo, object>>
  PROVE  NestInv'
<1>1. /\ Len(frames') = Len(frames)
      /\ \A e \in 1..Len(frames) : frames'[e] = IF e = d THEN f ELSE frames[e]
  BY ExceptSeq DEF ChainInv, TypeOK
<1>2. \A e \in 1..Len(frames) : frames'[e].req = frames[e].req /\ frames'[e].phase = frames[e].phase
  BY <1>1
<1>3. \A e \in 1..Len(frames) : frames'[e].at = "returned" =>
        e = Len(frames) /\ (frames[e].req = last \/ todo[last] = <<>>)
  BY <1>1 DEF NestInv, CallsInv
<1>4. QED
  BY <1>1, <1>2, <1>3, SameCalls

\* NestInv, said of the calls one by one.
LEMMA CallFacts ==
  ASSUME ChainInv, NestInv
  PROVE  /\ last \in Requests /\ last \in Nat
         /\ todo \in [Requests -> Seq(Phases)]
         /\ object \in [Requests -> Object \cup {None}]
         /\ Len(frames) \in Nat
         /\ \A d \in 1..Len(frames) :
              /\ frames[d] \in Frame /\ frames[d].req \in Requests /\ frames[d].req \in Nat
              /\ frames[d].req <= last
              /\ frames[d].phase = "handler" => todo[frames[d].req] = <<>>
              /\ frames[d].at = "returned" =>
                   d = Len(frames) /\ (frames[d].req = last \/ todo[last] = <<>>)
<1>2. Requests \subseteq Nat
  BY DEF Requests
<1>3. QED
  BY <1>2, FrameFacts DEF ChainInv, TypeOK, NestInv, CallsInv

\* The innermost call is the one for the latest request.
LEMMA InnermostFacts ==
  ASSUME ChainInv, NestInv, frames # <<>>
  PROVE  /\ Depth = Len(frames) /\ Depth \in 1..Len(frames) /\ Depth \in Nat
         /\ Top = frames[Depth] /\ Top \in Frame /\ Top.req \in Requests /\ Top.req \in Nat
         /\ Top.req <= last
         /\ \A d \in 1..(Depth - 1) :
              d \in 1..Len(frames) /\ frames[d].req < Top.req /\ frames[d].at # "returned"
<1>1. /\ Depth = Len(frames) /\ Depth \in 1..Len(frames) /\ Depth \in Nat
      /\ Top = frames[Depth]
  BY TopFacts DEF Depth, Top
<1>2. Top \in Frame /\ Top.req \in Requests /\ Top.req \in Nat /\ Top.req <= last
  BY <1>1, CallFacts
<1>3. ASSUME NEW d \in 1..(Depth - 1)
      PROVE  d \in 1..Len(frames) /\ frames[d].req < Top.req /\ frames[d].at # "returned"
  <2>1. d \in 1..Len(frames) /\ d < Depth /\ d # Len(frames)
    BY <1>1
  <2>2. frames[d].req < Top.req
    BY <1>1, <2>1 DEF NestInv, NestedInv
  <2>3. QED
    BY <2>1, <2>2, CallFacts
<1>4. QED
  BY <1>1, <1>2, <1>3

LEMMA NestBeginPhase ==
  ASSUME ChainInv, NestInv, NEW n \in 1..MaxHandlers,
         NEW mode \in {"nosync", "syncheader", "sync"}, BeginPhase(n, mode)
  PROVE  NestInv' /\ (\A d \in 1..Len(frames) : frames[d].req # last)
<1> DEFINE f == [req |-> last, phase |-> Head(todo[last]), n |-> n, i |-> 1,
                 at |-> "running", ret |-> "DECLINED", overdue |-> FALSE]
<1>1. /\ todo[last] # <<>> /\ todo' = [todo EXCEPT ![last] = Tail(@)]
      /\ frames # <<>> => Top.req # last
      /\ frames' = Append(frames, f) /\ last' = last
      /\ \A r \in Requests : r # last => object'[r] = object[r]
  BY CallFacts DEF BeginPhase, ApacheRuns
<1>2. Head(todo[last]) \in Phases
  BY <1>1, CallFacts, HeadTailProperties
<1>3. f \in Frame
  BY <1>2, CallFacts, ResponseAssumption DEF Frame, Results
<1>4. f.req = last /\ f.phase = Head(todo[last]) /\ f.at = "running"
  OBVIOUS
<1> HIDE DEF f
<1>5. /\ Len(frames') = Len(frames) + 1 /\ frames'[Len(frames) + 1] = f
      /\ \A d \in 1..Len(frames) : frames'[d] = frames[d]
  BY <1>1, <1>3, AppendProperties DEF ChainInv, TypeOK
<1>6. \A d \in 1..Len(frames) : frames[d].req < last /\ frames[d].at # "returned"
  <2>1. CASE frames = <<>>
    BY <2>1
  <2>2. CASE frames # <<>>
    <3>1. Top.req < last
      BY <1>1, <2>2, InnermostFacts, CallFacts
    <3>2. \A d \in 1..Len(frames) : frames[d].req < last
      BY <2>2, <3>1, InnermostFacts, CallFacts
    <3>3. \A d \in 1..Len(frames) : frames[d].req # last
      BY <3>2, CallFacts
    <3>4. QED
      BY <1>1, <3>2, <3>3, CallFacts
  <2>3. QED
    BY <2>1, <2>2
<1>7. TodoInv'
  <2>1. \A r \in Requests : r > last => r # last
    BY CallFacts DEF Requests
  <2>2. QED
    BY <1>1, <2>1, TailFacts DEF NestInv, TodoInv
<1>8. CallsInv'
  <2>1. /\ frames'[Len(frames) + 1].req <= last'
        /\ frames'[Len(frames) + 1].phase = "handler" => todo'[frames'[Len(frames) + 1].req] = <<>>
        /\ frames'[Len(frames) + 1].at = "running"
    BY <1>1, <1>4, <1>5, TailFacts, CallFacts
  <2>2. \A d \in 1..Len(frames) :
          /\ frames'[d].req <= last'
          /\ frames'[d].phase = "handler" => todo'[frames'[d].req] = <<>>
          /\ frames'[d].at # "returned"
    BY <1>1, <1>5, <1>6, TailFacts, CallFacts
  <2>3. \A d \in 1..Len(frames') : d \in 1..Len(frames) \/ d = Len(frames) + 1
    BY <1>5, CallFacts
  <2>4. QED
    BY <2>1, <2>2, <2>3 DEF CallsInv
<1>9. NestedInv'
  <2>1. \A d, e \in 1..Len(frames) : d < e => frames'[d].req < frames'[e].req
    BY <1>5 DEF NestInv, NestedInv
  <2>2. \A d \in 1..Len(frames) : frames'[d].req < frames'[Len(frames) + 1].req
    BY <1>4, <1>5, <1>6
  <2>3. QED
    BY <1>5, <2>1, <2>2, CallFacts DEF NestedInv
<1>10. \A d \in 1..Len(frames) : frames[d].req # last
  BY <1>6, CallFacts
<1>11. QED
  BY <1>7, <1>8, <1>9, <1>10 DEF NestInv

\* When a phase ends, no calls for its request are left.
LEMMA NestPhaseEnds ==
  ASSUME ChainInv, NestInv, PhaseEnds
  PROVE  /\ NestInv'
         /\ frames # <<>>
         /\ \A d \in 1..Len(frames') :
              d \in 1..Len(frames) /\ frames'[d] = frames[d] /\ frames'[d].req < Top.req
         /\ \A r \in Requests : todo'[r] = todo[r] \/ todo'[r] = <<>>
         /\ Top.phase = "handler" => todo[last] = <<>>
<1>1. /\ frames # <<>> /\ frames' = SubSeq(frames, 1, Depth - 1)
      /\ Top.at = "returned" /\ last' = last
      /\ todo' = IF Top.ret = "error" THEN [todo EXCEPT ![Top.req] = <<>>] ELSE todo
      /\ \A r \in Requests : r # last => object'[r] = object[r]
  BY CallFacts DEF PhaseEnds, Pop
<1>2. /\ Len(frames') = Depth - 1
      /\ \A d \in 1..Len(frames') : d \in 1..(Depth - 1) /\ frames'[d] = frames[d]
  <2>1. \A d \in 1..(Depth - 1) : frames[d] \in Frame
    BY <1>1, InnermostFacts, CallFacts
  <2>2. QED
    BY <1>1, <2>1, InnermostFacts, SubSeqProperties
<1>3. \A d \in 1..Len(frames') :
        d \in 1..Len(frames) /\ frames'[d] = frames[d] /\ frames'[d].req < Top.req
          /\ frames'[d].at # "returned"
  BY <1>1, <1>2, InnermostFacts
<1>4. \A r \in Requests : todo'[r] = todo[r] \/ todo'[r] = <<>>
  BY <1>1, CallFacts, InnermostFacts
<1>5. TodoInv'
  <2>1. <<>> \in Rest
    BY DEF Rest
  <2>2. \A r \in Requests : r > last => r # last
    BY CallFacts DEF Requests
  <2>3. QED
    BY <1>1, <1>4, <2>1, <2>2 DEF NestInv, TodoInv
<1>6. CallsInv'
  BY <1>1, <1>3, <1>4, CallFacts DEF CallsInv
<1>7. NestedInv'
  BY <1>3 DEF NestInv, NestedInv
<1>8. Top.phase = "handler" => todo[last] = <<>>
  BY <1>1, InnermostFacts, CallFacts
<1>9. QED
  BY <1>1, <1>3, <1>4, <1>5, <1>6, <1>7, <1>8 DEF NestInv

LEMMA NestRedirect == ASSUME ChainInv, NestInv, InternalRedirect PROVE NestInv'
<1>1. /\ frames # <<>> /\ Top.at = "running" /\ (Top.req = last \/ todo[last] = <<>>)
      /\ Top.phase = "handler" /\ last < MaxRequests /\ last' = last + 1
      /\ todo' = [todo EXCEPT ![last + 1] = BothPhases] /\ UNCHANGED <<frames, object>>
  BY DEF InternalRedirect, Executing, outputVars
<1>2. todo[last] = <<>>
  BY <1>1, InnermostFacts, CallFacts
<1>3. \A d \in 1..Len(frames) : frames[d].at # "returned"
  BY <1>1, InnermostFacts, CallFacts
<1>4. last + 1 \in Requests
  BY <1>1, CallFacts, ResponseAssumption DEF Requests
<1>5. \A r \in Requests : todo'[r] = IF r = last + 1 THEN BothPhases ELSE todo[r]
  BY <1>1, <1>4, CallFacts
<1>6. TodoInv'
  <2>1. \A r \in Requests : r \in Nat
    BY DEF Requests
  <2>2. \A r \in Requests : r # last + 1 => todo'[r] = <<>>
    BY <1>2, <1>5 DEF NestInv, TodoInv
  <2>3. \A r \in Requests : r > last + 1 => r > last
    BY <2>1, CallFacts
  <2>4. \A r \in Requests : todo'[r] \in Rest
    BY <1>5 DEF NestInv, TodoInv, Rest
  <2>5. QED
    BY <1>1, <2>2, <2>3, <2>4 DEF NestInv, TodoInv
<1>7. CallsInv'
  <2>1. \A d \in 1..Len(frames) : frames[d].req # last + 1 /\ frames[d].req <= last + 1
    BY CallFacts
  <2>2. QED
    BY <1>1, <1>3, <1>5, <2>1, CallFacts DEF CallsInv
<1>8. NestedInv'
  BY <1>1 DEF NestInv, NestedInv
<1>9. QED
  BY <1>6, <1>7, <1>8 DEF NestInv

\* Steps that leave the calls and what Apache has to do alone.
LEMMA NestObjects ==
  ASSUME NestInv, UNCHANGED <<last, todo, frames>>,
         \A r \in Requests : object[r] = None => object'[r] = None
  PROVE  NestInv'
BY DEF NestInv, TodoInv, CallsInv, NestedInv

LEMMA NestStep == ASSUME ChainInv, NestInv, [Next]_vars PROVE NestInv'
<1>1. ASSUME SkipPhase PROVE NestInv'
  <2>1. /\ todo[last] # <<>> /\ todo' = [todo EXCEPT ![last] = Tail(@)]
        /\ UNCHANGED <<last, frames, object>>
    BY <1>1 DEF SkipPhase, outputVars
  <2>2. TodoInv'
    BY <2>1, TailFacts DEF NestInv, TodoInv
  <2>3. CallsInv'
    BY <2>1, TailFacts, CallFacts DEF CallsInv
  <2>4. NestedInv'
    BY <2>1 DEF NestInv, NestedInv
  <2>5. QED
    BY <2>2, <2>3, <2>4 DEF NestInv
<1>2. ASSUME NextHandler PROVE NestInv'
  <2> DEFINE f == [Top EXCEPT !.at = "running", !.i = @ + 1, !.overdue = FALSE]
  <2>1. /\ frames # <<>> /\ Top.i < Top.n /\ frames' = [frames EXCEPT ![Depth] = f]
        /\ UNCHANGED <<last, todo, object>>
    BY <1>2 DEF NextHandler, More, outputVars
  <2>2. f \in Frame /\ f.req = Top.req /\ f.phase = Top.phase /\ f.at = "running"
    <3>1. Top.i + 1 \in 1..MaxHandlers
      BY <2>1, InnermostFacts, ResponseAssumption DEF Frame
    <3>2. QED
      BY <2>1, <3>1, InnermostFacts DEF Frame
  <2> HIDE DEF f
  <2>3. QED
    BY <2>1, <2>2, InnermostFacts, CallStep
<1>3. ASSUME NEW ret \in Results, HandlerReturns(ret) PROVE NestInv'
  <2> DEFINE f == [Top EXCEPT !.at = "returned", !.ret = ret]
  <2>1. /\ frames # <<>> /\ (Top.req = last \/ todo[last] = <<>>)
        /\ frames' = [frames EXCEPT ![Depth] = f] /\ UNCHANGED <<last, todo, object>>
    BY <1>3 DEF HandlerReturns, Executing, Top, outputVars
  <2>2. f \in Frame /\ f.req = Top.req /\ f.phase = Top.phase
    BY <2>1, InnermostFacts DEF Frame
  <2> HIDE DEF f
  <2>3. QED
    BY <2>1, <2>2, InnermostFacts, CallStep
<1>4. ASSUME NEW d \in 1..MaxRequests, TimeoutRaises(d) PROVE NestInv'
  <2> DEFINE f == [Top EXCEPT !.at = "returned", !.ret = "error"]
  <2>1. /\ frames # <<>> /\ UNCHANGED <<last, todo, object>>
        /\ Top.at = "returned" \/ Top.req = last \/ todo[last] = <<>>
    <3>1. d \in 1..Len(frames)
      BY <1>4 DEF TimeoutRaises, Depth
    <3>2. QED
      BY <1>4, <3>1 DEF TimeoutRaises, Executing, outputVars
  <2>2. frames' = [frames EXCEPT ![Depth] = f]
    <3>1. frames' = [frames EXCEPT ![Depth].at = "returned", ![Depth].ret = "error"]
      BY <1>4 DEF TimeoutRaises
    <3>2. QED
      BY <2>1, <3>1, InnermostFacts DEF ChainInv, TypeOK
  <2>3. f \in Frame /\ f.req = Top.req /\ f.phase = Top.phase
    BY <2>1, InnermostFacts DEF Frame, Results
  <2> HIDE DEF f
  <2>4. Top.req = last \/ todo[last] = <<>>
    BY <2>1, InnermostFacts, CallFacts
  <2>5. QED
    BY <2>1, <2>2, <2>3, <2>4, InnermostFacts, CallStep
<1>5. ASSUME NEW d \in 1..MaxRequests, TimePasses(d) PROVE NestInv'
  <2> DEFINE f == [frames[d] EXCEPT !.overdue = TRUE]
  <2>1. /\ d \in 1..Len(frames) /\ frames' = [frames EXCEPT ![d] = f]
        /\ frames[d].at = "running" /\ UNCHANGED <<last, todo, object>>
    BY <1>5 DEF TimePasses, Depth, outputVars
  <2>2. f \in Frame /\ f.req = frames[d].req /\ f.phase = frames[d].phase /\ f.at = "running"
    BY <2>1, CallFacts DEF Frame
  <2> HIDE DEF f
  <2>3. QED
    BY <2>1, <2>2, CallStep
<1>6. ASSUME \/ Write
             \/ Cancel
             \/ \E header, output \in BOOLEAN : SetSync(header, output)
             \/ SendHttpHeader
             \/ \E isFile \in BOOLEAN : SendFd(isFile)
      PROVE  NestInv'
  <2>1. frames # <<>>
    BY <1>6 DEF Write, Cancel, SetSync, SendHttpHeader, SendFd, Executing
  <2>2. Top.req \in Requests /\ object[Top.req] # None
    BY <2>1, TopFacts, NoneAssumption DEF Own
  <2>3. UNCHANGED <<last, todo, frames>> /\ \A r \in Requests : r # Top.req => object'[r] = object[r]
    BY <1>6, CallFacts DEF Write, Cancel, SetSync, SendHttpHeader, SendFd
  <2>4. QED
    BY <2>2, <2>3, NestObjects
<1>7. CASE StartThread \/ Served \/ UNCHANGED vars
  BY <1>7, NestObjects DEF StartThread, Served, vars, outputVars
<1>8. QED
  BY <1>1, <1>2, <1>3, <1>4, <1>5, <1>6, <1>7, NestBeginPhase, NestPhaseEnds, NestRedirect
  DEF Next, CodeStep, HandlerStep, Timeouts

(***************************************************************************)
(* Objects and what was sent, of handlers that ask sent_http_header? first *)
(* and set the modes before they write.                                    *)
(***************************************************************************)

Exists(r) == object[r] # None

HasBody(r) == \E i \in 1..Len(client) : IsBody(client[i], r)

\* Items belong to objects; the bodies of a request go up to the last one
\* that was written, and only they are in its buffer.
ItemInv ==
  /\ \A i \in 1..Len(client) :
       /\ client[i][2] \in Requests /\ Exists(client[i][2])
       /\ client[i][1] = "body" => client[i][3] <= written
  /\ \A r \in Requests : Exists(r) =>
       \A i \in 1..Len(object[r].outbuf) :
         IsBody(object[r].outbuf[i], r) /\ object[r].outbuf[i][3] <= written

\* The flags tell what was sent.
FlagInv ==
  /\ \A i \in 1..Len(client) : client[i][1] = "header" => object[client[i][2]].sent_header
  /\ \A r \in Requests : Exists(r) =>
       /\ object[r].sent_header => ~ object[r].header_pending
       /\ object[r].sync_output => object[r].outbuf = <<>>

\* A body that was sent without sync_output was flushed by the content phase
\* of the last request, after which none of its handlers runs any more.
FlushedInv ==
  \A r \in Requests : Exists(r) /\ ~ object[r].sync_output /\ HasBody(r) =>
    /\ ~ object[r].header_pending
    /\ todo[r] = <<>>
    /\ \A d \in 1..Len(frames) : frames[d].req # r

OutputInvs == ItemInv /\ FlagInv /\ FlushedInv /\ HeaderOnce /\ InOrder /\ HeaderFirst

\* Of the items of s, the bodies of r stand in the order they were written.
Ascending(r, s) ==
  \A i, j \in 1..Len(s) : i < j /\ IsBody(s[i], r) /\ IsBody(s[j], r) => s[i][3] < s[j][3]

LEMMA AscendingPrefix ==
  ASSUME NEW r, NEW s \in Seq(Items), NEW t \in Seq(Items), Ascending(r, s \o t)
  PROVE  Ascending(r, s)
<1>1. Len(s) \in Nat /\ Len(t) \in Nat
  BY LenProperties
<1>2. Len(s \o t) = Len(s) + Len(t) /\ \A i \in 1..Len(s) : i \in 1..Len(s \o t) /\ (s \o t)[i] = s[i]
  BY <1>1, ConcatProperties
<1>3. QED
  BY <1>2 DEF Ascending

\* Items that are no bodies of r make no difference.
LEMMA AscendingInsert ==
  ASSUME NEW r, NEW s \in Seq(Items), NEW t \in Seq(Items), NEW new \in Seq(Items),
         Ascending(r, s \o t), \A i \in 1..Len(new) : ~ IsBody(new[i], r)
  PROVE  Ascending(r, (s \o new) \o t)
<1> DEFINE out == (s \o new) \o t
           From(i) == IF i <= Len(s) THEN i ELSE i - Len(new)
<1>1. Len(s) \in Nat /\ Len(t) \in Nat /\ Len(new) \in Nat
  BY LenProperties
<1>2. /\ Len(s \o t) = Len(s) + Len(t)
      /\ \A i \in 1..(Len(s) + Len(t)) : (s \o t)[i] = IF i <= Len(s) THEN s[i] ELSE t[i - Len(s)]
  BY ConcatProperties
<1>3. /\ s \o new \in Seq(Items) /\ Len(s \o new) = Len(s) + Len(new)
      /\ \A i \in 1..(Len(s) + Len(new)) : (s \o new)[i] = IF i <= Len(s) THEN s[i] ELSE new[i - Len(s)]
  BY ConcatProperties
<1>4. /\ Len(out) = Len(s) + Len(new) + Len(t)
      /\ \A i \in 1..(Len(s) + Len(new) + Len(t)) :
           out[i] = IF i <= Len(s) + Len(new) THEN (s \o new)[i] ELSE t[i - (Len(s) + Len(new))]
  BY <1>3, ConcatProperties
<1>5. ASSUME NEW i \in 1..Len(out), IsBody(out[i], r)
      PROVE  From(i) \in 1..Len(s \o t) /\ (s \o t)[From(i)] = out[i] /\ ~ (i > Len(s) /\ i <= Len(s) + Len(new))
  <2>1. ~ (i > Len(s) /\ i <= Len(s) + Len(new))
    <3>1. ASSUME i > Len(s), i <= Len(s) + Len(new) PROVE FALSE
      <4>1. i - Len(s) \in 1..Len(new) /\ out[i] = new[i - Len(s)]
        BY <1>1, <1>3, <1>4, <1>5, <3>1
      <4>2. QED
        BY <4>1, <1>5
    <3>2. QED
      BY <3>1
  <2>2. CASE i <= Len(s)
    BY <1>1, <1>2, <1>3, <1>4, <2>2
  <2>3. CASE i > Len(s) + Len(new)
    <3>1. /\ i - Len(new) \in 1..(Len(s) + Len(t)) /\ ~ (i - Len(new) <= Len(s)) /\ ~ (i <= Len(s))
          /\ (i - Len(new)) - Len(s) = i - (Len(s) + Len(new))
      BY <1>1, <1>4, <2>3
    <3>2. QED
      BY <1>1, <1>2, <1>4, <2>3, <3>1
  <2>4. QED
    BY <1>1, <1>4, <2>1, <2>2, <2>3
<1>6. ASSUME NEW i \in 1..Len(out), NEW j \in 1..Len(out), i < j, IsBody(out[i], r), IsBody(out[j], r)
      PROVE  out[i][3] < out[j][3]
  <2>1. From(i) < From(j)
    BY <1>1, <1>4, <1>5, <1>6
  <2> HIDE DEF From, out
  <2>2. QED
    BY <1>5, <1>6, <2>1 DEF Ascending
<1>7. QED
  BY <1>6 DEF Ascending

\* A body written later goes last.
LEMMA AscendingAppend ==
  ASSUME NEW r, NEW s \in Seq(Items), NEW x \in Items, Ascending(r, s),
         \A i \in 1..Len(s) : IsBody(s[i], r) => s[i][3] < x[3]
  PROVE  Ascending(r, Append(s, x))
<1>1. /\ Len(s) \in Nat /\ Len(Append(s, x)) = Len(s) + 1 /\ Append(s, x)[Len(s) + 1] = x
      /\ \A i \in 1..Len(s) : Append(s, x)[i] = s[i]
  BY AppendProperties, LenProperties
<1>2. QED
  BY <1>1 DEF Ascending

\* new may be sent, by a request whose object is o from then on, when w strings
\* have been written.
Sendable(r, o, new, w) ==
  /\ o \in Object /\ new \in Seq(Items)
  /\ \A i \in 1..Len(new) :
       /\ new[i][2] = r
       /\ new[i][1] = "body" => new[i][3] <= w
       /\ new[i][1] = "header" => i = 1 /\ ~ object[r].sent_header /\ o.sent_header
  /\ \A i \in 1..Len(o.outbuf) : IsBody(o.outbuf[i], r) /\ o.outbuf[i][3] <= w
  /\ object[r].sent_header => o.sent_header
  /\ o.sent_header => ~ o.header_pending
  /\ o.sync_output => o.outbuf = <<>>
  /\ Ascending(r, (client \o new) \o o.outbuf)
  /\ ~ o.sync_output /\ HasBody(r) =>
       ~ object[r].sync_output /\ \A i \in 1..Len(new) : new[i][1] # "header"

\* A step that sends items of one request.
LEMMA Sends ==
  ASSUME ChainInv, OutputInvs, NEW r \in Requests, Exists(r), NEW o, NEW new,
         Sendable(r, o, new, written'),
         \A q \in Requests : object'[q] = IF q = r THEN o ELSE object[q],
         client' = client \o new,
         written' \in Nat, written <= written',
         ~ o.sync_output /\ (HasBody(r) \/ \E i \in 1..Len(new) : new[i][1] = "body") =>
           ~ o.header_pending /\ todo'[r] = <<>> /\ \A d \in 1..Len(frames') : frames'[d].req # r,
         \A q \in Requests : todo[q] = <<>> => todo'[q] = <<>>,
         \A q \in Requests : (\A d \in 1..Len(frames) : frames[d].req # q) =>
           \A d \in 1..Len(frames') : frames'[d].req # q
  PROVE  OutputInvs'
<1> USE DEF Sendable
<1>0. /\ client \in Seq(Items) /\ Len(client) \in Nat /\ Len(new) \in Nat /\ written \in Nat
      /\ object \in [Requests -> Object \cup {None}]
  BY LenProperties, ResponseAssumption DEF ChainInv, TypeOK
<1>1. /\ client' \in Seq(Items) /\ Len(client') = Len(client) + Len(new)
      /\ \A i \in 1..Len(client) : i \in 1..Len(client') /\ client'[i] = client[i]
      /\ \A i \in 1..Len(client') :
           \/ i \in 1..Len(client) /\ client'[i] = client[i]
           \/ /\ i > Len(client) /\ i - Len(client) \in 1..Len(new)
              /\ client'[i] = new[i - Len(client)]
  BY <1>0, ConcatProperties
<1>2. \A q \in Requests : Exists(q)' <=> Exists(q)
  BY NoneAssumption DEF Exists
<1>3. ItemInv'
  <2>1. ASSUME NEW i \in 1..Len(client')
        PROVE  /\ client'[i][2] \in Requests /\ Exists(client'[i][2])
               /\ client'[i][1] = "body" => client'[i][3] <= written'
    <3>1. CASE i \in 1..Len(client) /\ client'[i] = client[i]
      <4>1. /\ client[i][2] \in Requests /\ Exists(client[i][2])
            /\ client[i][1] = "body" => client[i][3] <= written
        BY <3>1 DEF OutputInvs, ItemInv
      <4>2. client[i] \in Items
        BY <1>0, <3>1, ElementOfSeq
      <4>3. client[i][1] = "body" => client[i][3] \in Nat
        BY <4>2, ItemFacts
      <4>4. QED
        BY <1>0, <3>1, <4>1, <4>3
    <3>2. CASE i - Len(client) \in 1..Len(new) /\ client'[i] = new[i - Len(client)]
      BY <3>2
    <3>3. QED
      BY <1>1, <3>1, <3>2
  <2>2. \A i \in 1..Len(client') : object'[client'[i][2]] # None
    BY <2>1, <1>2 DEF Exists
  <2>3. ASSUME NEW q \in Requests, Exists(q), NEW i \in 1..Len(object'[q].outbuf)
        PROVE  IsBody(object'[q].outbuf[i], q) /\ object'[q].outbuf[i][3] <= written'
    <3>1. CASE q = r
      BY <2>3, <3>1
    <3>2. CASE q # r
      <4>1. object'[q] = object[q] /\ i \in 1..Len(object[q].outbuf)
        BY <2>3, <3>2
      <4>2. object[q] \in Object
        BY <1>0, <2>3 DEF Exists
      <4>3. object[q].outbuf[i] \in Items
        BY <4>1, <4>2, ElementOfSeq DEF Object
      <4>4. IsBody(object[q].outbuf[i], q) /\ object[q].outbuf[i][3] <= written
        BY <2>3, <4>1 DEF OutputInvs, ItemInv
      <4>5. object[q].outbuf[i][3] \in Nat
        BY <4>3, <4>4, ItemFacts DEF IsBody
      <4>6. QED
        BY <1>0, <4>1, <4>4, <4>5
    <3>3. QED
      BY <3>1, <3>2
  <2>4. QED
    BY <1>2, <2>1, <2>2, <2>3 DEF ItemInv, Exists
<1>4. FlagInv'
  <2>1. ASSUME NEW i \in 1..Len(client'), client'[i][1] = "header"
        PROVE  object'[client'[i][2]].sent_header
    <3>1. CASE i \in 1..Len(client) /\ client'[i] = client[i]
      BY <2>1, <3>1 DEF OutputInvs, ItemInv, FlagInv
    <3>2. CASE i - Len(client) \in 1..Len(new) /\ client'[i] = new[i - Len(client)]
      BY <2>1, <3>2
    <3>3. QED
      BY <1>1, <3>1, <3>2
  <2>2. ASSUME NEW q \in Requests, Exists(q)
        PROVE  /\ object'[q].sent_header => ~ object'[q].header_pending
               /\ object'[q].sync_output => object'[q].outbuf = <<>>
    <3>1. CASE q = r
      BY <3>1
    <3>2. CASE q # r
      BY <2>2, <3>2 DEF OutputInvs, FlagInv
    <3>3. QED
      BY <3>1, <3>2
  <2>3. QED
    BY <1>2, <2>1, <2>2 DEF FlagInv
<1>5. FlushedInv'
  <2>1. ASSUME NEW q \in Requests, Exists(q), ~ object'[q].sync_output, HasBody(q)'
        PROVE  /\ ~ object'[q].header_pending /\ todo'[q] = <<>>
               /\ \A d \in 1..Len(frames') : frames'[d].req # q
    <3>1. PICK i \in 1..Len(client') : IsBody(client'[i], q)
      BY <2>1 DEF HasBody
    <3>2. HasBody(q) \/ (q = r /\ \E j \in 1..Len(new) : new[j][1] = "body")
      BY <1>1, <3>1 DEF HasBody, IsBody
    <3>3. CASE q = r
      BY <2>1, <3>2, <3>3
    <3>4. CASE q # r
      <4>1. /\ ~ object[q].header_pending /\ todo[q] = <<>>
            /\ \A d \in 1..Len(frames) : frames[d].req # q
        BY <2>1, <3>2, <3>4 DEF OutputInvs, FlushedInv
      <4>2. object'[q] = object[q] /\ todo'[q] = <<>>
        BY <3>4, <4>1
      <4>3. \A d \in 1..Len(frames') : frames'[d].req # q
        BY <4>1
      <4>4. QED
        BY <4>1, <4>2, <4>3
    <3>5. QED
      BY <3>3, <3>4
  <2>2. QED
    BY <1>2, <2>1 DEF FlushedInv
<1>6. HeaderOnce'
  <2>1. ASSUME NEW q \in Requests, NEW i \in 1..Len(client'), client'[i] = Header(q)
        PROVE  \/ i \in 1..Len(client) /\ client[i] = Header(q) /\ object[q].sent_header
               \/ q = r /\ i = Len(client) + 1 /\ ~ object[r].sent_header
    <3>1. client'[i][1] = "header" /\ client'[i][2] = q
      BY <2>1, ItemFacts
    <3>2. CASE i \in 1..Len(client) /\ client'[i] = client[i]
      BY <2>1, <3>1, <3>2 DEF OutputInvs, FlagInv
    <3>3. CASE i - Len(client) \in 1..Len(new) /\ client'[i] = new[i - Len(client)]
      <4>1. i - Len(client) = 1 /\ q = r /\ ~ object[r].sent_header
        BY <3>1, <3>3
      <4>2. QED
        BY <1>0, <1>1, <4>1
    <3>4. QED
      BY <1>1, <3>2, <3>3
  <2>2. ASSUME NEW q \in Requests, NEW i \in 1..Len(client'), NEW j \in 1..Len(client'),
               client'[i] = Header(q), client'[j] = Header(q)
        PROVE  i = j
    <3>1. \A k \in 1..Len(client), l \in 1..Len(client) :
            client[k] = Header(q) /\ client[l] = Header(q) => k = l
      BY DEF OutputInvs, HeaderOnce, Sent
    <3>2. QED
      BY <2>1, <2>2, <3>1
  <2>3. QED
    BY <2>2 DEF HeaderOnce, Sent
<1>7. InOrder'
  <2>1. ASSUME NEW q \in Requests, Exists(q) PROVE Ascending(q, client' \o object'[q].outbuf)
    <3>1. CASE q = r
      BY <3>1
    <3>2. CASE q # r
      <4>1. object'[q] = object[q] /\ object[q].outbuf \in Seq(Items)
        BY <1>0, <2>1, <3>2 DEF Exists, Object
      <4>2. Ascending(q, client \o object[q].outbuf)
        BY <2>1 DEF OutputInvs, InOrder, Ascending, Exists
      <4>3. \A i \in 1..Len(new) : ~ IsBody(new[i], q)
        BY <3>2 DEF IsBody
      <4>4. QED
        BY <1>0, <4>1, <4>2, <4>3, AscendingInsert
    <3>3. QED
      BY <3>1, <3>2
  <2>2. QED
    BY <1>2, <2>1 DEF InOrder, Ascending, Exists
<1>8. HeaderFirst'
  <2>1. ASSUME NEW q \in Requests, NEW j \in 1..Len(client'), client'[j] = Header(q),
               NEW i \in 1..(j - 1), IsBody(client'[i], q)
        PROVE  object'[q].sync_output
    <3>1. client'[j][1] = "header" /\ client'[j][2] = q /\ i \in 1..Len(client')
      BY <1>0, <1>1, <2>1, ItemFacts
    <3>2. CASE j \in 1..Len(client) /\ client'[j] = client[j]
      <4>1. i \in 1..Len(client) /\ IsBody(client[i], q)
        BY <1>0, <1>1, <2>1, <3>2
      <4>2. object[q].sync_output /\ HasBody(q)
        BY <2>1, <3>2, <4>1 DEF OutputInvs, HeaderFirst, Sent, HasBody
      <4>3. QED
        BY <4>2
    <3>3. CASE j - Len(client) \in 1..Len(new) /\ client'[j] = new[j - Len(client)]
      <4>1. j - Len(client) = 1 /\ q = r /\ \E k \in 1..Len(new) : new[k][1] = "header"
        BY <3>1, <3>3
      <4>2. i \in 1..Len(client)
        BY <1>0, <1>1, <4>1
      <4>3. HasBody(r)
        BY <1>1, <2>1, <4>1, <4>2 DEF HasBody
      <4>4. QED
        BY <4>1, <4>3
    <3>4. QED
      BY <1>1, <3>2, <3>3
  <2>2. QED
    BY <2>1 DEF HeaderFirst, Sent
<1>9. QED
  BY <1>3, <1>4, <1>5, <1>6, <1>7, <1>8 DEF OutputInvs

\* A step that sends nothing; objects may be made.
LEMMA Quiet ==
  ASSUME ChainInv, OutputInvs, UNCHANGED <<client, written>>,
         \A q \in Requests :
           \/ object'[q] = object[q]
           \/ /\ object[q] = None
              /\ ~ object'[q].sent_header /\ ~ object'[q].header_pending
              /\ object'[q].outbuf = <<>>,
         \A q \in Requests :
           Exists(q) /\ todo[q] = <<>> /\ (\A d \in 1..Len(frames) : frames[d].req # q) =>
             todo'[q] = <<>> /\ \A d \in 1..Len(frames') : frames'[d].req # q
  PROVE  OutputInvs'
<1>1. \A q \in Requests : Exists(q) => object'[q] = object[q]
  BY DEF Exists
<1>2. \A i \in 1..Len(client) : client[i][2] \in Requests /\ object'[client[i][2]] = object[client[i][2]]
  BY <1>1 DEF OutputInvs, ItemInv
<1>3. \A q \in Requests : HasBody(q) => Exists(q)
  BY DEF HasBody, IsBody, OutputInvs, ItemInv
<1>4. \A q \in Requests : ~ Exists(q) =>
        \/ object'[q] = object[q]
        \/ ~ object'[q].sent_header /\ ~ object'[q].header_pending /\ object'[q].outbuf = <<>>
  BY DEF Exists
<1>5. ItemInv'
  <2>1. \A i \in 1..Len(client) : object'[client[i][2]] # None
    BY <1>2 DEF OutputInvs, ItemInv, Exists
  <2>2. \A q \in Requests : object'[q] # None => \A i \in 1..Len(object'[q].outbuf) :
          IsBody(object'[q].outbuf[i], q) /\ object'[q].outbuf[i][3] <= written
    BY <1>1, <1>4, EmptySeq DEF OutputInvs, ItemInv, Exists
  <2>3. QED
    BY <2>1, <2>2 DEF OutputInvs, ItemInv, Exists
<1>6. FlagInv'
  <2>1. \A i \in 1..Len(client) : client[i][1] = "header" => object'[client[i][2]].sent_header
    BY <1>2 DEF OutputInvs, FlagInv
  <2>2. \A q \in Requests : object'[q] # None =>
          /\ object'[q].sent_header => ~ object'[q].header_pending
          /\ object'[q].sync_output => object'[q].outbuf = <<>>
    BY <1>1, <1>4 DEF OutputInvs, FlagInv, Exists
  <2>3. QED
    BY <2>1, <2>2 DEF FlagInv, Exists
<1>7. FlushedInv'
  <2>1. \A q \in Requests : HasBody(q)' <=> HasBody(q)
    BY DEF HasBody
  <2>2. \A q \in Requests : HasBody(q) /\ ~ object'[q].sync_output =>
          ~ object'[q].header_pending /\ todo'[q] = <<>> /\ \A d \in 1..Len(frames') : frames'[d].req # q
    BY <1>1, <1>3 DEF OutputInvs, FlushedInv
  <2>3. QED
    BY <2>1, <2>2 DEF FlushedInv
<1>8. HeaderOnce'
  BY DEF OutputInvs, HeaderOnce, Sent
<1>9. InOrder'
  <2>1. ASSUME NEW q \in Requests, object'[q] # None PROVE Ascending(q, client \o object'[q].outbuf)
    <3>1. CASE Exists(q)
      BY <1>1, <3>1 DEF OutputInvs, InOrder, Ascending, Exists
    <3>2. CASE ~ Exists(q)
      <4>1. client \o object'[q].outbuf = client
        BY <1>4, <2>1, <3>2, ConcatEmptySeq DEF ChainInv, TypeOK, Exists
      <4>2. ~ HasBody(q)
        BY <1>3, <3>2
      <4>3. QED
        BY <4>1, <4>2 DEF Ascending, HasBody
    <3>3. QED
      BY <3>1, <3>2
  <2>2. QED
    BY <2>1 DEF InOrder, Ascending
<1>10. HeaderFirst'
  <2>1. ASSUME NEW q \in Requests, NEW j \in Sent(Header(q)),
               \E i \in 1..(j - 1) : IsBody(client[i], q)
        PROVE  object'[q].sync_output
    <3>1. object[q].sync_output
      BY <2>1 DEF OutputInvs, HeaderFirst
    <3>2. j \in 1..Len(client) /\ client[j][2] = q
      BY <2>1, ItemFacts DEF Sent
    <3>3. QED
      BY <1>2, <3>1, <3>2
  <2>2. QED
    BY <2>1 DEF HeaderFirst, Sent
<1>11. QED
  BY <1>5, <1>6, <1>7, <1>8, <1>9, <1>10 DEF OutputInvs

\* The object of a running handler's request.
LEMMA OwnFacts ==
  ASSUME ChainInv, OutputInvs, frames # <<>>
  PROVE  /\ Top.req \in Requests /\ Exists(Top.req) /\ Own = object[Top.req] /\ Own \in Object
         /\ Own.outbuf \in Seq(Items) /\ client \in Seq(Items) /\ written \in Nat
         /\ ~ Own.sync_output => ~ HasBody(Top.req)
         /\ Own.sync_output => Own.outbuf = <<>>
         /\ Own.sent_header => ~ Own.header_pending
         /\ Ascending(Top.req, client \o Own.outbuf)
         /\ \A i \in 1..Len(Own.outbuf) : IsBody(Own.outbuf[i], Top.req) /\ Own.outbuf[i][3] <= written
         /\ \A i \in 1..Len(client) : IsBody(client[i], Top.req) => client[i][3] <= written
<1>1. /\ Top.req \in Requests /\ Exists(Top.req) /\ Own = object[Top.req] /\ Own \in Object
      /\ Own.outbuf \in Seq(Items) /\ client \in Seq(Items) /\ written \in Nat
  BY TopFacts, NoneAssumption, ResponseAssumption DEF Own, Exists, Object, ChainInv, TypeOK
<1>2. ~ Own.sync_output => ~ HasBody(Top.req)
  <2>1. Depth \in 1..Len(frames) /\ frames[Depth].req = Top.req
    BY TopFacts DEF Top
  <2>2. QED
    BY <1>1, <2>1 DEF OutputInvs, FlushedInv
<1>3. /\ Own.sync_output => Own.outbuf = <<>>
      /\ Own.sent_header => ~ Own.header_pending
  BY <1>1 DEF OutputInvs, FlagInv
<1>4. Ascending(Top.req, client \o Own.outbuf)
  BY <1>1 DEF OutputInvs, InOrder, Ascending, Exists
<1>5. \A i \in 1..Len(Own.outbuf) : IsBody(Own.outbuf[i], Top.req) /\ Own.outbuf[i][3] <= written
  BY <1>1 DEF OutputInvs, ItemInv
<1>6. \A i \in 1..Len(client) : IsBody(client[i], Top.req) => client[i][3] <= written
  BY DEF OutputInvs, ItemInv, IsBody
<1>7. QED
  BY <1>1, <1>2, <1>3, <1>4, <1>5, <1>6

\* What a flush sends.
LEMMA FlushFacts ==
  ASSUME NEW r \in Requests, NEW o \in Object, NEW s \in Seq(Items),
         \A i \in 1..Len(o.outbuf) : IsBody(o.outbuf[i], r),
         Ascending(r, s \o o.outbuf)
  PROVE  /\ \A i \in 1..Len(FlushedItems(r, o)) :
              /\ FlushedItems(r, o)[i][2] = r
              /\ FlushedItems(r, o)[i][1] = "header" => i = 1 /\ o.header_pending
              /\ FlushedItems(r, o)[i][1] = "body" =>
                   \E k \in 1..Len(o.outbuf) : FlushedItems(r, o)[i] = o.outbuf[k]
         /\ Ascending(r, s \o FlushedItems(r, o))
<1> DEFINE head == IF o.header_pending THEN <<Header(r)>> ELSE <<>>
           rest == IF header_only /\ (o.header_pending \/ o.sent_header) THEN <<>> ELSE o.outbuf
           new == head \o rest
<1>1. new = FlushedItems(r, o)
  BY DEF FlushedItems
<1>2. o.outbuf \in Seq(Items) /\ Header(r) \in Items
  BY ItemTypes DEF Object
<1>3. /\ head \in Seq(Items) /\ Len(head) \in {0, 1}
      /\ \A i \in 1..Len(head) : i = 1 /\ head[i] = Header(r) /\ o.header_pending
  BY <1>2
<1>4. /\ rest \in Seq(Items) /\ Len(rest) \in Nat
      /\ rest = <<>> \/ rest = o.outbuf
      /\ \A i \in 1..Len(rest) : IsBody(rest[i], r) /\ \E k \in 1..Len(o.outbuf) : rest[i] = o.outbuf[k]
  BY <1>2, LenProperties
<1>5. ASSUME NEW i \in 1..Len(new)
      PROVE  /\ new[i][2] = r
             /\ new[i][1] = "header" => i = 1 /\ o.header_pending
             /\ new[i][1] = "body" => \E k \in 1..Len(o.outbuf) : new[i] = o.outbuf[k]
  <2> HIDE DEF head, rest
  <2>1. \/ i \in 1..Len(head) /\ new[i] = head[i]
        \/ i - Len(head) \in 1..Len(rest) /\ new[i] = rest[i - Len(head)]
    BY <1>3, <1>4, ConcatProperties
  <2>2. CASE i \in 1..Len(head) /\ new[i] = head[i]
    BY <1>3, <2>2, ItemFacts
  <2>3. CASE i - Len(head) \in 1..Len(rest) /\ new[i] = rest[i - Len(head)]
    BY <1>4, <2>3 DEF IsBody
  <2>4. QED
    BY <2>1, <2>2, <2>3
<1>6. Ascending(r, s \o new)
  <2>1. \A i \in 1..Len(head) : ~ IsBody(head[i], r)
    BY <1>3, ItemFacts DEF IsBody
  <2>2. Ascending(r, s \o rest)
    <3>1. CASE rest = o.outbuf
      BY <3>1
    <3>2. CASE rest = <<>>
      <4>1. Ascending(r, s)
        BY <1>2, AscendingPrefix
      <4>2. s \o rest = s
        BY <3>2, ConcatEmptySeq
      <4>3. QED
        BY <4>1, <4>2
    <3>3. QED
      BY <1>4, <3>1, <3>2
  <2> HIDE DEF head, rest
  <2>3. Ascending(r, (s \o head) \o rest)
    BY <1>3, <1>4, <2>1, <2>2, AscendingInsert
  <2>4. (s \o head) \o rest = s \o new
    <3>1. head \in Seq(Items) /\ rest \in Seq(Items)
      BY <1>3, <1>4
    <3>2. (s \o head) \o rest = s \o (head \o rest)
      BY <3>1, ConcatAssociative
    <3>3. QED
      BY <3>2
  <2>5. QED
    BY <2>3, <2>4
<1> HIDE DEF new
<1>7. QED
  BY <1>1, <1>5, <1>6

\* A step of a running handler that sends items of its request.
LEMMA OwnSends ==
  ASSUME ChainInv, OutputInvs, frames # <<>>, NEW o, NEW new,
         Sendable(Top.req, o, new, written'),
         object' = [object EXCEPT ![Top.req] = o], client' = client \o new,
         written' \in Nat, written <= written', UNCHANGED <<frames, todo>>,
         ~ o.sync_output => \A i \in 1..Len(new) : new[i][1] # "body",
         ~ o.sync_output => ~ HasBody(Top.req)
  PROVE  OutputInvs'
<1>1. PICK r \in Requests : r = Top.req
  BY OwnFacts
<1>2. Exists(r) /\ Sendable(r, o, new, written')
  BY <1>1, OwnFacts
<1>3. \A q \in Requests : object'[q] = IF q = r THEN o ELSE object[q]
  BY <1>1 DEF ChainInv, TypeOK
<1>4. ~ o.sync_output /\ (HasBody(r) \/ \E i \in 1..Len(new) : new[i][1] = "body") =>
        ~ o.header_pending /\ todo'[r] = <<>> /\ \A d \in 1..Len(frames') : frames'[d].req # r
  BY <1>1
<1>5. /\ \A q \in Requests : todo[q] = <<>> => todo'[q] = <<>>
      /\ \A q \in Requests : (\A d \in 1..Len(frames) : frames[d].req # q) =>
           \A d \in 1..Len(frames') : frames'[d].req # q
  OBVIOUS
<1>6. QED
  BY <1>2, <1>3, <1>4, <1>5, Sends

LEMMA AppendInside ==
  ASSUME NEW s \in Seq(Items), NEW t \in Seq(Items), NEW e \in Items
  PROVE  Append(s \o t, e) = s \o Append(t, e)
<1>1. s \o t \in Seq(Items) /\ <<e>> \in Seq(Items)
  BY ConcatProperties
<1>2. Append(s \o t, e) = (s \o t) \o <<e>> /\ Append(t, e) = t \o <<e>>
  BY <1>1, AppendIsConcat
<1>3. (s \o t) \o <<e>> = s \o (t \o <<e>>)
  BY <1>1, ConcatAssociative
<1>4. QED
  BY <1>2, <1>3

LEMMA WriteOutput == ASSUME ChainInv, OutputInvs, Write PROVE OutputInvs'
<1> DEFINE str == Body(Top.req, written + 1)
           buffered == [Own EXCEPT !.outbuf = Append(@, str)]
<1>1. /\ frames # <<>> /\ written < MaxWrites /\ written' = written + 1
      /\ UNCHANGED <<frames, todo>>
  BY DEF Write, Executing
<1>2. str \in Items /\ str[1] = "body" /\ str[2] = Top.req /\ str[3] = written + 1
  <2>1. written + 1 \in 1..MaxWrites
    BY <1>1, ResponseAssumption DEF ChainInv, TypeOK
  <2>2. QED
    BY <1>1, <2>1, TopFacts, ItemTypes, ItemFacts
<1>3. written \in Nat /\ written' \in Nat /\ written <= written'
  BY <1>1, OwnFacts
<1> HIDE DEF str
<1>4. CASE Own.sync_output
  <2>1. object' = [object EXCEPT ![Top.req] = Own]
    BY <1>1, <1>4, OwnFacts DEF Write, ChainInv, TypeOK
  <2>2. Own.outbuf = <<>>
    BY <1>1, <1>4, OwnFacts
  <2>3. Ascending(Top.req, client)
    BY <1>1, <2>2, OwnFacts, ConcatEmptySeq
  <2>4. CASE client' = client
    <3>1. client' = client \o <<>> /\ (client \o <<>>) \o Own.outbuf = client
      BY <1>1, <2>2, <2>4, OwnFacts, ConcatEmptySeq
    <3>2. <<>> \in Seq(Items) /\ Len(<<>>) = 0
      OBVIOUS
    <3>3. \A i \in 1..Len(Own.outbuf) : IsBody(Own.outbuf[i], Top.req) /\ Own.outbuf[i][3] <= written'
      BY <2>2
    <3>4. Sendable(Top.req, Own, <<>>, written')
      BY <1>1, <1>4, <2>2, <2>3, <3>1, <3>2, <3>3, OwnFacts DEF Sendable
    <3>5. QED
      BY <1>1, <1>3, <1>4, <2>1, <3>1, <3>4, OwnSends
  <2>5. CASE client' = Append(client, str)
    <3>1. client' = client \o <<str>> /\ (client \o <<str>>) \o Own.outbuf = Append(client, str)
      BY <1>1, <1>2, <2>2, <2>5, OwnFacts, AppendIsConcat, ConcatEmptySeq, AppendProperties
    <3>2. Ascending(Top.req, Append(client, str))
      <4>1. \A i \in 1..Len(client) : client[i] \in Items
        BY <1>1, OwnFacts, ElementOfSeq
      <4>2. \A i \in 1..Len(client) : IsBody(client[i], Top.req) => client[i][3] < str[3]
        BY <1>1, <1>2, <4>1, OwnFacts, ItemFacts DEF IsBody
      <4>3. QED
        BY <1>1, <1>2, <2>3, <4>2, OwnFacts, AscendingAppend
    <3>3. /\ <<str>> \in Seq(Items)
          /\ \A i \in 1..Len(<<str>>) :
               /\ <<str>>[i][2] = Top.req
               /\ <<str>>[i][1] = "body" => <<str>>[i][3] <= written'
               /\ <<str>>[i][1] = "header" => i = 1 /\ ~ Own.sent_header /\ Own.sent_header
      BY <1>1, <1>2, <1>3
    <3>4. \A i \in 1..Len(Own.outbuf) : IsBody(Own.outbuf[i], Top.req) /\ Own.outbuf[i][3] <= written'
      BY <2>2
    <3>5. Sendable(Top.req, Own, <<str>>, written')
      BY <1>1, <1>4, <2>2, <3>1, <3>2, <3>3, <3>4, OwnFacts DEF Sendable
    <3>6. QED
      BY <1>1, <1>3, <1>4, <2>1, <3>1, <3>5, OwnSends
  <2>6. client' = client \/ client' = Append(client, str)
    BY <1>4, Zenon DEF Write, str
  <2>7. QED
    BY <2>4, <2>5, <2>6
<1>5. CASE ~ Own.sync_output
  <2>1. object' = [object EXCEPT ![Top.req] = buffered] /\ client' = client
    BY <1>1, <1>5, OwnFacts DEF Write, ChainInv, TypeOK, str
  <2>2. /\ Append(Own.outbuf, str) \in Seq(Items)
        /\ Len(Append(Own.outbuf, str)) = Len(Own.outbuf) + 1 /\ Len(Own.outbuf) \in Nat
        /\ \A i \in 1..Len(Own.outbuf) : Append(Own.outbuf, str)[i] = Own.outbuf[i]
        /\ Append(Own.outbuf, str)[Len(Own.outbuf) + 1] = str
    BY <1>1, <1>2, OwnFacts, AppendProperties, LenProperties
  <2>3. /\ buffered \in Object /\ buffered.outbuf = Append(Own.outbuf, str)
        /\ buffered.sent_header = Own.sent_header /\ buffered.header_pending = Own.header_pending
        /\ buffered.sync_output = Own.sync_output
    BY <1>1, <2>2, OwnFacts DEF Object
  <2> HIDE DEF buffered
  <2>4. \A i \in 1..Len(Own.outbuf) : Own.outbuf[i] \in Items
    BY <1>1, OwnFacts, ElementOfSeq
  <2>5. \A i \in 1..Len(Own.outbuf) :
          IsBody(Own.outbuf[i], Top.req) /\ Own.outbuf[i][3] <= written'
    BY <1>1, <1>3, <2>4, OwnFacts, ItemFacts DEF IsBody
  <2>6. \A i \in 1..Len(buffered.outbuf) :
          IsBody(buffered.outbuf[i], Top.req) /\ buffered.outbuf[i][3] <= written'
    BY <1>1, <1>2, <1>3, <2>2, <2>3, <2>5 DEF IsBody
  <2>7. Ascending(Top.req, client \o Append(Own.outbuf, str))
    <3>1. client \o Own.outbuf \in Seq(Items)
      BY <1>1, OwnFacts, ConcatProperties
    <3>2. \A i \in 1..Len(client \o Own.outbuf) :
            IsBody((client \o Own.outbuf)[i], Top.req) => (client \o Own.outbuf)[i][3] < str[3]
      <4>1. ASSUME NEW i \in 1..Len(client \o Own.outbuf), IsBody((client \o Own.outbuf)[i], Top.req)
            PROVE  (client \o Own.outbuf)[i][3] <= written
        <5>1. \/ i \in 1..Len(client) /\ (client \o Own.outbuf)[i] = client[i]
              \/ /\ i - Len(client) \in 1..Len(Own.outbuf)
                 /\ (client \o Own.outbuf)[i] = Own.outbuf[i - Len(client)]
          BY <1>1, OwnFacts, ConcatProperties, LenProperties
        <5>2. QED
          BY <1>1, <4>1, <5>1, OwnFacts
      <4>2. \A i \in 1..Len(client \o Own.outbuf) : (client \o Own.outbuf)[i] \in Items
        BY <3>1, ElementOfSeq
      <4>3. QED
        BY <1>2, <1>3, <4>1, <4>2, ItemFacts DEF IsBody
    <3>3. Ascending(Top.req, Append(client \o Own.outbuf, str))
      BY <1>1, <1>2, <3>1, <3>2, OwnFacts, AscendingAppend
    <3>4. Append(client \o Own.outbuf, str) = client \o Append(Own.outbuf, str)
      <4>1. client \in Seq(Items) /\ Own.outbuf \in Seq(Items)
        BY <1>1, OwnFacts
      <4>2. QED
        BY <1>2, <4>1, AppendInside
    <3>5. QED
      BY <3>3, <3>4
  <2>8. client' = client \o <<>> /\ client \o <<>> = client
    BY <1>1, <2>1, OwnFacts, ConcatEmptySeq
  <2>9. <<>> \in Seq(Items) /\ Len(<<>>) = 0
    OBVIOUS
  <2>10. Sendable(Top.req, buffered, <<>>, written')
    BY <1>1, <1>5, <2>2, <2>3, <2>6, <2>7, <2>8, <2>9, OwnFacts DEF Sendable
  <2>11. ~ HasBody(Top.req) /\ \A i \in 1..Len(<<>>) : <<>>[i][1] # "body"
    BY <1>1, <1>5, OwnFacts
  <2>12. QED
    BY <1>1, <1>3, <2>1, <2>8, <2>10, <2>11, OwnSends
<1>6. QED
  BY <1>4, <1>5

LEMMA CancelOutput == ASSUME ChainInv, OutputInvs, Cancel PROVE OutputInvs'
<1> DEFINE o == [Own EXCEPT !.outbuf = <<>>]
<1>1. /\ frames # <<>> /\ UNCHANGED <<frames, todo, written, client>>
      /\ object' = [object EXCEPT ![Top.req] = o]
  <2>1. frames # <<>> /\ UNCHANGED <<frames, todo, written, client>>
    BY DEF Cancel, Executing
  <2>2. QED
    BY <2>1, OwnFacts DEF Cancel, ChainInv, TypeOK
<1>2. /\ o \in Object /\ o.outbuf = <<>> /\ o.sent_header = Own.sent_header
      /\ o.header_pending = Own.header_pending /\ o.sync_output = Own.sync_output
  <2>1. Own \in Object /\ <<>> \in Seq(Items)
    BY <1>1, OwnFacts
  <2>2. QED
    BY <2>1 DEF Object
<1> HIDE DEF o
<1>3. Ascending(Top.req, client)
  BY <1>1, OwnFacts, AscendingPrefix
<1>4. client' = client \o <<>> /\ (client \o <<>>) \o o.outbuf = client
  BY <1>1, <1>2, OwnFacts, ConcatEmptySeq
<1>5. <<>> \in Seq(Items) /\ Len(<<>>) = 0
  OBVIOUS
<1>6. Sendable(Top.req, o, <<>>, written')
  BY <1>1, <1>2, <1>3, <1>4, <1>5, OwnFacts DEF Sendable
<1>7. ~ o.sync_output => ~ HasBody(Top.req) /\ \A i \in 1..Len(<<>>) : <<>>[i][1] # "body"
  BY <1>1, <1>2, OwnFacts
<1>8. written' \in Nat /\ written <= written'
  BY <1>1, OwnFacts
<1>9. QED
  BY <1>1, <1>4, <1>6, <1>7, <1>8, OwnSends

LEMMA SetSyncOutput ==
  ASSUME ChainInv, OutputInvs, Careful, NEW header \in BOOLEAN, NEW output \in BOOLEAN,
         SetSync(header, output)
  PROVE  OutputInvs'
<1> DEFINE o == [Own EXCEPT !.sync_header = header, !.sync_output = output]
<1>1. /\ frames # <<>> /\ UNCHANGED <<frames, todo, written, client>>
      /\ Own.outbuf = <<>> /\ \A i \in 1..Len(client) : client[i][2] # Top.req
  BY DEF SetSync, Executing, Untouched, Own
<1>2. object' = [object EXCEPT ![Top.req] = o]
  BY <1>1, OwnFacts DEF SetSync, Own, ChainInv, TypeOK
<1>3. /\ o \in Object /\ o.outbuf = <<>> /\ o.sent_header = Own.sent_header
      /\ o.header_pending = Own.header_pending /\ o.sync_output = output
  BY <1>1, OwnFacts DEF Object
<1> HIDE DEF o
<1>4. Ascending(Top.req, client)
  BY <1>1, OwnFacts, AscendingPrefix
<1>5. client' = client \o <<>> /\ (client \o <<>>) \o o.outbuf = client
  BY <1>1, <1>3, OwnFacts, ConcatEmptySeq
<1>6. <<>> \in Seq(Items) /\ Len(<<>>) = 0
  OBVIOUS
<1>7. ~ HasBody(Top.req)
  BY <1>1 DEF HasBody, IsBody
<1>8. Sendable(Top.req, o, <<>>, written')
  BY <1>1, <1>3, <1>4, <1>5, <1>6, <1>7, OwnFacts DEF Sendable
<1>9. \A i \in 1..Len(<<>>) : <<>>[i][1] # "body"
  BY <1>6
<1>10. written' \in Nat /\ written <= written'
  BY <1>1, OwnFacts
<1>11. QED
  BY <1>1, <1>2, <1>5, <1>7, <1>8, <1>9, <1>10, OwnSends

LEMMA HeaderOutput ==
  ASSUME ChainInv, OutputInvs, Careful, SendHttpHeader PROVE OutputInvs'
<1> DEFINE sent == [Own EXCEPT !.sent_header = TRUE, !.header_pending = FALSE]
           pending == [Own EXCEPT !.header_pending = TRUE]
           hdr == Header(Top.req)
<1>1. /\ frames # <<>> /\ UNCHANGED <<frames, todo, written>>
      /\ ~ Own.sent_header /\ ~ Own.header_pending
  BY DEF SendHttpHeader, Executing, SentHttpHeader
<1>2. written' \in Nat /\ written <= written'
  BY <1>1, OwnFacts
<1>3. hdr \in Items /\ hdr[1] = "header" /\ hdr[2] = Top.req
  BY <1>1, OwnFacts, ItemTypes, ItemFacts
<1>4. /\ sent \in Object /\ sent.outbuf = Own.outbuf /\ sent.sent_header /\ ~ sent.header_pending
      /\ sent.sync_output = Own.sync_output
  BY <1>1, OwnFacts DEF Object
<1>5. /\ pending \in Object /\ pending.outbuf = Own.outbuf /\ ~ pending.sent_header
      /\ pending.sync_output = Own.sync_output
  BY <1>1, OwnFacts DEF Object
<1>6. \A i \in 1..Len(Own.outbuf) : IsBody(Own.outbuf[i], Top.req) /\ Own.outbuf[i][3] <= written'
  BY <1>1, OwnFacts
<1>7. CASE Own.sync_header
  <2>1. client' = Append(client, hdr) /\ object' = [object EXCEPT ![Top.req] = sent]
    BY <1>1, <1>7, OwnFacts DEF SendHttpHeader, Own, ChainInv, TypeOK
  <2> HIDE DEF sent, hdr
  <2>2. client' = client \o <<hdr>>
    BY <1>1, <1>3, <2>1, OwnFacts, AppendIsConcat
  <2>3. /\ <<hdr>> \in Seq(Items) /\ Len(<<hdr>>) = 1
        /\ \A i \in 1..Len(<<hdr>>) :
             i = 1 /\ <<hdr>>[i][2] = Top.req /\ <<hdr>>[i][1] = "header"
                   /\ ~ IsBody(<<hdr>>[i], Top.req)
    BY <1>3 DEF IsBody
  <2>4. Ascending(Top.req, (client \o <<hdr>>) \o Own.outbuf)
    BY <1>1, <2>3, OwnFacts, AscendingInsert
  <2>5. Sendable(Top.req, sent, <<hdr>>, written')
    BY <1>1, <1>4, <1>6, <2>3, <2>4, OwnFacts DEF Sendable
  <2>6. ~ sent.sync_output =>
          ~ HasBody(Top.req) /\ \A i \in 1..Len(<<hdr>>) : <<hdr>>[i][1] # "body"
    BY <1>1, <1>4, <2>3, OwnFacts
  <2>7. QED
    BY <1>1, <1>2, <2>1, <2>2, <2>5, <2>6, OwnSends
<1>8. CASE ~ Own.sync_header
  <2>1. client' = client /\ object' = [object EXCEPT ![Top.req] = pending]
    BY <1>1, <1>8, OwnFacts DEF SendHttpHeader, Own, ChainInv, TypeOK
  <2> HIDE DEF pending
  <2>2. client' = client \o <<>> /\ client \o <<>> = client
    BY <1>1, <2>1, OwnFacts, ConcatEmptySeq
  <2>3. <<>> \in Seq(Items) /\ Len(<<>>) = 0
    OBVIOUS
  <2>4. Sendable(Top.req, pending, <<>>, written')
    BY <1>1, <1>5, <1>6, <2>2, <2>3, OwnFacts DEF Sendable
  <2>5. ~ pending.sync_output =>
          ~ HasBody(Top.req) /\ \A i \in 1..Len(<<>>) : <<>>[i][1] # "body"
    BY <1>1, <1>5, <2>3, OwnFacts
  <2>6. QED
    BY <1>1, <1>2, <2>1, <2>2, <2>4, <2>5, OwnSends
<1>9. QED
  BY <1>7, <1>8

LEMMA FdOutput ==
  ASSUME ChainInv, OutputInvs, NEW isFile \in BOOLEAN, SendFd(isFile) PROVE OutputInvs'
<1> DEFINE str == Body(Top.req, written + 1)
           file == IF isFile THEN <<str>> ELSE <<>>
           flushed == FlushedItems(Top.req, Own)
           new == flushed \o file
           o == [FlushedObject(Own) EXCEPT !.sync_header = TRUE, !.sync_output = TRUE]
<1>1. /\ frames # <<>> /\ written < MaxWrites /\ written' = written + 1
      /\ UNCHANGED <<frames, todo>>
      /\ client' = client \o new /\ object' = [object EXCEPT ![Top.req] = o]
  BY DEF SendFd, Executing, BufferThenFile
<1>2. /\ Own \in Object /\ Own.outbuf \in Seq(Items) /\ client \in Seq(Items)
      /\ written \in Nat /\ Top.req \in Requests
  BY <1>1, OwnFacts
<1>3. str \in Items /\ str[1] = "body" /\ str[2] = Top.req /\ str[3] = written + 1
  <2>1. written + 1 \in 1..MaxWrites
    BY <1>1, <1>2, ResponseAssumption
  <2>2. QED
    BY <1>2, <2>1, ItemTypes, ItemFacts
<1>4. /\ o \in Object /\ o.outbuf = <<>> /\ o.sync_output /\ ~ o.header_pending
      /\ o.sent_header = (Own.sent_header \/ Own.header_pending)
  <2>1. FlushedObject(Own) \in Object /\ FlushedObject(Own).outbuf = <<>>
        /\ ~ FlushedObject(Own).header_pending
        /\ FlushedObject(Own).sent_header = (Own.sent_header \/ Own.header_pending)
    BY <1>2, FlushTypes DEF FlushedObject, Object
  <2>2. QED
    BY <2>1 DEF Object
<1> HIDE DEF o, str
<1>5. /\ file \in Seq(Items) /\ Len(file) \in {0, 1}
      /\ file = <<>> \/ file = <<str>>
      /\ \A i \in 1..Len(file) : file[i] = str
  BY <1>3
<1>6. /\ flushed \in Seq(Items) /\ Ascending(Top.req, client \o flushed)
      /\ \A i \in 1..Len(flushed) :
           /\ flushed[i][2] = Top.req
           /\ flushed[i][1] = "header" => i = 1 /\ Own.header_pending
           /\ flushed[i][1] = "body" => \E k \in 1..Len(Own.outbuf) : flushed[i] = Own.outbuf[k]
  <2>1. \A i \in 1..Len(Own.outbuf) : IsBody(Own.outbuf[i], Top.req)
    BY <1>1, OwnFacts
  <2>2. Ascending(Top.req, client \o Own.outbuf)
    BY <1>1, OwnFacts
  <2>3. QED
    BY <1>2, <2>1, <2>2, FlushFacts, FlushTypes
<1>7. \A i \in 1..Len(flushed) : flushed[i][1] = "body" => flushed[i][3] <= written
  BY <1>1, <1>6, OwnFacts
<1> HIDE DEF file, flushed
<1>8. Len(flushed) \in Nat /\ new \in Seq(Items)
  BY <1>5, <1>6, LenProperties, ConcatProperties
<1>9. ASSUME NEW i \in 1..Len(new)
      PROVE  /\ new[i][2] = Top.req
             /\ new[i][1] = "body" => new[i][3] <= written'
             /\ new[i][1] = "header" => i = 1 /\ Own.header_pending
  <2>1. \/ i \in 1..Len(flushed) /\ new[i] = flushed[i]
        \/ i - Len(flushed) \in 1..Len(file) /\ new[i] = file[i - Len(flushed)]
    BY <1>5, <1>6, <1>8, ConcatProperties
  <2>2. CASE i \in 1..Len(flushed) /\ new[i] = flushed[i]
    <3>1. flushed[i] \in Items
      BY <1>6, <2>2, ElementOfSeq
    <3>2. flushed[i][1] = "body" => flushed[i][3] \in Nat
      BY <3>1, ItemFacts
    <3>3. QED
      BY <1>1, <1>2, <1>6, <1>7, <2>2, <3>2
  <2>3. CASE i - Len(flushed) \in 1..Len(file) /\ new[i] = file[i - Len(flushed)]
    <3>1. new[i] = str
      BY <1>5, <2>3
    <3>2. QED
      BY <1>1, <1>2, <1>3, <3>1
  <2>4. QED
    BY <2>1, <2>2, <2>3
<1>10. Ascending(Top.req, client \o new)
  <2>1. CASE file = <<>>
    BY <1>6, <2>1, ConcatEmptySeq
  <2>2. CASE file = <<str>>
    <3>1. client \o flushed \in Seq(Items)
      BY <1>2, <1>6, ConcatProperties
    <3>2. \A i \in 1..Len(client \o flushed) :
            IsBody((client \o flushed)[i], Top.req) => (client \o flushed)[i][3] < str[3]
      <4>1. ASSUME NEW i \in 1..Len(client \o flushed), IsBody((client \o flushed)[i], Top.req)
            PROVE  (client \o flushed)[i][3] <= written
        <5>1. \/ i \in 1..Len(client) /\ (client \o flushed)[i] = client[i]
              \/ /\ i - Len(client) \in 1..Len(flushed)
                 /\ (client \o flushed)[i] = flushed[i - Len(client)]
          BY <1>2, <1>6, ConcatProperties, LenProperties
        <5>2. CASE i \in 1..Len(client) /\ (client \o flushed)[i] = client[i]
          BY <1>1, <4>1, <5>2, OwnFacts
        <5>3. CASE /\ i - Len(client) \in 1..Len(flushed)
                   /\ (client \o flushed)[i] = flushed[i - Len(client)]
          BY <1>7, <4>1, <5>3 DEF IsBody
        <5>4. QED
          BY <5>1, <5>2, <5>3
      <4>2. \A i \in 1..Len(client \o flushed) : (client \o flushed)[i] \in Items
        BY <3>1, ElementOfSeq
      <4>3. QED
        BY <1>2, <1>3, <4>1, <4>2, ItemFacts DEF IsBody
    <3>3. Ascending(Top.req, Append(client \o flushed, str))
      BY <1>3, <1>6, <3>1, <3>2, AscendingAppend
    <3>4. Append(client \o flushed, str) = client \o Append(flushed, str)
      BY <1>2, <1>3, <1>6, AppendInside
    <3>5. Append(flushed, str) = new
      BY <1>3, <1>6, <2>2, AppendIsConcat
    <3>6. QED
      BY <3>3, <3>4, <3>5
  <2>3. QED
    BY <1>5, <2>1, <2>2
<1> HIDE DEF new
<1>11. (client \o new) \o o.outbuf = client \o new
  <2>1. client \o new \in Seq(Items)
    BY <1>2, <1>8, ConcatProperties
  <2>2. QED
    BY <1>4, <2>1, ConcatEmptySeq
<1>12. /\ Own = object[Top.req] /\ (Own.sent_header => ~ Own.header_pending)
  BY <1>1, OwnFacts
<1>13. \A i \in 1..Len(o.outbuf) : IsBody(o.outbuf[i], Top.req) /\ o.outbuf[i][3] <= written'
  BY <1>4
<1>14. Sendable(Top.req, o, new, written')
  BY <1>4, <1>8, <1>9, <1>10, <1>11, <1>12, <1>13 DEF Sendable
<1>15. written' \in Nat /\ written <= written'
  BY <1>1, <1>2
<1>16. QED
  BY <1>1, <1>4, <1>14, <1>15, OwnSends

\* The end of a phase.
LEMMA PhaseEndsOutput ==
  ASSUME ChainInv, NestInv, OutputInvs, PhaseEnds PROVE OutputInvs'
<1>1. /\ frames # <<>> /\ UNCHANGED written
      /\ \A d \in 1..Len(frames') : \E e \in 1..Len(frames) : frames'[d] = frames[e]
      /\ \A d \in 1..Len(frames') : frames'[d].req < Top.req
      /\ \A q \in Requests : todo[q] = <<>> => todo'[q] = <<>>
  BY NestPhaseEnds DEF PhaseEnds
<1>2. \A q \in Requests : (\A d \in 1..Len(frames) : frames[d].req # q) =>
        \A d \in 1..Len(frames') : frames'[d].req # q
  BY <1>1
<1>3. CASE FlushWanted(Top) /\ object[last] # None
  <2> DEFINE was == object[last]
             o == FlushedObject(was)
             new == FlushedItems(last, was)
  <2>1. /\ client' = client \o new
        /\ object' = [object EXCEPT ![last] = o]
        /\ Top.phase = "handler"
    BY <1>3, CallFacts DEF PhaseEnds, FlushWanted, Flushes
  <2>2. /\ last \in Requests /\ Exists(last) /\ was \in Object /\ was.outbuf \in Seq(Items)
        /\ client \in Seq(Items) /\ written \in Nat
    BY <1>3, CallFacts, ResponseAssumption DEF Exists, Object, ChainInv, TypeOK
  <2>3. /\ todo'[last] = <<>>
        /\ \A d \in 1..Len(frames') : frames'[d].req # last
    <3>1. todo[last] = <<>>
      BY <2>1, NestPhaseEnds
    <3>2. \A d \in 1..Len(frames') : frames'[d].req \in Nat /\ frames'[d].req < Top.req
      BY <1>1, CallFacts
    <3>3. Top.req \in Nat /\ Top.req <= last /\ last \in Nat
      BY <1>1, InnermostFacts, CallFacts
    <3>4. QED
      BY <1>1, <2>2, <3>1, <3>2, <3>3
  <2>4. /\ o \in Object /\ o.outbuf = <<>> /\ o.sync_output = was.sync_output
        /\ ~ o.header_pending /\ o.sent_header = (was.sent_header \/ was.header_pending)
    BY <2>2, FlushTypes DEF FlushedObject, Object
  <2>5. /\ was.sent_header => ~ was.header_pending
        /\ \A i \in 1..Len(was.outbuf) : IsBody(was.outbuf[i], last) /\ was.outbuf[i][3] <= written
        /\ Ascending(last, client \o was.outbuf)
        /\ ~ was.sync_output /\ HasBody(last) => ~ was.header_pending
    BY <2>2 DEF OutputInvs, FlagInv, ItemInv, FlushedInv, InOrder, Ascending, Exists
  <2>6. /\ new \in Seq(Items) /\ Ascending(last, client \o new)
        /\ \A i \in 1..Len(new) :
             /\ new[i][2] = last
             /\ new[i][1] = "header" => i = 1 /\ was.header_pending
             /\ new[i][1] = "body" => \E k \in 1..Len(was.outbuf) : new[i] = was.outbuf[k]
    <3>1. \A i \in 1..Len(was.outbuf) : IsBody(was.outbuf[i], last)
      BY <2>5
    <3> HIDE DEF was
    <3>2. QED
      BY <2>2, <2>5, <3>1, FlushFacts, FlushTypes
  <2> HIDE DEF o, new
  <2>7. (client \o new) \o o.outbuf = client \o new
    <3>1. client \o new \in Seq(Items)
      BY <2>2, <2>6, ConcatProperties
    <3>2. QED
      BY <2>4, <3>1, ConcatEmptySeq
  <2>8. \A i \in 1..Len(new) :
          /\ new[i][2] = last
          /\ new[i][1] = "body" => new[i][3] <= written'
          /\ new[i][1] = "header" => i = 1 /\ ~ was.sent_header /\ o.sent_header
    BY <1>1, <2>4, <2>5, <2>6
  <2>9. Sendable(last, o, new, written')
    <3>1. \A i \in 1..Len(o.outbuf) : IsBody(o.outbuf[i], last) /\ o.outbuf[i][3] <= written'
      BY <2>4
    <3>2. Ascending(last, (client \o new) \o o.outbuf)
      BY <2>6, <2>7
    <3>3. ~ o.sync_output /\ HasBody(last) =>
            ~ was.sync_output /\ \A i \in 1..Len(new) : new[i][1] # "header"
      BY <2>4, <2>5, <2>6
    <3>4. /\ was.sent_header => o.sent_header
          /\ o.sent_header => ~ o.header_pending
          /\ o.sync_output => o.outbuf = <<>>
      BY <2>4
    <3>5. o \in Object /\ new \in Seq(Items)
      BY <2>4, <2>6
    <3>6. QED
      BY <2>8, <3>1, <3>2, <3>3, <3>4, <3>5 DEF Sendable
  <2>10. \A q \in Requests : object'[q] = IF q = last THEN o ELSE object[q]
    BY <2>1, CallFacts
  <2>11. written' \in Nat /\ written <= written'
    BY <1>1, <2>2
  <2>12. QED
    BY <1>1, <1>2, <2>1, <2>2, <2>3, <2>4, <2>9, <2>10, <2>11, Sends
<1>4. CASE ~ (FlushWanted(Top) /\ object[last] # None)
  <2>1. UNCHANGED <<client, object>>
    BY <1>4 DEF PhaseEnds
  <2>2. QED
    BY <1>1, <1>2, <2>1, Quiet
<1>5. QED
  BY <1>3, <1>4

\* A step that changes a call, but not its request.
LEMMA CallOutput ==
  ASSUME ChainInv, OutputInvs, NEW d \in 1..Len(frames), NEW f \in Frame,
         f.req = frames[d].req, frames' = [frames EXCEPT ![d] = f],
         UNCHANGED <<todo, outputVars>>
  PROVE  OutputInvs'
<1>1. /\ Len(frames') = Len(frames)
      /\ \A e \in 1..Len(frames) : frames'[e] = IF e = d THEN f ELSE frames[e]
  BY ExceptSeq DEF ChainInv, TypeOK
<1>2. \A e \in 1..Len(frames) : frames'[e].req = frames[e].req
  BY <1>1
<1>3. UNCHANGED <<client, written, object, todo>>
  BY DEF outputVars
<1>4. \A q \in Requests : (\A e \in 1..Len(frames) : frames[e].req # q) =>
        \A e \in 1..Len(frames') : frames'[e].req # q
  BY <1>1, <1>2
<1>5. QED
  BY <1>3, <1>4, Quiet

LEMMA BeginPhaseOutput ==
  ASSUME ChainInv, NestInv, OutputInvs, NEW n \in 1..MaxHandlers,
         NEW mode \in {"nosync", "syncheader", "sync"}, BeginPhase(n, mode)
  PROVE  OutputInvs'
<1> DEFINE f == [req |-> last, phase |-> Head(todo[last]), n |-> n, i |-> 1,
                 at |-> "running", ret |-> "DECLINED", overdue |-> FALSE]
<1>1. /\ todo[last] # <<>> /\ todo' = [todo EXCEPT ![last] = Tail(@)]
      /\ frames' = Append(frames, f) /\ UNCHANGED <<client, written>>
      /\ object' = [object EXCEPT ![last] = IF @ = None THEN NewObject(mode) ELSE @]
  BY DEF BeginPhase
<1>2. \A q \in Requests :
        \/ object'[q] = object[q]
        \/ /\ object[q] = None
           /\ ~ object'[q].sent_header /\ ~ object'[q].header_pending
           /\ object'[q].outbuf = <<>>
  BY <1>1, CallFacts DEF NewObject
<1>3. f.req = last /\ f \in Frame
  <2>1. Head(todo[last]) \in Phases
    BY <1>1, CallFacts, HeadTailProperties
  <2>2. QED
    BY <2>1, CallFacts, ResponseAssumption DEF Frame, Results
<1> HIDE DEF f
<1>4. /\ Len(frames') = Len(frames) + 1 /\ frames'[Len(frames) + 1] = f
      /\ \A d \in 1..Len(frames) : frames'[d] = frames[d]
  BY <1>1, <1>3, AppendProperties DEF ChainInv, TypeOK
<1>5. \A q \in Requests : todo[q] = <<>> => q # last /\ todo'[q] = <<>>
  BY <1>1, CallFacts
<1>6. \A q \in Requests : q # last /\ (\A d \in 1..Len(frames) : frames[d].req # q) =>
        \A d \in 1..Len(frames') : frames'[d].req # q
  BY <1>3, <1>4, CallFacts
<1>7. QED
  BY <1>1, <1>2, <1>5, <1>6, Quiet

LEMMA RedirectOutput ==
  ASSUME ChainInv, NestInv, OutputInvs, InternalRedirect PROVE OutputInvs'
<1>1. /\ todo' = [todo EXCEPT ![last + 1] = BothPhases] /\ UNCHANGED <<frames, object>>
      /\ UNCHANGED <<client, written>>
  BY DEF InternalRedirect, outputVars
<1>2. \A q \in Requests : Exists(q) => q # last + 1
  BY CallFacts DEF NestInv, TodoInv, Exists
<1>3. \A q \in Requests : Exists(q) => todo'[q] = todo[q]
  BY <1>1, <1>2, CallFacts
<1>4. QED
  BY <1>1, <1>3, Quiet

LEMMA OrderInit == Init => OutputInvs
BY DEF Init, OutputInvs, ItemInv, FlagInv, FlushedInv, HeaderOnce, InOrder, HeaderFirst,
       Exists, HasBody, Sent

LEMMA OrderStep ==
  ASSUME Careful, ChainInv, NestInv, OutputInvs, [Next]_vars PROVE OutputInvs'
<1>1. ASSUME SkipPhase PROVE OutputInvs'
  <2>1. /\ todo[last] # <<>> /\ todo' = [todo EXCEPT ![last] = Tail(@)]
        /\ UNCHANGED <<frames, object, client, written>>
    BY <1>1 DEF SkipPhase, outputVars
  <2>2. \A q \in Requests : todo[q] = <<>> => todo'[q] = <<>>
    BY <2>1, CallFacts
  <2>3. QED
    BY <2>1, <2>2, Quiet
<1>2. ASSUME NextHandler PROVE OutputInvs'
  <2> DEFINE f == [Top EXCEPT !.at = "running", !.i = @ + 1, !.overdue = FALSE]
  <2>1. /\ frames # <<>> /\ Top.i < Top.n /\ frames' = [frames EXCEPT ![Depth] = f]
        /\ UNCHANGED <<todo, outputVars>>
    BY <1>2 DEF NextHandler, More
  <2>2. f \in Frame /\ f.req = Top.req
    <3>1. Top.i + 1 \in 1..MaxHandlers
      BY <2>1, InnermostFacts, ResponseAssumption DEF Frame
    <3>2. QED
      BY <2>1, <3>1, InnermostFacts DEF Frame
  <2> HIDE DEF f
  <2>3. QED
    BY <2>1, <2>2, InnermostFacts, CallOutput
<1>3. ASSUME NEW ret \in Results, HandlerReturns(ret) PROVE OutputInvs'
  <2> DEFINE f == [Top EXCEPT !.at = "returned", !.ret = ret]
  <2>1. /\ frames # <<>> /\ frames' = [frames EXCEPT ![Depth] = f]
        /\ UNCHANGED <<todo, outputVars>>
    BY <1>3 DEF HandlerReturns, Executing, Top
  <2>2. f \in Frame /\ f.req = Top.req
    BY <2>1, InnermostFacts DEF Frame
  <2> HIDE DEF f
  <2>3. QED
    BY <2>1, <2>2, InnermostFacts, CallOutput
<1>4. ASSUME NEW d \in 1..MaxRequests, TimeoutRaises(d) PROVE OutputInvs'
  <2> DEFINE f == [Top EXCEPT !.at = "returned", !.ret = "error"]
  <2>1. frames # <<>> /\ UNCHANGED <<todo, outputVars>>
    <3>1. d \in 1..Len(frames)
      BY <1>4 DEF TimeoutRaises, Depth
    <3>2. QED
      BY <1>4, <3>1 DEF TimeoutRaises
  <2>2. frames' = [frames EXCEPT ![Depth] = f]
    <3>1. frames' = [frames EXCEPT ![Depth].at = "returned", ![Depth].ret = "error"]
      BY <1>4 DEF TimeoutRaises
    <3>2. QED
      BY <2>1, <3>1, InnermostFacts DEF ChainInv, TypeOK
  <2>3. f \in Frame /\ f.req = Top.req
    BY <2>1, InnermostFacts DEF Frame, Results
  <2> HIDE DEF f
  <2>4. QED
    BY <2>1, <2>2, <2>3, InnermostFacts, CallOutput
<1>5. ASSUME NEW d \in 1..MaxRequests, TimePasses(d) PROVE OutputInvs'
  <2> DEFINE f == [frames[d] EXCEPT !.overdue = TRUE]
  <2>1. /\ d \in 1..Len(frames) /\ frames' = [frames EXCEPT ![d] = f]
        /\ UNCHANGED <<todo, outputVars>>
    BY <1>5 DEF TimePasses, Depth
  <2>2. f \in Frame /\ f.req = frames[d].req
    BY <2>1, CallFacts DEF Frame
  <2> HIDE DEF f
  <2>3. QED
    BY <2>1, <2>2, CallOutput
<1>6. CASE StartThread \/ Served \/ UNCHANGED vars
  <2>1. UNCHANGED <<frames, todo, object, client, written>>
    BY <1>6 DEF StartThread, Served, vars, outputVars
  <2>2. QED
    BY <2>1, Quiet
<1>7. QED
  BY <1>1, <1>2, <1>3, <1>4, <1>5, <1>6, BeginPhaseOutput, PhaseEndsOutput, RedirectOutput,
     WriteOutput, CancelOutput, SetSyncOutput, HeaderOutput, FdOutput
  DEF Next, CodeStep, HandlerStep, Timeouts

LEMMA OrderAlways == Careful /\ Spec => []OutputInvs
<1>1. ChainInv /\ NestInv /\ [Next]_vars => NestInv'
  BY NestStep
<1>2. Spec => []NestInv
  BY <1>1, NestInit, ChainAlways, PTL DEF Spec
<1>3. ASSUME Careful PROVE Spec => []OutputInvs
  <2>1. ChainInv /\ NestInv /\ OutputInvs /\ [Next]_vars => OutputInvs'
    BY <1>3, OrderStep
  <2>2. QED
    BY <1>2, <2>1, OrderInit, ChainAlways, PTL DEF Spec
<1>4. QED
  BY <1>3

\* Whatever phases, redirects, modes and timeouts there are, the header of a
\* request is sent at most once, if handlers ask sent_http_header? before they
\* send it.
THEOREM OneHeader == Careful /\ Spec => []HeaderOnce
<1>1. OutputInvs => HeaderOnce
  BY DEF OutputInvs
<1>2. QED
  BY <1>1, OrderAlways, PTL

\* What handlers write is sent in the order they wrote it, whichever way it is
\* sent and however often it is flushed.
THEOREM OutputInOrder == Careful /\ Spec => []InOrder
<1>1. OutputInvs => InOrder
  BY DEF OutputInvs
<1>2. QED
  BY <1>1, OrderAlways, PTL

\* The header precedes the body, except a body that was sent at once.
THEOREM HeaderPrecedesBody == Careful /\ Spec => []HeaderFirst
<1>1. OutputInvs => HeaderFirst
  BY DEF OutputInvs
<1>2. QED
  BY <1>1, OrderAlways, PTL
=============================================================================
