------------------------- MODULE HandlerCallsProofs -------------------------
(***************************************************************************)
(* Proofs about HandlerCalls, for any requests, handlers and scenarios:    *)
(* its types, that the objects of a request go with its pool, and that     *)
(* the handlers of a request share one object.                             *)
(*                                                                         *)
(* The inductive invariant has three layers, each proved with the ones     *)
(* before it. Known: the types, and that a chain of redirects ends, so     *)
(* that Last is defined. Pools: the requests of a chain share a pool, the  *)
(* requests of a pool go together and after those of the pools below it,   *)
(* and whatever is on the C stack or among the cleanups is of a request    *)
(* Apache has made and not yet dropped. Owned: where each object ever      *)
(* made is - kept in an rconf, destroyed with its unregistration done or   *)
(* due, or an orphan.                                                      *)
(* The second half adds Lookups, how the C stack is built when Apache only *)
(* does lookups, and proves what handlers then find around them.           *)
(***************************************************************************)
EXTENDS HandlerCalls, SequenceTheorems, TLAPS

-----------------------------------------------------------------------------
(* Sequences and their elements.                                           *)

\* The elements of a sequence.
Elements(s) == {s[i] : i \in 1..Len(s)}

LEMMA PushElements ==
  ASSUME NEW S, NEW s \in Seq(S), NEW e \in S
  PROVE  /\ <<e>> \o s \in Seq(S)
         /\ <<e>> \o s # <<>>
         /\ Head(<<e>> \o s) = e
         /\ Len(<<e>> \o s) = Len(s) + 1
         /\ \A i \in 1..Len(s) : (<<e>> \o s)[i + 1] = s[i]
         /\ Elements(<<e>> \o s) = {e} \cup Elements(s)
<1> DEFINE t == <<e>> \o s
<1>1. <<e>> \in Seq(S) /\ Len(<<e>>) = 1 /\ <<e>>[1] = e
  OBVIOUS
<1>2. Len(s) \in Nat
  BY LenProperties
<1>3. /\ t \in Seq(S)
      /\ Len(t) = 1 + Len(s)
      /\ \A i \in 1..1 + Len(s) : t[i] = IF i <= 1 THEN <<e>>[i] ELSE s[i - 1]
  BY <1>1, ConcatProperties
<1> HIDE DEF t
<1>4. t[1] = e /\ \A i \in 1..Len(s) : t[i + 1] = s[i]
  BY <1>1, <1>2, <1>3
<1>5. t # <<>> /\ Head(t) = e
  BY <1>2, <1>3, <1>4
<1>6. Elements(t) = {e} \cup Elements(s)
  <2>1. ASSUME NEW x \in Elements(t)
        PROVE  x \in {e} \cup Elements(s)
    <3>1. PICK i \in 1..Len(t) : x = t[i]
      BY <2>1 DEF Elements
    <3>2. CASE i = 1
      BY <3>1, <3>2, <1>4
    <3>3. CASE i # 1
      <4>1. i - 1 \in 1..Len(s) /\ x = s[i - 1]
        BY <3>1, <3>3, <1>2, <1>3
      <4>2. QED
        BY <4>1 DEF Elements
    <3>4. QED
      BY <3>2, <3>3
  <2>2. ASSUME NEW i \in 1..Len(s)
        PROVE  s[i] \in Elements(t)
    <3>1. i + 1 \in 1..Len(t) /\ t[i + 1] = s[i]
      BY <1>2, <1>3, <1>4
    <3>2. QED
      BY <3>1 DEF Elements
  <2>3. e \in Elements(t)
    <3>1. 1 \in 1..Len(t)
      BY <1>2, <1>3
    <3>2. QED
      BY <3>1, <1>4 DEF Elements
  <2>4. QED
    BY <2>1, <2>2, <2>3 DEF Elements
<1>7. QED
  BY <1>2, <1>3, <1>4, <1>5, <1>6 DEF t

LEMMA PopElements ==
  ASSUME NEW S, NEW s \in Seq(S), s # <<>>
  PROVE  /\ Head(s) \in S
         /\ Head(s) = s[1]
         /\ Len(s) \in Nat \ {0}
         /\ Tail(s) \in Seq(S)
         /\ Len(Tail(s)) = Len(s) - 1
         /\ \A i \in 1..Len(Tail(s)) : Tail(s)[i] = s[i + 1]
         /\ Elements(s) = {Head(s)} \cup Elements(Tail(s))
<1>1. /\ Head(s) \in S
      /\ Tail(s) \in Seq(S)
      /\ Len(Tail(s)) = Len(s) - 1
      /\ \A i \in 1..Len(Tail(s)) : Tail(s)[i] = s[i + 1]
  BY HeadTailProperties
<1>2. Head(s) = s[1] /\ Len(s) \in Nat \ {0}
  OBVIOUS
<1>3. ASSUME NEW x \in Elements(s)
      PROVE  x \in {Head(s)} \cup Elements(Tail(s))
  <2>1. PICK i \in 1..Len(s) : x = s[i]
    BY <1>3 DEF Elements
  <2>2. CASE i = 1
    BY <2>1, <2>2, <1>2
  <2>3. CASE i # 1
    <3>1. i - 1 \in 1..Len(Tail(s)) /\ x = Tail(s)[i - 1]
      BY <2>1, <2>3, <1>1, <1>2
    <3>2. QED
      BY <3>1 DEF Elements
  <2>4. QED
    BY <2>2, <2>3
<1>4. ASSUME NEW i \in 1..Len(Tail(s))
      PROVE  Tail(s)[i] \in Elements(s)
  <2>1. i + 1 \in 1..Len(s) /\ Tail(s)[i] = s[i + 1]
    BY <1>1, <1>2
  <2>2. QED
    BY <2>1 DEF Elements
<1>5. Head(s) \in Elements(s)
  BY <1>2 DEF Elements
<1>6. QED
  BY <1>1, <1>2, <1>3, <1>4, <1>5 DEF Elements

LEMMA NoElements == Elements(<<>>) = {}
BY DEF Elements

LEMMA ElementsInSet ==
  ASSUME NEW S, NEW s \in Seq(S)
  PROVE  Elements(s) \subseteq S
BY ElementOfSeq DEF Elements

-----------------------------------------------------------------------------
(* The types, and chains of redirects.                                     *)

\* TypeOK with objects of any number, which a step need not know to be made.
AnyObject == Requests \X (Nat \ {0})
AnyCleanup == ({"handler", "object"} \X Requests) \cup ({"unregister"} \X AnyObject)
Configs == [saved_env : Envs, request_object : AnyObject]

Types ==
  /\ scenario \in Scenarios
  /\ ruby_is_threaded_mpm \in BOOLEAN
  /\ handled \in 0..MaxHandlers
  /\ status \in [Requests -> {"fresh", "live", "lookedUp", "dying", "gone"}]
  /\ main \in [Requests -> Requests \cup {None}]
  /\ next \in [Requests -> Requests \cup {None}]
  /\ pool \in [Requests -> Requests]
  /\ cleanups \in [Requests -> Seq(AnyCleanup)]
  /\ rconf \in [Requests -> Configs \cup {None}]
  /\ made \in [Requests -> Nat]
  /\ registered \subseteq AnyObject
  /\ destroyed \subseteq AnyObject
  /\ orphans \subseteq AnyObject
  /\ rb_request \in AnyObject \cup {None}
  /\ env \in Envs
  /\ frames \in Seq(Frames)

\* Chains of internal redirects end, so that the recursion of Last does.
ChainsEnd ==
  \A S \in SUBSET Requests : S # {} => \E q \in S : next[q] \notin S
ChainsHaveLast ==
  \E f \in [Requests -> Requests] :
    f = [q \in Requests |-> IF next[q] = None THEN q ELSE f[next[q]]]

LEMMA LastFact ==
  ASSUME ChainsEnd, ChainsHaveLast, next \in [Requests -> Requests \cup {None}],
         NEW r \in Requests
  PROVE  /\ Last(r) \in Requests
         /\ Last(r) = IF next[r] = None THEN r ELSE Last(next[r])
<1> DEFINE IsLast(f) == f = [q \in Requests |-> IF next[q] = None THEN q ELSE f[next[q]]]
           f == CHOOSE f : IsLast(f)
<1>1. IsLast(f)
  BY DEF ChainsHaveLast
<1>2. \A q \in Requests : Last(q) = f[q]
  BY DEF Last
<1>3. \A q \in Requests : Last(q) = IF next[q] = None THEN q ELSE f[next[q]]
  <2> HIDE DEF f
  <2>1. \A q \in Requests : f[q] = IF next[q] = None THEN q ELSE f[next[q]]
    BY <1>1, Zenon
  <2>2. QED
    BY <1>2, <2>1, Zenon
<1> DEFINE S == {q \in Requests : Last(q) \notin Requests}
<1> HIDE DEF f, IsLast
<1>4. S = {}
  <2> SUFFICES ASSUME S # {} PROVE FALSE
    OBVIOUS
  <2>1. S \in SUBSET Requests
    OBVIOUS
  <2> HIDE DEF S
  <2>2. PICK q \in S : next[q] \notin S
    BY <2>1 DEF ChainsEnd
  <2>3. q \in Requests /\ Last(q) \notin Requests
    BY DEF S
  <2>4. next[q] # None
    BY <1>3, <2>3
  <2>5. next[q] \in Requests /\ Last(next[q]) \in Requests
    BY <2>2, <2>3, <2>4 DEF S
  <2>6. QED
    BY <1>2, <1>3, <2>3, <2>4, <2>5
<1>5. next[r] # None => next[r] \in Requests
  OBVIOUS
<1>6. QED
  BY <1>2, <1>3, <1>4, <1>5

\* The cleanups on each pool once those of the objects of S are added.
ObjectsCleaned(S, cl) ==
  \A p \in Requests :
    /\ Elements(cl[p]) \subseteq Elements(cleanups'[p])
    /\ \A c \in Elements(cleanups'[p]) :
         c \in Elements(cl[p]) \/ \E r \in S : pool[r] = p /\ c = <<"object", r>>
    /\ (\A r \in S : pool[r] # p) => cleanups'[p] = cl[p]

LEMMA MakeEffect ==
  ASSUME Types,
         NEW S \in SUBSET Requests,
         NEW cl \in [Requests -> Seq(AnyCleanup)],
         MakeObjects(S, cl)
  PROVE  /\ made' \in [Requests -> Nat]
         /\ \A r \in Requests : made'[r] = IF r \in S THEN made[r] + 1 ELSE made[r]
         /\ registered' = registered \cup {NewObject(r) : r \in S}
         /\ registered' \subseteq AnyObject
         /\ destroyed' = destroyed
         /\ cleanups' \in [Requests -> Seq(AnyCleanup)]
         /\ ObjectsCleaned(S, cl)
         /\ \A r \in S : S = {r} => <<"object", r>> \in Elements(cleanups'[pool[r]])
<1>1. /\ made \in [Requests -> Nat]
      /\ pool \in [Requests -> Requests]
      /\ registered \subseteq AnyObject
  BY DEF Types
<1>2. /\ made' = [r \in Requests |-> IF r \in S THEN made[r] + 1 ELSE made[r]]
      /\ registered' = registered \cup {NewObject(r) : r \in S}
      /\ destroyed' = destroyed
  BY DEF MakeObjects
<1>3. \A r \in Requests : NewObject(r) \in AnyObject
  BY <1>1 DEF NewObject, AnyObject
<1> DEFINE Its(p) == {r \in S : pool[r] = p}
           one(p) == CHOOSE r \in Its(p) : TRUE
<1>4. cleanups' = [p \in Requests |->
         IF Its(p) = {} THEN cl[p] ELSE <<<<"object", one(p)>>>> \o cl[p]]
  BY DEF MakeObjects
<1>5. ASSUME NEW p \in Requests
      PROVE  /\ cleanups'[p] \in Seq(AnyCleanup)
             /\ Elements(cl[p]) \subseteq Elements(cleanups'[p])
             /\ \A c \in Elements(cleanups'[p]) :
                   \/ c \in Elements(cl[p])
                   \/ \E r \in S : pool[r] = p /\ c = <<"object", r>>
             /\ (\A r \in S : pool[r] # p) => cleanups'[p] = cl[p]
             /\ \A r \in S : S = {r} /\ pool[r] = p => <<"object", r>> \in Elements(cleanups'[p])
  <2>1. CASE Its(p) = {}
    <3>1. cleanups'[p] = cl[p]
      BY <1>4, <2>1
    <3>2. \A r \in S : pool[r] # p
      BY <2>1
    <3>3. QED
      BY <3>1, <3>2
  <2>2. CASE Its(p) # {}
    <3>1. one(p) \in S /\ pool[one(p)] = p
      <4>1. one(p) \in Its(p)
        BY <2>2
      <4>2. QED
        BY <4>1
    <3>2. cleanups'[p] = <<<<"object", one(p)>>>> \o cl[p]
      BY <1>4, <2>2
    <3> DEFINE e == <<"object", one(p)>>
    <3>3. e \in AnyCleanup
      BY <3>1 DEF AnyCleanup
    <3>4. cl[p] \in Seq(AnyCleanup)
      OBVIOUS
    <3>5. /\ cleanups'[p] \in Seq(AnyCleanup)
          /\ Elements(cleanups'[p]) = {e} \cup Elements(cl[p])
      <4> HIDE DEF e
      <4>1. <<e>> \o cl[p] \in Seq(AnyCleanup)
            /\ Elements(<<e>> \o cl[p]) = {e} \cup Elements(cl[p])
        BY <3>3, <3>4, PushElements, Zenon
      <4>2. cleanups'[p] = <<e>> \o cl[p]
        BY <3>2 DEF e
      <4>3. QED
        BY <4>1, <4>2, Zenon
    <3>6. \A r \in S : S = {r} => r = one(p)
      BY <3>1
    <3> HIDE DEF one
    <3>7. QED
      BY <3>1, <3>5, <3>6
  <2>3. QED
    BY <2>1, <2>2
<1>6. cleanups' \in [Requests -> Seq(AnyCleanup)]
  <2>1. cleanups' = [p \in Requests |-> cleanups'[p]]
    BY <1>4
  <2> HIDE DEF Its, one
  <2>2. QED
    BY <2>1, <1>5
<1> HIDE DEF Its, one
<1>7. made' \in [Requests -> Nat]
      /\ \A r \in Requests : made'[r] = IF r \in S THEN made[r] + 1 ELSE made[r]
  BY <1>1, <1>2
<1>8. registered' \subseteq AnyObject
  BY <1>1, <1>2, <1>3
<1>9. \A r \in S : pool[r] \in Requests
  BY <1>1
<1>10. ObjectsCleaned(S, cl)
  BY <1>5 DEF ObjectsCleaned
<1>11. QED
  BY <1>2, <1>5, <1>6, <1>7, <1>8, <1>9, <1>10

-----------------------------------------------------------------------------
(* What the steps do.                                                      *)

LEMMA TopFrame ==
  ASSUME Types, frames # <<>>
  PROVE  /\ Head(frames) \in Frames
         /\ Current \in Requests
         /\ Tail(frames) \in Seq(Frames)
<1>1. Head(frames) \in Frames /\ Tail(frames) \in Seq(Frames)
  BY PopElements DEF Types
<1>2. \A f \in Frames : f.req \in Requests
  BY DEF Frames
<1>3. QED
  BY <1>1, <1>2 DEF Current

LEMMA CleanupRequests ==
  ASSUME NEW c \in AnyCleanup
  PROVE  /\ c[1] \in {"handler", "object"} => c[2] \in Requests /\ c = <<c[1], c[2]>>
         /\ c[1] = "unregister" => c[2] \in AnyObject /\ c = <<c[1], c[2]>>
BY DEF AnyCleanup

\* What a call of a handler does, with the object made if there is none yet.
HandlerStarts(r, flush, cl) ==
  /\ handled < MaxHandlers
  /\ handled' = handled + 1
  /\ MakeObjects(IF rconf[r] = None THEN {r} ELSE {}, cl)
  /\ rconf' = IF rconf[r] = None
                THEN [rconf EXCEPT ![r] = [saved_env |-> env, request_object |-> NewObject(r)]]
                ELSE rconf
  /\ rb_request' = IF rconf[r] = None THEN NewObject(r) ELSE rconf[r].request_object
  /\ frames' = <<Handler(r, flush)>> \o frames
  /\ UNCHANGED <<scenario, ruby_is_threaded_mpm, status, main, next, pool, env, orphans>>

LEMMA BeginStarts ==
  ASSUME NEW r, NEW flush, NEW cl, Begin(r, flush, cl)
  PROVE  HandlerStarts(r, flush, cl)
<1>1. CASE rconf[r] = None
  BY <1>1 DEF Begin, PerRequestInit, HandlerStarts, NeedsConfig, Push, apacheVars
<1>2. CASE rconf[r] # None
  BY <1>2 DEF Begin, PerRequestInit, HandlerStarts, NeedsConfig, Push, apacheVars, ObjectOf
<1>3. QED
  BY <1>1, <1>2

\* What the end of a handler call for the request r does, when the requests
\* of new had no object.
HandlerEnds(r, new) ==
  /\ frames # <<>>
  /\ Head(frames).does = "handler"
  /\ r = Last(Current)
  /\ \A q \in new : rconf[q] = None /\ (q = r \/ (main[r] # None /\ q = main[r]))
  /\ main[r] # None /\ rconf[main[r]] = None => main[r] \in new
  /\ MakeObjects(new, cleanups)
  /\ orphans' = orphans \cup {NewObject(q) : q \in new}
  /\ rb_request' = IF main[r] = None THEN None ELSE ObjectOf(main[r])
  /\ env' = IF rconf[r] # None THEN rconf[r].saved_env ELSE env
  /\ frames' = Tail(frames)
  /\ UNCHANGED <<scenario, ruby_is_threaded_mpm, status, main, next, pool, handled, rconf>>

LEMMA EndHandlerEnds ==
  ASSUME NEW ok \in BOOLEAN, EndHandler(ok)
  PROVE  \E new : HandlerEnds(Last(Current), new)
<1> DEFINE r == Last(Current)
           flushed == IF ok /\ Head(frames).flush THEN {r} ELSE {}
           outer == {OuterRequest(r)} \ {None}
           new == Lacking(flushed \cup outer)
<1>1. /\ MakeObjects(new, cleanups)
      /\ orphans' = orphans \cup {NewObject(q) : q \in new}
      /\ rb_request' = IF outer = {} THEN None ELSE ObjectOf(OuterRequest(r))
      /\ env' = RestoredEnv(r)
  BY DEF EndHandler
<1>2. /\ frames # <<>>
      /\ Head(frames).does = "handler"
      /\ frames' = Tail(frames)
      /\ UNCHANGED <<scenario, ruby_is_threaded_mpm, status, main, next, pool, handled, rconf>>
  BY DEF EndHandler, Running, Pop, apacheVars
<1>3. env' = IF rconf[r] # None THEN rconf[r].saved_env ELSE env
  BY <1>1 DEF RestoredEnv
<1>4. OuterRequest(r) = main[r]
  BY DEF OuterRequest
<1>5. (outer = {}) <=> (main[r] = None)
  <2> HIDE DEF r
  <2>1. outer = {main[r]} \ {None}
    BY <1>4
  <2>2. QED
    BY <2>1
<1>6. rb_request' = IF main[r] = None THEN None ELSE ObjectOf(main[r])
  <2> HIDE DEF r, flushed, outer, new
  <2>1. rb_request' = IF main[r] = None THEN None ELSE ObjectOf(OuterRequest(r))
    <3>1. rb_request' = IF outer = {} THEN None ELSE ObjectOf(OuterRequest(r))
      BY <1>1
    <3>2. CASE main[r] = None
      BY <1>5, <3>1, <3>2, Zenon
    <3>3. CASE main[r] # None
      BY <1>5, <3>1, <3>3, Zenon
    <3>4. QED
      BY <3>2, <3>3
  <2>2. QED
    BY <2>1 DEF OuterRequest
<1>7. \A q \in new : rconf[q] = None /\ (q = r \/ (main[r] # None /\ q = main[r]))
  BY <1>4 DEF Lacking
<1>8. main[r] # None /\ rconf[main[r]] = None => main[r] \in new
  BY <1>4 DEF Lacking
<1> HIDE DEF r, flushed, outer, new
<1>9. HandlerEnds(r, new)
  BY <1>1, <1>2, <1>3, <1>6, <1>7, <1>8 DEF HandlerEnds, r
<1>10. QED
  BY <1>9 DEF r

\* What a step of the whole does to the requests Apache knows.
SubrequestMade(s, r) ==
  /\ s \in Others
  /\ status[s] = "fresh"
  /\ status[r] = "live"
  /\ status' = [status EXCEPT ![s] = "live"]
  /\ main' = [main EXCEPT ![s] = r]
  /\ UNCHANGED <<next, pool, cleanups>>
RedirectMade(s, r) ==
  /\ s \in Others
  /\ status[s] = "fresh"
  /\ status[r] = "live"
  /\ status' = [status EXCEPT ![s] = "live"]
  /\ main' = [main EXCEPT ![s] = main[r]]
  /\ next' = [next EXCEPT ![r] = s]
  /\ pool' = [pool EXCEPT ![s] = pool[r]]
  /\ cleanups' = [cleanups EXCEPT ![pool[r]] = <<<<"handler", s>>>> \o @]

LEMMA PushFrame ==
  ASSUME Types, NEW f \in Frames
  PROVE  <<f>> \o frames \in Seq(Frames)
BY PushElements, Zenon DEF Types

LEMMA HandlerFrame ==
  ASSUME Types, NEW r \in Requests, NEW flush \in BOOLEAN
  PROVE  Handler(r, flush) \in Frames
BY DEF Handler, Frames, Types

LEMMA BeginTypes ==
  ASSUME Types, NEW r \in Requests, NEW flush \in BOOLEAN,
         NEW cl \in [Requests -> Seq(AnyCleanup)], HandlerStarts(r, flush, cl)
  PROVE  Types'
<1> DEFINE S == IF rconf[r] = None THEN {r} ELSE {}
<1>1. S \in SUBSET Requests /\ MakeObjects(S, cl)
  BY DEF HandlerStarts
<1> HIDE DEF S
<1>2. /\ made' \in [Requests -> Nat]
      /\ registered' \subseteq AnyObject
      /\ destroyed' = destroyed
      /\ cleanups' \in [Requests -> Seq(AnyCleanup)]
  BY <1>1, MakeEffect
<1>3. frames' \in Seq(Frames)
  BY PushFrame, HandlerFrame DEF HandlerStarts
<1>4. NewObject(r) \in AnyObject /\ env \in Envs
  BY DEF Types, NewObject, AnyObject
<1>5. [saved_env |-> env, request_object |-> NewObject(r)] \in Configs
  BY <1>4 DEF Configs
<1>6. rconf' \in [Requests -> Configs \cup {None}]
  BY <1>5 DEF Types, HandlerStarts
<1>7. rb_request' \in AnyObject \cup {None}
  BY <1>4 DEF Types, HandlerStarts, Configs
<1>8. handled' \in 0..MaxHandlers
  BY HandlersAssumption DEF Types, HandlerStarts
<1>9. QED
  BY <1>2, <1>3, <1>6, <1>7, <1>8 DEF Types, HandlerStarts

LEMMA EndTypes ==
  ASSUME Types, ChainsEnd, ChainsHaveLast, NEW r, NEW new, HandlerEnds(r, new)
  PROVE  Types' /\ r \in Requests /\ new \in SUBSET Requests
<1>1. frames # <<>> /\ frames' = Tail(frames) /\ r = Last(Current)
  BY DEF HandlerEnds
<1>2. frames' \in Seq(Frames) /\ Current \in Requests
  BY <1>1, TopFrame
<1>3. r \in Requests
  BY <1>1, <1>2, LastFact DEF Types
<1>4. main[r] # None => main[r] \in Requests
  BY <1>3 DEF Types
<1>5. new \in SUBSET Requests /\ MakeObjects(new, cleanups)
  BY <1>3, <1>4 DEF HandlerEnds
<1>6. cleanups \in [Requests -> Seq(AnyCleanup)]
  BY DEF Types
<1>7. /\ made' \in [Requests -> Nat]
      /\ registered' \subseteq AnyObject
      /\ destroyed' = destroyed
      /\ cleanups' \in [Requests -> Seq(AnyCleanup)]
  BY <1>5, <1>6, MakeEffect
<1>8. \A q \in Requests : NewObject(q) \in AnyObject /\ ObjectOf(q) \in AnyObject
  BY DEF Types, NewObject, ObjectOf, AnyObject, Configs
<1>9. orphans' \subseteq AnyObject
  BY <1>5, <1>8 DEF Types, HandlerEnds
<1>10. rb_request' \in AnyObject \cup {None}
  BY <1>4, <1>8 DEF HandlerEnds
<1>11. env' \in Envs
  BY <1>3 DEF HandlerEnds, Types, Configs
<1>12. QED
  BY <1>2, <1>3, <1>5, <1>7, <1>9, <1>10, <1>11 DEF Types, HandlerEnds

LEMMA SubrequestTypes ==
  ASSUME Types, NEW s, NEW r \in Requests, SubrequestMade(s, r)
  PROVE  /\ s \in Requests
         /\ status' \in [Requests -> {"fresh", "live", "lookedUp", "dying", "gone"}]
         /\ main' \in [Requests -> Requests \cup {None}]
         /\ next' \in [Requests -> Requests \cup {None}]
         /\ pool' \in [Requests -> Requests]
         /\ cleanups' \in [Requests -> Seq(AnyCleanup)]
BY DEF Types, SubrequestMade, Requests

LEMMA RedirectTypes ==
  ASSUME Types, NEW s, NEW r \in Requests, RedirectMade(s, r)
  PROVE  /\ s \in Requests
         /\ status' \in [Requests -> {"fresh", "live", "lookedUp", "dying", "gone"}]
         /\ main' \in [Requests -> Requests \cup {None}]
         /\ next' \in [Requests -> Requests \cup {None}]
         /\ pool' \in [Requests -> Requests]
         /\ cleanups' \in [Requests -> Seq(AnyCleanup)]
         /\ \A p \in Requests : Elements(cleanups'[p]) =
              IF p = pool[r] THEN {<<"handler", s>>} \cup Elements(cleanups[p])
                             ELSE Elements(cleanups[p])
<1>1. s \in Requests
  BY DEF RedirectMade, Requests
<1>2. <<"handler", s>> \in AnyCleanup
  BY <1>1 DEF AnyCleanup
<1>3. /\ cleanups \in [Requests -> Seq(AnyCleanup)]
      /\ pool[r] \in Requests
      /\ cleanups[pool[r]] \in Seq(AnyCleanup)
  BY DEF Types
<1> DEFINE c == <<"handler", s>>
           t == <<c>> \o cleanups[pool[r]]
<1>4. t \in Seq(AnyCleanup) /\ Elements(t) = {c} \cup Elements(cleanups[pool[r]])
  <2> DEFINE rest == cleanups[pool[r]]
  <2>1. c \in AnyCleanup /\ rest \in Seq(AnyCleanup)
    BY <1>2, <1>3
  <2> HIDE DEF c, rest
  <2>2. <<c>> \o rest \in Seq(AnyCleanup) /\ Elements(<<c>> \o rest) = {c} \cup Elements(rest)
    BY <2>1, PushElements
  <2>3. QED
    BY <2>2 DEF rest
<1>5. cleanups' = [cleanups EXCEPT ![pool[r]] = t]
  BY DEF RedirectMade
<1> HIDE DEF t
<1>6. cleanups' \in [Requests -> Seq(AnyCleanup)]
  BY <1>3, <1>4, <1>5
<1>7. \A p \in Requests : Elements(cleanups'[p]) =
              IF p = pool[r] THEN {c} \cup Elements(cleanups[p]) ELSE Elements(cleanups[p])
  BY <1>3, <1>4, <1>5
<1>8. QED
  BY <1>1, <1>6, <1>7 DEF Types, RedirectMade

\* A request Apache has not made has no part in anything.
FreshIsNew ==
  \A r \in Requests : status[r] = "fresh" => main[r] = None /\ next[r] = None /\ pool[r] = r
\* The first layer of the invariant.
Known == Types /\ ChainsEnd /\ ChainsHaveLast /\ FreshIsNew

LEMMA DoneEffect ==
  ASSUME Types, NEW p \in Requests, cleanups[p] # <<>>
  PROVE  /\ Head(cleanups[p]) \in AnyCleanup
         /\ Tail(cleanups[p]) \in Seq(AnyCleanup)
         /\ Done(p) \in [Requests -> Seq(AnyCleanup)]
         /\ Elements(cleanups[p]) = {Head(cleanups[p])} \cup Elements(Done(p)[p])
         /\ Done(p)[p] = Tail(cleanups[p])
         /\ \A q \in Requests : q # p => Done(p)[q] = cleanups[q]
<1>1. cleanups \in [Requests -> Seq(AnyCleanup)] /\ cleanups[p] \in Seq(AnyCleanup)
  BY DEF Types
<1> DEFINE s == cleanups[p]
<1>2. /\ Head(s) \in AnyCleanup
      /\ Tail(s) \in Seq(AnyCleanup)
      /\ Elements(s) = {Head(s)} \cup Elements(Tail(s))
  <2> HIDE DEF s
  <2>1. s \in Seq(AnyCleanup) /\ s # <<>>
    BY <1>1 DEF s
  <2>2. QED
    BY <2>1, PopElements, Zenon
<1>3. Done(p) = [cleanups EXCEPT ![p] = Tail(s)]
  BY DEF Done
<1>4. Done(p)[p] = Tail(s) /\ \A q \in Requests : q # p => Done(p)[q] = cleanups[q]
  BY <1>1, <1>3
<1>5. Done(p) \in [Requests -> Seq(AnyCleanup)]
  BY <1>1, <1>2, <1>3
<1>6. QED
  BY <1>2, <1>4, <1>5

\* The cleanups of p while their head is an object's.
LEMMA ObjectCleanupEffect ==
  ASSUME Types, NEW p \in Requests, CleanupRequestObject(p)
  PROVE  \E r \in Requests :
           /\ cleanups[p] # <<>>
           /\ Head(cleanups[p]) = <<"object", r>>
           /\ cleanups' \in [Requests -> Seq(AnyCleanup)]
           /\ \A q \in Requests : q # p => cleanups'[q] = cleanups[q]
           /\ IF rconf[r] = None
                THEN /\ Elements(cleanups'[p]) = Elements(Tail(cleanups[p]))
                     /\ destroyed' = destroyed
                     /\ rconf' = rconf
                ELSE /\ Elements(cleanups'[p]) =
                          {<<"unregister", rconf[r].request_object>>}
                             \cup Elements(Tail(cleanups[p]))
                     /\ destroyed' = destroyed \cup {rconf[r].request_object}
                     /\ rconf' = [rconf EXCEPT ![r] = None]
                     /\ rconf[r].request_object \in AnyObject
<1> DEFINE r == Head(cleanups[p])[2]
<1>1. cleanups[p] # <<>> /\ Head(cleanups[p])[1] = "object"
  BY DEF CleanupRequestObject, Due
<1>2. Head(cleanups[p]) \in AnyCleanup /\ Tail(cleanups[p]) \in Seq(AnyCleanup)
  BY <1>1, DoneEffect
<1>3. r \in Requests /\ Head(cleanups[p]) = <<"object", r>>
  BY <1>1, <1>2, CleanupRequests
<1>4. cleanups \in [Requests -> Seq(AnyCleanup)] /\ rconf \in [Requests -> Configs \cup {None}]
  BY DEF Types
<1> HIDE DEF r
<1>5. CASE rconf[r] = None
  <2>1. cleanups' = Done(p) /\ destroyed' = destroyed /\ rconf' = rconf
    BY <1>5 DEF CleanupRequestObject, r
  <2>2. cleanups' \in [Requests -> Seq(AnyCleanup)]
        /\ cleanups'[p] = Tail(cleanups[p])
        /\ \A q \in Requests : q # p => cleanups'[q] = cleanups[q]
    BY <2>1, <1>1, DoneEffect
  <2>3. QED
    BY <1>1, <1>3, <1>5, <2>1, <2>2
<1>6. CASE rconf[r] # None
  <2> DEFINE u == <<"unregister", rconf[r].request_object>>
             t == <<u>> \o Tail(cleanups[p])
  <2>1. /\ cleanups' = [cleanups EXCEPT ![p] = t]
        /\ destroyed' = destroyed \cup {rconf[r].request_object}
        /\ rconf' = [rconf EXCEPT ![r] = None]
    BY <1>6 DEF CleanupRequestObject, r
  <2>2. rconf[r].request_object \in AnyObject
    BY <1>3, <1>4, <1>6 DEF Configs
  <2>3. u \in AnyCleanup
    BY <2>2 DEF AnyCleanup
  <2>4. t \in Seq(AnyCleanup) /\ Elements(t) = {u} \cup Elements(Tail(cleanups[p]))
    BY <1>2, <2>3, PushElements, Zenon
  <2> HIDE DEF u, t
  <2>5. /\ cleanups' \in [Requests -> Seq(AnyCleanup)]
        /\ cleanups'[p] = t
        /\ \A q \in Requests : q # p => cleanups'[q] = cleanups[q]
    BY <1>4, <2>1, <2>4
  <2>6. Elements(cleanups'[p]) = {u} \cup Elements(Tail(cleanups[p]))
    BY <2>4, <2>5
  <2>7. QED
    BY <1>1, <1>3, <1>6, <2>1, <2>2, <2>5, <2>6 DEF u
<1>7. QED
  BY <1>5, <1>6

LEMMA LookupReturnsEffect ==
  ASSUME Types, LookupReturns
  PROVE  /\ Current \in Requests
         /\ frames # <<>> /\ Head(frames).does = "lookup"
         /\ MakeObjects({Current}, cleanups)
         /\ rconf[Current] = None =>
              /\ orphans' = orphans \cup {NewObject(Current)}
              /\ rconf' = rconf
         /\ rconf[Current] # None =>
              /\ orphans' = orphans \cup {rconf[Current].request_object}
              /\ rconf' = [rconf EXCEPT ![Current] =
                   [saved_env |-> rconf[Current].saved_env,
                    request_object |-> NewObject(Current)]]
         /\ status' = [q \in Requests |->
              IF status[q] = "live" /\ pool[q] = Current THEN "lookedUp" ELSE status[q]]
         /\ frames' = Tail(frames)
<1>1. frames # <<>> /\ Head(frames).does = "lookup"
  BY DEF LookupReturns, Running
<1>2. Current \in Requests
  BY <1>1, TopFrame
<1>3. CASE rconf[Current] = None
  BY <1>1, <1>2, <1>3 DEF LookupReturns, Pop
<1>4. CASE rconf[Current] # None
  <2>1. rconf[Current] \in Configs /\ rconf \in [Requests -> Configs \cup {None}]
    BY <1>2, <1>4 DEF Types
  <2>2. rconf' = [rconf EXCEPT ![Current].request_object = NewObject(Current)]
    BY <1>4 DEF LookupReturns
  <2>3. [rconf[Current] EXCEPT !.request_object = NewObject(Current)]
          = [saved_env |-> rconf[Current].saved_env, request_object |-> NewObject(Current)]
    BY <2>1 DEF Configs
  <2>4. rconf' = [rconf EXCEPT ![Current] =
                    [rconf[Current] EXCEPT !.request_object = NewObject(Current)]]
    BY <2>2
  <2>5. QED
    BY <1>1, <1>2, <1>4, <2>3, <2>4 DEF LookupReturns, Pop
<1>5. QED
  BY <1>3, <1>4

\* The steps that call a handler.
LEMMA HandlerCalled ==
  ASSUME Types
  PROVE  /\ \A r \in Requests, flush \in BOOLEAN :
              PhaseHandler(r, flush) => HandlerStarts(r, flush, cleanups)
         /\ \A r \in Requests : ErrorLogHandler(r) => HandlerStarts(r, FALSE, cleanups)
         /\ \A p \in Requests : CleanupHandler(p) =>
              /\ cleanups[p] # <<>>
              /\ Head(cleanups[p]) \in AnyCleanup
              /\ Head(cleanups[p])[1] = "handler"
              /\ Head(cleanups[p])[2] \in Requests
              /\ HandlerStarts(Head(cleanups[p])[2], FALSE, Done(p))
<1>1. ASSUME NEW p \in Requests, CleanupHandler(p)
      PROVE  /\ cleanups[p] # <<>>
             /\ Head(cleanups[p]) \in AnyCleanup
             /\ Head(cleanups[p])[1] = "handler"
             /\ Head(cleanups[p])[2] \in Requests
             /\ HandlerStarts(Head(cleanups[p])[2], FALSE, Done(p))
  <2>1. cleanups[p] # <<>> /\ Head(cleanups[p])[1] = "handler"
        /\ Begin(Head(cleanups[p])[2], FALSE, Done(p))
    BY <1>1 DEF CleanupHandler, Due
  <2>2. Head(cleanups[p]) \in AnyCleanup
    BY <2>1, DoneEffect
  <2>3. Head(cleanups[p])[2] \in Requests
    BY <2>1, <2>2, CleanupRequests
  <2>4. QED
    BY <2>1, <2>2, <2>3, BeginStarts
<1>2. QED
  BY <1>1, BeginStarts DEF PhaseHandler, ErrorLogHandler

\* The steps that make a request.
LEMMA RequestMade ==
  ASSUME Types
  PROVE  \A s \in Others :
           /\ LookupUri(s) => /\ Current \in Requests
                              /\ SubrequestMade(s, Current)
                              /\ [does |-> "lookup", req |-> s] \in Frames
                              /\ frames' = <<[does |-> "lookup", req |-> s]>> \o frames
           /\ InternalRedirect(s) => /\ Current \in Requests
                                     /\ RedirectMade(s, Current)
                                     /\ [does |-> "redirect", req |-> s] \in Frames
                                     /\ frames' = <<[does |-> "redirect", req |-> s]>> \o frames
           /\ \A r \in Requests : /\ ApacheSubrequest(s, r) => SubrequestMade(s, r)
                                  /\ ErrorDocument(s, r) => RedirectMade(s, r)
<1> TAKE s \in Others
<1>1. s \in Requests
  BY DEF Requests
<1>2. [does |-> "lookup", req |-> s] \in Frames /\ [does |-> "redirect", req |-> s] \in Frames
  BY <1>1 DEF Frames
<1>3. LookupUri(s) => frames # <<>> /\ SubrequestMade(s, Current)
                      /\ frames' = <<[does |-> "lookup", req |-> s]>> \o frames
  BY DEF LookupUri, Running, NewSubrequest, SubrequestMade, Push
<1>4. InternalRedirect(s) => frames # <<>> /\ RedirectMade(s, Current)
                      /\ frames' = <<[does |-> "redirect", req |-> s]>> \o frames
  BY DEF InternalRedirect, Running, NewRedirect, RedirectMade, Push
<1>5. frames # <<>> => Current \in Requests
  BY TopFrame
<1>6. \A r \in Requests : /\ ApacheSubrequest(s, r) => SubrequestMade(s, r)
                          /\ ErrorDocument(s, r) => RedirectMade(s, r)
  BY DEF ApacheSubrequest, ErrorDocument, NewSubrequest, SubrequestMade,
         NewRedirect, RedirectMade
<1>7. QED
  BY <1>2, <1>3, <1>4, <1>5, <1>6

\* The variables that steps of Apache leave alone.
Unhurt == UNCHANGED <<handled, made, registered, destroyed, orphans, rconf, rb_request, env>>

LEMMA TypesStep ==
  ASSUME Types, ChainsEnd, ChainsHaveLast, Next
  PROVE  Types'
<1> USE DEF apacheVars, objectVars
<1>0. cleanups \in [Requests -> Seq(AnyCleanup)]
  BY DEF Types
<1>1. ASSUME NEW r \in Requests, NEW flush \in BOOLEAN, PhaseHandler(r, flush)
      PROVE  Types'
  BY <1>0, <1>1, HandlerCalled, BeginTypes
<1>2. ASSUME NEW r \in Requests, ErrorLogHandler(r)
      PROVE  Types'
  BY <1>0, <1>2, HandlerCalled, BeginTypes
<1>3. ASSUME NEW r \in Requests, EndRequest(r)
      PROVE  Types'
  <2>1. status' = [q \in Requests |-> IF q \in Below(r) /\ status[q] \in {"live", "lookedUp"}
                                     THEN "dying" ELSE status[q]]
    BY <1>3 DEF EndRequest
  <2>2. status' \in [Requests -> {"fresh", "live", "lookedUp", "dying", "gone"}]
    BY <2>1 DEF Types
  <2>3. QED
    BY <1>3, <2>2 DEF Types, EndRequest
<1>4. ASSUME NEW r \in Requests, Accept(r)
      PROVE  Types'
  <2>1. <<"handler", r>> \in AnyCleanup
    BY DEF AnyCleanup
  <2>2. <<<<"handler", r>>>> \in Seq(AnyCleanup)
    BY <2>1
  <2>3. cleanups' \in [Requests -> Seq(AnyCleanup)]
    BY <1>0, <1>4, <2>2 DEF Accept
  <2>4. status' \in [Requests -> {"fresh", "live", "lookedUp", "dying", "gone"}]
    BY <1>4 DEF Types, Accept
  <2>5. QED
    BY <1>4, <2>3, <2>4 DEF Types, Accept
<1>5. CASE SetupCgiEnv
  <2>1. frames # <<>> /\ env' = Current
    BY <1>5 DEF SetupCgiEnv, Running
  <2>2. env' \in Envs
    BY <2>1, TopFrame DEF Envs
  <2>3. QED
    BY <1>5, <2>2 DEF Types, SetupCgiEnv
<1>6. ASSUME NEW ok \in BOOLEAN, EndHandler(ok)
      PROVE  Types'
  BY <1>6, EndHandlerEnds, EndTypes
<1>7. ASSUME NEW s \in Others, LookupUri(s)
      PROVE  Types'
  <2>1. /\ Current \in Requests
        /\ SubrequestMade(s, Current)
        /\ [does |-> "lookup", req |-> s] \in Frames
        /\ frames' = <<[does |-> "lookup", req |-> s]>> \o frames
    BY <1>7, RequestMade
  <2>2. frames' \in Seq(Frames)
    BY <2>1, PushFrame
  <2>3. UNCHANGED <<scenario, ruby_is_threaded_mpm>> /\ Unhurt
    BY <1>7 DEF LookupUri, NewSubrequest, Unhurt
  <2>4. QED
    BY <2>1, <2>2, <2>3, SubrequestTypes DEF Types, Unhurt
<1>8. ASSUME NEW s \in Others, InternalRedirect(s)
      PROVE  Types'
  <2>1. /\ Current \in Requests
        /\ RedirectMade(s, Current)
        /\ [does |-> "redirect", req |-> s] \in Frames
        /\ frames' = <<[does |-> "redirect", req |-> s]>> \o frames
    BY <1>8, RequestMade
  <2>2. frames' \in Seq(Frames)
    BY <2>1, PushFrame
  <2>3. UNCHANGED <<scenario, ruby_is_threaded_mpm>> /\ Unhurt
    BY <1>8 DEF InternalRedirect, NewRedirect, Unhurt
  <2>4. QED
    BY <2>1, <2>2, <2>3, RedirectTypes DEF Types, Unhurt
<1>9. CASE LookupReturns
  <2> DEFINE s == Current
  <2>1. /\ s \in Requests
        /\ MakeObjects({s}, cleanups)
        /\ rconf[s] = None =>
             /\ orphans' = orphans \cup {NewObject(s)}
             /\ rconf' = rconf
        /\ rconf[s] # None =>
             /\ orphans' = orphans \cup {rconf[s].request_object}
             /\ rconf' = [rconf EXCEPT ![s] = [saved_env |-> rconf[s].saved_env,
                                               request_object |-> NewObject(s)]]
        /\ status' = [q \in Requests |->
              IF status[q] = "live" /\ pool[q] = s THEN "lookedUp" ELSE status[q]]
        /\ frames # <<>> /\ frames' = Tail(frames)
    BY <1>9, LookupReturnsEffect
  <2> HIDE DEF s
  <2>2. /\ made' \in [Requests -> Nat]
        /\ registered' \subseteq AnyObject
        /\ destroyed' = destroyed
        /\ cleanups' \in [Requests -> Seq(AnyCleanup)]
    <3>1. {s} \in SUBSET Requests
      BY <2>1
    <3>2. QED
      BY <1>0, <2>1, <3>1, MakeEffect
  <2>3. frames' \in Seq(Frames)
    BY <2>1, TopFrame
  <2>4. NewObject(s) \in AnyObject
    BY <2>1 DEF Types, NewObject, AnyObject
  <2>5. rconf[s] # None => rconf[s] \in Configs
    BY <2>1 DEF Types
  <2>6. orphans' \subseteq AnyObject /\ rconf' \in [Requests -> Configs \cup {None}]
    <3>1. CASE rconf[s] = None
      <4>1. orphans' = orphans \cup {NewObject(s)} /\ rconf' = rconf
        BY <2>1, <3>1
      <4>2. QED
        BY <2>4, <4>1 DEF Types
    <3>2. CASE rconf[s] # None
      <4> DEFINE c == [saved_env |-> rconf[s].saved_env, request_object |-> NewObject(s)]
      <4>1. orphans' = orphans \cup {rconf[s].request_object} /\ rconf' = [rconf EXCEPT ![s] = c]
        BY <2>1, <3>2
      <4>2. c \in Configs /\ rconf[s].request_object \in AnyObject
        BY <2>4, <2>5, <3>2 DEF Configs
      <4> HIDE DEF c
      <4>3. QED
        BY <4>1, <4>2 DEF Types
    <3>3. QED
      BY <3>1, <3>2
  <2>7. status' \in [Requests -> {"fresh", "live", "lookedUp", "dying", "gone"}]
    BY <2>1 DEF Types
  <2>8. UNCHANGED <<scenario, ruby_is_threaded_mpm, main, next, pool, handled, rb_request, env>>
    BY <1>9 DEF LookupReturns
  <2>9. QED
    BY <2>2, <2>3, <2>6, <2>7, <2>8 DEF Types
<1>10. CASE RedirectReturns
  <2>1. frames # <<>> /\ frames' = Tail(frames)
    BY <1>10 DEF RedirectReturns, Running, Pop
  <2>2. frames' \in Seq(Frames)
    BY <2>1, TopFrame
  <2>3. QED
    BY <1>10, <2>2 DEF Types, RedirectReturns
<1>11. ASSUME NEW s \in Others, NEW r \in Requests, ApacheSubrequest(s, r)
       PROVE  Types'
  <2>1. SubrequestMade(s, r)
    BY <1>11, RequestMade
  <2>2. UNCHANGED <<scenario, ruby_is_threaded_mpm, frames>> /\ Unhurt
    BY <1>11 DEF ApacheSubrequest, NewSubrequest, Unhurt
  <2>3. QED
    BY <2>1, <2>2, SubrequestTypes DEF Types, Unhurt
<1>12. ASSUME NEW s \in Others, NEW r \in Requests, ErrorDocument(s, r)
       PROVE  Types'
  <2>1. RedirectMade(s, r)
    BY <1>12, RequestMade
  <2>2. UNCHANGED <<scenario, ruby_is_threaded_mpm, frames>> /\ Unhurt
    BY <1>12 DEF ErrorDocument, NewRedirect, Unhurt
  <2>3. QED
    BY <2>1, <2>2, RedirectTypes DEF Types, Unhurt
<1>13. ASSUME NEW p \in Requests, CleanupHandler(p)
       PROVE  Types'
  <2>1. /\ cleanups[p] # <<>>
        /\ Head(cleanups[p])[2] \in Requests
        /\ HandlerStarts(Head(cleanups[p])[2], FALSE, Done(p))
    BY <1>13, HandlerCalled
  <2>2. Done(p) \in [Requests -> Seq(AnyCleanup)]
    BY <2>1, DoneEffect
  <2>3. QED
    BY <2>1, <2>2, BeginTypes
<1>14. ASSUME NEW p \in Requests, NoCleanupHandler(p)
       PROVE  Types'
  <2>1. cleanups[p] # <<>> /\ cleanups' = Done(p)
    BY <1>14 DEF NoCleanupHandler, Due
  <2>2. cleanups' \in [Requests -> Seq(AnyCleanup)]
    BY <2>1, DoneEffect
  <2>3. QED
    BY <1>14, <2>2 DEF Types, NoCleanupHandler
<1>15. ASSUME NEW p \in Requests, CleanupRequestObject(p)
       PROVE  Types'
  <2>1. PICK r \in Requests :
           /\ cleanups' \in [Requests -> Seq(AnyCleanup)]
           /\ IF rconf[r] = None
                THEN destroyed' = destroyed /\ rconf' = rconf
                ELSE /\ destroyed' = destroyed \cup {rconf[r].request_object}
                     /\ rconf' = [rconf EXCEPT ![r] = None]
                     /\ rconf[r].request_object \in AnyObject
    BY <1>15, ObjectCleanupEffect
  <2>2. destroyed' \subseteq AnyObject /\ rconf' \in [Requests -> Configs \cup {None}]
    BY <2>1 DEF Types
  <2>3. QED
    BY <1>15, <2>1, <2>2 DEF Types, CleanupRequestObject
<1>16. ASSUME NEW p \in Requests, UnregisterObject(p)
       PROVE  Types'
  <2>1. cleanups[p] # <<>> /\ cleanups' = Done(p)
    BY <1>16 DEF UnregisterObject, Due
  <2>2. cleanups' \in [Requests -> Seq(AnyCleanup)]
    BY <2>1, DoneEffect
  <2>3. registered' \subseteq AnyObject
    BY <1>16 DEF UnregisterObject, Unregistered, Types
  <2>4. QED
    BY <1>16, <2>2, <2>3 DEF Types, UnregisterObject
<1>17. ASSUME NEW p \in Requests, PoolGone(p)
       PROVE  Types'
  <2>1. status' \in [Requests -> {"fresh", "live", "lookedUp", "dying", "gone"}]
    BY <1>17 DEF Types, PoolGone
  <2>2. QED
    BY <1>17, <2>1 DEF Types, PoolGone
<1>18. CASE Idle
  BY <1>18 DEF Types, Idle, vars
<1>19. QED
  BY <1>1, <1>2, <1>3, <1>4, <1>5, <1>6, <1>7, <1>8, <1>9, <1>10, <1>11, <1>12, <1>13, <1>14,
     <1>15, <1>16, <1>17, <1>18 DEF Next

-----------------------------------------------------------------------------
(* Chains of redirects end, and a request Apache has not made is in none.  *)

\* A step that neither makes a request nor changes what a request is part of.
StaysMade ==
  /\ UNCHANGED <<main, next, pool>>
  /\ \A q \in Requests : status[q] # "fresh" => status'[q] # "fresh"

LEMMA ApacheStep ==
  ASSUME Types, Next
  PROVE  \/ \E s \in Others, r \in Requests : SubrequestMade(s, r)
         \/ \E s \in Others, r \in Requests : RedirectMade(s, r)
         \/ StaysMade
<1> USE DEF apacheVars, objectVars
<1>1. ASSUME NEW r \in Requests, NEW flush, NEW cl, HandlerStarts(r, flush, cl)
      PROVE  StaysMade
  BY <1>1 DEF HandlerStarts, StaysMade
<1>2. ASSUME NEW r \in Requests, EndRequest(r)
      PROVE  StaysMade
  BY <1>2 DEF EndRequest, StaysMade
<1>3. ASSUME NEW r \in Requests, Accept(r)
      PROVE  StaysMade
  BY <1>3 DEF Accept, StaysMade, Types
<1>4. CASE SetupCgiEnv \/ RedirectReturns \/ Idle \/ LookupReturns
  BY <1>4 DEF SetupCgiEnv, RedirectReturns, Idle, LookupReturns, StaysMade, vars
<1>5. ASSUME NEW ok \in BOOLEAN, EndHandler(ok)
      PROVE  StaysMade
  BY <1>5 DEF EndHandler, StaysMade
<1>6. ASSUME NEW p \in Requests,
             NoCleanupHandler(p) \/ CleanupRequestObject(p) \/ UnregisterObject(p) \/ PoolGone(p)
      PROVE  StaysMade
  BY <1>6 DEF NoCleanupHandler, CleanupRequestObject, UnregisterObject, PoolGone, StaysMade
<1>7. \A r \in Requests, flush \in BOOLEAN : PhaseHandler(r, flush) => StaysMade
  BY <1>1, HandlerCalled
<1>8. \A r \in Requests : ErrorLogHandler(r) => StaysMade
  BY <1>1, HandlerCalled
<1>9. \A p \in Requests : CleanupHandler(p) => StaysMade
  BY <1>1, HandlerCalled
<1>10. QED
  BY <1>2, <1>3, <1>4, <1>5, <1>6, <1>7, <1>8, <1>9, RequestMade DEF Next

LEMMA ChainsEndStep ==
  ASSUME Types, FreshIsNew, ChainsEnd,
         NEW s \in Others, NEW r \in Requests, RedirectMade(s, r)
  PROVE  ChainsEnd'
<1>1. /\ s \in Requests /\ next[s] = None /\ s # r
      /\ next' = [next EXCEPT ![r] = s]
      /\ next \in [Requests -> Requests \cup {None}]
      /\ None \notin Requests
  BY HandlersAssumption DEF FreshIsNew, RedirectMade, Types, Requests
<1> SUFFICES ASSUME NEW S \in SUBSET Requests, S # {}
             PROVE  \E q \in S : next'[q] \notin S
  BY DEF ChainsEnd
<1>2. CASE s \in S
  BY <1>1, <1>2
<1>3. CASE s \notin S /\ r \in S
  BY <1>1, <1>3
<1>4. CASE r \notin S
  <2>1. PICK q \in S : next[q] \notin S
    BY DEF ChainsEnd
  <2>2. QED
    BY <1>1, <1>4, <2>1
<1>5. QED
  BY <1>2, <1>3, <1>4

LEMMA ChainsHaveLastStep ==
  ASSUME Types, FreshIsNew, ChainsHaveLast,
         NEW s \in Others, NEW r \in Requests, RedirectMade(s, r)
  PROVE  ChainsHaveLast'
<1>1. /\ s \in Requests /\ next[s] = None /\ s # r
      /\ next' = [next EXCEPT ![r] = s]
      /\ next \in [Requests -> Requests \cup {None}]
      /\ None \notin Requests
  BY HandlersAssumption DEF FreshIsNew, RedirectMade, Types, Requests
<1>2. PICK f \in [Requests -> Requests] :
        f = [q \in Requests |-> IF next[q] = None THEN q ELSE f[next[q]]]
  BY DEF ChainsHaveLast
<1>3. \A q \in Requests : f[q] = IF next[q] = None THEN q ELSE f[next[q]]
  BY <1>2, Zenon
\* The requests from which the chain leads through r.
<1> DEFINE Closed(T) == r \in T /\ \A x \in Requests : next[x] \in T => x \in T
           P == {q \in Requests : \A T \in SUBSET Requests : Closed(T) => q \in T}
           g == [q \in Requests |-> IF q \in P THEN s ELSE f[q]]
<1>4. r \in P
  OBVIOUS
<1>5. \A x \in Requests : next[x] \in P => x \in P
  OBVIOUS
<1>6. ASSUME NEW q \in Requests, q # r, next[q] \notin P
      PROVE  q \notin P
  <2> DEFINE T == P \ {q}
  <2>1. T \in SUBSET Requests
    OBVIOUS
  <2>2. Closed(T)
    <3>1. r \in T
      BY <1>4, <1>6
    <3>2. ASSUME NEW x \in Requests, next[x] \in T
          PROVE  x \in T
      <4>1. x \in P /\ next[x] \in P
        BY <1>5, <3>2
      <4>2. x # q
        BY <1>6, <4>1
      <4>3. QED
        BY <4>1, <4>2
    <3>3. QED
      BY <3>1, <3>2
  <2>3. q \notin T
    OBVIOUS
  <2> HIDE DEF T
  <2>4. QED
    BY <2>1, <2>2, <2>3
<1> HIDE DEF P
<1>7. g \in [Requests -> Requests]
  BY <1>1
<1>8. ASSUME NEW q \in Requests
      PROVE  g[q] = IF next'[q] = None THEN q ELSE g[next'[q]]
  <2>1. g[s] = s
    BY <1>1, <1>3
  <2>2. CASE q = r
    BY <1>1, <1>4, <2>1, <2>2
  <2>3. CASE q # r /\ next[q] = None
    <3>1. next[q] \notin P
      BY <1>1, <2>3 DEF P
    <3>2. q \notin P
      BY <1>6, <2>3, <3>1
    <3>3. QED
      BY <1>1, <1>3, <2>3, <3>2
  <2>4. CASE q # r /\ next[q] # None
    <3>1. next'[q] = next[q] /\ next[q] \in Requests
      BY <1>1, <2>4
    <3>2. f[q] = f[next[q]]
      BY <1>3, <2>4
    <3>3. CASE next[q] \in P
      BY <1>5, <2>4, <3>1, <3>3
    <3>4. CASE next[q] \notin P
      BY <1>6, <2>4, <3>1, <3>2, <3>4
    <3>5. QED
      BY <3>3, <3>4
  <2>5. QED
    BY <2>2, <2>3, <2>4
<1> HIDE DEF g
<1>9. g = [q \in Requests |-> IF next'[q] = None THEN q ELSE g[next'[q]]]
  BY <1>7, <1>8
<1>10. QED
  BY <1>7, <1>9 DEF ChainsHaveLast

LEMMA KnownStep ==
  ASSUME Known, Next
  PROVE  Known'
<1> USE DEF Known
<1>1. Types'
  BY TypesStep
<1>2. CASE StaysMade
  <2>1. ChainsEnd' /\ ChainsHaveLast'
    BY <1>2 DEF StaysMade, ChainsEnd, ChainsHaveLast
  <2>2. FreshIsNew'
    BY <1>2 DEF StaysMade, FreshIsNew
  <2>3. QED
    BY <1>1, <2>1, <2>2
<1>3. ASSUME NEW s \in Others, NEW r \in Requests, SubrequestMade(s, r)
      PROVE  Known'
  <2>1. ChainsEnd' /\ ChainsHaveLast'
    BY <1>3 DEF SubrequestMade, ChainsEnd, ChainsHaveLast
  <2>2. FreshIsNew'
    BY <1>3 DEF SubrequestMade, FreshIsNew, Types
  <2>3. QED
    BY <1>1, <2>1, <2>2
<1>4. ASSUME NEW s \in Others, NEW r \in Requests, RedirectMade(s, r)
      PROVE  Known'
  <2>1. ChainsEnd' /\ ChainsHaveLast'
    BY <1>4, ChainsEndStep, ChainsHaveLastStep
  <2>2. FreshIsNew'
    BY <1>4 DEF RedirectMade, FreshIsNew, Types
  <2>3. QED
    BY <1>1, <2>1, <2>2
<1>5. QED
  BY <1>2, <1>3, <1>4, ApacheStep

LEMMA KnownInit == Init => Known
<1> SUFFICES ASSUME Init PROVE Known
  OBVIOUS
<1>1. Types
  BY HandlersAssumption DEF Init, Types, Envs
<1>2. ChainsEnd
  BY HandlersAssumption DEF Init, ChainsEnd
<1>3. ChainsHaveLast
  <2> DEFINE f == [q \in Requests |-> q]
  <2>1. f \in [Requests -> Requests]
    OBVIOUS
  <2>2. f = [q \in Requests |-> IF next[q] = None THEN q ELSE f[next[q]]]
    BY DEF Init
  <2> HIDE DEF f
  <2>3. QED
    BY <2>1, <2>2 DEF ChainsHaveLast
<1>4. FreshIsNew
  BY DEF Init, FreshIsNew
<1>5. QED
  BY <1>1, <1>2, <1>3, <1>4 DEF Known

LEMMA KnownStutter == ASSUME Known, UNCHANGED vars PROVE Known'
<1> USE DEF vars, apacheVars, objectVars
<1>1. Types'
  BY DEF Known, Types
<1>2. ChainsEnd' /\ ChainsHaveLast'
  BY DEF Known, ChainsEnd, ChainsHaveLast
<1>3. FreshIsNew'
  BY DEF Known, FreshIsNew
<1>4. QED
  BY <1>1, <1>2, <1>3 DEF Known

LEMMA AlwaysKnown == Spec => []Known
<1>1. Known /\ [Next]_vars => Known'
  BY KnownStep, KnownStutter
<1>2. QED
  BY <1>1, KnownInit, PTL DEF Spec

-----------------------------------------------------------------------------
(* Pools.                                                                  *)

\* The request a cleanup is about.
Of(c) == IF c[1] = "unregister" THEN c[2][1] ELSE c[2]
\* The states of a request between its making and the end of its pool.
Alive == {"live", "lookedUp", "dying"}

\* A redirect has the pool and the main request of the request it is made for.
ChainsShare ==
  \A r \in Requests : next[r] # None => pool[next[r]] = pool[r] /\ main[next[r]] = main[r]
\* No request refers to one that Apache has not made, and its pool has no cleanups.
FreshIsUnknown ==
  \A r \in Requests :
    /\ main[r] # None => status[main[r]] # "fresh"
    /\ next[r] # None => status[next[r]] # "fresh"
    /\ status[r] # "fresh" => status[pool[r]] # "fresh"
    /\ status[r] = "fresh" => Elements(cleanups[r]) = {}
\* An rconf holds an object of its own request.
ConfigsOwn ==
  \A r \in Requests : rconf[r] # None => rconf[r].request_object[1] = r
\* A cleanup is on the pool of the request it is about.
CleanupsInPool ==
  \A p \in Requests : \A c \in Elements(cleanups[p]) :
    pool[Of(c)] = p /\ status[Of(c)] # "fresh"
\* The requests of a pool go together.
PoolsGoWhole ==
  \A q, r \in Requests : pool[q] = pool[r] /\ status[q] = "gone" => status[r] = "gone"
\* A subrequest does not outlive the request it was made for.
MainOutlives ==
  \A r \in Requests : main[r] # None /\ status[r] # "gone" => status[main[r]] # "gone"
\* A pool that is gone has run its cleanups.
NoCleanupsLeft ==
  \A r \in Requests : status[r] = "gone" => Elements(cleanups[pool[r]]) = {}
\* A request on the C stack is alive, and one being looked up has a main request.
FramesKnown ==
  \A f \in Elements(frames) :
    /\ status[f.req] \in Alive
    /\ f.does = "lookup" => main[f.req] # None
\* The second layer of the invariant.
Pools == /\ ChainsShare /\ FreshIsUnknown /\ ConfigsOwn /\ CleanupsInPool
         /\ PoolsGoWhole /\ MainOutlives /\ NoCleanupsLeft /\ FramesKnown

\* What a step adds to the cleanups and the C stack, and when a pool goes.
CleanupsAdded ==
  \A p \in Requests : \A c \in Elements(cleanups'[p]) :
    \/ c \in Elements(cleanups[p])
    \/ Of(c) \in Requests /\ pool'[Of(c)] = p /\ status'[Of(c)] \in Alive
FramesAdded ==
  \A f \in Elements(frames') :
    \/ f \in Elements(frames)
    \/ /\ f.req \in Requests /\ status'[f.req] \in Alive
       /\ f.does = "lookup" => main'[f.req] # None
\* The end of the pool p.
PoolGoes(p) ==
  /\ pool[p] = p
  /\ Elements(cleanups[p]) = {}
  /\ UNCHANGED <<main, next, pool, cleanups, frames>>
  /\ \A q \in Requests : status'[q] = IF pool[q] = p THEN "gone" ELSE status[q]
  /\ \A q \in Requests : main[q] # None /\ pool[main[q]] = p /\ pool[q] # p => status[q] = "gone"
  /\ \A f \in Elements(frames) : pool[f.req] # p
GoneOrGoing ==
  \/ \A q \in Requests : status'[q] = "gone" <=> status[q] = "gone"
  \/ \E p \in Requests : PoolGoes(p)
\* What a step may add to what Pools is about.
Additions == CleanupsAdded /\ FramesAdded /\ ConfigsOwn' /\ GoneOrGoing

LEMMA AliveFact ==
  ASSUME Types, NEW r \in Requests
  PROVE  status[r] \in Alive <=> status[r] # "fresh" /\ status[r] # "gone"
BY DEF Types, Alive

LEMMA FrameRequests ==
  ASSUME Types, NEW f \in Elements(frames)
  PROVE  f \in Frames /\ f.req \in Requests
<1>1. f \in Frames
  BY ElementsInSet, Zenon DEF Types
<1>2. QED
  BY <1>1 DEF Frames

LEMMA TopAlive ==
  ASSUME Types, FramesKnown, frames # <<>>
  PROVE  /\ Current \in Requests
         /\ status[Current] \in Alive
         /\ Head(frames).does = "lookup" => main[Current] # None
         /\ Elements(Tail(frames)) \subseteq Elements(frames)
<1>1. Elements(frames) = {Head(frames)} \cup Elements(Tail(frames))
  BY PopElements, Zenon DEF Types
<1>2. Head(frames) \in Elements(frames)
  BY <1>1
<1>3. QED
  BY <1>1, <1>2, TopFrame DEF FramesKnown, Current

LEMMA LastShares ==
  ASSUME Known, ChainsShare, FreshIsUnknown, NEW r \in Requests
  PROVE  /\ Last(r) \in Requests
         /\ pool[Last(r)] = pool[r]
         /\ main[Last(r)] = main[r]
         /\ status[r] # "fresh" => status[Last(r)] # "fresh"
<1> DEFINE Shares(q) == /\ pool[Last(q)] = pool[q]
                        /\ main[Last(q)] = main[q]
                        /\ status[q] # "fresh" => status[Last(q)] # "fresh"
           S == {q \in Requests : ~ Shares(q)}
<1>1. \A q \in Requests : /\ Last(q) \in Requests
                          /\ Last(q) = IF next[q] = None THEN q ELSE Last(next[q])
  BY LastFact DEF Known, Types
<1>2. S = {}
  <2> SUFFICES ASSUME S # {} PROVE FALSE
    OBVIOUS
  <2>1. S \in SUBSET Requests
    OBVIOUS
  <2> HIDE DEF S
  <2>2. PICK q \in S : next[q] \notin S
    BY <2>1 DEF ChainsEnd, Known
  <2>3. q \in Requests /\ ~ Shares(q)
    BY DEF S
  <2>4. next[q] # None
    BY <1>1, <2>3
  <2>5. next[q] \in Requests
    BY <2>3, <2>4 DEF Known, Types
  <2>6. Shares(next[q])
    BY <2>2, <2>5 DEF S
  <2>7. Last(q) = Last(next[q])
    BY <1>1, <2>3, <2>4
  <2>8. QED
    BY <2>3, <2>4, <2>6, <2>7 DEF ChainsShare, FreshIsUnknown
<1>3. QED
  BY <1>1, <1>2

\* The requests per_request_cleanup works for.
LEMMA LastAlive ==
  ASSUME Known, Pools, NEW r \in Requests, status[r] \in Alive
  PROVE  /\ Last(r) \in Requests /\ status[Last(r)] \in Alive
         /\ main[Last(r)] # None =>
              main[Last(r)] \in Requests /\ status[main[Last(r)]] \in Alive
<1> DEFINE l == Last(r)
<1>1. l \in Requests /\ pool[l] = pool[r] /\ (status[r] # "fresh" => status[l] # "fresh")
  BY LastShares DEF Pools
<1> HIDE DEF l
<1>2. Types
  BY DEF Known
<1>3. status[l] \in Alive
  BY <1>1, <1>2, AliveFact DEF Pools, PoolsGoWhole
<1>4. main[l] # None =>
        main[l] \in Requests /\ status[main[l]] # "fresh" /\ status[main[l]] # "gone"
  BY <1>1, <1>2, <1>3, AliveFact DEF Pools, MainOutlives, FreshIsUnknown, Types
<1>5. main[l] # None => status[main[l]] \in Alive
  BY <1>2, <1>4, AliveFact
<1>6. QED
  BY <1>1, <1>3, <1>4, <1>5 DEF l

LEMMA PushedFrame ==
  ASSUME Types, NEW f \in Frames, frames' = <<f>> \o frames
  PROVE  Elements(frames') = {f} \cup Elements(frames)
BY PushElements, Zenon DEF Types

LEMMA PoppedFrame ==
  ASSUME Types, frames # <<>>, frames' = Tail(frames)
  PROVE  Elements(frames') \subseteq Elements(frames)
<1>1. Elements(frames) = {Head(frames)} \cup Elements(Tail(frames))
  BY PopElements, Zenon DEF Types
<1>2. QED
  BY <1>1

LEMMA FramesSame ==
  ASSUME frames' = frames
  PROVE  FramesAdded
BY DEF FramesAdded

LEMMA ObjectsAdded ==
  ASSUME Types, NEW S \in SUBSET Requests, \A r \in S : status'[r] \in Alive,
         pool' = pool,
         NEW cl \in [Requests -> Seq(AnyCleanup)], MakeObjects(S, cl),
         \A p \in Requests : Elements(cl[p]) \subseteq Elements(cleanups[p])
  PROVE  CleanupsAdded
<1>1. ObjectsCleaned(S, cl)
  BY MakeEffect
<1> SUFFICES ASSUME NEW p \in Requests, NEW c \in Elements(cleanups'[p]),
                    c \notin Elements(cleanups[p])
             PROVE  Of(c) \in Requests /\ pool'[Of(c)] = p /\ status'[Of(c)] \in Alive
  BY DEF CleanupsAdded
<1>2. PICK r \in S : pool[r] = p /\ c = <<"object", r>>
  BY <1>1 DEF ObjectsCleaned
<1>3. Of(c) = r
  BY <1>2 DEF Of
<1>4. QED
  BY <1>2, <1>3

LEMMA StartAdds ==
  ASSUME Types, Pools, NEW r \in Requests, NEW flush \in BOOLEAN, status[r] \in Alive,
         NEW cl \in [Requests -> Seq(AnyCleanup)], HandlerStarts(r, flush, cl),
         \A p \in Requests : Elements(cl[p]) \subseteq Elements(cleanups[p])
  PROVE  Additions
<1> DEFINE S == IF rconf[r] = None THEN {r} ELSE {}
<1>1. S \in SUBSET Requests /\ MakeObjects(S, cl) /\ \A q \in S : q = r
  BY DEF HandlerStarts
<1>2. status' = status /\ pool' = pool /\ main' = main
  BY DEF HandlerStarts
<1> HIDE DEF S
<1>3. CleanupsAdded
  <2>1. \A q \in S : status'[q] \in Alive
    BY <1>1, <1>2
  <2>2. QED
    BY <1>1, <1>2, <2>1, ObjectsAdded
<1>4. FramesAdded
  <2>1. frames' = <<Handler(r, flush)>> \o frames /\ Handler(r, flush) \in Frames
    BY HandlerFrame DEF HandlerStarts
  <2>2. Elements(frames') = {Handler(r, flush)} \cup Elements(frames)
    BY <2>1, PushedFrame, Zenon
  <2>3. QED
    BY <1>2, <2>2 DEF FramesAdded, Handler
<1>5. ConfigsOwn'
  <2>1. NewObject(r)[1] = r
    BY DEF NewObject
  <2>2. \A q \in Requests : rconf'[q] # None =>
          rconf'[q] = rconf[q] \/ (q = r /\ rconf'[q].request_object = NewObject(r))
    BY DEF HandlerStarts, Types
  <2>3. QED
    BY <2>1, <2>2 DEF ConfigsOwn, Pools
<1>6. QED
  BY <1>2, <1>3, <1>4, <1>5 DEF Additions, GoneOrGoing

LEMMA EndAdds ==
  ASSUME Known, Pools, NEW r, NEW new, HandlerEnds(r, new)
  PROVE  Additions
<1>1. Types
  BY DEF Known
<1>2. /\ frames # <<>> /\ frames' = Tail(frames)
      /\ r = Last(Current)
      /\ MakeObjects(new, cleanups)
      /\ \A q \in new : q = r \/ (main[r] # None /\ q = main[r])
      /\ UNCHANGED <<status, main, next, pool, rconf>>
  BY DEF HandlerEnds
<1>3. new \in SUBSET Requests
  BY EndTypes DEF Known
<1>4. \A q \in new : status'[q] \in Alive
  <2>1. Current \in Requests /\ status[Current] \in Alive
    BY <1>1, <1>2, TopAlive DEF Pools
  <2>2. status[r] \in Alive /\ (main[r] # None => status[main[r]] \in Alive)
    BY <1>2, <2>1, LastAlive
  <2>3. QED
    BY <1>2, <2>2
<1>5. CleanupsAdded
  <2>1. cleanups \in [Requests -> Seq(AnyCleanup)] /\ pool' = pool
    BY <1>1, <1>2 DEF Types
  <2>2. QED
    BY <1>1, <1>2, <1>3, <1>4, <2>1, ObjectsAdded
<1>6. FramesAdded
  BY <1>1, <1>2, PoppedFrame DEF FramesAdded
<1>7. ConfigsOwn'
  BY <1>2 DEF Pools, ConfigsOwn
<1>8. QED
  BY <1>2, <1>5, <1>6, <1>7 DEF Additions, GoneOrGoing

LEMMA LookupReturnsAdds ==
  ASSUME Known, Pools, LookupReturns
  PROVE  Additions
<1>1. Types
  BY DEF Known
<1>2. PICK s \in Requests :
        /\ s = Current
        /\ MakeObjects({s}, cleanups)
        /\ rconf[s] = None => rconf' = rconf
        /\ rconf[s] # None =>
             rconf' = [rconf EXCEPT ![s] = [saved_env |-> rconf[s].saved_env,
                                            request_object |-> NewObject(s)]]
        /\ status' = [q \in Requests |->
              IF status[q] = "live" /\ pool[q] = s THEN "lookedUp" ELSE status[q]]
        /\ frames # <<>> /\ frames' = Tail(frames)
  BY <1>1, LookupReturnsEffect
<1>3. pool' = pool
  BY DEF LookupReturns
<1>4. status[s] \in Alive
  BY <1>1, <1>2, TopAlive DEF Pools
<1>5. \A q \in Requests : /\ status'[q] = "gone" <=> status[q] = "gone"
                          /\ status[q] \in Alive => status'[q] \in Alive
  BY <1>2 DEF Alive
<1>6. CleanupsAdded
  <2>1. cleanups \in [Requests -> Seq(AnyCleanup)]
    BY <1>1 DEF Types
  <2>2. {s} \in SUBSET Requests /\ \A q \in {s} : status'[q] \in Alive
    BY <1>4, <1>5
  <2>3. QED
    BY <1>1, <1>2, <1>3, <2>1, <2>2, ObjectsAdded
<1>7. FramesAdded
  BY <1>1, <1>2, PoppedFrame DEF FramesAdded
<1>8. ConfigsOwn'
  <2>1. NewObject(s)[1] = s
    BY DEF NewObject
  <2>2. \A q \in Requests : rconf'[q] # None =>
          rconf'[q] = rconf[q] \/ (q = s /\ rconf'[q].request_object = NewObject(s))
    BY <1>1, <1>2 DEF Types
  <2>3. QED
    BY <2>1, <2>2 DEF ConfigsOwn, Pools
<1>9. QED
  BY <1>5, <1>6, <1>7, <1>8 DEF Additions, GoneOrGoing

LEMMA SubrequestAdds ==
  ASSUME Types, Pools, FreshIsNew, NEW s \in Others, NEW r \in Requests, SubrequestMade(s, r),
         rconf' = rconf, FramesAdded
  PROVE  Additions
<1>1. ConfigsOwn'
  BY DEF Pools, ConfigsOwn
<1>2. CleanupsAdded
  BY DEF CleanupsAdded, SubrequestMade
<1>3. \A q \in Requests : status'[q] = "gone" <=> status[q] = "gone"
  BY DEF SubrequestMade, Types
<1>4. QED
  BY <1>1, <1>2, <1>3 DEF Additions, GoneOrGoing

LEMMA RedirectAdds ==
  ASSUME Types, Pools, FreshIsNew, NEW s \in Others, NEW r \in Requests, RedirectMade(s, r),
         rconf' = rconf, FramesAdded
  PROVE  Additions
<1>1. ConfigsOwn'
  BY DEF Pools, ConfigsOwn
<1>2. s \in Requests
  BY DEF Requests
<1>3. \A q \in Requests : status'[q] = "gone" <=> status[q] = "gone"
  BY DEF RedirectMade, Types
<1>4. CleanupsAdded
  <2>1. status'[s] \in Alive /\ pool'[s] = pool[r]
    BY <1>2 DEF RedirectMade, Types, Alive
  <2>2. \A p \in Requests : Elements(cleanups'[p]) =
              IF p = pool[r] THEN {<<"handler", s>>} \cup Elements(cleanups[p])
                             ELSE Elements(cleanups[p])
    BY RedirectTypes
  <2>3. Of(<<"handler", s>>) = s
    BY DEF Of
  <2>4. QED
    BY <1>2, <2>1, <2>2, <2>3 DEF CleanupsAdded
<1>5. QED
  BY <1>1, <1>3, <1>4 DEF Additions, GoneOrGoing

\* The request whose handler or object the next cleanup of a pool is about.
LEMMA HeadAlive ==
  ASSUME Types, Pools, NEW p \in Requests, cleanups[p] # <<>>, AtCleanups(p),
         NEW r \in Requests, NEW what \in {"handler", "object"},
         Head(cleanups[p]) = <<what, r>>
  PROVE  pool[r] = p /\ status[r] \in Alive
<1>1. Head(cleanups[p]) \in Elements(cleanups[p])
  BY DoneEffect
<1>2. Of(<<what, r>>) = r
  BY DEF Of
<1>3. pool[r] = p /\ status[r] # "fresh"
  BY <1>1, <1>2 DEF Pools, CleanupsInPool
<1>4. status[p] = "dying" /\ pool[p] = p
  BY DEF AtCleanups
<1>5. status[r] # "gone"
  BY <1>3, <1>4 DEF Pools, PoolsGoWhole
<1>6. QED
  BY <1>3, <1>5, AliveFact

LEMMA AdditionsStep ==
  ASSUME Known, Pools, Next
  PROVE  Additions
<1> USE DEF apacheVars, objectVars
<1>0. /\ Types /\ FreshIsNew
      /\ cleanups \in [Requests -> Seq(AnyCleanup)]
      /\ \A p \in Requests : cleanups[p] \in Seq(AnyCleanup)
  BY DEF Known, Types
\* A step that only changes who waits for what.
<1> DEFINE Quiet == /\ UNCHANGED <<pool, status, main, rconf, frames>>
                    /\ \A p \in Requests : Elements(cleanups'[p]) \subseteq Elements(cleanups[p])
<1>a. ASSUME Quiet PROVE Additions
  BY <1>0, <1>a DEF Pools, Additions, CleanupsAdded, FramesAdded, GoneOrGoing, ConfigsOwn
<1> HIDE DEF Quiet
<1>1. ASSUME NEW r \in Requests, NEW flush \in BOOLEAN, PhaseHandler(r, flush)
      PROVE  Additions
  <2>1. status[r] \in Alive
    BY <1>1 DEF PhaseHandler, Alive
  <2>2. HandlerStarts(r, flush, cleanups)
    BY <1>0, <1>1, HandlerCalled
  <2>3. QED
    BY <1>0, <2>1, <2>2, StartAdds
<1>2. ASSUME NEW r \in Requests, ErrorLogHandler(r)
      PROVE  Additions
  <2>1. frames # <<>> /\ r = Current
    BY <1>2 DEF ErrorLogHandler, Running
  <2>2. status[r] \in Alive
    BY <1>0, <2>1, TopAlive DEF Pools
  <2>3. HandlerStarts(r, FALSE, cleanups)
    BY <1>0, <1>2, HandlerCalled
  <2>4. QED
    BY <1>0, <2>2, <2>3, StartAdds
<1>3. ASSUME NEW r \in Requests, EndRequest(r)
      PROVE  Additions
  <2>1. status' = [q \in Requests |-> IF q \in Below(r) /\ status[q] \in {"live", "lookedUp"}
                                     THEN "dying" ELSE status[q]]
        /\ UNCHANGED <<main, next, pool, cleanups, rconf, frames>>
    BY <1>3 DEF EndRequest
  <2>2. \A q \in Requests : status'[q] = "gone" <=> status[q] = "gone"
    BY <2>1
  <2>3. QED
    BY <2>1, <2>2 DEF Pools, Additions, CleanupsAdded, FramesAdded, GoneOrGoing, ConfigsOwn
<1>4. ASSUME NEW r \in Requests, Accept(r)
      PROVE  Additions
  <2>1. /\ status[r] = "fresh"
        /\ status' = [status EXCEPT ![r] = "live"]
        /\ cleanups' = [cleanups EXCEPT ![r] = <<<<"handler", r>>>>]
        /\ UNCHANGED <<main, next, pool, rconf, frames>>
    BY <1>4 DEF Accept
  <2>2. status'[r] \in Alive /\ pool'[r] = r
        /\ \A q \in Requests : status'[q] = "gone" <=> status[q] = "gone"
    BY <1>0, <2>1 DEF FreshIsNew, Types, Alive
  <2>3. \A p \in Requests : \A c \in Elements(cleanups'[p]) :
           c \in Elements(cleanups[p]) \/ (p = r /\ c = <<"handler", r>>)
    <3> DEFINE e == <<"handler", r>>
               t == <<e>>
    <3>1. Elements(t) = {e}
      BY DEF Elements
    <3> HIDE DEF e, t
    <3>2. cleanups' = [cleanups EXCEPT ![r] = t]
      BY <2>1 DEF t, e
    <3>3. QED
      BY <1>0, <3>1, <3>2 DEF e
  <2>4. CleanupsAdded
    <3>1. Of(<<"handler", r>>) = r
      BY DEF Of
    <3>2. QED
      BY <2>2, <2>3, <3>1 DEF CleanupsAdded
  <2>5. QED
    BY <2>1, <2>2, <2>4 DEF Pools, Additions, FramesAdded, GoneOrGoing, ConfigsOwn
<1>5. CASE SetupCgiEnv
  BY <1>5, <1>a DEF SetupCgiEnv, Quiet
<1>6. ASSUME NEW ok \in BOOLEAN, EndHandler(ok)
      PROVE  Additions
  BY <1>6, EndHandlerEnds, EndAdds
<1>7. ASSUME NEW s \in Others, LookupUri(s)
      PROVE  Additions
  <2> DEFINE f == [does |-> "lookup", req |-> s]
  <2>1. Current \in Requests /\ SubrequestMade(s, Current)
        /\ f \in Frames /\ frames' = <<f>> \o frames
    BY <1>0, <1>7, RequestMade
  <2>2. Elements(frames') = {f} \cup Elements(frames)
    BY <1>0, <2>1, PushedFrame, Zenon
  <2>3. s \in Requests /\ status'[s] \in Alive /\ main'[s] # None
    BY <1>0, <2>1, HandlersAssumption DEF SubrequestMade, Types, Alive, Requests
  <2>4. FramesAdded
    BY <2>2, <2>3 DEF FramesAdded
  <2>5. rconf' = rconf
    BY <1>7 DEF LookupUri
  <2>6. QED
    BY <1>0, <2>1, <2>4, <2>5, SubrequestAdds
<1>8. ASSUME NEW s \in Others, InternalRedirect(s)
      PROVE  Additions
  <2> DEFINE f == [does |-> "redirect", req |-> s]
  <2>1. Current \in Requests /\ RedirectMade(s, Current)
        /\ f \in Frames /\ frames' = <<f>> \o frames
    BY <1>0, <1>8, RequestMade
  <2>2. Elements(frames') = {f} \cup Elements(frames)
    BY <1>0, <2>1, PushedFrame, Zenon
  <2>3. s \in Requests /\ status'[s] \in Alive
    BY <1>0, <2>1 DEF RedirectMade, Types, Alive, Requests
  <2>4. FramesAdded
    BY <2>2, <2>3 DEF FramesAdded
  <2>5. rconf' = rconf
    BY <1>8 DEF InternalRedirect
  <2>6. QED
    BY <1>0, <2>1, <2>4, <2>5, RedirectAdds
<1>9. CASE LookupReturns
  BY <1>9, LookupReturnsAdds
<1>10. CASE RedirectReturns
  <2>1. frames # <<>> /\ frames' = Tail(frames)
        /\ UNCHANGED <<status, main, pool, cleanups, rconf>>
    BY <1>10 DEF RedirectReturns, Running, Pop
  <2>2. FramesAdded
    BY <1>0, <2>1, PoppedFrame DEF FramesAdded
  <2>3. QED
    BY <2>1, <2>2 DEF Pools, Additions, CleanupsAdded, GoneOrGoing, ConfigsOwn
<1>11. ASSUME NEW s \in Others, NEW r \in Requests, ApacheSubrequest(s, r)
       PROVE  Additions
  <2>1. SubrequestMade(s, r) /\ rconf' = rconf /\ frames' = frames
    BY <1>0, <1>11, RequestMade DEF ApacheSubrequest
  <2>2. QED
    BY <1>0, <2>1, FramesSame, SubrequestAdds
<1>12. ASSUME NEW s \in Others, NEW r \in Requests, ErrorDocument(s, r)
       PROVE  Additions
  <2>1. RedirectMade(s, r) /\ rconf' = rconf /\ frames' = frames
    BY <1>0, <1>12, RequestMade DEF ErrorDocument
  <2>2. QED
    BY <1>0, <2>1, FramesSame, RedirectAdds
<1>13. ASSUME NEW p \in Requests, CleanupHandler(p)
       PROVE  Additions
  <2> DEFINE r == Head(cleanups[p])[2]
  <2>1. /\ cleanups[p] # <<>>
        /\ Head(cleanups[p]) \in AnyCleanup
        /\ Head(cleanups[p])[1] = "handler"
        /\ r \in Requests
        /\ HandlerStarts(r, FALSE, Done(p))
    BY <1>0, <1>13, HandlerCalled
  <2>2. Head(cleanups[p]) = <<"handler", r>> /\ AtCleanups(p)
    BY <1>13, <2>1, CleanupRequests DEF CleanupHandler, Due
  <2> HIDE DEF r
  <2>3. status[r] \in Alive
    BY <1>0, <2>1, <2>2, HeadAlive
  <2>4. Done(p) \in [Requests -> Seq(AnyCleanup)]
        /\ \A q \in Requests : Elements(Done(p)[q]) \subseteq Elements(cleanups[q])
    BY <1>0, <2>1, DoneEffect
  <2>5. QED
    BY <1>0, <2>1, <2>3, <2>4, StartAdds
<1>14. ASSUME NEW p \in Requests, NoCleanupHandler(p) \/ UnregisterObject(p)
       PROVE  Additions
  <2>1. cleanups[p] # <<>> /\ cleanups' = Done(p)
        /\ UNCHANGED <<pool, status, main, rconf, frames>>
    BY <1>14 DEF NoCleanupHandler, UnregisterObject, Due
  <2>2. \A q \in Requests : Elements(cleanups'[q]) \subseteq Elements(cleanups[q])
    BY <1>0, <2>1, DoneEffect
  <2>3. QED
    BY <2>1, <2>2, <1>a DEF Quiet
<1>15. ASSUME NEW p \in Requests, CleanupRequestObject(p)
       PROVE  Additions
  <2>1. PICK r \in Requests :
           /\ cleanups[p] # <<>>
           /\ Head(cleanups[p]) = <<"object", r>>
           /\ \A q \in Requests : q # p => cleanups'[q] = cleanups[q]
           /\ IF rconf[r] = None
                THEN /\ Elements(cleanups'[p]) = Elements(Tail(cleanups[p]))
                     /\ destroyed' = destroyed
                     /\ rconf' = rconf
                ELSE /\ Elements(cleanups'[p]) =
                          {<<"unregister", rconf[r].request_object>>}
                             \cup Elements(Tail(cleanups[p]))
                     /\ destroyed' = destroyed \cup {rconf[r].request_object}
                     /\ rconf' = [rconf EXCEPT ![r] = None]
                     /\ rconf[r].request_object \in AnyObject
    BY <1>0, <1>15, ObjectCleanupEffect
  <2>2. AtCleanups(p) /\ UNCHANGED <<status, main, next, pool, frames>>
    BY <1>15 DEF CleanupRequestObject, Due
  <2>3. pool[r] = p /\ status[r] \in Alive
    BY <1>0, <2>1, <2>2, HeadAlive
  <2>4. Elements(Tail(cleanups[p])) \subseteq Elements(cleanups[p])
    BY <1>0, <2>1, DoneEffect
  <2>5. CleanupsAdded
    <3>1. CASE rconf[r] = None
      BY <2>1, <2>4, <3>1 DEF CleanupsAdded
    <3>2. CASE rconf[r] # None
      <4>1. Of(<<"unregister", rconf[r].request_object>>) = r
        BY <3>2 DEF Of, Pools, ConfigsOwn
      <4>2. QED
        BY <2>1, <2>2, <2>3, <2>4, <3>2, <4>1 DEF CleanupsAdded
    <3>3. QED
      BY <3>1, <3>2
  <2>6. ConfigsOwn'
    BY <1>0, <2>1 DEF Pools, ConfigsOwn, Types
  <2>7. QED
    BY <2>2, <2>5, <2>6 DEF Additions, FramesAdded, GoneOrGoing
<1>16. ASSUME NEW p \in Requests, PoolGone(p)
       PROVE  Additions
  <2>1. /\ status' = [q \in Requests |-> IF pool[q] = p THEN "gone" ELSE status[q]]
        /\ cleanups[p] = <<>> /\ AtCleanups(p)
        /\ UNCHANGED <<main, next, pool, cleanups, rconf, frames>>
    BY <1>16 DEF PoolGone
  <2>2. \A f \in Elements(frames) : pool[f.req] # p
    BY <2>1 DEF AtCleanups, Elements
  <2>3. PoolGoes(p)
    BY <2>1, <2>2, NoElements DEF PoolGoes, AtCleanups
  <2>4. QED
    BY <2>1, <2>3 DEF Pools, Additions, CleanupsAdded, FramesAdded, GoneOrGoing, ConfigsOwn
<1>17. CASE Idle
  BY <1>17, <1>a DEF Idle, Quiet, vars
<1>18. QED
  BY <1>1, <1>2, <1>3, <1>4, <1>5, <1>6, <1>7, <1>8, <1>9, <1>10, <1>11, <1>12, <1>13, <1>14,
     <1>15, <1>16, <1>17 DEF Next

\* What a step leaves of the requests made before it.
Lasting ==
  \A q \in Requests :
    /\ status[q] # "fresh" => /\ status'[q] # "fresh"
                              /\ main'[q] = main[q]
                              /\ pool'[q] = pool[q]
    /\ status'[q] = "fresh" => status[q] = "fresh"

LEMMA LastingStep ==
  ASSUME Types, Next
  PROVE  Lasting
<1>1. CASE StaysMade
  BY <1>1 DEF StaysMade, Lasting
<1>2. ASSUME NEW s \in Others, NEW r \in Requests, SubrequestMade(s, r)
      PROVE  Lasting
  BY <1>2 DEF SubrequestMade, Lasting, Types
<1>3. ASSUME NEW s \in Others, NEW r \in Requests, RedirectMade(s, r)
      PROVE  Lasting
  BY <1>3 DEF RedirectMade, Lasting, Types
<1>4. QED
  BY <1>1, <1>2, <1>3, ApacheStep

LEMMA ChainsShareStep ==
  ASSUME Known, Pools, Next
  PROVE  ChainsShare'
<1>0. Types /\ FreshIsNew /\ ChainsShare /\ FreshIsUnknown /\ Lasting
  BY LastingStep DEF Known, Pools
<1>1. CASE StaysMade
  BY <1>0, <1>1 DEF StaysMade, ChainsShare
<1>2. ASSUME NEW s \in Others, NEW r \in Requests, SubrequestMade(s, r)
      PROVE  ChainsShare'
  BY <1>0, <1>2 DEF SubrequestMade, ChainsShare, Types, FreshIsNew, FreshIsUnknown
<1>3. ASSUME NEW s \in Others, NEW r \in Requests, RedirectMade(s, r)
      PROVE  ChainsShare'
  <2>1. s \in Requests /\ status[s] = "fresh" /\ s # r /\ next[s] = None
    BY <1>0, <1>3 DEF RedirectMade, FreshIsNew, Requests
  <2>2. /\ main' = [main EXCEPT ![s] = main[r]]
        /\ next' = [next EXCEPT ![r] = s]
        /\ pool' = [pool EXCEPT ![s] = pool[r]]
    BY <1>3 DEF RedirectMade
  <2>3. ASSUME NEW q \in Requests, next'[q] # None
        PROVE  pool'[next'[q]] = pool'[q] /\ main'[next'[q]] = main'[q]
    <3>1. CASE q = r
      BY <1>0, <2>1, <2>2, <3>1 DEF Types
    <3>2. CASE q # r
      <4>1. q # s /\ next'[q] = next[q] /\ next[q] \in Requests
        BY <1>0, <2>1, <2>2, <2>3, <3>2 DEF Types
      <4>2. next[q] # s
        BY <1>0, <2>1, <4>1, <2>3 DEF FreshIsUnknown
      <4>3. QED
        BY <1>0, <2>1, <2>2, <2>3, <4>1, <4>2 DEF Types, ChainsShare
    <3>3. QED
      BY <3>1, <3>2
  <2>4. QED
    BY <2>3 DEF ChainsShare
<1>4. QED
  BY <1>0, <1>1, <1>2, <1>3, ApacheStep

LEMMA FreshIsUnknownStep ==
  ASSUME Known, Pools, Next
  PROVE  FreshIsUnknown'
<1>0. Types /\ FreshIsNew /\ FreshIsUnknown /\ Lasting /\ CleanupsAdded
  BY LastingStep, AdditionsStep DEF Known, Pools, Additions
<1> DEFINE Unknown(q) == /\ main'[q] # None => status'[main'[q]] # "fresh"
                         /\ next'[q] # None => status'[next'[q]] # "fresh"
                         /\ status'[q] # "fresh" => status'[pool'[q]] # "fresh"
<1>1. ASSUME StaysMade PROVE \A q \in Requests : Unknown(q)
  <2>1. ASSUME NEW q \in Requests
        PROVE  Unknown(q)
    <3>1. /\ main'[q] = main[q] /\ next'[q] = next[q] /\ pool'[q] = pool[q]
          /\ main[q] \in Requests \cup {None}
          /\ next[q] \in Requests \cup {None}
          /\ pool[q] \in Requests
      BY <1>0, <1>1 DEF StaysMade, Types
    <3>2. status[q] = "fresh" => pool[q] = q
      BY <1>0 DEF FreshIsNew
    <3>3. main'[q] # None => status'[main'[q]] # "fresh"
      BY <1>0, <1>1, <3>1 DEF StaysMade, FreshIsUnknown
    <3>4. next'[q] # None => status'[next'[q]] # "fresh"
      BY <1>0, <1>1, <3>1 DEF StaysMade, FreshIsUnknown
    <3>5. status'[q] # "fresh" => status'[pool'[q]] # "fresh"
      <4>1. CASE status[q] = "fresh"
        BY <3>1, <3>2, <4>1
      <4>2. CASE status[q] # "fresh"
        BY <1>0, <1>1, <3>1, <4>2 DEF StaysMade, FreshIsUnknown
      <4>3. QED
        BY <4>1, <4>2
    <3>6. QED
      BY <3>3, <3>4, <3>5
  <2>2. QED
    BY <2>1
<1>2. ASSUME NEW s \in Others, NEW r \in Requests, SubrequestMade(s, r)
      PROVE  \A q \in Requests : Unknown(q)
  <2>1. s \in Requests /\ status[s] = "fresh" /\ status[r] = "live" /\ pool[s] = s
    BY <1>0, <1>2 DEF SubrequestMade, FreshIsNew, Requests
  <2>2. status' = [status EXCEPT ![s] = "live"] /\ main' = [main EXCEPT ![s] = r]
        /\ next' = next /\ pool' = pool
    BY <1>2 DEF SubrequestMade
  <2>3. QED
    BY <1>0, <2>1, <2>2 DEF FreshIsUnknown, Types
<1>3. ASSUME NEW s \in Others, NEW r \in Requests, RedirectMade(s, r)
      PROVE  \A q \in Requests : Unknown(q)
  <2>1. s \in Requests /\ status[s] = "fresh" /\ status[r] = "live" /\ s # r
    BY <1>0, <1>3 DEF RedirectMade, Requests
  <2>2. /\ status' = [status EXCEPT ![s] = "live"]
        /\ main' = [main EXCEPT ![s] = main[r]]
        /\ next' = [next EXCEPT ![r] = s]
        /\ pool' = [pool EXCEPT ![s] = pool[r]]
    BY <1>3 DEF RedirectMade
  <2>3. /\ main[r] # None => main[r] \in Requests /\ status[main[r]] # "fresh"
        /\ status[pool[r]] # "fresh" /\ pool[r] \in Requests
    BY <1>0, <2>1 DEF FreshIsUnknown, Types
  <2>4. \A q \in Requests : status[q] # "fresh" => status'[q] # "fresh"
    BY <1>0 DEF Lasting
  <2>5. status'[s] # "fresh"
    BY <1>0, <2>1, <2>2 DEF Types
  <2>6. ASSUME NEW q \in Requests, q # s
        PROVE  Unknown(q)
    <3>1. main'[q] = main[q] /\ pool'[q] = pool[q] /\ next'[q] = (IF q = r THEN s ELSE next[q])
      BY <1>0, <2>2, <2>6 DEF Types
    <3>2. main[q] \in Requests \cup {None} /\ next[q] \in Requests \cup {None}
          /\ pool[q] \in Requests
      BY <1>0 DEF Types
    <3>3. status'[q] # "fresh" => status[q] # "fresh"
      BY <1>0, <2>2, <2>6 DEF Types
    <3>4. main'[q] # None => status'[main'[q]] # "fresh"
      BY <1>0, <2>4, <3>1, <3>2 DEF FreshIsUnknown
    <3>5. next'[q] # None => status'[next'[q]] # "fresh"
      BY <1>0, <2>4, <2>5, <3>1, <3>2 DEF FreshIsUnknown
    <3>6. status'[q] # "fresh" => status'[pool'[q]] # "fresh"
      BY <1>0, <2>4, <3>1, <3>2, <3>3 DEF FreshIsUnknown
    <3>7. QED
      BY <3>4, <3>5, <3>6
  <2>7. Unknown(s)
    <3>1. main'[s] = main[r] /\ pool'[s] = pool[r] /\ next'[s] = next[s] /\ next[s] = None
      BY <1>0, <2>1, <2>2 DEF Types, FreshIsNew
    <3>2. QED
      BY <2>3, <2>4, <3>1
  <2>8. QED
    BY <2>6, <2>7
<1> HIDE DEF Unknown
<1>4. \A q \in Requests : Unknown(q)
  BY <1>0, <1>1, <1>2, <1>3, ApacheStep
<1>5. ASSUME NEW p \in Requests, status'[p] = "fresh", NEW c \in Elements(cleanups'[p])
      PROVE  FALSE
  <2>1. status[p] = "fresh"
    BY <1>0, <1>5 DEF Lasting
  <2>2. c \notin Elements(cleanups[p])
    BY <1>0, <2>1 DEF FreshIsUnknown
  <2>3. Of(c) \in Requests /\ pool'[Of(c)] = p /\ status'[Of(c)] \in Alive
    BY <1>0, <2>2 DEF CleanupsAdded
  <2>4. QED
    BY <1>4, <1>5, <2>3 DEF Unknown, Alive
<1>6. QED
  BY <1>4, <1>5 DEF FreshIsUnknown, Unknown

LEMMA CleanupsInPoolStep ==
  ASSUME Known, Pools, Next
  PROVE  CleanupsInPool'
<1>0. Types /\ CleanupsInPool /\ Lasting /\ CleanupsAdded
  BY LastingStep, AdditionsStep DEF Known, Pools, Additions
<1> SUFFICES ASSUME NEW p \in Requests, NEW c \in Elements(cleanups'[p])
             PROVE  pool'[Of(c)] = p /\ status'[Of(c)] # "fresh"
  BY DEF CleanupsInPool
<1>1. CASE c \in Elements(cleanups[p])
  <2>1. pool[Of(c)] = p /\ status[Of(c)] # "fresh"
    BY <1>0, <1>1 DEF CleanupsInPool
  <2>2. Of(c) \in Requests
    <3>1. c \in AnyCleanup
      <4>1. cleanups[p] \in Seq(AnyCleanup)
        BY <1>0 DEF Types
      <4>2. QED
        BY <1>1, <4>1, ElementsInSet
    <3>2. QED
      BY <3>1 DEF AnyCleanup, AnyObject, Of
  <2>3. QED
    BY <1>0, <2>1, <2>2 DEF Lasting
<1>2. CASE c \notin Elements(cleanups[p])
  BY <1>0, <1>2 DEF CleanupsAdded, Alive
<1>3. QED
  BY <1>1, <1>2

\* When a pool goes, or any other step is taken, which requests are gone.
LEMMA PoolsGoWholeStep ==
  ASSUME Known, Pools, Next
  PROVE  PoolsGoWhole'
<1>0. Types /\ FreshIsNew /\ FreshIsUnknown /\ PoolsGoWhole /\ Lasting /\ GoneOrGoing
  BY LastingStep, AdditionsStep DEF Known, Pools, Additions
<1> SUFFICES ASSUME NEW q \in Requests, NEW r \in Requests,
                    pool'[q] = pool'[r], status'[q] = "gone"
             PROVE  status'[r] = "gone"
  BY DEF PoolsGoWhole
<1>1. CASE \E p \in Requests : PoolGoes(p)
  BY <1>0, <1>1 DEF PoolGoes, PoolsGoWhole
<1>2. CASE \A x \in Requests : status'[x] = "gone" <=> status[x] = "gone"
  <2>1. status[q] = "gone" /\ pool'[q] = pool[q]
    BY <1>0, <1>2 DEF Lasting
  <2>2. CASE pool'[r] = pool[r]
    BY <1>0, <1>2, <2>1, <2>2 DEF PoolsGoWhole
  <2>3. CASE pool'[r] # pool[r]
    <3>1. status[r] = "fresh"
      BY <1>0, <2>3 DEF Lasting
    <3>2. ASSUME NEW s \in Others, NEW t \in Requests, RedirectMade(s, t)
          PROVE  FALSE
      <4>1. s = r /\ pool'[r] = pool[t] /\ status[t] = "live"
        BY <1>0, <2>3, <3>2 DEF RedirectMade, Types
      <4>2. QED
        BY <1>0, <2>1, <4>1 DEF PoolsGoWhole
    <3>3. QED
      BY <1>0, <2>3, <3>2, ApacheStep DEF SubrequestMade, StaysMade
  <2>4. QED
    BY <2>2, <2>3
<1>3. QED
  BY <1>0, <1>1, <1>2 DEF GoneOrGoing

LEMMA MainOutlivesStep ==
  ASSUME Known, Pools, Next
  PROVE  MainOutlives'
<1>0. Types /\ FreshIsNew /\ FreshIsUnknown /\ MainOutlives /\ Lasting /\ GoneOrGoing
  BY LastingStep, AdditionsStep DEF Known, Pools, Additions
<1> SUFFICES ASSUME NEW q \in Requests, main'[q] # None, status'[q] # "gone"
             PROVE  status'[main'[q]] # "gone"
  BY DEF MainOutlives
<1>1. ASSUME NEW p \in Requests, PoolGoes(p)
      PROVE  status'[main'[q]] # "gone"
  <2>1. main'[q] = main[q] /\ main[q] \in Requests
    BY <1>0, <1>1 DEF PoolGoes, Types
  <2>2. pool[q] # p /\ status[q] # "gone"
    BY <1>1 DEF PoolGoes
  <2>3. pool[main[q]] # p
    BY <1>1, <2>1, <2>2 DEF PoolGoes
  <2>4. status[main[q]] # "gone"
    BY <1>0, <2>1, <2>2 DEF MainOutlives
  <2>5. QED
    BY <1>1, <2>1, <2>3, <2>4 DEF PoolGoes
<1>2. CASE \A x \in Requests : status'[x] = "gone" <=> status[x] = "gone"
  <2>1. CASE StaysMade
    <3>1. main'[q] = main[q] /\ main[q] \in Requests
      BY <1>0, <2>1 DEF StaysMade, Types
    <3>2. QED
      BY <1>0, <1>2, <3>1 DEF MainOutlives
  <2>2. ASSUME NEW s \in Others, NEW r \in Requests, SubrequestMade(s, r)
        PROVE  status'[main'[q]] # "gone"
    <3>1. main'[q] = (IF q = s THEN r ELSE main[q]) /\ status[r] = "live"
      BY <1>0, <2>2 DEF SubrequestMade, Types
    <3>2. CASE q = s
      BY <1>2, <3>1, <3>2
    <3>3. CASE q # s
      <4>1. main[q] \in Requests /\ status[q] # "gone" /\ main[q] # None
        BY <1>0, <1>2, <3>1, <3>3 DEF Types
      <4>2. QED
        BY <1>0, <1>2, <3>1, <3>3, <4>1 DEF MainOutlives
    <3>4. QED
      BY <3>2, <3>3
  <2>3. ASSUME NEW s \in Others, NEW r \in Requests, RedirectMade(s, r)
        PROVE  status'[main'[q]] # "gone"
    <3>1. main'[q] = (IF q = s THEN main[r] ELSE main[q]) /\ status[r] = "live"
      BY <1>0, <2>3 DEF RedirectMade, Types
    <3>2. CASE q = s
      <4>1. main[r] \in Requests /\ main[r] # None
        BY <1>0, <3>1, <3>2 DEF Types
      <4>2. QED
        BY <1>0, <1>2, <3>1, <3>2, <4>1 DEF MainOutlives
    <3>3. CASE q # s
      <4>1. main[q] \in Requests /\ status[q] # "gone" /\ main[q] # None
        BY <1>0, <1>2, <3>1, <3>3 DEF Types
      <4>2. QED
        BY <1>0, <1>2, <3>1, <3>3, <4>1 DEF MainOutlives
    <3>4. QED
      BY <3>2, <3>3
  <2>4. QED
    BY <1>0, <2>1, <2>2, <2>3, ApacheStep
<1>3. QED
  BY <1>0, <1>1, <1>2 DEF GoneOrGoing

LEMMA NoCleanupsLeftStep ==
  ASSUME Known, Pools, Next
  PROVE  NoCleanupsLeft'
<1>0. Types /\ NoCleanupsLeft /\ Lasting /\ CleanupsAdded /\ GoneOrGoing
  BY LastingStep, AdditionsStep DEF Known, Pools, Additions
<1>1. PoolsGoWhole' /\ Types'
  BY PoolsGoWholeStep, KnownStep DEF Known
<1> SUFFICES ASSUME NEW r \in Requests, status'[r] = "gone",
                    NEW c \in Elements(cleanups'[pool'[r]])
             PROVE  FALSE
  BY DEF NoCleanupsLeft
<1>2. pool'[r] \in Requests
  BY <1>1 DEF Types
<1>3. CASE c \notin Elements(cleanups[pool'[r]])
  <2>1. Of(c) \in Requests /\ pool'[Of(c)] = pool'[r] /\ status'[Of(c)] \in Alive
    BY <1>0, <1>2, <1>3 DEF CleanupsAdded
  <2>2. QED
    BY <1>1, <2>1 DEF PoolsGoWhole, Alive
<1>4. CASE c \in Elements(cleanups[pool'[r]])
  <2>1. CASE status[r] = "gone"
    BY <1>0, <1>4, <2>1 DEF Lasting, NoCleanupsLeft
  <2>2. CASE status[r] # "gone"
    <3>1. PICK p \in Requests : PoolGoes(p)
      BY <1>0, <2>2 DEF GoneOrGoing
    <3>2. pool'[r] = pool[r] /\ pool[r] = p /\ Elements(cleanups[p]) = {}
      BY <2>2, <3>1 DEF PoolGoes
    <3>3. QED
      BY <1>4, <3>2
  <2>3. QED
    BY <2>1, <2>2
<1>5. QED
  BY <1>3, <1>4

LEMMA FramesKnownStep ==
  ASSUME Known, Pools, Next
  PROVE  FramesKnown'
<1>0. Types /\ FramesKnown /\ Lasting /\ FramesAdded /\ GoneOrGoing
  BY LastingStep, AdditionsStep DEF Known, Pools, Additions
<1>1. Types'
  BY KnownStep DEF Known
<1> SUFFICES ASSUME NEW f \in Elements(frames')
             PROVE  status'[f.req] \in Alive /\ (f.does = "lookup" => main'[f.req] # None)
  BY DEF FramesKnown
<1>2. CASE f \in Elements(frames)
  <2>1. f.req \in Requests
    BY <1>0, <1>2, FrameRequests
  <2>2. status[f.req] \in Alive /\ (f.does = "lookup" => main[f.req] # None)
    BY <1>0, <1>2 DEF FramesKnown
  <2>3. status[f.req] # "fresh" /\ status[f.req] # "gone"
    BY <2>2 DEF Alive
  <2>4. main'[f.req] = main[f.req] /\ status'[f.req] # "fresh"
    BY <1>0, <2>1, <2>3 DEF Lasting
  <2>5. status'[f.req] # "gone"
    BY <1>0, <1>2, <2>1, <2>3 DEF GoneOrGoing, PoolGoes
  <2>6. QED
    BY <1>1, <2>1, <2>2, <2>4, <2>5 DEF Types, Alive
<1>3. CASE f \notin Elements(frames)
  BY <1>0, <1>3 DEF FramesAdded
<1>4. QED
  BY <1>2, <1>3

LEMMA PoolsStep ==
  ASSUME Known, Pools, Next
  PROVE  Pools'
BY ChainsShareStep, FreshIsUnknownStep, AdditionsStep, CleanupsInPoolStep, PoolsGoWholeStep,
   MainOutlivesStep, NoCleanupsLeftStep, FramesKnownStep DEF Pools, Additions

LEMMA PoolsInit == Init => Pools
<1> SUFFICES ASSUME Init PROVE Pools
  OBVIOUS
<1>1. /\ \A r \in Requests : /\ main[r] = None /\ next[r] = None /\ pool[r] = r
                             /\ status[r] = "fresh" /\ rconf[r] = None
                             /\ Elements(cleanups[r]) = {}
      /\ Elements(frames) = {}
  BY NoElements DEF Init
<1>2. QED
  BY <1>1 DEF Pools, ChainsShare, FreshIsUnknown, ConfigsOwn, CleanupsInPool, PoolsGoWhole,
     MainOutlives, NoCleanupsLeft, FramesKnown

LEMMA PoolsStutter == ASSUME Pools, UNCHANGED vars PROVE Pools'
BY DEF Pools, vars, apacheVars, objectVars, ChainsShare, FreshIsUnknown, ConfigsOwn,
   CleanupsInPool, PoolsGoWhole, MainOutlives, NoCleanupsLeft, FramesKnown

LEMMA AlwaysPools == Spec => []Pools
<1>1. Known /\ Pools /\ [Next]_vars => Pools'
  BY PoolsStep, PoolsStutter
<1>2. QED
  BY <1>1, AlwaysKnown, PoolsInit, PTL DEF Spec

-----------------------------------------------------------------------------
(* Objects.                                                                *)

\* Whether an object has been made.
Made(o) == o[2] <= made[o[1]]
\* Every object that anything refers to has been made.
Numbered ==
  /\ \A o \in registered \cup destroyed \cup orphans : Made(o)
  /\ rb_request # None => Made(rb_request)
  /\ \A r \in Requests : rconf[r] # None => Made(rconf[r].request_object)
  /\ \A p \in Requests : \A c \in Elements(cleanups[p]) : c[1] = "unregister" => Made(c[2])
\* The object in an rconf is usable and will be cleaned up with its pool.
ObjectsKept ==
  \A r \in Requests : rconf[r] # None =>
    /\ rconf[r].request_object \notin destroyed
    /\ <<"object", r>> \in Elements(cleanups[pool[r]])
\* Where the k-th object of r is: an orphan, kept by its rconf, or destroyed, with its
\* unregistration done or due.
Accounted(r, k) ==
  \/ <<r, k>> \in orphans
  \/ rconf[r] # None /\ rconf[r].request_object = <<r, k>>
  \/ /\ <<r, k>> \in destroyed
     /\ \/ <<r, k>> \notin registered
        \/ <<"unregister", <<r, k>>>> \in Elements(cleanups[pool[r]])
ObjectsAccounted == \A r \in Requests : \A k \in 1..made[r] : Accounted(r, k)
\* A request Apache has not made has no object.
FreshHasNone == \A r \in Requests : status[r] = "fresh" => made[r] = 0 /\ rconf[r] = None
\* The third layer of the invariant.
Owned == Numbered /\ ObjectsKept /\ ObjectsAccounted /\ FreshHasNone

\* A step without effect on the objects.
ObjectsQuiet ==
  /\ UNCHANGED <<made, registered, destroyed, orphans, rconf, rb_request>>
  /\ \A p \in Requests : \A c \in AnyCleanup : c[1] # "handler" =>
       (c \in Elements(cleanups'[p]) <=> c \in Elements(cleanups[p]))

LEMMA QuietStep ==
  ASSUME Types, Types', Lasting, Owned, ObjectsQuiet
  PROVE  Owned'
<1>1. /\ made' = made /\ registered' = registered /\ destroyed' = destroyed
      /\ orphans' = orphans /\ rconf' = rconf /\ rb_request' = rb_request
  BY DEF ObjectsQuiet
<1>2. \A p \in Requests : \A c \in Elements(cleanups'[p]) : c \in AnyCleanup
  BY ElementsInSet DEF Types
<1>3. Numbered'
  BY <1>1, <1>2 DEF Owned, Numbered, Made, ObjectsQuiet
<1>4. FreshHasNone'
  BY <1>1 DEF Owned, FreshHasNone, Lasting
<1>5. ASSUME NEW r \in Requests, rconf[r] # None \/ made[r] # 0
      PROVE  pool'[r] = pool[r] /\ pool[r] \in Requests
  BY <1>5 DEF Owned, FreshHasNone, Lasting, Types
<1>6. ObjectsKept'
  <2>1. \A r \in Requests : <<"object", r>> \in AnyCleanup
    BY DEF AnyCleanup
  <2>2. QED
    BY <1>1, <1>5, <2>1 DEF Owned, ObjectsKept, ObjectsQuiet
<1>7. ObjectsAccounted'
  <2> SUFFICES ASSUME NEW r \in Requests, NEW k \in 1..made[r]
               PROVE  Accounted(r, k)'
    BY <1>1 DEF ObjectsAccounted
  <2>1. made[r] \in Nat /\ k \in Nat \ {0} /\ made[r] # 0
    BY DEF Types
  <2>2. <<"unregister", <<r, k>>>> \in AnyCleanup
    BY <2>1 DEF AnyCleanup, AnyObject
  <2>3. pool'[r] = pool[r] /\ pool[r] \in Requests
    BY <1>5, <2>1
  <2>4. Accounted(r, k)
    BY DEF Owned, ObjectsAccounted
  <2>5. QED
    BY <1>1, <2>2, <2>3, <2>4 DEF Accounted, ObjectsQuiet
<1>8. QED
  BY <1>3, <1>4, <1>6, <1>7 DEF Owned

\* A step that makes an object for each request of S, which either is kept in
\* the request's rconf or is an orphan.
ObjectsMade(S, cl) ==
  /\ S \in SUBSET Requests
  /\ \A r \in S : status[r] # "fresh"
  /\ cl \in [Requests -> Seq(AnyCleanup)]
  /\ MakeObjects(S, cl)
  /\ \A p \in Requests :
       /\ Elements(cl[p]) \subseteq Elements(cleanups[p])
       /\ \A c \in Elements(cleanups[p]) : c[1] # "handler" => c \in Elements(cl[p])
  /\ pool' = pool
  /\ orphans \subseteq orphans'
  /\ \A o \in orphans' :
       \/ o \in orphans
       \/ \E r \in S : o = NewObject(r)
       \/ \E r \in Requests : rconf[r] # None /\ o = rconf[r].request_object
  /\ \A r \in S : NewObject(r) \in orphans'
       \/ (rconf'[r] # None /\ rconf'[r].request_object = NewObject(r))
  /\ \A r \in Requests : rconf[r] # None =>
       \/ rconf[r].request_object \in orphans'
       \/ rconf'[r] # None /\ rconf'[r].request_object = rconf[r].request_object
  /\ \A r \in Requests : rconf'[r] # None =>
       \/ rconf[r] # None /\ rconf'[r].request_object = rconf[r].request_object
       \/ S = {r} /\ rconf'[r].request_object = NewObject(r)
  /\ rb_request' # None =>
       \/ rb_request' = rb_request
       \/ \E r \in S : rb_request' = NewObject(r)
       \/ \E r \in Requests : rconf[r] # None /\ rb_request' = rconf[r].request_object

LEMMA NewNumber ==
  ASSUME Types, NEW r \in Requests
  PROVE  NewObject(r) = <<r, made[r] + 1>> /\ NewObject(r) \in AnyObject
BY DEF Types, NewObject, AnyObject

LEMMA MadeStep ==
  ASSUME Types, Types', Lasting, Pools, Owned, NEW S, NEW cl, ObjectsMade(S, cl)
  PROVE  Owned'
<1>1. /\ S \in SUBSET Requests /\ cl \in [Requests -> Seq(AnyCleanup)] /\ MakeObjects(S, cl)
      /\ pool' = pool
  BY DEF ObjectsMade
<1>2. /\ \A r \in Requests : made'[r] = IF r \in S THEN made[r] + 1 ELSE made[r]
      /\ registered' = registered \cup {NewObject(r) : r \in S}
      /\ destroyed' = destroyed
      /\ ObjectsCleaned(S, cl)
      /\ \A r \in S : S = {r} => <<"object", r>> \in Elements(cleanups'[pool[r]])
  BY <1>1, MakeEffect
<1>3. \A o \in AnyObject : Made(o) => o[2] <= made'[o[1]]
  <2>1. \A r \in Requests : made[r] \in Nat /\ made'[r] \in Nat /\ made[r] <= made'[r]
    <3> SUFFICES ASSUME NEW r \in Requests
                 PROVE  made[r] \in Nat /\ made'[r] \in Nat /\ made[r] <= made'[r]
      OBVIOUS
    <3>1. made[r] \in Nat
      BY DEF Types
    <3>2. made'[r] = made[r] \/ made'[r] = made[r] + 1
      BY <1>2
    <3>3. QED
      BY <3>1, <3>2
  <2>2. \A o \in AnyObject : o[1] \in Requests /\ o[2] \in Nat
    BY DEF AnyObject
  <2>3. QED
    BY <2>1, <2>2 DEF Made
<1>4. \A r \in S : NewObject(r)[2] <= made'[NewObject(r)[1]]
  <2> SUFFICES ASSUME NEW r \in S PROVE NewObject(r)[2] <= made'[NewObject(r)[1]]
    OBVIOUS
  <2>1. r \in Requests /\ made[r] \in Nat /\ made'[r] = made[r] + 1
    BY <1>1, <1>2 DEF Types
  <2>2. NewObject(r) = <<r, made[r] + 1>>
    BY <2>1, NewNumber
  <2>3. QED
    BY <2>1, <2>2
<1>5. \A r \in Requests : rconf[r] # None => rconf[r].request_object \in AnyObject
  BY DEF Types, Configs
<1>6. \A p \in Requests : \A c \in Elements(cleanups'[p]) :
         c \in AnyCleanup /\ (c[1] = "unregister" => c \in Elements(cleanups[p]))
  <2>1. \A p \in Requests : \A c \in Elements(cleanups'[p]) : c \in AnyCleanup
    BY ElementsInSet DEF Types
  <2>2. \A p \in Requests : \A c \in Elements(cleanups'[p]) :
         c[1] = "unregister" => c \in Elements(cl[p])
    BY <1>2 DEF ObjectsCleaned
  <2>3. QED
    BY <2>1, <2>2 DEF ObjectsMade
<1>7. \A p \in Requests : \A c \in Elements(cleanups[p]) :
         c[1] # "handler" => c \in Elements(cleanups'[p])
  BY <1>2 DEF ObjectsMade, ObjectsCleaned
<1>8. Numbered'
  <2>1. \A o \in registered' \cup destroyed' : o[2] <= made'[o[1]]
    BY <1>2, <1>3, <1>4 DEF Types, Owned, Numbered
  <2>2. \A r \in Requests : rconf[r] # None =>
           rconf[r].request_object[2] <= made'[rconf[r].request_object[1]]
    BY <1>3, <1>5 DEF Owned, Numbered
  <2>3. \A o \in orphans' : o[2] <= made'[o[1]]
    <3> SUFFICES ASSUME NEW o \in orphans' PROVE o[2] <= made'[o[1]]
      OBVIOUS
    <3>1. CASE o \in orphans
      BY <1>3, <3>1 DEF Types, Owned, Numbered
    <3>2. CASE \E r \in S : o = NewObject(r)
      BY <1>4, <3>2
    <3>3. CASE \E r \in Requests : rconf[r] # None /\ o = rconf[r].request_object
      BY <2>2, <3>3
    <3>4. QED
      BY <3>1, <3>2, <3>3 DEF ObjectsMade
  <2>4. rb_request' # None => rb_request'[2] <= made'[rb_request'[1]]
    <3> SUFFICES ASSUME rb_request' # None PROVE rb_request'[2] <= made'[rb_request'[1]]
      OBVIOUS
    <3>1. CASE rb_request' = rb_request
      BY <1>3, <3>1 DEF Types, Owned, Numbered
    <3>2. CASE \E r \in S : rb_request' = NewObject(r)
      BY <1>4, <3>2
    <3>3. CASE \E r \in Requests : rconf[r] # None /\ rb_request' = rconf[r].request_object
      BY <2>2, <3>3
    <3>4. QED
      BY <3>1, <3>2, <3>3 DEF ObjectsMade
  <2>5. ASSUME NEW r \in Requests, rconf'[r] # None
        PROVE  rconf'[r].request_object[2] <= made'[rconf'[r].request_object[1]]
    <3>1. CASE rconf[r] # None /\ rconf'[r].request_object = rconf[r].request_object
      BY <2>2, <3>1
    <3>2. CASE S = {r} /\ rconf'[r].request_object = NewObject(r)
      BY <1>4, <3>2
    <3>3. QED
      BY <2>5, <3>1, <3>2 DEF ObjectsMade
  <2>6. ASSUME NEW p \in Requests, NEW c \in Elements(cleanups'[p]), c[1] = "unregister"
        PROVE  c[2][2] <= made'[c[2][1]]
    <3>1. c \in Elements(cleanups[p]) /\ c[2] \in AnyObject
      BY <1>6, <2>6, CleanupRequests
    <3>2. QED
      BY <1>3, <2>6, <3>1 DEF Owned, Numbered
  <2>7. QED
    BY <2>1, <2>3, <2>4, <2>5, <2>6 DEF Numbered, Made
<1>9. ObjectsKept'
  <2> SUFFICES ASSUME NEW r \in Requests, rconf'[r] # None
               PROVE  /\ rconf'[r].request_object \notin destroyed'
                      /\ <<"object", r>> \in Elements(cleanups'[pool'[r]])
    BY DEF ObjectsKept
  <2>1. CASE rconf[r] # None /\ rconf'[r].request_object = rconf[r].request_object
    <3>1. pool[r] \in Requests
      BY DEF Types
    <3>2. QED
      BY <1>1, <1>2, <1>7, <2>1, <3>1 DEF Owned, ObjectsKept
  <2>2. CASE S = {r} /\ rconf'[r].request_object = NewObject(r)
    <3>1. NewObject(r) \notin destroyed
      BY NewNumber DEF Owned, Numbered, Made, Types
    <3>2. QED
      BY <1>1, <1>2, <2>2, <3>1
  <2>3. QED
    BY <2>1, <2>2 DEF ObjectsMade
<1>10. ObjectsAccounted'
  <2> SUFFICES ASSUME NEW r \in Requests, NEW k \in 1..made'[r]
               PROVE  Accounted(r, k)'
    BY DEF ObjectsAccounted
  <2>0. made[r] \in Nat
    BY DEF Types
  <2>1. CASE k \notin 1..made[r]
    <3>1. r \in S /\ k = made[r] + 1
      BY <1>2, <2>0, <2>1
    <3>2. NewObject(r) = <<r, k>>
      BY <3>1, NewNumber
    <3>3. QED
      BY <3>1, <3>2 DEF ObjectsMade, Accounted
  <2>2. CASE k \in 1..made[r]
    <3>1. Accounted(r, k)
      BY <2>2 DEF Owned, ObjectsAccounted
    <3>2. CASE <<r, k>> \in orphans
      BY <3>2 DEF ObjectsMade, Accounted
    <3>3. CASE rconf[r] # None /\ rconf[r].request_object = <<r, k>>
      BY <3>3 DEF ObjectsMade, Accounted
    <3>4. CASE <<r, k>> \in destroyed /\ <<r, k>> \notin registered
      <4>1. \A q \in S : NewObject(q) # <<r, k>>
        BY <1>1, <2>0, <2>2, NewNumber
      <4>2. QED
        BY <1>2, <3>4, <4>1 DEF Accounted
    <3>5. CASE <<r, k>> \in destroyed /\ <<"unregister", <<r, k>>>> \in Elements(cleanups[pool[r]])
      <4>1. pool[r] \in Requests
        BY DEF Types
      <4>2. QED
        BY <1>1, <1>2, <1>7, <3>5, <4>1 DEF Accounted
    <3>6. QED
      BY <3>1, <3>2, <3>3, <3>4, <3>5 DEF Accounted
  <2>3. QED
    BY <2>1, <2>2
<1>11. FreshHasNone'
  <2> SUFFICES ASSUME NEW r \in Requests, status'[r] = "fresh"
               PROVE  made'[r] = 0 /\ rconf'[r] = None
    BY DEF FreshHasNone
  <2>1. status[r] = "fresh" /\ r \notin S
    BY DEF Lasting, ObjectsMade
  <2>2. made[r] = 0 /\ rconf[r] = None
    BY <2>1 DEF Owned, FreshHasNone
  <2>3. QED
    BY <1>2, <2>1, <2>2 DEF ObjectsMade
<1>12. QED
  BY <1>8, <1>9, <1>10, <1>11 DEF Owned

LEMMA ConfigsAreNotNone ==
  ASSUME NEW e \in Envs, NEW o \in AnyObject
  PROVE  [saved_env |-> e, request_object |-> o] # None
<1> DEFINE c == [saved_env |-> e, request_object |-> o]
<1>1. o \in Requests \X Nat
  BY DEF AnyObject
<1>2. c \in [saved_env : Envs, request_object : Requests \X Nat]
  BY <1>1
<1> HIDE DEF c
<1>3. c # None
  BY <1>2, HandlersAssumption
<1>4. QED
  BY <1>3 DEF c

LEMMA StartOwns ==
  ASSUME Types, Types', Lasting, Pools, Owned,
         NEW r \in Requests, NEW flush \in BOOLEAN, status[r] \in Alive,
         NEW cl \in [Requests -> Seq(AnyCleanup)], HandlerStarts(r, flush, cl),
         \A p \in Requests :
           /\ Elements(cl[p]) \subseteq Elements(cleanups[p])
           /\ \A c \in Elements(cleanups[p]) : c[1] # "handler" => c \in Elements(cl[p])
  PROVE  Owned'
<1> DEFINE S == IF rconf[r] = None THEN {r} ELSE {}
<1>1. /\ S \in SUBSET Requests /\ MakeObjects(S, cl)
      /\ rconf' = IF rconf[r] = None
                    THEN [rconf EXCEPT ![r] =
                            [saved_env |-> env, request_object |-> NewObject(r)]]
                    ELSE rconf
      /\ rb_request' = IF rconf[r] = None THEN NewObject(r) ELSE rconf[r].request_object
      /\ pool' = pool /\ orphans' = orphans
  BY DEF HandlerStarts
<1>2. CASE rconf[r] = None
  <2>1. [saved_env |-> env, request_object |-> NewObject(r)] # None
    BY ConfigsAreNotNone, NewNumber DEF Types
  <2> DEFINE c == [saved_env |-> env, request_object |-> NewObject(r)]
  <2>2. c.request_object = NewObject(r)
    OBVIOUS
  <2> HIDE DEF c
  <2>3. S = {r} /\ rconf' = [rconf EXCEPT ![r] = c] /\ rb_request' = NewObject(r)
    BY <1>1, <1>2 DEF c
  <2> HIDE DEF S
  <2>4. /\ rconf'[r] # None /\ rconf'[r].request_object = NewObject(r)
        /\ \A q \in Requests : q # r => rconf'[q] = rconf[q]
    BY <2>1, <2>2, <2>3 DEF Types, c
  <2>5. \A q \in S : q = r /\ status[q] # "fresh"
    BY <2>3 DEF Alive
  <2>6. ObjectsMade(S, cl)
    BY <1>1, <1>2, <2>3, <2>4, <2>5 DEF ObjectsMade
  <2>7. QED
    BY <2>6, MadeStep
<1>3. CASE rconf[r] # None
  <2>1. S = {} /\ rconf' = rconf /\ rb_request' = rconf[r].request_object
    BY <1>1, <1>3
  <2> HIDE DEF S
  <2>2. ObjectsMade(S, cl)
    BY <1>1, <1>3, <2>1 DEF ObjectsMade
  <2>3. QED
    BY <2>2, MadeStep
<1>4. QED
  BY <1>2, <1>3

LEMMA EndOwns ==
  ASSUME Known, Types', Lasting, Pools, Owned, NEW r, NEW new, HandlerEnds(r, new)
  PROVE  Owned'
<1>1. Types
  BY DEF Known
<1>2. r \in Requests /\ new \in SUBSET Requests
  BY EndTypes DEF Known
<1>3. /\ frames # <<>> /\ r = Last(Current)
      /\ \A q \in new : q = r \/ (main[r] # None /\ q = main[r])
      /\ MakeObjects(new, cleanups)
      /\ main[r] # None /\ rconf[main[r]] = None => main[r] \in new
      /\ orphans' = orphans \cup {NewObject(q) : q \in new}
      /\ rb_request' = IF main[r] = None THEN None ELSE ObjectOf(main[r])
      /\ pool' = pool /\ rconf' = rconf
  BY DEF HandlerEnds
<1>4. \A q \in new : status[q] # "fresh"
  <2>1. Current \in Requests /\ status[Current] \in Alive
    BY <1>1, <1>3, TopAlive DEF Pools
  <2>2. status[r] \in Alive /\ (main[r] # None => status[main[r]] \in Alive)
    BY <1>3, <2>1, LastAlive
  <2>3. QED
    BY <1>3, <2>2 DEF Alive
<1>5. main[r] # None => main[r] \in Requests
  BY <1>1, <1>2 DEF Types
<1>6. rb_request' # None =>
        \/ \E q \in new : rb_request' = NewObject(q)
        \/ \E q \in Requests : rconf[q] # None /\ rb_request' = rconf[q].request_object
  BY <1>3, <1>5 DEF ObjectOf
<1>7. cleanups \in [Requests -> Seq(AnyCleanup)]
  BY <1>1 DEF Types
<1>8. ObjectsMade(new, cleanups)
  BY <1>2, <1>3, <1>4, <1>6, <1>7 DEF ObjectsMade
<1>9. QED
  BY <1>1, <1>8, MadeStep

LEMMA LookupReturnsOwns ==
  ASSUME Known, Types', Lasting, Pools, Owned, LookupReturns
  PROVE  Owned'
<1>1. Types
  BY DEF Known
<1>2. PICK s \in Requests :
        /\ s = Current
        /\ MakeObjects({s}, cleanups)
        /\ rconf[s] = None =>
             /\ orphans' = orphans \cup {NewObject(s)}
             /\ rconf' = rconf
        /\ rconf[s] # None =>
             /\ orphans' = orphans \cup {rconf[s].request_object}
             /\ rconf' = [rconf EXCEPT ![s] = [saved_env |-> rconf[s].saved_env,
                                               request_object |-> NewObject(s)]]
        /\ frames # <<>>
  BY <1>1, LookupReturnsEffect
<1>3. pool' = pool /\ rb_request' = rb_request
  BY DEF LookupReturns
<1>4. status[s] # "fresh"
  BY <1>1, <1>2, TopAlive DEF Pools, Alive
<1>5. cleanups \in [Requests -> Seq(AnyCleanup)]
  BY <1>1 DEF Types
<1>6. CASE rconf[s] = None
  <2>1. ObjectsMade({s}, cleanups)
    BY <1>2, <1>3, <1>4, <1>5, <1>6 DEF ObjectsMade
  <2>2. QED
    BY <1>1, <2>1, MadeStep
<1>7. CASE rconf[s] # None
  <2> DEFINE c == [saved_env |-> rconf[s].saved_env, request_object |-> NewObject(s)]
  <2>1. c # None
    <3>1. rconf[s].saved_env \in Envs
      BY <1>1, <1>7 DEF Types, Configs
    <3>2. QED
      BY <1>1, <3>1, ConfigsAreNotNone, NewNumber
  <2>2. c.request_object = NewObject(s)
    OBVIOUS
  <2>3. rconf' = [rconf EXCEPT ![s] = c] /\ orphans' = orphans \cup {rconf[s].request_object}
    BY <1>2, <1>7
  <2> HIDE DEF c
  <2>4. /\ rconf'[s] # None /\ rconf'[s].request_object = NewObject(s)
        /\ \A q \in Requests : q # s => rconf'[q] = rconf[q]
    BY <1>1, <2>1, <2>2, <2>3 DEF Types
  <2>5. ObjectsMade({s}, cleanups)
    BY <1>2, <1>3, <1>4, <1>5, <1>7, <2>3, <2>4 DEF ObjectsMade
  <2>6. QED
    BY <1>1, <2>5, MadeStep
<1>8. QED
  BY <1>6, <1>7

LEMMA ObjectCleanupOwns ==
  ASSUME Types, Types', Lasting, Pools, Owned, NEW p \in Requests, CleanupRequestObject(p)
  PROVE  Owned'
<1>1. PICK r \in Requests :
         /\ cleanups[p] # <<>>
         /\ Head(cleanups[p]) = <<"object", r>>
         /\ \A q \in Requests : q # p => cleanups'[q] = cleanups[q]
         /\ IF rconf[r] = None
              THEN /\ Elements(cleanups'[p]) = Elements(Tail(cleanups[p]))
                   /\ destroyed' = destroyed
                   /\ rconf' = rconf
              ELSE /\ Elements(cleanups'[p]) =
                        {<<"unregister", rconf[r].request_object>>}
                           \cup Elements(Tail(cleanups[p]))
                   /\ destroyed' = destroyed \cup {rconf[r].request_object}
                   /\ rconf' = [rconf EXCEPT ![r] = None]
                   /\ rconf[r].request_object \in AnyObject
  BY ObjectCleanupEffect
<1>2. UNCHANGED <<made, registered, orphans, rb_request, status, pool>>
  BY DEF CleanupRequestObject, apacheVars
<1>3. Elements(cleanups[p]) = {<<"object", r>>} \cup Elements(Tail(cleanups[p]))
  BY <1>1, DoneEffect
<1>4. FreshHasNone'
  BY <1>1, <1>2 DEF Owned, FreshHasNone, Types
<1>5. CASE rconf[r] = None
  <2>1. destroyed' = destroyed /\ rconf' = rconf
        /\ Elements(cleanups'[p]) = Elements(Tail(cleanups[p]))
    BY <1>1, <1>5
  <2>2. \A q \in Requests : \A c \in Elements(cleanups'[q]) : c \in Elements(cleanups[q])
    BY <1>1, <1>3, <2>1
  <2>3. \A q \in Requests : \A c \in Elements(cleanups[q]) :
           c # <<"object", r>> => c \in Elements(cleanups'[q])
    BY <1>1, <1>3, <2>1
  <2>4. Numbered'
    BY <1>2, <2>1, <2>2 DEF Owned, Numbered, Made
  <2>5. ObjectsKept'
    <3> SUFFICES ASSUME NEW q \in Requests, rconf[q] # None
                 PROVE  /\ rconf[q].request_object \notin destroyed
                        /\ <<"object", q>> \in Elements(cleanups'[pool[q]])
      BY <1>2, <2>1 DEF ObjectsKept
    <3>1. pool[q] \in Requests /\ <<"object", q>> # <<"object", r>>
      BY <1>5 DEF Types
    <3>2. QED
      BY <2>3, <3>1 DEF Owned, ObjectsKept
  <2>6. ObjectsAccounted'
    <3> SUFFICES ASSUME NEW q \in Requests, NEW k \in 1..made[q]
                 PROVE  Accounted(q, k)'
      BY <1>2 DEF ObjectsAccounted
    <3>1. pool[q] \in Requests /\ <<"unregister", <<q, k>>>> # <<"object", r>>
      BY DEF Types
    <3>2. Accounted(q, k)
      BY DEF Owned, ObjectsAccounted
    <3>3. QED
      BY <1>2, <2>1, <2>3, <3>1, <3>2 DEF Accounted
  <2>7. QED
    BY <1>4, <2>4, <2>5, <2>6 DEF Owned
<1>6. CASE rconf[r] # None
  <2> DEFINE o == rconf[r].request_object
  <2>1. /\ Elements(cleanups'[p]) = {<<"unregister", o>>} \cup Elements(Tail(cleanups[p]))
        /\ destroyed' = destroyed \cup {o}
        /\ rconf' = [rconf EXCEPT ![r] = None]
        /\ o \in AnyObject
    BY <1>1, <1>6
  <2>2. o[1] = r /\ Made(o)
    BY <1>6 DEF Pools, ConfigsOwn, Owned, Numbered
  <2>3. pool[r] = p
    <3>1. <<"object", r>> \in Elements(cleanups[p])
      BY <1>3
    <3>2. QED
      BY <3>1 DEF Pools, CleanupsInPool, Of
  <2>4. rconf'[r] = None /\ \A q \in Requests : q # r => rconf'[q] = rconf[q]
    BY <2>1 DEF Types
  <2>5. \A q \in Requests : \A c \in Elements(cleanups'[q]) :
           c \in Elements(cleanups[q]) \/ c = <<"unregister", o>>
    BY <1>1, <1>3, <2>1
  <2>6. \A q \in Requests : \A c \in Elements(cleanups[q]) :
           c # <<"object", r>> => c \in Elements(cleanups'[q])
    BY <1>1, <1>3, <2>1
  <2>7. Numbered'
    <3> HIDE DEF o
    <3>1. \A x \in registered' \cup destroyed' \cup orphans' : x[2] <= made'[x[1]]
      BY <1>2, <2>1, <2>2 DEF Owned, Numbered, Made
    <3>2. rb_request' # None => rb_request'[2] <= made'[rb_request'[1]]
      BY <1>2 DEF Owned, Numbered, Made
    <3>3. \A q \in Requests : rconf'[q] # None =>
            rconf'[q].request_object[2] <= made'[rconf'[q].request_object[1]]
      BY <1>2, <2>4 DEF Owned, Numbered, Made
    <3>4. \A q \in Requests : \A c \in Elements(cleanups'[q]) : c[1] = "unregister" =>
            c[2][2] <= made'[c[2][1]]
      BY <1>2, <2>2, <2>5 DEF Owned, Numbered, Made
    <3>5. QED
      BY <3>1, <3>2, <3>3, <3>4 DEF Numbered, Made
  <2>8. ObjectsKept'
    <3> SUFFICES ASSUME NEW q \in Requests, rconf'[q] # None
                 PROVE  /\ rconf'[q].request_object \notin destroyed'
                        /\ <<"object", q>> \in Elements(cleanups'[pool'[q]])
      BY DEF ObjectsKept
    <3>1. q # r /\ rconf'[q] = rconf[q]
      BY <2>4
    <3>2. rconf[q].request_object \notin destroyed /\ rconf[q].request_object[1] = q
          /\ <<"object", q>> \in Elements(cleanups[pool[q]])
      BY <3>1 DEF Owned, ObjectsKept, Pools, ConfigsOwn
    <3>3. pool[q] \in Requests /\ <<"object", q>> # <<"object", r>>
      BY <3>1 DEF Types
    <3>4. QED
      BY <1>2, <2>1, <2>2, <2>6, <3>1, <3>2, <3>3
  <2>9. ObjectsAccounted'
    <3> SUFFICES ASSUME NEW q \in Requests, NEW k \in 1..made[q]
                 PROVE  Accounted(q, k)'
      BY <1>2 DEF ObjectsAccounted
    <3>1. pool[q] \in Requests /\ <<"unregister", <<q, k>>>> # <<"object", r>>
      BY DEF Types
    <3>2. Accounted(q, k)
      BY DEF Owned, ObjectsAccounted
    <3>3. CASE o = <<q, k>>
      <4>1. q = r
        BY <2>2, <3>3
      <4>2. <<"unregister", <<q, k>>>> \in Elements(cleanups'[p]) /\ <<q, k>> \in destroyed'
        BY <2>1, <3>3
      <4>3. QED
        BY <1>2, <2>3, <4>1, <4>2 DEF Accounted
    <3>4. CASE o # <<q, k>>
      <4> HIDE DEF o
      <4>1. rconf[q] # None /\ rconf[q].request_object = <<q, k>> => rconf'[q] = rconf[q]
        BY <2>4, <3>4 DEF o
      <4>2. QED
        BY <1>2, <2>1, <2>6, <3>1, <3>2, <4>1 DEF Accounted
    <3>5. QED
      BY <3>3, <3>4
  <2>10. QED
    BY <1>4, <2>7, <2>8, <2>9 DEF Owned
<1>7. QED
  BY <1>5, <1>6

LEMMA UnregisterOwns ==
  ASSUME Types, Types', Lasting, Pools, Owned, NEW p \in Requests, UnregisterObject(p)
  PROVE  Owned'
<1> DEFINE o == Head(cleanups[p])[2]
<1>1. /\ cleanups[p] # <<>> /\ Head(cleanups[p])[1] = "unregister"
      /\ registered' = registered \ {o}
      /\ cleanups' = Done(p)
      /\ UNCHANGED <<made, destroyed, orphans, rb_request, rconf, status, pool>>
  BY DEF UnregisterObject, Due, Unregistered, apacheVars
<1>2. Head(cleanups[p]) = <<"unregister", o>>
  BY <1>1, DoneEffect, CleanupRequests
<1> HIDE DEF o
<1>3. /\ Elements(cleanups[p]) = {<<"unregister", o>>} \cup Elements(cleanups'[p])
      /\ \A q \in Requests : q # p => cleanups'[q] = cleanups[q]
  BY <1>1, <1>2, DoneEffect
<1>4. \A q \in Requests : \A c \in Elements(cleanups'[q]) : c \in Elements(cleanups[q])
  BY <1>3
<1>5. \A q \in Requests : \A c \in Elements(cleanups[q]) :
         c # <<"unregister", o>> => c \in Elements(cleanups'[q])
  BY <1>3
<1>6. Numbered'
  BY <1>1, <1>4 DEF Owned, Numbered, Made
<1>7. ObjectsKept'
  <2>1. \A q \in Requests : <<"object", q>> # <<"unregister", o>> /\ pool[q] \in Requests
    BY DEF Types
  <2>2. QED
    BY <1>1, <1>5, <2>1 DEF Owned, ObjectsKept
<1>8. ObjectsAccounted'
  <2> SUFFICES ASSUME NEW q \in Requests, NEW k \in 1..made[q]
               PROVE  Accounted(q, k)'
    BY <1>1 DEF ObjectsAccounted
  <2>1. pool[q] \in Requests
    BY DEF Types
  <2>2. Accounted(q, k)
    BY DEF Owned, ObjectsAccounted
  <2>3. CASE o = <<q, k>>
    BY <1>1, <2>2, <2>3 DEF Accounted
  <2>4. CASE o # <<q, k>>
    <3>1. <<"unregister", <<q, k>>>> # <<"unregister", o>>
      BY <2>4
    <3>2. QED
      BY <1>1, <1>5, <2>1, <2>2, <3>1 DEF Accounted
  <2>5. QED
    BY <2>3, <2>4
<1>9. FreshHasNone'
  BY <1>1 DEF Owned, FreshHasNone
<1>10. QED
  BY <1>6, <1>7, <1>8, <1>9 DEF Owned

\* The steps that change no object; of cleanups, only a handler's.
LEMMA QuietObjects ==
  ASSUME Types, Owned, Known, Pools,
         UNCHANGED <<made, registered, destroyed, orphans, rconf, rb_request>>,
         \/ cleanups' = cleanups
         \/ \E r \in Requests : Accept(r)
         \/ \E s \in Others, r \in Requests : RedirectMade(s, r)
         \/ \E p \in Requests : NoCleanupHandler(p)
  PROVE  ObjectsQuiet
<1> SUFFICES ASSUME NEW q \in Requests, NEW c \in AnyCleanup, c[1] # "handler"
             PROVE  c \in Elements(cleanups'[q]) <=> c \in Elements(cleanups[q])
  BY DEF ObjectsQuiet
<1>1. CASE cleanups' = cleanups
  BY <1>1
<1>2. ASSUME NEW r \in Requests, Accept(r)
      PROVE  c \in Elements(cleanups'[q]) <=> c \in Elements(cleanups[q])
  <2>1. status[r] = "fresh" /\ cleanups' = [cleanups EXCEPT ![r] = <<<<"handler", r>>>>]
    BY <1>2 DEF Accept
  <2>2. CASE q = r
    <3>1. Elements(cleanups[q]) = {}
      BY <2>1, <2>2 DEF Pools, FreshIsUnknown
    <3>2. cleanups'[q] = <<<<"handler", r>>>>
      BY <2>1, <2>2 DEF Types
    <3>3. Elements(<<<<"handler", r>>>>) = {<<"handler", r>>}
      BY DEF Elements
    <3>4. c # <<"handler", r>>
      BY <1>2
    <3>5. QED
      BY <3>1, <3>2, <3>3, <3>4
  <2>3. CASE q # r
    BY <2>1, <2>3 DEF Types
  <2>4. QED
    BY <2>2, <2>3
<1>3. ASSUME NEW s \in Others, NEW r \in Requests, RedirectMade(s, r)
      PROVE  c \in Elements(cleanups'[q]) <=> c \in Elements(cleanups[q])
  <2>1. \A p \in Requests : Elements(cleanups'[p]) =
              IF p = pool[r] THEN {<<"handler", s>>} \cup Elements(cleanups[p])
                             ELSE Elements(cleanups[p])
    BY <1>3, RedirectTypes
  <2>2. c # <<"handler", s>>
    OBVIOUS
  <2>3. QED
    BY <2>1, <2>2
<1>4. ASSUME NEW p \in Requests, NoCleanupHandler(p)
      PROVE  c \in Elements(cleanups'[q]) <=> c \in Elements(cleanups[q])
  <2>1. cleanups[p] # <<>> /\ Head(cleanups[p])[1] = "handler" /\ cleanups' = Done(p)
    BY <1>4 DEF NoCleanupHandler, Due
  <2>2. /\ Elements(cleanups[p]) = {Head(cleanups[p])} \cup Elements(cleanups'[p])
        /\ q # p => cleanups'[q] = cleanups[q]
    BY <2>1, DoneEffect
  <2>3. c # Head(cleanups[p])
    BY <2>1
  <2>4. QED
    BY <2>2, <2>3
<1>5. QED
  BY <1>1, <1>2, <1>3, <1>4

LEMMA OwnedStep ==
  ASSUME Known, Pools, Owned, Next
  PROVE  Owned'
<1> USE DEF apacheVars, objectVars
<1>0. Types /\ Types' /\ FreshIsNew /\ Lasting /\ cleanups \in [Requests -> Seq(AnyCleanup)]
  BY LastingStep, KnownStep DEF Known, Types
<1>a. ASSUME ObjectsQuiet PROVE Owned'
  BY <1>0, <1>a, QuietStep
<1>1. ASSUME NEW r \in Requests, NEW flush \in BOOLEAN, PhaseHandler(r, flush)
      PROVE  Owned'
  <2>1. status[r] \in Alive
    BY <1>1 DEF PhaseHandler, Alive
  <2>2. HandlerStarts(r, flush, cleanups)
    BY <1>0, <1>1, HandlerCalled
  <2>3. QED
    BY <1>0, <2>1, <2>2, StartOwns
<1>2. ASSUME NEW r \in Requests, ErrorLogHandler(r)
      PROVE  Owned'
  <2>1. frames # <<>> /\ r = Current
    BY <1>2 DEF ErrorLogHandler, Running
  <2>2. status[r] \in Alive
    BY <1>0, <2>1, TopAlive DEF Pools
  <2>3. HandlerStarts(r, FALSE, cleanups)
    BY <1>0, <1>2, HandlerCalled
  <2>4. QED
    BY <1>0, <2>2, <2>3, StartOwns
<1>3. ASSUME NEW r \in Requests, EndRequest(r) \/ PoolGone(r)
      PROVE  Owned'
  BY <1>3, <1>a DEF EndRequest, PoolGone, ObjectsQuiet
<1>4. ASSUME NEW r \in Requests, Accept(r)
      PROVE  Owned'
  <2>1. UNCHANGED <<made, registered, destroyed, orphans, rconf, rb_request>>
    BY <1>4 DEF Accept
  <2>2. QED
    BY <1>0, <1>4, <1>a, <2>1, QuietObjects
<1>5. CASE SetupCgiEnv \/ RedirectReturns
  BY <1>5, <1>a DEF SetupCgiEnv, RedirectReturns, ObjectsQuiet
<1>6. ASSUME NEW ok \in BOOLEAN, EndHandler(ok)
      PROVE  Owned'
  BY <1>0, <1>6, EndHandlerEnds, EndOwns
<1>7. ASSUME NEW s \in Others, LookupUri(s)
      PROVE  Owned'
  BY <1>7, <1>a DEF LookupUri, NewSubrequest, ObjectsQuiet
<1>8. ASSUME NEW s \in Others, InternalRedirect(s)
      PROVE  Owned'
  <2>1. Current \in Requests /\ RedirectMade(s, Current)
        /\ UNCHANGED <<made, registered, destroyed, orphans, rconf, rb_request>>
    BY <1>0, <1>8, RequestMade DEF InternalRedirect
  <2>2. QED
    BY <1>0, <1>a, <2>1, QuietObjects
<1>9. CASE LookupReturns
  BY <1>0, <1>9, LookupReturnsOwns
<1>10. ASSUME NEW s \in Others, NEW r \in Requests, ApacheSubrequest(s, r)
       PROVE  Owned'
  BY <1>10, <1>a DEF ApacheSubrequest, NewSubrequest, ObjectsQuiet
<1>11. ASSUME NEW s \in Others, NEW r \in Requests, ErrorDocument(s, r)
       PROVE  Owned'
  <2>1. RedirectMade(s, r) /\ UNCHANGED <<made, registered, destroyed, orphans, rconf, rb_request>>
    BY <1>0, <1>11, RequestMade DEF ErrorDocument
  <2>2. QED
    BY <1>0, <1>a, <2>1, QuietObjects
<1>12. ASSUME NEW p \in Requests, CleanupHandler(p)
       PROVE  Owned'
  <2> DEFINE r == Head(cleanups[p])[2]
  <2>1. /\ cleanups[p] # <<>>
        /\ Head(cleanups[p]) \in AnyCleanup
        /\ Head(cleanups[p])[1] = "handler"
        /\ r \in Requests
        /\ HandlerStarts(r, FALSE, Done(p))
    BY <1>0, <1>12, HandlerCalled
  <2>2. Head(cleanups[p]) = <<"handler", r>> /\ AtCleanups(p)
    BY <1>12, <2>1, CleanupRequests DEF CleanupHandler, Due
  <2> HIDE DEF r
  <2>3. status[r] \in Alive
    BY <1>0, <2>1, <2>2, HeadAlive
  <2>4. /\ Done(p) \in [Requests -> Seq(AnyCleanup)]
        /\ Elements(cleanups[p]) = {Head(cleanups[p])} \cup Elements(Done(p)[p])
        /\ \A q \in Requests : q # p => Done(p)[q] = cleanups[q]
    BY <1>0, <2>1, DoneEffect
  <2>5. \A q \in Requests :
           /\ Elements(Done(p)[q]) \subseteq Elements(cleanups[q])
           /\ \A c \in Elements(cleanups[q]) : c[1] # "handler" => c \in Elements(Done(p)[q])
    BY <2>1, <2>4
  <2>6. QED
    BY <1>0, <2>1, <2>3, <2>4, <2>5, StartOwns
<1>13. ASSUME NEW p \in Requests, NoCleanupHandler(p)
       PROVE  Owned'
  <2>1. UNCHANGED <<made, registered, destroyed, orphans, rconf, rb_request>>
    BY <1>13 DEF NoCleanupHandler
  <2>2. QED
    BY <1>0, <1>13, <1>a, <2>1, QuietObjects
<1>14. ASSUME NEW p \in Requests, CleanupRequestObject(p) \/ UnregisterObject(p)
       PROVE  Owned'
  BY <1>0, <1>14, ObjectCleanupOwns, UnregisterOwns
<1>15. CASE Idle
  BY <1>15, <1>a DEF Idle, vars, ObjectsQuiet
<1>16. QED
  BY <1>1, <1>2, <1>3, <1>4, <1>5, <1>6, <1>7, <1>8, <1>9, <1>10, <1>11, <1>12, <1>13, <1>14,
     <1>15 DEF Next

LEMMA OwnedInit == Init => Owned
<1> SUFFICES ASSUME Init PROVE Owned
  OBVIOUS
<1>1. /\ \A r \in Requests : made[r] = 0 /\ rconf[r] = None /\ Elements(cleanups[r]) = {}
      /\ registered = {} /\ destroyed = {} /\ orphans = {} /\ rb_request = None
  BY NoElements DEF Init
<1>2. ObjectsAccounted
  BY <1>1 DEF ObjectsAccounted
<1>3. QED
  BY <1>1, <1>2 DEF Owned, Numbered, ObjectsKept, FreshHasNone

LEMMA OwnedStutter == ASSUME Owned, UNCHANGED vars PROVE Owned'
BY DEF Owned, vars, apacheVars, objectVars, Numbered, Made, ObjectsKept, ObjectsAccounted,
   Accounted, FreshHasNone

\* The third layer holds throughout, on the first two.
LEMMA AlwaysOwned == Spec => []Owned
<1>1. Known /\ Pools /\ Owned /\ [Next]_vars => Owned'
  BY OwnedStep, OwnedStutter
<1>2. QED
  BY <1>1, AlwaysKnown, AlwaysPools, OwnedInit, PTL DEF Spec

\* Every variable keeps its type: whatever refers to a request object refers to one
\* apache_request_new made for that request.
THEOREM TypeCorrect == Spec => []TypeOK
<1>1. Known /\ Pools /\ Owned => TypeOK
  <2> SUFFICES ASSUME Known, Pools, Owned PROVE TypeOK
    OBVIOUS
  <2>0. Types
    BY DEF Known
  <2>1. \A o \in AnyObject : Made(o) <=> o \in Objects
    BY DEF AnyObject, Objects, Made
  <2>2. registered \subseteq Objects /\ destroyed \subseteq Objects /\ orphans \subseteq Objects
    BY <2>0, <2>1 DEF Types, Owned, Numbered
  <2>3. rb_request \in Objects \cup {None}
    BY <2>0, <2>1 DEF Types, Owned, Numbered
  <2>4. ASSUME NEW r \in Requests, rconf[r] # None
        PROVE  rconf[r] \in [saved_env : Envs, request_object : Objects]
    <3>1. rconf[r] \in Configs /\ Made(rconf[r].request_object)
      BY <2>0, <2>4 DEF Types, Owned, Numbered
    <3>2. rconf[r].request_object \in Objects
      BY <2>1, <3>1 DEF Configs
    <3>3. QED
      BY <3>1, <3>2 DEF Configs
  <2>5. rconf \in [Requests -> [saved_env : Envs, request_object : Objects] \cup {None}]
    <3>1. rconf \in [Requests -> Configs \cup {None}]
      BY <2>0 DEF Types
    <3>2. QED
      BY <2>4, <3>1
  <2>6. ASSUME NEW p \in Requests
        PROVE  cleanups[p] \in Seq(Cleanups)
    <3>1. cleanups[p] \in Seq(AnyCleanup)
      BY <2>0 DEF Types
    <3>2. \A c \in AnyCleanup : (c[1] = "unregister" => Made(c[2])) => c \in Cleanups
      BY <2>1 DEF AnyCleanup, Cleanups
    <3>3. \A c \in Elements(cleanups[p]) : c \in AnyCleanup /\ (c[1] = "unregister" => Made(c[2]))
      BY <3>1, ElementsInSet DEF Owned, Numbered
    <3>4. \A i \in 1..Len(cleanups[p]) : cleanups[p][i] \in Cleanups
      BY <3>2, <3>3 DEF Elements
    <3>5. QED
      BY <3>1, <3>4
  <2>7. cleanups \in [Requests -> Seq(Cleanups)]
    BY <2>0, <2>6 DEF Types
  <2>8. QED
    BY <2>0, <2>2, <2>3, <2>5, <2>7 DEF TypeOK, Types
<1>2. QED
  BY <1>1, AlwaysKnown, AlwaysPools, AlwaysOwned, PTL

\* When the pool of a request is gone, each object ever kept for it is destroyed and
\* unregistered, however the cleanups of several requests are mixed.
THEOREM AlwaysObjectsGo == Spec => []ObjectsGoWithRequest
<1>1. Known /\ Pools /\ Owned => ObjectsGoWithRequest
  <2> SUFFICES ASSUME Known, Pools, Owned, NEW r \in Requests, status[r] = "gone",
                      NEW k \in 1..made[r], <<r, k>> \notin orphans
               PROVE  <<r, k>> \in destroyed /\ <<r, k>> \notin registered
    BY DEF ObjectsGoWithRequest
  <2>1. Elements(cleanups[pool[r]]) = {}
    BY DEF Pools, NoCleanupsLeft
  <2>2. rconf[r] = None
    BY <2>1 DEF Owned, ObjectsKept
  <2>3. Accounted(r, k)
    BY DEF Owned, ObjectsAccounted
  <2>4. QED
    BY <2>1, <2>2, <2>3 DEF Accounted
<1>2. QED
  BY <1>1, AlwaysKnown, AlwaysPools, AlwaysOwned, PTL

\* The steps that change an rconf.
LEMMA ConfigSteps ==
  ASSUME Types, Next
  PROVE  \/ rconf' = rconf
         \/ \E r \in Requests : \E flush, cl : HandlerStarts(r, flush, cl)
         \/ LookupReturns
         \/ \E p \in Requests : CleanupRequestObject(p)
<1>1. \A r \in Requests, flush \in BOOLEAN : PhaseHandler(r, flush) =>
         HandlerStarts(r, flush, cleanups)
  BY HandlerCalled
<1>2. \A r \in Requests : ErrorLogHandler(r) => HandlerStarts(r, FALSE, cleanups)
  BY HandlerCalled
<1>3. \A p \in Requests : CleanupHandler(p) =>
         /\ Head(cleanups[p])[2] \in Requests
         /\ HandlerStarts(Head(cleanups[p])[2], FALSE, Done(p))
  BY HandlerCalled
<1>4. \A r \in Requests : Accept(r) \/ EndRequest(r) \/ PoolGone(r) \/ NoCleanupHandler(r)
                            \/ UnregisterObject(r) => rconf' = rconf
  BY DEF Accept, EndRequest, PoolGone, NoCleanupHandler, UnregisterObject
<1>5. \A s \in Others : LookupUri(s) \/ InternalRedirect(s) => rconf' = rconf
  BY DEF LookupUri, InternalRedirect
<1>6. \A s \in Others, r \in Requests : ApacheSubrequest(s, r) \/ ErrorDocument(s, r) =>
         rconf' = rconf
  BY DEF ApacheSubrequest, ErrorDocument
<1>7. (\E ok \in BOOLEAN : EndHandler(ok)) \/ SetupCgiEnv \/ RedirectReturns \/ Idle =>
         rconf' = rconf
  BY DEF EndHandler, SetupCgiEnv, RedirectReturns, Idle, vars
<1>8. QED
  BY <1>1, <1>2, <1>3, <1>4, <1>5, <1>6, <1>7 DEF Next

\* The handlers of a request share one object until its pool is destroyed.
THEOREM AlwaysSameObject == Spec => SameObject
<1> DEFINE Same(r) == main[r] = None /\ rconf[r] # None /\ rconf'[r] # None =>
                        rconf'[r].request_object = rconf[r].request_object
<1>1. ASSUME Known, Pools, Next, NEW r \in Requests
      PROVE  Same(r)
  <2>0. Types
    BY <1>1 DEF Known
  <2>1. ASSUME NEW q \in Requests, NEW flush, NEW cl, HandlerStarts(q, flush, cl)
        PROVE  Same(r)
    <3>1. rconf' = IF rconf[q] = None
                    THEN [rconf EXCEPT ![q] =
                            [saved_env |-> env, request_object |-> NewObject(q)]]
                    ELSE rconf
      BY <2>1 DEF HandlerStarts
    <3> DEFINE c == [saved_env |-> env, request_object |-> NewObject(q)]
    <3> HIDE DEF c
    <3>2. rconf[r] # None => rconf'[r] = rconf[r]
      <4>1. rconf' = IF rconf[q] = None THEN [rconf EXCEPT ![q] = c] ELSE rconf
        BY <3>1 DEF c
      <4>2. QED
        BY <2>0, <4>1 DEF Types
    <3>3. QED
      BY <3>2
  <2>2. CASE LookupReturns
    <3>1. PICK s \in Requests :
            /\ s = Current
            /\ rconf[s] = None => rconf' = rconf
            /\ rconf[s] # None =>
                 rconf' = [rconf EXCEPT ![s] = [saved_env |-> rconf[s].saved_env,
                                                request_object |-> NewObject(s)]]
            /\ frames # <<>> /\ Head(frames).does = "lookup"
      BY <2>0, <2>2, LookupReturnsEffect
    <3>2. main[s] # None
      BY <1>1, <2>0, <3>1, TopAlive DEF Pools
    <3>3. r # s => rconf'[r] = rconf[r]
      BY <2>0, <3>1 DEF Types
    <3>4. QED
      BY <3>2, <3>3
  <2>3. ASSUME NEW p \in Requests, CleanupRequestObject(p)
        PROVE  Same(r)
    <3>1. PICK q \in Requests :
            rconf' = IF rconf[q] = None THEN rconf ELSE [rconf EXCEPT ![q] = None]
      BY <2>0, <2>3, ObjectCleanupEffect
    <3>2. QED
      BY <2>0, <3>1 DEF Types
  <2>4. QED
    BY <1>1, <2>0, <2>1, <2>2, <2>3, ConfigSteps
<1>2. Known /\ Pools /\ [Next]_vars => [\A r \in Requests : Same(r)]_vars
  BY <1>1
<1>3. QED
  BY <1>2, AlwaysKnown, AlwaysPools, PTL DEF Spec, SameObject

-----------------------------------------------------------------------------
(***************************************************************************)
(* Handlers that do no more than look up URIs: whatever the depth of the   *)
(* nesting, a handler runs with its own request current, leaves the        *)
(* environment as it found it, and leaves nothing behind once the stack is *)
(* empty.                                                                  *)
(*                                                                         *)
(* The inductive invariant, Lookups, says how the C stack is built: a      *)
(* call of a handler for a subrequest is above the lookup that made the    *)
(* subrequest, which is above the handler it was made for.                 *)
(***************************************************************************)

\* Each request is alone in its pool.
NoRedirects == \A r \in Requests : next[r] = None /\ pool[r] = r
\* A live subrequest is being looked up.
LookupsRunning ==
  \A s \in Requests : main[s] # None /\ status[s] = "live" =>
    \E f \in Elements(frames) : f.does = "lookup" /\ f.req = s
\* Cleanup handlers run for requests from connections only.
HandlersToClean ==
  \A p \in Requests : \A c \in Elements(cleanups[p]) : c[1] = "handler" => main[Of(c)] = None
\* What a handler call is nested in: nothing, or the lookup of its request; its
\* rconf has the environment it found.
HandlerNested(i) ==
  LET r == frames[i].req
  IN  /\ rconf[r] # None
      /\ rconf[r].saved_env = frames[i].env
      /\ i = Len(frames) => main[r] = None
      /\ i # Len(frames) => frames[i + 1].does = "lookup" /\ frames[i + 1].req = r
\* A lookup is made by a handler of the main request.
LookupNested(i) ==
  /\ i # Len(frames)
  /\ frames[i + 1].does = "handler"
  /\ frames[i + 1].req = main[frames[i].req]
Nested(i) ==
  /\ frames[i].does = "handler" => HandlerNested(i)
  /\ frames[i].does = "lookup" => LookupNested(i)
  /\ frames[i].does # "redirect"
Stacked == \A i \in 1..Len(frames) : Nested(i)
\* No request is its own main request.
MainDiffers == \A r \in Requests : main[r] # r
\* Outside all calls nothing is current, and the first call of a request finds the
\* environment of the process.
Outermost ==
  /\ frames = <<>> => rb_request = None /\ env = Base
  /\ \A r \in Requests : main[r] = None /\ rconf[r] # None => rconf[r].saved_env = Base
\* The request of the innermost handler call is current; when a lookup runs no
\* handler yet, that of the handler that asked for it, whose environment is the one saved.
TopIsCurrent ==
  /\ Running("handler") => rb_request = rconf[Current].request_object
  /\ Running("lookup") =>
       /\ rb_request = rconf[main[Current]].request_object
       /\ rconf[Current] # None => rconf[Current].saved_env = env
\* The invariant of handlers that only look up URIs.
Lookups ==
  /\ NoRedirects /\ LookupsRunning /\ HandlersToClean /\ Stacked
  /\ MainDiffers /\ Outermost /\ TopIsCurrent

\* What no step with lookups only changes of the requests on the C stack.
Undisturbed ==
  \A f \in Elements(frames) :
    /\ main'[f.req] = main[f.req]
    /\ rconf[f.req] # None => /\ rconf'[f.req] # None
                              /\ rconf'[f.req].saved_env = rconf[f.req].saved_env

LEMMA ElementFact ==
  ASSUME Types, NEW i \in 1..Len(frames)
  PROVE  /\ frames[i] \in Elements(frames)
         /\ frames[i] \in Frames
         /\ frames[i].req \in Requests
BY FrameRequests DEF Elements

\* The top of the stack.
LEMMA TopNested ==
  ASSUME Types, frames # <<>>, Stacked
  PROVE  /\ Len(frames) \in Nat \ {0} /\ 1 \in 1..Len(frames)
         /\ Head(frames) = frames[1] /\ Current = frames[1].req
         /\ Nested(1)
<1>1. Head(frames) = frames[1] /\ Len(frames) \in Nat \ {0}
  BY PopElements, Zenon DEF Types
<1>2. 1 \in 1..Len(frames)
  BY <1>1
<1>3. QED
  BY <1>1, <1>2 DEF Stacked, Current

LEMMA PopIndexes ==
  ASSUME NEW S, NEW s \in Seq(S), s # <<>>, NEW i \in 1..Len(Tail(s))
  PROVE  \E j \in 1..Len(s) : /\ Tail(s)[i] = s[j]
                              /\ i = Len(Tail(s)) <=> j = Len(s)
                              /\ i # Len(Tail(s)) => Tail(s)[i + 1] = s[j + 1]
<1> DEFINE t == Tail(s)
           j == i + 1
           n == Len(t)
<1>1. /\ Len(s) \in Nat \ {0}
      /\ n = Len(s) - 1
      /\ \A k \in 1..n : t[k] = s[k + 1]
  BY PopElements, Zenon
<1> HIDE DEF t, n
<1>2. i \in 1..n /\ n \in Nat /\ Len(s) = n + 1
  BY <1>1 DEF n, t
<1>3. j \in 1..Len(s) /\ (i = n <=> j = Len(s)) /\ (i # n => j \in 1..n)
  BY <1>2
<1>4. t[i] = s[j]
  BY <1>1, <1>2
<1> HIDE DEF j
<1>5. i # n => t[j] = s[j + 1]
  BY <1>1, <1>3
<1>6. i # n => t[i + 1] = s[j + 1]
  BY <1>5 DEF j
<1>7. QED
  BY <1>3, <1>4, <1>6 DEF n, t

LEMMA PushIndexes ==
  ASSUME NEW S, NEW s \in Seq(S), NEW e \in S, NEW i \in 1..Len(<<e>> \o s), i # 1
  PROVE  \E j \in 1..Len(s) : /\ (<<e>> \o s)[i] = s[j]
                              /\ i = Len(<<e>> \o s) <=> j = Len(s)
                              /\ i # Len(<<e>> \o s) => (<<e>> \o s)[i + 1] = s[j + 1]
<1> DEFINE t == <<e>> \o s
           n == Len(s)
<1>1. t \in Seq(S) /\ t # <<>> /\ Head(t) = e
  BY PushElements, Zenon
<1>2. Len(t) = Len(s) + 1
  BY PushElements, Zenon
<1>3. \A k \in 1..n : t[k + 1] = s[k]
  BY PushElements, Zenon
<1> HIDE DEF t, n
<1>4. n \in Nat /\ Len(t) = n + 1 /\ i \in 1..n + 1
  BY <1>2, LenProperties DEF n, t
<1> DEFINE j == i - 1
<1>5. j \in 1..n /\ i = j + 1 /\ (i = n + 1 <=> j = n) /\ (i # n + 1 => i \in 1..n)
  BY <1>4
<1> HIDE DEF j
<1>6. t[i] = s[j]
  BY <1>3, <1>5
<1>7. i # n + 1 => t[i + 1] = s[j + 1]
  BY <1>3, <1>5
<1>8. \E k \in 1..n : /\ t[i] = s[k]
                      /\ i = Len(t) <=> k = n
                      /\ i # Len(t) => t[i + 1] = s[k + 1]
  BY <1>4, <1>5, <1>6, <1>7
<1>9. QED
  BY <1>8 DEF t, n

LEMMA PopStacked ==
  ASSUME Types, frames # <<>>, frames' = Tail(frames), Undisturbed, Stacked
  PROVE  Stacked'
<1> SUFFICES ASSUME NEW i \in 1..Len(frames')
             PROVE  Nested(i)'
  BY DEF Stacked
<1>1. frames \in Seq(Frames) /\ frames # <<>> /\ i \in 1..Len(Tail(frames))
  BY DEF Types
<1>2. PICK j \in 1..Len(frames) : /\ frames'[i] = frames[j]
                                  /\ i = Len(frames') <=> j = Len(frames)
                                  /\ i # Len(frames') => frames'[i + 1] = frames[j + 1]
  BY <1>1, PopIndexes
<1>3. Nested(j)
  BY DEF Stacked
<1>4. /\ main'[frames[j].req] = main[frames[j].req]
      /\ rconf[frames[j].req] # None =>
           /\ rconf'[frames[j].req] # None
           /\ rconf'[frames[j].req].saved_env = rconf[frames[j].req].saved_env
  BY ElementFact DEF Undisturbed
<1>5. frames[j].does = "handler" => HandlerNested(i)'
  BY <1>2, <1>3, <1>4 DEF Nested, HandlerNested
<1>6. frames[j].does = "lookup" => LookupNested(i)'
  BY <1>2, <1>3, <1>4 DEF Nested, LookupNested
<1>7. QED
  BY <1>2, <1>3, <1>5, <1>6 DEF Nested

LEMMA SameStacked ==
  ASSUME Types, frames' = frames, Undisturbed, Stacked
  PROVE  Stacked'
<1> SUFFICES ASSUME NEW i \in 1..Len(frames)
             PROVE  Nested(i)'
  BY DEF Stacked
<1>1. Nested(i)
  BY DEF Stacked
<1>2. /\ main'[frames[i].req] = main[frames[i].req]
      /\ rconf[frames[i].req] # None =>
           /\ rconf'[frames[i].req] # None
           /\ rconf'[frames[i].req].saved_env = rconf[frames[i].req].saved_env
  BY ElementFact DEF Undisturbed
<1>3. frames[i].does = "handler" => HandlerNested(i)'
  BY <1>1, <1>2 DEF Nested, HandlerNested
<1>4. frames[i].does = "lookup" => LookupNested(i)'
  BY <1>1, <1>2 DEF Nested, LookupNested
<1>5. QED
  BY <1>1, <1>3, <1>4 DEF Nested

LEMMA PushStacked ==
  ASSUME Types, NEW f \in Frames, frames' = <<f>> \o frames, Undisturbed, Stacked,
         f.does # "redirect",
         f.does = "handler" =>
           /\ rconf'[f.req] # None
           /\ rconf'[f.req].saved_env = f.env
           /\ frames = <<>> => main'[f.req] = None
           /\ frames # <<>> => Head(frames).does = "lookup" /\ Head(frames).req = f.req,
         f.does = "lookup" =>
           frames # <<>> /\ Head(frames).does = "handler" /\ Head(frames).req = main'[f.req]
  PROVE  Stacked'
<1> SUFFICES ASSUME NEW i \in 1..Len(frames')
             PROVE  Nested(i)'
  BY DEF Stacked
<1>1. frames \in Seq(Frames) /\ i \in 1..Len(<<f>> \o frames)
  BY DEF Types
<1>2. CASE i = 1
  <2>1. frames'[i] = f
    BY <1>1, <1>2, PushElements, PopElements
  <2>2. i = Len(frames') <=> frames = <<>>
    <3>1. Len(<<f>> \o frames) = Len(frames) + 1
      BY <1>1, PushElements, Zenon
    <3>2. Len(frames) \in Nat /\ (frames = <<>> <=> Len(frames) = 0)
      BY <1>1
    <3>3. QED
      BY <1>2, <3>1, <3>2
  <2>3. frames # <<>> => frames'[i + 1] = Head(frames)
    <3>1. \A k \in 1..Len(frames) : (<<f>> \o frames)[k + 1] = frames[k]
      BY <1>1, PushElements, Zenon
    <3>2. frames # <<>> => 1 \in 1..Len(frames) /\ Head(frames) = frames[1]
      BY <1>1
    <3>3. QED
      BY <1>2, <3>1, <3>2
  <2>4. f.does = "handler" => HandlerNested(i)'
    BY <2>1, <2>2, <2>3 DEF HandlerNested
  <2>5. f.does = "lookup" => LookupNested(i)'
    BY <2>1, <2>2, <2>3 DEF LookupNested
  <2>6. QED
    BY <2>1, <2>4, <2>5 DEF Nested
<1>3. CASE i # 1
  <2>1. PICK j \in 1..Len(frames) : /\ frames'[i] = frames[j]
                                    /\ i = Len(frames') <=> j = Len(frames)
                                    /\ i # Len(frames') => frames'[i + 1] = frames[j + 1]
    <3>1. \E j \in 1..Len(frames) :
             /\ (<<f>> \o frames)[i] = frames[j]
             /\ i = Len(<<f>> \o frames) <=> j = Len(frames)
             /\ i # Len(<<f>> \o frames) => (<<f>> \o frames)[i + 1] = frames[j + 1]
      BY <1>1, <1>3, PushIndexes, Zenon
    <3>2. QED
      BY <3>1, Zenon
  <2>2. Nested(j)
    BY DEF Stacked
  <2>3. /\ main'[frames[j].req] = main[frames[j].req]
        /\ rconf[frames[j].req] # None =>
             /\ rconf'[frames[j].req] # None
             /\ rconf'[frames[j].req].saved_env = rconf[frames[j].req].saved_env
    BY ElementFact DEF Undisturbed
  <2>4. frames[j].does = "handler" => HandlerNested(i)'
    BY <2>1, <2>2, <2>3 DEF Nested, HandlerNested
  <2>5. frames[j].does = "lookup" => LookupNested(i)'
    BY <2>1, <2>2, <2>3 DEF Nested, LookupNested
  <2>6. QED
    BY <2>1, <2>2, <2>4, <2>5 DEF Nested
<1>4. QED
  BY <1>2, <1>3

LEMMA CleanStays ==
  ASSUME Types, HandlersToClean, main' = main,
         NEW S \in SUBSET Requests, NEW cl \in [Requests -> Seq(AnyCleanup)],
         MakeObjects(S, cl),
         \A p \in Requests : Elements(cl[p]) \subseteq Elements(cleanups[p])
  PROVE  HandlersToClean'
<1>1. ObjectsCleaned(S, cl)
  BY MakeEffect
<1> SUFFICES ASSUME NEW p \in Requests, NEW c \in Elements(cleanups'[p]), c[1] = "handler"
             PROVE  main[Of(c)] = None
  BY DEF HandlersToClean
<1>2. c \in Elements(cl[p])
  BY <1>1 DEF ObjectsCleaned
<1>3. QED
  BY <1>2 DEF HandlersToClean

LEMMA RunningStays ==
  ASSUME Types, LookupsRunning, main' = main, status' = status,
         \A f \in Elements(frames) : f.does = "lookup" => f \in Elements(frames')
  PROVE  LookupsRunning'
BY DEF LookupsRunning

LEMMA StartLooks ==
  ASSUME Types, Lookups, NEW r \in Requests, NEW flush \in BOOLEAN,
         NEW cl \in [Requests -> Seq(AnyCleanup)], HandlerStarts(r, flush, cl),
         \A p \in Requests : Elements(cl[p]) \subseteq Elements(cleanups[p]),
         \/ frames = <<>> /\ main[r] = None
         \/ Running("lookup") /\ r = Current /\ main[r] # None
  PROVE  Lookups'
<1> DEFINE S == IF rconf[r] = None THEN {r} ELSE {}
           f == Handler(r, flush)
           c == [saved_env |-> env, request_object |-> NewObject(r)]
<1>1. /\ S \in SUBSET Requests /\ MakeObjects(S, cl)
      /\ rconf' = IF rconf[r] = None THEN [rconf EXCEPT ![r] = c] ELSE rconf
      /\ rb_request' = IF rconf[r] = None THEN NewObject(r) ELSE rconf[r].request_object
      /\ frames' = <<f>> \o frames
      /\ UNCHANGED <<status, main, next, pool, env>>
  BY DEF HandlerStarts
<1>2. f \in Frames /\ f.does = "handler" /\ f.req = r /\ f.env = env
  BY HandlerFrame DEF Handler
<1>3. c # None /\ c.saved_env = env /\ c.request_object = NewObject(r)
  BY ConfigsAreNotNone, NewNumber DEF Types
<1> HIDE DEF S, f, c
<1>4. /\ rconf'[r] # None
      /\ rconf'[r].request_object = rb_request'
      /\ rconf[r] = None => rconf'[r].saved_env = env
      /\ rconf[r] # None => rconf'[r].saved_env = rconf[r].saved_env
      /\ \A q \in Requests : q # r => rconf'[q] = rconf[q]
      /\ \A q \in Requests : rconf[q] # None => rconf'[q] = rconf[q]
  <2>1. CASE rconf[r] = None
    <3>1. rconf' = [rconf EXCEPT ![r] = c] /\ rb_request' = NewObject(r)
      BY <1>1, <2>1
    <3>2. QED
      BY <1>3, <2>1, <3>1 DEF Types
  <2>2. CASE rconf[r] # None
    BY <1>1, <2>2
  <2>3. QED
    BY <2>1, <2>2
<1>5. rconf[r] # None => rconf[r].saved_env = env
  BY DEF Lookups, Outermost, TopIsCurrent
<1>6. rconf'[r].saved_env = env
  BY <1>4, <1>5
<1>7. Elements(frames') = {f} \cup Elements(frames) /\ frames' # <<>> /\ Head(frames') = f
  <2>1. frames \in Seq(Frames)
    BY DEF Types
  <2>2. /\ Elements(<<f>> \o frames) = {f} \cup Elements(frames)
        /\ <<f>> \o frames # <<>>
        /\ Head(<<f>> \o frames) = f
    <3>1. f \in Frames
      BY <1>2
    <3> HIDE DEF f
    <3>2. QED
      BY <2>1, <3>1, PushElements
  <2>3. QED
    BY <1>1, <2>2, Zenon
<1>8. NoRedirects' /\ MainDiffers'
  BY <1>1 DEF Lookups, NoRedirects, MainDiffers
<1>9. LookupsRunning'
  BY <1>1, <1>7, RunningStays DEF Lookups
<1>10. HandlersToClean'
  BY <1>1, CleanStays DEF Lookups
<1>11. Stacked'
  <2>1. Undisturbed
    <3>1. \A g \in Elements(frames) : g.req \in Requests
      BY FrameRequests
    <3>2. QED
      BY <1>1, <1>4, <3>1 DEF Undisturbed
  <2>2. frames # <<>> => Head(frames).does = "lookup" /\ Head(frames).req = r
    BY DEF Running, Current
  <2>3. frames = <<>> => main'[r] = None
    BY <1>1 DEF Running
  <2>4. QED
    BY <1>1, <1>2, <1>4, <1>6, <2>1, <2>2, <2>3, PushStacked DEF Lookups
<1>12. Outermost'
  <2>1. ASSUME NEW q \in Requests, main'[q] = None, rconf'[q] # None
        PROVE  rconf'[q].saved_env = Base
    <3>1. CASE q = r
      <4>1. frames = <<>> /\ env = Base
        BY <1>1, <2>1, <3>1 DEF Lookups, Outermost
      <4>2. QED
        BY <1>6, <3>1, <4>1
    <3>2. CASE q # r
      BY <1>1, <1>4, <2>1, <3>2 DEF Lookups, Outermost
    <3>3. QED
      BY <3>1, <3>2
  <2>2. QED
    BY <1>7, <2>1 DEF Outermost
<1>13. TopIsCurrent'
  <2>1. frames' # <<>> /\ Head(frames').does = "handler" /\ Head(frames').req = r
    BY <1>2, <1>7
  <2>2. QED
    BY <1>4, <2>1 DEF TopIsCurrent, Running, Current
<1>14. QED
  BY <1>8, <1>9, <1>10, <1>11, <1>12, <1>13 DEF Lookups

\* The request of the handler that runs, and what is below it.
LEMMA HandlerOnTop ==
  ASSUME Known, Pools, Lookups, Running("handler")
  PROVE  /\ Current \in Requests /\ Last(Current) = Current
         /\ rconf[Current] # None
         /\ rconf[Current].saved_env = Head(frames).env
         /\ IF main[Current] = None
              THEN Tail(frames) = <<>>
              ELSE /\ Tail(frames) # <<>>
                   /\ Head(Tail(frames)).does = "lookup"
                   /\ Head(Tail(frames)).req = Current
                   /\ main[Current] \in Requests
                   /\ rconf[main[Current]] # None
<1>0. Types /\ frames # <<>> /\ Head(frames).does = "handler" /\ Stacked
  BY DEF Known, Running, Lookups
<1>1. Current \in Requests
  BY <1>0, TopFrame
<1>2. Last(Current) = Current
  BY <1>1, LastFact DEF Known, Types, Lookups, NoRedirects
<1>3. /\ Len(frames) \in Nat \ {0} /\ 1 \in 1..Len(frames)
      /\ Head(frames) = frames[1] /\ Current = frames[1].req
      /\ Nested(1)
  BY <1>0, TopNested
<1>4. HandlerNested(1)
  BY <1>0, <1>3 DEF Nested
<1>5. /\ Tail(frames) \in Seq(Frames)
      /\ Len(Tail(frames)) = Len(frames) - 1
      /\ \A i \in 1..Len(Tail(frames)) : Tail(frames)[i] = frames[i + 1]
  BY <1>0, PopElements, Zenon DEF Types
<1> DEFINE n == Len(frames)
           t == Tail(frames)
           m == Len(t)
<1> HIDE DEF n, t, m
<1>a. n \in Nat \ {0} /\ m = n - 1 /\ t \in Seq(Frames)
  BY <1>3, <1>5 DEF n, t, m
<1>b. /\ n = 1 => m = 0
      /\ n # 1 => 2 \in 1..n /\ 1 \in 1..m /\ m # 0
      /\ n # 1 /\ n # 2 => 3 \in 1..n
  BY <1>a
<1>c. (t = <<>> <=> m = 0) /\ (t # <<>> => Head(t) = t[1])
  BY <1>a DEF m
<1>d. \A i \in 1..m : t[i] = frames[i + 1]
  BY <1>5 DEF t, m
<1>6. CASE Len(frames) = 1
  <2>1. Tail(frames) = <<>>
    BY <1>6, <1>b, <1>c DEF n, t
  <2>2. main[Current] = None
    BY <1>3, <1>4, <1>6 DEF HandlerNested
  <2>3. QED
    BY <1>1, <1>2, <1>3, <1>4, <2>1, <2>2 DEF HandlerNested
<1>7. CASE Len(frames) # 1
  <2>1. frames[2].does = "lookup" /\ frames[2].req = Current
    <3>1. frames[1 + 1].does = "lookup" /\ frames[1 + 1].req = frames[1].req
      BY <1>3, <1>4, <1>7 DEF HandlerNested
    <3>2. QED
      BY <1>3, <3>1
  <2>2. Tail(frames) # <<>> /\ Head(Tail(frames)) = frames[2]
    <3>1. t # <<>> /\ Head(t) = t[1] /\ t[1] = frames[1 + 1]
      BY <1>7, <1>b, <1>c, <1>d DEF n
    <3>2. QED
      BY <3>1 DEF t
  <2>3. 2 \in 1..Len(frames)
    BY <1>7, <1>b DEF n
  <2>4. main[Current] # None
    <3>1. frames[2] \in Elements(frames)
      BY <1>0, <2>3, ElementFact
    <3>2. main[frames[2].req] # None
      BY <2>1, <3>1 DEF Pools, FramesKnown
    <3>3. QED
      BY <2>1, <3>2
  <2>5. Nested(2)
    BY <1>0, <2>3 DEF Stacked
  <2>6. 3 \in 1..Len(frames) /\ frames[3].does = "handler" /\ frames[3].req = main[Current]
    <3>1. 2 # Len(frames) /\ frames[2 + 1].does = "handler"
          /\ frames[2 + 1].req = main[frames[2].req]
      BY <2>1, <2>5 DEF Nested, LookupNested
    <3>2. 3 \in 1..Len(frames)
      BY <1>7, <1>b, <3>1 DEF n
    <3>3. QED
      BY <2>1, <3>1, <3>2
  <2>7. Nested(3)
    BY <1>0, <2>6 DEF Stacked
  <2>8. rconf[main[Current]] # None
    BY <2>6, <2>7 DEF Nested, HandlerNested
  <2>9. main[Current] \in Requests
    BY <1>0, <1>1, <2>4 DEF Types
  <2>10. QED
    <3>1. rconf[Current] # None /\ rconf[Current].saved_env = Head(frames).env
      BY <1>3, <1>4 DEF HandlerNested
    <3> HIDE DEF Current
    <3>2. QED
      BY <1>1, <1>2, <2>1, <2>2, <2>4, <2>8, <2>9, <3>1
<1>8. QED
  BY <1>6, <1>7

LEMMA EndLooks ==
  ASSUME Known, Pools, Lookups, NEW r, NEW new, HandlerEnds(r, new)
  PROVE  Lookups'
<1>0. Types
  BY DEF Known
<1>1. /\ frames # <<>> /\ Head(frames).does = "handler"
      /\ r = Last(Current)
      /\ MakeObjects(new, cleanups)
      /\ rb_request' = IF main[r] = None THEN None ELSE ObjectOf(main[r])
      /\ env' = IF rconf[r] # None THEN rconf[r].saved_env ELSE env
      /\ frames' = Tail(frames)
      /\ UNCHANGED <<status, main, next, pool, rconf>>
  BY DEF HandlerEnds
<1>2. /\ r = Current /\ r \in Requests
      /\ rconf[r] # None
      /\ IF main[r] = None
           THEN Tail(frames) = <<>>
           ELSE /\ Tail(frames) # <<>>
                /\ Head(Tail(frames)).does = "lookup"
                /\ Head(Tail(frames)).req = r
                /\ rconf[main[r]] # None
  BY <1>1, HandlerOnTop DEF Running
<1>3. env' = rconf[r].saved_env
  BY <1>1, <1>2
<1>4. main[r] # None => rb_request' = rconf[main[r]].request_object
  BY <1>1, <1>2 DEF ObjectOf
<1>5. NoRedirects' /\ MainDiffers'
  BY <1>1 DEF Lookups, NoRedirects, MainDiffers
<1>6. LookupsRunning'
  <2>1. Elements(frames) = {Head(frames)} \cup Elements(Tail(frames))
    BY <1>0, <1>1, PopElements, Zenon DEF Types
  <2>2. \A f \in Elements(frames) : f.does = "lookup" => f \in Elements(frames')
    BY <1>1, <2>1
  <2>3. QED
    BY <1>0, <1>1, <2>2, RunningStays DEF Lookups
<1>7. HandlersToClean'
  <2>1. cleanups \in [Requests -> Seq(AnyCleanup)] /\ new \in SUBSET Requests
    BY <1>0, EndTypes DEF Types, Known
  <2>2. QED
    BY <1>0, <1>1, <2>1, CleanStays DEF Lookups
<1>8. Stacked'
  <2>1. Undisturbed
    BY <1>1 DEF Undisturbed
  <2>2. QED
    BY <1>0, <1>1, <2>1, PopStacked DEF Lookups
<1>9. Outermost'
  <2>1. \A q \in Requests : main[q] = None /\ rconf[q] # None => rconf[q].saved_env = Base
    BY DEF Lookups, Outermost
  <2>2. frames' = <<>> => main[r] = None
    BY <1>1, <1>2
  <2>3. main[r] = None => rb_request' = None /\ env' = Base
    BY <1>1, <1>2, <1>3, <2>1
  <2>4. QED
    BY <1>1, <2>1, <2>2, <2>3 DEF Outermost
<1>10. TopIsCurrent'
  <2>1. CASE main[r] = None
    BY <1>1, <1>2, <2>1 DEF TopIsCurrent, Running
  <2>2. CASE main[r] # None
    <3>1. frames' # <<>> /\ Head(frames').does = "lookup" /\ Head(frames').req = r
      BY <1>1, <1>2, <2>2
    <3>2. QED
      BY <1>1, <1>3, <1>4, <2>2, <3>1 DEF TopIsCurrent, Running, Current
  <2>3. QED
    BY <2>1, <2>2
<1>11. QED
  BY <1>5, <1>6, <1>7, <1>8, <1>9, <1>10 DEF Lookups

LEMMA LookupUriLooks ==
  ASSUME Known, Pools, Owned, Lookups, NEW s \in Others, LookupUri(s)
  PROVE  Lookups'
<1>0. Types /\ FreshIsNew
  BY DEF Known
<1> DEFINE f == [does |-> "lookup", req |-> s]
<1>1. /\ Current \in Requests
      /\ SubrequestMade(s, Current)
      /\ f \in Frames
      /\ frames' = <<f>> \o frames
  BY <1>0, RequestMade
<1>2. /\ Running("handler")
      /\ UNCHANGED <<rconf, rb_request, env>>
  BY DEF LookupUri
<1>3. f.does = "lookup" /\ f.req = s
  OBVIOUS
<1> HIDE DEF f
<1>4. PICK r \in Requests : r = Current
  BY <1>1
<1>5. /\ s \in Requests /\ status[s] = "fresh" /\ status[r] = "live" /\ r # s
      /\ status' = [status EXCEPT ![s] = "live"]
      /\ main' = [main EXCEPT ![s] = r]
      /\ UNCHANGED <<next, pool, cleanups>>
  BY <1>1, <1>4 DEF SubrequestMade, Requests
<1>6. /\ main'[s] = r /\ \A q \in Requests : q # s => main'[q] = main[q]
      /\ \A q \in Requests : q # s => status'[q] = status[q]
  BY <1>0, <1>5 DEF Types
<1>7. rconf[s] = None /\ r # None
  BY <1>4, <1>5, HandlersAssumption DEF Owned, FreshHasNone
<1>8. /\ Elements(frames') = {f} \cup Elements(frames)
      /\ frames' # <<>> /\ Head(frames') = f
  <2>1. frames \in Seq(Frames)
    BY <1>0 DEF Types
  <2>2. Elements(<<f>> \o frames) = {f} \cup Elements(frames)
        /\ <<f>> \o frames # <<>> /\ Head(<<f>> \o frames) = f
    BY <1>1, <2>1, PushElements, Zenon
  <2>3. QED
    BY <1>1, <2>2, Zenon
<1>9. NoRedirects'
  BY <1>5 DEF Lookups, NoRedirects
<1>10. MainDiffers'
  BY <1>5, <1>6 DEF Lookups, MainDiffers
<1>11. LookupsRunning'
  <2> SUFFICES ASSUME NEW q \in Requests, main'[q] # None, status'[q] = "live"
               PROVE  \E g \in Elements(frames') : g.does = "lookup" /\ g.req = q
    BY DEF LookupsRunning
  <2>1. CASE q = s
    BY <1>3, <1>8, <2>1
  <2>2. CASE q # s
    BY <1>6, <1>8, <2>2 DEF Lookups, LookupsRunning
  <2>3. QED
    BY <2>1, <2>2
<1>12. HandlersToClean'
  <2> SUFFICES ASSUME NEW p \in Requests, NEW c \in Elements(cleanups[p]), c[1] = "handler"
               PROVE  main'[Of(c)] = None
    BY <1>5 DEF HandlersToClean
  <2>1. main[Of(c)] = None
    BY DEF Lookups, HandlersToClean
  <2>2. Of(c) # s
    BY <1>5 DEF Pools, CleanupsInPool
  <2>3. Of(c) \in Requests
    <3>1. c \in AnyCleanup
      BY <1>0, ElementsInSet DEF Types
    <3>2. QED
      BY <3>1, CleanupRequests DEF Of
  <2>4. QED
    BY <1>6, <2>1, <2>2, <2>3
<1>13. Stacked'
  <2>1. Undisturbed
    <3>1. \A g \in Elements(frames) : g.req \in Requests
      BY <1>0, FrameRequests
    <3>2. \A g \in Elements(frames) : g.req # s
      BY <1>5 DEF Pools, FramesKnown, Alive
    <3>3. QED
      BY <1>2, <1>6, <3>1, <3>2 DEF Undisturbed
  <2>2. frames # <<>> /\ Head(frames).does = "handler" /\ Head(frames).req = main'[s]
    BY <1>2, <1>4, <1>6 DEF Running, Current
  <2>3. QED
    BY <1>0, <1>1, <1>3, <2>1, <2>2, PushStacked DEF Lookups
<1>14. Outermost'
  <2>1. ASSUME NEW q \in Requests, main'[q] = None, rconf[q] # None
        PROVE  rconf[q].saved_env = Base
    BY <1>6, <1>7, <2>1 DEF Lookups, Outermost
  <2>2. QED
    BY <1>2, <1>8, <2>1 DEF Outermost
<1>15. TopIsCurrent'
  <2>1. Head(frames').does = "lookup" /\ Head(frames').req = s
    BY <1>3, <1>8
  <2>2. rb_request' = rconf'[main'[s]].request_object
    BY <1>2, <1>4, <1>6 DEF Lookups, TopIsCurrent
  <2>3. QED
    BY <1>2, <1>7, <2>1, <2>2 DEF TopIsCurrent, Running, Current
<1>16. QED
  BY <1>9, <1>10, <1>11, <1>12, <1>13, <1>14, <1>15 DEF Lookups

LEMMA LookupOnTop ==
  ASSUME Types, Stacked, Running("lookup")
  PROVE  /\ Tail(frames) # <<>>
         /\ Head(Tail(frames)).does = "handler"
         /\ Head(Tail(frames)).req = main[Current]
         /\ Head(Tail(frames)) \in Elements(frames)
<1>0. frames # <<>> /\ Head(frames).does = "lookup"
  BY DEF Running
<1>1. /\ Len(frames) \in Nat \ {0}
      /\ Head(frames) = frames[1] /\ Current = frames[1].req
      /\ Nested(1)
  BY <1>0, TopNested
<1>2. 1 # Len(frames) /\ frames[1 + 1].does = "handler"
      /\ frames[1 + 1].req = main[frames[1].req]
  BY <1>0, <1>1 DEF Nested, LookupNested
<1>3. /\ Tail(frames) \in Seq(Frames)
      /\ Len(Tail(frames)) = Len(frames) - 1
      /\ \A i \in 1..Len(Tail(frames)) : Tail(frames)[i] = frames[i + 1]
      /\ Elements(frames) = {Head(frames)} \cup Elements(Tail(frames))
  BY <1>0, PopElements, Zenon DEF Types
<1> DEFINE n == Len(frames)
           t == Tail(frames)
           m == Len(t)
<1> HIDE DEF n, t, m
<1>4. n \in Nat \ {0} /\ m = n - 1 /\ t \in Seq(Frames) /\ n # 1
  BY <1>1, <1>2, <1>3 DEF n, t, m
<1>5. 1 \in 1..m /\ m # 0
  BY <1>4
<1>6. t # <<>> /\ Head(t) = t[1] /\ t[1] \in Elements(t)
  BY <1>4, <1>5 DEF m, Elements
<1>7. t[1] = frames[1 + 1]
  BY <1>3, <1>5 DEF t, m
<1>8. Head(t).does = "handler" /\ Head(t).req = main[Current]
  BY <1>1, <1>2, <1>6, <1>7
<1>9. QED
  BY <1>3, <1>6, <1>8 DEF t

LEMMA ReturnLooks ==
  ASSUME Known, Pools, Lookups, LookupReturns
  PROVE  Lookups'
<1>0. Types
  BY DEF Known
<1>1. PICK s \in Requests :
        /\ s = Current
        /\ frames # <<>> /\ Head(frames).does = "lookup"
        /\ MakeObjects({s}, cleanups)
        /\ rconf[s] = None => rconf' = rconf
        /\ rconf[s] # None =>
             rconf' = [rconf EXCEPT ![s] = [saved_env |-> rconf[s].saved_env,
                                            request_object |-> NewObject(s)]]
        /\ status' = [q \in Requests |->
              IF status[q] = "live" /\ pool[q] = s THEN "lookedUp" ELSE status[q]]
        /\ frames' = Tail(frames)
  BY <1>0, LookupReturnsEffect
<1>2. UNCHANGED <<main, next, pool, rb_request, env>>
  BY DEF LookupReturns
<1>3. /\ Tail(frames) # <<>>
      /\ Head(Tail(frames)).does = "handler"
      /\ Head(Tail(frames)).req = main[s]
  BY <1>0, <1>1, LookupOnTop DEF Running, Lookups
<1>4. /\ \A q \in Requests : q # s => rconf'[q] = rconf[q]
      /\ rconf[s] = None => rconf'[s] = None
      /\ rconf[s] # None => rconf'[s] # None /\ rconf'[s].saved_env = rconf[s].saved_env
  <2>1. CASE rconf[s] = None
    BY <1>1, <2>1
  <2>2. CASE rconf[s] # None
    <3> DEFINE c == [saved_env |-> rconf[s].saved_env, request_object |-> NewObject(s)]
    <3>1. rconf[s].saved_env \in Envs
      BY <1>0, <2>2 DEF Types, Configs
    <3>2. c # None
      BY <1>0, <3>1, ConfigsAreNotNone, NewNumber
    <3>3. c.saved_env = rconf[s].saved_env
      OBVIOUS
    <3>4. rconf' = [rconf EXCEPT ![s] = c]
      BY <1>1, <2>2
    <3> HIDE DEF c
    <3>5. QED
      BY <1>0, <2>2, <3>2, <3>3, <3>4 DEF Types
  <2>3. QED
    BY <2>1, <2>2
<1>5. NoRedirects' /\ MainDiffers'
  BY <1>2 DEF Lookups, NoRedirects, MainDiffers
<1>6. LookupsRunning'
  <2> SUFFICES ASSUME NEW q \in Requests, main[q] # None, status'[q] = "live"
               PROVE  \E g \in Elements(Tail(frames)) : g.does = "lookup" /\ g.req = q
    BY <1>1, <1>2 DEF LookupsRunning
  <2>1. status[q] = "live" /\ q # s
    BY <1>1 DEF Lookups, NoRedirects
  <2>2. PICK g \in Elements(frames) : g.does = "lookup" /\ g.req = q
    BY <2>1 DEF Lookups, LookupsRunning
  <2>3. Elements(frames) = {Head(frames)} \cup Elements(Tail(frames))
    BY <1>0, <1>1, PopElements, Zenon DEF Types
  <2>4. g # Head(frames)
    BY <1>1, <2>1, <2>2 DEF Current
  <2>5. QED
    BY <2>2, <2>3, <2>4
<1>7. HandlersToClean'
  <2>1. cleanups \in [Requests -> Seq(AnyCleanup)] /\ {s} \in SUBSET Requests
    BY <1>0 DEF Types
  <2>2. QED
    BY <1>0, <1>1, <1>2, <2>1, CleanStays DEF Lookups
<1>8. Stacked'
  <2>1. Undisturbed
    <3>1. \A g \in Elements(frames) : g.req \in Requests
      BY <1>0, FrameRequests
    <3>2. QED
      BY <1>2, <1>4, <3>1 DEF Undisturbed
  <2>2. QED
    BY <1>0, <1>1, <2>1, PopStacked DEF Lookups
<1>9. Outermost'
  BY <1>1, <1>2, <1>3, <1>4 DEF Outermost, Lookups
<1>10. TopIsCurrent'
  <2>1. main[s] # None /\ main[s] \in Requests /\ main[s] # s
    BY <1>0, <1>1, TopAlive DEF Pools, Types, Lookups, MainDiffers
  <2>2. rb_request' = rconf'[main[s]].request_object
    BY <1>1, <1>2, <1>4, <2>1 DEF Lookups, TopIsCurrent, Running
  <2>3. frames' # <<>> /\ Head(frames').does = "handler" /\ Head(frames').req = main[s]
    BY <1>1, <1>3
  <2>4. QED
    BY <2>2, <2>3 DEF TopIsCurrent, Running, Current
<1>11. QED
  BY <1>5, <1>6, <1>7, <1>8, <1>9, <1>10 DEF Lookups

LEMMA ObjectCleanupLooks ==
  ASSUME Types, Pools, Lookups, NEW p \in Requests, CleanupRequestObject(p)
  PROVE  Lookups'
<1>1. PICK r \in Requests :
         /\ cleanups[p] # <<>>
         /\ Head(cleanups[p]) = <<"object", r>>
         /\ \A q \in Requests : q # p => cleanups'[q] = cleanups[q]
         /\ IF rconf[r] = None
              THEN /\ Elements(cleanups'[p]) = Elements(Tail(cleanups[p]))
                   /\ rconf' = rconf
              ELSE /\ Elements(cleanups'[p]) =
                        {<<"unregister", rconf[r].request_object>>}
                           \cup Elements(Tail(cleanups[p]))
                   /\ rconf' = [rconf EXCEPT ![r] = None]
  BY ObjectCleanupEffect
<1>2. AtCleanups(p)
      /\ UNCHANGED <<status, main, next, pool, rb_request, env, frames>>
  BY DEF CleanupRequestObject, Due, apacheVars
<1>3. pool[r] = p
  BY <1>1, <1>2, HeadAlive
<1>4. \A f \in Elements(frames) : f.req # r
  BY <1>2, <1>3 DEF AtCleanups, Elements
<1>5. \A q \in Requests : q = r \/ rconf'[q] = rconf[q]
  BY <1>1 DEF Types
<1>6. NoRedirects' /\ MainDiffers' /\ LookupsRunning'
  BY <1>2 DEF Lookups, NoRedirects, MainDiffers, LookupsRunning
<1>7. HandlersToClean'
  <2>1. Elements(cleanups[p]) = {Head(cleanups[p])} \cup Elements(Tail(cleanups[p]))
    BY <1>1, DoneEffect
  <2>2. \A q \in Requests : \A c \in Elements(cleanups'[q]) :
           c[1] = "handler" => c \in Elements(cleanups[q])
    BY <1>1, <2>1
  <2>3. QED
    BY <1>2, <2>2 DEF Lookups, HandlersToClean
<1>8. Stacked'
  <2>1. Undisturbed
    <3>1. \A g \in Elements(frames) : g.req \in Requests
      BY FrameRequests
    <3>2. QED
      BY <1>2, <1>4, <1>5, <3>1 DEF Undisturbed
  <2>2. QED
    BY <1>2, <2>1, SameStacked DEF Lookups
<1>9. Outermost'
  BY <1>1, <1>2 DEF Types, Outermost, Lookups
<1>10. TopIsCurrent'
  <2>1. frames # <<>> => Current \in Requests /\ Current # r
    <3>1. frames # <<>> => Head(frames) \in Elements(frames)
      BY PopElements DEF Types
    <3>2. QED
      BY <1>4, <3>1, TopFrame DEF Current
  <2>2. frames # <<>> => rconf'[Current] = rconf[Current]
    BY <1>5, <2>1
  <2>3. Running("lookup") => main[Current] \in Requests /\ main[Current] # r
    <3>1. Running("lookup") => Head(Tail(frames)) \in Elements(frames)
                               /\ Head(Tail(frames)).req = main[Current]
      BY LookupOnTop DEF Lookups
    <3>2. QED
      BY <1>4, <3>1, FrameRequests
  <2>4. Running("lookup") => rconf'[main[Current]] = rconf[main[Current]]
    BY <1>5, <2>3
  <2>5. QED
    BY <1>2, <2>2, <2>4 DEF TopIsCurrent, Running, Current, Lookups
<1>11. QED
  BY <1>6, <1>7, <1>8, <1>9, <1>10 DEF Lookups

LEMMA AcceptLooks ==
  ASSUME Types, FreshIsNew, Lookups, NEW r \in Requests, Accept(r)
  PROVE  Lookups'
<1>1. /\ status[r] = "fresh"
      /\ status' = [status EXCEPT ![r] = "live"]
      /\ cleanups' = [cleanups EXCEPT ![r] = <<<<"handler", r>>>>]
      /\ UNCHANGED <<main, next, pool, rconf, rb_request, env, frames>>
  BY DEF Accept
<1>2. main[r] = None
  BY <1>1 DEF FreshIsNew
<1>3. NoRedirects' /\ MainDiffers' /\ Outermost' /\ TopIsCurrent'
  BY <1>1 DEF Lookups, NoRedirects, MainDiffers, Outermost, TopIsCurrent, Running, Current
<1>4. LookupsRunning'
  BY <1>1, <1>2 DEF Types, Lookups, LookupsRunning
<1>5. HandlersToClean'
  <2> SUFFICES ASSUME NEW p \in Requests, NEW c \in Elements(cleanups'[p]), c[1] = "handler"
               PROVE  main[Of(c)] = None
    BY <1>1 DEF HandlersToClean
  <2>1. CASE p = r
    <3>1. cleanups'[p] = <<<<"handler", r>>>>
      BY <1>1, <2>1 DEF Types
    <3>2. Elements(<<<<"handler", r>>>>) = {<<"handler", r>>}
      BY DEF Elements
    <3>3. c = <<"handler", r>>
      BY <3>1, <3>2
    <3>4. QED
      BY <1>2, <3>3 DEF Of
  <2>2. CASE p # r
    BY <1>1, <2>2 DEF Types, Lookups, HandlersToClean
  <2>3. QED
    BY <2>1, <2>2
<1>6. Stacked'
  BY <1>1, SameStacked DEF Undisturbed, Lookups
<1>7. QED
  BY <1>3, <1>4, <1>5, <1>6 DEF Lookups

LEMMA QuietLooks ==
  ASSUME Types, Lookups,
         UNCHANGED <<main, next, pool, rconf, rb_request, frames>>,
         env' = env \/ Running("handler"),
         \A q \in Requests : status'[q] = "live" => status[q] = "live",
         \A p \in Requests : Elements(cleanups'[p]) \subseteq Elements(cleanups[p])
  PROVE  Lookups'
<1>1. NoRedirects' /\ MainDiffers' /\ LookupsRunning'
  BY DEF Lookups, NoRedirects, MainDiffers, LookupsRunning
<1>2. HandlersToClean'
  BY DEF Lookups, HandlersToClean
<1>3. Outermost' /\ TopIsCurrent'
  BY DEF Lookups, Outermost, TopIsCurrent, Running, Current
<1>4. Stacked'
  BY SameStacked DEF Undisturbed, Lookups
<1>5. QED
  BY <1>1, <1>2, <1>3, <1>4 DEF Lookups

LEMMA LooksStep ==
  ASSUME Known, Pools, Owned, OnlyLookups, Lookups, Next
  PROVE  Lookups'
<1> USE DEF apacheVars, objectVars
<1>0. /\ Types /\ FreshIsNew /\ FramesKnown /\ cleanups \in [Requests -> Seq(AnyCleanup)]
      /\ \A r \in Requests : Last(r) = r
  <2>1. Types /\ FreshIsNew
    BY DEF Known
  <2>2. \A r \in Requests : Last(r) = r
    BY LastFact DEF Known, Types, Lookups, NoRedirects
  <2>3. QED
    BY <2>1, <2>2 DEF Types, Pools
<1>a. ~ Running("redirect")
  BY <1>0, TopNested DEF Running, Lookups, Nested
<1>1. ASSUME NEW r \in Requests, NEW flush \in BOOLEAN, PhaseHandler(r, flush)
      PROVE  Lookups'
  <2>1. HandlerStarts(r, flush, cleanups)
    BY <1>0, <1>1, HandlerCalled
  <2>2. CASE frames = <<>>
    <3>1. main[r] = None
      BY <1>1, <2>2, NoElements DEF PhaseHandler, Lookups, LookupsRunning
    <3>2. QED
      BY <1>0, <2>1, <2>2, <3>1, StartLooks
  <2>3. CASE frames # <<>>
    <3>1. Running("lookup") /\ r = Last(Current)
      BY <1>1, <1>a, <2>3 DEF PhaseHandler
    <3>2. Current \in Requests /\ main[Current] # None
      BY <1>0, <2>3, <3>1, TopAlive DEF Running
    <3>3. r = Current
      BY <1>0, <3>1, <3>2
    <3>4. QED
      BY <1>0, <2>1, <3>1, <3>2, <3>3, StartLooks
  <2>4. QED
    BY <2>2, <2>3
<1>2. ASSUME NEW r \in Requests, EndRequest(r) \/ PoolGone(r)
      PROVE  Lookups'
  BY <1>0, <1>2, QuietLooks DEF EndRequest, PoolGone
<1>3. ASSUME NEW r \in Requests, Accept(r)
      PROVE  Lookups'
  BY <1>0, <1>3, AcceptLooks
<1>4. CASE SetupCgiEnv
  BY <1>0, <1>4, QuietLooks DEF SetupCgiEnv
<1>5. ASSUME NEW ok \in BOOLEAN, EndHandler(ok)
      PROVE  Lookups'
  BY <1>5, EndHandlerEnds, EndLooks
<1>6. ASSUME NEW s \in Others, LookupUri(s)
      PROVE  Lookups'
  BY <1>6, LookupUriLooks
<1>7. CASE LookupReturns
  BY <1>7, ReturnLooks
<1>8. CASE RedirectReturns
  BY <1>8, <1>a DEF RedirectReturns
<1>9. ASSUME NEW s \in Others, NEW r \in Requests,
             InternalRedirect(s) \/ ErrorLogHandler(r) \/ ApacheSubrequest(s, r)
               \/ ErrorDocument(s, r)
      PROVE  FALSE
  BY <1>9 DEF OnlyLookups, InternalRedirect, ErrorLogHandler, ApacheSubrequest, ErrorDocument
<1>10. ASSUME NEW p \in Requests, CleanupHandler(p)
       PROVE  Lookups'
  <2> DEFINE r == Head(cleanups[p])[2]
  <2>1. /\ cleanups[p] # <<>>
        /\ Head(cleanups[p]) \in AnyCleanup
        /\ Head(cleanups[p])[1] = "handler"
        /\ r \in Requests
        /\ HandlerStarts(r, FALSE, Done(p))
    BY <1>0, <1>10, HandlerCalled
  <2>2. Head(cleanups[p]) = <<"handler", r>> /\ frames = <<>>
    BY <1>10, <2>1, CleanupRequests DEF CleanupHandler
  <2> HIDE DEF r
  <2>3. /\ Done(p) \in [Requests -> Seq(AnyCleanup)]
        /\ Elements(cleanups[p]) = {Head(cleanups[p])} \cup Elements(Done(p)[p])
        /\ \A q \in Requests : q # p => Done(p)[q] = cleanups[q]
    BY <1>0, <2>1, DoneEffect
  <2>4. \A q \in Requests : Elements(Done(p)[q]) \subseteq Elements(cleanups[q])
    BY <2>3
  <2>5. main[r] = None
    <3>1. <<"handler", r>> \in Elements(cleanups[p]) /\ Of(<<"handler", r>>) = r
      BY <2>2, <2>3 DEF Of
    <3>2. QED
      BY <3>1 DEF Lookups, HandlersToClean
  <2>6. QED
    BY <1>0, <2>1, <2>2, <2>3, <2>4, <2>5, StartLooks
<1>11. ASSUME NEW p \in Requests, NoCleanupHandler(p) \/ UnregisterObject(p)
       PROVE  Lookups'
  <2>1. cleanups[p] # <<>> /\ cleanups' = Done(p)
        /\ UNCHANGED <<main, next, pool, status, env, rconf, rb_request, frames>>
    BY <1>11 DEF NoCleanupHandler, UnregisterObject, Due
  <2>2. \A q \in Requests : Elements(cleanups'[q]) \subseteq Elements(cleanups[q])
    BY <1>0, <2>1, DoneEffect
  <2>3. QED
    BY <1>0, <2>1, <2>2, QuietLooks
<1>12. ASSUME NEW p \in Requests, CleanupRequestObject(p)
       PROVE  Lookups'
  BY <1>0, <1>12, ObjectCleanupLooks
<1>13. CASE Idle
  BY <1>0, <1>13, QuietLooks DEF Idle, vars
<1>14. \A r \in Requests : ErrorLogHandler(r) => FALSE
  BY DEF OnlyLookups, ErrorLogHandler
<1>15. \A s \in Others : InternalRedirect(s) => FALSE
  BY DEF OnlyLookups, InternalRedirect
<1>16. QED
  BY <1>1, <1>2, <1>3, <1>4, <1>5, <1>6, <1>7, <1>8, <1>9, <1>10, <1>11, <1>12, <1>13,
     <1>14, <1>15 DEF Next

\* The scenario is chosen once.
LEMMA ScenarioStays ==
  ASSUME Next
  PROVE  scenario' = scenario
<1> USE DEF apacheVars
<1>1. \A r \in Requests, flush \in BOOLEAN : PhaseHandler(r, flush) => scenario' = scenario
  BY DEF PhaseHandler, Begin
<1>2. \A r \in Requests : ErrorLogHandler(r) \/ EndRequest(r) \/ Accept(r) => scenario' = scenario
  BY DEF ErrorLogHandler, Begin, EndRequest, Accept
<1>3. \A s \in Others : LookupUri(s) \/ InternalRedirect(s) => scenario' = scenario
  BY DEF LookupUri, InternalRedirect, NewSubrequest, NewRedirect
<1>4. \A s \in Others, r \in Requests :
         ApacheSubrequest(s, r) \/ ErrorDocument(s, r) => scenario' = scenario
  BY DEF ApacheSubrequest, ErrorDocument, NewSubrequest, NewRedirect
<1>5. \A p \in Requests :
         CleanupHandler(p) \/ NoCleanupHandler(p) \/ CleanupRequestObject(p)
           \/ UnregisterObject(p) \/ PoolGone(p) => scenario' = scenario
  BY DEF CleanupHandler, Begin, NoCleanupHandler, CleanupRequestObject, UnregisterObject, PoolGone
<1>6. SetupCgiEnv \/ LookupReturns \/ RedirectReturns \/ Idle => scenario' = scenario
  BY DEF SetupCgiEnv, LookupReturns, RedirectReturns, Idle, vars
<1>7. \A ok \in BOOLEAN : EndHandler(ok) => scenario' = scenario
  BY EndHandlerEnds DEF HandlerEnds
<1>8. QED
  BY <1>1, <1>2, <1>3, <1>4, <1>5, <1>6, <1>7 DEF Next

LEMMA LooksInit == Init => Lookups
<1> SUFFICES ASSUME Init PROVE Lookups
  OBVIOUS
<1>1. /\ \A r \in Requests : /\ main[r] = None /\ next[r] = None /\ pool[r] = r
                             /\ rconf[r] = None /\ Elements(cleanups[r]) = {}
      /\ frames = <<>> /\ rb_request = None /\ env = Base
  BY NoElements DEF Init
<1>2. Stacked
  BY <1>1 DEF Stacked
<1>3. QED
  BY <1>1, <1>2, HandlersAssumption DEF Lookups, NoRedirects, LookupsRunning, HandlersToClean,
     MainDiffers, Outermost, TopIsCurrent, Running

LEMMA AlwaysLookups == Spec => [](OnlyLookups => Lookups)
<1>1. Known /\ Pools /\ Owned /\ (OnlyLookups => Lookups) /\ [Next]_vars
        => (OnlyLookups => Lookups)'
  <2> SUFFICES ASSUME Known, Pools, Owned, OnlyLookups => Lookups, [Next]_vars, OnlyLookups'
               PROVE  Lookups'
    OBVIOUS
  <2>0. Types
    BY DEF Known
  <2>1. CASE Next
    <3>1. OnlyLookups
      BY <2>1, ScenarioStays DEF OnlyLookups
    <3>2. QED
      BY <2>1, <3>1, LooksStep
  <2>2. CASE UNCHANGED vars
    <3>1. OnlyLookups
      BY <2>2 DEF OnlyLookups, vars, apacheVars
    <3>2. QED
      BY <2>0, <2>2, <3>1, QuietLooks DEF vars, apacheVars, objectVars
  <2>3. QED
    BY <2>1, <2>2
<1>2. QED
  BY <1>1, LooksInit, AlwaysKnown, AlwaysPools, AlwaysOwned, PTL DEF Spec

\* However deep lookups nest, a handler runs with its own request current, and the
\* object is not destroyed under it, in a threaded MPM too.
THEOREM AlwaysKeepCurrent == Spec => []LookupsKeepCurrent
<1>1. Known /\ Pools /\ Owned /\ (OnlyLookups => Lookups) => LookupsKeepCurrent
  <2> SUFFICES ASSUME Known, Pools, Owned, Lookups, Running("handler")
               PROVE  /\ rb_request # None
                      /\ rb_request[1] = Current
                      /\ rb_request \notin destroyed
    BY DEF LookupsKeepCurrent, CurrentRequest
  <2>1. Current \in Requests /\ rconf[Current] # None
    BY HandlerOnTop
  <2>2. PICK r \in Requests : r = Current
    BY <2>1
  <2>3. rb_request = rconf[r].request_object /\ rconf[r] # None
    BY <2>1, <2>2 DEF Lookups, TopIsCurrent
  <2>4. rconf[r].request_object \in AnyObject
    BY <2>3 DEF Known, Types, Configs
  <2>5. \A o \in AnyObject : o # None
    BY HandlersAssumption DEF AnyObject
  <2>6. QED
    BY <2>2, <2>3, <2>4, <2>5 DEF Pools, ConfigsOwn, Owned, ObjectsKept
<1>2. QED
  BY <1>1, AlwaysKnown, AlwaysPools, AlwaysOwned, AlwaysLookups, PTL

\* Between handler calls no request is current and the environment is the
\* process's own.
THEOREM AlwaysNothingLeft == Spec => []NothingLeftBehind
<1>1. (OnlyLookups => Lookups) => NothingLeftBehind
  BY DEF NothingLeftBehind, Lookups, Outermost
<1>2. QED
  BY <1>1, AlwaysLookups, PTL

\* The steps that shorten the stack while a handler runs.
LEMMA FrameSteps ==
  ASSUME Types, Next, Running("handler")
  PROVE  \/ frames' = frames
         \/ \E f \in Frames : frames' = <<f>> \o frames
         \/ \E new : HandlerEnds(Last(Current), new)
<1>1. ASSUME NEW r \in Requests, NEW flush \in BOOLEAN, NEW cl, HandlerStarts(r, flush, cl)
      PROVE  \E f \in Frames : frames' = <<f>> \o frames
  BY <1>1, HandlerFrame DEF HandlerStarts
<1>2. ASSUME NEW r \in Requests, NEW flush \in BOOLEAN, PhaseHandler(r, flush)
      PROVE  \E f \in Frames : frames' = <<f>> \o frames
  BY <1>1, <1>2, HandlerCalled
<1>3. ASSUME NEW r \in Requests, ErrorLogHandler(r)
      PROVE  \E f \in Frames : frames' = <<f>> \o frames
  BY <1>1, <1>3, HandlerCalled
<1>4. ASSUME NEW r \in Requests, CleanupHandler(r)
      PROVE  FALSE
  BY <1>4 DEF CleanupHandler, Running
<1>5. ASSUME NEW s \in Others, LookupUri(s) \/ InternalRedirect(s)
      PROVE  \E f \in Frames : frames' = <<f>> \o frames
  BY <1>5, RequestMade
<1>6. LookupReturns \/ RedirectReturns => FALSE
  BY DEF LookupReturns, RedirectReturns, Running
<1>7. \A r \in Requests : Accept(r) \/ EndRequest(r) \/ PoolGone(r) \/ NoCleanupHandler(r)
        \/ CleanupRequestObject(r) \/ UnregisterObject(r) => frames' = frames
  BY DEF Accept, EndRequest, PoolGone, NoCleanupHandler, CleanupRequestObject, UnregisterObject
<1>8. \A s \in Others, r \in Requests :
         ApacheSubrequest(s, r) \/ ErrorDocument(s, r) => frames' = frames
  BY DEF ApacheSubrequest, ErrorDocument
<1>9. SetupCgiEnv \/ Idle => frames' = frames
  BY DEF SetupCgiEnv, Idle, vars
<1>10. QED
  BY <1>2, <1>3, <1>4, <1>5, <1>6, <1>7, <1>8, <1>9, EndHandlerEnds DEF Next

\* A handler call puts back the environment it found, which may be that of the
\* handler it is nested in.
THEOREM AlwaysEnvLeft == Spec => EnvLeftAsFound
<1> DEFINE Left == OnlyLookups /\ Len(frames') < Len(frames) /\ Running("handler")
                     => env' = Head(frames).env
<1>1. ASSUME Known, Pools, OnlyLookups => Lookups, Next
      PROVE  Left
  <2> SUFFICES ASSUME Lookups, Running("handler"), Len(frames') < Len(frames)
               PROVE  env' = Head(frames).env
    BY <1>1
  <2>0. Types
    BY <1>1 DEF Known
  <2>1. Len(frames) \in Nat
    BY <2>0, LenProperties DEF Types
  <2>2. ASSUME NEW f \in Frames, frames' = <<f>> \o frames
        PROVE  FALSE
    <3>1. Len(frames') = Len(frames) + 1
      BY <2>0, <2>2, PushElements, Zenon DEF Types
    <3>2. QED
      BY <2>1, <3>1
  <2>3. PICK new : HandlerEnds(Last(Current), new)
    <3>1. frames' # frames
      BY <2>1
    <3>2. ~ \E f \in Frames : frames' = <<f>> \o frames
      BY <2>2
    <3>3. QED
      BY <1>1, <2>0, <3>1, <3>2, FrameSteps, Zenon
  <2>4. /\ Last(Current) = Current /\ rconf[Current] # None
        /\ rconf[Current].saved_env = Head(frames).env
    BY <1>1, HandlerOnTop
  <2>5. QED
    BY <2>3, <2>4 DEF HandlerEnds
<1>2. Known /\ Pools /\ (OnlyLookups => Lookups) /\ [Next]_vars => [Left]_vars
  BY <1>1
<1>3. QED
  BY <1>2, AlwaysKnown, AlwaysPools, AlwaysLookups, PTL DEF Spec, EnvLeftAsFound
=============================================================================
