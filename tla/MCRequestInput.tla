--------------------------- MODULE MCRequestInput ---------------------------
(***************************************************************************)
(* Small instances of RequestInput: what clients send, encoded the way     *)
(* browsers do, and the ways it arrives.                                   *)
(***************************************************************************)
EXTENDS RequestInput, TLC

AnyString == STRING

ABoundary == <<"b", "c", "d">>
Dispositions ==
  [Nn |-> [param |-> <<"n">>, filename |-> NoText],
   Nm |-> [param |-> <<"m">>, filename |-> NoText],
   Fn |-> [param |-> <<"n">>, filename |-> <<"f">>],
   Fm |-> [param |-> <<"m">>, filename |-> <<"g">>],
   Fe |-> [param |-> <<"m">>, filename |-> <<>>]]
Headers == DOMAIN Dispositions \cup {"T"}
Escapes6 == "%26" :> <<"&">> @@ "%3d" :> <<"=">> @@ "%3b" :> <<";">> @@ "%25" :> <<"%">>
            @@ "%20" :> <<" ">> @@ "%2b" :> <<"+">> @@ "%u00e9" :> <<"c3", "a9">>
            @@ "%00" :> <<NUL>> @@ "%u4" :> <<NUL>>
LowerCase == "N" :> "n"
SomeSizes == {-1, 1, 4}
Names == {<<"n">>, <<"N">>, <<"m">>}
OneOrTwo == {<<<<"x">>>>, <<<<"x">>, <<"y">>>>}

-----------------------------------------------------------------------------
(* Bodies.                                                                 *)

Line(bytes) == bytes \o <<CR, LF>>
\* A part: the header lines before an empty one, and the content.  A file
\* without content may lack the CRLF that ends it.
Part(lines, content) == [lines |-> lines, content |-> content, crlf |-> TRUE]
ShortPart(lines) == [Part(lines, <<>>) EXCEPT !.crlf = FALSE]
EncodePart(p) ==
  Line(Delimiter) \o FlattenSeq([i \in 1..Len(p.lines) |-> Line(<<p.lines[i]>>)])
    \o Line(<<>>) \o p.content \o (IF p.crlf THEN Line(<<>>) ELSE <<>>)
Encode(parts) ==
  FlattenSeq([i \in 1..Len(parts) |-> EncodePart(parts[i])])
    \o Line(Delimiter \o <<"-", "-">>)
MeantBy(parts) ==
  LET with == SelectSeq(parts, LAMBDA p : \E l \in ToSet(p.lines) : l \in DOMAIN Dispositions)
  IN  [i \in 1..Len(with) |->
         LET l == CHOOSE x \in ToSet(with[i].lines) : x \in DOMAIN Dispositions
         IN  [param |-> Dispositions[l].param, filename |-> Dispositions[l].filename,
              content |-> with[i].content]]

Default ==
  [body |-> <<>>, ends |-> {}, fails |-> NoFailure, counts |-> TRUE, chunked |-> FALSE,
   missing |-> 0, method |-> "POST", type |-> "multipart", args |-> <<>>, cookie |-> <<>>,
   hook |-> FALSE, disable_uploads |-> FALSE, post_max |-> 0, does |-> {},
   query |-> <<>>, parts |-> <<>>, cookies |-> <<>>]

Multipart(parts) == [Default EXCEPT !.body = Encode(parts), !.parts = MeantBy(parts)]

Contents ==
  {<<>>, <<"x", CR, LF, "-", "x">>, <<LF, "-", "-", "b">>, <<"x", CR>>,
   [i \in 1..14 |-> IF i % 5 = 0 THEN CR ELSE "x"], <<"x", NUL, "x">>}
TwoParts == {<<Part(<<"Nn">>, c), Part(<<"T", "Fm">>, d)>> : c, d \in Contents}
FourParts ==
  <<Part(<<"Fn">>, <<"x">>), Part(<<"T">>, <<"y">>), Part(<<"Nn">>, <<"y">>),
    Part(<<"Fm", "T">>, <<"y", "y">>)>>

\* r, whose body arrives in up to three pieces, or in as many as is harmless.
Arrivals(r) ==
  LET all == {e \in 1..Len(r.body) : Harmless(r.body, e)}
  IN  {[r EXCEPT !.ends = s] : s \in {{}, all} \cup {{e, f} : e, f \in all}}
Multiparts ==
  UNION {Arrivals([Multipart(p) EXCEPT !.counts = c, !.hook = h]) :
           p \in TwoParts \cup {FourParts}, c, h \in BOOLEAN}

\* The length announced is two bytes more than the body has.
ShortBodies ==
  {[Multipart(p) EXCEPT !.missing = 2, !.counts = c] : c \in BOOLEAN,
     p \in {<<Part(<<"Nn">>, d), ShortPart(<<"Fe">>)>> : d \in Contents}
            \cup {<<ShortPart(<<"Fm">>), Part(<<"T", "Fn">>, d)>> : d \in Contents}}

\* What goes wrong while a body is parsed, and one byte that arrives alone.
AFile == [Multipart(<<Part(<<"Fn">>, <<"x">>), Part(<<"Nm">>, [i \in 1..13 |-> "y"]),
                      Part(<<"Fm">>, [i \in 1..13 |-> "x"])>>)
            EXCEPT !.args = <<"n", "=", "y">>, !.query = <<[key |-> <<"n">>, val |-> <<"y">>]>>]
Troubles ==
  {[AFile EXCEPT !.hook = h, !.does = {"raise", "param", "tmpfile", "write"}, !.fails = f] :
     h \in BOOLEAN, f \in {NoFailure} \cup 0..Len(AFile.body)}
  \cup {[AFile EXCEPT !.disable_uploads = TRUE, !.does = d] : d \in {{}, {"read"}}}
  \cup {[AFile EXCEPT !.post_max = 5],
        [AFile EXCEPT !.chunked = TRUE], [AFile EXCEPT !.type = "noboundary"],
        [AFile EXCEPT !.type = "other"], [AFile EXCEPT !.method = "GET", !.parts = <<>>]}
  \cup {[AFile EXCEPT !.ends = {e, e + 1}] : e \in 1..Len(AFile.body)}

-----------------------------------------------------------------------------
(* Forms, cookies, tables and reads.                                       *)

\* What browsers make of text.
Escape(text) ==
  FlattenSeq([i \in 1..Len(text) |->
     IF text[i] = " " THEN <<"+">>
     ELSE IF text[i] = "c3" THEN <<"%u00e9">> ELSE IF text[i] = "a9" THEN <<>>
     ELSE EscapeAll(<<text[i]>>, {})])
FormEncode(pairs, sep) ==
  Join([i \in 1..Len(pairs) |-> Escape(pairs[i].key) \o <<"=">> \o Escape(pairs[i].val)], <<sep>>)
Texts == {<<"x">>, <<"&", "+">>, <<" ", "%">>, <<"=", ";">>, <<"c3", "a9">>}
Pairs == [key : Texts, val : Texts \cup {<<>>}]
WithNul == [key |-> <<"x">>, val |-> <<"x", NUL, "y">>]
Forms ==
  {[Default EXCEPT !.type = "form", !.args = FormEncode(<<p>>, "&"), !.query = <<p>>,
                   !.body = FormEncode(<<q, p>>, s), !.counts = (s = "&"), !.ends = {3},
                   !.parts = <<[param |-> q.key, filename |-> NoText, content |-> q.val],
                               [param |-> p.key, filename |-> NoText, content |-> p.val]>>] :
     p \in Pairs, q \in Pairs \cup {WithNul}, s \in {"&", ";"}}

\* A last value that is empty does not come back.
SomeValues == {<<<<"x">>>>, <<<<>>, <<"y">>>>, <<<<"=", "%">>, <<"&", ";">>, <<" ">>>>}
SomeCookies == [name : {<<"n">>, <<"m", "=">>}, values : SomeValues]
CookieRequests ==
  {[Default EXCEPT !.method = "GET", !.cookies = cs, !.cookie = CookieField(cs)] :
     cs \in SomeCookies \X SomeCookies}

Table3 == <<[key |-> <<"n">>, val |-> <<"x">>], [key |-> <<"m">>, val |-> <<"x">>],
            [key |-> <<"N">>, val |-> <<"y">>]>>
Edits == {[Default EXCEPT !.method = "GET", !.args = FormEncode(Table3, "&"),
                          !.query = Table3, !.does = {"edit"}]}

SixBytes == <<"a", "b", "c", "d", "e", "f">>
Reads ==
  {[Default EXCEPT !.type = "form", !.body = SixBytes, !.counts = c, !.does = d, !.ends = e,
                   !.fails = f,
                   !.parts = <<[param |-> SixBytes, filename |-> NoText, content |-> <<>>]>>] :
     c \in BOOLEAN, d \in {{"read"}, {"read", "block"}}, e \in {{}, {1, 3}, {2}},
     f \in {NoFailure, 0, 3}}

MCInit ==
  /\ \/ request \in Multiparts
     \/ request \in ShortBodies
     \/ request \in Troubles
     \/ request \in Forms
     \/ request \in CookieRequests
     \/ request \in Edits
     \/ request \in Reads
  /\ InputInit
MCSpec == MCInit /\ [][Next]_vars

\* Two parts, of which all up to the CR before a delimiter arrives first.
CutInit ==
  /\ request \in
       UNION {LET body == Encode(p)
              IN  {[Multipart(p) EXCEPT !.ends = {e}] :
                     e \in {e \in 1..Len(body) :
                              body[e] = CR /\ IsPrefix(NextDelimiter, SubSeq(body, e + 1, Len(body)))}} :
                p \in TwoParts}
  /\ InputInit
CutSpec == CutInit /\ [][Next]_vars
=============================================================================
