------------------------------ MODULE FormData ------------------------------
(***************************************************************************)
(* The text formats of libapreq: application/x-www-form-urlencoded, in     *)
(* query strings and bodies, and the Cookie and Set-Cookie fields.  Text   *)
(* is a sequence of characters, and an escape such as %26 is one           *)
(* character: Unescaped tells what it stands for.                          *)
(***************************************************************************)
EXTENDS Text, Loops

CONSTANT
  Unescaped  \* the characters that stand for others, and for which

ASSUME FormAssumption ==
  /\ Unescaped \in [DOMAIN Unescaped -> Text]
  /\ " " \in Bytes

\* ap_unescape_url_u, ap_unescape_url: what is no escape stays as it is, and a
\* NUL ends the text.  %00 stands for one, and so does %u without four digits
\* after it, which is an escape with whatever four bytes follow.  Cookies, for
\* which ap_unescape_url is called, have no %u.
Unescape(text) ==
  CString(FlattenSeq([i \in 1..Len(text) |->
            IF text[i] \in DOMAIN Unescaped THEN Unescaped[text[i]] ELSE <<text[i]>>]))

PlusToSpace(text) == [i \in 1..Len(text) |-> IF text[i] = "+" THEN " " ELSE text[i]]

\* What follows the part before the stops, and the stops right after it.
SkipAll(text, stops) ==
  LET i == SelectInSeq(text, LAMBDA c : c \notin stops)
  IN  IF i = 0 THEN <<>> ELSE SubSeq(text, i, Len(text))

After(text, stops) == SkipAll(SubSeq(text, Len(Before(text, stops)) + 1, Len(text)), stops)

\* split_to_parms: the pairs, each split from the rest (my_urlword) and at its
\* first "=" before anything is unescaped, pluses before escapes.
Decode(text) == Unescape(PlusToSpace(text))

Pair(text) == [key |-> Decode(Before(text, {"="})), val |-> Decode(After(text, {"="}))]
SplitToParms(data) ==
  While(LAMBDA s : s.data # <<>>,
        LAMBDA s : [data |-> After(s.data, {"&", ";"}),
                    parms |-> Append(s.parms, Pair(Before(s.data, {"&", ";"})))],
        [data |-> data, parms |-> <<>>], Len(data)).parms

-----------------------------------------------------------------------------
(* Cookies.                                                                *)

\* escape_url: what ap_os_escape_path escapes, and then "&" and "=".
Escapes(c) == {e \in DOMAIN Unescaped : Unescaped[e] = <<c>>}
EscapeAll(text, except) ==
  [i \in 1..Len(text) |->
     IF text[i] \in except \/ Escapes(text[i]) = {} THEN text[i]
                                                   ELSE CHOOSE e \in Escapes(text[i]) : TRUE]
OsEscapePath(text) == EscapeAll(text, {"&", "=", "+"})
EscapeUrl(text) == EscapeAll(text, {"+"})

\* What parts cookies, their names and their values, has an escape.
Parting == {";", " ", "=", "&"}
ASSUME EscapeAssumption ==
  /\ DOMAIN Unescaped \subseteq Bytes
  /\ Parting \subseteq Bytes
  /\ (Parting \cup {"+"}) \cap DOMAIN Unescaped = {}
  /\ \A c \in Parting : Escapes(c) # {}

Join(texts, sep) ==
  FlattenSeq([i \in 1..Len(texts) |->
                IF i < Len(texts) THEN texts[i] \o sep ELSE texts[i]])

\* What ApacheCookie_as_string puts before the attributes of the cookie.
CookieAsString(cookie) ==
  EscapeUrl(cookie.name) \o <<"=">>
    \o Join([i \in 1..Len(cookie.values) |-> EscapeUrl(cookie.values[i])], <<"&">>)

\* The Cookie field a browser sends, of cookies it was given.
CookieField(cookies) ==
  Join([i \in 1..Len(cookies) |-> CookieAsString(cookies[i])], <<";", " ">>)

\* ap_getword_nulls in a loop that ends with the text: the values between
\* "&"s, less one that is empty and last.
CookieValues(text) ==
  LET Rest(data) == SubSeq(data, Len(Before(data, {"&"})) + 2, Len(data))
  IN  While(LAMBDA s : s.data # <<>>,
            LAMBDA s : [data |-> Rest(s.data),
                        values |-> Append(s.values, Unescape(Before(s.data, {"&"})))],
            [data |-> text, values |-> <<>>], Len(text)).values

\* ApacheCookie_parse.
CookieOf(pair) ==
  LET text == After(pair, {"="})
  IN  [name |-> Unescape(Before(pair, {"="})),
       values |-> IF text = <<>> THEN <<<<>>>> ELSE CookieValues(text)]
CookieParse(data) ==
  While(LAMBDA s : s.data # <<>>,
        LAMBDA s : [data |-> SkipAll(After(s.data, {";"}), {" "}),
                    cookies |-> Append(s.cookies, CookieOf(Before(s.data, {";"})))],
        [data |-> data, cookies |-> <<>>], Len(data)).cookies
=============================================================================
