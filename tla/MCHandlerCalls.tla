--------------------------- MODULE MCHandlerCalls ---------------------------
(***************************************************************************)
(* Small instances of HandlerCalls: connection requests r1 and r2, and up  *)
(* to two more, s1 and s2, that Apache makes of them.                      *)
(***************************************************************************)
EXTENDS HandlerCalls

CONSTANTS r1, r2, s1, s2

OneRequest  == {r1}
TwoRequests == {r1, r2}
OneMore     == {s1}
TwoMore     == {s1, s2}

Lookups == [does |-> {"lookup"}, for |-> TwoRequests]
All     == [does |-> {"lookup", "redirect", "errorlog", "errordocument", "subrequest"},
            for |-> OneRequest]
LookupsAndAll == {Lookups, All}
Redirect      == {[does |-> {"redirect"}, for |-> OneRequest]}
=============================================================================
