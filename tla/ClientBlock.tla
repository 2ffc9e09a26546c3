----------------------------- MODULE ClientBlock -----------------------------
(***************************************************************************)
(* The body of a request as Apache hands it out: ap_setup_client_block,    *)
(* ap_should_client_block and ap_get_client_block, the only ways mod_ruby  *)
(* gets at it.  They are Apache's; what mod_ruby relies on is modelled     *)
(* here, for Apache 1.x, which counts r->remaining down with every block,  *)
(* and Apache 2.x, which keeps it at the content length up to the end of   *)
(* the body.  A block may be shorter than asked for: it never goes past    *)
(* the end of what has arrived.                                            *)
(***************************************************************************)
EXTENDS Text, FiniteSetsExt

VARIABLE
  request  \* What the client sends and how it arrives; never changes:
           \* body, its bytes; ends, where what arrives at once ends; fails,
           \* after how many bytes the connection fails, or NoFailure; counts,
           \* whether Apache counts down; chunked, whether it has no length;
           \* missing, how many bytes less than announced it has; method,
           \* type, args: its method, content type and query string;
           \* cookie: its Cookie field; hook, disable_uploads, post_max:
           \* what the handler asked for

NoFailure == -1

RequestTypeOK ==
  /\ request.body \in Text /\ request.args \in Text /\ request.cookie \in Text
  /\ request.ends \subseteq Nat
  /\ request.fails \in Nat \cup {NoFailure}
  /\ request.missing \in Nat
  /\ request.type \in {"form", "multipart", "noboundary", "other"}
  /\ request.query \in Seq(Entries)

\* The state of the connection: bytes read, r->remaining, r->read_length, and
\* whether the server waits for bytes the client will never send.
NewClient == [at |-> 0, remaining |-> 0, read_length |-> 0, waits |-> FALSE]

Clients ==
  [at : 0..Len(request.body), remaining : Int, read_length : Nat, waits : BOOLEAN]

Announced == Len(request.body) + request.missing
SetupFails == request.chunked
SetupClient(client) == [client EXCEPT !.remaining = Announced]
ShouldRead(client) == client.read_length = 0 /\ client.remaining > 0

\* Where a block that starts at byte at and has at most size bytes ends.
BlockEnd(at, size) ==
  Min({at + size}
      \cup {e \in request.ends \cup {request.fails, Len(request.body)} : e > at})

\* What ap_get_client_block does and returns, for at least one byte.
GetBlock(client, size) ==
  LET at == client.at
      end == BlockEnd(at, IF request.counts THEN Min({size, client.remaining}) ELSE size)
      left == IF request.counts THEN client.remaining - (end - at)
              ELSE IF end = Announced THEN 0 ELSE client.remaining
      None == [bytes |-> <<>>, failed |-> FALSE, client |-> client]
      Failed == [None EXCEPT !.failed = TRUE]
  IN  IF client.remaining <= 0 THEN None
      ELSE IF at = request.fails THEN Failed
      ELSE IF at < Len(request.body)
        THEN [bytes |-> SubSeq(request.body, at + 1, end), failed |-> FALSE,
              client |-> [client EXCEPT !.at = end, !.remaining = left,
                                        !.read_length = @ + (end - at)]]
      ELSE IF ~ request.counts /\ at = Announced THEN [None EXCEPT !.client.remaining = 0]
      ELSE [Failed EXCEPT !.client.waits = TRUE]
=============================================================================
