---------------------------- MODULE RequestInput ----------------------------
(***************************************************************************)
(* What a handler gets from the body of its request: Apache::Request#read  *)
(* and the client block calls of request.c, and the parsing of parameters, *)
(* uploads and cookies by apache_request.c, which starts when a handler    *)
(* first asks for one of them.  Parsing runs the handler's own code when   *)
(* an upload hook is set: the hook may raise, which leaves the parser by   *)
(* longjmp, or ask for a parameter itself.  Faults are a connection that   *)
(* fails, a temporary file that cannot be made and a write that falls      *)
(* short.                                                                  *)
(***************************************************************************)
EXTENDS MultipartBuffer, FormData, ParamTable

CONSTANTS
  OK, DECLINED, HTTP_FORBIDDEN, HTTP_LENGTH_REQUIRED,
  HTTP_REQUEST_ENTITY_TOO_LARGE, HTTP_INTERNAL_SERVER_ERROR,
  HUGE_STRING_LEN,  \* bytes util_read asks for
  Sizes,            \* lengths handlers ask read for; -1 is no length
  MaxReads          \* bound: reads by the handler itself

\* A request also tells, in its field does, what goes wrong or is unusual:
\* "raise" and "param" in the hook, "tmpfile" and "write" faults, "read" and
\* "block" by the handler, and "edit" of the table.
VARIABLES
  pc,            \* "handler"; in the parser: "part", at a delimiter, or
                 \* "chunk", in a file; or "hook", the hook runs
  buf,           \* the multipart buffer, with the state of the connection
  apreq,         \* of the ApacheRequest: parsed, status, nargs
  uploads,       \* its upload list
  upload_table,  \* the object for each name: the upload it wraps
  chunk,         \* what the hook was called with
  jar,           \* Apache::Request#cookies: the values by name
  got,           \* what the handler read itself
  reads,         \* how often
  atEnd,         \* history: whether a read told the handler that it has it all
  entered,       \* history: how many parses were begun
  told           \* history: whether a parse raised an error

inputVars == <<pc, buf, apreq, uploads, upload_table, chunk, jar, got, reads, atEnd,
               entered, told>>
vars == <<request, tableVars, inputVars>>

Statuses == {OK, DECLINED, HTTP_FORBIDDEN, HTTP_LENGTH_REQUIRED,
             HTTP_REQUEST_ENTITY_TOO_LARGE, HTTP_INTERNAL_SERVER_ERROR}
\* No status: a multipart body is to be read.
Reading == "reading"

ASSUME InputAssumption ==
  /\ Reading \notin Statuses
  /\ OK \notin {HTTP_FORBIDDEN, HTTP_LENGTH_REQUIRED, HTTP_REQUEST_ENTITY_TOO_LARGE,
               HTTP_INTERNAL_SERVER_ERROR}
  /\ HUGE_STRING_LEN \in Nat \ {0}
  /\ Sizes \subseteq Int
  /\ MaxReads \in Nat

InputInit ==
  /\ RequestTypeOK
  /\ pc = "handler"
  /\ buf = NewBuffer(NewClient)
  /\ apreq = [parsed |-> FALSE, status |-> OK, nargs |-> 0]
  /\ uploads = <<>>
  /\ upload_table = <<>>
  /\ chunk = <<>>
  /\ jar = <<>>
  /\ got = <<>>
  /\ reads = 0
  /\ atEnd = FALSE
  /\ entered = 0
  /\ told = FALSE
  /\ TableInit

WithClient(client) == [buf EXCEPT !.client = client]

-----------------------------------------------------------------------------
(* Reading the body.                                                       *)

\* Only the last block has no bytes.
Blocks == Len(request.body) + 1

\* The loop of read_client_block: blocks until there are len bytes or no more.
ReadLoop(client, len) ==
  LET Block(r) == GetBlock(r.client, len - Len(r.bytes))
  IN  While(LAMBDA r : Len(r.bytes) < len /\ r.more,
            LAMBDA r : [bytes |-> r.bytes \o Block(r).bytes, more |-> Block(r).bytes # <<>>,
                        raised |-> Block(r).failed, client |-> Block(r).client],
            [bytes |-> <<>>, more |-> TRUE, raised |-> FALSE, client |-> client], Blocks)

\* read_length is put aside so that ap_should_client_block lets more than one
\* call read.
KeepReadLength(client) == client
ClearReadLength(client) == [client EXCEPT !.read_length = 0]
ReadClientBlock(size) ==
  LET set == IF buf.client.read_length = 0 THEN SetupClient(buf.client) ELSE buf.client
      cleared == ClearReadLength(set)
      r == ReadLoop(cleared, IF size < 0 THEN cleared.remaining ELSE size)
  IN  IF ShouldRead(cleared)
        THEN /\ buf' = WithClient([r.client EXCEPT !.read_length = @ + set.read_length])
             /\ got' = IF r.raised THEN got ELSE got \o r.bytes
             /\ told' = (told \/ r.raised)
             /\ UNCHANGED atEnd
        ELSE /\ buf' = WithClient(set)
             /\ atEnd' = TRUE
             /\ UNCHANGED <<got, told>>

MayRead(how) ==
  /\ pc = "handler"
  /\ how \in request.does
  /\ reads < MaxReads
  /\ reads' = reads + 1
  /\ UNCHANGED <<request, tableVars, pc, apreq, uploads, upload_table, chunk, jar, entered>>

\* Apache::Request#read, and #getc with a size of 1; on a body without a
\* length the request is given up.
Read(size) ==
  /\ MayRead("read")
  /\ ~ SetupFails
  /\ ReadClientBlock(size)

\* Apache::Request#setup_client_block and #get_client_block.
SetupClientBlock ==
  /\ MayRead("block")
  /\ ~ SetupFails
  /\ buf' = WithClient(SetupClient(buf.client))
  /\ UNCHANGED <<got, told, atEnd>>

GetClientBlock(size) ==
  /\ MayRead("block")
  /\ size > 0
  /\ LET b == GetBlock(buf.client, size)
     IN  /\ buf' = WithClient(b.client)
         /\ got' = got \o b.bytes
         /\ told' = (told \/ b.failed)
  /\ UNCHANGED atEnd

-----------------------------------------------------------------------------
(* ApacheRequest___parse.                                                  *)

\* util_read: the bytes up to the end of the body, or to a failure.
UtilRead(client) ==
  LET read == While(LAMBDA r : r.last.bytes # <<>>,
                    LAMBDA r : [bytes |-> r.bytes \o r.last.bytes,
                                last |-> GetBlock(r.last.client, HUGE_STRING_LEN)],
                    [bytes |-> <<>>, last |-> GetBlock(client, HUGE_STRING_LEN)], Blocks)
  IN  [bytes |-> read.bytes, client |-> read.last.client]

TooLarge(length) == request.post_max > 0 /\ length > request.post_max
\* How a body is gone about: the status of the parse, or Reading if the parts
\* of a multipart body are to be read; the parameters; and the connection.
ParseBody ==
  LET client == SetupClient(buf.client)
      r == UtilRead(client)
      Ends(status, c) == [status |-> status, parms |-> <<>>, client |-> c]
  IN  IF request.method # "POST" THEN Ends(OK, buf.client)
      ELSE IF request.type = "other" THEN Ends(HTTP_INTERNAL_SERVER_ERROR, buf.client)
      ELSE IF SetupFails THEN Ends(HTTP_LENGTH_REQUIRED, buf.client)
      ELSE IF ~ ShouldRead(client) THEN Ends(OK, client)
      ELSE IF TooLarge(client.remaining) THEN Ends(HTTP_REQUEST_ENTITY_TOO_LARGE, client)
      ELSE IF request.type = "form"
        THEN [Ends(OK, r.client) EXCEPT !.parms = SplitToParms(CString(r.bytes))]
      ELSE IF request.type = "noboundary" THEN Ends(DECLINED, client)
      ELSE Ends(Reading, client)

\* What a parse that ends with a status does: only request_parse, which called
\* it, raises for it, and only now.
Parsed(status) ==
  /\ apreq' = [apreq EXCEPT !.parsed = TRUE, !.status = status]
  /\ told' = (told \/ status # OK)

Ended(status) ==
  /\ Parsed(status)
  /\ pc' = "handler"

\* request_parse, called for the first parameter, upload or cookie that is
\* asked for.
CountAll(query, body) == Len(parms \o query \o body)
CountQuery(query, body) == Len(parms \o query)
\* Nothing is parsed before a handler, or an upload hook, asks.
Asked == pc = "handler" \/ (pc = "hook" /\ "param" \in request.does)
Parse ==
  /\ ~ apreq.parsed
  /\ Asked
  /\ entered' = entered + 1
  /\ LET query == SplitToParms(request.args)
         body == ParseBody
         counted == [apreq EXCEPT !.nargs = IF request.args = <<>> THEN @
                                            ELSE CountQuery(query, body.parms)]
     IN  /\ Become(parms \o query \o body.parms)
         /\ IF body.status = Reading
              THEN /\ pc' = "part"
                   /\ buf' = NewBuffer(body.client)
                   /\ apreq' = counted
                   /\ UNCHANGED told
              ELSE /\ apreq' = [counted EXCEPT !.parsed = TRUE, !.status = body.status]
                   /\ told' = (told \/ body.status # OK)
                   /\ buf' = WithClient(body.client)
                   /\ UNCHANGED pc
  /\ UNCHANGED <<request, each, edits, uploads, upload_table, chunk, jar, got, reads, atEnd>>

\* ApacheRequest_query_params and ApacheRequest_post_params.
QueryParams == SubSeq(parms, 1, apreq.nargs)
PostParams == SubSeq(parms, apreq.nargs + 1, Len(parms))

-----------------------------------------------------------------------------
(* ApacheRequest_parse_multipart.                                          *)

AddParm(name, val) == Become(Append(parms, [key |-> name, val |-> val]))

\* What the Content-Disposition of a part says, if it has one with a name.  A
\* file without a name is passed over like a part without the line; without
\* filename and name a value would be added under the key NULL, and no client
\* is taken to send that.
Unknown == [param |-> NoText, filename |-> NoText]
DispositionOf(lines) ==
  LET i == SelectInSeq(lines, LAMBDA l : l[1] \in DOMAIN Disposition)
  IN  IF i = 0 THEN Unknown ELSE Disposition[lines[i][1]]

ParserStays == UNCHANGED <<request, each, edits, jar, got, reads, atEnd, entered, told>>

\* The headers of the next part, or the end of the data, or no further
\* delimiter, with which what is left is dropped.
NextHeaders ==
  LET b == AtLeastOne(buf)
  IN  IF b.n > 0 THEN MultipartBufferHeaders(b)
      ELSE [found |-> FALSE, lines |-> <<>>, buf |-> b]

Drop(client) ==
  While(LAMBDA b : b.bytes # <<>>, LAMBDA b : GetBlock(b.client, FILLUNIT),
        GetBlock(client, FILLUNIT), Blocks).client
NoMoreParts(h) ==
  /\ ~ h.found
  /\ buf' = IF AtLeastOne(buf).n = 0 THEN h.buf ELSE [h.buf EXCEPT !.client = Drop(@)]
  /\ Ended(OK)
  /\ UNCHANGED <<request, tableVars, uploads, upload_table, chunk, jar, got, reads, atEnd,
                 entered>>

\* A part that is no file is a parameter; one without Content-Disposition is
\* skipped.
FieldPart(h, d) ==
  /\ h.found
  /\ d.filename = NoText
  /\ IF d = Unknown
       THEN /\ buf' = h.buf
            /\ UNCHANGED <<parms, nalloc>>
       ELSE \E value \in {MultipartBufferReadBody(h.buf)} :
              /\ buf' = value.buf
              /\ AddParm(d.param, value.bytes)
  /\ UNCHANGED <<pc, apreq, uploads, upload_table, chunk>>
  /\ ParserStays

NewUpload(d) == [name |-> d.param, filename |-> d.filename, data |-> <<>>, size |-> 0]
AddUpload(d, upload) ==
  /\ d.filename # NoText
  /\ ~ request.disable_uploads
  /\ AddParm(d.param, d.filename)
  /\ uploads' = Append(uploads, upload)

\* A part that is a file.
ForbiddenFile(h, d) ==
  /\ d.filename # NoText
  /\ request.disable_uploads
  /\ buf' = h.buf
  /\ Ended(HTTP_FORBIDDEN)
  /\ UNCHANGED <<request, tableVars, uploads, upload_table, chunk, jar, got, reads,
                 atEnd, entered>>

\* The delimiter right after the headers ends a file some browsers send as
\* empty, two bytes short of what they announced.
StartFile(b) ==
  IF AtDelimiter(b)
    THEN /\ buf' = [b EXCEPT !.client.remaining = @ - 2]
         /\ pc' = "part"
    ELSE /\ buf' = b
         /\ pc' = "chunk"

FilePart(h, d) ==
  /\ AddUpload(d, NewUpload(d))
  /\ \E b \in {FillBuffer(h.buf)} : StartFile(b)
  /\ UNCHANGED <<apreq, upload_table, chunk>>
  /\ ParserStays

\* The upload is in the list before its file is made, and has no name yet.
NoTmpfile(h, d) ==
  /\ ~ request.hook /\ "tmpfile" \in request.does
  /\ AddUpload(d, NewUpload(Unknown))
  /\ buf' = h.buf
  /\ Ended(HTTP_INTERNAL_SERVER_ERROR)
  /\ UNCHANGED <<request, each, edits, upload_table, chunk, jar, got, reads, atEnd, entered>>

NextPart ==
  /\ pc = "part"
  /\ \E h \in {NextHeaders} :
       \/ NoMoreParts(h)
       \/ \E d \in {DispositionOf(h.lines)} :
            FieldPart(h, d) \/ ForbiddenFile(h, d) \/ FilePart(h, d) \/ NoTmpfile(h, d)

\* More of a file, to its temporary file or to the hook, which gets the object
\* made for the first file of that name.
Written(i, bytes) == [uploads EXCEPT ![i].data = @ \o bytes, ![Len(uploads)].size = @ + Len(bytes)]
WithObject(name) ==
  [n \in DOMAIN upload_table \cup {name} |->
     IF n = name THEN Len(uploads) ELSE upload_table[n]]
FileChunk ==
  /\ pc = "chunk"
  /\ \E r \in {MultipartBufferRead(buf, FILLUNIT)}, name \in {Last(uploads).name} :
      /\ buf' = r.buf
      /\ IF r.bytes = <<>>
           THEN /\ pc' = "part"
                /\ UNCHANGED <<uploads, upload_table, chunk>>
         ELSE IF request.hook
           THEN /\ pc' = "hook"
                /\ chunk' = r.bytes
                /\ upload_table' = IF name \in DOMAIN upload_table THEN upload_table
                                   ELSE WithObject(name)
                /\ UNCHANGED uploads
         ELSE /\ uploads' = Written(Len(uploads), r.bytes)
              /\ UNCHANGED <<pc, upload_table, chunk>>
  /\ UNCHANGED <<parms, nalloc, apreq>>
  /\ ParserStays

ShortWrite ==
  /\ pc = "chunk"
  /\ ~ request.hook /\ "write" \in request.does
  /\ \E r \in {MultipartBufferRead(buf, FILLUNIT)} :
       /\ r.bytes # <<>>
       /\ buf' = r.buf
  /\ Ended(HTTP_INTERNAL_SERVER_ERROR)
  /\ UNCHANGED <<request, tableVars, uploads, upload_table, chunk, jar, got, reads, atEnd,
                 entered>>

\* The hook writes what it was given to the io of the upload object.
HookReturns ==
  /\ pc = "hook"
  /\ uploads' = Written(upload_table[Last(uploads).name], chunk)
  /\ chunk' = <<>>
  /\ pc' = "chunk"
  /\ UNCHANGED <<parms, nalloc, buf, apreq, upload_table>>
  /\ ParserStays

\* An exception in the hook leaves the parser, which stays as it is.
HookRaises ==
  /\ pc = "hook"
  /\ "raise" \in request.does
  /\ pc' = "handler"
  /\ told' = TRUE
  /\ UNCHANGED <<request, tableVars, buf, apreq, uploads, upload_table, chunk, jar, got,
                 reads, atEnd, entered>>

-----------------------------------------------------------------------------
(* What is done with the results.                                          *)

\* request_uploads: an object for each name, that of the last file, unless
\* the hook's calls have made some.  It raises when it comes to an upload
\* without a name, after those before it.
Uploads ==
  /\ pc = "handler"
  /\ apreq.parsed
  /\ upload_table = <<>>
  /\ upload_table' = [name \in {u.name : u \in ToSet(uploads)} \ {NoText} |->
                        SelectLastInSeq(uploads, LAMBDA u : u.name = name)]
  /\ UNCHANGED <<request, tableVars, pc, buf, apreq, uploads, chunk, jar, got, reads, atEnd,
                 entered, told>>

\* request_cookies: of cookies with the same name the last.
Cookies ==
  /\ pc = "handler"
  /\ apreq.parsed
  /\ jar = <<>>
  /\ LET cookies == CookieParse(request.cookie)
     IN  jar' = [name \in {c.name : c \in ToSet(cookies)} |->
                   cookies[SelectLastInSeq(cookies, LAMBDA c : c.name = name)].values]
  /\ UNCHANGED <<request, tableVars, pc, buf, apreq, uploads, upload_table, chunk, got, reads,
                 atEnd, entered, told>>

EditTable ==
  /\ pc = "handler"
  /\ apreq.parsed
  /\ "edit" \in request.does
  /\ TableNext
  /\ UNCHANGED <<request, inputVars>>

\* The handler does other things.
Idle ==
  /\ pc = "handler"
  /\ UNCHANGED vars

Next ==
  \/ Parse
  \/ NextPart
  \/ FileChunk
  \/ ShortWrite
  \/ HookReturns
  \/ HookRaises
  \/ \E size \in Sizes : Read(size) \/ GetClientBlock(size)
  \/ SetupClientBlock
  \/ Uploads
  \/ Cookies
  \/ EditTable
  \/ Idle

Spec == InputInit /\ [][Next]_vars
-----------------------------------------------------------------------------
(* Properties.                                                             *)

\* The variables have their types: what was read of the body is not more than
\* it has, the data in the buffer not less than nothing, and the object of an
\* upload is one for an upload in the list (apache_multipart_buffer.c,
\* request_call_upload_hook).
TypeOK ==
  /\ RequestTypeOK
  /\ pc \in {"handler", "part", "chunk", "hook"}
  /\ buf \in Buffers
  /\ apreq \in [parsed : BOOLEAN, status : Statuses, nargs : Nat]
  /\ uploads \in Seq([name : Text \cup {NoText}, filename : Text \cup {NoText}, data : Text,
                    size : Nat])
  /\ upload_table \in [DOMAIN upload_table -> 1..Len(uploads)]
  /\ jar \in [DOMAIN jar -> Seq(Text)]
  /\ chunk \in Text /\ got \in Text
  /\ reads \in 0..MaxReads
  /\ atEnd \in BOOLEAN /\ told \in BOOLEAN
  /\ entered \in Nat
  /\ TableTypeOK

\* What the client meant: the pairs of the query string and of the form, and
\* the parts with Content-Disposition.
Meant ==
  request.query \o
    [i \in 1..Len(request.parts) |->
       [key |-> request.parts[i].param,
        val |-> IF request.parts[i].filename = NoText THEN request.parts[i].content
                ELSE request.parts[i].filename]]
FilesUpTo[k \in 0..Len(request.parts)] ==
  IF k = 0 THEN <<>>
  ELSE IF request.parts[k].filename = NoText THEN FilesUpTo[k - 1]
  ELSE Append(FilesUpTo[k - 1], request.parts[k])
Files == FilesUpTo[Len(request.parts)]

\* What arrives at once may end after e bytes: not in a delimiter, where one
\* may still follow, after a CR, or in the headers, except at their end.
MayBeDelimiter(body, e) ==
  \E k \in 1..Len(NextDelimiter) :
    IsSuffix(SubSeq(NextDelimiter, 1, k), <<LF>> \o SubSeq(body, 1, e))
EndOfHeaders(body, e) ==
  e > 4 /\ body[e - 4] \in HeaderBytes /\ SubSeq(body, e - 3, e) = <<CR, LF, CR, LF>>
Harmless(body, e) ==
  EndOfHeaders(body, e) \/ (body[e] \notin HeaderBytes \cup {CR} /\ ~ MayBeDelimiter(body, e))
LinesArriveWhole ==
  request.fails = NoFailure /\ \A e \in request.ends : Harmless(request.body, e)

\* The handler has its parameters, from the only parse there was, and no
\* parse ever raised an error.
ParsedOnce == pc = "handler" /\ apreq.parsed /\ entered = 1 /\ ~ told /\ reads = 0
HasParameters == ParsedOnce /\ LinesArriveWhole
\* Names and values are C strings: what they are meant to be has no NUL.
AreStrings(entries) ==
  \A e \in ToSet(entries) : CString(e.key) = e.key /\ CString(e.val) = e.val

\* Those are all the parameters that the client meant, each with its whole
\* value and nothing of what is around it, wherever the ends of the buffer
\* fall.  Two things are asked: names and values without NUL, of which
\* multipart_buffer_read_body and ap_unescape_url_u lose something (a file may
\* have any bytes); and that what arrives at once ends only where it does no
\* harm: not after a CR, nor in what may become a delimiter, nor in a header
\* line (multipart_buffer_read, get_line).
FormComplete == HasParameters /\ edits = 0 /\ AreStrings(Meant) => parms = Meant

\* The same wherever what arrives at once ends: multipart_buffer_read is there
\* to "read until a boundary condition", to "look for a potential boundary
\* match" and "only read data up to that point".  The code looks for LF and
\* the delimiter: of a CR that is the last to arrive it makes a byte of the
\* value, whatever follows.
CompleteHoweverCut ==
  ParsedOnce /\ request.fails = NoFailure /\ edits = 0 /\ AreStrings(Meant) => parms = Meant

\* The uploads are the files with names of their own, with every byte in
\* place, whether they were written to files or handed to the hook, if what
\* arrives at once ends where it does no harm.
UploadsComplete ==
  HasParameters =>
    uploads = [i \in 1..Len(Files) |->
       [name |-> Files[i].param, filename |-> Files[i].filename,
        data |-> Files[i].content, size |-> Len(Files[i].content)]]

\* The table can be told apart into the query string's parameters and those
\* of the body, whether or not the parse came to its end.
QueryTellsApart ==
  pc = "handler" /\ entered = 1 /\ edits = 0 =>
    QueryParams = request.query /\ IsPrefix(request.query \o PostParams, parms)

\* The parser does not ask for more than the client sends, not even of one
\* that announces two bytes more, which happened with files that are empty.
\* That holds with Apache 1.x.
NeverWaits ==
  request.counts \/ request.missing = 0 =>
    (entered <= 1 /\ reads = 0 => ~ buf.client.waits)

\* The data in the buffer stays within its memory.
BufferInBounds ==
  buf.n = 0 \/ (buf.n > 0 /\ buf.begin >= 1 /\ buf.begin + buf.n - 1 <= BufSize)

\* What the reads of a handler return is the body, in order and once, before
\* and after a form is parsed, and until a multipart body is; the end is told
\* only when it was all returned, however reads are mixed.
ReadsAreBody ==
  /\ entered = 0 \/ request.type # "multipart" => IsPrefix(got, request.body)
  /\ atEnd /\ entered = 0 => got = request.body

\* The cookies a browser sends back are those that were baked, with all the
\* values, of cookies with the same name the last.
CookiesComeBack ==
  jar # <<>> => jar = [name \in {c.name : c \in ToSet(request.cookies)} |->
    request.cookies[SelectLastInSeq(request.cookies, LAMBDA c : c.name = name)].values]
=============================================================================
