--------------------------- MODULE MultipartBuffer ---------------------------
(***************************************************************************)
(* The buffer through which a multipart/form-data body is read:            *)
(* apache_multipart_buffer.c.  A buffer is a record with the memory, where *)
(* the data in it begins, how many bytes it has, and the connection it is  *)
(* filled from.  The memory is kept byte for byte, what is left over from  *)
(* earlier fills included, because the code looks past the data.           *)
(*                                                                         *)
(* A byte is a string.  A header line is one byte that stands for all of   *)
(* it; Disposition tells what a line with Content-Disposition says.        *)
(***************************************************************************)
EXTENDS ClientBlock, Loops

CONSTANTS
  Boundary,    \* the boundary parameter of the content type
  FILLUNIT,    \* bytes the buffer has, if the boundary is not longer
  HeaderBytes, \* the bytes that stand for header lines
  Disposition  \* what lines with Content-Disposition and a name give, by line:
               \* [param, filename], the filename NoText if there is none

CR  == "CR"
LF  == "LF"
NULL == 0

BufSize == Max({Len(Boundary) + 6, FILLUNIT})
Delimiter == <<"-", "-">> \o Boundary
NextDelimiter == <<LF>> \o Delimiter

ASSUME BufferAssumption ==
  /\ Boundary \in Text
  /\ FILLUNIT \in Nat \ {0}
  /\ {CR, LF, "-"} \subseteq Bytes
  /\ NUL \notin HeaderBytes /\ \A i \in 1..Len(Boundary) : Boundary[i] # NUL
  /\ Disposition \in [DOMAIN Disposition -> [param : Text, filename : Text \cup {NoText}]]

Buffers == [mem : [1..(BufSize + 1) -> Bytes], begin : Nat, n : Nat, client : Clients]

NewBuffer(client) ==
  [mem |-> [i \in 1..(BufSize + 1) |-> NUL], begin |-> 1, n |-> 0, client |-> client]

ByteAt(b, i) == IF i \in DOMAIN b.mem THEN b.mem[i] ELSE NUL
Buffered(b) == [i \in 1..b.n |-> ByteAt(b, b.begin + i - 1)]
PutAt(mem, i, bytes) ==
  [k \in DOMAIN mem |-> IF k \in i..(i + Len(bytes) - 1) THEN bytes[k - i + 1] ELSE mem[k]]

\* How many bytes fill_buffer asks for: never the last ones of the body, as
\* many as the delimiter has, for some browsers send too few of them.
AskUpToEnd(b) == BufSize - b.n
AskWholeBuffer(b) ==
  IF BufSize >= b.client.remaining THEN b.client.remaining - Len(Delimiter) ELSE BufSize
AskFor(b) ==
  IF BufSize - b.n >= b.client.remaining THEN b.client.remaining - Len(Delimiter)
                                         ELSE BufSize - b.n

\* fill_buffer: the data is moved to the front and added to, by one block.
FillBuffer(b) ==
  LET moved == [b EXCEPT !.begin = 1,
                         !.mem = IF b.n > 0 THEN PutAt(b.mem, 1, Buffered(b)) ELSE @]
      block == GetBlock(b.client, AskFor(b))
  IN  IF AskFor(b) <= 0 THEN moved
      ELSE [moved EXCEPT !.mem = PutAt(@, b.n + 1, block.bytes),
                         !.n = @ + Len(block.bytes),
                         !.client = block.client]

\* next_line: the data up to the first LF, without CRLF or LF, of which the
\* line takes its bytes; all of a full buffer without LF; or nothing.  What is
\* done with lines sees them as C strings.
NoLine(b) == [found |-> FALSE, line |-> <<>>, buf |-> b]
BytesAndNul(lf) == lf + 1
BytesOfLine(lf) == lf
NextLine(b) ==
  LET lf == SelectInSeq(Buffered(b), LAMBDA c : c = LF)
      last == IF lf > 1 /\ Buffered(b)[lf - 1] = CR THEN lf - 1 ELSE lf
  IN  IF lf # 0
        THEN [found |-> TRUE, line |-> CString(SubSeq(Buffered(b), 1, last - 1)),
              buf |-> [b EXCEPT !.mem[b.begin + last - 1] = NUL,
                                !.begin = @ + BytesOfLine(lf),
                                !.n = @ - BytesOfLine(lf)]]
      ELSE IF b.n < BufSize THEN NoLine(b)
      ELSE [found |-> TRUE, line |-> CString(Buffered(b)),
            buf |-> [b EXCEPT !.mem[BufSize + 1] = NUL, !.begin = NULL, !.n = 0]]

\* get_line: one more block, if the buffer does not have the line.
GetLine(b) == IF NextLine(b).found THEN NextLine(b) ELSE NextLine(FillBuffer(b))

\* No line takes less than a byte of the body.
Lines == Len(request.body)
FindBoundary(b) ==
  While(LAMBDA l : l.found /\ l.line # Delimiter, LAMBDA l : GetLine(l.buf), GetLine(b), Lines)

\* multipart_buffer_headers: the lines after the next boundary, up to an
\* empty one.
HeaderLines(b) ==
  LET headers == While(LAMBDA h : h.last.found /\ h.last.line # <<>>,
                       LAMBDA h : [lines |-> Append(h.lines, h.last.line),
                                   last |-> GetLine(h.last.buf)],
                       [lines |-> <<>>, last |-> GetLine(b)], Lines)
  IN  [found |-> TRUE, lines |-> headers.lines, buf |-> headers.last.buf]

MultipartBufferHeaders(b) ==
  LET l == FindBoundary(b)
  IN  IF l.found THEN HeaderLines(l.buf)
      ELSE [found |-> FALSE, lines |-> <<>>, buf |-> l.buf]

\* my_memstr: where s has needle, or ends with the beginning of it, counted
\* from 0; Len(s) if nowhere.
WholeMatch(s, needle) ==
  Min({i \in 0..Len(s) : i = Len(s) \/ IsPrefix(needle, SubSeq(s, i + 1, Len(s)))})
Match(s, needle) ==
  Min({i \in 0..Len(s) : LET rest == SubSeq(s, i + 1, Len(s))
                         IN  IsPrefix(needle, rest) \/ IsPrefix(rest, needle)})

\* multipart_buffer_read: less than size bytes, up to what is, or may become,
\* a delimiter; the CR before it is left in the buffer with it.
ReadWithCR(b, size) ==
  LET f == IF size > b.n THEN FillBuffer(b) ELSE b
      out == SubSeq(Buffered(f), 1, Min({Match(Buffered(f), NextDelimiter), size - 1}))
  IN  [bytes |-> out, buf |-> [f EXCEPT !.begin = @ + Len(out), !.n = @ - Len(out)]]
MultipartBufferRead(b, size) ==
  LET f == IF size > b.n THEN FillBuffer(b) ELSE b
      max == Match(Buffered(f), NextDelimiter)
      len == Min({max, size - 1})
      kept == max < f.n /\ len > 0 /\ Buffered(f)[len] = CR
      out == SubSeq(Buffered(f), 1, IF kept THEN len - 1 ELSE len)
  IN  [bytes |-> out, buf |-> [f EXCEPT !.begin = @ + Len(out), !.n = @ - Len(out)]]

\* multipart_buffer_read_body: reads until nothing is read; of each piece only
\* what is before a NUL is appended.
MultipartBufferReadBody(b) ==
  LET read == While(LAMBDA r : r.last.bytes # <<>>,
                    LAMBDA r : [bytes |-> r.bytes \o CString(r.last.bytes),
                                last |-> MultipartBufferRead(r.last.buf, FILLUNIT)],
                    [bytes |-> <<>>, last |-> MultipartBufferRead(b, FILLUNIT)], Lines)
  IN  [bytes |-> read.bytes, buf |-> read.last.buf]

\* multipart_buffer_eof, after it has tried to fill an empty buffer.
AtLeastOne(b) == IF b.n = 0 THEN FillBuffer(b) ELSE b

\* Whether the memory at the data begins with the delimiter, data or not.
AtDelimiter(b) ==
  \A i \in 1..Len(Delimiter) : ByteAt(b, b.begin + i - 1) = Delimiter[i]
=============================================================================
