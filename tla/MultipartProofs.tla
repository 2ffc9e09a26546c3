-------------------------- MODULE MultipartProofs ---------------------------
(***************************************************************************)
(* Proofs about RequestInput with multipart bodies: that the parameters    *)
(* and the uploads are the parts that were sent, for every such body,      *)
(* boundary, size of the buffer and way the body arrives.                  *)
(*                                                                         *)
(* A layout says where in the body the parts, their header lines and their *)
(* contents are.  BufAt relates a buffer to the byte of the body its data  *)
(* begins with; a lemma on each operation of the buffer says to which byte *)
(* it comes.  The invariant, MultipartInv, says for each place in the      *)
(* parser between which bytes it is, and that parameters and uploads are   *)
(* those of the parts before.                                              *)
(***************************************************************************)
EXTENDS RequestInputProofs

-----------------------------------------------------------------------------
(* A buffer that has a piece of the body.                                  *)

\* The body is as long as announced and the connection does not fail.
Calm == RequestTypeOK /\ request.missing = 0 /\ request.fails = NoFailure

\* What r->remaining is after at bytes of such a body.
Left(at) ==
  IF request.counts THEN Len(request.body) - at
  ELSE IF at = Len(request.body) THEN 0 ELSE Len(request.body)

\* The buffer b has the body from byte p on, up to where the connection is.
BufAt(b, p) ==
  /\ GoodBuffer(b) /\ p \in Nat
  /\ p + b.n = b.client.at
  /\ \A i \in 1..b.n : ByteAt(b, b.begin + i - 1) = request.body[p + i]
  /\ b.client.remaining = Left(b.client.at)

\* What such a buffer has.
LEMMA BufAtFields ==
  ASSUME Calm, NEW b, NEW p, BufAt(b, p)
  PROVE  /\ b \in Buffers /\ b.mem \in [1..BufSize + 1 -> Bytes] /\ b.begin \in Nat /\ b.n \in Nat
         /\ b.client \in Clients /\ b.client.at \in 0..Len(request.body)
         /\ InBounds(b.begin, b.n) /\ GoodBuffer(b) /\ p \in Nat /\ p + b.n = b.client.at
         /\ b.client.remaining = Left(b.client.at)
         /\ Buffered(b) \in Text /\ Len(Buffered(b)) = b.n
         /\ \A i \in 1..b.n : Buffered(b)[i] = request.body[p + i]
<1>1. /\ GoodBuffer(b) /\ p \in Nat /\ p + b.n = b.client.at
      /\ \A i \in 1..b.n : ByteAt(b, b.begin + i - 1) = request.body[p + i]
      /\ b.client.remaining = Left(b.client.at)
  BY DEF BufAt
<1>2. /\ b \in Buffers /\ b.mem \in [1..BufSize + 1 -> Bytes] /\ b.begin \in Nat /\ b.n \in Nat
      /\ b.client \in Clients /\ InBounds(b.begin, b.n)
  BY <1>1, BufferFields DEF GoodBuffer
<1>3. b.client.at \in 0..Len(request.body)
  BY <1>2 DEF Clients
<1>4. Buffered(b) \in Text /\ Len(Buffered(b)) = b.n
  BY <1>2, BufferedType
<1>5. \A i \in 1..b.n : Buffered(b)[i] = ByteAt(b, b.begin + i - 1)
  BY DEF Buffered
<1>6. \A i \in 1..b.n : Buffered(b)[i] = request.body[p + i]
  BY <1>1, <1>5
<1>7. QED
  BY <1>1, <1>2, <1>3, <1>4, <1>6

\* A byte in the memory.
LEMMA ByteInMemory ==
  ASSUME NEW b \in Buffers, NEW i \in 1..BufSize + 1
  PROVE  ByteAt(b, i) = b.mem[i]
BY BufferFields DEF ByteAt

\* The memory with bytes put into it.
LEMMA PutAtFacts ==
  ASSUME NEW mem \in [1..BufSize + 1 -> Bytes], NEW i \in Nat \ {0}, NEW bytes \in Text,
         i + Len(bytes) - 1 <= BufSize + 1
  PROVE  /\ \A k \in 1..Len(bytes) : PutAt(mem, i, bytes)[i + k - 1] = bytes[k]
         /\ \A k \in 1..i - 1 : k \in 1..BufSize + 1 => PutAt(mem, i, bytes)[k] = mem[k]
<1> DEFINE u == [k \in DOMAIN mem |-> IF k \in i..i + Len(bytes) - 1 THEN bytes[k - i + 1] ELSE mem[k]]
<1>1. PutAt(mem, i, bytes) = u
  BY Zenon DEF PutAt
<1>2. Len(bytes) \in Nat /\ BufSize \in Nat /\ DOMAIN mem = 1..BufSize + 1
  BY BufSizeType DEF Text
<1>3. ASSUME NEW k \in 1..Len(bytes) PROVE u[i + k - 1] = bytes[k]
  <2>1. /\ i + k - 1 \in i..i + Len(bytes) - 1 /\ i + k - 1 \in DOMAIN mem
        /\ (i + k - 1) - i + 1 = k
    BY <1>2
  <2>2. QED
    BY <2>1
<1>4. ASSUME NEW k \in 1..i - 1, k \in 1..BufSize + 1 PROVE u[k] = mem[k]
  <2>1. k \notin i..i + Len(bytes) - 1 /\ k \in DOMAIN mem
    BY <1>2, <1>4
  <2>2. QED
    BY <2>1
<1> HIDE DEF u
<1>5. QED
  BY <1>1, <1>3, <1>4

\* A block of such a body.
LEMMA CalmBlock ==
  ASSUME Calm, NEW c \in Clients, c.remaining = Left(c.at), c.remaining > 0,
         NEW size \in Nat \ {0}, request.counts => size <= c.remaining
  PROVE  LET g == GetBlock(c, size)
         IN  /\ g.client \in Clients /\ g.client.at > c.at
             /\ g.client.at \in {c.at + size, Len(request.body)} \cup request.ends
             /\ g.client.remaining = Left(g.client.at)
             /\ g.bytes = SubSeq(request.body, c.at + 1, g.client.at)
             /\ g.bytes \in Text /\ Len(g.bytes) = g.client.at - c.at
             /\ g.client.at <= c.at + size
<1> DEFINE g == GetBlock(c, size)
           asked == IF request.counts THEN Min({size, c.remaining}) ELSE size
           end == BlockEnd(c.at, asked)
           left == IF request.counts THEN c.remaining - (end - c.at)
                   ELSE IF end = Announced THEN 0 ELSE c.remaining
           all == Len(request.body)
<1>1. RequestTypeOK /\ request.missing = 0 /\ request.fails = NoFailure
  BY DEF Calm
<1>2. /\ c.at \in 0..all /\ c.remaining \in Int /\ c.read_length \in Nat
  BY DEF Clients
<1>3. all \in Nat /\ Announced = all /\ request.body \in Seq(Bytes)
  <2>1. all \in Nat /\ Announced = all + 0 /\ request.body \in Seq(Bytes)
    BY <1>1, BodyType
  <2>2. QED
    BY <2>1
<1>4. c.at < all
  BY <1>2, <1>3 DEF Left
<1>5. asked = size
  <2>1. ASSUME request.counts PROVE Min({size, c.remaining}) = size
    <3> DEFINE r == c.remaining
    <3>1. r \in Nat /\ size <= r
      BY <1>2, <2>1
    <3> HIDE DEF r
    <3>2. Min({size, r}) \in {size, r} /\ Min({size, r}) <= size
      BY <3>1, LessOf
    <3>3. Min({size, r}) = size
      BY <3>1, <3>2
    <3>4. QED
      BY <3>3 DEF r
  <2>2. QED
    BY <2>1
<1> HIDE DEF asked
<1>6. end \in c.at + 1..all /\ end <= c.at + size
  <2> DEFINE at == c.at
  <2>1. at \in Nat /\ at < all
    BY <1>2, <1>4
  <2> HIDE DEF at
  <2>2. BlockEnd(at, size) \in at + 1..all /\ BlockEnd(at, size) <= at + size
    BY <1>1, <2>1, BlockEndFacts
  <2>3. QED
    BY <1>5, <2>2 DEF at
<1>7. end \in {c.at + size, all} \cup request.ends
  <2> DEFINE T == {c.at + size} \cup {e \in request.ends \cup {request.fails, all} : e > c.at}
  <2>1. end = Min(T)
    BY <1>5, Zenon DEF BlockEnd
  <2>2. T \in SUBSET Nat /\ T # {}
    <3>1. ASSUME NEW e \in T PROVE e \in Nat
      BY <1>1, <1>2, <1>3 DEF RequestTypeOK, NoFailure
    <3>2. c.at + size \in T
      OBVIOUS
    <3> HIDE DEF T
    <3>3. QED
      BY <3>1, <3>2
  <2>3. Min(T) \in T
    <3> HIDE DEF T
    <3>1. QED
      BY <2>2, MinNumber
  <2>4. end \in T
    BY <2>1, <2>3
  <2> HIDE DEF end
  <2>5. end # request.fails
    BY <1>1, <1>2, <1>3, <1>6 DEF NoFailure
  <2>6. QED
    BY <2>4, <2>5
<1>8. g = [bytes |-> SubSeq(request.body, c.at + 1, end), failed |-> FALSE,
           client |-> [c EXCEPT !.at = end, !.remaining = left,
                                !.read_length = @ + (end - c.at)]]
  <2>1. ~ (c.remaining <= 0) /\ c.at # request.fails
    BY <1>1, <1>2 DEF NoFailure
  <2>2. QED
    BY <1>4, <2>1, Zenon DEF GetBlock, asked
<1>9. left = Left(end)
  BY <1>2, <1>3, <1>6 DEF Left
<1> DEFINE long == c.read_length + (end - c.at)
<1>10. long \in Nat /\ left \in Int /\ end \in 0..all
  BY <1>2, <1>3, <1>6
<1>11. g.client = Moved(c, end, left, long) /\ g.bytes = SubSeq(request.body, c.at + 1, end)
  <2> HIDE DEF end, left, g
  <2>1. /\ g.client = [c EXCEPT !.at = end, !.remaining = left,
                                !.read_length = @ + (end - c.at)]
        /\ g.bytes = SubSeq(request.body, c.at + 1, end)
    BY <1>8
  <2>2. QED
    BY <2>1, Zenon DEF Moved
<1> HIDE DEF left, end, long, g, all
<1>12. g.client \in Clients /\ g.client.at = end /\ g.client.remaining = left
  <2>1. end \in 0..Len(request.body) /\ left \in Int /\ long \in Nat
    BY <1>10 DEF all
  <2>2. g.client = Moved(c, end, left, long)
    BY <1>11
  <2>3. /\ Moved(c, end, left, long) \in Clients /\ Moved(c, end, left, long).at = end
        /\ Moved(c, end, left, long).remaining = left
    BY <2>1, MovedFields
  <2>4. QED
    BY <2>2, <2>3
<1>13. g.bytes \in Text /\ Len(g.bytes) = end - c.at
  <2> DEFINE m == c.at + 1
  <2>1. m \in Nat \ {0} /\ end \in 0..Len(request.body)
    BY <1>2, <1>10 DEF all
  <2> HIDE DEF m
  <2>2. /\ SubSeq(request.body, m, end) \in Seq(Bytes)
        /\ Len(SubSeq(request.body, m, end)) = IF m <= end THEN end - m + 1 ELSE 0
    BY <1>3, <2>1, SubSeqFacts
  <2>3. QED
    BY <1>2, <1>6, <1>11, <2>2 DEF m, Text
<1>14. /\ g.client \in Clients /\ g.client.at > c.at
       /\ g.client.at \in {c.at + size, Len(request.body)} \cup request.ends
       /\ g.client.remaining = Left(g.client.at)
       /\ g.bytes = SubSeq(request.body, c.at + 1, g.client.at)
       /\ g.bytes \in Text /\ Len(g.bytes) = g.client.at - c.at
       /\ g.client.at <= c.at + size
  BY <1>2, <1>6, <1>7, <1>9, <1>11, <1>12, <1>13 DEF all
<1>15. QED
  BY <1>14 DEF g

\* Where a buffer that was filled ends: it is full, or what arrived at once
\* ends there, or only as much as the delimiter is missing of the body.
Cut(b, f) ==
  \/ f.n = BufSize
  \/ f.client.at \in request.ends /\ f.client.at > b.client.at
  \/ f.client.at >= Len(request.body) - Len(Delimiter)

\* The bytes of the delimiters.
LEMMA DelimiterType ==
  /\ Delimiter \in Text /\ Len(Delimiter) = Len(Boundary) + 2 /\ Len(Delimiter) \in Nat
  /\ NextDelimiter \in Text /\ Len(NextDelimiter) = Len(Delimiter) + 1
  /\ NextDelimiter[1] = LF
  /\ \A i \in 1..Len(Delimiter) : NextDelimiter[i + 1] = Delimiter[i]
  /\ Delimiter[1] = "-" /\ Delimiter[2] = "-"
  /\ \A i \in 1..Len(Boundary) : Delimiter[i + 2] = Boundary[i]
<1> DEFINE two == <<"-", "-">>
           one == <<LF>>
<1>1. Boundary \in Seq(Bytes) /\ Len(Boundary) \in Nat
  BY BufferAssumption DEF Text
<1>2. /\ two \in Seq(Bytes) /\ Len(two) = 2 /\ two[1] = "-" /\ two[2] = "-"
      /\ one \in Seq(Bytes) /\ Len(one) = 1 /\ one[1] = LF
  BY BufferAssumption
<1>3. Delimiter = two \o Boundary /\ NextDelimiter = one \o Delimiter
  BY DEF Delimiter, NextDelimiter
<1> HIDE DEF two, one
<1>4. /\ Delimiter \in Seq(Bytes) /\ Len(Delimiter) = 2 + Len(Boundary)
      /\ \A i \in 1..2 : Delimiter[i] = two[i]
      /\ \A i \in 1..Len(Boundary) : Delimiter[2 + i] = Boundary[i]
  <2>1. two \in Seq(Bytes) /\ Boundary \in Seq(Bytes)
    BY <1>1, <1>2
  <2>2. /\ two \o Boundary \in Seq(Bytes) /\ Len(two \o Boundary) = Len(two) + Len(Boundary)
        /\ \A i \in 1..Len(two) : (two \o Boundary)[i] = two[i]
        /\ \A i \in 1..Len(Boundary) : (two \o Boundary)[Len(two) + i] = Boundary[i]
    BY <2>1, ConcatFacts
  <2>3. QED
    BY <1>2, <1>3, <2>2
<1>5. /\ NextDelimiter \in Seq(Bytes) /\ Len(NextDelimiter) = 1 + Len(Delimiter)
      /\ \A i \in 1..1 : NextDelimiter[i] = one[i]
      /\ \A i \in 1..Len(Delimiter) : NextDelimiter[1 + i] = Delimiter[i]
  <2>1. one \in Seq(Bytes) /\ Delimiter \in Seq(Bytes)
    BY <1>2, <1>4
  <2>2. /\ one \o Delimiter \in Seq(Bytes) /\ Len(one \o Delimiter) = Len(one) + Len(Delimiter)
        /\ \A i \in 1..Len(one) : (one \o Delimiter)[i] = one[i]
        /\ \A i \in 1..Len(Delimiter) : (one \o Delimiter)[Len(one) + i] = Delimiter[i]
    BY <2>1, ConcatFacts
  <2>3. QED
    BY <1>2, <1>3, <2>2
<1>6. Delimiter[1] = "-" /\ Delimiter[2] = "-" /\ NextDelimiter[1] = LF
  BY <1>2, <1>4, <1>5
<1>7. \A i \in 1..Len(Boundary) : Delimiter[i + 2] = Boundary[i]
  <2>1. \A i \in 1..Len(Boundary) : i + 2 = 2 + i
    BY <1>1
  <2>2. QED
    BY <1>4, <2>1
<1>8. \A i \in 1..Len(Delimiter) : NextDelimiter[i + 1] = Delimiter[i]
  <2>1. \A i \in 1..Len(Delimiter) : i + 1 = 1 + i
    BY <1>1, <1>4
  <2>2. QED
    BY <1>5, <2>1
<1>9. Len(Delimiter) = Len(Boundary) + 2 /\ Len(Delimiter) \in Nat
      /\ Len(NextDelimiter) = Len(Delimiter) + 1
  BY <1>1, <1>4, <1>5
<1>10. QED
  BY <1>4, <1>5, <1>6, <1>7, <1>8, <1>9 DEF Text

\* fill_buffer adds the bytes that follow, and stops only where it must.
LEMMA FillAt ==
  ASSUME Calm, NEW b, NEW p, BufAt(b, p)
  PROVE  LET f == FillBuffer(b)
         IN  BufAt(f, p) /\ f.begin = 1 /\ f.client.at >= b.client.at /\ Cut(b, f)
<1> DEFINE mem == IF b.n > 0 THEN PutAt(b.mem, 1, Buffered(b)) ELSE b.mem
           asked == AskFor(b)
           c == b.client
           block == GetBlock(c, asked)
           f == FillBuffer(b)
           all == Len(request.body)
           dl == Len(Delimiter)
<1>1. /\ b \in Buffers /\ b.mem \in [1..BufSize + 1 -> Bytes] /\ b.begin \in Nat /\ b.n \in Nat
      /\ b.client \in Clients /\ b.client.at \in 0..all
      /\ InBounds(b.begin, b.n) /\ GoodBuffer(b) /\ p \in Nat /\ p + b.n = b.client.at
      /\ b.client.remaining = Left(b.client.at)
      /\ Buffered(b) \in Text /\ Len(Buffered(b)) = b.n
      /\ \A i \in 1..b.n : Buffered(b)[i] = request.body[p + i]
  BY BufAtFields
<1>2. BufSize \in Nat \ {0} /\ dl \in Nat /\ all \in Nat /\ request.body \in Seq(Bytes)
  BY BufSizeType, DelimiterType, BodyType DEF Calm
<1>3. asked \in Int /\ (asked > 0 => asked <= BufSize - b.n)
  BY <1>1, AskForFacts
<1>4. b.n <= BufSize
  BY <1>1, <1>2 DEF InBounds
<1>5. b.client.remaining \in Nat
  BY <1>1, <1>2 DEF Left
<1>6. asked = IF BufSize - b.n >= b.client.remaining THEN b.client.remaining - dl
              ELSE BufSize - b.n
  BY DEF AskFor
<1>7. /\ mem \in [1..BufSize + 1 -> Bytes]
      /\ \A i \in 1..b.n : mem[i] = request.body[p + i]
  <2>1. CASE b.n > 0
    <3> DEFINE data == Buffered(b)
               old == b.mem
    <3>1. data \in Text /\ old \in [1..BufSize + 1 -> Bytes] /\ mem = PutAt(old, 1, data)
          /\ 1 + Len(data) - 1 <= BufSize + 1 /\ Len(data) = b.n
          /\ \A i \in 1..b.n : data[i] = request.body[p + i]
      BY <1>1, <1>2, <1>4, <2>1
    <3> HIDE DEF data, old, mem
    <3>2. mem \in [1..BufSize + 1 -> Bytes]
      BY <3>1, PutAtType
    <3>3. \A k \in 1..Len(data) : PutAt(old, 1, data)[1 + k - 1] = data[k]
      <4>1. 1 \in Nat \ {0} /\ data \in Text
        BY <3>1
      <4>2. old \in [1..BufSize + 1 -> Bytes] /\ 1 + Len(data) - 1 <= BufSize + 1
        BY <3>1
      <4>3. QED
        BY <4>1, <4>2, PutAtFacts
    <3>4. ASSUME NEW i \in 1..b.n PROVE mem[i] = request.body[p + i]
      <4>1. i \in 1..Len(data) /\ 1 + i - 1 = i
        BY <1>1, <3>1
      <4>2. mem[i] = data[i]
        BY <3>1, <3>3, <4>1
      <4>3. QED
        BY <3>1, <4>2
    <3>5. QED
      BY <3>2, <3>4
  <2>2. CASE ~ (b.n > 0)
    BY <1>1, <2>2
  <2>3. QED
    BY <2>1, <2>2
<1>8. ASSUME NEW g \in Buffers, NEW n \in Nat, n >= b.n, n <= BufSize, g.begin = 1, g.n = n,
             p + n = g.client.at, g.client.remaining = Left(g.client.at),
             \A i \in 1..n : g.mem[i] = request.body[p + i]
      PROVE  BufAt(g, p)
  <2>1. ASSUME NEW i \in 1..n PROVE ByteAt(g, g.begin + i - 1) = request.body[p + i]
    <3>1. i \in 1..BufSize + 1 /\ g.begin + i - 1 = i
      BY <1>2, <1>8
    <3>2. ByteAt(g, i) = g.mem[i]
      BY <3>1, ByteInMemory
    <3>3. QED
      BY <1>8, <3>1, <3>2
  <2>2. InBounds(g.begin, g.n)
    BY <1>2, <1>8 DEF InBounds
  <2>3. GoodBuffer(g)
    BY <2>2 DEF GoodBuffer
  <2>4. QED
    BY <1>1, <1>8, <2>1, <2>3 DEF BufAt
<1>9. CASE asked <= 0
  <2>1. f = [b EXCEPT !.begin = 1, !.mem = IF b.n > 0 THEN PutAt(b.mem, 1, Buffered(b)) ELSE @]
    BY <1>9, Zenon DEF FillBuffer
  <2> HIDE DEF f
  <2>2. f = Changed(b, mem, 1, b.n, b.client)
    <3> HIDE DEF mem
    <3>1. f = [b EXCEPT !.begin = 1, !.mem = mem]
      BY <2>1 DEF mem
    <3>2. QED
      BY <1>1, <3>1 DEF Changed, Buffers
  <2> HIDE DEF mem
  <2>3. f \in Buffers /\ f.mem = mem /\ f.begin = 1 /\ f.n = b.n /\ f.client = b.client
    <3> DEFINE n == b.n
    <3>1. mem \in [1..BufSize + 1 -> Bytes]
      BY <1>7 DEF mem
    <3>2. b \in Buffers /\ n \in Nat /\ c \in Clients /\ 1 \in Nat
      BY <1>1
    <3>3. f = Changed(b, mem, 1, n, c)
      BY <2>2
    <3> HIDE DEF c, n
    <3>4. f \in Buffers /\ f.mem = mem /\ f.begin = 1 /\ f.n = n /\ f.client = c
      BY <3>1, <3>2, <3>3, ChangedFields
    <3>5. QED
      BY <3>4 DEF c, n
  <2>4. BufAt(f, p)
    <3> DEFINE n == b.n
    <3>1. /\ n \in Nat /\ n >= b.n /\ n <= BufSize /\ p + n = f.client.at
          /\ f.client.remaining = Left(f.client.at)
      BY <1>1, <1>4, <2>3
    <3>2. \A i \in 1..n : f.mem[i] = request.body[p + i]
      BY <1>7, <2>3 DEF mem
    <3>3. f \in Buffers /\ f.begin = 1 /\ f.n = n
      BY <2>3
    <3> HIDE DEF n
    <3>4. QED
      BY <1>8, <3>1, <3>2, <3>3
  <2>5. Cut(b, f)
    <3>1. CASE BufSize - b.n >= b.client.remaining
      <4>1. b.client.remaining <= dl
        BY <1>2, <1>5, <1>6, <1>9, <3>1
      <4>2. b.client.at >= all - dl
        BY <1>1, <1>2, <4>1 DEF Left
      <4>3. QED
        BY <2>3, <4>2 DEF Cut
    <3>2. CASE ~ (BufSize - b.n >= b.client.remaining)
      <4>1. b.n = BufSize
        BY <1>1, <1>2, <1>4, <1>6, <1>9, <3>2
      <4>2. QED
        BY <2>3, <4>1 DEF Cut
    <3>3. QED
      BY <3>1, <3>2
  <2>6. f.client.at >= b.client.at
    BY <1>1, <2>3
  <2>7. QED
    BY <2>3, <2>4, <2>5, <2>6 DEF f
<1>10. CASE asked > 0
  <2>1. asked <= b.client.remaining /\ b.client.remaining > 0 /\ asked \in Nat \ {0}
    BY <1>1, <1>2, <1>3, <1>5, <1>6, <1>10
  <2> DEFINE more == b.n + Len(block.bytes)
             put == PutAt(mem, b.n + 1, block.bytes)
             moved == [b EXCEPT !.begin = 1,
                                !.mem = IF b.n > 0 THEN PutAt(b.mem, 1, Buffered(b)) ELSE @]
  <2>2. /\ block.client \in Clients /\ block.client.at > c.at
        /\ block.client.at \in {c.at + asked, all} \cup request.ends
        /\ block.client.remaining = Left(block.client.at)
        /\ block.bytes = SubSeq(request.body, c.at + 1, block.client.at)
        /\ block.bytes \in Text /\ Len(block.bytes) = block.client.at - c.at
        /\ block.client.at <= c.at + asked
    <3>1. c \in Clients /\ c.remaining = Left(c.at) /\ c.remaining > 0
          /\ asked <= c.remaining /\ asked \in Nat \ {0}
      BY <1>1, <2>1
    <3> HIDE DEF c, asked
    <3>2. QED
      BY <3>1, CalmBlock DEF all
  <2>3. f = [moved EXCEPT !.mem = PutAt(@, b.n + 1, block.bytes),
                          !.n = @ + Len(block.bytes),
                          !.client = block.client]
    <3>1. ~ (asked <= 0)
      BY <1>3, <1>10
    <3>2. QED
      BY <3>1, Zenon DEF FillBuffer
  <2> HIDE DEF asked, f, block
  <2>4. more \in Nat /\ more <= BufSize /\ more >= b.n /\ p + more = block.client.at
        /\ Len(block.bytes) \in Nat /\ block.client.at \in 0..all
    <3>1. block.client.at \in 0..all
      BY <2>2 DEF Clients
    <3>2. /\ b.n \in Nat /\ c.at \in 0..all /\ p \in Nat /\ p + b.n = c.at
          /\ asked <= BufSize - b.n /\ block.client.at > c.at
          /\ Len(block.bytes) = block.client.at - c.at
          /\ block.client.at <= c.at + asked /\ asked \in Int
      BY <1>1, <1>3, <1>10, <2>2
    <3> DEFINE n == b.n
               k == Len(block.bytes)
               to == block.client.at
               at == c.at
    <3>3. /\ n \in Nat /\ p \in Nat /\ at \in Int /\ to \in Int /\ p + n = at
          /\ asked <= BufSize - n /\ to > at /\ k = to - at /\ to <= at + asked
          /\ more = n + k /\ BufSize \in Nat
      BY <1>2, <3>1, <3>2
    <3> HIDE DEF n, k, to, at, more
    <3>4. more \in Nat /\ more <= BufSize /\ more >= n /\ p + more = to /\ k \in Nat
      BY <1>3, <3>3
    <3>5. QED
      BY <3>1, <3>4 DEF n, k, to
  <2>5. f = Changed(b, put, 1, more, block.client)
    <3>1. moved = [b EXCEPT !.begin = 1, !.mem = mem]
      OBVIOUS
    <3> HIDE DEF mem, moved
    <3>2. moved.mem = mem /\ moved.n = b.n
      BY <1>1, <3>1 DEF Buffers
    <3>3. f = [moved EXCEPT !.mem = put, !.n = more, !.client = block.client]
      BY <2>3, <3>2
    <3> HIDE DEF put, more
    <3>4. QED
      BY <1>1, <3>1, <3>3 DEF Changed, Buffers
  <2> HIDE DEF mem
  <2> DEFINE bytes == block.bytes
             first == b.n + 1
  <2>6. /\ bytes \in Text /\ first \in Nat \ {0} /\ first \in Nat
        /\ first + Len(bytes) - 1 <= BufSize + 1 /\ put = PutAt(mem, first, bytes)
    <3>1. bytes \in Text /\ first \in Nat \ {0} /\ first \in Nat /\ put = PutAt(mem, first, bytes)
      BY <1>1, <2>2
    <3>2. more = b.n + Len(bytes) /\ first = b.n + 1 /\ b.n \in Nat /\ Len(bytes) \in Nat
      BY <1>1, <2>4
    <3> HIDE DEF bytes, first, more, put
    <3>3. first + Len(bytes) - 1 <= BufSize + 1
      BY <1>2, <2>4, <3>2
    <3>4. QED
      BY <3>1, <3>3
  <2>7. put \in [1..BufSize + 1 -> Bytes]
    <3> HIDE DEF bytes, first, put
    <3>1. QED
      BY <1>7, <2>6, PutAtType
  <2>8. /\ \A k \in 1..Len(bytes) : put[first + k - 1] = bytes[k]
        /\ \A k \in 1..first - 1 : k \in 1..BufSize + 1 => put[k] = mem[k]
    <3> HIDE DEF bytes, first, put
    <3>1. QED
      BY <1>7, <2>6, PutAtFacts
  <2>9. \A k \in 1..Len(bytes) : bytes[k] = request.body[c.at + k]
    <3> DEFINE m == c.at + 1
               at == block.client.at
    <3>1. m \in Nat \ {0} /\ at \in 0..Len(request.body)
      <4>1. c.at \in 0..all /\ at \in 0..all
        BY <1>1, <2>4
      <4>2. c.at \in Nat
        <5> HIDE DEF all
        <5>1. QED
          BY <1>2, <4>1
      <4>3. QED
        BY <4>1, <4>2
    <3>2. bytes = SubSeq(request.body, m, at)
      BY <2>2
    <3> HIDE DEF m, at, bytes
    <3>3. \A k \in 1..Len(bytes) : bytes[k] = request.body[m + k - 1]
      BY <1>2, <3>1, <3>2, SubSeqFacts
    <3>4. ASSUME NEW k \in 1..Len(bytes) PROVE m + k - 1 = c.at + k
      BY <1>1 DEF m
    <3>5. QED
      BY <3>3, <3>4
  <2>10. ASSUME NEW i \in 1..more PROVE put[i] = request.body[p + i]
    <3>1. CASE i <= b.n
      <4>1. i \in 1..first - 1 /\ i \in 1..BufSize + 1 /\ i \in 1..b.n
        BY <1>1, <1>2, <1>4, <3>1
      <4>2. put[i] = mem[i]
        BY <2>8, <4>1
      <4>3. QED
        BY <1>7, <4>1, <4>2
    <3>2. CASE i > b.n
      <4> DEFINE k == i - b.n
      <4>1. k \in 1..Len(bytes) /\ first + k - 1 = i /\ c.at + k = p + i
        <5>1. /\ more = b.n + Len(bytes) /\ first = b.n + 1 /\ b.n \in Nat /\ Len(bytes) \in Nat
              /\ p + b.n = c.at /\ p \in Nat /\ c.at \in Int /\ k = i - b.n
          BY <1>1, <2>4
        <5> DEFINE n == b.n
                   m == Len(bytes)
                   at == c.at
        <5>2. /\ more = n + m /\ first = n + 1 /\ n \in Nat /\ m \in Nat
              /\ p + n = at /\ p \in Nat /\ at \in Int /\ k = i - n /\ i > n
              /\ i \in 1..n + m
          BY <3>2, <5>1
        <5> HIDE DEF bytes, first, more, c, k, n, m, at
        <5>3. k \in 1..m /\ first + k - 1 = i /\ at + k = p + i
          BY <5>2
        <5>4. QED
          BY <5>3 DEF m, at
      <4> HIDE DEF k, put, bytes, first, c
      <4>2. put[i] = bytes[k]
        BY <2>8, <4>1
      <4>3. QED
        BY <2>9, <4>1, <4>2
    <3>3. QED
      BY <1>1, <2>4, <3>1, <3>2
  <2> HIDE DEF put, more, first
  <2> DEFINE d == block.client
  <2>11. f \in Buffers /\ f.mem = put /\ f.begin = 1 /\ f.n = more /\ f.client = d
    <3>1. f = Changed(b, put, 1, more, d)
      BY <2>5
    <3>2. b \in Buffers /\ more \in Nat /\ d \in Clients /\ 1 \in Nat
      BY <1>1, <2>2, <2>4
    <3> HIDE DEF d, bytes, c, all, dl, moved
    <3>3. Changed(b, put, 1, more, d) = [b EXCEPT !.mem = put, !.begin = 1, !.n = more, !.client = d]
      BY DEF Changed
    <3>4. QED
      BY <2>7, <3>1, <3>2, <3>3 DEF Buffers
  <2>12. BufAt(f, p)
    BY <1>8, <2>2, <2>4, <2>10, <2>11
  <2>13. Cut(b, f)
    <3>1. CASE d.at = c.at + asked
      <4>1. CASE BufSize - b.n >= c.remaining
        <5>1. asked = c.remaining - dl
          BY <1>6, <4>1 DEF asked
        <5> DEFINE at == c.at
                   left == c.remaining
        <5>2. /\ left = all - at \/ left = 0 \/ left = all
              /\ left > 0 /\ asked = left - dl /\ at \in 0..all /\ all \in Nat /\ dl \in Nat
          BY <1>1, <1>2, <1>5, <2>1, <5>1 DEF Left
        <5>3. at + asked >= all - dl
          <6> HIDE DEF at, left, all, dl
          <6>1. QED
            BY <5>2
        <5>4. QED
          BY <2>11, <3>1, <5>3 DEF Cut
      <4>2. CASE ~ (BufSize - b.n >= c.remaining)
        <5>1. asked = BufSize - b.n
          BY <1>6, <4>2 DEF asked
        <5>2. more = BufSize
          BY <1>1, <1>2, <2>4, <3>1, <5>1
        <5>3. QED
          BY <2>11, <5>2 DEF Cut
      <4>3. QED
        BY <4>1, <4>2
    <3>2. CASE d.at = all
      <4>1. d.at >= all - dl
        BY <1>2, <3>2
      <4>2. QED
        BY <2>11, <4>1 DEF Cut
    <3>3. CASE d.at \in request.ends
      BY <2>2, <2>11, <3>3 DEF Cut
    <3>4. QED
      BY <2>2, <3>1, <3>2, <3>3
  <2>14. f.client.at >= b.client.at
    <3>1. d.at > c.at /\ d.at \in Int /\ c.at \in Int
      BY <1>1, <2>2, <2>4
    <3>2. QED
      BY <2>11, <3>1
  <2>15. QED
    BY <2>11, <2>12, <2>13, <2>14 DEF f
<1>11. QED
  BY <1>3, <1>9, <1>10

-----------------------------------------------------------------------------
(* Lines.                                                                  *)

\* The first LF of a text.
FirstLF(t) == SelectInSeq(t, LAMBDA c : c = LF)
\* It is found where it is.
LEMMA FirstLFIs ==
  ASSUME NEW t \in Text, NEW m \in 1..Len(t), t[m] = LF, \A i \in 1..m - 1 : t[i] # LF
  PROVE  FirstLF(t) = m
<1> DEFINE I == {i \in 1..Len(t) : t[i] = LF}
           f == FirstLF(t)
<1>1. f = IF I # {} THEN Min(I) ELSE 0
  BY Zenon DEF SelectInSeq, FirstLF
<1>2. m \in I /\ I \in SUBSET Nat
  OBVIOUS
<1>3. ASSUME NEW k \in I PROVE m <= k
  <2>1. Len(t) \in Nat
    BY DEF Text
  <2>2. k \in 1..Len(t) /\ t[k] = LF
    OBVIOUS
  <2>3. k \notin 1..m - 1
    BY <2>2
  <2>4. QED
    BY <2>1, <2>2, <2>3
<1> HIDE DEF I, f
<1>4. Min(I) = m
  BY <1>2, <1>3, MinIs
<1>5. f = m
  BY <1>1, <1>2, <1>4
<1>6. QED
  BY <1>5 DEF f

\* It is not found where there is none.
LEMMA NoLF ==
  ASSUME NEW t \in Text, \A i \in 1..Len(t) : t[i] # LF
  PROVE  FirstLF(t) = 0
<1> DEFINE I == {i \in 1..Len(t) : t[i] = LF}
<1>1. FirstLF(t) = IF I # {} THEN Min(I) ELSE 0
  BY Zenon DEF SelectInSeq, FirstLF
<1>2. I = {}
  OBVIOUS
<1>3. QED
  BY <1>1, <1>2

\* A line that ends with CRLF, of so many bytes, from byte p on, without NUL.
LineHere(p, long) ==
  /\ p \in Nat /\ long \in Nat /\ long >= 2 /\ p + long <= Len(request.body)
  /\ request.body[p + long] = LF /\ request.body[p + long - 1] = CR
  /\ \A i \in 1..long - 1 : request.body[p + i] # LF
  /\ \A i \in 1..long - 2 : request.body[p + i] # NUL
LineText(p, long) == SubSeq(request.body, p + 1, p + long - 2)

Memory == [1..BufSize + 1 -> Bytes]
LEMMA ChangedIn ==
  ASSUME NEW b, NEW mem, NEW begin, NEW n, NEW client, NEW f, b \in Buffers, mem \in Memory,
         begin \in Nat, n \in Nat, client \in Clients, f = Changed(b, mem, begin, n, client)
  PROVE  /\ f \in Buffers /\ f.mem = mem /\ f.begin = begin /\ f.n = n
         /\ f.client = client
BY DEF Changed, Buffers, Memory

\* next_line finds such a line if all of it is in the buffer.
LEMMA NextLineAt ==
  ASSUME Calm, NEW b, NEW p, BufAt(b, p), NEW long, LineHere(p, long), b.n >= long
  PROVE  LET l == NextLine(b)
         IN  l.found = TRUE /\ l.line = LineText(p, long) /\ BufAt(l.buf, p + long)
<1> DEFINE data == Buffered(b)
           lf == FirstLF(data)
           last == IF lf > 1 /\ data[lf - 1] = CR THEN lf - 1 ELSE lf
           l == NextLine(b)
           all == Len(request.body)
<1>1. /\ b \in Buffers /\ b.mem \in [1..BufSize + 1 -> Bytes] /\ b.begin \in Nat /\ b.n \in Nat
      /\ b.client \in Clients /\ b.client.at \in 0..all
      /\ InBounds(b.begin, b.n) /\ GoodBuffer(b) /\ p \in Nat /\ p + b.n = b.client.at
      /\ b.client.remaining = Left(b.client.at)
      /\ data \in Text /\ Len(data) = b.n
      /\ \A i \in 1..b.n : data[i] = request.body[p + i]
  BY BufAtFields
<1>2. /\ long \in Nat /\ long >= 2 /\ p + long <= all
      /\ request.body[p + long] = LF /\ request.body[p + long - 1] = CR
      /\ \A i \in 1..long - 1 : request.body[p + i] # LF
      /\ \A i \in 1..long - 2 : request.body[p + i] # NUL
  BY DEF LineHere
<1>3. all \in Nat /\ request.body \in Seq(Bytes) /\ BufSize \in Nat
  BY BodyType, BufSizeType DEF Calm
<1> DEFINE n == b.n
<1>4. long \in 1..n /\ long - 1 \in 1..n /\ p + (long - 1) = p + long - 1
  BY <1>1, <1>2
<1>5. data[long] = LF /\ data[long - 1] = CR
  BY <1>1, <1>2, <1>4
<1>6. \A i \in 1..long - 1 : data[i] # LF
  <2>1. ASSUME NEW i \in 1..long - 1 PROVE i \in 1..b.n
    BY <1>1, <1>2
  <2>2. QED
    BY <1>1, <1>2, <2>1
<1> HIDE DEF data
<1>7. lf = long
  <2>1. long \in 1..Len(data)
    BY <1>1, <1>4
  <2>2. QED
    BY <1>1, <1>5, <1>6, <2>1, FirstLFIs
<1> HIDE DEF lf
<1>8. last = long - 1
  BY <1>2, <1>5, <1>7
<1>9. l = [found |-> TRUE, line |-> CString(SubSeq(data, 1, last - 1)),
           buf |-> [b EXCEPT !.mem[b.begin + last - 1] = NUL, !.begin = @ + lf, !.n = @ - lf]]
  <2>1. lf # 0
    BY <1>2, <1>7
  <2>2. QED
    BY <2>1, Zenon DEF NextLine, BytesOfLine, data, lf, FirstLF
<1> HIDE DEF l, last
<1> DEFINE at == b.begin + long - 2
           mem == [b.mem EXCEPT ![at] = NUL]
           begin == b.begin + long
           m == n - long
           f == l.buf
           c == b.client
<1>10. b.begin + last - 1 = at
  BY <1>1, <1>2, <1>8
<1>11. l.found = TRUE /\ l.line = CString(SubSeq(data, 1, last - 1))
       /\ f = [b EXCEPT !.mem = mem, !.begin = begin, !.n = m]
  BY <1>7, <1>9, <1>10
<1>12. begin \in Nat /\ m \in Nat /\ p + long \in Nat /\ (p + long) + m = b.client.at
  <2> DEFINE first == b.begin
             to == b.client.at
  <2>1. /\ first \in Nat /\ n \in Nat /\ long \in Nat /\ n >= long /\ p \in Nat /\ p + n = to
        /\ begin = first + long /\ m = n - long
    BY <1>1, <1>2, <1>4
  <2> HIDE DEF first, to, n, m, begin
  <2>2. begin \in Nat /\ m \in Nat /\ p + long \in Nat /\ (p + long) + m = to
    BY <2>1
  <2>3. QED
    BY <2>2 DEF to
<1>13. mem \in [1..BufSize + 1 -> Bytes]
  BY <1>1, TextAssumption
<1>14. \A k \in DOMAIN b.mem : k # at => mem[k] = b.mem[k]
  BY <1>1
<1>15. n > 0 /\ b.begin >= 1 /\ b.begin + n - 1 <= BufSize
  BY <1>1, <1>2, <1>4 DEF InBounds
<1>16. f \in Buffers /\ f.mem = mem /\ f.begin = begin /\ f.n = m /\ f.client = c
  <2>1. c \in Clients /\ b \in Buffers
    BY <1>1
  <2>2. f = Changed(b, mem, begin, m, c)
    <3> HIDE DEF mem, begin, m, f, at
    <3>1. QED
      BY <1>1, <1>11 DEF Changed, Buffers
  <2> HIDE DEF mem, begin, m, f, c, n, at
  <2>3. begin \in Nat /\ m \in Nat
    BY <1>12
  <2>4. mem \in Memory
    BY <1>13, Zenon DEF Memory
  <2>5. QED
    BY <2>1, <2>2, <2>3, <2>4, ChangedIn
<1> HIDE DEF mem, f, c
<1> DEFINE first == b.begin
<1>17. /\ first \in Nat /\ n \in Nat /\ long \in 1..n /\ long >= 2 /\ long \in Nat
       /\ first >= 1 /\ first + n - 1 <= BufSize /\ BufSize \in Nat /\ p \in Nat
       /\ begin = first + long /\ m = n - long /\ at = first + long - 2
  BY <1>1, <1>2, <1>3, <1>4, <1>15
<1> HIDE DEF first, n, m, begin, at
<1>18. InBounds(f.begin, f.n)
  BY <1>16, <1>17 DEF InBounds
<1>19. ASSUME NEW i \in 1..m PROVE ByteAt(f, f.begin + i - 1) = request.body[(p + long) + i]
  <2> DEFINE k == begin + i - 1
             j == long + i
  <2>0. /\ k \in 1..BufSize + 1 /\ k # at /\ j \in 1..n /\ first + j - 1 = k
        /\ p + j = (p + long) + i
    BY <1>17
  <2>1. /\ k \in 1..BufSize + 1 /\ k # at /\ j \in 1..b.n /\ b.begin + j - 1 = k
        /\ p + j = (p + long) + i
    BY <2>0 DEF first, n
  <2>2. f.begin + i - 1 = k
    BY <1>16
  <2> HIDE DEF k, begin, m, at
  <2>3. ByteAt(f, k) = mem[k] /\ ByteAt(b, k) = b.mem[k]
    BY <1>1, <1>16, <2>1, ByteInMemory
  <2>4. mem[k] = b.mem[k]
    BY <1>1, <1>14, <2>1
  <2>5. ByteAt(b, b.begin + j - 1) = request.body[p + j]
    BY <2>1 DEF BufAt
  <2>6. QED
    BY <2>1, <2>2, <2>3, <2>4, <2>5
<1>20. BufAt(f, p + long)
  <2>1. GoodBuffer(f)
    BY <1>16, <1>18 DEF GoodBuffer
  <2>2. (p + long) + f.n = f.client.at /\ f.client.remaining = Left(f.client.at)
    BY <1>1, <1>12, <1>16 DEF c
  <2>3. \A i \in 1..f.n : ByteAt(f, f.begin + i - 1) = request.body[(p + long) + i]
    BY <1>16, <1>19
  <2>4. QED
    BY <1>12, <2>1, <2>2, <2>3 DEF BufAt
<1>21. l.line = LineText(p, long)
  <2> DEFINE x == last - 1
             q == p + 1
             r == p + long - 2
             s == SubSeq(data, 1, x)
             t == SubSeq(request.body, q, r)
  <2>1. x = long - 2 /\ 1 \in Nat \ {0} /\ q \in Nat \ {0} /\ r = p + x /\ x \in Nat
    BY <1>1, <1>2, <1>8
  <2>2. x \in 0..Len(data) /\ r \in 0..Len(request.body)
    BY <1>1, <1>2, <1>3, <1>4, <2>1
  <2>3. data \in Seq(Bytes)
    BY <1>1 DEF Text
  <2> HIDE DEF x, q, r
  <2>4. /\ s \in Seq(Bytes) /\ Len(s) = (IF 1 <= x THEN x - 1 + 1 ELSE 0)
        /\ \A i \in 1..Len(s) : s[i] = data[1 + i - 1]
    BY <2>1, <2>2, <2>3, SubSeqFacts
  <2>5. /\ t \in Seq(Bytes) /\ Len(t) = (IF q <= r THEN r - q + 1 ELSE 0)
        /\ \A i \in 1..Len(t) : t[i] = request.body[q + i - 1]
    BY <1>3, <2>1, <2>2, SubSeqFacts
  <2> HIDE DEF s, t
  <2>6. Len(s) = x /\ Len(t) = x
    BY <1>1, <2>1, <2>4, <2>5 DEF q
  <2>7. ASSUME NEW i \in 1..Len(s) PROVE s[i] = t[i]
    <3>0. /\ i \in 1..x /\ x = long - 2 /\ long \in 1..n /\ q = p + 1 /\ p \in Nat
          /\ Len(t) = x /\ n \in Nat /\ long \in Nat
      BY <1>17, <2>1, <2>6 DEF q
    <3>1. i \in 1..n /\ 1 + i - 1 = i /\ q + i - 1 = p + i /\ i \in 1..Len(t)
      BY <3>0
    <3>2. QED
      BY <1>1, <2>4, <2>5, <3>1 DEF n
  <2>8. s = t
    BY <2>4, <2>5, <2>6, <2>7, SameSeq
  <2>9. CString(s) = s
    <3>1. ASSUME NEW i \in 1..Len(s) PROVE s[i] \notin {NUL}
      <4>1. /\ i \in 1..x /\ x = long - 2 /\ long \in Nat /\ q = p + 1 /\ p \in Nat
            /\ i \in 1..Len(t)
        BY <1>2, <1>17, <2>1, <2>6, <3>1 DEF q
      <4>2. i \in 1..long - 2 /\ q + i - 1 = p + i
        BY <4>1
      <4>3. s[i] = request.body[p + i]
        BY <2>5, <2>8, <4>1, <4>2
      <4>4. QED
        BY <1>2, <4>2, <4>3
    <3>2. s \in Text /\ Free(s, {NUL})
      BY <2>4, <3>1 DEF Text, Free
    <3>3. QED
      BY <3>2, CStringFree
  <2>10. QED
    BY <1>11, <2>8, <2>9 DEF s, t, q, r, LineText, x
<1>22. QED
  BY <1>11, <1>20, <1>21 DEF l, f

\* It finds none if the buffer has less, as long as it is not full.
LEMMA NoLineAt ==
  ASSUME Calm, NEW b, NEW p, BufAt(b, p), b.n < BufSize,
         \A i \in 1..b.n : request.body[p + i] # LF
  PROVE  NextLine(b) = NoLine(b)
<1> DEFINE data == Buffered(b)
           lf == FirstLF(data)
<1>1. /\ data \in Text /\ Len(data) = b.n
      /\ \A i \in 1..b.n : data[i] = request.body[p + i]
  BY BufAtFields
<1> HIDE DEF data
<1>2. \A i \in 1..Len(data) : data[i] # LF
  BY <1>1
<1>3. lf = 0
  BY <1>1, <1>2, NoLF
<1> HIDE DEF lf
<1>4. ~ (lf # 0)
  BY <1>3
<1>5. QED
  BY <1>4, Zenon DEF NextLine, data, lf, FirstLF

\* get_line finds such a line, when what arrives does not end in it.
LEMMA GetLineAt ==
  ASSUME Calm, NEW b, NEW p, BufAt(b, p), NEW long, LineHere(p, long), long <= BufSize,
         p + long <= Len(request.body) - Len(Delimiter),
         \A e \in request.ends : ~ (p < e /\ e < p + long)
  PROVE  LET l == GetLine(b)
         IN  l.found = TRUE /\ l.line = LineText(p, long) /\ BufAt(l.buf, p + long)
<1> DEFINE l == NextLine(b)
           f == FillBuffer(b)
           m == NextLine(f)
<1>1. GetLine(b) = IF l.found THEN l ELSE m
  BY Zenon DEF GetLine
<1>2. b.n \in Nat /\ p \in Nat /\ p + b.n = b.client.at /\ long \in Nat
  BY BufAtFields DEF LineHere
<1>3. CASE b.n >= long
  <2>1. l.found = TRUE /\ l.line = LineText(p, long) /\ BufAt(l.buf, p + long)
    BY <1>3, NextLineAt
  <2> HIDE DEF l, m
  <2>2. GetLine(b) = l
    BY <1>1, <2>1
  <2>3. QED
    BY <2>1, <2>2
<1>4. CASE ~ (b.n >= long)
  <2>1. b.n < BufSize
    BY <1>2, <1>4, BufSizeType
  <2>2. \A i \in 1..b.n : request.body[p + i] # LF
    <3>1. ASSUME NEW i \in 1..b.n PROVE i \in 1..long - 1
      BY <1>2, <1>4
    <3>2. QED
      BY <3>1 DEF LineHere
  <2>3. l = NoLine(b)
    BY <2>1, <2>2, NoLineAt
  <2>4. ~ l.found
    BY <2>3 DEF NoLine
  <2>5. BufAt(f, p) /\ f.client.at >= b.client.at /\ Cut(b, f)
    BY FillAt
  <2> HIDE DEF f, l
  <2>6. f.n \in Nat /\ p + f.n = f.client.at /\ f.client.at \in Int
    BY <1>2, <2>5, BufAtFields
  <2>7. f.n >= long
    <3>1. CASE f.n = BufSize
      BY <3>1
    <3>2. CASE f.client.at \in request.ends /\ f.client.at > b.client.at
      BY <1>2, <2>6, <3>2
    <3>3. CASE f.client.at >= Len(request.body) - Len(Delimiter)
      <4>1. Len(request.body) \in Nat /\ Len(Delimiter) \in Nat
        BY BodyType, DelimiterType DEF Calm
      <4>2. QED
        BY <1>2, <2>6, <3>3, <4>1
    <3>4. QED
      BY <2>5, <3>1, <3>2, <3>3 DEF Cut
  <2>8. m.found = TRUE /\ m.line = LineText(p, long) /\ BufAt(m.buf, p + long)
    BY <2>5, <2>7, NextLineAt
  <2> HIDE DEF m
  <2>9. GetLine(b) = m
    BY <1>1, <2>4
  <2>10. QED
    BY <2>8, <2>9
<1>5. QED
  BY <1>3, <1>4

\* At the end of the body there is no line.
LEMMA GetLineAtEnd ==
  ASSUME Calm, NEW b, BufAt(b, Len(request.body))
  PROVE  GetLine(b).found = FALSE
<1> DEFINE all == Len(request.body)
           f == FillBuffer(b)
           l == NextLine(f)
<1>1. all \in Nat /\ BufSize \in Nat \ {0}
  BY BodyType, BufSizeType DEF Calm
<1>2. BufAt(f, all)
  BY FillAt
<1>3. ASSUME NEW g, BufAt(g, all) PROVE NextLine(g).found = FALSE
  <2>1. g.n \in Nat /\ all + g.n = g.client.at /\ g.client.at \in 0..all
    BY <1>3, BufAtFields
  <2>2. g.n = 0
    BY <1>1, <2>1
  <2>3. g.n < BufSize /\ \A i \in 1..g.n : request.body[all + i] # LF
    BY <1>1, <2>2
  <2> HIDE DEF all
  <2>4. NextLine(g) = NoLine(g)
    BY <1>3, <2>3, NoLineAt
  <2>5. QED
    BY <2>4 DEF NoLine
<1>4. NextLine(b).found = FALSE
  BY <1>3
<1>5. l.found = FALSE
  BY <1>2, <1>3
<1>6. GetLine(b) = l
  BY <1>4, Zenon DEF GetLine
<1>7. QED
  BY <1>5, <1>6

-----------------------------------------------------------------------------
(* Multipart bodies.                                                       *)

\* The body has a text after so many bytes.
CRLF == <<CR, LF>>
Holds(at, text) ==
  /\ at + Len(text) <= Len(request.body)
  /\ \A i \in 1..Len(text) : request.body[at + i] = text[i]

\* The layout l of a body tells where its parts begin, starts, and which bytes
\* stand for the header lines of each, lines.
Amount == Len(request.parts)
Content(i) == request.parts[i].content
HeadersAt(l, i) == l.starts[i] + Len(Delimiter) + 2
LineAt(l, i, k) == HeadersAt(l, i) + 3 * (k - 1)
ContentAt(l, i) == LineAt(l, i, Len(l.lines[i]) + 1) + 2
EndAt(l, i) == ContentAt(l, i) + Len(Content(i))
HeadersRead(l, i) == [k \in 1..Len(l.lines[i]) |-> <<l.lines[i][k]>>]

\* Part i: a delimiter, header lines, one of them with Content-Disposition,
\* and the content, in which the next delimiter does not occur, and which has
\* no NUL if it is the value of a field.
PartAt(l, i) ==
  /\ l.starts[i] \in Nat
  /\ Holds(l.starts[i], Delimiter \o CRLF)
  /\ l.lines[i] \in Seq(HeaderBytes)
  /\ \A k \in 1..Len(l.lines[i]) : Holds(LineAt(l, i, k), <<l.lines[i][k]>> \o CRLF)
  /\ Holds(ContentAt(l, i) - 2, CRLF)
  /\ Holds(ContentAt(l, i), Content(i))
  /\ Holds(EndAt(l, i), CRLF)
  /\ l.starts[i + 1] = EndAt(l, i) + 2
  /\ \A o \in ContentAt(l, i) - 1..EndAt(l, i) : ~ Holds(o, NextDelimiter)
  /\ \A j \in 1..Len(Content(i)) : Content(i)[j] \notin HeaderBytes
  /\ request.parts[i].filename = NoText => Free(Content(i), {NUL})
  /\ DispositionOf(HeadersRead(l, i)) # Unknown
  /\ DispositionOf(HeadersRead(l, i)) =
       [param |-> request.parts[i].param, filename |-> request.parts[i].filename]
Sent(l) ==
  /\ l.starts[1] = 0
  /\ \A i \in 1..Amount : PartAt(l, i)
  /\ Holds(l.starts[Amount + 1], (Delimiter \o <<"-", "-">>) \o CRLF)
  /\ Len(request.body) = l.starts[Amount + 1] + Len(Delimiter) + 4

\* What is asked of the boundary, the header lines and the parts.
Parts == [param : Text, filename : Text \cup {NoText}, content : Text]
Ordinary ==
  /\ Len(Boundary) + 6 <= FILLUNIT
  /\ \A i \in 1..Len(Boundary) : Boundary[i] \notin {CR, LF}
  /\ HeaderBytes \subseteq Bytes \ {CR, LF}
  /\ request.parts \in Seq(Parts)
Whole(l) ==
  /\ Calm /\ Ordinary /\ Sent(l)
  /\ \A e \in request.ends : Harmless(request.body, e)

\* A line that the body has.
LEMMA TextLine ==
  ASSUME NEW p \in Nat, NEW text \in Text, Holds(p, text \o CRLF),
         \A i \in 1..Len(text) : text[i] # LF /\ text[i] # NUL, Calm
  PROVE  /\ LineHere(p, Len(text) + 2) /\ LineText(p, Len(text) + 2) = text
         /\ \A i \in 1..Len(text) : request.body[p + i] = text[i]
         /\ request.body[p + Len(text) + 1] = CR /\ request.body[p + Len(text) + 2] = LF
<1> DEFINE n == Len(text)
           line == text \o CRLF
           body == request.body
<1>1. CRLF \in Seq(Bytes) /\ Len(CRLF) = 2 /\ CRLF[1] = CR /\ CRLF[2] = LF /\ CR # LF
  BY BufferAssumption DEF CRLF, CR, LF
<1>2. text \in Seq(Bytes) /\ n \in Nat
  BY DEF Text
<1>3. /\ Len(line) = n + 2
      /\ \A i \in 1..n : line[i] = text[i]
      /\ \A i \in 1..2 : line[n + i] = CRLF[i]
  <2>1. /\ Len(text \o CRLF) = Len(text) + Len(CRLF)
        /\ \A i \in 1..Len(text) : (text \o CRLF)[i] = text[i]
        /\ \A i \in 1..Len(CRLF) : (text \o CRLF)[Len(text) + i] = CRLF[i]
    <3> HIDE DEF line, n, body
    <3>1. text \in Seq(Bytes) /\ CRLF \in Seq(Bytes)
      BY <1>1, <1>2
    <3>2. QED
      BY <3>1, ConcatFacts
  <2>2. QED
    BY <1>1, <2>1
<1>4. p + Len(line) <= Len(body) /\ \A i \in 1..Len(line) : body[p + i] = line[i]
  BY DEF Holds
<1>5. body \in Seq(Bytes) /\ Len(body) \in Nat
  BY BodyType DEF Calm
<1> HIDE DEF line
<1>6. \A i \in 1..n : body[p + i] = text[i]
  <2>1. ASSUME NEW i \in 1..n PROVE i \in 1..Len(line)
    BY <1>2, <1>3
  <2>2. QED
    BY <1>3, <1>4, <2>1
<1>7. body[p + n + 1] = CR /\ body[p + n + 2] = LF
  <2>1. n + 1 \in 1..Len(line) /\ n + 2 \in 1..Len(line) /\ 1 \in 1..2 /\ 2 \in 1..2
        /\ p + (n + 1) = p + n + 1 /\ p + (n + 2) = p + n + 2
    BY <1>2, <1>3
  <2>2. body[p + (n + 1)] = line[n + 1] /\ body[p + (n + 2)] = line[n + 2]
    BY <1>4, <2>1
  <2>3. line[n + 1] = CR /\ line[n + 2] = LF
    BY <1>1, <1>3, <2>1
  <2>4. QED
    BY <2>1, <2>2, <2>3
<1> HIDE DEF n, body
<1>8. LineHere(p, n + 2)
  <2>1. /\ p + (n + 2) = p + n + 2 /\ p + (n + 2) - 1 = p + n + 1 /\ n + 2 \in Nat /\ n + 2 >= 2
        /\ p + (n + 2) <= Len(body)
    BY <1>2, <1>3, <1>4
  <2>2. ASSUME NEW i \in 1..(n + 2) - 1 PROVE body[p + i] # LF
    <3>1. CASE i \in 1..n
      BY <1>6, <3>1 DEF n
    <3>2. CASE i \notin 1..n
      <4>1. i = n + 1
        BY <1>2, <3>2
      <4>2. p + i = p + n + 1
        BY <1>2, <4>1
      <4>3. QED
        BY <1>1, <1>7, <4>2
    <3>3. QED
      BY <3>1, <3>2
  <2>3. ASSUME NEW i \in 1..(n + 2) - 2 PROVE body[p + i] # NUL
    <3>1. i \in 1..n
      BY <1>2
    <3>2. QED
      BY <1>6, <3>1 DEF n
  <2>4. QED
    BY <1>7, <2>1, <2>2, <2>3 DEF LineHere, body
<1>9. LineText(p, n + 2) = text
  <2> DEFINE m == p + 1
             e == p + n
             s == SubSeq(body, m, e)
  <2>1. m \in Nat \ {0} /\ e \in 0..Len(body)
    BY <1>2, <1>3, <1>4, <1>5
  <2>2. /\ s \in Seq(Bytes) /\ Len(s) = (IF m <= e THEN e - m + 1 ELSE 0)
        /\ \A i \in 1..Len(s) : s[i] = body[m + i - 1]
    <3> HIDE DEF m, e
    <3>1. QED
      BY <1>5, <2>1, SubSeqFacts
  <2>3. p + (n + 2) - 2 = e
    BY <1>2
  <2>4. LineText(p, n + 2) = s
    <3>1. LineText(p, n + 2) = SubSeq(body, p + 1, p + (n + 2) - 2)
      BY Zenon DEF LineText, body
    <3> HIDE DEF e, s
    <3>2. SubSeq(body, p + 1, p + (n + 2) - 2) = SubSeq(body, m, e)
      BY <2>3
    <3>3. QED
      BY <3>1, <3>2, Zenon DEF s
  <2>5. Len(s) = n
    <3> HIDE DEF s
    <3>1. QED
      BY <1>2, <2>2
  <2> HIDE DEF s
  <2>6. ASSUME NEW i \in 1..Len(s) PROVE s[i] = text[i]
    <3>1. m + i - 1 = p + i /\ i \in 1..n
      BY <1>2, <2>5
    <3>2. QED
      BY <1>6, <2>2, <3>1
  <2>7. s = text
    BY <1>2, <2>2, <2>5, <2>6, SameSeq DEF n
  <2>8. QED
    BY <2>4, <2>7
<1>10. QED
  BY <1>6, <1>7, <1>8, <1>9 DEF n, body

\* What is known of such a body.
LEMMA WholeFacts ==
  ASSUME NEW l, Whole(l)
  PROVE  /\ Calm /\ RequestTypeOK /\ Ordinary /\ Sent(l)
         /\ request.body \in Seq(Bytes) /\ Len(request.body) \in Nat
         /\ Amount \in Nat /\ request.parts \in Seq(Parts)
         /\ BufSize = FILLUNIT /\ FILLUNIT >= Len(Delimiter) + 4 /\ FILLUNIT \in Nat
         /\ l.starts[1] = 0
         /\ \A i \in 1..Amount : PartAt(l, i) /\ Content(i) \in Text /\ request.parts[i] \in Parts
         /\ \A i \in 1..Len(Delimiter) :
              Delimiter[i] # LF /\ Delimiter[i] # CR /\ Delimiter[i] # NUL
<1>1. /\ Calm /\ RequestTypeOK /\ Ordinary /\ Sent(l) /\ Len(Boundary) + 6 <= FILLUNIT
      /\ request.parts \in Seq(Parts)
      /\ l.starts[1] = 0 /\ \A i \in 1..Amount : PartAt(l, i)
      /\ \A i \in 1..Len(Boundary) : Boundary[i] \notin {CR, LF}
  BY DEF Whole, Calm, Sent, Ordinary
<1>2. request.body \in Seq(Bytes) /\ Len(request.body) \in Nat /\ Amount \in Nat
  BY <1>1, BodyType DEF Amount
<1>3. /\ Len(Delimiter) = Len(Boundary) + 2 /\ Len(Delimiter) \in Nat
      /\ Delimiter[1] = "-" /\ Delimiter[2] = "-"
      /\ \A i \in 1..Len(Boundary) : Delimiter[i + 2] = Boundary[i]
  BY DelimiterType
<1>4. BufSize = FILLUNIT /\ FILLUNIT >= Len(Delimiter) + 4 /\ FILLUNIT \in Nat
  <2> DEFINE m == Len(Boundary) + 6
             T == {m, FILLUNIT}
             N == FILLUNIT
  <2>1. m \in Nat /\ N \in Nat /\ m <= N
    BY <1>1, <1>3, BufferAssumption DEF Text
  <2>2. BufSize = Max(T)
    BY Zenon DEF BufSize, m
  <2> HIDE DEF m, N
  <2>3. T = {m, N} /\ T \in SUBSET (0..N) /\ T # {}
    BY <2>1 DEF N
  <2> HIDE DEF T
  <2>4. Max(T) \in T /\ \A y \in T : Max(T) >= y
    BY <2>1, <2>3, MaxNumber
  <2>5. Max(T) = N
    BY <2>1, <2>3, <2>4
  <2>6. m = Len(Delimiter) + 4
    BY <1>3 DEF m
  <2>7. QED
    BY <2>1, <2>2, <2>5, <2>6 DEF N
<1>5. ASSUME NEW i \in 1..Amount PROVE Content(i) \in Text /\ request.parts[i] \in Parts
  <2>1. request.parts[i] \in Parts
    BY <1>1 DEF Amount
  <2>2. QED
    BY <2>1 DEF Parts, Content
<1>6. ASSUME NEW i \in 1..Len(Delimiter)
      PROVE  Delimiter[i] # LF /\ Delimiter[i] # CR /\ Delimiter[i] # NUL
  <2>1. CASE i <= 2
    <3>1. i = 1 \/ i = 2
      BY <2>1
    <3>2. "-" # LF /\ "-" # CR /\ "-" # NUL
      BY DEF LF, CR, NUL
    <3>3. QED
      BY <1>3, <3>1, <3>2
  <2>2. CASE ~ (i <= 2)
    <3> DEFINE j == i - 2
    <3>1. j \in 1..Len(Boundary) /\ j + 2 = i
      BY <1>3, <2>2
    <3> HIDE DEF j
    <3>2. Boundary[j] # LF /\ Boundary[j] # CR /\ Boundary[j] # NUL
      BY <1>1, <3>1, BufferAssumption
    <3>3. QED
      BY <1>3, <3>1, <3>2
  <2>3. QED
    BY <2>1, <2>2
<1>7. QED
  BY <1>1, <1>2, <1>4, <1>5, <1>6

\* The places of a part.
LEMMA PartNumbers ==
  ASSUME NEW l, Whole(l), NEW i \in 1..Amount
  PROVE  /\ l.starts[i] \in Nat /\ Len(l.lines[i]) \in Nat
         /\ HeadersAt(l, i) = l.starts[i] + Len(Delimiter) + 2
         /\ ContentAt(l, i) = HeadersAt(l, i) + 3 * Len(l.lines[i]) + 2
         /\ EndAt(l, i) = ContentAt(l, i) + Len(Content(i))
         /\ HeadersAt(l, i) \in Nat /\ ContentAt(l, i) \in Nat /\ EndAt(l, i) \in Nat
         /\ EndAt(l, i) >= ContentAt(l, i) /\ ContentAt(l, i) >= l.starts[i] + Len(Delimiter) + 4
         /\ l.starts[i + 1] = EndAt(l, i) + 2 /\ l.starts[i + 1] \in Nat
         /\ EndAt(l, i) + 2 <= Len(request.body)
         /\ Len(Content(i)) \in Nat /\ Content(i) \in Text /\ Len(Delimiter) \in Nat
         /\ Len(request.body) \in Nat
<1> DEFINE nl == Len(l.lines[i])
           cl == Len(Content(i))
           dl == Len(Delimiter)
           s == l.starts[i]
<1>1. PartAt(l, i) /\ Content(i) \in Text /\ Len(request.body) \in Nat
  BY WholeFacts
<1>2. s \in Nat /\ nl \in Nat /\ l.starts[i + 1] = EndAt(l, i) + 2 /\ Holds(EndAt(l, i), CRLF)
  BY <1>1 DEF PartAt
<1>3. cl \in Nat /\ dl \in Nat
  BY <1>1, DelimiterType DEF Text
<1>4. EndAt(l, i) + 2 <= Len(request.body)
  <2>1. Len(CRLF) = 2
    BY DEF CRLF
  <2>2. QED
    BY <1>2, <2>1 DEF Holds
<1>5. /\ HeadersAt(l, i) = s + dl + 2
      /\ ContentAt(l, i) = HeadersAt(l, i) + 3 * ((nl + 1) - 1) + 2
      /\ EndAt(l, i) = ContentAt(l, i) + cl
  BY DEF HeadersAt, ContentAt, EndAt, LineAt
<1> HIDE DEF nl, cl, dl, s
<1> DEFINE h == HeadersAt(l, i)
           c == ContentAt(l, i)
           e == EndAt(l, i)
<1>6. h = s + dl + 2 /\ c = h + 3 * ((nl + 1) - 1) + 2 /\ e = c + cl
  BY <1>5
<1> HIDE DEF h, c, e
<1>7. /\ c = h + 3 * nl + 2 /\ h \in Nat /\ c \in Nat /\ e \in Nat /\ e >= c /\ c >= s + dl + 4
      /\ e + 2 \in Nat
  BY <1>2, <1>3, <1>6
<1>8. QED
  BY <1>1, <1>2, <1>3, <1>4, <1>6, <1>7 DEF nl, cl, dl, s, h, c, e

\* Every part begins with a delimiter, after a LF or at the beginning, and one
\* follows the last.
LEMMA DelimiterAt ==
  ASSUME NEW l, Whole(l), NEW i \in 1..Amount + 1
  PROVE  /\ l.starts[i] \in Nat /\ l.starts[i] + Len(Delimiter) + 4 <= Len(request.body)
         /\ Holds(l.starts[i], Delimiter)
         /\ l.starts[i] = 0 \/ request.body[l.starts[i]] = LF
<1> DEFINE s == l.starts[i]
           dl == Len(Delimiter)
           all == Len(request.body)
           body == request.body
<1>1. /\ Calm /\ Sent(l) /\ Amount \in Nat /\ all \in Nat /\ Len(Delimiter) \in Nat /\ Delimiter \in Text
      /\ \A j \in 1..Len(Delimiter) : Delimiter[j] # LF /\ Delimiter[j] # NUL
  BY WholeFacts, DelimiterType
<1>2. s \in Nat /\ (s = 0 \/ body[s] = LF)
  <2>1. CASE i = 1
    BY <2>1, WholeFacts
  <2>2. CASE i # 1
    <3> DEFINE j == i - 1
    <3>1. j \in 1..Amount /\ j + 1 = i
      BY <1>1, <2>2
    <3> HIDE DEF j
    <3>2. PartAt(l, j) /\ EndAt(l, j) \in Nat /\ l.starts[j + 1] = EndAt(l, j) + 2
      BY <3>1, WholeFacts, PartNumbers
    <3>3. Holds(EndAt(l, j), CRLF)
      BY <3>2 DEF PartAt
    <3>4. body[EndAt(l, j) + 2] = LF
      <4>1. Len(CRLF) = 2 /\ CRLF[2] = LF /\ 2 \in 1..2
        BY DEF CRLF
      <4>2. QED
        BY <3>3, <4>1 DEF Holds
    <3>5. QED
      BY <3>1, <3>2, <3>4
  <2>3. QED
    BY <2>1, <2>2
<1> HIDE DEF s
<1>3. s + dl + 4 <= all /\ Holds(s, Delimiter)
  <2>1. CASE i \in 1..Amount
    <3>1. PartAt(l, i) /\ EndAt(l, i) + 2 <= all /\ EndAt(l, i) >= ContentAt(l, i)
          /\ ContentAt(l, i) >= s + dl + 4 /\ EndAt(l, i) \in Nat /\ ContentAt(l, i) \in Nat
      BY <2>1, WholeFacts, PartNumbers DEF s
    <3>2. s + dl + 4 <= all
      BY <1>1, <1>2, <3>1
    <3>3. Holds(s, Delimiter \o CRLF)
      BY <3>1 DEF PartAt, s
    <3>4. \A j \in 1..dl : body[s + j] = Delimiter[j]
      BY <1>1, <1>2, <3>3, TextLine
    <3>5. QED
      BY <1>1, <1>2, <3>2, <3>4 DEF Holds
  <2>2. CASE i = Amount + 1
    <3> DEFINE two == <<"-", "-">>
               closing == Delimiter \o two
    <3>1. Holds(s, closing \o CRLF) /\ all = s + dl + 4
      BY <1>1, <2>2 DEF Sent, s
    <3>2. /\ two \in Seq(Bytes) /\ Len(two) = 2 /\ Delimiter \in Seq(Bytes)
          /\ \A j \in 1..2 : two[j] # LF /\ two[j] # NUL
      BY <1>1, BufferAssumption DEF Text, LF, NUL
    <3> HIDE DEF two
    <3>3. /\ closing \in Seq(Bytes) /\ Len(closing) = dl + 2
          /\ \A j \in 1..Len(Delimiter) : closing[j] = Delimiter[j]
          /\ \A j \in 1..Len(two) : closing[Len(Delimiter) + j] = two[j]
      <4>1. Delimiter \in Seq(Bytes) /\ two \in Seq(Bytes)
        BY <3>2
      <4>2. /\ Delimiter \o two \in Seq(Bytes) /\ Len(Delimiter \o two) = Len(Delimiter) + Len(two)
            /\ \A j \in 1..Len(Delimiter) : (Delimiter \o two)[j] = Delimiter[j]
            /\ \A j \in 1..Len(two) : (Delimiter \o two)[Len(Delimiter) + j] = two[j]
        BY <4>1, ConcatFacts
      <4>3. QED
        BY <3>2, <4>2
    <3> HIDE DEF closing
    <3>4. \A j \in 1..Len(closing) : closing[j] # LF /\ closing[j] # NUL
      <4>1. ASSUME NEW j \in 1..Len(closing) PROVE closing[j] # LF /\ closing[j] # NUL
        <5>1. CASE j \in 1..dl
          BY <1>1, <3>3, <5>1
        <5>2. CASE j \notin 1..dl
          <6> DEFINE m == j - dl
          <6>1. m \in 1..2 /\ dl + m = j
            BY <1>1, <3>3, <5>2
          <6> HIDE DEF m
          <6>2. closing[dl + m] = two[m]
            BY <3>2, <3>3, <6>1
          <6>3. QED
            BY <3>2, <6>1, <6>2
        <5>3. QED
          BY <5>1, <5>2
      <4>2. QED
        BY <4>1
    <3>5. \A j \in 1..Len(closing) : body[s + j] = closing[j]
      BY <1>1, <1>2, <3>1, <3>3, <3>4, TextLine DEF Text
    <3>6. \A j \in 1..dl : body[s + j] = Delimiter[j]
      <4>1. ASSUME NEW j \in 1..dl PROVE j \in 1..Len(closing)
        BY <1>1, <3>3
      <4>2. QED
        BY <3>3, <3>5, <4>1
    <3>7. QED
      BY <1>1, <1>2, <3>1, <3>6 DEF Holds
  <2>3. QED
    BY <1>1, <2>1, <2>2
<1>4. QED
  BY <1>2, <1>3 DEF s

\* What a part has where.
LEMMA PartBytes ==
  ASSUME NEW l, Whole(l), NEW i \in 1..Amount,
         NEW s, s = l.starts[i], NEW c, c = ContentAt(l, i), NEW e, e = EndAt(l, i),
         NEW dl, dl = Len(Delimiter)
  PROVE  /\ LineHere(s, dl + 2) /\ LineText(s, dl + 2) = Delimiter
         /\ request.body[s + dl + 1] = CR /\ request.body[s + dl + 2] = LF
         /\ LineHere(c - 2, 2) /\ LineText(c - 2, 2) = <<>>
         /\ request.body[c - 1] = CR /\ request.body[c] = LF
         /\ LineHere(e, 2) /\ LineText(e, 2) = <<>>
         /\ request.body[e + 1] = CR /\ request.body[e + 2] = LF
         /\ Holds(s, Delimiter) /\ Holds(e + 2, Delimiter)
         /\ \A j \in 1..Len(Content(i)) : request.body[c + j] = Content(i)[j]
<1> DEFINE body == request.body
<1>1. /\ Calm /\ PartAt(l, i) /\ Amount \in Nat /\ Delimiter \in Text /\ dl \in Nat
      /\ \A j \in 1..Len(Delimiter) : Delimiter[j] # LF /\ Delimiter[j] # NUL
  BY WholeFacts, DelimiterType
<1>2. /\ s \in Nat /\ c \in Nat /\ e \in Nat /\ c >= s + dl + 4 /\ e >= c
      /\ l.starts[i + 1] = e + 2
  BY PartNumbers
<1>3. /\ Holds(s, Delimiter \o CRLF) /\ Holds(c - 2, CRLF) /\ Holds(c, Content(i)) /\ Holds(e, CRLF)
  BY <1>1 DEF PartAt
<1>4. /\ LineHere(s, dl + 2) /\ LineText(s, dl + 2) = Delimiter
      /\ body[s + dl + 1] = CR /\ body[s + dl + 2] = LF
      /\ \A j \in 1..dl : body[s + j] = Delimiter[j]
  BY <1>1, <1>2, <1>3, TextLine
<1>5. ASSUME NEW p \in Nat, Holds(p, CRLF)
      PROVE  LineHere(p, 2) /\ LineText(p, 2) = <<>> /\ body[p + 1] = CR /\ body[p + 2] = LF
  <2> DEFINE none == <<>>
  <2>1. none \in Text /\ Len(none) = 0 /\ none \o CRLF = CRLF
    BY DEF Text, CRLF
  <2> HIDE DEF none
  <2>2. Holds(p, none \o CRLF) /\ \A j \in 1..Len(none) : none[j] # LF /\ none[j] # NUL
    BY <1>5, <2>1
  <2>3. /\ LineHere(p, Len(none) + 2) /\ LineText(p, Len(none) + 2) = none
        /\ body[p + Len(none) + 1] = CR /\ body[p + Len(none) + 2] = LF
    BY <1>1, <2>1, <2>2, TextLine
  <2>4. Len(none) + 2 = 2 /\ p + Len(none) + 1 = p + 1 /\ p + Len(none) + 2 = p + 2
    BY <2>1
  <2>5. QED
    BY <2>3, <2>4 DEF none
<1> DEFINE d == c - 2
<1>6. d \in Nat /\ d + 1 = c - 1 /\ d + 2 = c /\ Holds(d, CRLF)
  <2>1. Holds(d, CRLF)
    BY <1>3
  <2>2. c \in Nat /\ c >= 2
    <3>1. \A x, y, z \in Nat : z >= x + y + 4 => z >= 2
      OBVIOUS
    <3>2. s \in Nat /\ dl \in Nat /\ c \in Nat /\ c >= s + dl + 4
      BY <1>1, <1>2, Zenon
    <3>3. QED
      BY <3>1, <3>2, Zenon
  <2>3. \A x \in Nat : x >= 2 => x - 2 \in Nat /\ (x - 2) + 1 = x - 1 /\ (x - 2) + 2 = x
    OBVIOUS
  <2>4. QED
    BY <2>1, <2>2, <2>3, Zenon DEF d
<1> HIDE DEF d
<1>7. LineHere(d, 2) /\ LineText(d, 2) = <<>> /\ body[c - 1] = CR /\ body[c] = LF
  BY <1>5, <1>6
<1>8. LineHere(e, 2) /\ LineText(e, 2) = <<>> /\ body[e + 1] = CR /\ body[e + 2] = LF
  BY <1>2, <1>3, <1>5
<1>9. Holds(s, Delimiter) /\ Holds(e + 2, Delimiter)
  <2> DEFINE k == i + 1
  <2>1. i \in 1..Amount + 1 /\ k \in 1..Amount + 1 /\ l.starts[k] = e + 2
    BY <1>1, <1>2
  <2> HIDE DEF k
  <2>2. Holds(l.starts[i], Delimiter) /\ Holds(l.starts[k], Delimiter)
    BY <2>1, DelimiterAt
  <2>3. QED
    BY <2>1, <2>2
<1>10. \A j \in 1..Len(Content(i)) : body[c + j] = Content(i)[j]
  BY <1>3 DEF Holds
<1>11. QED
  BY <1>4, <1>7, <1>8, <1>9, <1>10 DEF d

\* Header line k of a part.
LEMMA HeaderBytesAt ==
  ASSUME NEW l, Whole(l), NEW i \in 1..Amount, NEW k \in 1..Len(l.lines[i]),
         NEW p, p = LineAt(l, i, k)
  PROVE  /\ p \in Nat /\ p + 3 = LineAt(l, i, k + 1) /\ p + 3 <= ContentAt(l, i) - 2
         /\ LineHere(p, 3) /\ LineText(p, 3) = <<l.lines[i][k]>>
         /\ request.body[p + 1] \in HeaderBytes /\ request.body[p + 2] = CR
         /\ request.body[p + 3] = LF
<1>1. /\ Calm /\ PartAt(l, i) /\ Amount \in Nat /\ HeaderBytes \subseteq Bytes \ {CR, LF}
  BY WholeFacts DEF Ordinary
<1> DEFINE h == HeadersAt(l, i)
           n == Len(l.lines[i])
           c == ContentAt(l, i)
<1>2. h \in Nat /\ n \in Nat /\ c = h + 3 * n + 2
  BY PartNumbers
<1>3. p = h + 3 * (k - 1) /\ LineAt(l, i, k + 1) = h + 3 * ((k + 1) - 1)
  BY DEF LineAt
<1> HIDE DEF h, n, c
<1>4. k \in 1..n
  BY DEF n
<1>5. p \in Nat /\ p + 3 = LineAt(l, i, k + 1) /\ p + 3 <= c - 2
  BY <1>2, <1>3, <1>4
<1> DEFINE x == l.lines[i][k]
           line == <<x>>
<1>6. x \in HeaderBytes /\ Holds(p, line \o CRLF)
  BY <1>1 DEF PartAt
<1> HIDE DEF x
<1>7. /\ line \in Text /\ Len(line) = 1 /\ line[1] = x
      /\ \A j \in 1..Len(line) : line[j] # LF /\ line[j] # NUL
  BY <1>1, <1>6, BufferAssumption DEF Text
<1> HIDE DEF line
<1>8. /\ LineHere(p, Len(line) + 2) /\ LineText(p, Len(line) + 2) = line
      /\ \A j \in 1..Len(line) : request.body[p + j] = line[j]
      /\ request.body[p + Len(line) + 1] = CR /\ request.body[p + Len(line) + 2] = LF
  BY <1>1, <1>5, <1>6, <1>7, TextLine
<1>9. Len(line) + 2 = 3 /\ p + Len(line) + 1 = p + 2 /\ p + Len(line) + 2 = p + 3 /\ 1 \in 1..Len(line)
  BY <1>5, <1>7
<1>10. LineHere(p, 3) /\ LineText(p, 3) = line /\ request.body[p + 1] = x
       /\ request.body[p + 2] = CR /\ request.body[p + 3] = LF
  BY <1>7, <1>8, <1>9
<1>11. QED
  BY <1>5, <1>6, <1>10 DEF c, x, line

-----------------------------------------------------------------------------
(* Where what arrives at once does not end.                                *)

\* What is before the end of the headers.
LEMMA EndsHeaders ==
  ASSUME Calm, NEW e \in 0..Len(request.body), EndOfHeaders(request.body, e)
  PROVE  /\ e > 4 /\ request.body[e] = LF /\ request.body[e - 1] = CR
         /\ request.body[e - 2] = LF /\ request.body[e - 3] = CR
         /\ request.body[e - 4] \in HeaderBytes
<1> DEFINE body == request.body
           m == e - 3
           s == SubSeq(body, m, e)
           four == <<CR, LF, CR, LF>>
<1>1. body \in Seq(Bytes) /\ Len(body) \in Nat
  BY BodyType DEF Calm
<1>2. e > 4 /\ body[e - 4] \in HeaderBytes /\ s = four
  BY DEF EndOfHeaders
<1>3. m \in Nat \ {0} /\ m <= e /\ e - m + 1 = 4
  BY <1>1, <1>2
<1>4. Len(s) = 4 /\ \A i \in 1..Len(s) : s[i] = body[m + i - 1]
  <2> HIDE DEF m
  <2>1. /\ Len(s) = (IF m <= e THEN e - m + 1 ELSE 0)
        /\ \A i \in 1..Len(s) : s[i] = body[m + i - 1]
    BY <1>1, <1>3, SubSeqFacts
  <2>2. QED
    BY <1>3, <2>1
<1> HIDE DEF s
<1>5. s[1] = body[m] /\ s[2] = body[m + 1] /\ s[3] = body[m + 2] /\ s[4] = body[m + 3]
  <2> HIDE DEF m
  <2>1. /\ s[1] = body[m + 1 - 1] /\ s[2] = body[m + 2 - 1] /\ s[3] = body[m + 3 - 1]
        /\ s[4] = body[m + 4 - 1]
    BY <1>4
  <2>2. m + 1 - 1 = m /\ m + 2 - 1 = m + 1 /\ m + 3 - 1 = m + 2 /\ m + 4 - 1 = m + 3
    BY <1>3
  <2>3. QED
    BY <2>1, <2>2
<1>6. s[1] = CR /\ s[2] = LF /\ s[3] = CR /\ s[4] = LF
  BY <1>2
<1>7. m + 1 = e - 2 /\ m + 2 = e - 1 /\ m + 3 = e
  BY <1>1
<1>8. QED
  BY <1>2, <1>5, <1>6, <1>7

LEMMA ReverseType ==
  ASSUME NEW S, NEW s \in Seq(S), NEW n \in Nat, Len(s) = n
  PROVE  Reverse(s) \in Seq(S) /\ Len(Reverse(s)) = n
BY DEF Reverse

\* The last k bytes before e are the first of LF and delimiter.
LEMMA MayBe ==
  ASSUME Calm, NEW e \in 0..Len(request.body), NEW k \in 1..Len(Delimiter) + 1, k <= e + 1,
         \A i \in 1..k : NextDelimiter[i] = IF e - k + i = 0 THEN LF ELSE request.body[e - k + i]
  PROVE  MayBeDelimiter(request.body, e)
<1> DEFINE body == request.body
           a == SubSeq(NextDelimiter, 1, k)
           one == <<LF>>
           front == SubSeq(body, 1, e)
           t == one \o front
           ra == Reverse(a)
           rt == Reverse(t)
<1>1. /\ body \in Seq(Bytes) /\ Len(body) \in Nat /\ NextDelimiter \in Seq(Bytes)
      /\ Len(NextDelimiter) = Len(Delimiter) + 1 /\ Len(Delimiter) \in Nat /\ e \in Nat
  BY BodyType, DelimiterType DEF Calm, Text
<1>2. one \in Seq(Bytes) /\ Len(one) = 1 /\ one[1] = LF
  BY BufferAssumption
<1>3. front \in Seq(Bytes) /\ Len(front) = e /\ \A i \in 1..e : front[i] = body[i]
  <2>1. 1 \in Nat \ {0} /\ e \in 0..Len(body)
    OBVIOUS
  <2>2. /\ SubSeq(body, 1, e) \in Seq(Bytes)
        /\ Len(SubSeq(body, 1, e)) = (IF 1 <= e THEN e - 1 + 1 ELSE 0)
        /\ \A i \in 1..Len(SubSeq(body, 1, e)) : SubSeq(body, 1, e)[i] = body[1 + i - 1]
    BY <1>1, <2>1, SubSeqFacts
  <2> HIDE DEF front
  <2>3. front \in Seq(Bytes) /\ Len(front) = e /\ \A i \in 1..Len(front) : front[i] = body[1 + i - 1]
    BY <1>1, <2>2 DEF front
  <2>4. ASSUME NEW i \in 1..e PROVE 1 + i - 1 = i
    BY <1>1
  <2>5. QED
    BY <2>3, <2>4
<1>4. a \in Seq(Bytes) /\ Len(a) = k /\ \A i \in 1..k : a[i] = NextDelimiter[i]
  <2>1. 1 \in Nat \ {0} /\ k \in 0..Len(NextDelimiter) /\ 1 <= k /\ k - 1 + 1 = k
    BY <1>1
  <2>2. /\ SubSeq(NextDelimiter, 1, k) \in Seq(Bytes)
        /\ Len(SubSeq(NextDelimiter, 1, k)) = (IF 1 <= k THEN k - 1 + 1 ELSE 0)
        /\ \A i \in 1..Len(SubSeq(NextDelimiter, 1, k)) :
             SubSeq(NextDelimiter, 1, k)[i] = NextDelimiter[1 + i - 1]
    BY <1>1, <2>1, SubSeqFacts
  <2> HIDE DEF a
  <2>3. a \in Seq(Bytes) /\ Len(a) = k /\ \A i \in 1..Len(a) : a[i] = NextDelimiter[1 + i - 1]
    BY <2>1, <2>2 DEF a
  <2>4. ASSUME NEW i \in 1..k PROVE 1 + i - 1 = i
    OBVIOUS
  <2>5. QED
    BY <2>3, <2>4
<1> HIDE DEF one, front, a, t
<1>5. t \in Seq(Bytes) /\ Len(t) = e + 1 /\ t[1] = LF /\ \A i \in 1..e : t[1 + i] = body[i]
  <2>1. /\ one \o front \in Seq(Bytes) /\ Len(one \o front) = Len(one) + Len(front)
        /\ \A i \in 1..Len(one) : (one \o front)[i] = one[i]
        /\ \A i \in 1..Len(front) : (one \o front)[Len(one) + i] = front[i]
    <3>1. one \in Seq(Bytes) /\ front \in Seq(Bytes)
      BY <1>2, <1>3
    <3>2. QED
      BY <3>1, ConcatFacts
  <2>2. /\ t \in Seq(Bytes) /\ Len(t) = 1 + e
        /\ \A i \in 1..1 : t[i] = one[i]
        /\ \A i \in 1..e : t[1 + i] = front[i]
    BY <1>2, <1>3, <2>1 DEF t
  <2>3. QED
    BY <1>1, <1>2, <1>3, <2>2
<1>6. /\ ra = [i \in 1..k |-> a[(k - i) + 1]] /\ rt = [i \in 1..e + 1 |-> t[((e + 1) - i) + 1]]
  BY <1>4, <1>5 DEF Reverse
<1>7. ra \in Seq(Bytes) /\ Len(ra) = k
  BY <1>4, ReverseType
<1>8. rt \in Seq(Bytes) /\ Len(rt) = e + 1
  <2>1. e + 1 \in Nat
    BY <1>1
  <2>2. QED
    BY <1>5, <2>1, ReverseType
<1>9. ASSUME NEW i \in 1..k PROVE ra[i] = rt[i]
  <2> DEFINE j == k - i + 1
             q == e - k + j
  <2>1. /\ j \in 1..k /\ (k - i) + 1 = j /\ ((e + 1) - i) + 1 = 1 + q /\ i \in 1..e + 1
        /\ q \in 0..e
    BY <1>1
  <2>2. ra[i] = a[j] /\ rt[i] = t[1 + q]
    BY <1>6, <2>1
  <2>3. a[j] = IF q = 0 THEN LF ELSE body[q]
    BY <1>4, <2>1
  <2> HIDE DEF q, j
  <2>4. t[1 + q] = IF q = 0 THEN LF ELSE body[q]
    <3>1. CASE q = 0
      BY <1>5, <3>1
    <3>2. CASE q # 0
      <4>1. q \in 1..e
        BY <2>1, <3>2
      <4>2. QED
        BY <1>5, <3>2, <4>1
    <3>3. QED
      BY <3>1, <3>2
  <2>5. QED
    BY <2>2, <2>3, <2>4
<1> HIDE DEF ra, rt
<1>10. IsPrefix(ra, rt)
  <2> DEFINE x == SubSeq(ra, 1, k)
             y == SubSeq(rt, 1, k)
  <2>1. 1 \in Nat \ {0} /\ k \in 0..Len(ra) /\ k \in 0..Len(rt) /\ 1 <= k /\ k - 1 + 1 = k
    BY <1>1, <1>7, <1>8
  <2>2. /\ x \in Seq(Bytes) /\ Len(x) = (IF 1 <= k THEN k - 1 + 1 ELSE 0)
        /\ \A i \in 1..Len(x) : x[i] = ra[1 + i - 1]
    BY <1>7, <2>1, SubSeqFacts
  <2>3. /\ y \in Seq(Bytes) /\ Len(y) = (IF 1 <= k THEN k - 1 + 1 ELSE 0)
        /\ \A i \in 1..Len(y) : y[i] = rt[1 + i - 1]
    BY <1>8, <2>1, SubSeqFacts
  <2> HIDE DEF x, y
  <2>4. ASSUME NEW i \in 1..Len(x) PROVE x[i] = y[i]
    <3>1. i \in 1..k /\ 1 + i - 1 = i /\ i \in 1..Len(y)
      BY <2>1, <2>2, <2>3, <2>4
    <3>2. QED
      BY <1>9, <2>2, <2>3, <3>1
  <2>5. x = y
    BY <2>1, <2>2, <2>3, <2>4, SameSeq
  <2>6. Len(ra) <= Len(rt) /\ Len(ra) = k
    BY <1>1, <1>7, <1>8
  <2>7. QED
    BY <2>5, <2>6 DEF IsPrefix, x, y
<1>11. k \in 1..Len(NextDelimiter)
  BY <1>1
<1>12. IsSuffix(a, t)
  BY <1>10, Zenon DEF IsSuffix, ra, rt
<1>13. QED
  BY <1>11, <1>12, Zenon DEF MayBeDelimiter, a, t, one, front

\* What arrives at once does not end with a header line's byte or a CR.
LEMMA EndFacts ==
  ASSUME NEW l, Whole(l), NEW e \in request.ends, e \in 0..Len(request.body)
  PROVE  /\ request.body[e] \notin HeaderBytes \cup {CR}
         /\ ~ EndOfHeaders(request.body, e) => ~ MayBeDelimiter(request.body, e)
<1>1. Calm /\ HeaderBytes \subseteq Bytes \ {CR, LF} /\ Harmless(request.body, e)
  BY WholeFacts DEF Whole, Ordinary
<1>2. CASE EndOfHeaders(request.body, e)
  <2>1. request.body[e] = LF
    BY <1>1, <1>2, EndsHeaders
  <2>2. LF # CR
    BY DEF LF, CR
  <2>3. QED
    BY <1>1, <1>2, <2>1, <2>2
<1>3. CASE ~ EndOfHeaders(request.body, e)
  BY <1>1, <1>3, Zenon DEF Harmless
<1>4. QED
  BY <1>2, <1>3

\* An end within a delimiter may be one of a longer delimiter.
LEMMA EndAfterLF ==
  ASSUME Calm, NEW s \in Nat, NEW e \in Nat, Holds(s, Delimiter),
         s = 0 \/ request.body[s] = LF, \A j \in 1..Len(Delimiter) : Delimiter[j] # LF,
         s < e, e <= s + Len(Delimiter), s + Len(Delimiter) <= Len(request.body)
  PROVE  ~ EndOfHeaders(request.body, e) /\ MayBeDelimiter(request.body, e)
<1> DEFINE body == request.body
           dl == Len(Delimiter)
           all == Len(body)
           k == e - s + 1
<1>0. /\ Holds(s, Delimiter) /\ (s = 0 \/ body[s] = LF) /\ Calm
      /\ \A j \in 1..dl : Delimiter[j] # LF
  OBVIOUS
<1>1. /\ s + dl <= all /\ dl \in Nat /\ all \in Nat
      /\ s < e /\ e <= s + dl
  BY DelimiterType, BodyType DEF Calm
<1> HIDE DEF dl, all
<1>2. e \in 0..all /\ k \in 1..dl + 1 /\ k <= e + 1 /\ k = e - s + 1
  BY <1>1
<1>3. ~ EndOfHeaders(body, e)
  <2> DEFINE j == e - s
  <2>1. j \in 1..dl /\ s + j = e
    BY <1>1 DEF dl
  <2> HIDE DEF j
  <2>2. body[e] # LF
    BY <1>0, <2>1 DEF Holds, dl
  <2>3. QED
    BY <1>0, <1>2, <2>2, EndsHeaders DEF all
<1> HIDE DEF k
<1>4. ASSUME NEW m \in 1..k
      PROVE  NextDelimiter[m] = IF e - k + m = 0 THEN LF ELSE body[e - k + m]
  <2>1. CASE m = 1
    <3>1. e - k + m = s
      BY <1>1, <1>2, <2>1
    <3>2. NextDelimiter[m] = LF
      BY <2>1, DelimiterType
    <3>3. QED
      BY <1>0, <3>1, <3>2
  <2>2. CASE m # 1
    <3> DEFINE j == m - 1
    <3>1. j \in 1..dl /\ j + 1 = m /\ e - k + m = s + j /\ s + j # 0
      BY <1>1, <1>2, <2>2
    <3> HIDE DEF j
    <3>2. NextDelimiter[j + 1] = Delimiter[j]
      BY <3>1, DelimiterType DEF dl
    <3>3. body[s + j] = Delimiter[j]
      BY <1>0, <3>1 DEF Holds, dl
    <3>4. QED
      BY <3>1, <3>2, <3>3
  <2>3. QED
    BY <2>1, <2>2
<1>5. MayBeDelimiter(body, e)
  <2>1. /\ Calm /\ e \in 0..Len(request.body) /\ k \in 1..Len(Delimiter) + 1 /\ k <= e + 1
    BY <1>0, <1>2 DEF dl, all
  <2>2. \A m \in 1..k : NextDelimiter[m] = IF e - k + m = 0 THEN LF ELSE request.body[e - k + m]
    BY <1>4
  <2>3. QED
    BY <2>1, <2>2, MayBe
<1>6. QED
  BY <1>3, <1>5

\* So nothing that arrives at once ends within a delimiter.
LEMMA NoEndInDelimiter ==
  ASSUME NEW l, Whole(l), NEW i \in 1..Amount + 1, NEW e \in request.ends,
         NEW s, s = l.starts[i], s < e, e <= s + Len(Delimiter)
  PROVE  FALSE
<1> DEFINE dl == Len(Delimiter)
           all == Len(request.body)
<1>1. /\ Holds(s, Delimiter) /\ (s = 0 \/ request.body[s] = LF) /\ Calm
      /\ \A j \in 1..Len(Delimiter) : Delimiter[j] # LF /\ Delimiter[j] # NUL
  BY WholeFacts, DelimiterAt
<1>2. s \in Nat /\ s + dl + 4 <= all /\ dl \in Nat /\ all \in Nat /\ e \in Nat
  BY WholeFacts, DelimiterAt, DelimiterType DEF RequestTypeOK
<1>3. s + dl <= all /\ e \in 0..all
  <2> HIDE DEF dl, all
  <2>1. ASSUME NEW n \in Nat, NEW m \in Nat, n < m, m <= n + dl, n + dl + 4 <= all
        PROVE  n + dl <= all /\ m \in 0..all
    BY <1>2, <2>1
  <2>2. e <= s + dl
    BY DEF dl
  <2>3. QED
    BY <1>2, <2>1, <2>2, Zenon
<1>4. ~ EndOfHeaders(request.body, e) /\ MayBeDelimiter(request.body, e)
  BY <1>1, <1>2, <1>3, EndAfterLF
<1>5. QED
  BY <1>3, <1>4, EndFacts

\* In a content it ends neither in what may be a delimiter nor after a CR.
LEMMA EndInContent ==
  ASSUME NEW l, Whole(l), NEW i \in 1..Amount, NEW e \in request.ends,
         NEW c, c = ContentAt(l, i), c < e, e <= EndAt(l, i)
  PROVE  ~ MayBeDelimiter(request.body, e)
<1> DEFINE body == request.body
           n == Len(Content(i))
           h == HeadersAt(l, i)
           nl == Len(l.lines[i])
           all == Len(body)
           end == EndAt(l, i)
           s == l.starts[i]
           dl == Len(Delimiter)
<1>1. /\ c \in Nat /\ end = c + n /\ n \in Nat /\ end + 2 <= all
      /\ all \in Nat /\ h \in Nat /\ nl \in Nat /\ c = h + 3 * nl + 2
      /\ s \in Nat /\ h = s + dl + 2 /\ dl \in Nat
  BY PartNumbers
<1>2. /\ body[c - 1] = CR /\ body[c] = LF /\ \A j \in 1..n : body[c + j] = Content(i)[j]
      /\ body[s + dl + 2] = LF
  <2>1. s = l.starts[i] /\ end = EndAt(l, i) /\ dl = Len(Delimiter)
    OBVIOUS
  <2> HIDE DEF s, end, dl, n
  <2>2. /\ body[c - 1] = CR /\ body[c] = LF /\ body[s + dl + 2] = LF
        /\ \A j \in 1..Len(Content(i)) : body[c + j] = Content(i)[j]
    BY <2>1, PartBytes
  <2>3. QED
    BY <2>2 DEF n
<1>3. PartAt(l, i) /\ Calm /\ HeaderBytes \subseteq Bytes \ {CR, LF} /\ CR # LF
  BY WholeFacts DEF Ordinary, CR, LF
<1>4. \A j \in 1..n : Content(i)[j] \notin HeaderBytes
  BY <1>3 DEF PartAt
<1>5. body[c - 2] = LF
  <2>1. CASE nl = 0
    <3> HIDE DEF h, nl, s, dl
    <3>1. c - 2 = s + dl + 2
      BY <1>1, <2>1
    <3>2. QED
      BY <1>2, <3>1
  <2>2. CASE nl # 0
    <3> DEFINE p == LineAt(l, i, nl)
    <3>1. nl \in 1..nl /\ nl \in 1..Len(l.lines[i])
      BY <1>1, <2>2
    <3>2. body[p + 3] = LF
      BY <3>1, HeaderBytesAt
    <3>3. p = h + 3 * (nl - 1)
      BY DEF LineAt
    <3> HIDE DEF p, h, nl, s, dl, all, end, n
    <3>4. p + 3 = c - 2
      BY <1>1, <3>1, <3>3
    <3>5. QED
      BY <3>2, <3>4
  <2>3. QED
    BY <2>1, <2>2
<1>15. e \in Nat /\ e <= end
  BY <1>3 DEF Calm, RequestTypeOK
<1> HIDE DEF n, h, nl, all, end, s, dl
<1>6. e \in 0..all
  BY <1>1, <1>15
<1>7. SUFFICES ASSUME EndOfHeaders(body, e) PROVE FALSE
  BY <1>6, EndFacts DEF all
<1>8. /\ e > 4 /\ body[e] = LF /\ body[e - 1] = CR /\ body[e - 2] = LF /\ body[e - 3] = CR
      /\ body[e - 4] \in HeaderBytes
  BY <1>3, <1>6, <1>7, EndsHeaders DEF all
<1>9. CASE e > c + 4
  <2> DEFINE j == e - 4 - c
  <2>1. j \in 1..n /\ c + j = e - 4
    BY <1>1, <1>9, <1>15
  <2> HIDE DEF j
  <2>2. QED
    BY <1>2, <1>4, <1>8, <2>1 DEF n
<1>10. CASE e = c + 1
  <2>1. e - 1 = c
    BY <1>1, <1>10
  <2>2. QED
    BY <1>2, <1>3, <1>8, <2>1
<1>11. CASE e = c + 2
  <2>1. e - 4 = c - 2
    BY <1>1, <1>11
  <2>2. QED
    BY <1>3, <1>5, <1>8, <2>1
<1>12. CASE e = c + 3
  <2>1. e - 3 = c
    BY <1>1, <1>12
  <2>2. QED
    BY <1>2, <1>3, <1>8, <2>1
<1>13. CASE e = c + 4
  <2>1. e - 4 = c
    BY <1>1, <1>13
  <2>2. QED
    BY <1>2, <1>3, <1>8, <2>1
<1>14. QED
  <2>1. e > c + 4 \/ e = c + 1 \/ e = c + 2 \/ e = c + 3 \/ e = c + 4
    BY <1>1, <1>15
  <2>2. QED
    BY <2>1, <1>9, <1>10, <1>11, <1>12, <1>13

-----------------------------------------------------------------------------
(* The lines between the contents.                                         *)

\* A line up to a delimiter.
LEMMA GetDelimiter ==
  ASSUME NEW l, Whole(l), NEW i \in 1..Amount, NEW b, BufAt(b, l.starts[i])
  PROVE  /\ GetLine(b).found = TRUE /\ GetLine(b).line = Delimiter
         /\ BufAt(GetLine(b).buf, HeadersAt(l, i))
<1> DEFINE s == l.starts[i]
           dl == Len(Delimiter)
           long == dl + 2
           h == HeadersAt(l, i)
           c == ContentAt(l, i)
           end == EndAt(l, i)
           next == l.starts[i + 1]
           all == Len(request.body)
<1>0. /\ s \in Nat /\ dl \in Nat /\ h = s + dl + 2 /\ end \in Nat
      /\ end >= c /\ c >= s + dl + 4 /\ c \in Nat /\ next = end + 2 /\ all \in Nat
  BY PartNumbers
<1>1. h = s + long
  <2> HIDE DEF s, dl, h
  <2>1. QED
    BY <1>0
<1>2. Calm /\ BufSize >= dl + 4 /\ BufSize \in Nat /\ Amount \in Nat
  BY WholeFacts
<1>3. /\ LineHere(s, long) /\ LineText(s, long) = Delimiter /\ request.body[s + dl + 1] = CR
  BY PartBytes
<1>4. next + dl + 4 <= all
  <2>1. i + 1 \in 1..Amount + 1
    BY <1>2
  <2>2. QED
    BY <2>1, DelimiterAt
<1>5. ASSUME NEW e \in request.ends, s < e, e < s + long PROVE FALSE
  <2>0. e \in Nat
    BY <1>2 DEF Calm, RequestTypeOK
  <2>1. (e <= s + dl \/ e = s + dl + 1) /\ e \in 0..all
    <3> HIDE DEF s, dl, h, c, end, next, all
    <3>1. QED
      BY <1>0, <1>4, <1>5, <2>0
  <2>2. CASE e <= s + dl
    <3>1. i \in 1..Amount + 1
      BY <1>2
    <3>2. QED
      BY <1>5, <2>2, <3>1, NoEndInDelimiter
  <2>3. CASE e = s + dl + 1
    BY <1>3, <2>1, <2>3, EndFacts
  <2>4. QED
    BY <2>1, <2>2, <2>3
<1>6. long <= BufSize /\ s + long <= all - dl
  <2> HIDE DEF s, dl, h, c, end, next, all
  <2>1. QED
    BY <1>0, <1>2, <1>4
<1> HIDE DEF s, long
<1>7. /\ GetLine(b).found = TRUE /\ GetLine(b).line = LineText(s, long)
      /\ BufAt(GetLine(b).buf, s + long)
  <2>1. BufAt(b, s)
    BY DEF s
  <2>2. \A e \in request.ends : ~ (s < e /\ e < s + long)
    BY <1>5
  <2>3. s + long <= Len(request.body) - Len(Delimiter)
    BY <1>6
  <2>4. QED
    BY <1>2, <1>3, <1>6, <2>1, <2>2, <2>3, GetLineAt
<1>8. QED
  BY <1>1, <1>3, <1>7

\* An empty line.
LEMMA GetEmptyLine ==
  ASSUME NEW l, Whole(l), NEW p, LineHere(p, 2), LineText(p, 2) = <<>>,
         p + 2 <= Len(request.body) - Len(Delimiter), NEW b, BufAt(b, p)
  PROVE  /\ GetLine(b).found = TRUE /\ GetLine(b).line = <<>>
         /\ BufAt(GetLine(b).buf, p + 2)
<1>1. /\ Calm /\ 2 <= BufSize /\ request.ends \subseteq Nat /\ Len(request.body) \in Nat
      /\ Len(Delimiter) \in Nat
  BY WholeFacts, DelimiterType DEF RequestTypeOK
<1>2. p \in Nat /\ request.body[p + 2 - 1] = CR
  BY DEF LineHere
<1>3. ASSUME NEW e \in request.ends, p < e, e < p + 2 PROVE FALSE
  <2>1. e = p + 2 - 1 /\ e \in 0..Len(request.body)
    BY <1>1, <1>2, <1>3
  <2>2. QED
    BY <1>2, <2>1, EndFacts
<1>4. /\ GetLine(b).found = TRUE /\ GetLine(b).line = LineText(p, 2)
      /\ BufAt(GetLine(b).buf, p + 2)
  BY <1>1, <1>3, GetLineAt
<1>5. QED
  BY <1>4

\* A header line.
LEMMA GetHeader ==
  ASSUME NEW l, Whole(l), NEW i \in 1..Amount, NEW k \in 1..Len(l.lines[i]),
         NEW p, p = LineAt(l, i, k), NEW b, BufAt(b, p)
  PROVE  /\ GetLine(b).found = TRUE /\ GetLine(b).line = <<l.lines[i][k]>>
         /\ BufAt(GetLine(b).buf, LineAt(l, i, k + 1))
<1> DEFINE dl == Len(Delimiter)
<1>1. /\ p \in Nat /\ p + 3 = LineAt(l, i, k + 1) /\ p + 3 <= ContentAt(l, i) - 2
      /\ LineHere(p, 3) /\ LineText(p, 3) = <<l.lines[i][k]>>
      /\ request.body[p + 1] \in HeaderBytes /\ request.body[p + 2] = CR
  BY HeaderBytesAt
<1>2. Calm /\ 3 <= BufSize /\ Amount \in Nat /\ dl \in Nat
  BY WholeFacts, DelimiterType
<1>3. /\ EndAt(l, i) >= ContentAt(l, i) /\ l.starts[i + 1] = EndAt(l, i) + 2
      /\ EndAt(l, i) \in Nat /\ ContentAt(l, i) \in Nat /\ Len(request.body) \in Nat
  BY PartNumbers
<1>4. l.starts[i + 1] + dl + 4 <= Len(request.body)
  <2>1. i + 1 \in 1..Amount + 1
    BY <1>2
  <2>2. QED
    BY <2>1, DelimiterAt
<1>5. ASSUME NEW e \in request.ends, p < e, e < p + 3 PROVE FALSE
  <2>0. e \in Nat
    BY <1>2 DEF Calm, RequestTypeOK
  <2>1. (e = p + 1 \/ e = p + 2) /\ e \in 0..Len(request.body)
    <3> DEFINE c == ContentAt(l, i)
               end == EndAt(l, i)
               next == l.starts[i + 1]
               all == Len(request.body)
    <3>1. /\ p \in Nat /\ p + 3 <= c - 2 /\ end >= c /\ next = end + 2 /\ end \in Nat /\ c \in Nat
          /\ all \in Nat /\ next + dl + 4 <= all /\ dl \in Nat
      BY <1>1, <1>2, <1>3, <1>4
    <3> HIDE DEF c, end, next, all, dl
    <3>2. (e = p + 1 \/ e = p + 2) /\ e \in 0..all
      BY <1>5, <2>0, <3>1
    <3>3. QED
      BY <3>2 DEF all
  <2>2. QED
    BY <1>1, <2>1, EndFacts
<1>6. p + 3 <= Len(request.body) - Len(Delimiter)
  <2> DEFINE c == ContentAt(l, i)
             end == EndAt(l, i)
             next == l.starts[i + 1]
             all == Len(request.body)
  <2>1. /\ p \in Nat /\ p + 3 <= c - 2 /\ end >= c /\ next = end + 2 /\ end \in Nat /\ c \in Nat
        /\ all \in Nat /\ next + dl + 4 <= all /\ dl \in Nat
    BY <1>1, <1>2, <1>3, <1>4
  <2> HIDE DEF c, end, next, all, dl
  <2>2. p + 3 <= all - dl
    BY <2>1
  <2>3. QED
    BY <2>2 DEF all, dl
<1>7. /\ GetLine(b).found = TRUE /\ GetLine(b).line = LineText(p, 3)
      /\ BufAt(GetLine(b).buf, p + 3)
  BY <1>1, <1>2, <1>5, <1>6, GetLineAt
<1>8. QED
  BY <1>1, <1>7

\* The line after the last part.
LEMMA ClosingLine ==
  ASSUME NEW l, Whole(l), NEW s, s = l.starts[Amount + 1]
  PROVE  /\ s \in Nat /\ LineHere(s, Len(Delimiter) + 4)
         /\ LineText(s, Len(Delimiter) + 4) # Delimiter
         /\ s + (Len(Delimiter) + 4) = Len(request.body)
<1> DEFINE two == <<"-", "-">>
           closing == Delimiter \o two
           dl == Len(Delimiter)
<1>1. /\ Calm /\ Amount \in Nat /\ dl \in Nat /\ Delimiter \in Seq(Bytes)
      /\ \A j \in 1..Len(Delimiter) : Delimiter[j] # LF /\ Delimiter[j] # NUL
      /\ Holds(s, closing \o CRLF) /\ Len(request.body) = s + dl + 4
  BY WholeFacts, DelimiterType DEF Sent, Text
<1>2. s \in Nat
  <2>1. Amount + 1 \in 1..Amount + 1
    BY <1>1
  <2>2. QED
    BY <2>1, DelimiterAt
<1>3. two \in Seq(Bytes) /\ Len(two) = 2 /\ \A j \in 1..2 : two[j] # LF /\ two[j] # NUL
  BY BufferAssumption DEF LF, NUL
<1> HIDE DEF two
<1>4. /\ closing \in Seq(Bytes) /\ Len(closing) = dl + 2
      /\ \A j \in 1..Len(Delimiter) : closing[j] = Delimiter[j]
      /\ \A j \in 1..Len(two) : closing[Len(Delimiter) + j] = two[j]
  <2>1. Delimiter \in Seq(Bytes) /\ two \in Seq(Bytes)
    BY <1>1, <1>3
  <2>2. /\ Delimiter \o two \in Seq(Bytes) /\ Len(Delimiter \o two) = Len(Delimiter) + Len(two)
        /\ \A j \in 1..Len(Delimiter) : (Delimiter \o two)[j] = Delimiter[j]
        /\ \A j \in 1..Len(two) : (Delimiter \o two)[Len(Delimiter) + j] = two[j]
    BY <2>1, ConcatFacts
  <2>3. QED
    BY <1>3, <2>2
<1> HIDE DEF closing
<1>5. \A j \in 1..Len(closing) : closing[j] # LF /\ closing[j] # NUL
  <2>1. ASSUME NEW j \in 1..Len(closing) PROVE closing[j] # LF /\ closing[j] # NUL
    <3>1. CASE j \in 1..dl
      BY <1>1, <1>4, <3>1
    <3>2. CASE j \notin 1..dl
      <4> DEFINE m == j - dl
      <4>1. m \in 1..2 /\ dl + m = j
        BY <1>1, <1>4, <3>2
      <4> HIDE DEF m
      <4>2. closing[dl + m] = two[m]
        BY <1>3, <1>4, <4>1
      <4>3. QED
        BY <1>3, <4>1, <4>2
    <3>3. QED
      BY <3>1, <3>2
  <2>2. QED
    BY <2>1
<1>6. LineHere(s, Len(closing) + 2) /\ LineText(s, Len(closing) + 2) = closing
  BY <1>1, <1>2, <1>4, <1>5, TextLine DEF Text
<1> DEFINE long == Len(closing)
<1>7. Len(closing) + 2 = dl + 4 /\ s + (dl + 4) = s + dl + 4
  <2>1. dl \in Nat /\ s \in Nat /\ long = dl + 2
    BY <1>1, <1>2, <1>4
  <2> HIDE DEF dl, long
  <2>2. long + 2 = dl + 4 /\ s + (dl + 4) = s + dl + 4
    BY <2>1
  <2>3. QED
    BY <2>2 DEF long
<1> HIDE DEF dl, long
<1>8. closing # Delimiter
  <2>1. Len(closing) # Len(Delimiter)
    BY <1>1, <1>4 DEF dl
  <2>2. QED
    BY <2>1
<1>9. QED
  BY <1>1, <1>2, <1>6, <1>7, <1>8 DEF dl

\* The line after the last part, if it is read at all, is not a delimiter.
LEMMA GetClosing ==
  ASSUME NEW l, Whole(l), NEW b, BufAt(b, l.starts[Amount + 1])
  PROVE  GetLine(b).found = FALSE
         \/ (GetLine(b).line # Delimiter /\ BufAt(GetLine(b).buf, Len(request.body)))
<1> DEFINE s == l.starts[Amount + 1]
           long == Len(Delimiter) + 4
           f == FillBuffer(b)
           n == NextLine(b)
           m == NextLine(f)
<1>1. /\ s \in Nat /\ LineHere(s, long) /\ LineText(s, long) # Delimiter
      /\ s + long = Len(request.body)
  BY ClosingLine
<1>2. Calm /\ long \in Nat /\ long <= BufSize /\ BufSize \in Nat
  BY WholeFacts, DelimiterType
<1> HIDE DEF s, long
<1>3. ASSUME NEW g, BufAt(g, s)
      PROVE  NextLine(g).found = FALSE
             \/ (NextLine(g).line # Delimiter /\ BufAt(NextLine(g).buf, Len(request.body)))
  <2>1. g.n \in Nat
    BY <1>2, <1>3, BufAtFields
  <2>2. CASE g.n >= long
    <3>1. NextLine(g).line = LineText(s, long) /\ BufAt(NextLine(g).buf, s + long)
      BY <1>1, <1>2, <1>3, <2>2, NextLineAt
    <3>2. QED
      BY <1>1, <3>1
  <2>3. CASE ~ (g.n >= long)
    <3>1. g.n < BufSize
      BY <1>2, <2>1, <2>3
    <3>2. \A i \in 1..g.n : request.body[s + i] # LF
      <4>1. ASSUME NEW i \in 1..g.n PROVE i \in 1..long - 1
        BY <1>2, <2>1, <2>3
      <4>2. QED
        BY <1>1, <4>1 DEF LineHere
    <3>3. NextLine(g) = NoLine(g)
      BY <1>2, <1>3, <3>1, <3>2, NoLineAt
    <3>4. QED
      BY <3>3 DEF NoLine
  <2>4. QED
    BY <2>2, <2>3
<1>4. BufAt(b, s)
  BY DEF s
<1>5. BufAt(f, s)
  BY <1>2, <1>4, FillAt
<1>6. GetLine(b) = n \/ GetLine(b) = m
  BY Zenon DEF GetLine
<1>7. QED
  BY <1>3, <1>4, <1>5, <1>6

\* The lines up to the next delimiter are three at most.
LEMMA FindBoundaryIs ==
  ASSUME RequestTypeOK, NEW b, GoodBuffer(b), Lines >= 2,
         NEW x, x = GetLine(b), NEW y, y = LineStep(x), NEW z, z = LineStep(y), LineStep(z) = z
  PROVE  FindBoundary(b) = z
<1> DEFINE N == Lines
<1>1. PICK it : FindsBoundary(b, it)
  BY FindBoundaryLoop
<1>2. N \in Nat /\ N >= 2
  BY BodyType DEF Lines
<1>3. /\ it[0] = x /\ FindBoundary(b) = it[N]
      /\ \A n \in 0..N - 1 : it[n + 1] = LineStep(it[n])
  BY <1>1 DEF FindsBoundary
<1> HIDE DEF N
<1>4. it[1] = y /\ it[2] = z
  <2>1. 0 \in 0..N - 1 /\ 1 \in 0..N - 1 /\ 0 + 1 = 1 /\ 1 + 1 = 2
    BY <1>2
  <2>2. it[1] = LineStep(it[0]) /\ it[2] = LineStep(it[1])
    BY <1>3, <2>1
  <2>3. QED
    BY <1>3, <2>2
<1> DEFINE G == {n \in 0..N : n >= 2 => it[n] = z}
<1>5. 0 \in G
  BY <1>2
<1>6. ASSUME NEW n \in 0..N - 1, n \in G PROVE n + 1 \in G
  <2>1. n + 1 \in 0..N
    BY <1>2
  <2>2. CASE n >= 2
    <3>1. it[n] = z /\ it[n + 1] = LineStep(it[n])
      BY <1>3, <1>6, <2>2
    <3>2. QED
      BY <2>1, <3>1
  <2>3. CASE ~ (n >= 2)
    <3>1. n + 1 >= 2 => n + 1 = 2
      BY <2>3
    <3>2. QED
      BY <1>4, <2>1, <3>1
  <2>4. QED
    BY <2>2, <2>3
<1> HIDE DEF G
<1>7. \A n \in 0..N : n \in G
  BY <1>2, <1>5, <1>6, Upward
<1>8. it[N] = z
  BY <1>2, <1>7 DEF G
<1>9. QED
  BY <1>3, <1>8

\* Where the parser is before part i: at the beginning, or in front of the line
\* end that belongs to the delimiter.
BeforePart(l, i) == IF i = 1 THEN 0 ELSE EndAt(l, i - 1)

\* What is before a part: nothing, or the CRLF that ends the one before.
LEMMA BeforeFacts ==
  ASSUME NEW l, Whole(l), NEW i \in 1..Amount + 1, NEW q, q = BeforePart(l, i),
         NEW b, BufAt(b, q)
  PROVE  /\ q \in Nat /\ q + Len(Delimiter) + 4 <= Len(request.body) /\ Lines >= 2
         /\ (i = 1 /\ q = l.starts[i]) \/
            (/\ GetLine(b).found = TRUE /\ GetLine(b).line = <<>>
             /\ BufAt(GetLine(b).buf, l.starts[i]))
<1> DEFINE dl == Len(Delimiter)
           s == l.starts[i]
           all == Len(request.body)
<1>1. Amount \in Nat /\ dl \in Nat /\ all \in Nat
  BY WholeFacts, DelimiterType
<1>2. s \in Nat /\ s + dl + 4 <= all
  BY DelimiterAt
<1>3. Lines >= 2
  BY <1>1, <1>2 DEF Lines
<1>4. CASE i = 1
  <2>1. q = 0 /\ s = 0
    BY <1>4, WholeFacts DEF BeforePart
  <2>2. QED
    BY <1>2, <1>3, <1>4, <2>1
<1>5. CASE i # 1
  <2> DEFINE j == i - 1
  <2>1. j \in 1..Amount /\ j + 1 = i /\ q = EndAt(l, j)
    BY <1>1, <1>5 DEF BeforePart
  <2> HIDE DEF j
  <2>2. l.starts[j + 1] = EndAt(l, j) + 2 /\ EndAt(l, j) \in Nat
    BY <2>1, PartNumbers
  <2>3. s = q + 2 /\ q \in Nat
    BY <2>1, <2>2
  <2>4. LineHere(q, 2) /\ LineText(q, 2) = <<>>
    <3> DEFINE t == l.starts[j]
               c == ContentAt(l, j)
    <3>1. t = l.starts[j] /\ c = ContentAt(l, j) /\ dl = Len(Delimiter)
      OBVIOUS
    <3> HIDE DEF t, c, dl
    <3>2. QED
      BY <2>1, <3>1, PartBytes
  <2> HIDE DEF s, all, dl
  <2>5. q + 2 <= all - dl /\ q + dl + 4 <= all
    BY <1>1, <1>2, <2>3
  <2>6. /\ GetLine(b).found = TRUE /\ GetLine(b).line = <<>>
        /\ BufAt(GetLine(b).buf, q + 2)
    BY <2>4, <2>5, GetEmptyLine DEF all, dl
  <2>7. QED
    BY <1>3, <2>3, <2>5, <2>6 DEF s, all, dl
<1>6. QED
  BY <1>4, <1>5

\* The delimiter of the next part is found.
LEMMA FoundNext ==
  ASSUME NEW l, Whole(l), NEW i \in 1..Amount, NEW q, q = BeforePart(l, i), NEW b, BufAt(b, q)
  PROVE  /\ FindBoundary(b).found = TRUE
         /\ BufAt(FindBoundary(b).buf, HeadersAt(l, i))
<1> DEFINE x == GetLine(b)
           y == LineStep(x)
           z == LineStep(y)
           d == GetLine(x.buf)
           s == l.starts[i]
<1>1. RequestTypeOK /\ Calm /\ Amount \in Nat
  BY WholeFacts
<1>2. GoodBuffer(b)
  BY DEF BufAt
<1>3. i \in 1..Amount + 1
  BY <1>1
<1>4. /\ Lines >= 2
      /\ (i = 1 /\ q = s) \/ (/\ x.found = TRUE /\ x.line = <<>> /\ BufAt(x.buf, s))
  BY <1>3, BeforeFacts
<1>5. <<>> # Delimiter
  <2>1. Len(Delimiter) >= 2
    BY DelimiterType, BufferAssumption DEF Text
  <2>2. QED
    BY <2>1
<1>6. ASSUME NEW g, g.found = TRUE, g.line = Delimiter PROVE LineStep(g) = g
  BY <1>6, Zenon DEF LineStep
<1>7. CASE i = 1 /\ q = s
  <2>1. x.found = TRUE /\ x.line = Delimiter /\ BufAt(x.buf, HeadersAt(l, i))
    BY <1>7, GetDelimiter
  <2> HIDE DEF x
  <2>2. y = x
    BY <1>6, <2>1
  <2> HIDE DEF y
  <2>3. z = x
    BY <1>6, <2>1, <2>2
  <2> HIDE DEF z
  <2>4. FindBoundary(b) = z
    <3>1. x = GetLine(b) /\ y = LineStep(x) /\ z = LineStep(y)
      BY DEF x, y, z
    <3>2. LineStep(z) = z
      BY <1>6, <2>1, <2>3
    <3>3. QED
      BY <1>1, <1>2, <1>4, <3>1, <3>2, FindBoundaryIs
  <2>5. QED
    BY <2>1, <2>3, <2>4
<1>8. CASE x.found = TRUE /\ x.line = <<>> /\ BufAt(x.buf, s)
  <2>1. d.found = TRUE /\ d.line = Delimiter /\ BufAt(d.buf, HeadersAt(l, i))
    BY <1>8, GetDelimiter
  <2>2. y = d
    BY <1>5, <1>8, Zenon DEF LineStep
  <2> HIDE DEF x, d, y
  <2>3. z = d
    BY <1>6, <2>1, <2>2
  <2> HIDE DEF z
  <2>4. FindBoundary(b) = z
    <3>1. x = GetLine(b) /\ y = LineStep(x) /\ z = LineStep(y)
      BY DEF x, y, z
    <3>2. LineStep(z) = z
      BY <1>6, <2>1, <2>3
    <3>3. QED
      BY <1>1, <1>2, <1>4, <3>1, <3>2, FindBoundaryIs
  <2>5. QED
    BY <2>1, <2>3, <2>4
<1>9. QED
  BY <1>4, <1>7, <1>8

\* After the last part none is found.
LEMMA FoundNone ==
  ASSUME NEW l, Whole(l), NEW q, q = BeforePart(l, Amount + 1), NEW b, BufAt(b, q)
  PROVE  FindBoundary(b).found = FALSE
<1> DEFINE i == Amount + 1
           x == GetLine(b)
           y == LineStep(x)
           z == LineStep(y)
           s == l.starts[i]
<1>1. RequestTypeOK /\ Calm /\ Amount \in Nat
  BY WholeFacts
<1>2. GoodBuffer(b)
  BY DEF BufAt
<1>3. i \in 1..Amount + 1
  BY <1>1
<1>4. /\ Lines >= 2
      /\ q = s \/ (x.found = TRUE /\ x.line = <<>> /\ BufAt(x.buf, s))
  <2>1. q = BeforePart(l, i)
    OBVIOUS
  <2> HIDE DEF i
  <2>2. QED
    BY <1>3, <2>1, BeforeFacts
<1>5. <<>> # Delimiter
  <2>1. Len(Delimiter) >= 2
    BY DelimiterType, BufferAssumption DEF Text
  <2>2. QED
    BY <2>1
<1>6. ASSUME NEW g, g.found = FALSE PROVE LineStep(g) = g
  BY <1>6, Zenon DEF LineStep
<1>7. ASSUME NEW g, BufAt(g, s) PROVE LineStep(GetLine(g)).found = FALSE
  <2> DEFINE d == GetLine(g)
             e == GetLine(d.buf)
  <2>1. d.found = FALSE \/ (d.line # Delimiter /\ BufAt(d.buf, Len(request.body)))
    BY <1>7, GetClosing
  <2>2. CASE d.found = FALSE
    BY <1>6, <2>2
  <2>3. CASE d.line # Delimiter /\ BufAt(d.buf, Len(request.body)) /\ d.found # FALSE
    <3>1. e.found = FALSE
      BY <1>1, <2>3, GetLineAtEnd
    <3>2. LineStep(d) = e \/ LineStep(d) = d
      BY Zenon DEF LineStep
    <3>3. d.found \in BOOLEAN
      <4>1. GoodBuffer(g)
        BY <1>7 DEF BufAt
      <4>2. LineOf(g, d)
        BY <1>1, <4>1, GetLineOn
      <4> HIDE DEF d
      <4>3. QED
        BY <4>2, LineIn
    <3>4. LineStep(d) = e
      BY <2>3, <3>3, Zenon DEF LineStep
    <3> HIDE DEF d, e
    <3>5. QED
      BY <3>1, <3>4 DEF d
  <2>4. QED
    BY <2>1, <2>2, <2>3
<1>8. z.found = FALSE
  <2>1. CASE q = s
    <3>1. y.found = FALSE
      BY <1>7, <2>1
    <3> HIDE DEF y
    <3>2. QED
      BY <1>6, <3>1
  <2>2. CASE x.found = TRUE /\ x.line = <<>> /\ BufAt(x.buf, s)
    <3>1. y = GetLine(x.buf)
      BY <1>5, <2>2, Zenon DEF LineStep
    <3> HIDE DEF x, y
    <3>2. LineStep(GetLine(x.buf)).found = FALSE
      BY <1>7, <2>2
    <3>3. QED
      BY <3>1, <3>2
  <2>3. QED
    BY <1>4, <2>1, <2>2
<1> HIDE DEF x, y, z
<1>9. FindBoundary(b) = z
  <2>1. x = GetLine(b) /\ y = LineStep(x) /\ z = LineStep(y)
    BY DEF x, y, z
  <2>2. LineStep(z) = z
    BY <1>6, <1>8
  <2>3. QED
    BY <1>1, <1>2, <1>4, <2>1, <2>2, FindBoundaryIs
<1>10. QED
  BY <1>8, <1>9

\* The line that comes after k header lines: one more, or the empty one.
LEMMA NextHeaderLine ==
  ASSUME NEW l, Whole(l), NEW i \in 1..Amount, NEW k \in 0..Len(l.lines[i]),
         NEW p, p = LineAt(l, i, k + 1), NEW b, BufAt(b, p)
  PROVE  /\ GetLine(b).found = TRUE
         /\ k < Len(l.lines[i]) => /\ GetLine(b).line = <<l.lines[i][k + 1]>>
                                   /\ BufAt(GetLine(b).buf, LineAt(l, i, (k + 1) + 1))
         /\ k = Len(l.lines[i]) => /\ GetLine(b).line = <<>>
                                   /\ BufAt(GetLine(b).buf, ContentAt(l, i))
<1> DEFINE n == Len(l.lines[i])
<1>1. n \in Nat
  BY PartNumbers
<1>2. CASE k < n
  <2> DEFINE m == k + 1
  <2>1. m \in 1..n /\ k # n
    BY <1>1, <1>2
  <2> HIDE DEF m
  <2>2. p = LineAt(l, i, m)
    BY DEF m
  <2>3. /\ GetLine(b).found = TRUE /\ GetLine(b).line = <<l.lines[i][m]>>
        /\ BufAt(GetLine(b).buf, LineAt(l, i, m + 1))
    BY <2>1, <2>2, GetHeader
  <2>4. QED
    BY <2>1, <2>3 DEF m
<1>3. CASE k = n
  <2> DEFINE c == ContentAt(l, i)
             d == c - 2
             dl == Len(Delimiter)
             all == Len(request.body)
             e == EndAt(l, i)
             s == l.starts[i]
             next == l.starts[i + 1]
  <2>1. /\ c \in Nat /\ e \in Nat /\ e >= c /\ dl \in Nat /\ all \in Nat /\ s \in Nat
        /\ c >= s + dl + 4 /\ next = e + 2
    BY PartNumbers
  <2>2. next + dl + 4 <= all
    <3>1. i + 1 \in 1..Amount + 1
      BY WholeFacts
    <3>2. QED
      BY <3>1, DelimiterAt
  <2>3. c = p + 2
    BY <1>3 DEF ContentAt
  <2>4. LineHere(d, 2) /\ LineText(d, 2) = <<>>
    <3>1. s = l.starts[i] /\ c = ContentAt(l, i) /\ e = EndAt(l, i) /\ dl = Len(Delimiter)
      OBVIOUS
    <3> HIDE DEF s, c, e, dl
    <3>2. QED
      BY <3>1, PartBytes
  <2>5. p = d
    <3> HIDE DEF c
    <3>1. d \in Nat
      BY <2>4 DEF LineHere
    <3>2. p \in Nat
      BY <1>1, PartNumbers DEF LineAt
    <3>3. QED
      BY <2>1, <2>3, <3>2
  <2> HIDE DEF c, d, dl, all, e, s, next
  <2>6. p + 2 <= all - dl
    BY <2>1, <2>2, <2>3
  <2>7. /\ GetLine(b).found = TRUE /\ GetLine(b).line = <<>> /\ BufAt(GetLine(b).buf, p + 2)
    BY <2>4, <2>5, <2>6, GetEmptyLine DEF all, dl
  <2>8. ~ (k < n)
    BY <1>1, <1>3
  <2>9. QED
    BY <2>3, <2>7, <2>8 DEF c
<1>4. k < n \/ k = n
  BY <1>1
<1>5. QED
  BY <1>2, <1>3, <1>4

\* multipart_buffer_headers collects the header lines and leaves the content.
LEMMA HeadersWhole ==
  ASSUME NEW l, Whole(l), NEW i \in 1..Amount, NEW b, BufAt(b, HeadersAt(l, i))
  PROVE  /\ HeaderLines(b).found = TRUE /\ HeaderLines(b).lines = HeadersRead(l, i)
         /\ BufAt(HeaderLines(b).buf, ContentAt(l, i))
<1> DEFINE n == Len(l.lines[i])
           N == Lines
           First(k) == [j \in 1..k |-> <<l.lines[i][j]>>]
<1>1. /\ RequestTypeOK /\ PartAt(l, i) /\ HeaderBytes \subseteq Bytes /\ GoodBuffer(b)
  BY WholeFacts DEF Ordinary, BufAt
<1>2. PICK it : FindsHeaders(b, it)
  BY <1>1, HeaderLinesLoop
<1>3. /\ it[0] = [lines |-> <<>>, last |-> GetLine(b)]
      /\ \A k \in 0..N - 1 : it[k + 1] = HeaderStep(it[k])
      /\ HeaderLines(b) = [found |-> TRUE, lines |-> it[N].lines, buf |-> it[N].last.buf]
  BY <1>2 DEF FindsHeaders
<1>4. n \in Nat /\ N \in Nat /\ n <= N
  <2> DEFINE h == HeadersAt(l, i)
             c == ContentAt(l, i)
             e == EndAt(l, i)
  <2>1. n \in Nat /\ h \in Nat /\ c = h + 3 * n + 2 /\ e >= c /\ e + 2 <= N /\ e \in Nat /\ N \in Nat
    BY PartNumbers DEF Lines
  <2> HIDE DEF n, h, c, e, N
  <2>2. QED
    BY <2>1
<1>5. \A j \in 1..n : <<l.lines[i][j]>> \in Text
  <2>1. ASSUME NEW j \in 1..n PROVE <<l.lines[i][j]>> \in Text
    <3>1. l.lines[i][j] \in Bytes
      BY <1>1 DEF PartAt
    <3>2. QED
      BY <3>1 DEF Text
  <2>2. QED
    BY <2>1
<1> HIDE DEF N
<1> DEFINE Got(k) == /\ it[k].lines = First(k) /\ it[k].last.found = TRUE
                     /\ k < n => /\ it[k].last.line = <<l.lines[i][k + 1]>>
                                 /\ BufAt(it[k].last.buf, LineAt(l, i, (k + 1) + 1))
                     /\ k = n => /\ it[k].last.line = <<>>
                                 /\ BufAt(it[k].last.buf, ContentAt(l, i))
           G == {k \in 0..n : Got(k)}
<1>6. 0 \in G
  <2> DEFINE p == LineAt(l, i, 0 + 1)
             g == GetLine(b)
  <2>1. p = HeadersAt(l, i)
    <3>1. HeadersAt(l, i) \in Nat
      BY PartNumbers
    <3>2. QED
      BY <3>1 DEF LineAt
  <2>2. p = LineAt(l, i, 0 + 1) /\ BufAt(b, p)
    BY <2>1
  <2>3. 0 \in 0..Len(l.lines[i])
    BY <1>4
  <2> HIDE DEF p
  <2>4. /\ GetLine(b).found = TRUE
        /\ 0 < Len(l.lines[i]) => /\ GetLine(b).line = <<l.lines[i][0 + 1]>>
                                  /\ BufAt(GetLine(b).buf, LineAt(l, i, (0 + 1) + 1))
        /\ 0 = Len(l.lines[i]) => /\ GetLine(b).line = <<>>
                                  /\ BufAt(GetLine(b).buf, ContentAt(l, i))
    BY <2>2, <2>3, NextHeaderLine
  <2> HIDE DEF g
  <2>5. it[0].last = g /\ it[0].lines = <<>> /\ g = GetLine(b)
    BY <1>3 DEF g
  <2>6. First(0) = <<>>
    OBVIOUS
  <2> HIDE DEF First
  <2>7. Got(0)
    BY <2>4, <2>5, <2>6
  <2>8. QED
    BY <2>3, <2>7
<1>7. ASSUME NEW k \in 0..n - 1, k \in G PROVE k + 1 \in G
  <2> DEFINE last == it[k].last
             g == GetLine(last.buf)
             m == k + 1
             p == LineAt(l, i, m + 1)
             line == <<l.lines[i][m]>>
  <2>1. Got(k) /\ k < n /\ m \in 0..n /\ m \in 1..n /\ k \in 0..N - 1
    BY <1>4, <1>7
  <2>2. /\ it[k].lines = First(k) /\ last.found = TRUE /\ last.line = line
        /\ BufAt(last.buf, p) /\ p = LineAt(l, i, m + 1)
    BY <2>1
  <2>3. line # <<>> /\ line \in Text
    BY <1>5, <2>1
  <2>4. it[m] = [lines |-> Append(First(k), line), last |-> g]
    <3>1. it[m] = HeaderStep(it[k])
      BY <1>3, <2>1
    <3> HIDE DEF First, line
    <3>2. HeaderStep(it[k]) = [lines |-> Append(it[k].lines, last.line), last |-> g]
      BY <2>2, <2>3, Zenon DEF HeaderStep
    <3>3. QED
      BY <2>2, <3>1, <3>2
  <2>5. Append(First(k), line) = First(m)
    <3>1. First(k) \in Seq(Text) /\ Len(First(k)) = k
      BY <1>4, <1>5, <2>1
    <3>2. First(m) \in Seq(Text) /\ Len(First(m)) = m
      BY <1>4, <1>5, <2>1
    <3> DEFINE t == Append(First(k), line)
               u == First(m)
               f == First(k)
    <3>3. \A j \in 1..k : u[j] = f[j]
      BY <2>1
    <3>4. u[m] = line
      BY <2>1
    <3> HIDE DEF u, f, line
    <3>5. /\ f \in Seq(Text) /\ Len(f) = k /\ line \in Text /\ k \in Nat /\ m = k + 1
          /\ u \in Seq(Text) /\ Len(u) = m /\ t = Append(f, line)
      BY <2>1, <2>3, <3>1, <3>2 DEF f, u
    <3> HIDE DEF t, m
    <3>6. /\ t \in Seq(Text) /\ Len(t) = m /\ t[m] = line
          /\ \A j \in 1..k : t[j] = f[j]
      BY <3>5
    <3>7. ASSUME NEW j \in 1..Len(t) PROVE t[j] = u[j]
      <4>1. j \in 1..k \/ j = m
        BY <3>5, <3>6
      <4>2. QED
        BY <3>3, <3>4, <3>6, <4>1
    <3>8. t = u
      BY <3>5, <3>6, <3>7, SameSeq
    <3>9. QED
      BY <3>8 DEF t, u
  <2> HIDE DEF p, last, line, Got, First
  <2>6. /\ g.found = TRUE
        /\ m < Len(l.lines[i]) => /\ g.line = <<l.lines[i][m + 1]>>
                                  /\ BufAt(g.buf, LineAt(l, i, (m + 1) + 1))
        /\ m = Len(l.lines[i]) => /\ g.line = <<>> /\ BufAt(g.buf, ContentAt(l, i))
    <3> DEFINE f == last.buf
    <3>1. BufAt(f, p) /\ p = LineAt(l, i, m + 1) /\ m \in 0..Len(l.lines[i])
      BY <2>1, <2>2
    <3> HIDE DEF f, m
    <3>2. QED
      BY <3>1, NextHeaderLine DEF f
  <2> HIDE DEF g, m
  <2>7. it[m].last = g /\ it[m].lines = First(m)
    BY <2>4, <2>5
  <2>8. Got(m)
    BY <2>6, <2>7 DEF Got
  <2>9. QED
    BY <2>1, <2>8 DEF m
<1>8. Got(n)
  <2> HIDE DEF G
  <2>1. \A k \in 0..n : k \in G
    BY <1>4, <1>6, <1>7, Upward
  <2>2. n \in G
    BY <1>4, <2>1
  <2>3. QED
    BY <2>2 DEF G
<1> HIDE DEF G
<1> DEFINE h == it[n]
           R == {k \in 0..N : k >= n => it[k] = h}
<1>9. h.lines = First(n) /\ h.last.line = <<>> /\ BufAt(h.last.buf, ContentAt(l, i))
  BY <1>8
<1> HIDE DEF Got, First
<1>10. HeaderStep(h) = h
  BY <1>9, Zenon DEF HeaderStep
<1>11. 0 \in R
  <2>1. ASSUME 0 >= n PROVE n = 0
    BY <1>4, <2>1
  <2>2. 0 \in 0..N
    BY <1>4
  <2>3. QED
    BY <2>1, <2>2
<1>12. ASSUME NEW k \in 0..N - 1, k \in R PROVE k + 1 \in R
  <2>1. k + 1 \in 0..N /\ it[k + 1] = HeaderStep(it[k])
    BY <1>3, <1>4
  <2>2. CASE k >= n
    <3>1. it[k] = h
      BY <1>12, <2>2
    <3>2. it[k + 1] = h
      BY <1>10, <2>1, <3>1
    <3>3. QED
      BY <2>1, <3>2
  <2>3. CASE ~ (k >= n)
    <3>1. k + 1 >= n => k + 1 = n
      BY <1>4, <2>3
    <3>2. QED
      BY <2>1, <3>1
  <2>4. QED
    BY <2>2, <2>3
<1> HIDE DEF R
<1>13. it[N] = h
  <2>1. \A k \in 0..N : k \in R
    BY <1>4, <1>11, <1>12, Upward
  <2>2. N \in R
    BY <1>4, <2>1
  <2>3. QED
    BY <1>4, <2>2 DEF R
<1> HIDE DEF h
<1>14. HeaderLines(b) = [found |-> TRUE, lines |-> h.lines, buf |-> h.last.buf]
  BY <1>3, <1>13
<1>15. /\ HeaderLines(b).found = TRUE /\ HeaderLines(b).lines = h.lines
       /\ HeaderLines(b).buf = h.last.buf
  BY <1>14
<1>16. First(n) = HeadersRead(l, i)
  BY DEF First, HeadersRead
<1>17. QED
  BY <1>9, <1>15, <1>16

-----------------------------------------------------------------------------
(* What is read of a content.                                              *)

\* A prefix agrees in every place.
LEMMA PrefixFacts ==
  ASSUME NEW S, NEW a \in Seq(S), NEW b \in Seq(S)
  PROVE  IsPrefix(a, b) <=> (Len(a) <= Len(b) /\ \A i \in 1..Len(a) : a[i] = b[i])
<1> DEFINE n == Len(a)
           x == SubSeq(a, 1, n)
           y == SubSeq(b, 1, n)
<1>1. IsPrefix(a, b) <=> (n <= Len(b) /\ x = y)
  BY Zenon DEF IsPrefix
<1>2. ASSUME n <= Len(b)
      PROVE  x = y <=> \A i \in 1..n : a[i] = b[i]
  <2>1. 1 \in Nat \ {0} /\ n \in 0..Len(a) /\ n \in 0..Len(b) /\ n \in Nat
    BY <1>2
  <2> HIDE DEF n
  <2>2. /\ x \in Seq(S) /\ Len(x) = (IF 1 <= n THEN n - 1 + 1 ELSE 0)
        /\ \A i \in 1..Len(x) : x[i] = a[1 + i - 1]
    BY <2>1, SubSeqFacts
  <2>3. /\ y \in Seq(S) /\ Len(y) = (IF 1 <= n THEN n - 1 + 1 ELSE 0)
        /\ \A i \in 1..Len(y) : y[i] = b[1 + i - 1]
    BY <2>1, SubSeqFacts
  <2> HIDE DEF x, y
  <2>4. Len(x) = n /\ Len(y) = n
    BY <2>1, <2>2, <2>3
  <2>5. ASSUME NEW i \in 1..n PROVE x[i] = a[i] /\ y[i] = b[i]
    <3>1. 1 + i - 1 = i /\ i \in 1..Len(x) /\ i \in 1..Len(y)
      BY <2>1, <2>4
    <3>2. QED
      BY <2>2, <2>3, <3>1
  <2>6. ASSUME \A i \in 1..n : a[i] = b[i] PROVE x = y
    <3>1. Len(x) = Len(y) /\ \A i \in 1..Len(x) : x[i] = y[i]
      BY <2>4, <2>5, <2>6
    <3>2. QED
      BY <2>2, <2>3, <3>1, SameSeq
  <2>7. ASSUME x = y PROVE \A i \in 1..n : a[i] = b[i]
    BY <2>5, <2>7
  <2>8. QED
    BY <2>6, <2>7
<1>3. QED
  BY <1>1, <1>2

\* From y on, s has needle, or its beginning up to the end of s.
Agree(s, y, needle) == \A i \in 1..Len(needle) : y + i <= Len(s) => s[y + i] = needle[i]

\* Where a text may begin to agree with another.
LEMMA MatchFacts ==
  ASSUME NEW s \in Text, NEW needle \in Text
  PROVE  /\ Match(s, needle) \in 0..Len(s) /\ Agree(s, Match(s, needle), needle)
         /\ \A y \in 0..Len(s) : Agree(s, y, needle) => Match(s, needle) <= y
<1> DEFINE n == Len(s)
           m == Len(needle)
           Fits(i) == LET rest == SubSeq(s, i + 1, Len(s))
                      IN  IsPrefix(needle, rest) \/ IsPrefix(rest, needle)
           T == {i \in 0..Len(s) : Fits(i)}
<1>1. s \in Seq(Bytes) /\ needle \in Seq(Bytes) /\ n \in Nat /\ m \in Nat
  BY DEF Text
<1>2. ASSUME NEW y \in 0..n PROVE Fits(y) <=> Agree(s, y, needle)
  <2> DEFINE k == y + 1
             rest == SubSeq(s, k, n)
             r == n - y
  <2>1. k \in Nat \ {0} /\ n \in 0..Len(s)
    BY <1>1
  <2>2. rest \in Seq(Bytes) /\ Len(rest) = r /\ \A i \in 1..r : rest[i] = s[y + i]
    <3>1. /\ rest \in Seq(Bytes) /\ Len(rest) = (IF k <= n THEN n - k + 1 ELSE 0)
          /\ \A i \in 1..Len(rest) : rest[i] = s[k + i - 1]
      <4> HIDE DEF k, n
      <4>1. QED
        BY <1>1, <2>1, SubSeqFacts
    <3> HIDE DEF rest
    <3>2. Len(rest) = r
      BY <1>1, <3>1
    <3>3. ASSUME NEW i \in 1..r PROVE k + i - 1 = y + i /\ i \in 1..Len(rest)
      BY <1>1, <3>2
    <3>4. QED
      BY <3>1, <3>2, <3>3
  <2>3. Fits(y) <=> (IsPrefix(needle, rest) \/ IsPrefix(rest, needle))
    OBVIOUS
  <2> HIDE DEF rest, Fits
  <2>4. IsPrefix(needle, rest) <=> (m <= r /\ \A i \in 1..m : needle[i] = rest[i])
    BY <1>1, <2>2, PrefixFacts
  <2>5. IsPrefix(rest, needle) <=> (r <= m /\ \A i \in 1..r : rest[i] = needle[i])
    BY <1>1, <2>2, PrefixFacts
  <2> HIDE DEF m, n
  <2>6. r \in Nat /\ r = n - y /\ y \in Nat
    BY <1>1
  <2> HIDE DEF r
  <2>7. Agree(s, y, needle) <=> \A i \in 1..m : i <= r => s[y + i] = needle[i]
    <3>1. ASSUME NEW i \in 1..m PROVE y + i <= Len(s) <=> i <= r
      BY <1>1, <2>6 DEF n
    <3>2. QED
      BY <3>1 DEF Agree, m
  <2>8. CASE m <= r
    <3>1. \A i \in 1..m : i <= r /\ i \in 1..r
      BY <1>1, <2>6, <2>8
    <3>2. r <= m => m = r
      BY <1>1, <2>6, <2>8
    <3>3. QED
      BY <2>2, <2>3, <2>4, <2>5, <2>7, <2>8, <3>1, <3>2
  <2>9. CASE ~ (m <= r)
    <3>1. r <= m /\ \A i \in 1..r : i <= r /\ i \in 1..m
      BY <1>1, <2>6, <2>9
    <3>2. \A i \in 1..m : i <= r => i \in 1..r
      BY <1>1, <2>6
    <3>3. QED
      BY <2>2, <2>3, <2>4, <2>5, <2>7, <2>9, <3>1, <3>2
  <2>10. QED
    BY <2>8, <2>9
<1>3. Match(s, needle) = Min(T)
  BY Zenon DEF Match, Fits
<1>4. n \in T
  <2>1. Agree(s, n, needle)
    <3>1. \A i \in 1..m : ~ (n + i <= n)
      BY <1>1
    <3>2. QED
      BY <3>1 DEF Agree
  <2> HIDE DEF Fits
  <2>2. n \in 0..n
    BY <1>1
  <2>3. Fits(n)
    BY <1>2, <2>1, <2>2
  <2>4. QED
    BY <2>2, <2>3
<1> HIDE DEF Fits
<1>5. Min(T) \in T /\ \A y \in T : Min(T) <= y
  <2>1. T \in SUBSET Nat /\ T # {}
    BY <1>1, <1>4
  <2> HIDE DEF T
  <2>2. QED
    BY <2>1, MinNumber
<1> DEFINE x == Min(T)
<1>6. x \in 0..n /\ Fits(x)
  BY <1>5
<1>7. \A y \in 0..n : Fits(y) => x <= y
  <2>1. ASSUME NEW y \in 0..n, Fits(y) PROVE y \in T
    BY <2>1
  <2>2. QED
    BY <1>5, <2>1
<1> HIDE DEF T, x
<1>8. Match(s, needle) = x
  BY <1>3 DEF x
<1>9. QED
  BY <1>2, <1>6, <1>7, <1>8

\* Data without its first bytes is still in the memory.
LEMMA StillInBounds ==
  ASSUME NEW first \in Nat, NEW n \in Nat, InBounds(first, n), NEW k \in Nat, k <= n,
         NEW begin, NEW m, begin = first + k, m = n - k
  PROVE  InBounds(begin, m)
BY BufSizeType DEF InBounds

\* The first k bytes of the data are taken.
LEMMA TakeAt ==
  ASSUME Calm, NEW b, NEW p, BufAt(b, p), NEW k \in 0..b.n,
         NEW g, g = [b EXCEPT !.begin = @ + k, !.n = @ - k]
  PROVE  /\ BufAt(g, p + k)
         /\ SubSeq(Buffered(b), 1, k) = SubSeq(request.body, p + 1, p + k)
<1> DEFINE data == Buffered(b)
           n == b.n
           first == b.begin
           begin == first + k
           m == n - k
           c == b.client
           mem == b.mem
           body == request.body
           all == Len(body)
<1>1. /\ b \in Buffers /\ mem \in [1..BufSize + 1 -> Bytes] /\ first \in Nat /\ n \in Nat
      /\ c \in Clients /\ c.at \in 0..all
      /\ InBounds(first, n) /\ p \in Nat /\ p + n = c.at
      /\ c.remaining = Left(c.at)
      /\ data \in Text /\ Len(data) = n
      /\ \A i \in 1..n : data[i] = body[p + i]
  BY BufAtFields
<1>2. body \in Seq(Bytes) /\ all \in Nat /\ BufSize \in Nat
  BY BodyType, BufSizeType DEF Calm
<1>3. k \in Nat /\ k <= n /\ begin \in Nat /\ m \in Nat /\ p + k \in Nat /\ (p + k) + m = c.at
  BY <1>1
<1>4. g = Changed(b, mem, begin, m, c)
  <2>1. g = [b EXCEPT !.begin = begin, !.n = m]
    OBVIOUS
  <2> HIDE DEF begin, m
  <2>2. QED
    BY <1>1, <2>1 DEF Changed, Buffers
<1> HIDE DEF begin, m, mem, c, n, first, data, body, all
<1>5. g \in Buffers /\ g.mem = mem /\ g.begin = begin /\ g.n = m /\ g.client = c
  <2>1. b \in Buffers /\ begin \in Nat /\ m \in Nat /\ c \in Clients
    BY <1>1, <1>3
  <2>2. mem \in [1..BufSize + 1 -> Bytes]
    BY <1>1
  <2> DEFINE h == Changed(b, mem, begin, m, c)
  <2>3. h \in Buffers /\ h.mem = mem /\ h.begin = begin /\ h.n = m /\ h.client = c
    BY <2>1, <2>2, ChangedFields
  <2>4. g = h
    BY <1>4
  <2> HIDE DEF h
  <2>5. QED
    BY <2>3, <2>4
<1>6. begin = first + k /\ m = n - k
  BY DEF begin, m
<1>7. InBounds(begin, m)
  <2>1. first \in Nat /\ n \in Nat /\ InBounds(first, n) /\ k \in Nat /\ k <= n
    BY <1>1, <1>3
  <2>2. k \in Nat /\ k <= n /\ first + k \in Nat
    BY <2>1
  <2>3. QED
    BY <1>2, <1>6, <2>1, <2>2, StillInBounds
<1>8. ASSUME NEW i \in 1..m PROVE ByteAt(g, begin + i - 1) = body[(p + k) + i]
  <2> DEFINE j == k + i
  <2>0. /\ first \in Nat /\ n \in Nat /\ k \in Nat /\ k <= n /\ p \in Nat /\ i \in 1..m
        /\ begin = first + k /\ m = n - k /\ j = k + i
    BY <1>1, <1>3, <1>6, <1>8
  <2> HIDE DEF j, begin, m, first, n
  <2>1. j \in 1..n /\ begin + i - 1 = first + j - 1 /\ (p + k) + i = p + j
    BY <2>0
  <2>2. ByteAt(b, first + j - 1) = body[p + j]
    BY <2>1 DEF BufAt, first, body, n
  <2>3. ByteAt(g, first + j - 1) = ByteAt(b, first + j - 1)
    BY <1>5 DEF ByteAt, mem
  <2>4. QED
    BY <2>1, <2>2, <2>3
<1>9. BufAt(g, p + k)
  <2>1. GoodBuffer(g)
    BY <1>5, <1>7 DEF GoodBuffer
  <2>2. (p + k) + g.n = g.client.at /\ g.client.remaining = Left(g.client.at)
    BY <1>1, <1>3, <1>5
  <2>3. \A i \in 1..g.n : ByteAt(g, g.begin + i - 1) = request.body[(p + k) + i]
    BY <1>5, <1>8 DEF body
  <2>4. QED
    BY <1>3, <2>1, <2>2, <2>3 DEF BufAt
<1>10. SubSeq(data, 1, k) = SubSeq(body, p + 1, p + k)
  <2> DEFINE q == p + 1
             r == p + k
             s == SubSeq(data, 1, k)
             t == SubSeq(body, q, r)
  <2>1. 1 \in Nat \ {0} /\ q \in Nat \ {0} /\ k \in 0..Len(data) /\ r \in 0..all
    <3> DEFINE to == c.at
               long == Len(data)
    <3>1. /\ to <= all /\ to \in Nat /\ r + m = to /\ all \in Nat /\ long = n /\ n \in Nat
          /\ p \in Nat /\ k \in Nat /\ k <= n /\ m \in Nat
      BY <1>1, <1>2, <1>3
    <3> HIDE DEF to, long, m, n, all, data
    <3>2. q \in Nat \ {0} /\ k \in 0..long /\ r \in 0..all
      BY <3>1
    <3>3. QED
      BY <3>2 DEF long
  <2>2. data \in Seq(Bytes)
    BY <1>1 DEF Text
  <2>5. q = p + 1 /\ r = p + k
    OBVIOUS
  <2> HIDE DEF q, r
  <2>3. /\ s \in Seq(Bytes) /\ Len(s) = (IF 1 <= k THEN k - 1 + 1 ELSE 0)
        /\ \A i \in 1..Len(s) : s[i] = data[1 + i - 1]
    BY <2>1, <2>2, SubSeqFacts
  <2>4. /\ t \in Seq(Bytes) /\ Len(t) = (IF q <= r THEN r - q + 1 ELSE 0)
        /\ \A i \in 1..Len(t) : t[i] = body[q + i - 1]
    BY <1>2, <2>1, SubSeqFacts DEF all
  <2> HIDE DEF s, t
  <2>6. Len(s) = k /\ Len(t) = k
    <3> DEFINE v == Len(s)
               w == Len(t)
    <3>1. /\ v = (IF 1 <= k THEN k - 1 + 1 ELSE 0) /\ w = (IF q <= r THEN r - q + 1 ELSE 0)
          /\ k \in Nat /\ p \in Nat
      BY <1>1, <1>3, <2>3, <2>4
    <3> HIDE DEF v, w
    <3>2. v = k /\ w = k
      BY <2>5, <3>1
    <3>3. QED
      BY <3>2 DEF v, w
  <2>7. ASSUME NEW i \in 1..Len(s) PROVE s[i] = t[i]
    <3>1. i \in 1..n /\ 1 + i - 1 = i /\ q + i - 1 = p + i /\ i \in 1..Len(t)
      BY <1>1, <1>3, <2>5, <2>6
    <3>2. QED
      BY <1>1, <2>3, <2>4, <3>1
  <2>8. s = t
    BY <2>3, <2>4, <2>6, <2>7, SameSeq
  <2>9. QED
    BY <2>8 DEF s, t, q, r
<1>11. QED
  BY <1>9, <1>10 DEF data, body

\* What multipart_buffer_read looks at.
LEMMA FilledAt ==
  ASSUME NEW l, Whole(l), NEW b, NEW p, BufAt(b, p),
         NEW f, f = IF FILLUNIT > b.n THEN FillBuffer(b) ELSE b
  PROVE  /\ BufAt(f, p) /\ f.n \in Nat /\ f.n <= FILLUNIT
         /\ f.client.at \in Nat /\ p + f.n = f.client.at
         /\ f.n = FILLUNIT \/ (f.client.at \in request.ends /\ f.client.at > p)
            \/ f.client.at >= Len(request.body) - Len(Delimiter)
<1>1. Calm /\ BufSize = FILLUNIT /\ FILLUNIT \in Nat
  BY WholeFacts
<1>2. ASSUME NEW g, BufAt(g, p)
      PROVE  /\ g.n \in Nat /\ g.n <= FILLUNIT /\ g.client.at \in Nat /\ p + g.n = g.client.at
             /\ p \in Nat
  <2>1. g.n \in Nat /\ InBounds(g.begin, g.n) /\ g.begin \in Nat /\ g.client.at \in 0..Len(request.body)
        /\ p + g.n = g.client.at /\ p \in Nat
    BY <1>1, <1>2, BufAtFields
  <2>2. g.n <= FILLUNIT
    BY <1>1, <2>1 DEF InBounds
  <2>3. QED
    BY <2>1, <2>2
<1>3. CASE FILLUNIT > b.n
  <2> DEFINE h == FillBuffer(b)
  <2>1. BufAt(h, p) /\ Cut(b, h)
    BY <1>1, FillAt
  <2>2. f = h
    BY <1>3
  <2> HIDE DEF h
  <2>3. b.n \in Nat /\ p + b.n = b.client.at /\ b.client.at \in Nat /\ p \in Nat
    BY <1>2
  <2>4. /\ f.n \in Nat /\ f.n <= FILLUNIT /\ f.client.at \in Nat /\ p + f.n = f.client.at
    BY <1>2, <2>1, <2>2
  <2>5. f.client.at > b.client.at => f.client.at > p
    BY <2>3, <2>4
  <2>6. QED
    BY <1>1, <2>1, <2>2, <2>4, <2>5 DEF Cut
<1>4. CASE ~ (FILLUNIT > b.n)
  <2>1. f = b
    BY <1>4
  <2>2. f.n \in Nat /\ f.n <= FILLUNIT /\ f.client.at \in Nat /\ p + f.n = f.client.at /\ BufAt(f, p)
    BY <1>2, <2>1
  <2>3. f.n = FILLUNIT
    BY <1>1, <1>4, <2>1, <2>2
  <2>4. QED
    BY <2>2, <2>3
<1>5. QED
  BY <1>3, <1>4

\* How much of the data multipart_buffer_read gives: nothing past the content,
\* and at least a byte of what is left of it.
DataAt(data, p, n) ==
  data \in Text /\ Len(data) = n /\ \A j \in 1..n : data[j] = request.body[p + j]
StopsAt(at, p, n) ==
  /\ at \in Nat /\ at = p + n /\ at <= Len(request.body) /\ n <= FILLUNIT
  /\ n = FILLUNIT \/ (at \in request.ends /\ at > p)
     \/ at >= Len(request.body) - Len(Delimiter)
ReadOf(data, n) ==
  LET max == Match(data, NextDelimiter)
      len == Min({max, FILLUNIT - 1})
  IN  IF max < n /\ len > 0 /\ data[len] = CR THEN len - 1 ELSE len

\* That is how much is given, wherever the data ends.
LEMMA ReadLength ==
  ASSUME NEW l, Whole(l), NEW i \in 1..Amount,
         NEW c, c = ContentAt(l, i), NEW e, e = EndAt(l, i),
         NEW p \in Nat, c <= p, p <= e, NEW n \in Nat,
         NEW data, DataAt(data, p, n), NEW at, StopsAt(at, p, n),
         NEW long, long = ReadOf(data, n)
  PROVE  long \in 0..n /\ long <= e - p /\ (p < e => long > 0)
<1> DEFINE dl == Len(Delimiter)
           W == FILLUNIT
           m == (e + 1) - p
           all == Len(request.body)
           body == request.body
           nd == NextDelimiter
           next == e + 2
           x == Match(data, nd)
           len == Min({x, W - 1})
<1>1. /\ c \in Nat /\ e \in Nat /\ c >= 1 /\ c <= p /\ p <= e /\ all \in Nat /\ dl \in Nat
      /\ l.starts[i + 1] = next
  <2>1. /\ c \in Nat /\ e \in Nat /\ c >= l.starts[i] + Len(Delimiter) + 4 /\ all \in Nat
        /\ Len(Delimiter) \in Nat /\ l.starts[i] \in Nat /\ l.starts[i + 1] = e + 2
    BY PartNumbers
  <2> DEFINE s == l.starts[i]
  <2>2. s \in Nat /\ c >= s + dl + 4 /\ dl \in Nat /\ c \in Nat
    BY <2>1
  <2> HIDE DEF s, dl
  <2>3. c >= 1
    BY <2>2
  <2>4. QED
    BY <2>1, <2>3 DEF dl
<1>2. next + dl + 4 <= all
  <2> DEFINE k == i + 1
  <2>1. k \in 1..Amount + 1 /\ l.starts[k] = next
    BY <1>1, WholeFacts
  <2> HIDE DEF k
  <2>2. QED
    BY <2>1, DelimiterAt
<1>3. W \in Nat /\ W >= dl + 4 /\ Calm
  BY WholeFacts
<1>4. /\ body[e + 1] = CR /\ body[e + 2] = LF /\ LF # CR
      /\ \A j \in 1..dl : body[next + j] = Delimiter[j]
  <2>0. dl = Len(Delimiter)
    OBVIOUS
  <2> HIDE DEF dl
  <2>1. request.body[e + 1] = CR /\ request.body[e + 2] = LF /\ Holds(e + 2, Delimiter)
    BY <2>0, PartBytes
  <2>2. LF # CR
    BY DEF LF, CR
  <2>3. QED
    BY <2>0, <2>1, <2>2 DEF Holds
<1>5. /\ nd \in Text /\ Len(nd) = dl + 1 /\ nd[1] = LF
      /\ \A j \in 1..dl : nd[j + 1] = Delimiter[j]
      /\ \A j \in 1..dl : Delimiter[j] # LF /\ Delimiter[j] # CR
  BY DelimiterType, WholeFacts
<1>8. /\ at = p + n /\ at <= all /\ at \in Nat /\ n \in Nat /\ n <= W
      /\ n = W \/ (at \in request.ends /\ at > p) \/ at >= all - dl
      /\ data \in Text /\ Len(data) = n /\ \A j \in 1..n : data[j] = body[p + j]
  BY DEF DataAt, StopsAt
<1>6. /\ x \in 0..n /\ Agree(data, x, nd)
      /\ \A y \in 0..n : Agree(data, y, nd) => x <= y
  <2>1. /\ Match(data, nd) \in 0..Len(data) /\ Agree(data, Match(data, nd), nd)
        /\ \A y \in 0..Len(data) : Agree(data, y, nd) => Match(data, nd) <= y
    BY <1>5, <1>8, MatchFacts
  <2>2. QED
    BY <1>8, <2>1
<1>7. \A o \in c - 1..e : ~ Holds(o, nd)
  <2>1. PartAt(l, i)
    BY WholeFacts
  <2>2. QED
    BY <2>1 DEF PartAt
<1>9. len \in {x, W - 1} /\ len <= x /\ len <= W - 1
  <2> DEFINE y == W - 1
  <2>1. x \in Nat /\ y \in Nat
    BY <1>3, <1>6
  <2> HIDE DEF y
  <2>2. Min({x, y}) \in {x, y} /\ Min({x, y}) <= x /\ Min({x, y}) <= y
    BY <2>1, LessOf
  <2>3. QED
    BY <2>2 DEF y
<1>10. m \in Nat /\ m >= 1 /\ p + m = e + 1
  BY <1>1
<1>16. long = IF x < n /\ len > 0 /\ data[len] = CR THEN len - 1 ELSE len
  BY Zenon DEF ReadOf
<1>17. x \in Nat /\ x <= n
  BY <1>6, <1>8
<1>18. next = e + 2 /\ m = (e + 1) - p
  OBVIOUS
<1>19. c \in Nat /\ e \in Nat /\ c >= 1 /\ c <= p /\ p <= e /\ all \in Nat /\ dl \in Nat
  BY <1>1
<1> HIDE DEF dl, W, m, all, body, nd, next, x, len
<1>20. /\ c \in Nat /\ e \in Nat /\ c >= 1 /\ c <= p /\ p <= e /\ all \in Nat /\ dl \in Nat
       /\ at = p + n /\ at <= all /\ at \in Nat /\ n \in Nat /\ n <= W /\ p \in Nat
       /\ W \in Nat /\ W >= dl + 4 /\ m \in Nat /\ m >= 1 /\ p + m = e + 1
       /\ x \in Nat /\ x <= n /\ e + 2 + dl + 4 <= all
  BY <1>2, <1>3, <1>8, <1>10, <1>17, <1>18, <1>19
<1>11. ASSUME x < n, p + x <= e PROVE n < x + dl + 1
  <2>1. SUFFICES ASSUME ~ (n < x + dl + 1) PROVE FALSE
    OBVIOUS
  <2> DEFINE o == p + x
  <2>2. x + dl + 1 <= n /\ o \in c - 1..e /\ o + (dl + 1) <= all
    BY <1>11, <1>20, <2>1
  <2>3. ASSUME NEW j \in 1..dl + 1 PROVE body[o + j] = nd[j]
    <3>1. x + j <= n /\ x + j \in 1..n /\ p + (x + j) = o + j
      BY <1>20, <2>2
    <3>2. data[x + j] = nd[j]
      BY <1>5, <1>6, <1>8, <3>1 DEF Agree
    <3>3. data[x + j] = body[p + (x + j)]
      BY <1>8, <3>1
    <3>4. QED
      BY <3>1, <3>2, <3>3
  <2>4. Holds(o, nd)
    BY <1>5, <2>2, <2>3 DEF Holds, body, all
  <2>5. QED
    BY <1>7, <2>2, <2>4
<1>12. CASE at >= e + 2
  <2>1. n >= m + 1 /\ m \in 0..n
    BY <1>12, <1>20
  <2>2. ASSUME NEW j \in 1..dl + 1, m + j <= n PROVE data[m + j] = nd[j]
    <3>1. m + j \in 1..n /\ p + (m + j) = (e + 1) + j
      BY <1>20, <2>2
    <3>2. data[m + j] = body[(e + 1) + j]
      BY <1>8, <3>1
    <3>3. CASE j = 1
      <4>1. (e + 1) + j = e + 2
        BY <1>1, <3>3
      <4>2. QED
        BY <1>4, <1>5, <3>2, <3>3, <4>1
    <3>4. CASE j # 1
      <4> DEFINE k == j - 1
      <4>1. k \in 1..dl /\ k + 1 = j /\ next + k = (e + 1) + j
        BY <1>18, <1>20, <3>4
      <4> HIDE DEF k
      <4>2. body[next + k] = Delimiter[k] /\ nd[k + 1] = Delimiter[k]
        BY <1>4, <1>5, <4>1
      <4>3. QED
        BY <3>2, <4>1, <4>2
    <3>5. QED
      BY <3>3, <3>4
  <2>3. x <= m
    <3>1. Agree(data, m, nd)
      BY <1>5, <1>8, <2>2 DEF Agree
    <3>2. QED
      BY <1>6, <2>1, <3>1
  <2>4. ASSUME x < m PROVE FALSE
    <3>1. x < n /\ p + x <= e
      BY <1>20, <2>1, <2>4
    <3>2. n < x + dl + 1
      BY <1>11, <3>1
    <3> DEFINE j == (m + 1) - x
               k == m - x
    <3>3. j \in 1..dl + 1 /\ x + j = m + 1 /\ k \in 1..dl /\ k + 1 = j /\ x + j <= n
          /\ m + 1 \in 1..n /\ p + (m + 1) = e + 2
      BY <1>20, <2>1, <2>4, <3>2
    <3> HIDE DEF j, k
    <3>4. data[x + j] = nd[j]
      BY <1>5, <1>6, <1>8, <3>3 DEF Agree
    <3>5. nd[j] = Delimiter[k] /\ Delimiter[k] # LF
      BY <1>5, <3>3
    <3>6. data[m + 1] = body[e + 2]
      BY <1>8, <3>3
    <3>7. QED
      BY <1>4, <3>3, <3>4, <3>5, <3>6
  <2>5. x = m
    BY <1>20, <2>3, <2>4
  <2>6. len = m
    BY <1>9, <1>20, <2>1, <2>5
  <2>7. data[m] = CR
    <3>1. m \in 1..n
      BY <1>10, <2>1
    <3>2. data[m] = body[p + m]
      BY <1>8, <3>1
    <3>3. QED
      BY <1>4, <1>10, <3>2
  <2>8. x < n /\ len > 0 /\ data[len] = CR
    BY <1>20, <2>1, <2>5, <2>6, <2>7
  <2>9. long = m - 1
    BY <1>16, <2>6, <2>8
  <2>10. QED
    BY <1>20, <2>1, <2>9
<1>13. CASE at = e + 1
  <2>1. n = m
    BY <1>13, <1>20
  <2>2. at \notin request.ends
    <3>1. SUFFICES ASSUME at \in request.ends PROVE FALSE
      OBVIOUS
    <3>2. at \in 0..Len(request.body)
      BY <1>8 DEF all
    <3>3. request.body[at] # CR
      BY <3>1, <3>2, EndFacts
    <3>4. QED
      BY <1>4, <1>13, <3>3 DEF body
  <2>3. n = W
    <3>1. ~ (at >= all - dl)
      BY <1>13, <1>20
    <3>2. QED
      BY <1>8, <2>2, <3>1
  <2>4. ASSUME x < n PROVE FALSE
    <3>1. p + x <= e
      BY <1>20, <2>1, <2>4
    <3>2. n < x + dl + 1
      BY <1>11, <2>4, <3>1
    <3> DEFINE j == n - x
               k == j - 1
    <3>3. j \in 1..dl + 1 /\ x + j = n /\ x + j <= n /\ (j = 1 \/ (k \in 1..dl /\ k + 1 = j))
          /\ n \in 1..n
      BY <1>20, <2>1, <2>4, <3>2
    <3>4. j \in 1..dl + 1 /\ x + j = n /\ x + j <= n
      BY <3>3
    <3> HIDE DEF j, k
    <3>5. data[x + j] = nd[j]
      BY <1>5, <1>6, <1>8, <3>4 DEF Agree
    <3>6. nd[j] # CR
      BY <1>4, <1>5, <3>3
    <3>7. data[n] = body[p + n]
      BY <1>8, <3>3
    <3>8. p + n = e + 1
      BY <1>8, <1>13
    <3>9. QED
      BY <1>4, <3>4, <3>5, <3>6, <3>7, <3>8
  <2>5. x = n
    BY <1>20, <2>4
  <2>6. len = W - 1
    BY <1>9, <1>20, <2>3, <2>5
  <2>7. long = m - 1
    BY <1>16, <1>20, <2>1, <2>3, <2>5, <2>6
  <2>8. QED
    BY <1>20, <2>1, <2>7
<1>14. CASE at <= e
  <2>1. n <= e - p /\ ~ (at >= all - dl)
    BY <1>14, <1>20
  <2>2. n = W \/ (at \in request.ends /\ at > p)
    BY <1>8, <2>1
  <2>3. n >= 1
    BY <1>20, <2>2
  <2>4. CASE x = n
    <3>1. long = len /\ len >= 1 /\ len <= n /\ len \in Nat
      BY <1>9, <1>16, <1>20, <2>3, <2>4
    <3>2. long \in Nat /\ long >= 1 /\ long <= n
      BY <3>1
    <3>3. QED
      BY <1>20, <2>1, <3>2
  <2>5. CASE x < n
    <3>1. p + x <= e
      BY <1>20, <2>1, <2>5
    <3>2. n < x + dl + 1
      BY <1>11, <2>5, <3>1
    <3>3. ASSUME at \in request.ends, at > p PROVE FALSE
      <4> DEFINE k == n - x
      <4>1. k \in 1..dl + 1 /\ k <= at + 1 /\ at \in 0..all /\ c < at /\ at <= e /\ k \in Nat
            /\ x + k = n
        BY <1>14, <1>20, <2>5, <3>2, <3>3
      <4>2. ASSUME NEW j \in 1..k
            PROVE  /\ nd[j] = body[at - k + j] /\ at - k + j # 0
        <5>1. x + j <= n /\ x + j \in 1..n /\ p + (x + j) = at - k + j /\ j \in 1..dl + 1
              /\ at - k + j # 0
          BY <1>20, <4>1
        <5>2. data[x + j] = nd[j]
          BY <1>5, <1>6, <1>8, <5>1 DEF Agree
        <5>3. data[x + j] = body[p + (x + j)]
          BY <1>8, <5>1
        <5>4. QED
          BY <5>1, <5>2, <5>3
      <4> HIDE DEF k
      <4>3. k \in 1..Len(Delimiter) + 1 /\ at \in 0..Len(request.body) /\ k <= at + 1
        BY <4>1 DEF dl, all
      <4>4. \A j \in 1..k : NextDelimiter[j] = IF at - k + j = 0 THEN LF
                                              ELSE request.body[at - k + j]
        BY <4>2 DEF nd, body
      <4>5. MayBeDelimiter(request.body, at)
        BY <1>3, <4>3, <4>4, MayBe
      <4>6. at <= EndAt(l, i)
        BY <4>1
      <4>7. ~ MayBeDelimiter(request.body, at)
        BY <3>3, <4>1, <4>6, EndInContent
      <4>8. QED
        BY <4>5, <4>7
    <3>4. n = W
      BY <2>2, <3>3
    <3>5. len = x /\ x >= 4
      BY <1>9, <1>20, <2>5, <3>2, <3>4
    <3>6. long \in {x, x - 1}
      BY <1>16, <3>5
    <3>7. QED
      BY <1>20, <2>1, <2>5, <3>5, <3>6
  <2>6. QED
    BY <1>20, <2>4, <2>5
<1>15. QED
  BY <1>20, <1>12, <1>13, <1>14

\* multipart_buffer_read gives the next bytes of the content.
LEMMA ReadAt ==
  ASSUME NEW l, Whole(l), NEW i \in 1..Amount,
         NEW c, c = ContentAt(l, i), NEW e, e = EndAt(l, i),
         NEW p \in Nat, c <= p, p <= e, NEW b, BufAt(b, p),
         NEW r, r = MultipartBufferRead(b, FILLUNIT)
  PROVE  \E long \in Nat :
           /\ p + long <= e /\ (p < e => long > 0)
           /\ r.bytes = SubSeq(request.body, p + 1, p + long)
           /\ BufAt(r.buf, p + long)
<1> DEFINE f == IF FILLUNIT > b.n THEN FillBuffer(b) ELSE b
           data == Buffered(f)
           n == f.n
           at == f.client.at
           long == ReadOf(data, n)
           out == SubSeq(data, 1, long)
<1>1. r = [bytes |-> out, buf |-> [f EXCEPT !.begin = @ + Len(out), !.n = @ - Len(out)]]
  BY Zenon DEF MultipartBufferRead, ReadOf
<1> HIDE DEF f
<1>2. /\ BufAt(f, p) /\ f.n \in Nat /\ f.n <= FILLUNIT
      /\ f.client.at \in Nat /\ p + f.n = f.client.at
      /\ f.n = FILLUNIT \/ (f.client.at \in request.ends /\ f.client.at > p)
         \/ f.client.at >= Len(request.body) - Len(Delimiter)
  BY FilledAt DEF f
<1>3. Calm
  BY WholeFacts
<1>4. /\ data \in Text /\ Len(data) = n /\ \A j \in 1..n : data[j] = request.body[p + j]
      /\ at \in 0..Len(request.body)
  BY <1>2, <1>3, BufAtFields
<1>5. /\ at \in Nat /\ at = p + n /\ n \in Nat /\ n <= FILLUNIT
      /\ n = FILLUNIT \/ (at \in request.ends /\ at > p)
         \/ at >= Len(request.body) - Len(Delimiter)
  BY <1>2
<1>6. at <= Len(request.body)
  BY <1>4, BodyType, <1>3 DEF Calm
<1>7. DataAt(data, p, n) /\ StopsAt(at, p, n) /\ long = ReadOf(data, n) /\ n \in Nat
  BY <1>4, <1>5, <1>6 DEF DataAt, StopsAt
<1> HIDE DEF data, long, n, at
<1>8. long \in 0..n /\ long <= e - p /\ (p < e => long > 0)
  BY <1>7, ReadLength
<1>9. long \in Nat /\ p + long <= e
  BY <1>5, <1>8, PartNumbers
<1> DEFINE g == [f EXCEPT !.begin = @ + long, !.n = @ - long]
<1>10. BufAt(g, p + long) /\ SubSeq(Buffered(f), 1, long) = SubSeq(request.body, p + 1, p + long)
  <2>1. long \in 0..f.n
    BY <1>8 DEF n
  <2>2. QED
    BY <1>2, <1>3, <2>1, TakeAt
<1>11. Len(out) = long
  <2>1. data \in Seq(Bytes) /\ long \in 0..Len(data) /\ 1 \in Nat \ {0}
    BY <1>4, <1>8 DEF Text
  <2>2. Len(SubSeq(data, 1, long)) = IF 1 <= long THEN long - 1 + 1 ELSE 0
    BY <2>1, SubSeqFacts
  <2>3. QED
    BY <1>9, <2>2
<1>12. r.bytes = out /\ r.buf = g
  <2> HIDE DEF out
  <2>1. QED
    BY <1>1, <1>11
<1>13. QED
  BY <1>8, <1>9, <1>10, <1>12 DEF data

\* After k passes of multipart_buffer_read_body: what was read of a content
\* that goes from byte c to byte e, and the piece that was read last.
ReadSoFar(c, e, k, t) ==
  \E p, q \in Nat :
    /\ c <= p /\ p <= q /\ q <= e /\ (p < e => p < q) /\ (p = e \/ c + k <= p)
    /\ t.bytes = SubSeq(request.body, c + 1, p)
    /\ t.last.bytes = SubSeq(request.body, p + 1, q)
    /\ BufAt(t.last.buf, q)

\* A piece of the body.
LEMMA BodyPiece ==
  ASSUME Calm, NEW p \in Nat, NEW q \in Nat, p <= q, q <= Len(request.body)
  PROVE  /\ SubSeq(request.body, p + 1, q) \in Seq(Bytes)
         /\ Len(SubSeq(request.body, p + 1, q)) = q - p
         /\ \A i \in 1..q - p : SubSeq(request.body, p + 1, q)[i] = request.body[p + i]
<1> DEFINE all == Len(request.body)
<1>1. request.body \in Seq(Bytes) /\ all \in Nat
  BY BodyType DEF Calm
<1>2. q \in p..all
  BY <1>1
<1>3. /\ SubSeq(request.body, p + 1, q) \in Seq(Bytes)
      /\ IsPiece(request.body, p, q, SubSeq(request.body, p + 1, q))
  BY <1>1, <1>2, PieceOf
<1>4. QED
  BY <1>3 DEF IsPiece

\* A pass keeps to the content, which has no NUL.
LEMMA BodyStepRest ==
  ASSUME NEW l, Whole(l), NEW i \in 1..Amount, Free(Content(i), {NUL}),
         NEW c, c = ContentAt(l, i), NEW e, e = EndAt(l, i),
         NEW k \in Nat, NEW t, ReadSoFar(c, e, k, t)
  PROVE  ReadSoFar(c, e, k + 1, BodyStep(t))
<1> DEFINE all == Len(request.body)
           body == request.body
<1>1. /\ c \in Nat /\ e \in Nat /\ e + 2 <= all /\ all \in Nat
  BY PartNumbers
<1>2. Calm /\ body \in Seq(Bytes)
  BY WholeFacts
<1>3. PICK p \in Nat, q \in Nat :
        /\ c <= p /\ p <= q /\ q <= e /\ (p < e => p < q) /\ (p = e \/ c + k <= p)
        /\ t.bytes = SubSeq(body, c + 1, p)
        /\ t.last.bytes = SubSeq(body, p + 1, q)
        /\ BufAt(t.last.buf, q)
  BY DEF ReadSoFar
<1>4. p <= all /\ q <= all /\ c <= q /\ q \in p..all /\ p \in c..all
  <2>1. /\ p \in Nat /\ q \in Nat /\ c <= p /\ p <= q /\ q <= e
        /\ c \in Nat /\ e \in Nat /\ e + 2 <= all /\ all \in Nat
    BY <1>1, <1>3
  <2> HIDE DEF all
  <2>2. QED
    BY <2>1
<1> DEFINE last == t.last.bytes
           r == MultipartBufferRead(t.last.buf, FILLUNIT)
<1>5. last \in Seq(Bytes) /\ Len(last) = q - p
  <2>1. /\ SubSeq(body, p + 1, q) \in Seq(Bytes) /\ Len(SubSeq(body, p + 1, q)) = q - p
    BY <1>2, <1>3, <1>4, BodyPiece
  <2>2. QED
    BY <1>3, <2>1
<1>6. CASE last # <<>>
  <2>0. CString(last) = last
    <3>1. /\ c \in Nat /\ e = c + Len(Content(i)) /\ Len(Content(i)) \in Nat
          /\ \A j \in 1..Len(Content(i)) : body[c + j] = Content(i)[j]
      <4>1. c \in Nat /\ e = c + Len(Content(i)) /\ Len(Content(i)) \in Nat
        BY PartNumbers
      <4>2. PartAt(l, i)
        BY WholeFacts
      <4>3. \A j \in 1..Len(Content(i)) : body[c + j] = Content(i)[j]
        BY <4>2 DEF PartAt, Holds
      <4>4. QED
        BY <4>1, <4>3
    <3>2. \A j \in 1..q - p : last[j] = body[p + j]
      BY <1>2, <1>3, <1>4, BodyPiece
    <3>3. ASSUME NEW j \in 1..Len(last) PROVE last[j] \notin {NUL}
      <4> DEFINE m == (p - c) + j
                 long == Len(Content(i))
      <4>1. p \in Nat /\ q \in Nat /\ c <= p /\ q <= e /\ j \in 1..q - p
        BY <1>3, <1>5, <3>3
      <4>2. c \in Nat /\ e = c + long /\ long \in Nat
        BY <3>1
      <4> HIDE DEF long
      <4>3. m \in 1..long /\ c + m = p + j
        BY <4>1, <4>2
      <4> HIDE DEF m, last
      <4>4. last[j] = Content(i)[m]
        BY <3>1, <3>2, <4>1, <4>3 DEF long
      <4>5. QED
        BY <4>3, <4>4 DEF Free, long
    <3> HIDE DEF last
    <3>4. last \in Text /\ Free(last, {NUL})
      BY <1>5, <3>3 DEF Text, Free
    <3>5. QED
      BY <3>4, CStringFree
  <2>1. BodyStep(t) = [bytes |-> t.bytes \o last, last |-> r]
    <3>1. BodyStep(t) = [bytes |-> t.bytes \o CString(last), last |-> r]
      BY <1>6, Zenon DEF BodyStep
    <3>2. QED
      BY <2>0, <3>1, Zenon
  <2>2. p < q
    <3>1. Len(last) # 0
      BY <1>5, <1>6
    <3>2. QED
      BY <1>3, <1>5, <3>1
  <2>3. t.bytes \o last = SubSeq(body, c + 1, q)
    <3> HIDE DEF body
    <3>1. body \in Seq(Bytes) /\ c \in Nat /\ p \in c..Len(body) /\ q \in p..Len(body)
      BY <1>1, <1>2, <1>4 DEF body
    <3>2. SubSeq(body, c + 1, p) \o SubSeq(body, p + 1, q) = SubSeq(body, c + 1, q)
      BY <3>1, PiecesJoin
    <3>3. QED
      BY <1>3, <3>2
  <2>4. PICK long \in Nat :
          /\ q + long <= e /\ (q < e => long > 0)
          /\ r.bytes = SubSeq(body, q + 1, q + long)
          /\ BufAt(r.buf, q + long)
    <3> DEFINE b == t.last.buf
    <3>1. BufAt(b, q) /\ r = MultipartBufferRead(b, FILLUNIT) /\ q \in Nat /\ c <= q /\ q <= e
      BY <1>3, <1>4
    <3> HIDE DEF b, r
    <3>2. QED
      BY <3>1, ReadAt
  <2> DEFINE n == q + long
  <2>5. /\ n \in Nat /\ c <= q /\ q <= n /\ n <= e /\ (q < e => q < n)
        /\ (q = e \/ c + (k + 1) <= q)
    <3>1. /\ p \in Nat /\ q \in Nat /\ c <= p /\ p <= q /\ q <= e /\ (p = e \/ c + k <= p)
          /\ c \in Nat /\ e \in Nat /\ long \in Nat /\ q + long <= e /\ (q < e => long > 0)
          /\ k \in Nat /\ n = q + long
      BY <1>1, <1>3, <2>4
    <3> HIDE DEF n
    <3>2. QED
      BY <2>2, <3>1
  <2> HIDE DEF n, r
  <2> DEFINE more == t.bytes \o last
  <2> HIDE DEF more, last
  <2>6. /\ BodyStep(t).bytes = SubSeq(body, c + 1, q) /\ BodyStep(t).last = r
    <3>1. BodyStep(t) = [bytes |-> more, last |-> r] /\ more = SubSeq(body, c + 1, q)
      BY <2>1, <2>3 DEF more
    <3> DEFINE new == BodyStep(t)
    <3>2. new = [bytes |-> more, last |-> r]
      BY <3>1
    <3> HIDE DEF new
    <3>3. new.bytes = more /\ new.last = r
      BY <3>2
    <3>4. QED
      BY <3>1, <3>3 DEF new
  <2>7. r.bytes = SubSeq(body, q + 1, n) /\ BufAt(r.buf, n)
    BY <2>4 DEF n
  <2>8. QED
    BY <1>3, <2>5, <2>6, <2>7 DEF ReadSoFar
<1>7. CASE last = <<>>
  <2>1. BodyStep(t) = t
    BY <1>7, Zenon DEF BodyStep
  <2>2. p = e
    <3>1. Len(last) = 0
      BY <1>7
    <3>2. QED
      BY <1>1, <1>3, <1>5, <3>1
  <2>3. ReadSoFar(c, e, k + 1, t)
    BY <1>3, <2>2 DEF ReadSoFar
  <2>4. QED
    BY <2>1, <2>3
<1>8. QED
  BY <1>6, <1>7

\* multipart_buffer_read_body reads a content without NUL and stops behind it.
LEMMA ReadBodyWhole ==
  ASSUME NEW l, Whole(l), NEW i \in 1..Amount, Free(Content(i), {NUL}), NEW b, BufAt(b, ContentAt(l, i))
  PROVE  /\ MultipartBufferReadBody(b).bytes = Content(i)
         /\ BufAt(MultipartBufferReadBody(b).buf, EndAt(l, i))
<1> DEFINE N == Lines
           c == ContentAt(l, i)
           e == EndAt(l, i)
           body == request.body
<1>1. RequestTypeOK /\ GoodBuffer(b) /\ Calm
  BY WholeFacts DEF BufAt
<1>2. PICK it : ReadsBody(b, it)
  BY <1>1, ReadBodyLoop
<1>3. /\ it[0] = [bytes |-> <<>>, last |-> MultipartBufferRead(b, FILLUNIT)]
      /\ \A n \in 0..N - 1 : it[n + 1] = BodyStep(it[n])
      /\ MultipartBufferReadBody(b) = [bytes |-> it[N].bytes, buf |-> it[N].last.buf]
  BY <1>2 DEF ReadsBody
<1>4. /\ c \in Nat /\ e \in Nat /\ c >= 4 /\ e + 2 <= N /\ N \in Nat /\ e = c + Len(Content(i))
      /\ Content(i) \in Seq(Bytes) /\ Len(Content(i)) \in Nat /\ N = Len(body)
  <2> DEFINE s == l.starts[i]
             dl == Len(Delimiter)
  <2>1. /\ c \in Nat /\ e \in Nat /\ e = c + Len(Content(i)) /\ e + 2 <= N /\ N \in Nat
        /\ Content(i) \in Seq(Bytes) /\ Len(Content(i)) \in Nat /\ N = Len(body)
    BY PartNumbers DEF Text, Lines
  <2>2. c \in Nat /\ c >= s + dl + 4 /\ s \in Nat /\ dl \in Nat
    BY PartNumbers
  <2> HIDE DEF c, s, dl
  <2>3. c >= 4
    BY <2>2
  <2>4. QED
    BY <2>1, <2>3 DEF c
<1> DEFINE G == {k \in 0..N : ReadSoFar(c, e, k, it[k])}
           r == MultipartBufferRead(b, FILLUNIT)
<1> HIDE DEF N, c, e
<1>5. 0 \in G
  <2>1. PICK long \in Nat :
          /\ c + long <= e /\ (c < e => long > 0)
          /\ r.bytes = SubSeq(body, c + 1, c + long)
          /\ BufAt(r.buf, c + long)
    <3>1. BufAt(b, c) /\ c = ContentAt(l, i) /\ e = EndAt(l, i) /\ c \in Nat /\ c <= c /\ c <= e
      BY <1>4 DEF c, e
    <3> HIDE DEF r
    <3>2. r = MultipartBufferRead(b, FILLUNIT)
      BY DEF r
    <3>3. QED
      BY <3>1, <3>2, ReadAt
  <2> DEFINE n == c + long
  <2>2. n \in Nat /\ c <= c /\ c <= n /\ n <= e /\ (c < e => c < n) /\ (c = e \/ c + 0 <= c)
    BY <1>4, <2>1
  <2>3. SubSeq(body, c + 1, c) = <<>>
    <3>1. Len(SubSeq(body, c + 1, c)) = c - c /\ SubSeq(body, c + 1, c) \in Seq(Bytes)
      BY <1>1, <1>4, BodyPiece
    <3>2. QED
      BY <1>4, <3>1
  <2> HIDE DEF r, n
  <2>4. it[0].bytes = <<>> /\ it[0].last = r
    BY <1>3 DEF r
  <2>5. r.bytes = SubSeq(body, c + 1, n) /\ BufAt(r.buf, n)
    BY <2>1 DEF n
  <2>6. ReadSoFar(c, e, 0, it[0])
    BY <1>4, <2>2, <2>3, <2>4, <2>5 DEF ReadSoFar
  <2>7. QED
    BY <1>4, <2>6
<1>6. ASSUME NEW k \in 0..N - 1, k \in G PROVE k + 1 \in G
  <2>1. k \in Nat /\ k + 1 \in 0..N /\ it[k + 1] = BodyStep(it[k])
    BY <1>3, <1>4
  <2> DEFINE t == it[k]
  <2>2. ReadSoFar(c, e, k, t) /\ c = ContentAt(l, i) /\ e = EndAt(l, i)
    BY <1>6 DEF c, e
  <2> HIDE DEF t
  <2>3. ReadSoFar(c, e, k + 1, BodyStep(t))
    BY <2>1, <2>2, BodyStepRest
  <2>4. QED
    BY <2>1, <2>3 DEF t
<1> DEFINE t == it[N]
<1>7. ReadSoFar(c, e, N, t)
  <2> HIDE DEF G
  <2>1. \A k \in 0..N : k \in G
    BY <1>4, <1>5, <1>6, Upward
  <2>2. N \in G
    BY <1>4, <2>1
  <2>3. QED
    BY <2>2 DEF G
<1> HIDE DEF G, t
<1>8. PICK p \in Nat, q \in Nat :
        /\ c <= p /\ p <= q /\ q <= e /\ (p = e \/ c + N <= p)
        /\ t.bytes = SubSeq(body, c + 1, p) /\ BufAt(t.last.buf, q)
  BY <1>7 DEF ReadSoFar
<1>9. p = e /\ q = e
  BY <1>4, <1>8
<1>10. SubSeq(body, c + 1, e) = Content(i)
  <2> DEFINE s == SubSeq(body, c + 1, e)
             a == Content(i)
  <2>1. s \in Seq(Bytes) /\ Len(s) = e - c /\ \A j \in 1..e - c : s[j] = body[c + j]
    <3>1. c \in Nat /\ e \in Nat /\ c <= e /\ e <= Len(request.body)
      BY <1>4
    <3>2. QED
      BY <1>1, <3>1, BodyPiece
  <2> HIDE DEF s
  <2>2. PartAt(l, i)
    BY WholeFacts
  <2>3. \A j \in 1..Len(a) : body[c + j] = a[j]
    BY <2>2 DEF PartAt, Holds, c
  <2> HIDE DEF a
  <2>4. a \in Seq(Bytes) /\ Len(s) = Len(a)
    BY <1>4, <2>1 DEF a
  <2>5. ASSUME NEW j \in 1..Len(s) PROVE s[j] = a[j]
    <3>1. j \in 1..e - c /\ j \in 1..Len(a)
      BY <2>1, <2>4
    <3>2. QED
      BY <2>1, <2>3, <3>1
  <2>6. s = a
    BY <2>1, <2>4, <2>5, SameSeq
  <2>7. QED
    BY <2>6 DEF s, a
<1>11. MultipartBufferReadBody(b).bytes = t.bytes /\ MultipartBufferReadBody(b).buf = t.last.buf
  BY <1>3 DEF t
<1>12. QED
  BY <1>8, <1>9, <1>10, <1>11 DEF e

\* The beginning of a content is not taken for a delimiter.
LEMMA NotEmptyFile ==
  ASSUME NEW l, Whole(l), NEW i \in 1..Amount, NEW c, c = ContentAt(l, i),
         NEW b, BufAt(b, c), NEW f, f = FillBuffer(b)
  PROVE  ~ AtDelimiter(f)
<1> DEFINE dl == Len(Delimiter)
           e == EndAt(l, i)
           all == Len(request.body)
           body == request.body
           n == f.n
           at == f.client.at
           from == b.client.at
<1>1. BufAt(f, c) /\ Cut(b, f) /\ Calm
  BY FillAt, WholeFacts
<1>2. /\ n \in Nat /\ at \in 0..all /\ c + n = at
      /\ \A j \in 1..n : ByteAt(f, f.begin + j - 1) = body[c + j]
  <2>1. BufAt(f, c)
    BY <1>1
  <2>2. \A j \in 1..f.n : ByteAt(f, f.begin + j - 1) = request.body[c + j]
    BY <2>1 DEF BufAt
  <2>3. f.n \in Nat /\ f.client.at \in 0..Len(request.body) /\ c + f.n = f.client.at
    BY <1>1, <2>1, BufAtFields
  <2>4. QED
    BY <2>2, <2>3
<1>3. from \in Nat /\ from >= c
  <2> DEFINE k == b.n
  <2>1. k \in Nat /\ c + k = from /\ c \in Nat
    BY <1>1, BufAtFields
  <2> HIDE DEF k, from
  <2>2. QED
    BY <2>1
<1>4. /\ c \in Nat /\ e \in Nat /\ c <= e /\ c >= 4 /\ all \in Nat /\ dl \in Nat
      /\ e + 2 + dl + 4 <= all
  <2> DEFINE k == i + 1
             s == l.starts[i]
  <2>1. /\ c \in Nat /\ e \in Nat /\ e >= c /\ dl \in Nat /\ all \in Nat /\ s \in Nat
        /\ c >= s + dl + 4 /\ l.starts[k] = e + 2
    BY PartNumbers
  <2>2. k \in 1..Amount + 1
    BY WholeFacts
  <2>3. l.starts[k] + dl + 4 <= all
    <3> HIDE DEF k
    <3>1. QED
      BY <2>2, DelimiterAt
  <2> HIDE DEF s, k, dl, all, e
  <2>4. QED
    BY <2>1, <2>3
<1>5. /\ body[c] = LF /\ body[e + 1] = CR /\ body[e + 2] = LF
  <2>1. dl = Len(Delimiter)
    OBVIOUS
  <2>2. e = EndAt(l, i)
    OBVIOUS
  <2> HIDE DEF dl, e
  <2>3. QED
    BY <2>1, <2>2, PartBytes
<1>6. /\ NextDelimiter[1] = LF /\ Len(NextDelimiter) = dl + 1
      /\ \A j \in 1..dl : NextDelimiter[j + 1] = Delimiter[j]
      /\ \A j \in 1..dl : Delimiter[j] # LF
  BY DelimiterType, WholeFacts
<1>7. n = BufSize \/ (at \in request.ends /\ at > from)
      \/ at >= all - dl
  BY <1>1, WholeFacts DEF Cut
<1>8. BufSize \in Nat /\ BufSize >= dl + 4
  BY WholeFacts
<1>9. SUFFICES ASSUME AtDelimiter(f) PROVE FALSE
  OBVIOUS
<1>10. \A j \in 1..dl : ByteAt(f, f.begin + j - 1) = Delimiter[j]
  BY <1>9 DEF AtDelimiter
<1>11. ASSUME NEW j \in 1..n, j <= dl PROVE body[c + j] = Delimiter[j]
  <2>1. j \in 1..dl
    BY <1>2, <1>4, <1>11
  <2>2. QED
    BY <1>2, <1>10, <2>1
<1> HIDE DEF dl, e, all, body, n, at, from
<1>20. /\ n \in Nat /\ at \in Nat /\ at <= all /\ c + n = at /\ from \in Nat /\ from >= c
       /\ c \in Nat /\ e \in Nat /\ c <= e /\ c >= 4 /\ all \in Nat /\ dl \in Nat
       /\ e + 2 + dl + 4 <= all
  BY <1>2, <1>3, <1>4
<1>12. CASE n >= dl
  <2> DEFINE o == c - 1
  <2>1. ASSUME NEW j \in 1..dl + 1 PROVE body[o + j] = NextDelimiter[j]
    <3>1. CASE j = 1
      <4>1. o + j = c
        BY <1>20, <3>1
      <4>2. QED
        BY <1>5, <1>6, <3>1, <4>1
    <3>2. CASE j # 1
      <4> DEFINE k == j - 1
      <4>1. k \in 1..n /\ k <= dl /\ k \in 1..dl /\ k + 1 = j /\ c + k = o + j
        BY <1>12, <1>20, <3>2
      <4> HIDE DEF k, o
      <4>2. body[c + k] = Delimiter[k] /\ NextDelimiter[k + 1] = Delimiter[k]
        BY <1>6, <1>11, <4>1
      <4>3. QED
        BY <4>1, <4>2
    <3>3. QED
      BY <3>1, <3>2
  <2>2. o + (dl + 1) <= all /\ o \in c - 1..e
    BY <1>12, <1>20
  <2>3. Holds(o, NextDelimiter)
    <3> HIDE DEF o
    <3>1. QED
      BY <1>6, <2>1, <2>2 DEF Holds, all, body
  <2>4. PartAt(l, i)
    BY WholeFacts
  <2>5. \A x \in c - 1..e : ~ Holds(x, NextDelimiter)
    BY <2>4 DEF PartAt, e
  <2>6. QED
    BY <2>2, <2>3, <2>5
<1>13. CASE n < dl
  <2>1. n # BufSize
    BY <1>8, <1>13, <1>20
  <2>2. CASE at >= e + 2
    <3> DEFINE j == (e + 2) - c
    <3>1. j \in 1..n /\ j <= dl /\ j \in 1..dl /\ c + j = e + 2
      BY <1>13, <1>20, <2>2
    <3> HIDE DEF j
    <3>2. body[c + j] = Delimiter[j] /\ Delimiter[j] # LF
      BY <1>6, <1>11, <3>1
    <3>3. QED
      BY <1>5, <3>1, <3>2
  <2>3. CASE at <= e + 1
    <3>1. at \in request.ends /\ at > from
      <4>1. ~ (at >= all - dl)
        BY <1>20, <2>3
      <4>2. QED
        BY <1>7, <2>1, <4>1
    <3>2. at # e + 1
      <4>1. SUFFICES ASSUME at = e + 1 PROVE FALSE
        OBVIOUS
      <4>2. at \in 0..Len(request.body)
        BY <1>20 DEF all
      <4>3. request.body[at] # CR
        BY <3>1, <4>2, EndFacts
      <4>4. QED
        BY <1>5, <4>1, <4>3 DEF body
    <3>3. at <= e /\ c < at
      BY <1>20, <2>3, <3>1, <3>2
    <3> DEFINE k == n + 1
    <3>4. k \in 1..dl + 1 /\ k <= at + 1 /\ at \in 0..all
      BY <1>13, <1>20
    <3>5. ASSUME NEW j \in 1..k
          PROVE  NextDelimiter[j] = body[at - k + j] /\ at - k + j # 0
      <4>1. at - k + j = c + j - 1 /\ at - k + j # 0
        BY <1>20
      <4>2. CASE j = 1
        <5>1. c + j - 1 = c
          BY <1>20, <4>2
        <5>2. QED
          BY <1>5, <1>6, <4>1, <4>2, <5>1
      <4>3. CASE j # 1
        <5> DEFINE m == j - 1
        <5>1. m \in 1..n /\ m <= dl /\ m \in 1..dl /\ m + 1 = j /\ c + m = c + j - 1
          BY <1>13, <1>20, <4>3
        <5> HIDE DEF m
        <5>2. body[c + m] = Delimiter[m] /\ NextDelimiter[m + 1] = Delimiter[m]
          BY <1>6, <1>11, <5>1
        <5>3. QED
          BY <4>1, <5>1, <5>2
      <4>4. QED
        BY <4>2, <4>3
    <3> HIDE DEF k
    <3>6. k \in 1..Len(Delimiter) + 1 /\ at \in 0..Len(request.body) /\ k <= at + 1
      BY <3>4 DEF dl, all
    <3>7. \A j \in 1..k : NextDelimiter[j] = IF at - k + j = 0 THEN LF
                                            ELSE request.body[at - k + j]
      BY <3>5 DEF body
    <3>8. MayBeDelimiter(request.body, at)
      BY <1>1, <3>6, <3>7, MayBe
    <3>9. c = ContentAt(l, i) /\ c < at /\ at <= EndAt(l, i)
      BY <3>3 DEF e
    <3>10. ~ MayBeDelimiter(request.body, at)
      BY <3>1, <3>9, EndInContent
    <3>11. QED
      BY <3>8, <3>10
  <2>4. QED
    BY <1>20, <2>2, <2>3
<1>14. QED
  BY <1>12, <1>13, <1>20

\* There are data where the parser looks for the next part.
LEMMA SomeData ==
  ASSUME NEW l, Whole(l), NEW i \in 1..Amount + 1, NEW q, q = BeforePart(l, i), BufAt(buf, q)
  PROVE  BufAt(AtLeastOne(buf), q) /\ AtLeastOne(buf).n > 0
<1> DEFINE f == FillBuffer(buf)
           all == Len(request.body)
           dl == Len(Delimiter)
<1>1. q \in Nat /\ q + dl + 4 <= all /\ Calm /\ dl \in Nat /\ all \in Nat
  BY BeforeFacts, WholeFacts, DelimiterType
<1>2. CASE buf.n = 0
  <2>1. AtLeastOne(buf) = f
    BY <1>2 DEF AtLeastOne
  <2>2. BufAt(f, q) /\ Cut(buf, f)
    BY <1>1, FillAt
  <2> HIDE DEF f
  <2> DEFINE n == f.n
             at == f.client.at
             from == buf.client.at
  <2>3. n \in Nat /\ at \in Nat /\ q + n = at
    <3>1. n \in Nat /\ at \in 0..all /\ q + n = at
      BY <1>1, <2>2, BufAtFields
    <3>2. QED
      BY <1>1, <3>1
  <2>4. from = q
    <3> DEFINE k == buf.n
    <3>1. q + k = from /\ k = 0
      BY <1>1, <1>2, BufAtFields
    <3> HIDE DEF k, from
    <3>2. QED
      BY <1>1, <3>1
  <2>5. n = FILLUNIT \/ at > from \/ at >= all - dl
    BY <2>2, WholeFacts DEF Cut
  <2>6. FILLUNIT \in Nat /\ FILLUNIT >= dl + 4
    BY WholeFacts
  <2> HIDE DEF n, at, from, all, dl
  <2>7. n > 0
    BY <1>1, <2>3, <2>4, <2>5, <2>6
  <2>8. QED
    BY <2>1, <2>2, <2>7 DEF n
<1>3. CASE buf.n # 0
  <2>1. AtLeastOne(buf) = buf
    BY <1>3 DEF AtLeastOne
  <2>2. buf.n \in Nat
    BY <1>1, BufAtFields
  <2>3. QED
    BY <1>3, <2>1, <2>2
<1>4. QED
  BY <1>2, <1>3

\* The headers of part i are found, and behind them its content.
LEMMA NextPartFound ==
  ASSUME NEW l, Whole(l), NEW i \in 1..Amount, BufAt(buf, BeforePart(l, i))
  PROVE  /\ NextHeaders.found = TRUE /\ NextHeaders.lines = HeadersRead(l, i)
         /\ BufAt(NextHeaders.buf, ContentAt(l, i))
<1> DEFINE q == BeforePart(l, i)
           a == AtLeastOne(buf)
           b == FindBoundary(a).buf
<1>1. BufAt(a, q) /\ a.n > 0
  <2>1. i \in 1..Amount + 1
    BY WholeFacts
  <2>2. QED
    BY <2>1, SomeData
<1> HIDE DEF a, q
<1>2. NextHeaders = MultipartBufferHeaders(a)
  BY <1>1, Zenon DEF NextHeaders, a
<1>3. FindBoundary(a).found = TRUE /\ BufAt(b, HeadersAt(l, i))
  <2>1. q = BeforePart(l, i)
    BY DEF q
  <2>2. QED
    BY <1>1, <2>1, FoundNext
<1> HIDE DEF b
<1>4. MultipartBufferHeaders(a) = HeaderLines(b)
  BY <1>3, Zenon DEF MultipartBufferHeaders, b
<1>5. QED
  BY <1>2, <1>3, <1>4, HeadersWhole

\* After the last part no further one is found.
LEMMA NoPartFound ==
  ASSUME NEW l, Whole(l), BufAt(buf, BeforePart(l, Amount + 1))
  PROVE  NextHeaders.found = FALSE
<1> DEFINE q == BeforePart(l, Amount + 1)
           a == AtLeastOne(buf)
<1>1. BufAt(a, q) /\ a.n > 0
  <2>1. Amount + 1 \in 1..Amount + 1
    BY WholeFacts
  <2>2. QED
    BY <2>1, SomeData
<1> HIDE DEF a
<1>2. NextHeaders = MultipartBufferHeaders(a)
  BY <1>1, Zenon DEF NextHeaders, a
<1>3. FindBoundary(a).found = FALSE
  BY <1>1, FoundNone
<1>4. QED
  BY <1>2, <1>3 DEF MultipartBufferHeaders

-----------------------------------------------------------------------------
(* What the parser makes of the parts.                                     *)

\* The parameter of part i, and the parameters after k parts.
PairOf(i) ==
  [key |-> request.parts[i].param,
   val |-> IF request.parts[i].filename = NoText THEN request.parts[i].content
           ELSE request.parts[i].filename]
PairsOf(k) == request.query \o [i \in 1..k |-> PairOf(i)]

\* The uploads after k parts, and that of part i after j bytes.
UploadOf(p) ==
  [name |-> p.param, filename |-> p.filename, data |-> p.content, size |-> Len(p.content)]
UploadsOf(k) == [i \in 1..Len(FilesUpTo[k]) |-> UploadOf(FilesUpTo[k][i])]
PartOf(i, j) ==
  [name |-> request.parts[i].param, filename |-> request.parts[i].filename,
   data |-> SubSeq(Content(i), 1, j), size |-> j]
IsFile(i) == request.parts[i].filename # NoText

\* The types of a part.
LEMMA PartFields ==
  ASSUME request.parts \in Seq(Parts), NEW i \in 1..Amount
  PROVE  /\ request.parts[i] \in Parts /\ request.parts[i].param \in Text
         /\ request.parts[i].filename \in Text \cup {NoText} /\ Content(i) \in Text
         /\ Content(i) \in Seq(Bytes) /\ Len(Content(i)) \in Nat /\ Amount \in Nat
<1>1. request.parts[i] \in Parts
  BY DEF Amount
<1>2. QED
  BY <1>1 DEF Parts, Content, Text, Amount

\* The files among the first parts.
LEMMA FilesUpToFacts ==
  ASSUME request.parts \in Seq(Parts)
  PROVE  /\ FilesUpTo[0] = <<>>
         /\ \A k \in 0..Amount : FilesUpTo[k] \in Seq(Parts)
         /\ \A k \in 1..Amount : FilesUpTo[k] = IF IsFile(k)
                                                  THEN Append(FilesUpTo[k - 1], request.parts[k])
                                                  ELSE FilesUpTo[k - 1]
<1> DEFINE parts == request.parts
           N == Len(parts)
           S == Nat \X Seq(Parts)
           More(s) == LET k == s[1] + 1
                      IN  IF k \in 1..N /\ parts[k].filename # NoText THEN Append(s[2], parts[k])
                          ELSE s[2]
           start == <<0, <<>>>>
           step == [s \in S |-> <<s[1] + 1, More(s)>>]
           Def(f) == f = [k \in 0..Len(request.parts) |->
                            IF k = 0 THEN <<>>
                            ELSE IF request.parts[k].filename = NoText THEN f[k - 1]
                            ELSE Append(f[k - 1], request.parts[k])]
<1>1. N \in Nat /\ parts \in Seq(Parts) /\ \A k \in 1..N : parts[k] \in Parts
  OBVIOUS
<1>2. start \in S
  <2> DEFINE none == <<>>
  <2>1. none \in Seq(Parts) /\ 0 \in Nat
    OBVIOUS
  <2> HIDE DEF none
  <2>2. <<0, none>> \in Nat \X Seq(Parts)
    BY <2>1
  <2>3. QED
    BY <2>2 DEF none
<1>3. step \in [S -> S]
  <2>1. ASSUME NEW s \in S PROVE <<s[1] + 1, More(s)>> \in S
    <3>1. s[1] + 1 \in Nat /\ s[2] \in Seq(Parts)
      OBVIOUS
    <3> DEFINE k == s[1] + 1
    <3>2. CASE k \in 1..N /\ parts[k].filename # NoText
      <4>1. More(s) = Append(s[2], parts[k]) /\ parts[k] \in Parts
        BY <1>1, <3>2
      <4> HIDE DEF More, k
      <4>2. More(s) \in Seq(Parts)
        BY <3>1, <4>1
      <4>3. QED
        BY <3>1, <4>2 DEF k
    <3>3. CASE ~ (k \in 1..N /\ parts[k].filename # NoText)
      <4>1. More(s) = s[2]
        BY <3>3
      <4> HIDE DEF More
      <4>2. QED
        BY <3>1, <4>1
    <3>4. QED
      BY <3>2, <3>3
  <2> HIDE DEF More, S
  <2>2. QED
    BY <2>1
<1> HIDE DEF S, step, start
<1>4. PICK t \in [0..N -> S] : LoopOf(step, start, N, t)
  <2>1. \E t \in [0..N -> S] : LoopOf(step, start, N, t)
    <3> HIDE DEF N
    <3>1. QED
      BY <1>1, <1>2, <1>3, LoopExists
  <2>2. QED
    BY <2>1
<1> DEFINE f == [k \in 0..N |-> t[k][2]]
<1>5. t[0] = start /\ \A k \in 1..N : k - 1 \in 0..N /\ t[k] = step[t[k - 1]]
  <2> DEFINE M == N
  <2>1. /\ t = [n \in 0..M |-> IF n = 0 THEN start ELSE step[t[n - 1]]] /\ M \in Nat
    BY <1>1, <1>4, Zenon DEF LoopOf
  <2> HIDE DEF M
  <2>2. t[0] = start /\ \A k \in 1..M : k - 1 \in 0..M /\ t[k] = step[t[k - 1]]
    BY <2>1
  <2>3. QED
    BY <2>2 DEF M
<1>6. ASSUME NEW s \in S PROVE step[s] = <<s[1] + 1, More(s)>>
  BY DEF step
<1>7. \A k \in 0..N : t[k] \in S
  BY <1>4
<1> HIDE DEF N
<1>8. \A k \in 0..N : t[k][1] = k
  <2> DEFINE G == {k \in 0..N : t[k][1] = k}
  <2>1. 0 \in G
    BY <1>1, <1>5 DEF start
  <2>2. ASSUME NEW k \in 0..N - 1, k \in G PROVE k + 1 \in G
    <3> DEFINE m == k + 1
    <3>1. m \in 1..N /\ m - 1 = k /\ k \in 0..N /\ m \in 0..N
      BY <1>1
    <3>2. t[m] = step[t[k]] /\ t[k] \in S
      BY <1>5, <1>7, <3>1
    <3> HIDE DEF m
    <3>3. t[m] = <<t[k][1] + 1, More(t[k])>>
      BY <1>6, <3>2
    <3>4. t[m][1] = k + 1
      <4> HIDE DEF More
      <4>1. QED
        BY <2>2, <3>3
    <3>5. QED
      BY <3>1, <3>4 DEF m
  <2> HIDE DEF G
  <2>3. \A k \in 0..N : k \in G
    BY <1>1, <2>1, <2>2, Upward
  <2>4. QED
    BY <2>3 DEF G
<1>9. /\ f[0] = <<>> /\ \A k \in 0..N : f[k] \in Seq(Parts)
      /\ \A k \in 1..N : f[k] = IF parts[k].filename # NoText THEN Append(f[k - 1], parts[k])
                                ELSE f[k - 1]
  <2>1. \A k \in 0..N : f[k] = t[k][2]
    OBVIOUS
  <2> HIDE DEF f
  <2>2. f[0] = <<>>
    BY <1>1, <1>5, <2>1 DEF start
  <2>3. \A k \in 0..N : f[k] \in Seq(Parts)
    BY <1>7, <2>1 DEF S
  <2>4. ASSUME NEW k \in 1..N
        PROVE  f[k] = IF parts[k].filename # NoText THEN Append(f[k - 1], parts[k]) ELSE f[k - 1]
    <3> DEFINE j == k - 1
    <3>1. j \in 0..N /\ j + 1 = k /\ k \in 0..N
      BY <1>1
    <3>2. t[k] = step[t[j]] /\ t[j] \in S /\ t[j][1] = j
      BY <1>5, <1>7, <1>8, <3>1
    <3> HIDE DEF j
    <3>3. t[k] = <<t[j][1] + 1, More(t[j])>>
      BY <1>6, <3>2
    <3>4. t[k][2] = More(t[j])
      <4> HIDE DEF More
      <4>1. QED
        BY <3>3
    <3>5. More(t[j]) = IF parts[k].filename # NoText THEN Append(t[j][2], parts[k]) ELSE t[j][2]
      BY <3>1, <3>2
    <3> HIDE DEF More
    <3>6. f[k] = t[k][2] /\ f[j] = t[j][2]
      BY <2>1, <3>1
    <3>7. QED
      BY <3>4, <3>5, <3>6 DEF j
  <2>5. QED
    BY <2>2, <2>3, <2>4
<1>10. Def(f)
  <2> DEFINE g == [k \in 0..N |-> IF k = 0 THEN <<>>
                                  ELSE IF parts[k].filename = NoText THEN f[k - 1]
                                  ELSE Append(f[k - 1], parts[k])]
  <2>1. ASSUME NEW k \in 0..N
        PROVE  f[k] = IF k = 0 THEN <<>>
                      ELSE IF parts[k].filename = NoText THEN f[k - 1]
                      ELSE Append(f[k - 1], parts[k])
    <3>1. k = 0 \/ k \in 1..N
      BY <1>1
    <3> HIDE DEF f
    <3>2. QED
      BY <1>9, <3>1
  <2>2. f = [k \in 0..N |-> f[k]]
    OBVIOUS
  <2> HIDE DEF f
  <2>3. f = g
    BY <2>1, <2>2
  <2>4. QED
    BY <2>3, Zenon DEF Def, g, N
<1>11. FilesUpTo = CHOOSE h : Def(h)
  BY Zenon DEF FilesUpTo
<1>12. Def(FilesUpTo)
  <2> HIDE DEF f, Def
  <2>1. QED
    BY <1>10, <1>11, Zenon
<1> DEFINE F == FilesUpTo
<1>13. F = [k \in 0..N |-> IF k = 0 THEN <<>>
                           ELSE IF parts[k].filename = NoText THEN F[k - 1]
                           ELSE Append(F[k - 1], parts[k])]
  BY <1>12, Zenon DEF N
<1> HIDE DEF Def, f, F
<1>14. F[0] = <<>> /\ \A k \in 1..N : F[k] = IF parts[k].filename = NoText THEN F[k - 1]
                                             ELSE Append(F[k - 1], parts[k])
  <2>1. \A k \in 0..N : F[k] = IF k = 0 THEN <<>>
                                ELSE IF parts[k].filename = NoText THEN F[k - 1]
                                ELSE Append(F[k - 1], parts[k])
    BY <1>13, Zenon
  <2>2. 0 \in 0..N /\ \A k \in 1..N : k \in 0..N /\ k # 0
    BY <1>1
  <2>3. QED
    BY <2>1, <2>2, Zenon
<1>15. \A k \in 0..N : F[k] \in Seq(Parts)
  <2> DEFINE G == {k \in 0..N : F[k] \in Seq(Parts)}
  <2>1. 0 \in G
    <3>1. <<>> \in Seq(Parts) /\ 0 \in 0..N
      BY <1>1
    <3>2. QED
      BY <1>14, <3>1
  <2>2. ASSUME NEW k \in 0..N - 1, k \in G PROVE k + 1 \in G
    <3> DEFINE m == k + 1
    <3>1. m \in 1..N /\ m - 1 = k /\ m \in 0..N
      BY <1>1
    <3> HIDE DEF m
    <3>2. F[m] = (IF parts[m].filename = NoText THEN F[k] ELSE Append(F[k], parts[m]))
          /\ parts[m] \in Parts
      BY <1>1, <1>14, <3>1
    <3>3. F[k] \in Seq(Parts)
      BY <2>2
    <3> DEFINE y == parts[m]
    <3>4. Append(F[k], y) \in Seq(Parts)
      <4>1. y \in Parts
        BY <3>2
      <4> HIDE DEF y
      <4>2. QED
        BY <3>3, <4>1
    <3>5. QED
      BY <3>1, <3>2, <3>3, <3>4 DEF m
  <2> HIDE DEF G
  <2>3. \A k \in 0..N : k \in G
    BY <1>1, <2>1, <2>2, Upward
  <2>4. QED
    BY <2>3 DEF G
<1>16. QED
  BY <1>14, <1>15, Zenon DEF F, N, Amount, IsFile

\* A sequence with one more element.
LEMMA AppendFacts ==
  ASSUME NEW S, NEW s \in Seq(S), NEW x \in S
  PROVE  /\ Append(s, x) \in Seq(S) /\ Len(Append(s, x)) = Len(s) + 1
         /\ \A i \in 1..Len(s) : Append(s, x)[i] = s[i]
         /\ Append(s, x)[Len(s) + 1] = x /\ Last(Append(s, x)) = x
<1> DEFINE t == Append(s, x)
           n == Len(s) + 1
<1>1. /\ t \in Seq(S) /\ Len(t) = n /\ n \in Nat
      /\ \A i \in 1..Len(s) : t[i] = s[i]
      /\ t[n] = x
  OBVIOUS
<1> HIDE DEF t, n
<1>2. Last(t) = x
  <2>1. Last(t) = t[Len(t)]
    BY Zenon DEF Last
  <2>2. QED
    BY <1>1, <2>1
<1>3. QED
  BY <1>1, <1>2 DEF t, n

\* A sequence that is one longer.
LEMMA SameButLast ==
  ASSUME NEW S, NEW s \in Seq(S), NEW x \in S, NEW t \in Seq(S), Len(t) = Len(s) + 1,
         \A i \in 1..Len(s) : t[i] = s[i], t[Len(s) + 1] = x
  PROVE  t = Append(s, x)
<1> DEFINE u == Append(s, x)
           n == Len(s)
<1>1. /\ u \in Seq(S) /\ Len(u) = n + 1 /\ u[n + 1] = x /\ n \in Nat
      /\ \A i \in 1..n : u[i] = s[i]
  BY AppendFacts
<1>2. Len(t) = n + 1 /\ t[n + 1] = x /\ \A i \in 1..n : t[i] = s[i]
  OBVIOUS
<1> HIDE DEF u, n
<1>3. ASSUME NEW i \in 1..Len(t) PROVE t[i] = u[i]
  <2>1. i \in 1..n \/ i = n + 1
    BY <1>1, <1>2
  <2>2. QED
    BY <1>1, <1>2, <2>1
<1>4. QED
  BY <1>1, <1>2, <1>3, SameSeq DEF u

\* The uploads, part by part.
LEMMA UploadsStep ==
  ASSUME request.parts \in Seq(Parts)
  PROVE  /\ UploadsOf(0) = <<>>
         /\ \A k \in 0..Amount : UploadsOf(k) \in Seq(Upload)
         /\ \A k \in 1..Amount : UploadsOf(k) = IF IsFile(k)
                                                  THEN Append(UploadsOf(k - 1), UploadOf(request.parts[k]))
                                                  ELSE UploadsOf(k - 1)
<1>1. /\ FilesUpTo[0] = <<>>
      /\ \A k \in 0..Amount : FilesUpTo[k] \in Seq(Parts)
      /\ \A k \in 1..Amount : FilesUpTo[k] = IF IsFile(k)
                                               THEN Append(FilesUpTo[k - 1], request.parts[k])
                                               ELSE FilesUpTo[k - 1]
  BY FilesUpToFacts
<1>2. Amount \in Nat
  BY DEF Amount
<1>3. ASSUME NEW p \in Parts PROVE UploadOf(p) \in Upload
  <2>1. p.param \in Text /\ p.filename \in Text \cup {NoText} /\ p.content \in Text
    BY DEF Parts
  <2>2. Len(p.content) \in Nat
    BY <2>1 DEF Text
  <2>3. QED
    BY <2>1, <2>2 DEF UploadOf, Upload
<1>4. ASSUME NEW F \in Seq(Parts)
      PROVE  /\ [i \in 1..Len(F) |-> UploadOf(F[i])] \in Seq(Upload)
             /\ Len([i \in 1..Len(F) |-> UploadOf(F[i])]) = Len(F)
  <2>1. \A i \in 1..Len(F) : F[i] \in Parts
    OBVIOUS
  <2>2. \A i \in 1..Len(F) : UploadOf(F[i]) \in Upload
    BY <1>3, <2>1
  <2>3. QED
    BY <2>2
<1>5. ASSUME NEW k \in 0..Amount
      PROVE UploadsOf(k) \in Seq(Upload) /\ Len(UploadsOf(k)) = Len(FilesUpTo[k])
  <2>1. FilesUpTo[k] \in Seq(Parts)
    BY <1>1
  <2>2. QED
    BY <1>4, <2>1 DEF UploadsOf
<1>6. UploadsOf(0) = <<>>
  <2>1. 0 \in 0..Amount /\ Len(FilesUpTo[0]) = 0
    BY <1>1, <1>2
  <2>2. UploadsOf(0) \in Seq(Upload) /\ Len(UploadsOf(0)) = 0
    BY <1>5, <2>1
  <2>3. QED
    BY <2>2
<1>7. ASSUME NEW k \in 1..Amount
      PROVE  UploadsOf(k) = IF IsFile(k) THEN Append(UploadsOf(k - 1), UploadOf(request.parts[k]))
                            ELSE UploadsOf(k - 1)
  <2> DEFINE j == k - 1
             p == request.parts[k]
             F == FilesUpTo[k]
             G == FilesUpTo[j]
             n == Len(G)
             u == UploadOf(p)
  <2>1. j \in 0..Amount /\ k \in 0..Amount
    BY <1>2
  <2>2. p \in Parts
    BY PartFields
  <2>3. F = IF IsFile(k) THEN Append(G, p) ELSE G
    BY <1>1
  <2>4. G \in Seq(Parts) /\ F \in Seq(Parts) /\ n \in Nat
    BY <1>1, <2>1
  <2>5. CASE ~ IsFile(k)
    <3>1. F = G
      BY <2>3, <2>5
    <3> HIDE DEF F, G, j
    <3>2. [i \in 1..Len(F) |-> UploadOf(F[i])] = [i \in 1..Len(G) |-> UploadOf(G[i])]
      BY <3>1
    <3>3. UploadsOf(k) = UploadsOf(j)
      BY <3>2, Zenon DEF UploadsOf, F, G
    <3>4. QED
      BY <2>5, <3>3 DEF j
  <2>6. CASE IsFile(k)
    <3>1. F = Append(G, p)
      BY <2>3, <2>6
    <3> HIDE DEF p, G
    <3>2. Len(F) = n + 1 /\ (\A i \in 1..n : F[i] = G[i]) /\ F[n + 1] = p
      <4> HIDE DEF F
      <4>1. QED
        BY <2>2, <2>4, <3>1, AppendFacts
    <3> DEFINE s == UploadsOf(j)
               t == UploadsOf(k)
    <3>3. s = [i \in 1..n |-> UploadOf(G[i])] /\ t = [i \in 1..Len(F) |-> UploadOf(F[i])]
      BY Zenon DEF UploadsOf, G
    <3>4. s \in Seq(Upload) /\ t \in Seq(Upload) /\ Len(s) = n /\ Len(t) = n + 1 /\ u \in Upload
      BY <1>3, <1>5, <2>1, <2>2, <3>2 DEF G
    <3> HIDE DEF s, t, F, n, u
    <3>5. \A i \in 1..n : t[i] = s[i]
      <4>1. ASSUME NEW i \in 1..n PROVE t[i] = s[i]
        <5>1. i \in 1..Len(F)
          BY <2>4, <3>2
        <5>2. t[i] = UploadOf(F[i]) /\ s[i] = UploadOf(G[i]) /\ F[i] = G[i]
          BY <3>2, <3>3, <5>1
        <5>3. QED
          BY <5>2
      <4>2. QED
        BY <4>1
    <3>6. t[n + 1] = u
      <4>1. n + 1 \in 1..Len(F)
        BY <2>4, <3>2
      <4>2. t[n + 1] = UploadOf(F[n + 1])
        BY <3>3, <4>1
      <4>3. QED
        BY <3>2, <4>2 DEF u
    <3>7. t = Append(s, u)
      BY <3>4, <3>5, <3>6, SameButLast
    <3>8. QED
      BY <2>6, <3>7 DEF t, s, u, p
  <2>7. QED
    BY <2>5, <2>6
<1>8. QED
  BY <1>5, <1>6, <1>7

\* The parameters, part by part.
LEMMA PairsStep ==
  ASSUME request.parts \in Seq(Parts), request.query \in Seq(Entries)
  PROVE  /\ PairsOf(0) = request.query
         /\ \A k \in 0..Amount : PairsOf(k) \in Seq(Entries)
         /\ \A k \in 1..Amount : PairsOf(k) = Append(PairsOf(k - 1), PairOf(k))
<1> DEFINE q == request.query
           P(k) == [i \in 1..k |-> PairOf(i)]
<1>1. Amount \in Nat /\ q \in Seq(Entries)
  BY DEF Amount
<1>2. ASSUME NEW i \in 1..Amount PROVE PairOf(i) \in Entries
  BY PartFields DEF PairOf, Entries, Content
<1>3. ASSUME NEW k \in 0..Amount PROVE P(k) \in Seq(Entries) /\ Len(P(k)) = k
  <2>1. k \in Nat /\ \A i \in 1..k : PairOf(i) \in Entries
    BY <1>1, <1>2
  <2>2. QED
    BY <2>1
<1>4. \A k \in 0..Amount : PairsOf(k) = q \o P(k)
  BY Zenon DEF PairsOf
<1>5. ASSUME NEW k \in 0..Amount
      PROVE  /\ PairsOf(k) \in Seq(Entries) /\ Len(PairsOf(k)) = Len(q) + k
             /\ \A i \in 1..Len(q) : PairsOf(k)[i] = q[i]
             /\ \A i \in 1..k : PairsOf(k)[Len(q) + i] = PairOf(i)
  <2> DEFINE t == P(k)
  <2>1. t \in Seq(Entries) /\ Len(t) = k /\ q \in Seq(Entries) /\ \A i \in 1..k : t[i] = PairOf(i)
    BY <1>1, <1>3
  <2> HIDE DEF t, q
  <2>2. /\ q \o t \in Seq(Entries) /\ Len(q \o t) = Len(q) + Len(t)
        /\ \A i \in 1..Len(q) : (q \o t)[i] = q[i]
        /\ \A i \in 1..Len(t) : (q \o t)[Len(q) + i] = t[i]
    <3>1. q \in Seq(Entries) /\ t \in Seq(Entries)
      BY <2>1
    <3>2. QED
      BY <3>1, ConcatFacts
  <2>3. PairsOf(k) = q \o t
    BY <1>4 DEF t
  <2>4. QED
    BY <2>1, <2>2, <2>3
<1>6. PairsOf(0) = q
  <2> DEFINE t == PairsOf(0)
  <2>1. 0 \in 0..Amount
    BY <1>1
  <2>2. t \in Seq(Entries) /\ Len(t) = Len(q) + 0 /\ \A i \in 1..Len(q) : t[i] = q[i]
    BY <1>5, <2>1
  <2> HIDE DEF t, q
  <2>3. Len(t) = Len(q)
    BY <1>1, <2>2
  <2>4. \A i \in 1..Len(t) : t[i] = q[i]
    BY <2>2, <2>3
  <2>5. t = q
    BY <1>1, <2>2, <2>3, <2>4, SameSeq
  <2>6. QED
    BY <2>5 DEF t
<1>7. ASSUME NEW k \in 1..Amount PROVE PairsOf(k) = Append(PairsOf(k - 1), PairOf(k))
  <2> DEFINE j == k - 1
             s == PairsOf(j)
             t == PairsOf(k)
             n == Len(q)
             x == PairOf(k)
  <2>1. j \in 0..Amount /\ k \in 0..Amount /\ j + 1 = k
    BY <1>1
  <2>2. /\ s \in Seq(Entries) /\ Len(s) = n + j
        /\ \A i \in 1..n : s[i] = q[i]
        /\ \A i \in 1..j : s[n + i] = PairOf(i)
    BY <1>5, <2>1
  <2>3. /\ t \in Seq(Entries) /\ Len(t) = n + k
        /\ \A i \in 1..n : t[i] = q[i]
        /\ \A i \in 1..k : t[n + i] = PairOf(i)
    BY <1>5, <2>1
  <2>4. n \in Nat /\ x \in Entries
    BY <1>1, <1>2
  <2>5. t[n + k] = x
    BY <2>1, <2>3
  <2> HIDE DEF s, t, n, x, j
  <2>6. ASSUME NEW i \in 1..n + j PROVE t[i] = s[i]
    <3>1. CASE i \in 1..n
      BY <2>2, <2>3, <3>1
    <3>2. CASE i \notin 1..n
      <4> DEFINE m == i - n
      <4>1. m \in 1..j /\ m \in 1..k /\ n + m = i
        BY <2>1, <2>4, <3>2
      <4> HIDE DEF m
      <4>2. t[n + m] = PairOf(m) /\ s[n + m] = PairOf(m)
        BY <2>2, <2>3, <4>1
      <4>3. QED
        BY <4>1, <4>2
    <3>3. QED
      BY <3>1, <3>2
  <2>7. Len(t) = Len(s) + 1 /\ Len(s) + 1 = n + k
    BY <2>1, <2>2, <2>3, <2>4
  <2>8. t = Append(s, x)
    <3>1. (\A i \in 1..Len(s) : t[i] = s[i]) /\ t[Len(s) + 1] = x
      BY <2>2, <2>5, <2>6, <2>7
    <3>2. s \in Seq(Entries) /\ t \in Seq(Entries) /\ x \in Entries /\ Len(t) = Len(s) + 1
      BY <2>2, <2>3, <2>4, <2>7
    <3>3. QED
      BY <3>1, <3>2, SameButLast
  <2>9. QED
    BY <2>8 DEF t, s, x, j
<1>8. QED
  BY <1>5, <1>6, <1>7

\* Every upload has the name of a file that came before.
LEMMA UploadNames ==
  ASSUME request.parts \in Seq(Parts), NEW k \in 0..Amount, NEW x \in 1..Len(UploadsOf(k))
  PROVE  \E i \in 1..k : IsFile(i) /\ UploadsOf(k)[x].name = request.parts[i].param
<1> DEFINE Named(n) == \A y \in 1..Len(UploadsOf(n)) :
                         \E i \in 1..n : IsFile(i) /\ UploadsOf(n)[y].name = request.parts[i].param
           G == {n \in 0..Amount : Named(n)}
<1>1. Amount \in Nat
  BY DEF Amount
<1>2. /\ UploadsOf(0) = <<>>
      /\ \A n \in 0..Amount : UploadsOf(n) \in Seq(Upload)
      /\ \A n \in 1..Amount : UploadsOf(n) = IF IsFile(n)
                                               THEN Append(UploadsOf(n - 1), UploadOf(request.parts[n]))
                                               ELSE UploadsOf(n - 1)
  BY UploadsStep
<1>3. 0 \in G
  <2>1. Len(UploadsOf(0)) = 0 /\ 0 \in 0..Amount
    BY <1>1, <1>2
  <2>2. Named(0)
    BY <2>1
  <2>3. QED
    BY <2>1, <2>2
<1>4. ASSUME NEW n \in 0..Amount - 1, n \in G PROVE n + 1 \in G
  <2> DEFINE m == n + 1
             s == UploadsOf(n)
             t == UploadsOf(m)
             u == UploadOf(request.parts[m])
  <2>1. m \in 1..Amount /\ m - 1 = n /\ n \in 0..Amount /\ m \in 0..Amount
    BY <1>1
  <2>2. Named(n)
    BY <1>4
  <2>3. s \in Seq(Upload) /\ t = IF IsFile(m) THEN Append(s, u) ELSE s
    <3> HIDE DEF m, u
    <3>1. QED
      BY <1>2, <2>1 DEF u
  <2>4. u.name = request.parts[m].param /\ u \in Upload
    <3>1. request.parts[m] \in Parts
      BY <2>1, PartFields
    <3> DEFINE p == request.parts[m]
    <3> HIDE DEF p
    <3>2. /\ p.param \in Text /\ p.filename \in Text \cup {NoText} /\ p.content \in Text
          /\ Len(p.content) \in Nat
      <4>1. p \in Parts
        BY <3>1 DEF p
      <4>2. p.param \in Text /\ p.filename \in Text \cup {NoText} /\ p.content \in Text
        BY <4>1 DEF Parts
      <4>3. Len(p.content) \in Nat
        BY <4>2 DEF Text
      <4>4. QED
        BY <4>2, <4>3
    <3>3. u = [name |-> p.param, filename |-> p.filename, data |-> p.content, size |-> Len(p.content)]
      BY DEF UploadOf, p
    <3> HIDE DEF u
    <3>4. u.name = p.param /\ u \in Upload
      BY <3>2, <3>3 DEF Upload
    <3>5. QED
      BY <3>4 DEF p
  <2>5. \A y \in 1..Len(s) : \E i \in 1..n : IsFile(i) /\ s[y].name = request.parts[i].param
    BY <2>2
  <2> HIDE DEF s, t, u
  <2>6. ASSUME NEW y \in 1..Len(t)
        PROVE  \E i \in 1..m : IsFile(i) /\ t[y].name = request.parts[i].param
    <3>1. ASSUME y \in 1..Len(s), t[y] = s[y]
          PROVE  \E i \in 1..m : IsFile(i) /\ t[y].name = request.parts[i].param
      <4>1. PICK i \in 1..n : IsFile(i) /\ s[y].name = request.parts[i].param
        BY <2>5, <3>1
      <4>2. i \in 1..m
        BY <2>1
      <4>3. QED
        BY <3>1, <4>1, <4>2
    <3>2. CASE ~ IsFile(m)
      BY <2>3, <3>1, <3>2
    <3>3. CASE IsFile(m)
      <4>1. t = Append(s, u)
        BY <2>3, <3>3
      <4>2. Len(t) = Len(s) + 1 /\ (\A i \in 1..Len(s) : t[i] = s[i]) /\ t[Len(s) + 1] = u
            /\ Len(s) \in Nat
        BY <2>3, <2>4, <4>1, AppendFacts
      <4>3. y \in 1..Len(s) \/ y = Len(s) + 1
        BY <4>2
      <4>4. CASE y = Len(s) + 1
        <5>1. t[y] = u
          BY <4>2, <4>4
        <5>2. m \in 1..m
          BY <2>1
        <5>3. QED
          BY <2>4, <3>3, <5>1, <5>2
      <4>5. QED
        BY <3>1, <4>2, <4>3, <4>4
    <3>4. QED
      BY <3>2, <3>3
  <2>7. Named(m)
    BY <2>6 DEF t
  <2>8. QED
    BY <2>1, <2>7
<1>5. Named(k)
  <2> HIDE DEF G
  <2>1. \A n \in 0..Amount : n \in G
    BY <1>1, <1>3, <1>4, Upward
  <2>2. k \in G
    BY <2>1
  <2>3. QED
    BY <2>2 DEF G
<1>6. QED
  BY <1>5

-----------------------------------------------------------------------------
(* How far the parser is.                                                  *)

\* After k parts; and in the file that is part k, of which j bytes are in the
\* upload and m bytes are read.
PartsDone(l, k, b, ps, us) ==
  BufAt(b, BeforePart(l, k + 1)) /\ ps = PairsOf(k) /\ us = UploadsOf(k)
Within(l, k, j, m, b, ps, us) ==
  /\ IsFile(k) /\ BufAt(b, ContentAt(l, k) + m)
  /\ ps = PairsOf(k) /\ us = Append(UploadsOf(k - 1), PartOf(k, j))

\* The object for a name is for an upload of that name.
Fitting(us, ut) == \A name \in DOMAIN ut : us[ut[name]].name = name

Progress(l, now, b, ps, us, ut, ch, parsed, n) ==
  /\ now = "part" => \E k \in 0..Amount : PartsDone(l, k, b, ps, us)
  /\ now = "chunk" =>
       \E k \in 1..Amount : \E j \in 0..Len(Content(k)) : Within(l, k, j, j, b, ps, us)
  /\ now = "hook" =>
       \E k \in 1..Amount : \E j \in 0..Len(Content(k)) : \E m \in j..Len(Content(k)) :
         Within(l, k, j, m, b, ps, us) /\ ch = SubSeq(Content(k), j + 1, m) /\ request.hook
  /\ now = "handler" /\ parsed => us = UploadsOf(Amount) /\ (n = 0 => ps = PairsOf(Amount))
  /\ now # "handler" => Fitting(us, ut)

MultipartInv ==
  entered = 1 /\ ~ told /\ reads = 0 =>
    \E l : Whole(l) /\ Progress(l, pc, buf, parms, uploads, upload_table, chunk,
                                apreq.parsed, edits)

\* The same layout serves after a step.
LEMMA ProgressMade ==
  ASSUME request' = request, NEW l, Whole(l),
         Progress(l, pc', buf', parms', uploads', upload_table', chunk', apreq'.parsed, edits')
  PROVE  MultipartInv'
<1>1. FilesUpTo' = FilesUpTo
  BY Zenon DEF FilesUpTo
<1>2. Whole(l)'
  <2>1. Calm' /\ Ordinary'
    BY DEF Whole, Calm, RequestTypeOK, Ordinary
  <2>2. \A at : \A text : Holds(at, text)' <=> Holds(at, text)
    BY DEF Holds
  <2>3. Amount' = Amount /\ \A i : Content(i)' = Content(i) /\ EndAt(l, i)' = EndAt(l, i)
    BY DEF Amount, Content, EndAt, ContentAt, LineAt, HeadersAt
  <2>4. ASSUME NEW i, PartAt(l, i) PROVE PartAt(l, i)'
    BY <2>4, Zenon DEF PartAt, Holds, Content, EndAt, ContentAt, LineAt, HeadersAt, HeadersRead
  <2>5. Sent(l)'
    BY <2>3, <2>4, Zenon DEF Whole, Sent, Amount, Holds
  <2>6. \A e \in request'.ends : Harmless(request'.body, e)
    BY Zenon DEF Whole
  <2>7. QED
    BY <2>1, <2>5, <2>6, Zenon DEF Whole
<1>3. ASSUME NEW p, BufAt(buf', p) PROVE BufAt(buf, p)'
  BY <1>3 DEF BufAt, GoodBuffer, Buffers, Clients, InBounds, ByteAt, Left
<1>4. \A k : PairsOf(k)' = PairsOf(k) /\ UploadsOf(k)' = UploadsOf(k)
  BY <1>1, Zenon DEF PairsOf, PairOf, UploadsOf, UploadOf
<1>5. ASSUME NEW k, PartsDone(l, k, buf', parms', uploads') PROVE PartsDone(l, k, buf, parms, uploads)'
  <2>1. BeforePart(l, k + 1)' = BeforePart(l, k + 1)
    BY Zenon DEF BeforePart, EndAt, ContentAt, LineAt, HeadersAt, Content
  <2>2. PICK p : p = BeforePart(l, k + 1) /\ BufAt(buf', p)
    BY <1>5 DEF PartsDone
  <2>3. BufAt(buf, p)'
    BY <1>3, <2>2
  <2>4. parms' = PairsOf(k)' /\ uploads' = UploadsOf(k)'
    BY <1>4, <1>5 DEF PartsDone
  <2>5. QED
    BY <2>1, <2>2, <2>3, <2>4 DEF PartsDone
<1>6. ASSUME NEW k, NEW j, NEW m, Within(l, k, j, m, buf', parms', uploads')
      PROVE  Within(l, k, j, m, buf, parms, uploads)'
  <2>1. /\ ContentAt(l, k)' = ContentAt(l, k) /\ UploadsOf(k - 1)' = UploadsOf(k - 1)
        /\ IsFile(k)' = IsFile(k) /\ PartOf(k, j)' = PartOf(k, j)
    BY <1>4, Zenon DEF ContentAt, LineAt, HeadersAt, IsFile, PartOf, Content
  <2>2. PICK p : p = ContentAt(l, k) + m /\ BufAt(buf', p)
    BY <1>6 DEF Within
  <2>3. BufAt(buf, p)'
    BY <1>3, <2>2
  <2>4. /\ parms' = PairsOf(k)' /\ uploads' = Append(UploadsOf(k - 1)', PartOf(k, j)')
        /\ IsFile(k)'
    BY <1>4, <1>6, <2>1 DEF Within
  <2>5. QED
    BY <2>1, <2>2, <2>3, <2>4 DEF Within
<1>7. Amount' = Amount /\ \A k : Content(k)' = Content(k)
  BY DEF Amount, Content
<1>8. Progress(l, pc, buf, parms, uploads, upload_table, chunk, apreq.parsed, edits)'
  <2>1. pc' = "part" => \E k \in 0..Amount' : PartsDone(l, k, buf, parms, uploads)'
    BY <1>5, <1>7 DEF Progress
  <2>2. pc' = "chunk" =>
          \E k \in 1..Amount' : \E j \in 0..Len(Content(k)') :
            Within(l, k, j, j, buf, parms, uploads)'
    BY <1>6, <1>7 DEF Progress
  <2>3. pc' = "hook" =>
          \E k \in 1..Amount' : \E j \in 0..Len(Content(k)') : \E m \in j..Len(Content(k)') :
            /\ Within(l, k, j, m, buf, parms, uploads)'
            /\ chunk' = SubSeq(Content(k)', j + 1, m) /\ request'.hook
    BY <1>6, <1>7 DEF Progress
  <2>4. pc' = "handler" /\ apreq'.parsed =>
          uploads' = UploadsOf(Amount)' /\ (edits' = 0 => parms' = PairsOf(Amount)')
    <3>1. UploadsOf(Amount)' = UploadsOf(Amount) /\ PairsOf(Amount)' = PairsOf(Amount)
      BY <1>1, <1>7, Zenon DEF PairsOf, PairOf, UploadsOf, UploadOf
    <3>2. QED
      BY <3>1 DEF Progress
  <2>5. pc' # "handler" => Fitting(uploads, upload_table)'
    BY DEF Progress, Fitting
  <2>6. QED
    BY <2>1, <2>2, <2>3, <2>4, <2>5, Zenon DEF Progress
<1>9. QED
  BY <1>2, <1>8, Zenon DEF MultipartInv

\* A piece of a content: its bytes after j and up to m.
Stretch(k, j, m) == j \in Nat /\ m \in Nat /\ j <= m /\ m <= Len(Content(k))
StretchIs(k, j, m, bytes) == bytes = SubSeq(Content(k), j + 1, m)

\* It is that piece of the body.
LEMMA ContentPiece ==
  ASSUME NEW l, Whole(l), NEW k \in 1..Amount, NEW c, c = ContentAt(l, k),
         NEW j, NEW m, Stretch(k, j, m)
  PROVE  StretchIs(k, j, m, SubSeq(request.body, (c + j) + 1, c + m))
<1> DEFINE C == Content(k)
           n == Len(C)
           body == request.body
           all == Len(body)
           p == c + j
           q == c + m
           s == SubSeq(body, p + 1, q)
           t == SubSeq(C, j + 1, m)
<1>0. j \in Nat /\ m \in Nat /\ j <= m /\ m <= Len(C)
  BY DEF Stretch
<1>1. /\ c \in Nat /\ n \in Nat /\ all \in Nat /\ c + n + 2 <= all /\ C \in Seq(Bytes)
      /\ body \in Seq(Bytes) /\ m <= n
  <2> DEFINE e == EndAt(l, k)
  <2>1. e = c + n /\ e + 2 <= all /\ c \in Nat /\ n \in Nat /\ all \in Nat /\ C \in Seq(Bytes)
    BY PartNumbers DEF Text
  <2>2. body \in Seq(Bytes) /\ m <= n
    BY <1>0, WholeFacts
  <2> HIDE DEF e, n, all
  <2>3. QED
    BY <2>1, <2>2
<1>2. \A i \in 1..n : body[c + i] = C[i]
  <2>1. PartAt(l, k)
    BY WholeFacts
  <2>2. QED
    BY <2>1 DEF PartAt, Holds
<1> HIDE DEF n, all
<1>3. p \in Nat /\ q \in p..all /\ j \in Nat /\ m \in j..n
  BY <1>0, <1>1
<1>4. s \in Seq(Bytes) /\ IsPiece(body, p, q, s)
  <2>1. p \in Nat /\ q \in p..Len(body)
    BY <1>3 DEF all
  <2> HIDE DEF p, q
  <2>2. QED
    BY <1>1, <2>1, PieceOf
<1>5. t \in Seq(Bytes) /\ IsPiece(C, j, m, t)
  <2>1. j \in Nat /\ m \in j..Len(C)
    BY <1>3 DEF n
  <2> HIDE DEF C
  <2>2. QED
    BY <1>1, <2>1, PieceOf
<1>6. Len(s) = q - p /\ \A i \in 1..q - p : s[i] = body[p + i]
  BY <1>4 DEF IsPiece
<1>7. Len(t) = m - j /\ \A i \in 1..m - j : t[i] = C[j + i]
  BY <1>5 DEF IsPiece
<1> HIDE DEF s, t, C, body
<1>8. q - p = m - j
  BY <1>1, <1>3
<1>9. ASSUME NEW i \in 1..Len(s) PROVE s[i] = t[i]
  <2> DEFINE long == Len(s)
  <2>0. /\ long = q - p /\ long = m - j /\ j \in Nat /\ m \in j..n /\ c \in Nat /\ n \in Nat
        /\ p = c + j /\ i \in 1..long
    BY <1>1, <1>3, <1>6, <1>8, <1>9
  <2> HIDE DEF p, q, long
  <2>1. i \in 1..q - p /\ i \in 1..m - j /\ j + i \in 1..n /\ p + i = c + (j + i)
    BY <2>0
  <2>2. s[i] = body[p + i] /\ t[i] = C[j + i]
    BY <1>6, <1>7, <2>1
  <2>3. body[c + (j + i)] = C[j + i]
    BY <1>2, <2>1
  <2>4. QED
    BY <2>1, <2>2, <2>3
<1>10. s = t
  <2> HIDE DEF p, q
  <2>1. Len(s) = Len(t)
    BY <1>6, <1>7, <1>8
  <2>2. QED
    BY <1>4, <1>5, <1>9, <2>1, SameSeq
<1>11. QED
  BY <1>10 DEF s, t, C, body, p, q, StretchIs

\* An upload of which nothing, or all, is there.
LEMMA PartEnds ==
  ASSUME request.parts \in Seq(Parts), NEW k \in 1..Amount
  PROVE  /\ \A j \in 0..Len(Content(k)) : PartOf(k, j) \in Upload
         /\ PartOf(k, Len(Content(k))) = UploadOf(request.parts[k])
         /\ PartOf(k, 0) = [name |-> request.parts[k].param, filename |-> request.parts[k].filename,
                            data |-> <<>>, size |-> 0]
<1> DEFINE C == Content(k)
           n == Len(C)
<1>1. /\ request.parts[k].param \in Text /\ request.parts[k].filename \in Text \cup {NoText}
      /\ C \in Seq(Bytes) /\ n \in Nat
  BY PartFields
<1> HIDE DEF C
<1>2. ASSUME NEW j \in 0..n PROVE PartOf(k, j) \in Upload
  <2>1. 1 \in Nat \ {0} /\ j \in Nat
    BY <1>1
  <2>2. SubSeq(C, 1, j) \in Seq(Bytes)
    BY <1>1, <2>1, SubSeqFacts
  <2>3. QED
    BY <1>1, <2>1, <2>2 DEF PartOf, Upload, Text, C
<1>3. SubSeq(C, 1, n) = C /\ SubSeq(C, 1, 0) = <<>>
  BY <1>1
<1>4. C = request.parts[k].content
  BY DEF C, Content
<1>5. PartOf(k, n) = UploadOf(request.parts[k])
  BY <1>3, <1>4 DEF PartOf, UploadOf, C
<1>6. PartOf(k, 0) = [name |-> request.parts[k].param, filename |-> request.parts[k].filename,
                      data |-> <<>>, size |-> 0]
  BY <1>3 DEF PartOf, C
<1>7. QED
  BY <1>2, <1>5, <1>6 DEF C

\* What more of a file does to its upload.
LEMMA MoreWritten ==
  ASSUME request.parts \in Seq(Parts), NEW k \in 1..Amount, NEW U \in Seq(Upload),
         NEW j, NEW m, Stretch(k, j, m),
         uploads = Append(U, PartOf(k, j)), NEW bytes, StretchIs(k, j, m, bytes)
  PROVE  Written(Len(uploads), bytes) = Append(U, PartOf(k, m))
<1> DEFINE C == Content(k)
           n == Len(uploads)
           a == PartOf(k, j)
           z == PartOf(k, m)
           old == SubSeq(C, 1, j)
           new == SubSeq(C, 1, m)
           u == Append(U, z)
<1>1. /\ request.parts[k].param \in Text /\ request.parts[k].filename \in Text \cup {NoText}
      /\ C \in Seq(Bytes) /\ Len(C) \in Nat
  BY PartFields
<1>2. /\ j \in 0..Len(C) /\ m \in 0..Len(C) /\ m \in j..Len(C) /\ j \in Nat /\ m \in Nat
      /\ bytes = SubSeq(C, j + 1, m)
  BY <1>1 DEF Stretch, StretchIs
<1>3. a \in Upload /\ z \in Upload
  BY <1>2, PartEnds
<1>4. /\ uploads \in Seq(Upload) /\ n = Len(U) + 1 /\ n \in 1..n /\ Len(U) \in Nat
      /\ (\A i \in 1..Len(U) : uploads[i] = U[i]) /\ uploads[n] = a
  <2> HIDE DEF a
  <2>1. /\ uploads \in Seq(Upload) /\ Len(uploads) = Len(U) + 1
        /\ (\A i \in 1..Len(U) : uploads[i] = U[i]) /\ uploads[Len(U) + 1] = a
    BY <1>3, AppendFacts DEF a
  <2>2. Len(U) \in Nat
    OBVIOUS
  <2>3. QED
    BY <2>1, <2>2
<1>5. /\ u \in Seq(Upload) /\ Len(u) = n
      /\ (\A i \in 1..Len(U) : u[i] = U[i]) /\ u[n] = z
  <2> HIDE DEF z
  <2>1. /\ u \in Seq(Upload) /\ Len(u) = Len(U) + 1
        /\ (\A i \in 1..Len(U) : u[i] = U[i]) /\ u[Len(U) + 1] = z
    BY <1>3, AppendFacts
  <2>2. QED
    BY <1>4, <2>1
<1>6. old \o bytes = new
  <2> HIDE DEF C
  <2>1. 0 \in Nat /\ j \in 0..Len(C) /\ m \in j..Len(C)
    BY <1>2
  <2>2. SubSeq(C, 0 + 1, j) \o SubSeq(C, j + 1, m) = SubSeq(C, 0 + 1, m)
    BY <1>1, <2>1, PiecesJoin
  <2>3. 0 + 1 = 1
    OBVIOUS
  <2>4. QED
    BY <1>2, <2>2, <2>3
<1>7. Len(bytes) = m - j /\ j + (m - j) = m
  <2> DEFINE p == j + 1
  <2>1. p \in Nat \ {0} /\ m \in 0..Len(C)
    BY <1>2
  <2>2. Len(SubSeq(C, p, m)) = IF p <= m THEN m - p + 1 ELSE 0
    <3> HIDE DEF p, C
    <3>1. QED
      BY <1>1, <2>1, SubSeqFacts
  <2>3. bytes = SubSeq(C, p, m)
    BY <1>2
  <2>4. Len(bytes) = IF p <= m THEN m - p + 1 ELSE 0
    BY <2>2, <2>3
  <2> HIDE DEF C
  <2>5. QED
    BY <1>2, <2>4
<1>8. /\ a = [name |-> request.parts[k].param, filename |-> request.parts[k].filename,
              data |-> old, size |-> j]
      /\ z = [name |-> request.parts[k].param, filename |-> request.parts[k].filename,
              data |-> new, size |-> m]
  BY DEF PartOf
<1> HIDE DEF C, a, z, old, new, u
<1> DEFINE mid == [a EXCEPT !.data = a.data \o bytes]
           v == [uploads EXCEPT ![n] = mid]
           last == [mid EXCEPT !.size = mid.size + Len(bytes)]
<1>9. mid = [name |-> request.parts[k].param, filename |-> request.parts[k].filename,
             data |-> new, size |-> j]
  <2>1. a.data = old
    BY <1>8
  <2>2. mid = [a EXCEPT !.data = new]
    BY <1>6, <2>1
  <2> HIDE DEF mid
  <2>3. QED
    BY <1>8, <2>2
<1>10. last = z
  <2> HIDE DEF mid
  <2>1. mid.size = j
    BY <1>9
  <2>2. mid.size + Len(bytes) = m
    BY <1>7, <2>1
  <2>3. last = [mid EXCEPT !.size = m]
    BY <2>2
  <2> HIDE DEF last
  <2> DEFINE param == request.parts[k].param
             filename == request.parts[k].filename
  <2>4. /\ mid = [name |-> param, filename |-> filename, data |-> new, size |-> j]
        /\ z = [name |-> param, filename |-> filename, data |-> new, size |-> m]
    BY <1>8, <1>9
  <2> HIDE DEF param, filename
  <2>5. [mid EXCEPT !.size = m] = [name |-> param, filename |-> filename, data |-> new, size |-> m]
    BY <2>4
  <2>6. QED
    BY <2>3, <2>4, <2>5
<1> HIDE DEF mid, last
<1>11. Written(n, bytes) = [v EXCEPT ![n] = last]
  <2> DEFINE b == [uploads[n] EXCEPT !.data = uploads[n].data \o bytes]
             w == [uploads EXCEPT ![n] = b]
  <2>1. Written(n, bytes) = [w EXCEPT ![n] = [w[n] EXCEPT !.size = w[n].size + Len(bytes)]]
    BY Zenon DEF Written
  <2>2. b = mid /\ w = v
    BY <1>4 DEF mid
  <2>3. v[n] = mid
    BY <1>4
  <2> HIDE DEF b, w, v
  <2>4. QED
    BY <2>1, <2>2, <2>3 DEF last
<1>12. Written(n, bytes) = u
  <2> DEFINE w == [v EXCEPT ![n] = last]
  <2>1. DOMAIN uploads = 1..n /\ DOMAIN u = 1..n
    BY <1>4, <1>5
  <2>2. w = [i \in 1..n |-> IF i = n THEN last ELSE uploads[i]]
    BY <2>1
  <2>3. ASSUME NEW i \in 1..n PROVE (IF i = n THEN last ELSE uploads[i]) = u[i]
    <3>1. i = n \/ i \in 1..Len(U)
      BY <1>4
    <3>2. CASE i = n
      BY <1>5, <1>10, <3>2
    <3>3. CASE i # n
      BY <1>4, <1>5, <3>1, <3>3
    <3>4. QED
      BY <3>2, <3>3
  <2>4. u = [i \in 1..n |-> u[i]]
    BY <1>5, <2>1
  <2> HIDE DEF w
  <2>5. w = u
    BY <2>2, <2>3, <2>4
  <2>6. QED
    BY <1>11, <2>5 DEF w
<1>13. QED
  BY <1>12 DEF u, z

\* The header lines that are not found say nothing.
LEMMA NothingFound ==
  ASSUME NextHeaders.found = FALSE
  PROVE  DispositionOf(NextHeaders.lines) = Unknown
<1> DEFINE a == AtLeastOne(buf)
           l == FindBoundary(a)
<1>1. NextHeaders.lines = <<>>
  <2>1. CASE a.n > 0
    <3>1. NextHeaders = IF l.found THEN HeaderLines(l.buf)
                        ELSE [found |-> FALSE, lines |-> <<>>, buf |-> l.buf]
      BY <2>1, Zenon DEF NextHeaders, MultipartBufferHeaders
    <3>2. HeaderLines(l.buf).found = TRUE
      <4> DEFINE h == HeaderLines(l.buf)
      <4>1. \E x, y : h = [found |-> TRUE, lines |-> x, buf |-> y]
        BY Zenon DEF HeaderLines
      <4> HIDE DEF h
      <4>2. h.found = TRUE
        BY <4>1
      <4>3. QED
        BY <4>2 DEF h
    <3> HIDE DEF l
    <3>3. NextHeaders = [found |-> FALSE, lines |-> <<>>, buf |-> l.buf]
      BY <3>1, <3>2
    <3>4. QED
      BY <3>3
  <2>2. CASE ~ (a.n > 0)
    <3>1. NextHeaders = [found |-> FALSE, lines |-> <<>>, buf |-> a]
      BY <2>2, Zenon DEF NextHeaders
    <3>2. QED
      BY <3>1
  <2>3. QED
    BY <2>1, <2>2
<1> DEFINE none == <<>>
           i == SelectInSeq(none, LAMBDA x : x[1] \in DOMAIN Disposition)
<1>2. i = 0
  <2> DEFINE T == {x \in 1..Len(none) : none[x][1] \in DOMAIN Disposition}
  <2>1. i = IF T # {} THEN Min(T) ELSE 0
    BY Zenon DEF SelectInSeq
  <2>2. T = {}
    OBVIOUS
  <2>3. QED
    BY <2>1, <2>2
<1>3. DispositionOf(none) = Unknown
  BY <1>2, Zenon DEF DispositionOf
<1>4. QED
  BY <1>1, <1>3

-----------------------------------------------------------------------------
(* The parser's steps.                                                     *)

\* How far the parser is after a step.
LEMMA AfterParts ==
  ASSUME NEW l, NEW k \in 0..Amount, PartsDone(l, k, buf', parms', uploads'), pc' = "part",
         Fitting(uploads', upload_table')
  PROVE  Progress(l, pc', buf', parms', uploads', upload_table', chunk', apreq'.parsed, edits')
BY Zenon DEF Progress

\* So it is in a file.
LEMMA AfterChunk ==
  ASSUME NEW l, NEW k \in 1..Amount, NEW j \in 0..Len(Content(k)),
         Within(l, k, j, j, buf', parms', uploads'), pc' = "chunk",
         Fitting(uploads', upload_table')
  PROVE  Progress(l, pc', buf', parms', uploads', upload_table', chunk', apreq'.parsed, edits')
BY Zenon DEF Progress

\* So it is when the hook was called.
LEMMA AfterCall ==
  ASSUME NEW l, NEW k \in 1..Amount, NEW j \in 0..Len(Content(k)), NEW m \in j..Len(Content(k)),
         Within(l, k, j, m, buf', parms', uploads'), pc' = "hook",
         chunk' = SubSeq(Content(k), j + 1, m), request.hook,
         Fitting(uploads', upload_table')
  PROVE  Progress(l, pc', buf', parms', uploads', upload_table', chunk', apreq'.parsed, edits')
BY Zenon DEF Progress

\* So it is after all parts.
LEMMA AfterLast ==
  ASSUME NEW l, parms' = PairsOf(Amount), uploads' = UploadsOf(Amount), pc' = "handler"
  PROVE  Progress(l, pc', buf', parms', uploads', upload_table', chunk', apreq'.parsed, edits')
BY Zenon DEF Progress

\* The parser adds a parameter.
LEMMA ParmAdded ==
  ASSUME IInv, pc # "handler", NEW e \in Entries, Become(Append(parms, e)), UNCHANGED <<each, edits>>
  PROVE  parms' = Append(parms, e)
<1>1. TableTypeOK /\ TableInv /\ Structure
  BY DEF IInv
<1>2. parms \in Seq(Entries)
  BY <1>1 DEF TableTypeOK
<1>3. each = NotLooping /\ edits = 0
  BY <1>1 DEF Structure
<1>4. Append(parms, e) \in Seq(Entries)
  BY <1>2
<1> DEFINE t == Append(parms, e)
<1>5. t \in Seq(Entries) /\ Become(t)
  BY <1>4
<1> HIDE DEF t
<1>6. parms' = t
  BY <1>1, <1>3, <1>5, TableAfter
<1>7. QED
  BY <1>6 DEF t

\* After the last part the parser ends.
LEMMA LastStep ==
  ASSUME IInv, NEW l, Whole(l), pc = "part", PartsDone(l, Amount, buf, parms, uploads),
         NextPart, ~ told'
  PROVE  Progress(l, pc', buf', parms', uploads', upload_table', chunk', apreq'.parsed, edits')
<1> DEFINE h == NextHeaders
           d == DispositionOf(h.lines)
<1>1. \/ NoMoreParts(h) \/ FieldPart(h, d) \/ ForbiddenFile(h, d)
      \/ FilePart(h, d) \/ NoTmpfile(h, d)
  BY Zenon DEF NextPart
<1>2. BufAt(buf, BeforePart(l, Amount + 1)) /\ parms = PairsOf(Amount)
      /\ uploads = UploadsOf(Amount)
  BY DEF PartsDone
<1>3. h.found = FALSE
  BY <1>2, NoPartFound
<1>4. d = Unknown
  BY <1>3, NothingFound
<1> HIDE DEF h, d
<1>5. d.filename = NoText
  BY <1>4 DEF Unknown
<1>6. NoMoreParts(h)
  <2>1. ~ FieldPart(h, d)
    BY <1>3 DEF FieldPart
  <2>2. ~ ForbiddenFile(h, d) /\ ~ FilePart(h, d) /\ ~ NoTmpfile(h, d)
    BY <1>5 DEF ForbiddenFile, FilePart, NoTmpfile, AddUpload
  <2>3. QED
    BY <1>1, <2>1, <2>2
<1>7. pc' = "handler" /\ parms' = parms /\ uploads' = uploads
  BY <1>6 DEF NoMoreParts, Ended, tableVars
<1>8. QED
  BY <1>2, <1>7, AfterLast

\* A part that is no file becomes a parameter.
LEMMA FieldStep ==
  ASSUME IInv, NEW l, Whole(l), pc = "part", NEW k \in 0..Amount - 1,
         PartsDone(l, k, buf, parms, uploads), Fitting(uploads, upload_table),
         NEW h, BufAt(h.buf, ContentAt(l, k + 1)),
         NEW d, d # Unknown,
         d = [param |-> request.parts[k + 1].param, filename |-> request.parts[k + 1].filename],
         FieldPart(h, d)
  PROVE  Progress(l, pc', buf', parms', uploads', upload_table', chunk', apreq'.parsed, edits')
<1> DEFINE i == k + 1
           value == MultipartBufferReadBody(h.buf)
           e == [key |-> d.param, val |-> value.bytes]
<1>1. /\ RequestTypeOK /\ request.parts \in Seq(Parts) /\ Amount \in Nat
      /\ request.query \in Seq(Entries)
  BY WholeFacts DEF RequestTypeOK
<1>2. i \in 1..Amount /\ i \in 0..Amount /\ i - 1 = k /\ (i = 1 <=> k = 0)
  BY <1>1
<1>3. BufAt(h.buf, ContentAt(l, i))
  OBVIOUS
<1> HIDE DEF i
<1>5. /\ d.filename = NoText /\ buf' = value.buf
      /\ Become(Append(parms, [key |-> d.param, val |-> value.bytes]))
      /\ UNCHANGED <<pc, apreq, uploads, upload_table, chunk>>
      /\ UNCHANGED <<each, edits>>
  <2> HIDE DEF value
  <2>1. \E v \in {value} : buf' = v.buf /\ AddParm(d.param, v.bytes)
    BY Zenon DEF FieldPart, value
  <2>2. d.filename = NoText /\ UNCHANGED <<pc, apreq, uploads, upload_table, chunk>>
        /\ UNCHANGED <<each, edits>>
    BY Zenon DEF FieldPart, ParserStays
  <2>3. QED
    BY <2>1, <2>2 DEF AddParm
<1> HIDE DEF value
<1>6. request.parts[i].filename = NoText /\ d.param = request.parts[i].param
  BY <1>5 DEF i
<1>4. value.bytes = Content(i) /\ BufAt(value.buf, EndAt(l, i))
  <2>1. PartAt(l, i)
    BY <1>2, WholeFacts
  <2>2. Free(Content(i), {NUL})
    BY <1>6, <2>1 DEF PartAt
  <2>3. QED
    BY <1>2, <1>3, <2>2, ReadBodyWhole DEF value
<1>7. e = PairOf(i)
  BY <1>4, <1>6 DEF PairOf, Content
<1>8. e \in Entries
  <2>1. request.parts[i].param \in Text /\ Content(i) \in Text
    BY <1>1, <1>2, PartFields
  <2>2. QED
    BY <1>4, <1>6, <2>1 DEF Entries
<1>9. Become(Append(parms, e))
  BY <1>5
<1> HIDE DEF e
<1>10. parms' = Append(parms, e)
  BY <1>5, <1>8, <1>9, ParmAdded
<1>11. parms = PairsOf(k) /\ uploads = UploadsOf(k)
  BY DEF PartsDone
<1>12. parms' = PairsOf(i)
  <2>1. PairsOf(i) = Append(PairsOf(i - 1), PairOf(i))
    BY <1>1, <1>2, PairsStep
  <2>2. QED
    BY <1>2, <1>7, <1>10, <1>11, <2>1
<1>13. uploads' = UploadsOf(i)
  <2>1. UploadsOf(i) = UploadsOf(i - 1)
    <3>1. ~ IsFile(i)
      BY <1>6 DEF IsFile
    <3>2. QED
      BY <1>1, <1>2, <3>1, UploadsStep
  <2>2. QED
    BY <1>2, <1>5, <1>11, <2>1
<1>14. BufAt(buf', BeforePart(l, i + 1))
  <2>1. i + 1 # 1 /\ (i + 1) - 1 = i
    BY <1>2
  <2>2. BeforePart(l, i + 1) = EndAt(l, i)
    BY <2>1 DEF BeforePart
  <2>3. QED
    BY <1>4, <1>5, <2>2
<1>15. PartsDone(l, i, buf', parms', uploads')
  BY <1>12, <1>13, <1>14 DEF PartsDone
<1>16. pc' = "part" /\ Fitting(uploads', upload_table')
  BY <1>5
<1>17. QED
  BY <1>2, <1>15, <1>16, AfterParts

\* A part that is a file gets a parameter and an upload.
LEMMA FileStep ==
  ASSUME IInv, NEW l, Whole(l), pc = "part", NEW k \in 0..Amount - 1,
         PartsDone(l, k, buf, parms, uploads), Fitting(uploads, upload_table),
         NEW h, BufAt(h.buf, ContentAt(l, k + 1)),
         NEW d,
         d = [param |-> request.parts[k + 1].param, filename |-> request.parts[k + 1].filename],
         FilePart(h, d)
  PROVE  Progress(l, pc', buf', parms', uploads', upload_table', chunk', apreq'.parsed, edits')
<1> DEFINE i == k + 1
           f == FillBuffer(h.buf)
           c == ContentAt(l, i)
           e == [key |-> d.param, val |-> d.filename]
           u == NewUpload(d)
<1>1. /\ RequestTypeOK /\ Calm /\ request.parts \in Seq(Parts) /\ Amount \in Nat
      /\ request.query \in Seq(Entries)
  BY WholeFacts DEF RequestTypeOK
<1>2. i \in 1..Amount /\ i \in 0..Amount /\ i - 1 = k
  BY <1>1
<1>3. BufAt(h.buf, c)
  OBVIOUS
<1>4. d.filename = request.parts[i].filename /\ d.param = request.parts[i].param
  OBVIOUS
<1>5. /\ d.filename # NoText /\ Become(Append(parms, [key |-> d.param, val |-> d.filename]))
      /\ uploads' = Append(uploads, u)
      /\ StartFile(f) /\ upload_table' = upload_table /\ UNCHANGED <<each, edits>>
  <2>1. AddUpload(d, u) /\ StartFile(f) /\ upload_table' = upload_table
        /\ UNCHANGED <<each, edits>>
    BY Zenon DEF FilePart, ParserStays
  <2> HIDE DEF u, f
  <2>2. QED
    BY <2>1 DEF AddUpload, AddParm
<1> HIDE DEF i
<1>6. BufAt(f, c)
  <2> HIDE DEF c
  <2>1. QED
    BY <1>1, <1>3, FillAt
<1>7. ~ AtDelimiter(f)
  <2>1. c = ContentAt(l, i) /\ f = FillBuffer(h.buf)
    OBVIOUS
  <2> HIDE DEF c, f
  <2>2. QED
    BY <1>2, <1>3, <2>1, NotEmptyFile
<1> HIDE DEF f
<1>8. buf' = f /\ pc' = "chunk"
  BY <1>5, <1>7 DEF StartFile
<1>9. e = PairOf(i) /\ IsFile(i)
  BY <1>4, <1>5 DEF PairOf, IsFile
<1>10. u = PartOf(i, 0) /\ u \in Upload /\ u.name = d.param
  <2> HIDE DEF u
  <2>1. u = [name |-> d.param, filename |-> d.filename, data |-> <<>>, size |-> 0]
    BY DEF u, NewUpload
  <2>2. /\ PartOf(i, 0) = [name |-> request.parts[i].param,
                           filename |-> request.parts[i].filename, data |-> <<>>, size |-> 0]
        /\ \A j \in 0..Len(Content(i)) : PartOf(i, j) \in Upload
    BY <1>1, <1>2, PartEnds
  <2>3. u = PartOf(i, 0)
    BY <1>4, <2>1, <2>2
  <2>4. 0 \in 0..Len(Content(i))
    <3>1. Len(Content(i)) \in Nat
      BY <1>1, <1>2, PartFields
    <3>2. QED
      BY <3>1
  <2>5. PartOf(i, 0) \in Upload
    BY <2>2, <2>4
  <2>6. QED
    BY <2>1, <2>3, <2>5
<1> HIDE DEF u
<1>11. e \in Entries
  <2>1. request.parts[i].param \in Text /\ request.parts[i].filename \in Text
    BY <1>1, <1>2, <1>9, PartFields DEF IsFile
  <2>2. QED
    BY <1>4, <2>1 DEF Entries
<1>12. Become(Append(parms, e))
  BY <1>5
<1> HIDE DEF e
<1>13. parms' = Append(parms, e)
  BY <1>5, <1>11, <1>12, ParmAdded
<1>14. parms = PairsOf(k) /\ uploads = UploadsOf(k)
  BY DEF PartsDone
<1>15. parms' = PairsOf(i)
  <2>1. PairsOf(i) = Append(PairsOf(i - 1), PairOf(i))
    BY <1>1, <1>2, PairsStep
  <2>2. QED
    BY <1>2, <1>9, <1>13, <1>14, <2>1
<1>16. uploads' = Append(UploadsOf(i - 1), PartOf(i, 0))
  BY <1>2, <1>5, <1>10, <1>14
<1>17. Fitting(uploads', upload_table')
  <2>1. RestType
    BY DEF IInv
  <2>2. uploads \in Seq(Upload) /\ upload_table \in [DOMAIN upload_table -> 1..Len(uploads)]
    BY <2>1 DEF RestType
  <2>3. \A x \in 1..Len(uploads) : uploads'[x] = uploads[x]
    BY <1>5, <1>10, <2>2, AppendFacts
  <2>4. ASSUME NEW name \in DOMAIN upload_table PROVE uploads'[upload_table[name]].name = name
    <3>1. upload_table[name] \in 1..Len(uploads)
      BY <2>2
    <3>2. uploads[upload_table[name]].name = name
      BY DEF Fitting
    <3>3. QED
      BY <2>3, <3>1, <3>2
  <2>5. QED
    BY <1>5, <2>4 DEF Fitting
<1>18. Within(l, i, 0, 0, buf', parms', uploads')
  <2>1. c + 0 = c
    <3>1. c \in Nat
      BY <1>6 DEF BufAt
    <3> HIDE DEF c
    <3>2. QED
      BY <3>1
  <2>2. BufAt(buf', ContentAt(l, i) + 0)
    BY <1>6, <1>8, <2>1
  <2>3. QED
    BY <1>9, <1>15, <1>16, <2>2 DEF Within
<1>19. 0 \in 0..Len(Content(i))
  <2>1. Len(Content(i)) \in Nat
    BY <1>1, <1>2, PartFields
  <2>2. QED
    BY <2>1
<1>20. QED
  BY <1>2, <1>8, <1>17, <1>18, <1>19, AfterChunk

\* One more part.
LEMMA PartStep ==
  ASSUME IInv, NEW l, Whole(l), pc = "part", NEW k \in 0..Amount - 1,
         PartsDone(l, k, buf, parms, uploads), Fitting(uploads, upload_table),
         NextPart, ~ told'
  PROVE  Progress(l, pc', buf', parms', uploads', upload_table', chunk', apreq'.parsed, edits')
<1> DEFINE h == NextHeaders
           d == DispositionOf(h.lines)
           i == k + 1
<1>1. \/ NoMoreParts(h) \/ FieldPart(h, d) \/ ForbiddenFile(h, d)
      \/ FilePart(h, d) \/ NoTmpfile(h, d)
  BY Zenon DEF NextPart
<1>2. i \in 1..Amount
  <2>1. Amount \in Nat
    BY WholeFacts
  <2>2. QED
    BY <2>1
<1>3. BufAt(buf, BeforePart(l, i))
  BY DEF PartsDone
<1> HIDE DEF i
<1>4. /\ h.found = TRUE /\ h.lines = HeadersRead(l, i) /\ BufAt(h.buf, ContentAt(l, i))
  BY <1>2, <1>3, NextPartFound
<1>5. /\ d # Unknown
      /\ d = [param |-> request.parts[i].param, filename |-> request.parts[i].filename]
  <2>1. PartAt(l, i)
    BY <1>2, WholeFacts
  <2>2. DispositionOf(HeadersRead(l, i)) # Unknown /\ DispositionOf(HeadersRead(l, i)) =
          [param |-> request.parts[i].param, filename |-> request.parts[i].filename]
    BY <2>1, Zenon DEF PartAt
  <2>3. QED
    BY <1>4, <2>2
<1> HIDE DEF h, d
<1>6. /\ BufAt(h.buf, ContentAt(l, k + 1))
      /\ d = [param |-> request.parts[k + 1].param, filename |-> request.parts[k + 1].filename]
  BY <1>4, <1>5, Zenon DEF i
<1>7. ~ NoMoreParts(h)
  BY <1>4 DEF NoMoreParts
<1>8. ~ ForbiddenFile(h, d) /\ ~ NoTmpfile(h, d)
  <2>1. OK \notin {HTTP_FORBIDDEN, HTTP_INTERNAL_SERVER_ERROR}
    BY InputAssumption
  <2>2. QED
    BY <2>1 DEF ForbiddenFile, NoTmpfile, Ended, Parsed
<1>9. CASE FieldPart(h, d)
  BY <1>5, <1>6, <1>9, FieldStep
<1>10. CASE FilePart(h, d)
  BY <1>6, <1>10, FileStep
<1>11. QED
  BY <1>1, <1>7, <1>8, <1>9, <1>10

\* The files of a request that has a hook have names of their own.
NamesDiffer ==
  \A i, j \in 1..Amount :
    IsFile(i) /\ IsFile(j) /\ request.parts[i].param = request.parts[j].param => i = j

\* The upload of the file that is read is the last one.
LEMMA FileIsLast ==
  ASSUME request.parts \in Seq(Parts), NEW k \in 1..Amount, NEW j \in 0..Len(Content(k)),
         uploads = Append(UploadsOf(k - 1), PartOf(k, j))
  PROVE  /\ UploadsOf(k - 1) \in Seq(Upload) /\ PartOf(k, j) \in Upload
         /\ uploads \in Seq(Upload) /\ Len(uploads) = Len(UploadsOf(k - 1)) + 1
         /\ \A x \in 1..Len(uploads) - 1 : uploads[x] = UploadsOf(k - 1)[x]
         /\ Last(uploads).name = request.parts[k].param
         /\ uploads[Len(uploads)].name = request.parts[k].param
<1> DEFINE U == UploadsOf(k - 1)
           z == PartOf(k, j)
<1>1. Amount \in Nat
  BY PartFields
<1>2. k - 1 \in 0..Amount
  BY <1>1
<1>3. U \in Seq(Upload)
  BY <1>2, UploadsStep
<1>4. z \in Upload
  BY PartEnds
<1>5. z.name = request.parts[k].param
  BY DEF PartOf
<1>6. uploads = Append(U, z)
  OBVIOUS
<1> HIDE DEF U, z
<1>7. /\ uploads \in Seq(Upload) /\ Len(uploads) = Len(U) + 1
      /\ \A x \in 1..Len(U) : uploads[x] = U[x]
      /\ uploads[Len(U) + 1] = z /\ Last(uploads) = z
  <2> DEFINE t == Append(U, z)
  <2>1. /\ t \in Seq(Upload) /\ Len(t) = Len(U) + 1
        /\ \A x \in 1..Len(U) : t[x] = U[x]
        /\ t[Len(U) + 1] = z /\ Last(t) = z
    BY <1>3, <1>4, AppendFacts
  <2>2. uploads = t
    BY <1>6
  <2> HIDE DEF t
  <2>3. QED
    BY <2>1, <2>2
<1>8. Len(U) \in Nat /\ Len(uploads) - 1 = Len(U)
  BY <1>3, <1>7
<1>9. \A x \in 1..Len(uploads) - 1 : uploads[x] = U[x]
  BY <1>7, <1>8
<1>10. Last(uploads).name = request.parts[k].param /\ uploads[Len(uploads)].name = request.parts[k].param
  BY <1>5, <1>7
<1>11. QED
  BY <1>3, <1>4, <1>7, <1>9, <1>10 DEF U, z

\* What is read of a file is the next piece of its content.
LEMMA NextPiece ==
  ASSUME NEW l, Whole(l), NEW k \in 1..Amount, NEW j \in 0..Len(Content(k)),
         NEW b, BufAt(b, ContentAt(l, k) + j), NEW r, r = MultipartBufferRead(b, FILLUNIT)
  PROVE  \E m \in j..Len(Content(k)) :
           /\ m = j => j = Len(Content(k))
           /\ Stretch(k, j, m) /\ StretchIs(k, j, m, r.bytes) /\ BufAt(r.buf, ContentAt(l, k) + m)
<1> DEFINE c == ContentAt(l, k)
           e == EndAt(l, k)
           n == Len(Content(k))
           p == c + j
<1>1. c \in Nat /\ e = c + n /\ n \in Nat /\ j \in Nat /\ j <= n
  <2>1. c \in Nat /\ e = c + n /\ n \in Nat
    BY PartNumbers
  <2>2. j \in 0..n
    OBVIOUS
  <2> HIDE DEF c, e, n
  <2>3. QED
    BY <2>1, <2>2
<1>2. p \in Nat /\ c <= p /\ p <= e
  <2> HIDE DEF c, e, n
  <2>1. QED
    BY <1>1
<1>3. PICK long \in Nat :
        /\ p + long <= e /\ (p < e => long > 0)
        /\ r.bytes = SubSeq(request.body, p + 1, p + long)
        /\ BufAt(r.buf, p + long)
  <2>1. c = ContentAt(l, k) /\ e = EndAt(l, k) /\ BufAt(b, p)
    OBVIOUS
  <2> HIDE DEF c, e, p, n
  <2>2. QED
    BY <1>2, <2>1, ReadAt
<1> DEFINE m == j + long
<1>4. /\ m \in j..n /\ m \in Nat /\ j <= m /\ m <= n /\ p + long = c + m /\ p = c + j
      /\ (m = j => j = n)
  <2>1. p + long <= e /\ (p < e => long > 0)
    BY <1>3
  <2> HIDE DEF c, e, n
  <2>2. QED
    BY <1>1, <2>1
<1>5. Stretch(k, j, m)
  BY <1>1, <1>4 DEF Stretch
<1>6. r.bytes = SubSeq(request.body, (c + j) + 1, c + m) /\ BufAt(r.buf, c + m)
  <2> HIDE DEF c, e, n, m, p
  <2>1. QED
    BY <1>3, <1>4
<1>7. StretchIs(k, j, m, SubSeq(request.body, (c + j) + 1, c + m))
  <2>1. c = ContentAt(l, k)
    OBVIOUS
  <2> HIDE DEF c, e, n, m, p
  <2>2. QED
    BY <1>5, <2>1, ContentPiece
<1>8. StretchIs(k, j, m, r.bytes)
  <2> HIDE DEF c, m, p
  <2>1. QED
    BY <1>6, <1>7
<1>9. QED
  BY <1>4, <1>5, <1>6, <1>8

\* A chunk of a file is read.
LEMMA ChunkStep ==
  ASSUME IInv, NEW l, Whole(l), pc = "chunk", NEW k \in 1..Amount, NEW j \in 0..Len(Content(k)),
         Within(l, k, j, j, buf, parms, uploads), Fitting(uploads, upload_table), FileChunk
  PROVE  Progress(l, pc', buf', parms', uploads', upload_table', chunk', apreq'.parsed, edits')
<1> DEFINE r == MultipartBufferRead(buf, FILLUNIT)
           name == Last(uploads).name
           table == IF name \in DOMAIN upload_table THEN upload_table ELSE WithObject(name)
           c == ContentAt(l, k)
           e == EndAt(l, k)
           n == Len(Content(k))
           p == c + j
           U == UploadsOf(k - 1)
<1>1. /\ Calm /\ request.parts \in Seq(Parts) /\ Amount \in Nat
  BY WholeFacts
<1>2. /\ IsFile(k) /\ BufAt(buf, p) /\ parms = PairsOf(k) /\ uploads = Append(U, PartOf(k, j))
  BY DEF Within
<1>3. c \in Nat /\ e = c + n /\ n \in Nat /\ j \in Nat /\ j <= n
  <2>1. c \in Nat /\ e = c + n /\ n \in Nat
    BY PartNumbers
  <2> HIDE DEF c, e
  <2>2. j \in 0..n
    OBVIOUS
  <2> HIDE DEF n
  <2>3. QED
    BY <2>1, <2>2
<1>4. /\ buf' = r.buf /\ parms' = parms
      /\ \/ /\ pc' = "part" /\ r.bytes = <<>>
            /\ UNCHANGED <<uploads, upload_table, chunk>>
         \/ /\ pc' = "hook" /\ chunk' = r.bytes /\ request.hook
            /\ upload_table' = table
            /\ uploads' = uploads
         \/ /\ uploads' = Written(Len(uploads), r.bytes)
            /\ UNCHANGED <<pc, upload_table, chunk>>
  <2> HIDE DEF c, e, p, n, U
  <2>1. QED
    BY Zenon DEF FileChunk
<1>5. PICK m \in j..n :
        /\ m = j => j = n
        /\ Stretch(k, j, m) /\ StretchIs(k, j, m, r.bytes) /\ BufAt(r.buf, c + m)
  <2>1. BufAt(buf, ContentAt(l, k) + j) /\ r = MultipartBufferRead(buf, FILLUNIT)
    BY <1>2
  <2> HIDE DEF r, p
  <2>2. QED
    BY <2>1, NextPiece
<1>6. m \in Nat /\ j <= m /\ m <= n
  <2> HIDE DEF n
  <2>1. QED
    BY <1>3
<1>7. r.bytes = SubSeq(Content(k), j + 1, m) /\ BufAt(r.buf, c + m)
  BY <1>5 DEF StretchIs
<1>8. m \in 0..n /\ m \in j..n
  <2> HIDE DEF n, c, p, r
  <2>1. QED
    BY <1>3, <1>6
<1>9. U \in Seq(Upload) /\ uploads \in Seq(Upload) /\ Len(uploads) = Len(U) + 1
      /\ name = request.parts[k].param /\ uploads[Len(uploads)].name = request.parts[k].param
      /\ \A x \in 1..Len(uploads) - 1 : uploads[x] = U[x]
  <2>1. uploads = Append(UploadsOf(k - 1), PartOf(k, j))
    BY <1>2
  <2>2. QED
    BY <1>1, <2>1, FileIsLast
<1>10. RestType
  BY DEF IInv
<1>11. upload_table \in [DOMAIN upload_table -> 1..Len(uploads)]
  BY <1>10 DEF RestType
<1>12. Len(uploads) \in Nat /\ Len(U) \in Nat
  BY <1>9
<1>13. CASE pc' = "part" /\ r.bytes = <<>> /\ UNCHANGED <<uploads, upload_table, chunk>>
  <2>1. j = n /\ m = n
    <3>1. Len(SubSeq(Content(k), j + 1, m)) = m - j
      <4>1. Content(k) \in Seq(Bytes) /\ Len(Content(k)) \in Nat
        BY <1>1, PartFields
      <4>2. j \in Nat /\ m \in j..Len(Content(k)) /\ Content(k) \in Seq(Bytes)
        BY <1>3, <1>8, <4>1
      <4> DEFINE s == SubSeq(Content(k), j + 1, m)
      <4>3. IsPiece(Content(k), j, m, s)
        BY <4>2, PieceOf
      <4>4. QED
        BY <4>3 DEF IsPiece
    <3>2. m - j = 0
      BY <1>7, <1>13, <3>1
    <3>3. m = j => j = n
      BY <1>5
    <3> HIDE DEF n, c, p, r
    <3>4. QED
      BY <1>3, <1>6, <3>2, <3>3
  <2>2. uploads' = UploadsOf(k)
    <3>1. PartOf(k, n) = UploadOf(request.parts[k])
      BY <1>1, PartEnds
    <3>2. UploadsOf(k) = Append(UploadsOf(k - 1), UploadOf(request.parts[k]))
      BY <1>1, <1>2, UploadsStep
    <3>3. QED
      BY <1>2, <1>13, <2>1, <3>1, <3>2
  <2>3. BufAt(buf', BeforePart(l, k + 1))
    <3>1. k + 1 # 1 /\ (k + 1) - 1 = k
      BY <1>1
    <3>2. BeforePart(l, k + 1) = e
      BY <3>1 DEF BeforePart
    <3>3. QED
      BY <1>3, <1>4, <1>7, <2>1, <3>2
  <2>4. PartsDone(l, k, buf', parms', uploads')
    BY <1>2, <1>4, <2>2, <2>3 DEF PartsDone
  <2>5. k \in 0..Amount
    BY <1>1
  <2>6. pc' = "part" /\ Fitting(uploads', upload_table')
    BY <1>13
  <2>7. QED
    BY <2>4, <2>5, <2>6, AfterParts
<1>14. CASE /\ pc' = "hook" /\ chunk' = r.bytes /\ request.hook
            /\ upload_table' = table
            /\ uploads' = uploads
  <2>1. Within(l, k, j, m, buf', parms', uploads')
    BY <1>2, <1>4, <1>7, <1>14 DEF Within
  <2>2. Fitting(uploads, table)
    <3> HIDE DEF name, U
    <3>1. CASE name \in DOMAIN upload_table
      BY <3>1
    <3>2. CASE name \notin DOMAIN upload_table
      <4>1. table = [x \in DOMAIN upload_table \cup {name} |->
                       IF x = name THEN Len(uploads) ELSE upload_table[x]]
        BY <3>2 DEF WithObject
      <4>2. uploads[Len(uploads)].name = name
        BY <1>9
      <4>3. \A x \in DOMAIN upload_table : uploads[upload_table[x]].name = x
        BY DEF Fitting
      <4> HIDE DEF table
      <4>4. ASSUME NEW x \in DOMAIN table PROVE uploads[table[x]].name = x
        BY <4>1, <4>2, <4>3
      <4>5. QED
        BY <4>4 DEF Fitting
    <3>3. QED
      BY <3>1, <3>2
  <2>3. Fitting(uploads', upload_table') /\ pc' = "hook" /\ request.hook
    BY <1>14, <2>2
  <2>4. chunk' = SubSeq(Content(k), j + 1, m)
    BY <1>7, <1>14
  <2>5. m \in j..Len(Content(k))
    BY <1>8
  <2>6. QED
    BY <2>1, <2>3, <2>4, <2>5, AfterCall
<1>15. CASE uploads' = Written(Len(uploads), r.bytes) /\ UNCHANGED <<pc, upload_table, chunk>>
  <2>1. Written(Len(uploads), r.bytes) = Append(U, PartOf(k, m))
    <3>1. U \in Seq(Upload) /\ uploads = Append(U, PartOf(k, j))
      BY <1>2, <1>9
    <3> DEFINE bytes == r.bytes
    <3>2. Stretch(k, j, m) /\ StretchIs(k, j, m, bytes)
      BY <1>5
    <3> HIDE DEF U, bytes
    <3>3. Written(Len(uploads), bytes) = Append(U, PartOf(k, m))
      BY <1>1, <3>1, <3>2, MoreWritten
    <3>4. QED
      BY <3>3 DEF bytes
  <2>2. Within(l, k, m, m, buf', parms', uploads')
    BY <1>2, <1>4, <1>7, <1>15, <2>1 DEF Within
  <2>3. Fitting(uploads', upload_table')
    <3> DEFINE z == PartOf(k, m)
    <3>1. z \in Upload /\ z.name = request.parts[k].param
      <4>1. z \in Upload
        BY <1>1, <1>8, PartEnds
      <4>2. QED
        BY <4>1 DEF PartOf
    <3>2. uploads' = Append(U, z)
      BY <1>15, <2>1
    <3> HIDE DEF z
    <3> HIDE DEF U
    <3>3. uploads'[Len(U) + 1] = z /\ \A x \in 1..Len(U) : uploads'[x] = U[x]
      BY <1>9, <3>1, <3>2, AppendFacts
    <3>4. ASSUME NEW x \in 1..Len(uploads) PROVE uploads'[x].name = uploads[x].name
      <4>1. CASE x = Len(uploads)
        BY <1>9, <3>1, <3>3, <4>1
      <4>2. CASE x # Len(uploads)
        <5>1. x \in 1..Len(U) /\ x \in 1..Len(uploads) - 1
          BY <1>9, <1>12, <4>2
        <5>2. QED
          BY <1>9, <3>3, <5>1
      <4>3. QED
        BY <4>1, <4>2
    <3>5. ASSUME NEW x \in DOMAIN upload_table PROVE uploads'[upload_table[x]].name = x
      <4>1. upload_table[x] \in 1..Len(uploads)
        BY <1>11
      <4>2. uploads[upload_table[x]].name = x
        BY DEF Fitting
      <4>3. QED
        BY <3>4, <4>1, <4>2
    <3>6. QED
      BY <1>15, <3>5 DEF Fitting
  <2>4. pc' = "chunk" /\ m \in 0..Len(Content(k))
    BY <1>8, <1>15
  <2>5. QED
    BY <2>2, <2>3, <2>4, AfterChunk
<1>16. QED
  BY <1>4, <1>13, <1>14, <1>15

\* The hook writes a chunk to its upload.
LEMMA HookStep ==
  ASSUME IInv, NEW l, Whole(l), pc = "hook", NEW k \in 1..Amount, NEW j \in 0..Len(Content(k)),
         NEW m \in j..Len(Content(k)),
         Within(l, k, j, m, buf, parms, uploads), chunk = SubSeq(Content(k), j + 1, m),
         NamesDiffer, Fitting(uploads, upload_table), HookReturns
  PROVE  Progress(l, pc', buf', parms', uploads', upload_table', chunk', apreq'.parsed, edits')
<1> DEFINE n == Len(Content(k))
           U == UploadsOf(k - 1)
           name == Last(uploads).name
           x == upload_table[name]
<1>1. request.parts \in Seq(Parts) /\ Amount \in Nat
  BY WholeFacts
<1>2. /\ IsFile(k) /\ BufAt(buf, ContentAt(l, k) + m) /\ parms = PairsOf(k)
      /\ uploads = Append(U, PartOf(k, j))
  BY DEF Within
<1>3. n \in Nat /\ j \in Nat /\ m \in Nat /\ j <= m /\ m <= n
  <2>1. n \in Nat
    BY <1>1, PartFields
  <2>2. j \in 0..n /\ m \in j..n
    OBVIOUS
  <2> HIDE DEF n
  <2>3. QED
    BY <2>1, <2>2
<1>4. /\ U \in Seq(Upload) /\ uploads \in Seq(Upload) /\ Len(uploads) = Len(U) + 1
      /\ name = request.parts[k].param /\ uploads[Len(uploads)].name = request.parts[k].param
      /\ \A i \in 1..Len(uploads) - 1 : uploads[i] = U[i]
  <2>1. uploads = Append(UploadsOf(k - 1), PartOf(k, j))
    BY <1>2
  <2>2. QED
    BY <1>1, <2>1, FileIsLast
<1>5. upload_table \in [DOMAIN upload_table -> 1..Len(uploads)] /\ name \in DOMAIN upload_table
  BY InParser
<1>6. /\ uploads' = Written(x, chunk) /\ pc' = "chunk" /\ parms' = parms /\ buf' = buf
      /\ upload_table' = upload_table
  <2> HIDE DEF n, U
  <2>1. QED
    BY Zenon DEF HookReturns
<1> HIDE DEF name
<1>7. x \in 1..Len(uploads) /\ uploads[x].name = name
  BY <1>5 DEF Fitting
<1> HIDE DEF x
<1>8. Len(uploads) \in Nat /\ Len(U) \in Nat
  BY <1>4
<1>9. x = Len(uploads)
  <2> SUFFICES ASSUME x # Len(uploads) PROVE FALSE
    OBVIOUS
  <2>1. x \in 1..Len(uploads) - 1 /\ x \in 1..Len(U)
    <3> DEFINE a == Len(uploads)
               b == Len(U)
    <3>1. x \in 1..a /\ x # a /\ a = b + 1 /\ a \in Nat /\ b \in Nat
      BY <1>4, <1>7, <1>8
    <3> HIDE DEF a, b
    <3>2. x \in 1..a - 1 /\ x \in 1..b
      BY <3>1
    <3>3. QED
      BY <3>2 DEF a, b
  <2>2. U[x].name = request.parts[k].param
    BY <1>4, <1>7, <2>1
  <2>3. k - 1 \in 0..Amount
    BY <1>1
  <2>4. PICK i \in 1..k - 1 : IsFile(i) /\ U[x].name = request.parts[i].param
    BY <1>1, <2>1, <2>3, UploadNames
  <2>5. i \in 1..Amount /\ i # k
    BY <1>1
  <2>6. request.parts[i].param = request.parts[k].param
    BY <2>2, <2>4
  <2>7. QED
    BY <1>2, <2>4, <2>5, <2>6 DEF NamesDiffer
<1>10. Written(Len(uploads), chunk) = Append(U, PartOf(k, m))
  <2>1. Stretch(k, j, m) /\ StretchIs(k, j, m, chunk)
    BY <1>3 DEF Stretch, StretchIs
  <2>2. U \in Seq(Upload) /\ uploads = Append(U, PartOf(k, j))
    BY <1>2, <1>4
  <2> HIDE DEF U
  <2>3. QED
    BY <1>1, <2>1, <2>2, MoreWritten
<1>11. uploads' = Append(U, PartOf(k, m))
  BY <1>6, <1>9, <1>10
<1>12. Within(l, k, m, m, buf', parms', uploads')
  BY <1>2, <1>6, <1>11 DEF Within
<1>13. m \in 0..Len(Content(k))
  BY <1>3
<1>14. Fitting(uploads', upload_table')
  <2> DEFINE z == PartOf(k, m)
  <2>1. z \in Upload /\ z.name = request.parts[k].param
    <3>1. z \in Upload
      BY <1>1, <1>13, PartEnds
    <3>2. QED
      BY <3>1 DEF PartOf
  <2>2. uploads' = Append(U, z)
    BY <1>11
  <2> HIDE DEF z, U
  <2>3. uploads'[Len(U) + 1] = z /\ \A i \in 1..Len(U) : uploads'[i] = U[i]
    BY <1>4, <2>1, <2>2, AppendFacts
  <2>4. ASSUME NEW i \in 1..Len(uploads) PROVE uploads'[i].name = uploads[i].name
    <3>1. CASE i = Len(uploads)
      BY <1>4, <2>1, <2>3, <3>1
    <3>2. CASE i # Len(uploads)
      <4>1. i \in 1..Len(U) /\ i \in 1..Len(uploads) - 1
        BY <1>4, <1>8, <3>2
      <4>2. QED
        BY <1>4, <2>3, <4>1
    <3>3. QED
      BY <3>1, <3>2
  <2>5. ASSUME NEW i \in DOMAIN upload_table PROVE uploads'[upload_table[i]].name = i
    <3>1. upload_table[i] \in 1..Len(uploads)
      BY <1>5
    <3>2. uploads[upload_table[i]].name = i
      BY DEF Fitting
    <3>3. QED
      BY <2>4, <3>1, <3>2
  <2>6. QED
    BY <1>6, <2>5 DEF Fitting
<1>15. QED
  BY <1>6, <1>12, <1>13, <1>14, AfterChunk

\* What a client sends as a multipart form, whole: the parts in a body as above,
\* and the pairs of the query string.
MultipartSent ==
  /\ request.type = "multipart" /\ request.method = "POST" /\ request.missing = 0
  /\ Encodes(request.args, request.query)
  /\ Ordinary /\ \E l : Sent(l)
  /\ request.hook => NamesDiffer

\* A first parse begins with the first part, or is refused.
LEMMA BeginsToRead ==
  ASSUME NEW l, Whole(l), MultipartSent, GoodBuffer(buf), buf.client = NewClient,
         NEW body, body = ParseBody, NEW b, b = NewBuffer(body.client)
  PROVE  /\ body.status = Reading \/ body.status # OK
         /\ body.status = Reading => body.parms = <<>> /\ BufAt(b, 0)
<1> DEFINE old == buf.client
           client == SetupClient(old)
           r == UtilRead(client)
           Ends(status, c) == [status |-> status, parms |-> <<>>, client |-> c]
           done == [Ends(OK, r.client) EXCEPT !.parms = SplitToParms(CString(r.bytes))]
           all == Len(request.body)
<1>1. old \in Clients /\ old.at = 0 /\ old.read_length = 0
  BY BufferFields DEF GoodBuffer, NewClient
<1>2. /\ client \in Clients /\ client.at = 0 /\ client.remaining = Announced
      /\ client.read_length = 0
  <2>1. RequestTypeOK
    BY WholeFacts
  <2>2. QED
    BY <1>1, <2>1, SetupFields
<1>3. all \in Nat /\ all > 0 /\ Announced = all
  <2>1. all \in Nat /\ request.missing = 0
    BY WholeFacts DEF MultipartSent
  <2> DEFINE s == l.starts[Amount + 1]
             dl == Len(Delimiter)
  <2>2. s \in Nat /\ s + (dl + 4) = all
    BY ClosingLine
  <2>3. dl \in Nat
    BY DelimiterType
  <2> HIDE DEF s, dl, all
  <2>4. all > 0
    BY <2>1, <2>2, <2>3
  <2>5. QED
    BY <2>1, <2>4 DEF Announced, all
<1>4. body =
      IF request.method # "POST" THEN Ends(OK, old)
      ELSE IF request.type = "other" THEN Ends(HTTP_INTERNAL_SERVER_ERROR, old)
      ELSE IF SetupFails THEN Ends(HTTP_LENGTH_REQUIRED, old)
      ELSE IF ~ ShouldRead(client) THEN Ends(OK, client)
      ELSE IF TooLarge(client.remaining) THEN Ends(HTTP_REQUEST_ENTITY_TOO_LARGE, client)
      ELSE IF request.type = "form" THEN done
      ELSE IF request.type = "noboundary" THEN Ends(DECLINED, client)
      ELSE Ends(Reading, client)
  BY Zenon DEF ParseBody
<1>5. OK # HTTP_LENGTH_REQUIRED /\ OK # HTTP_REQUEST_ENTITY_TOO_LARGE
  BY InputAssumption
<1>6. request.method = "POST" /\ request.type = "multipart"
  BY DEF MultipartSent
<1> HIDE DEF old, client, r, done, all
<1>7. ShouldRead(client)
  BY <1>2, <1>3 DEF ShouldRead
<1>8. \/ body = Ends(HTTP_LENGTH_REQUIRED, old)
      \/ body = Ends(HTTP_REQUEST_ENTITY_TOO_LARGE, client)
      \/ body = Ends(Reading, client)
  <2> HIDE DEF Ends
  <2>1. QED
    BY <1>4, <1>6, <1>7
<1>9. CASE body = Ends(Reading, client)
  <2>1. body.status = Reading /\ body.parms = <<>> /\ body.client = client
    BY <1>9
  <2>2. GoodBuffer(b) /\ b.client = client
    BY <1>2, <2>1, NewBufferGood
  <2>3. b.n = 0
    BY Zenon DEF NewBuffer
  <2>4. client.remaining = Left(client.at)
    BY <1>2, <1>3 DEF Left, all
  <2>5. 0 + b.n = b.client.at /\ \A i \in 1..b.n : ByteAt(b, b.begin + i - 1) = request.body[0 + i]
    BY <1>2, <2>2, <2>3
  <2>6. BufAt(b, 0)
    BY <2>2, <2>4, <2>5 DEF BufAt
  <2>7. QED
    BY <2>1, <2>6
<1>10. CASE \/ body = Ends(HTTP_LENGTH_REQUIRED, old)
            \/ body = Ends(HTTP_REQUEST_ENTITY_TOO_LARGE, client)
  <2>1. body.status # OK /\ body.status \in Statuses
    BY <1>5, <1>10 DEF Statuses
  <2>2. body.status # Reading
    BY <2>1, InputAssumption
  <2>3. QED
    BY <2>1, <2>2
<1>11. QED
  BY <1>8, <1>9, <1>10

\* A first parse that is not refused is before the first part.
LEMMA FirstParse ==
  ASSUME IInv, NEW l, Whole(l), MultipartSent, Parse, entered = 0, reads = 0, ~ told'
  PROVE  Progress(l, pc', buf', parms', uploads', upload_table', chunk', apreq'.parsed, edits')
<1> DEFINE query == SplitToParms(request.args)
           body == ParseBody
           bp == body.parms
           t == parms \o query \o bp
           nargs == IF request.args = <<>> THEN apreq.nargs ELSE CountQuery(query, bp)
           counted == [apreq EXCEPT !.nargs = nargs]
           b == NewBuffer(body.client)
<1>1. /\ RequestTypeOK /\ GoodBuffer(buf) /\ RestType /\ TableTypeOK /\ TableInv
      /\ Structure /\ WaitInv
  BY DEF IInv
<1>2. /\ ~ apreq.parsed /\ Become(t) /\ each' = each /\ edits' = edits
      /\ uploads' = uploads /\ upload_table' = upload_table
      /\ IF body.status = Reading THEN pc' = "part" /\ buf' = b
                                  ELSE told' = (told \/ body.status # OK)
  <2> HIDE DEF body
  <2>1. counted = [apreq EXCEPT !.nargs = IF request.args = <<>> THEN @
                                          ELSE CountQuery(query, bp)]
    OBVIOUS
  <2> HIDE DEF counted
  <2>2. QED
    BY <2>1, Zenon DEF Parse, body
<1>3. buf.client = NewClient
  <2>1. request.missing = 0
    BY DEF MultipartSent
  <2>2. entered <= 1 /\ reads = 0 /\ entered = 0
    OBVIOUS
  <2>3. QED
    BY <1>1, <2>1, <2>2 DEF WaitInv, WaitOK
<1> HIDE DEF body, b
<1>4. /\ body.status = Reading \/ body.status # OK
      /\ body.status = Reading => body.parms = <<>> /\ BufAt(b, 0)
  BY <1>1, <1>3, BeginsToRead DEF body, b
<1>5. body.status = Reading
  <2>1. CASE body.status # Reading
    BY <1>2, <1>4, <2>1
  <2>2. QED
    BY <2>1
<1>6. bp = <<>> /\ BufAt(b, 0) /\ pc' = "part" /\ buf' = b
  BY <1>2, <1>4, <1>5
<1>7. query = request.query /\ request.query \in Seq(Entries)
  <2>1. request.args \in Text /\ request.query \in Seq(Entries) /\ Encodes(request.args, request.query)
    BY <1>1 DEF RequestTypeOK, MultipartSent
  <2>2. QED
    BY <2>1, EncodesBack
<1>8. parms = <<>> /\ uploads = <<>>
  BY <1>1 DEF Structure
<1> HIDE DEF query, bp
<1>9. t = request.query
  BY <1>6, <1>7, <1>8
<1>10. each = NotLooping /\ edits = 0
  BY <1>1, <1>2 DEF Structure
<1> HIDE DEF t
<1>11. parms' = t
  <2>1. t \in Seq(Entries)
    BY <1>7, <1>9
  <2>2. QED
    BY <1>1, <1>2, <1>10, <2>1, TableAfter
<1>12. request.parts \in Seq(Parts) /\ Amount \in Nat
  BY WholeFacts
<1>13. parms' = PairsOf(0) /\ uploads' = UploadsOf(0)
  <2>1. PairsOf(0) = request.query
    BY <1>7, <1>12, PairsStep
  <2>2. UploadsOf(0) = <<>>
    BY <1>12, UploadsStep
  <2>3. QED
    BY <1>2, <1>8, <1>9, <1>11, <2>1, <2>2
<1>14. BufAt(buf', BeforePart(l, 0 + 1))
  BY <1>6 DEF BeforePart
<1>15. PartsDone(l, 0, buf', parms', uploads')
  BY <1>13, <1>14 DEF PartsDone
<1>16. Fitting(uploads', upload_table')
  <2>1. upload_table \in [DOMAIN upload_table -> 1..Len(uploads)]
    BY <1>1 DEF RestType
  <2>2. 1..Len(uploads) = {}
    BY <1>8
  <2>3. DOMAIN upload_table = {}
    BY <2>1, <2>2
  <2>4. QED
    BY <1>2, <2>3 DEF Fitting
<1>17. 0 \in 0..Amount
  BY <1>12
<1>18. QED
  BY <1>6, <1>15, <1>16, <1>17, AfterParts

\* A step of the parser goes on in the parts.
LEMMA ParserStep ==
  ASSUME IInv, NEW l, Whole(l), MultipartSent,
         Progress(l, pc, buf, parms, uploads, upload_table, chunk, apreq.parsed, edits),
         NextPart \/ FileChunk \/ ShortWrite \/ HookReturns \/ HookRaises, ~ told'
  PROVE  Progress(l, pc', buf', parms', uploads', upload_table', chunk', apreq'.parsed, edits')
<1>1. Amount \in Nat
  BY WholeFacts
<1>2. pc # "handler" => Fitting(uploads, upload_table)
  BY DEF Progress
<1>3. CASE NextPart
  <2>1. pc = "part"
    BY <1>3 DEF NextPart
  <2>2. PICK k \in 0..Amount : PartsDone(l, k, buf, parms, uploads)
    BY <2>1 DEF Progress
  <2>3. Fitting(uploads, upload_table)
    BY <1>2, <2>1
  <2>4. CASE k = Amount
    BY <1>3, <2>1, <2>2, <2>4, LastStep
  <2>5. CASE k # Amount
    <3>1. k \in 0..Amount - 1
      BY <1>1, <2>5
    <3>2. QED
      BY <1>3, <2>1, <2>2, <2>3, <3>1, PartStep
  <2>6. QED
    BY <2>4, <2>5
<1>4. CASE FileChunk
  <2>1. pc = "chunk"
    BY <1>4 DEF FileChunk
  <2>2. PICK k \in 1..Amount : \E j \in 0..Len(Content(k)) :
          Within(l, k, j, j, buf, parms, uploads)
    BY <2>1 DEF Progress
  <2>3. PICK j \in 0..Len(Content(k)) : Within(l, k, j, j, buf, parms, uploads)
    BY <2>2
  <2>4. Fitting(uploads, upload_table)
    BY <1>2, <2>1
  <2>5. QED
    BY <1>4, <2>1, <2>3, <2>4, ChunkStep
<1>5. CASE HookReturns
  <2>1. pc = "hook"
    BY <1>5 DEF HookReturns
  <2>2. PICK k \in 1..Amount : \E j \in 0..Len(Content(k)) : \E m \in j..Len(Content(k)) :
          Within(l, k, j, m, buf, parms, uploads) /\ chunk = SubSeq(Content(k), j + 1, m)
          /\ request.hook
    BY <2>1 DEF Progress
  <2>3. PICK j \in 0..Len(Content(k)) : \E m \in j..Len(Content(k)) :
          Within(l, k, j, m, buf, parms, uploads) /\ chunk = SubSeq(Content(k), j + 1, m)
          /\ request.hook
    BY <2>2
  <2>4. PICK m \in j..Len(Content(k)) :
          Within(l, k, j, m, buf, parms, uploads) /\ chunk = SubSeq(Content(k), j + 1, m)
          /\ request.hook
    BY <2>3
  <2>5. Fitting(uploads, upload_table) /\ NamesDiffer
    BY <1>2, <2>1, <2>4 DEF MultipartSent
  <2>6. QED
    BY <1>5, <2>1, <2>4, <2>5, HookStep
<1>6. ~ ShortWrite /\ ~ HookRaises
  <2>1. OK # HTTP_INTERNAL_SERVER_ERROR
    BY InputAssumption
  <2>2. ~ ShortWrite
    BY <2>1, Zenon DEF ShortWrite, Ended, Parsed
  <2>3. ~ HookRaises
    BY DEF HookRaises
  <2>4. QED
    BY <2>2, <2>3
<1>7. QED
  BY <1>3, <1>4, <1>5, <1>6

\* Every step of a first parse that finds no error keeps to the parts.
LEMMA MultipartStep ==
  ASSUME IInv, MultipartSent, LinesArriveWhole, MultipartInv, [Next]_vars
  PROVE  MultipartInv'
<1>1. /\ RequestTypeOK /\ Structure /\ reads \in Nat /\ edits \in Nat /\ entered \in Nat
      /\ told \in BOOLEAN /\ request' = request
  BY RequestStays DEF IInv, RestType, TableTypeOK
<1>2. SUFFICES ASSUME entered' = 1, ~ told', reads' = 0 PROVE MultipartInv'
  BY DEF MultipartInv
<1>3. PICK l : Sent(l)
  BY DEF MultipartSent
<1>4. Whole(l)
  BY <1>1, <1>3 DEF Whole, Calm, MultipartSent, LinesArriveWhole
<1>5. CASE Parse
  <2>1. entered' = entered + 1 /\ reads' = reads
    BY <1>5, Zenon DEF Parse
  <2>2. entered = 0 /\ reads = 0
    BY <1>1, <1>2, <2>1
  <2>3. Progress(l, pc', buf', parms', uploads', upload_table', chunk', apreq'.parsed, edits')
    BY <1>2, <1>4, <1>5, <2>2, FirstParse
  <2>4. QED
    BY <1>1, <1>4, <2>3, ProgressMade
<1>6. ASSUME entered = 1, ~ told, reads = 0,
             \A p : Whole(p) /\ Progress(p, pc, buf, parms, uploads, upload_table, chunk,
                                         apreq.parsed, edits)
                      => Progress(p, pc', buf', parms', uploads', upload_table', chunk',
                                  apreq'.parsed, edits')
      PROVE  MultipartInv'
  <2>1. PICK p : Whole(p) /\ Progress(p, pc, buf, parms, uploads, upload_table, chunk,
                                      apreq.parsed, edits)
    BY <1>6, Zenon DEF MultipartInv
  <2>2. Progress(p, pc', buf', parms', uploads', upload_table', chunk', apreq'.parsed, edits')
    BY <1>6, <2>1
  <2>3. QED
    BY <1>1, <2>1, <2>2, ProgressMade
<1>7. CASE NextPart \/ FileChunk \/ ShortWrite \/ HookReturns \/ HookRaises
  <2>1. entered' = entered /\ reads' = reads /\ (told => told')
    <3>1. CASE NextPart
      <4>1. PICK h, d : \/ NoMoreParts(h) \/ FieldPart(h, d) \/ ForbiddenFile(h, d)
                        \/ FilePart(h, d) \/ NoTmpfile(h, d)
        BY <3>1, Zenon DEF NextPart
      <4>2. CASE NoMoreParts(h)
        BY <4>2, Zenon DEF NoMoreParts, Ended, Parsed
      <4>3. CASE FieldPart(h, d)
        BY <4>3, Zenon DEF FieldPart, ParserStays
      <4>4. CASE ForbiddenFile(h, d)
        BY <4>4, Zenon DEF ForbiddenFile, Ended, Parsed
      <4>5. CASE FilePart(h, d)
        BY <4>5, Zenon DEF FilePart, ParserStays
      <4>6. CASE NoTmpfile(h, d)
        BY <4>6, Zenon DEF NoTmpfile, Ended, Parsed
      <4>7. QED
        BY <4>1, <4>2, <4>3, <4>4, <4>5, <4>6
    <3>2. CASE FileChunk
      BY <3>2, Zenon DEF FileChunk, ParserStays
    <3>3. CASE ShortWrite
      BY <3>3, Zenon DEF ShortWrite, Ended, Parsed
    <3>4. CASE HookReturns
      BY <3>4, Zenon DEF HookReturns, ParserStays
    <3>5. CASE HookRaises
      BY <3>5, Zenon DEF HookRaises
    <3>6. QED
      BY <1>7, <3>1, <3>2, <3>3, <3>4, <3>5
  <2>2. entered = 1 /\ reads = 0 /\ ~ told
    BY <1>2, <2>1
  <2>3. ASSUME NEW p, Whole(p), Progress(p, pc, buf, parms, uploads, upload_table, chunk,
                                         apreq.parsed, edits)
        PROVE  Progress(p, pc', buf', parms', uploads', upload_table', chunk', apreq'.parsed, edits')
    BY <1>2, <1>7, <2>3, ParserStep
  <2>4. QED
    BY <1>6, <2>2, <2>3
<1>8. ASSUME reads' = reads + 1 PROVE MultipartInv'
  BY <1>1, <1>2, <1>8
\* What else a handler does leaves the uploads, and the parameters or the
\* count of edits.
<1>9. ASSUME UNCHANGED <<buf, uploads, chunk, entered, reads, told>>, pc = "handler", pc' = pc,
             apreq' = apreq, edits' = 0 => edits = 0 /\ parms' = parms
      PROVE  MultipartInv'
  <2>1. ASSUME NEW p, Whole(p), Progress(p, pc, buf, parms, uploads, upload_table, chunk,
                                         apreq.parsed, edits)
        PROVE  Progress(p, pc', buf', parms', uploads', upload_table', chunk', apreq'.parsed, edits')
    BY <1>9, <2>1 DEF Progress
  <2>2. entered = 1 /\ reads = 0 /\ ~ told
    BY <1>2, <1>9
  <2>3. QED
    BY <1>6, <2>1, <2>2
<1>10. CASE EditTable
  <2>1. edits' = edits + 1 \/ (edits' = edits /\ parms' = parms)
    BY <1>10 DEF EditTable, TableNext, ParamSet, ParamSetMulti, ParamUnset, ParamClear, Edit,
       EachBegin, EachNext, EachEnd
  <2>2. UNCHANGED inputVars /\ pc = "handler"
    BY <1>10, Zenon DEF EditTable
  <2>3. UNCHANGED <<buf, uploads, chunk, entered, reads, told>> /\ pc' = pc /\ apreq' = apreq
    BY <2>2 DEF inputVars
  <2>4. edits' = 0 => edits = 0 /\ parms' = parms
    BY <1>1, <2>1
  <2>5. QED
    BY <1>9, <2>2, <2>3, <2>4
<1>11. ASSUME NEW size \in Sizes, Read(size) \/ GetClientBlock(size) PROVE MultipartInv'
  BY <1>8, <1>11, Zenon DEF Read, GetClientBlock, MayRead
<1>12. CASE SetupClientBlock
  BY <1>8, <1>12, Zenon DEF SetupClientBlock, MayRead
<1>13. CASE Uploads
  <2>1. UNCHANGED <<tableVars, pc, buf, apreq, uploads, chunk, reads, entered, told>> /\ pc = "handler"
    BY <1>13, Zenon DEF Uploads
  <2>2. QED
    BY <1>9, <2>1 DEF tableVars
<1>14. CASE Cookies
  <2>1. UNCHANGED <<tableVars, pc, buf, apreq, uploads, chunk, reads, entered, told>> /\ pc = "handler"
    BY <1>14, Zenon DEF Cookies
  <2>2. QED
    BY <1>9, <2>1 DEF tableVars
<1>15. CASE Idle \/ UNCHANGED vars
  <2>1. /\ UNCHANGED <<tableVars, pc, buf, apreq, uploads, upload_table, chunk, reads, entered, told>>
    BY <1>15 DEF Idle, vars, inputVars
  <2>2. ASSUME NEW p, Whole(p), Progress(p, pc, buf, parms, uploads, upload_table, chunk,
                                         apreq.parsed, edits)
        PROVE  Progress(p, pc', buf', parms', uploads', upload_table', chunk', apreq'.parsed, edits')
    BY <2>1, <2>2 DEF tableVars
  <2>3. entered = 1 /\ reads = 0 /\ ~ told
    BY <1>2, <2>1
  <2>4. QED
    BY <1>6, <2>2, <2>3
<1>16. QED
  BY <1>5, <1>7, <1>10, <1>11, <1>12, <1>13, <1>14, <1>15, Zenon DEF Next

-----------------------------------------------------------------------------
(* Theorems.                                                               *)

\* The request stays what it is.
LEMMA SentStays == MultipartSent /\ [Next]_vars => MultipartSent'
<1> SUFFICES ASSUME MultipartSent, [Next]_vars PROVE MultipartSent'
  OBVIOUS
<1>1. request' = request
  BY RequestStays
<1>2. Ordinary'
  BY <1>1 DEF MultipartSent, Ordinary
<1>3. \A at : \A text : Holds(at, text)' <=> Holds(at, text)
  BY <1>1 DEF Holds
<1>4. Amount' = Amount
  BY <1>1 DEF Amount
<1>5. PICK l : Sent(l)
  BY DEF MultipartSent
<1>6. ASSUME NEW i, PartAt(l, i) PROVE PartAt(l, i)'
  BY <1>1, <1>6, Zenon DEF PartAt, Holds, Content, EndAt, ContentAt, LineAt, HeadersAt, HeadersRead
<1>7. Sent(l)'
  BY <1>1, <1>4, <1>5, <1>6, Zenon DEF Sent, Amount, Holds
<1>8. NamesDiffer' <=> NamesDiffer
  BY <1>1, <1>4, Zenon DEF NamesDiffer, IsFile
<1>9. (request.hook => NamesDiffer)'
  BY <1>1, <1>8 DEF MultipartSent
<1>10. QED
  BY <1>1, <1>2, <1>7, <1>9, Zenon DEF MultipartSent

\* Once all parts are read, what was found is what the client meant.
LEMMA MultipartFound ==
  ASSUME IInv, MultipartSent, MultipartInv, HasParameters
  PROVE  uploads = UploadsOf(Amount) /\ (edits = 0 => parms = PairsOf(Amount))
<1>1. entered = 1 /\ ~ told /\ reads = 0 /\ pc = "handler" /\ apreq.parsed
  BY DEF HasParameters, ParsedOnce
<1>2. PICK l : Progress(l, pc, buf, parms, uploads, upload_table, chunk, apreq.parsed, edits)
  BY <1>1, Zenon DEF MultipartInv
<1>3. QED
  BY <1>1, <1>2 DEF Progress

\* Until the handler has its parameters, the parser keeps to the parts.
LEMMA MultipartKept ==
  Spec /\ MultipartSent => [](MultipartSent /\ (LinesArriveWhole => MultipartInv))
<1> DEFINE Kept == MultipartSent /\ (LinesArriveWhole => MultipartInv)
<1>1. InputInit /\ MultipartSent => Kept
  BY DEF InputInit, MultipartInv
<1>2. IInv /\ Kept /\ [Next]_vars => Kept'
  <2> SUFFICES ASSUME IInv, Kept, [Next]_vars PROVE Kept'
    OBVIOUS
  <2>1. MultipartSent'
    BY SentStays
  <2>2. LinesArriveWhole' <=> LinesArriveWhole
    BY RequestStays, Zenon DEF LinesArriveWhole
  <2>3. ASSUME LinesArriveWhole PROVE MultipartInv'
    BY <2>3, MultipartStep
  <2>4. QED
    BY <2>1, <2>2, <2>3
<1> HIDE DEF Kept
<1>3. Spec /\ MultipartSent => []Kept
  BY <1>1, <1>2, InputAlways, PTL DEF Spec
<1>4. QED
  BY <1>3 DEF Kept

\* What arrives at once ends where it did.
LEMMA ArrivalStays == Spec /\ LinesArriveWhole => []LinesArriveWhole
<1>1. LinesArriveWhole /\ [Next]_vars => LinesArriveWhole'
  BY RequestStays, Zenon DEF LinesArriveWhole
<1>2. QED
  BY <1>1, PTL DEF Spec

\* A multipart form of which each block that arrives ends where it does no
\* harm arrives whole: its parameters are the pairs of the query string and,
\* in order, the fields and the names of the files.  That is so for every
\* boundary, every number of parts, every FILLUNIT a line fits in and so every
\* place where the buffer ends; for values of fields without NUL and files of
\* any bytes, in which the delimiter does not occur; and for parts with a
\* Content-Disposition that gives a name.
THEOREM PartsArriveWhole ==
  Spec /\ MultipartSent /\ LinesArriveWhole => [](FormComplete /\ CompleteHoweverCut)
<1>1. IInv /\ MultipartSent /\ (LinesArriveWhole => MultipartInv) /\ LinesArriveWhole
        => FormComplete /\ CompleteHoweverCut
  <2> SUFFICES ASSUME IInv, MultipartSent, LinesArriveWhole => MultipartInv, LinesArriveWhole,
                      ParsedOnce, edits = 0
               PROVE  parms = Meant
    BY DEF FormComplete, CompleteHoweverCut, HasParameters
  <2>1. HasParameters
    BY DEF HasParameters
  <2>2. parms = PairsOf(Amount)
    BY <2>1, MultipartFound
  <2>3. PairsOf(Amount) = Meant
    BY Zenon DEF PairsOf, PairOf, Meant, Amount
  <2>4. QED
    BY <2>2, <2>3
<1>2. QED
  BY <1>1, InputAlways, MultipartKept, ArrivalStays, PTL

\* So do its files, each with every byte in its place, whether they are written
\* to temporary files or handed to the hook piece by piece.  UploadsComplete
\* itself asks that what arrives at once ends where it does no harm.
THEOREM FilesArriveWhole == Spec /\ MultipartSent => []UploadsComplete
<1>1. IInv /\ MultipartSent /\ (LinesArriveWhole => MultipartInv) => UploadsComplete
  <2> SUFFICES ASSUME IInv, MultipartSent, LinesArriveWhole => MultipartInv, HasParameters
               PROVE  uploads = [i \in 1..Len(Files) |->
                        [name |-> Files[i].param, filename |-> Files[i].filename,
                         data |-> Files[i].content, size |-> Len(Files[i].content)]]
    BY DEF UploadsComplete
  <2>1. LinesArriveWhole
    BY DEF HasParameters
  <2>2. uploads = UploadsOf(Amount)
    BY <2>1, MultipartFound
  <2>3. UploadsOf(Amount) = [i \in 1..Len(Files) |->
          [name |-> Files[i].param, filename |-> Files[i].filename,
           data |-> Files[i].content, size |-> Len(Files[i].content)]]
    BY Zenon DEF UploadsOf, UploadOf, Files, Amount
  <2>4. QED
    BY <2>2, <2>3
<1>2. QED
  BY <1>1, InputAlways, MultipartKept, PTL
=============================================================================
