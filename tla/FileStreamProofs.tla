--------------------------- MODULE FileStreamProofs ---------------------------
(***************************************************************************)
(* For messages of any sizes, reads that keep to them see a byte stream.   *)
(***************************************************************************)
EXTENDS FileStream, SequenceTheorems, TLAPS

\* Where the bytes after those that were returned are: first the rest in tempbuf.
Pos == Len(received) + Len(tempbuf)

\* The size of a message on its way, and how many bytes of the stream precede it.
Size(i) == Sizes[Taken + i]
Before(i) == queue[i][1] - 1

\* Each message on its way is a part of the stream and begins where the one before
\* it ends; the first follows the rest in tempbuf, the last ends with what was sent.
QueueInStream ==
  /\ Taken \in 0 .. Len(Sizes)
  /\ \A i \in 1 .. Len(queue) :
       /\ Before(i) \in Nat
       /\ queue[i] = Bytes(Before(i), Size(i))
       /\ Before(i) + Size(i) <= bytes_sent
       /\ i < Len(queue) => Before(i + 1) = Before(i) + Size(i)
  /\ IF queue = <<>> THEN bytes_sent = Pos
     ELSE /\ Before(1) = Pos
          /\ Before(Len(queue)) + Size(Len(queue)) = bytes_sent

\* What was returned and what is left to return are the stream's first bytes.
ReceivedInStream ==
  /\ received = Bytes(0, Len(received))
  /\ tempbuf = Bytes(Len(received), Len(tempbuf))

\* A read that receives began with an empty tempbuf and fits into the next message.
ReadInMessage ==
  read.pc = "recv" =>
    /\ read.head = <<>>
    /\ tempbuf = <<>>
    /\ Taken < Len(Sizes)
    /\ Len(read.window) \in 1 .. Sizes[Taken + 1]

StreamInv ==
  /\ TypeOK
  /\ QueueInStream
  /\ ReceivedInStream
  /\ ReadInMessage

-----------------------------------------------------------------------------
(* Parts of the stream. *)

\* Part of the stream from a place on: as many bytes as asked for, in order.
LEMMA BytesType ==
  ASSUME NEW first \in Nat, NEW n \in Nat
  PROVE  /\ Bytes(first, n) \in Seq(Nat)
         /\ Len(Bytes(first, n)) = n
         /\ \A k \in 1 .. n : Bytes(first, n)[k] = first + k
BY DEF Bytes

\* A part of the stream is known by where its bytes are.
LEMMA IsBytes ==
  ASSUME NEW first \in Nat, NEW s \in Seq(Nat),
         \A k \in 1 .. Len(s) : s[k] = first + k
  PROVE  s = Bytes(first, Len(s))
<1>1. Len(s) \in Nat
  BY LenProperties
<1> QED
  BY <1>1, BytesType, SeqEqual

\* Two parts that meet are one part.
LEMMA BytesConcat ==
  ASSUME NEW first \in Nat, NEW n \in Nat, NEW m \in Nat
  PROVE  Bytes(first, n) \o Bytes(first + n, m) = Bytes(first, n + m)
<1> DEFINE a == Bytes(first, n)
           b == Bytes(first + n, m)
<1>1. a \in Seq(Nat) /\ Len(a) = n /\ \A k \in 1 .. n : a[k] = first + k
  BY BytesType
<1>2. first + n \in Nat
  OBVIOUS
<1>3. b \in Seq(Nat) /\ Len(b) = m /\ \A k \in 1 .. m : b[k] = (first + n) + k
  BY <1>2, BytesType
<1> HIDE DEF a, b
<1>4. /\ a \o b \in Seq(Nat) /\ Len(a \o b) = n + m
      /\ \A k \in 1 .. n + m : (a \o b)[k] = IF k <= n THEN a[k] ELSE b[k - n]
  BY <1>1, <1>3, ConcatProperties
<1>5. ASSUME NEW k \in 1 .. n + m PROVE (a \o b)[k] = first + k
  <2>1. CASE k <= n
    BY <1>1, <1>4, <2>1
  <2>2. CASE ~ (k <= n)
    <3>1. PICK j \in 1 .. m : k = n + j
      BY <1>5, <2>2
    <3>2. (a \o b)[k] = b[j]
      BY <1>4, <2>2, <3>1
    <3> QED
      BY <1>3, <3>1, <3>2
  <2> QED
    BY <2>1, <2>2
<1>6. a \o b = Bytes(first, n + m)
  BY <1>4, <1>5, IsBytes
<1> QED
  BY <1>6 DEF a, b

\* A part cut in two gives two parts that meet.
LEMMA BytesSplit ==
  ASSUME NEW first \in Nat, NEW n \in Nat, NEW m \in 0 .. n
  PROVE  /\ SubSeq(Bytes(first, n), 1, m) = Bytes(first, m)
         /\ SubSeq(Bytes(first, n), m + 1, n) = Bytes(first + m, n - m)
<1> DEFINE s == Bytes(first, n)
           l == SubSeq(s, 1, m)
           r == SubSeq(s, m + 1, n)
<1>1. s \in Seq(Nat) /\ Len(s) = n /\ \A k \in 1 .. n : s[k] = first + k
  BY BytesType
<1>2. /\ m \in Nat /\ m + 1 \in Int /\ n - m \in Nat /\ first + m \in Nat
      /\ \A k \in 1 .. m : s[k] \in Nat
      /\ \A k \in m + 1 .. n : s[k] \in Nat
  BY <1>1
<1> HIDE DEF s
<1>3. l \in Seq(Nat) /\ Len(l) = m /\ \A k \in 1 .. m : l[k] = first + k
  <2>1. /\ l \in Seq(Nat)
        /\ Len(l) = IF 1 <= m THEN m - 1 + 1 ELSE 0
        /\ \A k \in 1 .. m - 1 + 1 : l[k] = s[1 + k - 1]
    BY <1>2, SubSeqProperties
  <2>2. ASSUME NEW k \in 1 .. m PROVE l[k] = first + k
    <3>1. l[k] = s[k] /\ k \in 1 .. n
      BY <2>1
    <3> QED
      BY <1>1, <3>1
  <2> QED
    BY <1>2, <2>1, <2>2
<1>4. /\ r \in Seq(Nat) /\ Len(r) = n - m
      /\ \A k \in 1 .. n - m : r[k] = (first + m) + k
  <2>1. /\ r \in Seq(Nat)
        /\ Len(r) = IF m + 1 <= n THEN n - (m + 1) + 1 ELSE 0
        /\ \A k \in 1 .. n - (m + 1) + 1 : r[k] = s[(m + 1) + k - 1]
    BY <1>2, SubSeqProperties
  <2>2. ASSUME NEW k \in 1 .. n - m PROVE r[k] = (first + m) + k
    <3>1. r[k] = s[m + k] /\ m + k \in 1 .. n
      BY <2>1
    <3>2. s[m + k] = first + (m + k)
      BY <1>1, <3>1
    <3> QED
      BY <3>1, <3>2
  <2> QED
    BY <1>2, <2>1, <2>2
<1> HIDE DEF l, r
<1>5. l = Bytes(first, m)
  BY <1>3, IsBytes
<1>6. r = Bytes(first + m, n - m)
  BY <1>2, <1>4, IsBytes
<1> QED
  BY <1>5, <1>6 DEF s, l, r

-----------------------------------------------------------------------------
(* The steps. *)

\* The messages on their way are those of Sizes that come next.
LEMMA SizeFacts ==
  ASSUME StreamInv
  PROVE  /\ written \in Nat /\ bytes_sent \in Nat /\ Pos \in Nat /\ Taken \in Nat
         /\ queue \in Seq(Seq(Nat)) /\ Len(queue) \in Nat
         /\ written = Taken + Len(queue)
         /\ written <= Len(Sizes) /\ Len(Sizes) \in Nat
         /\ \A n \in 1 .. Len(Sizes) : Sizes[n] \in Nat \ {0}
         /\ \A i \in 1 .. Len(queue) : Size(i) \in Nat \ {0}
<1>1. /\ written \in Nat /\ bytes_sent \in Nat
      /\ queue \in Seq(Seq(Nat)) /\ Len(queue) \in Nat
      /\ written <= Len(Sizes) /\ Len(Sizes) \in Nat
      /\ Len(received) \in Nat /\ Len(tempbuf) \in Nat
  BY SizesAssumption, LenProperties DEF StreamInv, TypeOK
<1>2. Pos \in Nat
  BY <1>1 DEF Pos
<1>3. written = Taken + Len(queue) /\ Taken \in Nat
  BY <1>1 DEF Taken, StreamInv, QueueInStream
<1>4. \A n \in 1 .. Len(Sizes) : Sizes[n] \in Nat \ {0}
  BY SizesAssumption
<1>5. \A i \in 1 .. Len(queue) : Taken + i \in 1 .. Len(Sizes)
  BY <1>1, <1>3
<1>6. \A i \in 1 .. Len(queue) : Size(i) \in Nat \ {0}
  BY <1>4, <1>5 DEF Size
<1> QED
  BY <1>1, <1>2, <1>3, <1>4, <1>6

\* A new message continues the stream.
LEMMA WritePreserves ==
  ASSUME StreamInv, WriteSockf
  PROVE  StreamInv'
<1> USE DEF StreamInv
<1> DEFINE size == Sizes[written + 1]
           msg == Bytes(bytes_sent, size)
<1>0. PICK q \in Nat : q = Len(queue)
  BY SizeFacts
<1>1. /\ written \in Nat /\ bytes_sent \in Nat /\ Pos \in Nat /\ Taken \in Nat
      /\ queue \in Seq(Seq(Nat)) /\ q \in Nat /\ written = Taken + q
      /\ \A i \in 1 .. q : Size(i) \in Nat \ {0}
  BY <1>0, SizeFacts
<1>2. written + 1 \in 1 .. Len(Sizes) /\ size \in Nat \ {0}
  BY <1>1, SizeFacts DEF WriteSockf
<1>3. /\ queue' = Append(queue, msg) /\ written' = written + 1
      /\ bytes_sent' = bytes_sent + size
      /\ UNCHANGED <<tempbuf, read, received>>
  BY DEF WriteSockf
<1>4. msg \in Seq(Nat) /\ msg[1] - 1 = bytes_sent
  <2>1. msg \in Seq(Nat) /\ \A k \in 1 .. size : msg[k] = bytes_sent + k
    BY <1>1, <1>2, BytesType
  <2>2. 1 \in 1 .. size
    BY <1>2
  <2> HIDE DEF size, msg
  <2>3. msg[1] = bytes_sent + 1
    BY <2>1, <2>2
  <2> QED
    BY <1>1, <2>1, <2>3
<1>5. size = Sizes[Taken + (q + 1)]
  <2>1. written + 1 = Taken + (q + 1)
    BY <1>1
  <2> QED
    BY <2>1
<1> HIDE DEF size
<1>6. /\ queue' \in Seq(Seq(Nat)) /\ Len(queue') = q + 1
      /\ queue'[q + 1] = msg
      /\ \A i \in 1 .. q : queue'[i] = queue[i]
  BY <1>0, <1>1, <1>3, <1>4
<1>7. Taken' = Taken
  BY <1>0, <1>1, <1>3, <1>6 DEF Taken
<1>8. /\ Size(q + 1)' = size /\ Before(q + 1)' = bytes_sent
      /\ queue'[q + 1] = Bytes(bytes_sent, size)
      /\ \A i \in 1 .. q : Size(i)' = Size(i) /\ Before(i)' = Before(i)
  BY <1>4, <1>5, <1>6, <1>7 DEF Size, Before
<1>9. TypeOK'
  BY <1>1, <1>2, <1>3, <1>6 DEF TypeOK
<1>10. ReceivedInStream' /\ ReadInMessage' /\ Pos' = Pos
  BY <1>3, <1>7 DEF ReceivedInStream, ReadInMessage, Pos
<1>11. QueueInStream'
  <2>1. ASSUME NEW i \in 1 .. q + 1
        PROVE  /\ Before(i)' \in Nat
               /\ queue'[i] = Bytes(Before(i)', Size(i)')
               /\ Before(i)' + Size(i)' <= bytes_sent'
               /\ i < q + 1 => Before(i + 1)' = Before(i)' + Size(i)'
    <3>1. CASE i = q + 1
      <4>1. /\ Before(i)' = bytes_sent /\ Size(i)' = size
            /\ queue'[i] = Bytes(bytes_sent, size)
        BY <1>8, <3>1
      <4>2. ~ (i < q + 1)
        BY <3>1
      <4> QED
        BY <1>1, <1>2, <1>3, <4>1, <4>2
    <3>2. CASE i \in 1 .. q
      <4>1. /\ Before(i) \in Nat
            /\ queue[i] = Bytes(Before(i), Size(i))
            /\ Before(i) + Size(i) <= bytes_sent
            /\ i < q => Before(i + 1) = Before(i) + Size(i)
        BY <1>0, <3>2 DEF QueueInStream
      <4>2. /\ Size(i) \in Nat /\ queue'[i] = queue[i]
            /\ Size(i)' = Size(i) /\ Before(i)' = Before(i)
        BY <1>1, <1>6, <1>8, <3>2
      <4>3. Before(i) + Size(i) <= bytes_sent'
        BY <1>1, <1>2, <1>3, <4>1, <4>2
      <4>4. Before(i + 1)' = Before(i) + Size(i)
        <5>1. CASE i < q
          <6>1. i + 1 \in 1 .. q
            BY <1>1, <3>2, <5>1
          <6> QED
            BY <1>8, <4>1, <5>1, <6>1
        <5>2. CASE i = q
          <6>1. queue # <<>>
            BY <1>0, <1>1, <3>2
          <6>2. Before(q) + Size(q) = bytes_sent
            BY <1>0, <6>1 DEF QueueInStream
          <6> QED
            BY <1>8, <5>2, <6>2
        <5> QED
          BY <1>1, <3>2, <5>1, <5>2
      <4> QED
        BY <4>1, <4>2, <4>3, <4>4
    <3> QED
      BY <1>1, <2>1, <3>1, <3>2
  <2>2. queue' # <<>>
    BY <1>1, <1>6
  <2>3. Before(q + 1)' + Size(q + 1)' = bytes_sent'
    BY <1>3, <1>8
  <2>4. Before(1)' = Pos
    <3>1. CASE queue = <<>>
      <4>1. q = 0 /\ bytes_sent = Pos
        BY <1>0, <3>1 DEF QueueInStream
      <4> QED
        BY <1>8, <4>1
    <3>2. CASE queue # <<>>
      <4>1. 1 \in 1 .. q /\ Before(1) = Pos
        BY <1>0, <1>1, <3>2 DEF QueueInStream
      <4> QED
        BY <1>8, <4>1
    <3> QED
      BY <3>1, <3>2
  <2>5. Taken \in 0 .. Len(Sizes)
    BY DEF QueueInStream
  <2> QED
    BY <1>6, <1>7, <1>10, <2>1, <2>2, <2>3, <2>4, <2>5 DEF QueueInStream
<1> QED
  BY <1>9, <1>10, <1>11

\* Bytes that are returned are the next of the stream, and were sent.
LEMMA Returned ==
  ASSUME StreamInv, NEW n \in Nat \ {0}, Len(received) + n <= bytes_sent,
         received' = received \o Bytes(Len(received), n)
  PROVE  /\ received' = Bytes(0, Len(received) + n)
         /\ received' \in Seq(Nat) /\ Len(received') = Len(received) + n
         /\ Stream!Read \/ bytes_sent' # bytes_sent
<1>1. Len(received) \in Nat /\ bytes_sent \in Nat
  BY LenProperties DEF StreamInv, TypeOK
<1>2. received' = Bytes(0, Len(received) + n)
  <2>1. received = Bytes(0, Len(received))
    BY DEF StreamInv, ReceivedInStream
  <2>2. Bytes(0, Len(received)) \o Bytes(0 + Len(received), n)
          = Bytes(0, Len(received) + n)
    BY <1>1, BytesConcat
  <2>3. 0 + Len(received) = Len(received)
    BY <1>1
  <2> QED
    BY <2>1, <2>2, <2>3
<1>3. received' \in Seq(Nat) /\ Len(received') = Len(received) + n
  BY <1>1, <1>2, BytesType
<1>4. n \in 1 .. bytes_sent - Len(received)
  BY <1>1
<1>5. Stream!Read \/ bytes_sent' # bytes_sent
  BY <1>4 DEF Stream!Read, Bytes
<1> QED
  BY <1>2, <1>3, <1>5

\* What is on its way or left was sent.
LEMMA PosSent ==
  ASSUME StreamInv
  PROVE  /\ Pos <= bytes_sent
         /\ queue # <<>> => Pos + Size(1) <= bytes_sent /\ 1 \in 1 .. Len(queue)
<1>1. CASE queue = <<>>
  BY <1>1, SizeFacts DEF StreamInv, QueueInStream
<1>2. CASE queue # <<>>
  <2>1. 1 \in 1 .. Len(queue)
    BY <1>2, SizeFacts
  <2>2. Before(1) = Pos /\ Before(1) + Size(1) <= bytes_sent
    BY <1>2, <2>1 DEF StreamInv, QueueInStream
  <2>3. Size(1) \in Nat /\ Pos \in Nat /\ bytes_sent \in Nat
    BY <2>1, SizeFacts
  <2> QED
    BY <2>1, <2>2, <2>3
<1> QED
  BY <1>1, <1>2

\* What is taken from tempbuf is what comes next.
LEMMA TempbufPreserves ==
  ASSUME StreamInv, NEW count \in 1 .. MaxCount, ReadFromTempbuf(count)
  PROVE  /\ StreamInv'
         /\ received' = received \o Bytes(Len(received), count)
         /\ Len(received) + count <= bytes_sent
<1> USE DEF StreamInv
<1>1. PICK r \in Nat : r = Len(received)
  BY LenProperties DEF TypeOK
<1>2. PICK n \in Nat : n = Len(tempbuf)
  BY LenProperties DEF TypeOK
<1>3. /\ count \in Nat \ {0} /\ count <= n /\ count \in 0 .. n
      /\ n - count \in Nat /\ r + count \in Nat
  BY <1>2, SizesAssumption DEF ReadFromTempbuf
<1>4. tempbuf = Bytes(r, n)
  BY <1>1, <1>2 DEF ReceivedInStream
<1>5. /\ SubSeq(tempbuf, 1, count) = Bytes(r, count)
      /\ SubSeq(tempbuf, count + 1, n) = Bytes(r + count, n - count)
  BY <1>3, <1>4, BytesSplit
<1>6. /\ received' = received \o Bytes(r, count)
      /\ tempbuf' = Bytes(r + count, n - count)
      /\ read.pc = "idle"
      /\ UNCHANGED <<written, bytes_sent, queue, read>>
  BY <1>2, <1>5 DEF ReadFromTempbuf
<1>7. r + count <= bytes_sent
  <2>1. r + n <= bytes_sent /\ bytes_sent \in Nat
    BY <1>1, <1>2, PosSent, SizeFacts DEF Pos
  <2> QED
    BY <1>3, <2>1
<1>8. /\ received' = Bytes(0, r + count)
      /\ received' \in Seq(Nat) /\ Len(received') = r + count
  BY <1>1, <1>3, <1>6, <1>7, Returned
<1>9. tempbuf' \in Seq(Nat) /\ Len(tempbuf') = n - count
  BY <1>3, <1>6, BytesType
<1>10. Pos' = Pos /\ Taken' = Taken
  <2>1. (r + count) + (n - count) = r + n
    BY <1>3
  <2> QED
    BY <1>1, <1>2, <1>6, <1>8, <1>9, <2>1 DEF Pos, Taken
<1>11. TypeOK'
  BY <1>6, <1>8, <1>9 DEF TypeOK
<1>12. QueueInStream'
  BY <1>6, <1>10 DEF QueueInStream, Size, Before
<1>13. ReceivedInStream'
  BY <1>6, <1>8, <1>9 DEF ReceivedInStream
<1>14. ReadInMessage'
  BY <1>6 DEF ReadInMessage
<1> QED
  BY <1>1, <1>6, <1>7, <1>11, <1>12, <1>13, <1>14

\* A read begins with what tempbuf has.
LEMMA StartPreserves ==
  ASSUME StreamInv, NEW count \in 1 .. MaxCount, ReadStart(count)
  PROVE  StreamInv'
<1> USE DEF StreamInv
<1>1. count \in Nat \ {0} /\ Len(tempbuf) \in Nat /\ Len(tempbuf) < count
  BY SizesAssumption, LenProperties DEF ReadStart, TypeOK
<1>2. tempbuf = <<>>
  BY <1>1 DEF ReadStart, MayAsk
<1>3. Taken < Len(Sizes) /\ count <= Sizes[Taken + 1]
  BY <1>1, <1>2 DEF ReadStart, MayAsk
<1>4. Len(tempbuf) = 0 /\ count - 0 = count
  BY <1>1, <1>2
<1>5. read' = [pc |-> "recv", head |-> <<>>, window |-> [k \in 1 .. count |-> 0]]
  BY <1>2, <1>4 DEF ReadStart
<1>6. /\ read'.window \in Seq(Nat) /\ Len(read'.window) = count
      /\ read'.head = <<>> /\ read'.pc = "recv"
  BY <1>1, <1>5
<1>7. tempbuf' = tempbuf /\ UNCHANGED <<written, bytes_sent, queue, received>>
  BY <1>2 DEF ReadStart
<1>8. TypeOK'
  BY <1>6, <1>7 DEF TypeOK
<1>9. Taken' = Taken /\ Pos' = Pos
  BY <1>7 DEF Taken, Pos
<1>10. QueueInStream' /\ ReceivedInStream'
  BY <1>7, <1>9 DEF QueueInStream, ReceivedInStream, Size, Before
<1>11. ReadInMessage'
  <2>1. Sizes[Taken + 1] \in Nat
    BY <1>3, SizeFacts
  <2> QED
    BY <1>1, <1>2, <1>3, <1>6, <1>7, <1>9, <2>1 DEF ReadInMessage
<1> QED
  BY <1>8, <1>10, <1>11

\* A message fills the window exactly, its rest goes to tempbuf.
LEMMA RecvPreserves ==
  ASSUME StreamInv, ZmqRecv
  PROVE  /\ StreamInv'
         /\ received' = received \o Bytes(Len(received), Len(read.window))
         /\ Len(read.window) \in Nat \ {0}
         /\ Len(received) + Len(read.window) <= bytes_sent
         /\ read.head = <<>>
         /\ Len(received') = Len(received) + Len(read.window)
<1> USE DEF StreamInv
<1>1. PICK q \in Nat : q = Len(queue)
  BY SizeFacts
<1>2. PICK r \in Nat : r = Len(received)
  BY LenProperties DEF TypeOK
<1>3. PICK w \in Nat : w = Len(read.window)
  BY LenProperties DEF TypeOK
<1>4. 1 \in 1 .. q /\ queue # <<>> /\ queue \in Seq(Seq(Nat))
  BY <1>1, SizeFacts DEF ZmqRecv
<1>5. PICK size \in Nat \ {0} : size = Size(1)
  BY <1>1, <1>4, SizeFacts
<1>6. /\ read.pc = "recv" /\ read.head = <<>> /\ tempbuf = <<>>
      /\ w \in 1 .. size
  BY <1>3, <1>5 DEF ZmqRecv, ReadInMessage, Size
<1>7. /\ Pos = r /\ Before(1) = r /\ r + size <= bytes_sent
      /\ queue[1] = Bytes(r, size)
  <2>1. Pos = r
    BY <1>2, <1>6 DEF Pos
  <2>2. Before(1) = Pos /\ Before(1) + Size(1) <= bytes_sent
    BY <1>1, <1>4 DEF QueueInStream
  <2>3. queue[1] = Bytes(Before(1), Size(1))
    BY <1>1, <1>4 DEF QueueInStream
  <2> QED
    BY <1>5, <2>1, <2>2, <2>3
<1> DEFINE msg == Bytes(r, size)
           window == [k \in DOMAIN read.window |->
                        IF k <= w THEN msg[k] ELSE read.window[k]]
<1>8. /\ Head(queue) = msg /\ Len(msg) = size /\ Least(size, w) = w
      /\ \A k \in 1 .. size : msg[k] = r + k
  <2>1. Head(queue) = queue[1]
    BY <1>4
  <2>2. Len(msg) = size /\ \A k \in 1 .. size : msg[k] = r + k
    BY BytesType
  <2>3. Least(size, w) = w
    BY <1>6 DEF Least
  <2> QED
    BY <1>7, <2>1, <2>2, <2>3
<1>9. window = Bytes(r, w)
  <2>1. DOMAIN read.window = 1 .. w
    BY <1>3, LenProperties DEF TypeOK
  <2>2. \A k \in 1 .. w : k <= w /\ msg[k] = r + k
    BY <1>6, <1>8
  <2> HIDE DEF msg
  <2> QED
    BY <2>1, <2>2 DEF Bytes
<1>10. /\ tempbuf' = IF w < size THEN Rest(msg, w) ELSE tempbuf
       /\ IF Len(read.head) + w < Len(window)
          THEN read' = [read EXCEPT !.window = window] /\ UNCHANGED received
          ELSE /\ read' = Idle
               /\ received' = received \o read.head \o SubSeq(window, 1, w)
       /\ queue' = Tail(queue)
       /\ UNCHANGED <<written, bytes_sent>>
  <2> HIDE DEF msg
  <2> QED
    BY <1>3, <1>8 DEF ZmqRecv
<1> HIDE DEF msg, window
<1>11. Len(window) = w /\ Len(read.head) = 0 /\ ~ (Len(read.head) + w < Len(window))
  BY <1>6, <1>9, BytesType
<1>12. read' = Idle /\ received' = received \o Bytes(r, w)
  <2>1. SubSeq(window, 1, w) = Bytes(r, w)
    <3>1. w \in 0 .. w
      OBVIOUS
    <3> QED
      BY <1>9, <3>1, BytesSplit
  <2>2. received \o <<>> = received
    BY ConcatEmptySeq DEF TypeOK
  <2> QED
    BY <1>6, <1>10, <1>11, <2>1, <2>2
<1>13. r + w <= bytes_sent /\ w \in Nat \ {0} /\ size - w \in Nat /\ r + w \in Nat
  BY <1>6, <1>7, SizeFacts
<1>14. /\ received' = Bytes(0, r + w)
       /\ received' \in Seq(Nat) /\ Len(received') = r + w
  BY <1>2, <1>12, <1>13, Returned
<1>15. tempbuf' = Bytes(r + w, size - w)
  <2>1. CASE w < size
    <3>1. w \in 0 .. size
      BY <1>6
    <3>2. SubSeq(msg, w + 1, size) = Bytes(r + w, size - w)
      BY <3>1, BytesSplit DEF msg
    <3> QED
      BY <1>8, <1>10, <2>1, <3>2 DEF Rest
  <2>2. CASE ~ (w < size)
    <3>1. size - w = 0 /\ tempbuf' = <<>>
      BY <1>6, <1>10, <2>2
    <3>2. Bytes(r + w, 0) = <<>>
      BY DEF Bytes
    <3> QED
      BY <3>1, <3>2
  <2> QED
    BY <2>1, <2>2
<1>16. tempbuf' \in Seq(Nat) /\ Len(tempbuf') = size - w
  BY <1>13, <1>15, BytesType
<1>17. Pos' = r + size
  <2>1. (r + w) + (size - w) = r + size
    BY <1>6
  <2> QED
    BY <1>14, <1>16, <2>1 DEF Pos
<1>18. /\ queue' \in Seq(Seq(Nat)) /\ Len(queue') = q - 1 /\ q - 1 \in Nat
       /\ \A i \in 1 .. q - 1 : queue'[i] = queue[i + 1]
  BY <1>1, <1>4, <1>10, HeadTailProperties
<1>19. Taken' = Taken + 1 /\ Taken + 1 \in 0 .. Len(Sizes)
  <2>1. /\ Taken \in Nat /\ written \in Nat /\ written = Taken + q /\ written <= Len(Sizes)
        /\ q \in Nat \ {0} /\ Len(Sizes) \in Nat
    BY <1>1, <1>4, SizeFacts
  <2>2. Taken' = written - (q - 1)
    BY <1>10, <1>18 DEF Taken
  <2> QED
    BY <2>1, <2>2
<1>20. \A i \in 1 .. q - 1 : /\ Size(i)' = Size(i + 1)
                             /\ Before(i)' = Before(i + 1)
  <2>1. ASSUME NEW i \in 1 .. q - 1
        PROVE  Size(i)' = Size(i + 1) /\ Before(i)' = Before(i + 1)
    <3>1. (Taken + 1) + i = Taken + (i + 1)
      BY <2>1, SizeFacts
    <3> QED
      BY <1>18, <1>19, <2>1, <3>1 DEF Size, Before
  <2> QED
    BY <2>1
<1>21. TypeOK'
  BY <1>10, <1>12, <1>14, <1>16, <1>18 DEF TypeOK, Idle
<1>22. ReceivedInStream'
  BY <1>14, <1>15, <1>16 DEF ReceivedInStream
<1>23. ReadInMessage'
  BY <1>12 DEF ReadInMessage, Idle
<1>24. QueueInStream'
  <2>1. ASSUME NEW i \in 1 .. q - 1
        PROVE  /\ Before(i)' \in Nat
               /\ queue'[i] = Bytes(Before(i)', Size(i)')
               /\ Before(i)' + Size(i)' <= bytes_sent'
               /\ i < q - 1 => Before(i + 1)' = Before(i)' + Size(i)'
    <3>1. i + 1 \in 1 .. q
      BY <2>1
    <3>2. /\ Before(i + 1) \in Nat
          /\ queue[i + 1] = Bytes(Before(i + 1), Size(i + 1))
          /\ Before(i + 1) + Size(i + 1) <= bytes_sent
          /\ i + 1 < q => Before((i + 1) + 1) = Before(i + 1) + Size(i + 1)
      BY <1>1, <3>1 DEF QueueInStream
    <3>3. ASSUME i < q - 1 PROVE Before(i + 1)' = Before(i + 1) + Size(i + 1)
      <4>1. i + 1 \in 1 .. q - 1 /\ i + 1 < q
        BY <2>1, <3>3
      <4> QED
        BY <1>20, <3>2, <4>1
    <3> QED
      BY <1>10, <1>18, <1>20, <2>1, <3>2, <3>3
  <2>2. CASE q = 1
    <3>1. queue' = <<>>
      BY <1>18, <2>2
    <3>2. bytes_sent = r + size
      <4>1. Before(Len(queue)) + Size(Len(queue)) = bytes_sent
        BY <1>4 DEF QueueInStream
      <4> QED
        BY <1>1, <1>5, <1>7, <2>2, <4>1
    <3> QED
      BY <1>10, <1>17, <1>18, <1>19, <2>1, <3>1, <3>2 DEF QueueInStream
  <2>3. CASE q # 1
    <3>1. q - 1 \in 1 .. q - 1 /\ 1 \in 1 .. q - 1 /\ 1 < q /\ (q - 1) + 1 = q
      BY <1>4, <2>3
    <3>2. queue' # <<>>
      BY <1>18, <3>1
    <3>3. Before(1)' = Pos'
      <4>1. Before(1 + 1) = Before(1) + Size(1)
        BY <1>1, <1>4, <3>1 DEF QueueInStream
      <4>2. Before(1)' = Before(1 + 1)
        BY <1>20, <3>1
      <4> QED
        BY <1>5, <1>7, <1>17, <4>1, <4>2
    <3>4. Before(q - 1)' + Size(q - 1)' = bytes_sent'
      <4>1. Before(q) + Size(q) = bytes_sent
        BY <1>1, <1>4 DEF QueueInStream
      <4>2. Before(q - 1)' = Before(q) /\ Size(q - 1)' = Size(q)
        BY <1>20, <3>1
      <4> QED
        BY <1>10, <4>1, <4>2
    <3> QED
      BY <1>18, <1>19, <2>1, <3>2, <3>3, <3>4 DEF QueueInStream
  <2> QED
    BY <2>2, <2>3
<1> QED
  BY <1>2, <1>3, <1>6, <1>12, <1>13, <1>14, <1>21, <1>22, <1>23, <1>24

\* A failed or no step takes nothing from the stream but what tempbuf had.
LEMMA FailPreserves ==
  ASSUME StreamInv, ZmqRecvFails \/ UNCHANGED vars
  PROVE  StreamInv'
<1>1. UNCHANGED <<written, bytes_sent, queue, tempbuf, received>>
  BY DEF ZmqRecvFails, vars
<1>2. read' = Idle \/ read' = read
  BY DEF ZmqRecvFails, vars
<1>3. Taken' = Taken /\ Pos' = Pos
  BY <1>1 DEF Taken, Pos
<1>4. TypeOK'
  <2>1. TypeOK
    BY DEF StreamInv
  <2>2. /\ read'.pc \in {"idle", "recv"}
        /\ read'.head \in Seq(Nat)
        /\ read'.window \in Seq(Nat)
    <3>1. CASE read' = read
      BY <3>1, <2>1 DEF TypeOK
    <3>2. CASE read' = Idle
      <4>1. read'.pc = "idle" /\ read'.head = <<>> /\ read'.window = <<>>
        BY <3>2 DEF Idle
      <4>2. <<>> \in Seq(Nat)
        OBVIOUS
      <4> QED
        BY <4>1, <4>2
    <3> QED
      BY <3>1, <3>2, <1>2
  <2> QED
    BY <2>1, <2>2, <1>1 DEF TypeOK
<1>5. QueueInStream' /\ ReceivedInStream'
  BY <1>1, <1>3 DEF StreamInv, QueueInStream, ReceivedInStream, Size, Before
<1>6. ReadInMessage'
  BY <1>1, <1>2, <1>3 DEF StreamInv, ReadInMessage, Idle
<1> QED
  BY <1>4, <1>5, <1>6 DEF StreamInv

-----------------------------------------------------------------------------
\* The invariant: what was returned, what tempbuf has left and what is on its way
\* are, in this order, what was sent.
THEOREM StreamInvariance == Spec => []StreamInv
<1>1. Init => StreamInv
  <2> SUFFICES ASSUME Init PROVE StreamInv
    OBVIOUS
  <2>1. /\ written = 0 /\ bytes_sent = 0 /\ queue = <<>> /\ tempbuf = <<>>
        /\ received = <<>> /\ read = Idle /\ Len(queue) = 0
        /\ Len(received) = 0 /\ Len(tempbuf) = 0 /\ Len(Sizes) \in Nat
    BY SizesAssumption DEF Init
  <2>2. Pos = 0 /\ Taken = 0
    <3>1. written = 0 /\ Len(queue) = 0 /\ Len(received) = 0 /\ Len(tempbuf) = 0
      BY <2>1
    <3>2. read = Idle
      BY <2>1
    <3> QED
      BY <3>1, <3>2 DEF Pos, Taken, Idle
  <2>3. Bytes(0, 0) = <<>>
    BY DEF Bytes
  <2>4. TypeOK
    BY <2>1 DEF TypeOK, Idle
  <2>5. QueueInStream
    BY <2>1, <2>2 DEF QueueInStream
  <2> QED
    BY <2>1, <2>3, <2>4, <2>5 DEF StreamInv, ReceivedInStream, ReadInMessage, Idle
<1>2. StreamInv /\ [Next]_vars => StreamInv'
  BY WritePreserves, TempbufPreserves, StartPreserves, RecvPreserves, FailPreserves
     DEF Next
<1> QED
  BY <1>1, <1>2, PTL DEF Spec

\* A read that succeeds returns all that was asked for.
THEOREM FullReads == Spec => ReadsAreFull
<1>1. StreamInv /\ [Next]_vars =>
        [received' # received =>
           \/ read.pc = "idle"
           \/ Len(received') - Len(received) = Len(read.head) + Len(read.window)]_vars
  <2> SUFFICES ASSUME StreamInv, Next, received' # received, read.pc # "idle"
               PROVE  Len(received') - Len(received) = Len(read.head) + Len(read.window)
    OBVIOUS
  <2>1. ZmqRecv
    BY DEF Next, WriteSockf, ReadFromTempbuf, ReadStart, ZmqRecvFails, vars
  <2>2. /\ Len(received') = Len(received) + Len(read.window)
        /\ read.head = <<>> /\ Len(read.window) \in Nat
    BY <2>1, RecvPreserves
  <2>3. Len(received) \in Nat /\ Len(read.head) = 0
    BY <2>2, LenProperties DEF StreamInv, TypeOK
  <2> QED
    BY <2>2, <2>3
<1> QED
  BY <1>1, StreamInvariance, PTL DEF Spec, ReadsAreFull

\* The messages implement a byte stream.
THEOREM StreamRefinement == Spec => ImplementsByteStream
<1>1. Init => Stream!Init
  BY DEF Init, Stream!Init
<1>2. StreamInv /\ [Next]_vars => [Stream!Next]_(Stream!streamVars)
  <2> SUFFICES ASSUME StreamInv, [Next]_vars
               PROVE  [Stream!Next]_(Stream!streamVars)
    OBVIOUS
  <2> USE DEF Stream!Next, Stream!streamVars
  <2>1. CASE WriteSockf
    <3>1. Sizes[written + 1] \in Nat \ {0} /\ bytes_sent \in Nat
      BY <2>1, SizeFacts DEF WriteSockf
    <3> QED
      BY <2>1, <3>1 DEF WriteSockf, Stream!Write
  <2>2. ASSUME NEW count \in 1 .. MaxCount, ReadFromTempbuf(count)
        PROVE  Stream!Next
    <3>1. count \in Nat \ {0} /\ bytes_sent' = bytes_sent
      BY <2>2, SizesAssumption DEF ReadFromTempbuf
    <3> QED
      BY <2>2, <3>1, TempbufPreserves, Returned
  <2>3. ASSUME NEW count \in 1 .. MaxCount, ReadStart(count)
        PROVE  UNCHANGED <<bytes_sent, received>>
    BY <2>3 DEF ReadStart
  <2>4. CASE ZmqRecv
    <3>1. bytes_sent' = bytes_sent
      BY <2>4 DEF ZmqRecv
    <3> QED
      BY <2>4, <3>1, RecvPreserves, Returned
  <2>5. CASE ZmqRecvFails \/ UNCHANGED vars
    BY <2>5 DEF ZmqRecvFails, vars
  <2> QED
    BY <2>1, <2>2, <2>3, <2>4, <2>5 DEF Next
<1> QED
  BY <1>1, <1>2, StreamInvariance, PTL DEF Spec, ImplementsByteStream, Stream!Spec
=============================================================================
