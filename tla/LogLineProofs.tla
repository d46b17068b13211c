--------------------------- MODULE LogLineProofs ---------------------------
(***************************************************************************)
(* Proofs about the bytes of a log line, for every size of its buffer and  *)
(* all lengths of its parts: what is written is the line of the message at *)
(* hand as far as it goes, and a line that fits is written whole.          *)
(***************************************************************************)
EXTENDS LogLine, SequenceTheorems, WellFoundedInduction, TLAPS

Bytes == {-1, 0, 1} \X Int

LEMMA ByteKinds ==
  /\ Nul \in Bytes /\ Unwritten \in Bytes
  /\ \A m \in {0, 1} : Text(m) \in Bytes /\ Newline(m) \in Bytes
  /\ \A m \in {0, 1}, j \in Int : Content(m, j) \in Bytes
  BY DEF Bytes, Nul, Unwritten, Text, Newline, Content

LEMMA HeaderLenIs == HeaderLen \in Nat
  BY DEF HeaderLen, io_uring_recvmsg_out, Struct, Declared

-----------------------------------------------------------------------------
\* What the operators that LogLine is built from do to a sequence.
LEMMA RepeatSeq ==
  ASSUME NEW S, NEW b \in S, NEW n \in Nat
  PROVE  /\ Repeat(b, n) \in Seq(S) /\ Len(Repeat(b, n)) = n
         /\ \A i \in 1..n : Repeat(b, n)[i] = b
  BY DEF Repeat

LEMMA OverSeq ==
  ASSUME NEW S, NEW s \in Seq(S), NEW old \in Seq(S), Len(s) <= Len(old)
  PROVE  /\ Over(s, old) \in Seq(S) /\ Len(Over(s, old)) = Len(old)
         /\ \A i \in 1..Len(s) : Over(s, old)[i] = s[i]
<1>. DEFINE rest == SubSeq(old, Len(s) + 1, Len(old))
<1>1. rest \in Seq(S) /\ Len(rest) = Len(old) - Len(s)
  OBVIOUS
<1>. HIDE DEF rest
<1>2. /\ s \o rest \in Seq(S) /\ Len(s \o rest) = Len(s) + Len(rest)
      /\ \A i \in 1..(Len(s) + Len(rest)) :
           (s \o rest)[i] = IF i <= Len(s) THEN s[i] ELSE rest[i - Len(s)]
  BY <1>1, ConcatProperties
<1>3. Len(s) \in Nat /\ Len(old) \in Nat /\ Len(rest) \in Nat
  BY <1>1
<1>4. QED
  BY <1>1, <1>2, <1>3 DEF Over, rest

LEMMA FirstPart ==
  ASSUME NEW S, NEW s \in Seq(S), NEW n \in 0..Len(s)
  PROVE  /\ SubSeq(s, 1, n) \in Seq(S) /\ Len(SubSeq(s, 1, n)) = n
         /\ \A i \in 1..n : SubSeq(s, 1, n)[i] = s[i]
  OBVIOUS

\* How much of a string of n bytes fits in the buffer with its terminator.
Fitting(n) == IF n < BufSize THEN n ELSE BufSize - 1

LEMMA FittingIs ==
  ASSUME NEW n \in Nat
  PROVE  Fitting(n) \in Nat /\ Fitting(n) <= n /\ Fitting(n) < BufSize
  BY LogLineAssumption DEF Fitting

LEMMA TruncatedSeq ==
  ASSUME NEW S, NEW s \in Seq(S)
  PROVE  /\ Truncated(s) \in Seq(S) /\ Len(Truncated(s)) = Fitting(Len(s))
         /\ \A i \in 1..Fitting(Len(s)) : Truncated(s)[i] = s[i]
<1>1. Len(s) \in Nat /\ Fitting(Len(s)) \in 0..Len(s)
  BY FittingIs
<1>2. Truncated(s) = SubSeq(s, 1, Fitting(Len(s)))
  BY DEF Truncated, Fitting
<1>3. QED
  BY <1>1, <1>2, FirstPart

\* A set of naturals has a least element, and Min is it.
LEMMA MinIsLeast ==
  ASSUME NEW I \in SUBSET Nat, I # {}
  PROVE  Min(I) \in I
<1>. DEFINE R == OpToRel(<, Nat)
<1>1. IsWellFoundedOn(R, Nat)
  BY NatLessThanWellFounded
<1>2. \A x, y \in Nat : <<y, x>> \in R <=> y < x
  BY DEF OpToRel
<1>. HIDE DEF R
<1>3. PICK x \in I : \A y \in I : ~ (<<y, x>> \in R)
  BY <1>1, WFMin
<1>4. ASSUME NEW y \in I PROVE x <= y
  <2>1. x \in Nat /\ y \in Nat
    OBVIOUS
  <2>2. ~ (<<y, x>> \in R)
    BY <1>3
  <2>3. ~ (y < x)
    BY <1>2, <2>1, <2>2
  <2>4. QED
    BY <2>1, <2>3
<1>5. QED
  BY <1>4 DEF Min

\* What is printed of a string is a first part of it.
LEMMA PrintableSeq ==
  ASSUME NEW S, NEW s \in Seq(S)
  PROVE  Printable(s) \in Seq(S) /\ Len(Printable(s)) \in 0..Len(s)
<1>1. CASE ~Contains(s, Nul)
  BY <1>1 DEF Printable
<1>2. CASE Contains(s, Nul)
  <2>. DEFINE I == {i \in 1..Len(s) : s[i] = Nul}
  <2>1. I \in SUBSET Nat /\ I # {}
    BY <1>2 DEF Contains
  <2>2. SelectInSeq(s, LAMBDA b : b = Nul) = Min(I)
    BY <2>1 DEF SelectInSeq
  <2>3. Min(I) \in 1..Len(s)
    BY <2>1, MinIsLeast
  <2>. HIDE DEF I
  <2>4. Printable(s) = SubSeq(s, 1, Min(I) - 1)
    BY <1>2, <2>2 DEF Printable
  <2>5. Min(I) - 1 \in 0..Len(s)
    BY <2>3
  <2>6. QED
    BY <2>4, <2>5, FirstPart
<1>3. QED
  BY <1>1, <1>2
-----------------------------------------------------------------------------
\* The line as log_event formats it: the message is cut where scratch2 ends,
\* and the newline comes behind.
Message == Repeat(Text(msg), WordsLen) \o Printable(payload)
CutLine == Repeat(Text(msg), StampLen) \o Truncated(Message) \o <<Newline(msg)>>

\* What the variables hold: neither buffer changes its size.
LogTypes ==
  /\ pc \in {"idle", "received", "queued"}
  /\ msg \in {0, 1}
  /\ payload \in Seq(Bytes) /\ Len(payload) <= MaxPayload
  /\ recvbuf \in Seq(Bytes) /\ Len(recvbuf) = HeaderLen + MaxPayload
  /\ msglen \in Nat
  /\ log_buf \in Seq(Bytes) /\ Len(log_buf) = BufSize
  /\ logsize \in Nat
  /\ stderr \in Seq(Bytes)

\* The receive buffer holds the message behind its header.
Arrived ==
  /\ msglen = HeaderLen + Len(payload)
  /\ \A j \in 1..Len(payload) : recvbuf[HeaderLen + j] = payload[j]

\* The registered buffer holds the line as far as it fits, and its terminator.
Queued ==
  /\ logsize = Len(CutLine)
  /\ \A i \in 1..Fitting(logsize) : log_buf[i] = CutLine[i]
  /\ log_buf[Fitting(logsize) + 1] = Nul

LogInv ==
  /\ LogTypes
  /\ pc = "received" => Arrived
  /\ pc = "queued" => Queued
  /\ LogsThisMessage
  /\ ShortLinesWhole

\* What the sequence st that joins s and t holds.
Joins(st, s, t) ==
  /\ Len(st) = Len(s) + Len(t)
  /\ \A i \in 1..Len(s) : st[i] = s[i]
  /\ \A i \in 1..Len(t) : st[Len(s) + i] = t[i]

LEMMA Joined ==
  ASSUME NEW S, NEW s \in Seq(S), NEW t \in Seq(S), NEW st, st = s \o t
  PROVE  st \in Seq(S) /\ Joins(st, s, t)
<1>1. Len(s) \in Nat /\ Len(t) \in Nat
  OBVIOUS
<1>2. s \o t \in Seq(S) /\ Len(s \o t) = Len(s) + Len(t)
  OBVIOUS
<1>3. \A i \in 1..(Len(s) + Len(t)) :
        (s \o t)[i] = IF i <= Len(s) THEN s[i] ELSE t[i - Len(s)]
  BY ConcatProperties
<1>4. QED
  BY <1>1, <1>2, <1>3 DEF Joins

\* The cut line agrees with the full one up to its newline, and is the full one
\* if the message fits.
LEMMA LineIs ==
  ASSUME LogTypes
  PROVE  /\ Line \in Seq(Bytes) /\ CutLine \in Seq(Bytes)
         /\ Len(CutLine) \in Nat \ {0} /\ Len(CutLine) <= Len(Line)
         /\ \A i \in 1..Len(CutLine) : i < Len(CutLine) => CutLine[i] = Line[i]
         /\ CutLine[Len(CutLine)] = Newline(msg)
         /\ Len(Line) < BufSize => CutLine = Line
<1>. DEFINE P == Printable(payload)
            T == Text(msg)
            N == <<Newline(msg)>>
            stamp == Repeat(T, StampLen)
            words == Repeat(T, WordsLen)
            both == Repeat(T, StampLen + WordsLen)
            cut == Truncated(Message)
<1>1. msg \in {0, 1} /\ payload \in Seq(Bytes)
      /\ StampLen \in Nat /\ WordsLen \in Nat /\ BufSize \in Nat \ {0}
  BY LogLineAssumption DEF LogTypes
<1>2. T \in Bytes /\ Newline(msg) \in Bytes
  BY <1>1, ByteKinds
<1>3. P \in Seq(Bytes) /\ Len(P) \in Nat
  BY <1>1, PrintableSeq
<1>4. /\ stamp \in Seq(Bytes) /\ Len(stamp) = StampLen
      /\ \A i \in 1..StampLen : stamp[i] = T
  BY <1>1, <1>2, RepeatSeq
<1>5. /\ words \in Seq(Bytes) /\ Len(words) = WordsLen
      /\ \A i \in 1..WordsLen : words[i] = T
  BY <1>1, <1>2, RepeatSeq
<1>6. /\ both \in Seq(Bytes) /\ Len(both) = StampLen + WordsLen
      /\ \A i \in 1..(StampLen + WordsLen) : both[i] = T
  <2>1. StampLen + WordsLen \in Nat
    BY <1>1
  <2>2. QED
    BY <1>2, <2>1, RepeatSeq
<1>7. N \in Seq(Bytes) /\ Len(N) = 1 /\ N[1] = Newline(msg)
  BY <1>2
<1>. DEFINE said == words \o P
            n == Fitting(WordsLen + Len(P))
            most == stamp \o cut
            all == both \o P
<1>8. said = words \o P /\ most = stamp \o cut /\ all = both \o P /\ Message = said
      /\ CutLine = most \o N /\ Line = all \o N
  BY DEF Message, CutLine, Line
<1>. HIDE DEF P, T, N, stamp, words, both, said, most, all
<1>9. /\ said \in Seq(Bytes) /\ Len(said) = WordsLen + Len(P)
      /\ \A i \in 1..WordsLen : said[i] = T
      /\ \A i \in 1..Len(P) : said[WordsLen + i] = P[i]
  <2>1. said \in Seq(Bytes) /\ Joins(said, words, P)
    BY <1>3, <1>5, <1>8, Joined
  <2>2. QED
    BY <1>5, <2>1 DEF Joins
<1>10. /\ n \in Nat /\ n <= WordsLen + Len(P)
       /\ WordsLen + Len(P) < BufSize => n = WordsLen + Len(P)
  <2>1. WordsLen + Len(P) \in Nat
    BY <1>1, <1>3
  <2>2. QED
    BY <2>1, FittingIs DEF Fitting
<1>11. /\ cut \in Seq(Bytes) /\ Len(cut) = n
       /\ \A i \in 1..n : cut[i] = said[i]
  <2>1. /\ Truncated(said) \in Seq(Bytes)
        /\ Len(Truncated(said)) = Fitting(Len(said))
        /\ \A i \in 1..Fitting(Len(said)) : Truncated(said)[i] = said[i]
    BY <1>9, TruncatedSeq
  <2>2. cut = Truncated(said) /\ n = Fitting(Len(said))
    BY <1>8, <1>9
  <2>. HIDE DEF n, cut
  <2>3. QED
    BY <2>1, <2>2
<1>. HIDE DEF n, cut
<1>12. /\ most \in Seq(Bytes) /\ Len(most) = StampLen + n
       /\ \A i \in 1..StampLen : most[i] = T
       /\ \A i \in 1..n : most[StampLen + i] = said[i]
  <2>1. most \in Seq(Bytes) /\ Joins(most, stamp, cut)
    BY <1>4, <1>8, <1>11, Joined
  <2>2. QED
    BY <1>4, <1>11, <2>1 DEF Joins
<1>13. /\ all \in Seq(Bytes) /\ Len(all) = StampLen + WordsLen + Len(P)
       /\ \A i \in 1..(StampLen + WordsLen) : all[i] = T
       /\ \A i \in 1..Len(P) : all[StampLen + WordsLen + i] = P[i]
  <2>1. all \in Seq(Bytes) /\ Joins(all, both, P)
    BY <1>3, <1>6, <1>8, Joined
  <2>2. QED
    BY <1>6, <2>1 DEF Joins
\* Up to the newline the two are the same.
<1>14. ASSUME NEW i \in 1..(StampLen + n)
       PROVE  most[i] = all[i]
  <2>1. CASE i <= StampLen
    <3>1. i \in 1..StampLen /\ i \in 1..(StampLen + WordsLen)
      BY <1>1, <1>10, <2>1
    <3>2. QED
      BY <1>12, <1>13, <3>1
  <2>2. CASE i > StampLen /\ i <= StampLen + WordsLen
    <3>1. i - StampLen \in 1..n /\ i - StampLen \in 1..WordsLen
          /\ i = StampLen + (i - StampLen)
      BY <1>1, <1>10, <2>2
    <3>2. most[i] = said[i - StampLen]
      BY <1>12, <3>1
    <3>3. i \in 1..(StampLen + WordsLen)
      BY <1>1, <2>2
    <3>4. QED
      BY <1>9, <1>13, <3>1, <3>2, <3>3
  <2>3. CASE i > StampLen + WordsLen
    <3>. DEFINE j == i - StampLen - WordsLen
    <3>1. /\ i - StampLen \in 1..n /\ i = StampLen + (i - StampLen)
          /\ j \in 1..Len(P) /\ i - StampLen = WordsLen + j
          /\ i = StampLen + WordsLen + j
      BY <1>1, <1>3, <1>10, <2>3
    <3>2. most[i] = said[i - StampLen]
      BY <1>12, <3>1
    <3>3. QED
      BY <1>9, <1>13, <3>1, <3>2
  <2>4. QED
    BY <1>1, <1>10, <2>1, <2>2, <2>3
<1>16. /\ CutLine \in Seq(Bytes) /\ Len(CutLine) = StampLen + n + 1
       /\ \A i \in 1..(StampLen + n) : CutLine[i] = most[i]
       /\ CutLine[StampLen + n + 1] = Newline(msg)
  <2>1. CutLine \in Seq(Bytes) /\ Joins(CutLine, most, N)
    BY <1>7, <1>8, <1>12, Joined
  <2>2. QED
    BY <1>7, <1>12, <2>1 DEF Joins
<1>17. /\ Line \in Seq(Bytes) /\ Len(Line) = StampLen + WordsLen + Len(P) + 1
       /\ \A i \in 1..(StampLen + WordsLen + Len(P)) : Line[i] = all[i]
       /\ Line[StampLen + WordsLen + Len(P) + 1] = Newline(msg)
  <2>1. Line \in Seq(Bytes) /\ Joins(Line, all, N)
    BY <1>7, <1>8, <1>13, Joined
  <2>2. QED
    BY <1>7, <1>13, <2>1 DEF Joins
<1>18. \A i \in 1..(StampLen + n) : CutLine[i] = Line[i]
  <2>1. \A i \in 1..(StampLen + n) : i \in 1..(StampLen + WordsLen + Len(P))
    BY <1>1, <1>3, <1>10
  <2>2. QED
    BY <1>14, <1>16, <1>17, <2>1
<1>19. ASSUME Len(Line) < BufSize PROVE CutLine = Line
  <2>1. n = WordsLen + Len(P)
    BY <1>1, <1>3, <1>10, <1>17, <1>19
  <2>2. Len(CutLine) = Len(Line) /\ Len(CutLine) = StampLen + n + 1
    BY <1>1, <1>3, <1>10, <1>16, <1>17, <2>1
  <2>3. \A i \in 1..Len(CutLine) : CutLine[i] = Line[i]
    BY <1>1, <1>3, <1>10, <1>16, <1>17, <1>18, <2>1, <2>2
  <2>4. QED
    BY <1>16, <1>17, <2>2, <2>3, SeqEqual
<1>20. QED
  BY <1>1, <1>3, <1>10, <1>16, <1>17, <1>18, <1>19
-----------------------------------------------------------------------------
LEMMA InitLog == Init => LogInv
<1>. SUFFICES ASSUME Init PROVE LogInv
  OBVIOUS
<1>1. Unwritten \in Bytes /\ BufSize \in Nat /\ HeaderLen + MaxPayload \in Nat
  BY ByteKinds, HeaderLenIs, LogLineAssumption
<1>2. recvbuf \in Seq(Bytes) /\ Len(recvbuf) = HeaderLen + MaxPayload
  BY <1>1, RepeatSeq DEF Init
<1>3. log_buf \in Seq(Bytes) /\ Len(log_buf) = BufSize
  BY <1>1, RepeatSeq DEF Init
<1>4. <<>> \in Seq(Bytes) /\ Len(<<>>) = 0
  OBVIOUS
<1>5. LogTypes
  BY <1>2, <1>3, <1>4, LogLineAssumption DEF Init, LogTypes
<1>6. QED
  BY <1>5 DEF Init, LogInv, LogsThisMessage, Written, ShortLinesWhole

\* A message arrives behind the header that the kernel puts in front of it.
LEMMA ReceiveLog ==
  ASSUME LogInv, NEW n \in 0..MaxPayload, NEW nul \in 0..n, Receive(n, nul)
  PROVE  LogInv'
<1>. DEFINE m == 1 - msg
            bytes == [j \in 1..n |-> IF j = nul THEN Nul ELSE Content(m, j)]
            header == Repeat(Text(m), HeaderLen)
            packet == header \o bytes
<1>1. /\ msg' = m /\ payload' = bytes /\ recvbuf' = Over(packet, recvbuf)
      /\ msglen' = HeaderLen + n /\ pc' = "received"
      /\ UNCHANGED <<log_buf, logsize, stderr>>
  BY DEF Receive
<1>2. LogTypes /\ n \in Nat /\ n <= MaxPayload /\ m \in {0, 1} /\ MaxPayload \in Nat
  BY LogLineAssumption DEF LogInv, LogTypes
<1>3. bytes \in Seq(Bytes) /\ Len(bytes) = n
  <2>1. \A j \in 1..n : (IF j = nul THEN Nul ELSE Content(m, j)) \in Bytes
    BY <1>2, ByteKinds
  <2>2. QED
    BY <1>2, <2>1
<1>4. header \in Seq(Bytes) /\ Len(header) = HeaderLen
  <2>1. Text(m) \in Bytes /\ HeaderLen \in Nat
    BY <1>2, ByteKinds, HeaderLenIs
  <2>2. QED
    BY <2>1, RepeatSeq
<1>5. packet = header \o bytes
  OBVIOUS
<1>. HIDE DEF m, bytes, header, packet
<1>6. packet \in Seq(Bytes) /\ Joins(packet, header, bytes)
  BY <1>3, <1>4, <1>5, Joined
<1>7. Len(packet) = HeaderLen + n /\ \A j \in 1..n : packet[HeaderLen + j] = bytes[j]
  BY <1>3, <1>4, <1>6 DEF Joins
<1>8. recvbuf \in Seq(Bytes) /\ Len(packet) <= Len(recvbuf)
  BY <1>2, <1>7, HeaderLenIs DEF LogTypes
<1>9. /\ recvbuf' \in Seq(Bytes) /\ Len(recvbuf') = Len(recvbuf)
      /\ \A i \in 1..(HeaderLen + n) : recvbuf'[i] = packet[i]
  BY <1>1, <1>6, <1>7, <1>8, OverSeq
<1>10. LogTypes'
  BY <1>1, <1>2, <1>3, <1>9, HeaderLenIs DEF LogTypes
<1>11. Arrived'
  <2>1. \A j \in 1..n : HeaderLen + j \in 1..(HeaderLen + n)
    BY <1>2, HeaderLenIs
  <2>2. \A j \in 1..n : recvbuf'[HeaderLen + j] = payload'[j]
    BY <1>1, <1>7, <1>9, <2>1
  <2>3. QED
    BY <1>1, <1>3, <2>2 DEF Arrived
<1>12. QED
  BY <1>1, <1>10, <1>11 DEF LogInv, LogsThisMessage, Written, ShortLinesWhole

\* log_event formats the message that arrived, and no more of the receive
\* buffer than that.
LEMMA PacketLog ==
  ASSUME LogInv, LogPacket
  PROVE  LogInv'
<1>1. /\ pc = "received" /\ pc' = "queued" /\ logsize' = Logsize
      /\ log_buf' = Over(Append(Truncated(FormattedLine), Nul), log_buf)
      /\ UNCHANGED <<msg, payload, recvbuf, msglen, stderr>>
  BY DEF LogPacket
<1>2. LogTypes /\ Arrived
  BY <1>1 DEF LogInv
<1>3. FormattedLine = CutLine
  <2>. DEFINE content == SubSeq(recvbuf, HeaderLen + 1, msglen)
  <2>0. recvbuf \in Seq(Bytes) /\ payload \in Seq(Bytes) /\ Len(payload) \in Nat
        /\ msglen = HeaderLen + Len(payload) /\ msglen <= Len(recvbuf)
    BY <1>2, HeaderLenIs, LogLineAssumption DEF LogTypes, Arrived
  <2>1. content \in Seq(Bytes) /\ Len(content) = Len(payload)
    BY <2>0, HeaderLenIs
  <2>2. \A j \in 1..Len(payload) : content[j] = recvbuf[HeaderLen + j]
    BY <2>0, HeaderLenIs
  <2>3. content = payload
    BY <1>2, <2>0, <2>1, <2>2, SeqEqual DEF Arrived
  <2>4. Scratch2 = Truncated(Message)
    BY <2>3 DEF Scratch2, PayloadStart, Message
  <2>5. QED
    BY <2>4 DEF FormattedLine, CutLine
<1>. DEFINE n == Fitting(Len(CutLine))
            cut == Truncated(CutLine)
<1>4. CutLine \in Seq(Bytes) /\ Len(CutLine) \in Nat
  BY <1>2, LineIs
<1>5. n \in Nat /\ n < BufSize
  BY <1>4, FittingIs
<1>6. /\ cut \in Seq(Bytes) /\ Len(cut) = n
      /\ \A i \in 1..n : cut[i] = CutLine[i]
  BY <1>4, TruncatedSeq
<1>7. log_buf' = Over(Append(cut, Nul), log_buf) /\ logsize' = Len(CutLine)
  BY <1>1, <1>3 DEF Logsize
<1>. HIDE DEF n, cut
<1>. DEFINE str == Append(cut, Nul)
<1>8. /\ str \in Seq(Bytes) /\ Len(str) = n + 1
      /\ \A i \in 1..n : str[i] = cut[i]
      /\ str[n + 1] = Nul
  BY <1>6, ByteKinds
<1>9. log_buf' = Over(str, log_buf)
  BY <1>7
<1>. HIDE DEF str
<1>10. log_buf \in Seq(Bytes) /\ Len(log_buf) = BufSize /\ Len(str) <= Len(log_buf)
  BY <1>2, <1>5, <1>8, LogLineAssumption DEF LogTypes
<1>11. /\ log_buf' \in Seq(Bytes) /\ Len(log_buf') = BufSize
       /\ \A i \in 1..(n + 1) : log_buf'[i] = str[i]
  BY <1>8, <1>9, <1>10, OverSeq
<1>12. LogTypes'
  BY <1>1, <1>2, <1>4, <1>7, <1>11 DEF LogTypes
<1>13. CutLine' = CutLine
  BY <1>1 DEF CutLine, Message
<1>14. Queued'
  <2>1. \A i \in 1..n : i \in 1..(n + 1) /\ log_buf'[i] = CutLine[i]
    BY <1>5, <1>6, <1>8, <1>11
  <2>2. log_buf'[n + 1] = Nul
    BY <1>5, <1>8, <1>11
  <2>3. Fitting(logsize') = n
    BY <1>7 DEF n
  <2>4. QED
    BY <1>7, <1>13, <2>1, <2>2, <2>3 DEF Queued
<1>15. QED
  BY <1>1, <1>12, <1>14 DEF LogInv, LogsThisMessage, Written, ShortLinesWhole

\* What is written from the buffer is the line, or nothing.
LEMMA WriteLog ==
  ASSUME LogInv, CompleteWrite
  PROVE  LogInv'
<1>1. /\ pc = "queued" /\ pc' = "idle"
      /\ stderr' = IF logsize <= BufSize THEN SubSeq(log_buf, 1, logsize) ELSE <<>>
      /\ UNCHANGED <<msg, payload, recvbuf, msglen, log_buf, logsize>>
  BY DEF CompleteWrite
<1>2. LogTypes /\ Queued
  BY <1>1 DEF LogInv
<1>3. /\ Line \in Seq(Bytes) /\ CutLine \in Seq(Bytes)
      /\ Len(CutLine) \in Nat \ {0} /\ Len(CutLine) <= Len(Line)
      /\ \A i \in 1..Len(CutLine) : i < Len(CutLine) => CutLine[i] = Line[i]
      /\ CutLine[Len(CutLine)] = Newline(msg)
      /\ Len(Line) < BufSize => CutLine = Line
  BY <1>2, LineIs
<1>4. /\ logsize = Len(CutLine) /\ BufSize \in Nat \ {0}
      /\ \A i \in 1..Fitting(logsize) : log_buf[i] = CutLine[i]
      /\ log_buf[Fitting(logsize) + 1] = Nul
  BY <1>2, LogLineAssumption DEF Queued
<1>5. Line' = Line
  BY <1>1 DEF Line
<1>6. CASE logsize <= BufSize
  <2>1. logsize \in 0..Len(log_buf) /\ log_buf \in Seq(Bytes)
    BY <1>2, <1>6 DEF LogTypes
  <2>2. /\ stderr' \in Seq(Bytes) /\ Len(stderr') = logsize
        /\ \A i \in 1..logsize : stderr'[i] = log_buf[i]
    BY <1>1, <1>6, <2>1, FirstPart
  <2>3. LogTypes'
    BY <1>1, <1>2, <2>2 DEF LogTypes
  <2>4. LogsThisMessage'
    <3>. SUFFICES ASSUME NEW i \in 1..logsize
                  PROVE  \/ i <= Len(Line) /\ stderr'[i] = Line[i]
                         \/ i = logsize /\ stderr'[i] \in {Newline(msg), Nul}
      BY <1>1, <1>5, <2>2 DEF LogsThisMessage
    <3>1. CASE i <= Fitting(logsize)
      <4>1. stderr'[i] = CutLine[i]
        BY <1>4, <2>2, <3>1 DEF Fitting
      <4>2. QED
        BY <1>3, <1>4, <4>1
    <3>2. CASE ~(i <= Fitting(logsize))
      <4>1. i = logsize /\ i = Fitting(logsize) + 1
        BY <1>3, <1>4, <1>6, <3>2 DEF Fitting
      <4>2. QED
        BY <1>4, <2>2, <4>1
    <3>3. QED
      BY <3>1, <3>2
  <2>5. stderr' # <<>>
    BY <1>3, <1>4, <2>2
  <2>6. ASSUME Len(Line) < BufSize PROVE stderr' = Line
    <3>1. CutLine = Line /\ Fitting(logsize) = logsize
      BY <1>3, <1>4, <2>6 DEF Fitting
    <3>2. Len(stderr') = Len(Line) /\ \A i \in 1..Len(Line) : stderr'[i] = Line[i]
      BY <1>4, <2>2, <3>1
    <3>3. QED
      BY <1>3, <2>2, <3>2, SeqEqual
  <2>7. ShortLinesWhole'
    BY <1>1, <1>5, <2>5, <2>6 DEF ShortLinesWhole
  <2>8. QED
    BY <1>1, <2>3, <2>4, <2>7 DEF LogInv
<1>7. CASE ~(logsize <= BufSize)
  <2>1. stderr' = <<>> /\ <<>> \in Seq(Bytes)
    BY <1>1, <1>7
  <2>2. LogTypes'
    BY <1>1, <1>2, <2>1 DEF LogTypes
  <2>3. Len(Line) > BufSize /\ Len(Line) \in Nat
    BY <1>3, <1>4, <1>7
  <2>4. ShortLinesWhole'
    BY <1>1, <1>4, <1>5, <2>3 DEF ShortLinesWhole
  <2>5. QED
    BY <1>1, <2>1, <2>2, <2>4 DEF LogInv, LogsThisMessage, Written
<1>8. QED
  BY <1>6, <1>7

LEMMA NextLog == LogInv /\ [Next]_vars => LogInv'
<1>. SUFFICES ASSUME LogInv, [Next]_vars PROVE LogInv'
  OBVIOUS
<1>1. CASE UNCHANGED vars
  BY <1>1 DEF vars, LogInv, LogTypes, Arrived, Queued, CutLine, Message,
              LogsThisMessage, Written, Line, ShortLinesWhole
<1>2. QED
  BY <1>1, ReceiveLog, PacketLog, WriteLog DEF Next

\* What goes to stderr is this message's line, with at most a newline or a
\* terminator where it is cut (logging.c:81-92, appctx.c:141-149): both
\* buffers still hold bytes of earlier messages, and none of them gets out.
THEOREM NothingOldLogged == Spec => []LogsThisMessage
<1>1. LogInv => LogsThisMessage
  BY DEF LogInv
<1>2. QED
  BY <1>1, InitLog, NextLog, PTL DEF Spec

\* Every line shorter than the buffer is written whole, and only one that is
\* longer than it is lost (logging.c:86-92).
THEOREM ShortLinesLogged == Spec => []ShortLinesWhole
<1>1. LogInv => ShortLinesWhole
  BY DEF LogInv
<1>2. QED
  BY <1>1, InitLog, NextLog, PTL DEF Spec
=============================================================================
