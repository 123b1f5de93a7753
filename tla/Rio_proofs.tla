------------------------------ MODULE Rio_proofs ------------------------------
(***************************************************************************)
(* Proofs about Rio for every size of its buffer, every length of a call   *)
(* and every byte, whatever read and write do: the invariant, and that     *)
(* what calls return is the stream of bytes that the peer sent.            *)
(***************************************************************************)
EXTENDS Rio, SequenceTheorems, TLAPS

(* What is known between two steps beyond the types: how much a call has   *)
(* stored, that a line ends at its first newline, and what was returned.   *)
CallInv ==
    /\ Reading => n \in Lengths /\ Len(usrbuf) = bufp
    /\ pc = "readlineb" => bufp + 1 <= n /\ \A i \in 1 .. bufp : usrbuf[i] # NL
    /\ pc = "returned" /\ rc # -1 => rc = Len(usrbuf)
    /\ pc = "returned" => rc >= -1
    /\ pc \in {"writen", "idle"} => Len(sink) = bufp

IInv == TypeOK /\ WritesInOrder /\ CallInv

LEMMA SizesType ==
  /\ RIO_BUFSIZE \in Nat \ {0} /\ Buf = 0 .. RIO_BUFSIZE - 1 /\ NL \in Bytes
  /\ \A length \in Lengths : length \in Nat /\ length >= 1
BY SizesAssumption, BytesAssumption DEF Buf
-----------------------------------------------------------------------------
(* Two sequences in a row, and each of them again. *)
LEMMA TakeFirst ==
  ASSUME NEW S, NEW q \in Seq(S), NEW r \in Seq(S)
  PROVE  SubSeq(q \o r, 1, Len(q)) = q
<1>1. Len(q) \in Nat /\ Len(q \o r) = Len(q) + Len(r) /\ Len(r) \in Nat
  BY ConcatProperties
<1>2. \A i \in 1 .. Len(q) : (q \o r)[i] = q[i] /\ q[i] \in S
  BY <1>1, ConcatProperties
<1>3. /\ SubSeq(q \o r, 1, Len(q)) \in Seq(S)
      /\ Len(SubSeq(q \o r, 1, Len(q))) = IF 1 <= Len(q) THEN Len(q) - 1 + 1 ELSE 0
      /\ \A i \in 1 .. Len(q) - 1 + 1 : SubSeq(q \o r, 1, Len(q))[i] = (q \o r)[1 + i - 1]
  <2>1. \A i \in 1 .. Len(q) : (q \o r)[i] \in S
    BY <1>2
  <2> QED
    BY <2>1, <1>1, SubSeqProperties
<1>4. Len(SubSeq(q \o r, 1, Len(q))) = Len(q)
  BY <1>1, <1>3
<1>5. \A i \in 1 .. Len(q) : SubSeq(q \o r, 1, Len(q))[i] = q[i]
  BY <1>1, <1>2, <1>3
<1> QED
  BY <1>3, <1>4, <1>5, SeqEqual

LEMMA DropFirst ==
  ASSUME NEW S, NEW q \in Seq(S), NEW r \in Seq(S)
  PROVE  SubSeq(q \o r, Len(q) + 1, Len(q \o r)) = r
<1> DEFINE t == SubSeq(q \o r, Len(q) + 1, Len(q \o r))
<1>1. Len(q) \in Nat /\ Len(q \o r) = Len(q) + Len(r) /\ Len(r) \in Nat
  BY ConcatProperties
<1>2. \A i \in 1 .. Len(r) : (q \o r)[Len(q) + i] = r[i]
  <2> TAKE i \in 1 .. Len(r)
  <2>1. Len(q) + i \in 1 .. Len(q) + Len(r) /\ ~(Len(q) + i <= Len(q)) /\ Len(q) + i - Len(q) = i
    BY <1>1
  <2> QED
    BY <2>1, ConcatProperties
<1>3. /\ t \in Seq(S)
      /\ Len(t) = IF Len(q) + 1 <= Len(q \o r) THEN Len(q \o r) - (Len(q) + 1) + 1 ELSE 0
      /\ \A i \in 1 .. Len(q \o r) - (Len(q) + 1) + 1 : t[i] = (q \o r)[Len(q) + 1 + i - 1]
  <2>1. q \o r \in Seq(S) /\ \A i \in Len(q) + 1 .. Len(q \o r) : (q \o r)[i] \in S
    <3>1. q \o r \in Seq(S)
      BY ConcatProperties
    <3> QED
      BY <3>1, <1>1, ElementOfSeq
  <2> QED
    BY <2>1, <1>1, SubSeqProperties
<1>4. Len(t) = Len(r)
  BY <1>1, <1>3
<1>5. \A i \in 1 .. Len(r) : t[i] = r[i]
  <2> TAKE i \in 1 .. Len(r)
  <2>1. /\ i \in 1 .. Len(q \o r) - (Len(q) + 1) + 1 /\ Len(q) + 1 + i - 1 = Len(q) + i
    BY <1>1
  <2> QED
    BY <2>1, <1>2, <1>3
<1> HIDE DEF t
<1>6. t = r
  BY <1>3, <1>4, <1>5, SeqEqual
<1> QED
  BY <1>6 DEF t

LEMMA Splits ==
  ASSUME NEW S, NEW q \in Seq(S), NEW k \in 0 .. Len(q)
  PROVE  /\ SubSeq(q, 1, k) \in Seq(S) /\ SubSeq(q, k + 1, Len(q)) \in Seq(S)
         /\ Len(SubSeq(q, 1, k)) = k /\ Len(SubSeq(q, k + 1, Len(q))) = Len(q) - k
         /\ \A i \in 1 .. k : SubSeq(q, 1, k)[i] = q[i]
         /\ \A i \in 1 .. Len(q) - k : SubSeq(q, k + 1, Len(q))[i] = q[k + i]
         /\ q = SubSeq(q, 1, k) \o SubSeq(q, k + 1, Len(q))
<1>1. Len(q) \in Nat /\ k \in Nat /\ \A i \in 1 .. Len(q) : q[i] \in S
  BY ElementOfSeq
<1>2. /\ SubSeq(q, 1, k) \in Seq(S) /\ Len(SubSeq(q, 1, k)) = IF 1 <= k THEN k - 1 + 1 ELSE 0
      /\ \A i \in 1 .. k - 1 + 1 : SubSeq(q, 1, k)[i] = q[1 + i - 1]
  <2>1. \A i \in 1 .. k : q[i] \in S
    BY <1>1
  <2> QED
    BY <2>1, <1>1, SubSeqProperties
<1>3. /\ SubSeq(q, k + 1, Len(q)) \in Seq(S)
      /\ Len(SubSeq(q, k + 1, Len(q))) = IF k + 1 <= Len(q) THEN Len(q) - (k + 1) + 1 ELSE 0
      /\ \A i \in 1 .. Len(q) - (k + 1) + 1 : SubSeq(q, k + 1, Len(q))[i] = q[k + 1 + i - 1]
  <2>1. \A i \in k + 1 .. Len(q) : q[i] \in S
    BY <1>1
  <2> QED
    BY <2>1, <1>1, SubSeqProperties
<1>4. q = SubSeq(q, 1, k) \o SubSeq(q, k + 1, Len(q))
  <2>1. SubSeq(q, 1, k) \o SubSeq(q, k + 1, Len(q)) = SubSeq(q, 1, Len(q))
    <3>1. 1 \in 1 .. Len(q) + 1 /\ k \in 1 - 1 .. Len(q) /\ Len(q) \in k .. Len(q)
      BY <1>1
    <3> QED
      BY <3>1, ConcatAdjacentSubSeq
  <2> QED
    BY <2>1, SubSeqFull
<1>5. \A i \in 1 .. k : SubSeq(q, 1, k)[i] = q[i]
  BY <1>1, <1>2
<1>6. \A i \in 1 .. Len(q) - k : SubSeq(q, k + 1, Len(q))[i] = q[k + i]
  <2> TAKE i \in 1 .. Len(q) - k
  <2>1. i \in 1 .. Len(q) - (k + 1) + 1 /\ k + 1 + i - 1 = k + i
    BY <1>1
  <2> QED
    BY <2>1, <1>3
<1>7. Len(SubSeq(q, 1, k)) = k /\ Len(SubSeq(q, k + 1, Len(q))) = Len(q) - k
  BY <1>1, <1>2, <1>3
<1> QED
  BY <1>2, <1>3, <1>4, <1>5, <1>6, <1>7
-----------------------------------------------------------------------------
(* What is in the buffer and was not copied. *)
LEMMA UnreadType ==
  ASSUME TypeOK
  PROVE  /\ Unread \in Seq(Bytes) /\ Len(Unread) = IF rio_cnt > 0 THEN rio_cnt ELSE 0
         /\ rio_cnt <= 0 => Unread = <<>>
         /\ \A i \in 1 .. rio_cnt : Unread[i] = rio_buf[rio_bufptr + i - 1]
<1>1. rio_cnt \in Int /\ rio_bufptr \in Nat /\ rio_cnt + rio_bufptr <= RIO_BUFSIZE
  BY SizesType DEF TypeOK
<1>2. \A i \in 1 .. rio_cnt : rio_buf[rio_bufptr + i - 1] \in Bytes
  <2> TAKE i \in 1 .. rio_cnt
  <2>1. rio_bufptr + i - 1 \in Buf
    BY <1>1, SizesType
  <2> QED
    BY <2>1 DEF TypeOK
<1>3. CASE rio_cnt > 0
  BY <1>1, <1>2, <1>3 DEF Unread
<1>4. CASE rio_cnt <= 0
  <2>1. 1 .. rio_cnt = {}
    BY <1>1, <1>4
  <2>2. Unread = <<>>
    BY <2>1 DEF Unread
  <2> QED
    BY <1>1, <1>4, <2>1, <2>2
<1> QED
  BY <1>1, <1>3, <1>4

LEMMA RestType ==
  ASSUME TypeOK
  PROVE  rest \in Seq(Bytes)
BY UnreadType, ConcatProperties DEF rest, TypeOK

(* The caller. *)
LEMMA CallKeeps ==
  ASSUME IInv, NEW routine \in {"readnb", "readlineb", "writen"}, NEW length \in Lengths,
         Call(routine, length)
  PROVE  IInv'
<1>1. length \in Nat /\ length >= 1
  BY SizesType
<1>2. TypeOK'
  BY <1>1, SizesType DEF IInv, TypeOK, Call, rioVars
<1>3. WritesInOrder'
  BY DEF Call, WritesInOrder
<1>4. CallInv'
  BY <1>1 DEF Call, CallInv, Reading
<1> QED
  BY <1>2, <1>3, <1>4 DEF IInv

(* A read that returns. *)
LEMMA FullKeeps == IInv /\ Full => IInv'
<1> SUFFICES ASSUME IInv, Full PROVE IInv'
  OBVIOUS
<1>1. TypeOK'
  BY SizesType DEF IInv, TypeOK, Full, Return, Reading, rioVars, callVars
<1>2. /\ Reading /\ pc' = "returned" /\ rc' = bufp
      /\ UNCHANGED <<n, bufp, usrbuf, sink>>
  BY DEF Full, Return, callVars
<1>3. WritesInOrder'
  BY <1>2 DEF IInv, WritesInOrder
<1>4. CallInv'
  BY <1>2 DEF IInv, TypeOK, CallInv, Reading
<1> QED
  BY <1>1, <1>3, <1>4 DEF IInv

LEMMA EndOfFileKeeps == IInv /\ EndOfFile => IInv'
<1> SUFFICES ASSUME IInv, EndOfFile PROVE IInv'
  OBVIOUS
<1>1. TypeOK'
  BY SizesType DEF IInv, TypeOK, EndOfFile, Refills, Return, Reading, callVars
<1>2. /\ Reading /\ pc' = "returned" /\ rc' = bufp
      /\ UNCHANGED <<n, bufp, usrbuf, sink>>
  BY DEF EndOfFile, Refills, Return, callVars
<1>3. WritesInOrder'
  BY <1>2 DEF IInv, WritesInOrder
<1>4. CallInv'
  BY <1>2 DEF IInv, TypeOK, CallInv, Reading
<1> QED
  BY <1>1, <1>3, <1>4 DEF IInv

LEMMA ReadFailsKeeps == IInv /\ ReadFails => IInv'
<1> SUFFICES ASSUME IInv, ReadFails PROVE IInv'
  OBVIOUS
<1>1. TypeOK'
  BY SizesType DEF IInv, TypeOK, ReadFails, Refills, Return, Reading, callVars
<1>2. /\ Reading /\ pc' = "returned" /\ rc' = -1
      /\ UNCHANGED <<n, bufp, usrbuf, sink>>
  BY DEF ReadFails, Refills, Return, callVars
<1>3. WritesInOrder'
  BY <1>2 DEF IInv, WritesInOrder
<1>4. CallInv'
  BY <1>2 DEF IInv, TypeOK, CallInv, Reading
<1> QED
  BY <1>1, <1>3, <1>4 DEF IInv

LEMMA InterruptedKeeps == IInv /\ Interrupted => IInv'
<1> SUFFICES ASSUME IInv, Interrupted PROVE IInv'
  OBVIOUS
<1>1. TypeOK'
  BY SizesType DEF IInv, TypeOK, Interrupted, Refills, Continue, Reading, callVars
<1>2. WritesInOrder' /\ CallInv'
  BY DEF IInv, WritesInOrder, CallInv, Interrupted, Refills, Continue, Reading, callVars
<1> QED
  BY <1>1, <1>2 DEF IInv

LEMMA RefillKeeps ==
  ASSUME IInv, NEW k \in 1 .. Len(channel), Refill(k)
  PROVE  IInv'
<1>1. channel \in Seq(Bytes) /\ k \in 0 .. Len(channel) /\ k \in Nat /\ k <= RIO_BUFSIZE
  BY DEF IInv, TypeOK, Refill
<1>2. Filled(rio_buf, k) \in [Buf -> Bytes]
  <2>1. \A i \in Buf : i < k => channel[i + 1] \in Bytes
    BY <1>1, SizesType, ElementOfSeq
  <2> QED
    BY <2>1 DEF Filled, IInv, TypeOK
<1>3. channel' \in Seq(Bytes)
  BY <1>1, Splits DEF Refill
<1>4. TypeOK'
  BY <1>1, <1>2, <1>3, SizesType DEF IInv, TypeOK, Refill, Refills, Continue, callVars
<1>5. WritesInOrder' /\ CallInv'
  BY DEF IInv, WritesInOrder, CallInv, Refill, Refills, Continue, Reading, callVars
<1> QED
  BY <1>4, <1>5 DEF IInv

(* Bytes that are copied go from the buffer to the end of the call's own. *)
LEMMA CopyMoves ==
  ASSUME IInv, NEW k \in 1 .. rio_cnt, Copy(k), bufp + k <= n
  PROVE  /\ usrbuf' \in Seq(Bytes) /\ Len(usrbuf') = bufp + k /\ Len(usrbuf) = bufp
         /\ \A i \in 1 .. bufp : usrbuf'[i] = usrbuf[i]
         /\ \A i \in 1 .. k : usrbuf'[bufp + i] = Unread[i]
         /\ usrbuf' \o Unread' = usrbuf \o Unread
         /\ (pc' \in {"readnb", "readlineb", "returned"} /\ rc' \in Int) => TypeOK'
<1>1. /\ rio_cnt \in Nat /\ rio_bufptr \in Nat /\ rio_cnt > 0 /\ k \in Nat /\ k <= rio_cnt
      /\ rio_cnt + rio_bufptr <= RIO_BUFSIZE /\ bufp \in Nat /\ n \in Nat /\ k >= 1
  BY SizesType DEF IInv, TypeOK
<1>2. usrbuf \in Seq(Bytes) /\ Len(usrbuf) = bufp
  BY DEF IInv, TypeOK, CallInv, Copy
<1>3. Unread \in Seq(Bytes) /\ Len(Unread) = rio_cnt
  BY <1>1, UnreadType DEF IInv
<1> DEFINE copied == SubSeq(Unread, 1, k)
           kept == SubSeq(Unread, k + 1, rio_cnt)
<1>4. /\ copied \in Seq(Bytes) /\ kept \in Seq(Bytes) /\ Unread = copied \o kept
      /\ Len(copied) = k /\ Len(kept) = rio_cnt - k
      /\ \A i \in 1 .. k : copied[i] = Unread[i]
      /\ \A i \in 1 .. rio_cnt - k : kept[i] = Unread[k + i]
  <2>1. k \in 0 .. Len(Unread)
    BY <1>1, <1>3
  <2> QED
    BY <1>3, <2>1, Splits
<1>5. usrbuf' = usrbuf \o copied
  BY DEF Copy
<1>6. /\ bufp' = bufp + k /\ rio_bufptr' = rio_bufptr + k /\ rio_cnt' = rio_cnt - k
      /\ UNCHANGED <<channel, closed, rio_buf, n, sink>>
  BY DEF Copy
<1> HIDE DEF copied, kept
<1>7. /\ usrbuf' \in Seq(Bytes) /\ Len(usrbuf') = bufp + k
      /\ \A i \in 1 .. bufp + k :
            usrbuf'[i] = IF i <= bufp THEN usrbuf[i] ELSE copied[i - bufp]
  <2>1. /\ usrbuf \o copied \in Seq(Bytes) /\ Len(usrbuf \o copied) = Len(usrbuf) + Len(copied)
        /\ \A i \in 1 .. Len(usrbuf) + Len(copied) :
              (usrbuf \o copied)[i] = IF i <= Len(usrbuf) THEN usrbuf[i]
                                      ELSE copied[i - Len(usrbuf)]
    <3>1. usrbuf \in Seq(Bytes) /\ copied \in Seq(Bytes)
      BY <1>2, <1>4
    <3> QED
      BY <3>1, ConcatProperties
  <2> QED
    BY <2>1, <1>2, <1>4, <1>5
<1>8. \A i \in 1 .. bufp : usrbuf'[i] = usrbuf[i]
  BY <1>1, <1>7
<1>9. \A i \in 1 .. k : usrbuf'[bufp + i] = Unread[i]
  <2> TAKE i \in 1 .. k
  <2>1. bufp + i \in 1 .. bufp + k /\ ~(bufp + i <= bufp) /\ bufp + i - bufp = i
    BY <1>1
  <2>2. usrbuf'[bufp + i] = copied[bufp + i - bufp]
    BY <2>1, <1>1, <1>7
  <2> QED
    BY <2>1, <2>2, <1>4
<1>10. TypeOK' \/ ~(pc' \in {"readnb", "readlineb", "returned"} /\ rc' \in Int)
  <2>1. rio_cnt' \in -1 .. RIO_BUFSIZE /\ rio_bufptr' \in 0 .. RIO_BUFSIZE
    BY <1>1, <1>6, SizesType
  <2>2. rio_cnt' + rio_bufptr' <= RIO_BUFSIZE /\ bufp' \in 0 .. n'
    BY <1>1, <1>6, SizesType
  <2> QED
    BY <1>6, <1>7, <2>1, <2>2 DEF IInv, TypeOK
<1>11. Unread' = kept
  <2>1. Unread' = [i \in 1 .. rio_cnt - k |-> rio_buf[rio_bufptr + k + i - 1]]
    BY <1>6 DEF Unread
  <2>2. ASSUME NEW i \in 1 .. rio_cnt - k PROVE rio_buf[rio_bufptr + k + i - 1] = kept[i]
    <3>1. k + i \in 1 .. rio_cnt /\ rio_bufptr + (k + i) - 1 = rio_bufptr + k + i - 1
      BY <1>1
    <3> QED
      BY <3>1, <1>1, <1>4, UnreadType DEF IInv
  <2>3. DOMAIN kept = 1 .. rio_cnt - k /\ kept = [i \in DOMAIN kept |-> kept[i]]
    BY <1>4
  <2> QED
    BY <2>1, <2>2, <2>3
<1>12. usrbuf' \o Unread' = usrbuf \o Unread
  <2>1. (usrbuf \o copied) \o kept = usrbuf \o (copied \o kept)
    <3>1. usrbuf \in Seq(Bytes) /\ copied \in Seq(Bytes) /\ kept \in Seq(Bytes)
      BY <1>2, <1>4
    <3> QED
      BY <3>1, ConcatAssociative, SMTT(30)
  <2> QED
    BY <2>1, <1>4, <1>5, <1>11
<1> QED
  BY <1>2, <1>7, <1>8, <1>9, <1>10, <1>12

LEMMA CopyBytesKeeps == IInv /\ CopyBytes => IInv'
<1> SUFFICES ASSUME IInv, CopyBytes PROVE IInv'
  OBVIOUS
<1> DEFINE k == IF rio_cnt < n - bufp THEN rio_cnt ELSE n - bufp
<1>1. k \in 1 .. rio_cnt /\ Copy(k) /\ bufp + k <= n
  BY DEF CopyBytes, Copy, More, IInv, TypeOK
<1> HIDE DEF k
<1>2. /\ pc = "readnb" /\ UNCHANGED <<pc, rc>> /\ bufp' = bufp + k /\ UNCHANGED <<n, sink>>
  BY <1>1 DEF CopyBytes, Copy, Continue
<1>3. Len(usrbuf') = bufp' /\ TypeOK'
  BY <1>1, <1>2, CopyMoves DEF IInv, TypeOK
<1>4. WritesInOrder'
  BY <1>2 DEF IInv, WritesInOrder
<1>5. CallInv'
  BY <1>2, <1>3 DEF IInv, CallInv, Reading
<1> QED
  BY <1>3, <1>4, <1>5 DEF IInv

LEMMA CopyByteKeeps == IInv /\ CopyByte => IInv'
<1> SUFFICES ASSUME IInv, CopyByte PROVE IInv'
  OBVIOUS
<1>1. 1 \in 1 .. rio_cnt /\ Copy(1) /\ bufp + 1 < n /\ bufp \in Nat /\ n \in Nat
  BY DEF CopyByte, Copy, More, IInv, TypeOK
<1>2. /\ usrbuf' \in Seq(Bytes) /\ Len(usrbuf') = bufp + 1
      /\ \A i \in 1 .. bufp : usrbuf'[i] = usrbuf[i]
      /\ usrbuf'[bufp + 1] = Unread[1]
      /\ (pc' \in {"readnb", "readlineb", "returned"} /\ rc' \in Int) => TypeOK'
  BY <1>1, CopyMoves
<1>3. /\ pc = "readlineb" /\ bufp' = bufp + 1 /\ UNCHANGED <<n, sink>>
      /\ \/ Unread[1] = NL /\ pc' = "returned" /\ rc' = bufp + 1
         \/ Unread[1] # NL /\ UNCHANGED <<pc, rc>>
  BY DEF CopyByte, Copy, Return, Continue, Reading
<1>4. TypeOK'
  BY <1>1, <1>2, <1>3 DEF IInv, TypeOK
<1>5. WritesInOrder'
  BY <1>3 DEF IInv, WritesInOrder
<1>6. CallInv'
  BY <1>1, <1>2, <1>3 DEF IInv, CallInv, Reading
<1> QED
  BY <1>4, <1>5, <1>6 DEF IInv
-----------------------------------------------------------------------------
(* Writing. *)
LEMMA WriteSomeKeeps ==
  ASSUME IInv, NEW k \in 1 .. n, WriteSome(k)
  PROVE  IInv'
<1> DEFINE sent == [i \in 1 .. k |-> bufp + i]
<1>1. /\ pc = "writen" /\ UNCHANGED <<channel, closed, rioVars, n, usrbuf, pc, rc>>
      /\ k \in Nat /\ bufp \in Nat /\ n \in Nat /\ bufp + k <= n /\ k >= 1
      /\ bufp' = bufp + k /\ sink' = sink \o sent
  BY DEF WriteSome, Writes, Continue, IInv, TypeOK
<1>2. /\ sink \in Seq(1 .. n) /\ Len(sink) = bufp /\ \A i \in 1 .. bufp : sink[i] = i
  <2>1. Len(sink) = bufp /\ sink \in Seq(1 .. n)
    BY <1>1 DEF IInv, CallInv, TypeOK
  <2>2. sink = [i \in 1 .. Len(sink) |-> i]
    BY DEF IInv, WritesInOrder
  <2> QED
    BY <2>1, <2>2
<1>3. /\ sent \in Seq(1 .. n) /\ Len(sent) = k /\ \A i \in 1 .. k : sent[i] = bufp + i
  BY <1>1
<1> HIDE DEF sent
<1>4. /\ sink' \in Seq(1 .. n) /\ Len(sink') = bufp + k
      /\ \A i \in 1 .. bufp + k : sink'[i] = IF i <= bufp THEN sink[i] ELSE sent[i - bufp]
  <2>1. /\ sink \o sent \in Seq(1 .. n) /\ Len(sink \o sent) = Len(sink) + Len(sent)
        /\ \A i \in 1 .. Len(sink) + Len(sent) :
              (sink \o sent)[i] = IF i <= Len(sink) THEN sink[i] ELSE sent[i - Len(sink)]
    BY <1>2, <1>3, ConcatProperties
  <2> QED
    BY <2>1, <1>1, <1>2, <1>3
<1>5. \A i \in 1 .. bufp + k : sink'[i] = i
  <2> TAKE i \in 1 .. bufp + k
  <2>1. CASE i <= bufp
    BY <2>1, <1>1, <1>2, <1>4
  <2>2. CASE ~(i <= bufp)
    <3>1. i - bufp \in 1 .. k /\ bufp + (i - bufp) = i
      BY <2>2, <1>1
    <3> QED
      BY <2>2, <3>1, <1>3, <1>4
  <2> QED
    BY <2>1, <2>2
<1>6. sink' = [i \in 1 .. Len(sink') |-> i]
  <2>1. sink' = [i \in 1 .. Len(sink') |-> sink'[i]]
    BY <1>4
  <2> QED
    BY <2>1, <1>4, <1>5
<1>7. TypeOK'
  BY <1>1, <1>4 DEF IInv, TypeOK, rioVars
<1>8. WritesInOrder'
  BY <1>1, <1>6 DEF WritesInOrder
<1>9. CallInv'
  BY <1>1, <1>4 DEF CallInv, Reading
<1> QED
  BY <1>7, <1>8, <1>9 DEF IInv

LEMMA WriteEnds == IInv /\ (Written \/ WriteFails) => IInv'
<1> SUFFICES ASSUME IInv, Written \/ WriteFails PROVE IInv'
  OBVIOUS
<1>1. /\ pc = "writen" /\ UNCHANGED <<channel, closed, rioVars, n, bufp, usrbuf, sink>>
      /\ pc' = "idle" /\ rc' = (IF bufp = n THEN n ELSE -1)
      /\ bufp \in Nat /\ n \in Nat
  BY DEF Written, WriteFails, Writes, Return, Reading, IInv, TypeOK, callVars
<1>2. TypeOK'
  BY <1>1, SizesType DEF IInv, TypeOK, rioVars
<1>3. Len(sink) = bufp
  BY <1>1 DEF IInv, CallInv
<1>4. WritesInOrder'
  BY <1>1, <1>3 DEF IInv, WritesInOrder
<1>5. CallInv'
  BY <1>1, <1>3 DEF CallInv, Reading
<1> QED
  BY <1>2, <1>4, <1>5 DEF IInv

(* The peer. *)
LEMMA PeerKeeps == IInv /\ (Closes \/ \E byte \in Bytes : Arrives(byte)) => IInv'
<1> SUFFICES ASSUME IInv, Closes \/ \E byte \in Bytes : Arrives(byte) PROVE IInv'
  OBVIOUS
<1>1. /\ UNCHANGED <<rioVars, pc, n, bufp, usrbuf, sink, rc>> /\ closed' \in BOOLEAN
      /\ channel' \in Seq(Bytes)
  <2>1. channel \in Seq(Bytes) /\ \A byte \in Bytes : Append(channel, byte) \in Seq(Bytes)
    BY DEF IInv, TypeOK
  <2> QED
    BY <2>1 DEF Closes, Arrives, callVars, IInv, TypeOK
<1>2. TypeOK'
  BY <1>1 DEF IInv, TypeOK, rioVars
<1>3. WritesInOrder' /\ CallInv'
  BY <1>1 DEF IInv, WritesInOrder, CallInv, Reading
<1> QED
  BY <1>2, <1>3 DEF IInv

LEMMA InitEstablishes == Init => IInv
<1> SUFFICES ASSUME Init PROVE IInv
  OBVIOUS
<1>1. TypeOK
  <2>1. <<>> \in Seq(Bytes) /\ <<>> \in Seq(1 .. 0)
    OBVIOUS
  <2>2. 0 \in -1 .. RIO_BUFSIZE /\ 0 \in 0 .. RIO_BUFSIZE /\ 0 + 0 <= RIO_BUFSIZE
    BY SizesType
  <2>3. channel \in Seq(Bytes) /\ usrbuf \in Seq(Bytes) /\ sink \in Seq(1 .. n)
    BY <2>1 DEF Init
  <2>4. /\ rio_cnt \in -1 .. RIO_BUFSIZE /\ rio_bufptr \in 0 .. RIO_BUFSIZE
        /\ rio_cnt + rio_bufptr <= RIO_BUFSIZE
    BY <2>2 DEF Init
  <2>5. /\ closed \in BOOLEAN /\ rio_buf \in [Buf -> Bytes]
        /\ pc \in {"idle", "readnb", "readlineb", "writen", "returned"}
    BY DEF Init
  <2>6. n \in Nat /\ bufp \in 0 .. n /\ rc \in Int
    BY DEF Init
  <2> QED
    BY <2>3, <2>4, <2>5, <2>6 DEF TypeOK
<1>2. WritesInOrder /\ CallInv
  BY DEF Init, WritesInOrder, CallInv, Reading
<1> QED
  BY <1>1, <1>2 DEF IInv

LEMMA NextKeeps == IInv /\ [Next]_vars => IInv'
<1> SUFFICES ASSUME IInv, [Next]_vars PROVE IInv'
  OBVIOUS
<1>1. CASE UNCHANGED vars
  <2>1. TypeOK'
    BY <1>1 DEF IInv, TypeOK, vars
  <2>2. WritesInOrder' /\ CallInv'
    BY <1>1 DEF IInv, WritesInOrder, CallInv, Reading, vars
  <2> QED
    BY <2>1, <2>2 DEF IInv
<1>2. CASE ReadStep \/ Interrupted \/ ReadFails
  BY <1>2, FullKeeps, CopyBytesKeeps, CopyByteKeeps, EndOfFileKeeps, RefillKeeps,
     InterruptedKeeps, ReadFailsKeeps DEF ReadStep
<1>3. CASE WriteStep
  BY <1>3, WriteSomeKeeps, WriteEnds DEF WriteStep
<1>4. CASE Closes \/ \E byte \in Bytes : Arrives(byte)
  BY <1>4, PeerKeeps
<1>5. CASE \E routine \in {"readnb", "readlineb", "writen"}, length \in Lengths :
              Call(routine, length)
  BY <1>5, CallKeeps
<1> QED
  BY <1>1, <1>2, <1>3, <1>4, <1>5 DEF Next

(* The count and the pointer of the buffer stay inside it however short a  *)
(* read is, and a write hands over every byte once and says so (rio_read,  *)
(* rio_readnb, rio_readlineb, rio_writen).                                 *)
THEOREM RioIsSound == Spec => []RioInv
<1>1. IInv => RioInv
  BY DEF IInv, RioInv
<1> QED
  BY <1>1, InitEstablishes, NextKeeps, PTL DEF Spec
-----------------------------------------------------------------------------
(* Every step is one of ByteStream, or one that it does not see. *)
Waiting == call = <<>> /\ ~Reading

LEMMA Views ==
  /\ Reading => call = <<pc, n>> /\ answer = <<>> /\ rest = usrbuf \o Unread \o channel
  /\ ~Reading => call = <<>> /\ rest = <<>> \o Unread \o channel
  /\ pc = "returned" => answer = IF rc = -1 THEN <<-1>> ELSE <<rc, usrbuf>>
  /\ pc # "returned" => answer = <<>>
BY DEF call, answer, rest, Reading

(* A step that moves bytes inside the connection alone is not seen. *)
LEMMA NotSeen ==
  ASSUME UNCHANGED <<pc, n, closed>>, pc # "returned", rest' = rest
  PROVE  UNCHANGED BS!vars
BY DEF BS!vars, call, answer, Reading

LEMMA RefillNotSeen ==
  ASSUME IInv, NEW k \in 1 .. Len(channel), Refill(k)
  PROVE  UNCHANGED BS!vars
<1>1. /\ channel \in Seq(Bytes) /\ k \in 0 .. Len(channel) /\ k \in Nat /\ k <= RIO_BUFSIZE
      /\ k >= 1
  BY DEF IInv, TypeOK, Refill
<1>2. /\ Reading /\ rio_cnt <= 0 /\ rio_cnt' = k /\ rio_bufptr' = 0 /\ pc # "returned"
      /\ rio_buf' = Filled(rio_buf, k) /\ channel' = SubSeq(channel, k + 1, Len(channel))
      /\ UNCHANGED <<closed, pc, n, usrbuf>>
  BY DEF Refill, Refills, Continue, callVars, Reading
<1> DEFINE came == SubSeq(channel, 1, k)
<1>3. /\ came \in Seq(Bytes) /\ channel' \in Seq(Bytes) /\ Len(came) = k
      /\ channel = came \o channel' /\ \A i \in 1 .. k : came[i] = channel[i]
  BY <1>1, <1>2, Splits
<1> HIDE DEF came
<1>4. Unread = <<>>
  BY <1>2, UnreadType DEF IInv
<1>5. Unread' = came
  <2>1. Unread' = [i \in 1 .. k |-> Filled(rio_buf, k)[0 + i - 1]]
    BY <1>2 DEF Unread
  <2>2. ASSUME NEW i \in 1 .. k PROVE Filled(rio_buf, k)[0 + i - 1] = came[i]
    <3>1. 0 + i - 1 \in Buf /\ 0 + i - 1 < k /\ 0 + i - 1 + 1 = i
      BY <1>1, SizesType
    <3>2. Filled(rio_buf, k)[0 + i - 1] = channel[0 + i - 1 + 1]
      BY <3>1 DEF Filled
    <3> QED
      BY <3>1, <3>2, <1>3
  <2>3. came = [i \in 1 .. k |-> came[i]]
    BY <1>3
  <2> QED
    BY <2>1, <2>2, <2>3
<1>6. usrbuf \in Seq(Bytes)
  BY DEF IInv, TypeOK
<1>7. rest' = rest
  <2>1. rest = usrbuf \o <<>> \o channel
    BY <1>2, <1>4, Views
  <2>2. rest' = usrbuf \o came \o channel'
    BY <1>2, <1>5 DEF rest, Reading
  <2>3. usrbuf \o <<>> = usrbuf
    BY <1>6, ConcatEmptySeq
  <2>4. (usrbuf \o came) \o channel' = usrbuf \o (came \o channel')
    <3>1. usrbuf \in Seq(Bytes) /\ came \in Seq(Bytes) /\ channel' \in Seq(Bytes)
      BY <1>3, <1>6
    <3> QED
      BY <3>1, ConcatAssociative, SMTT(30)
  <2> QED
    BY <2>1, <2>2, <2>3, <2>4, <1>3
<1> QED
  BY <1>2, <1>7, NotSeen

LEMMA InterruptedNotSeen == IInv /\ Interrupted => UNCHANGED BS!vars
<1> SUFFICES ASSUME IInv, Interrupted PROVE UNCHANGED BS!vars
  OBVIOUS
<1>1. /\ Reading /\ rio_cnt <= 0 /\ rio_cnt' = -1 /\ pc # "returned"
      /\ UNCHANGED <<channel, closed, pc, n, usrbuf>>
  BY DEF Interrupted, Refills, Continue, callVars, Reading
<1>2. Unread = <<>> /\ Unread' = <<>>
  <2>1. Unread = <<>>
    BY <1>1, UnreadType DEF IInv
  <2>2. 1 .. -1 = {} /\ Unread' = [i \in 1 .. -1 |-> rio_buf'[rio_bufptr' + i - 1]]
    BY <1>1 DEF Unread
  <2> QED
    BY <2>1, <2>2
<1>3. rest' = rest
  BY <1>1, <1>2 DEF rest, Reading
<1> QED
  BY <1>1, <1>3, NotSeen

LEMMA CopyNotSeen ==
  ASSUME IInv, NEW k \in 1 .. rio_cnt, Copy(k), bufp + k <= n, UNCHANGED pc
  PROVE  UNCHANGED BS!vars
<1>1. Reading /\ pc # "returned" /\ UNCHANGED <<channel, closed, pc, n>>
  BY DEF Copy, Reading
<1>2. usrbuf' \o Unread' = usrbuf \o Unread
  BY CopyMoves
<1>3. rest' = rest
  BY <1>1, <1>2 DEF rest, Reading
<1> QED
  BY <1>1, <1>3, NotSeen

(* A read that returns takes what it stored from the front of the rest. *)
LEMMA TakesStored ==
  ASSUME IInv, Reading
  PROVE  /\ usrbuf = SubSeq(rest, 1, bufp) /\ bufp \in 0 .. Len(rest)
         /\ Unread \o channel = SubSeq(rest, bufp + 1, Len(rest))
         /\ \A i \in 1 .. bufp : rest[i] = usrbuf[i]
         /\ Len(rest) = bufp + Len(Unread \o channel)
<1>1. /\ usrbuf \in Seq(Bytes) /\ Unread \in Seq(Bytes) /\ channel \in Seq(Bytes)
      /\ Len(usrbuf) = bufp /\ bufp \in Nat
  BY UnreadType DEF IInv, TypeOK, CallInv
<1> DEFINE after == Unread \o channel
<1>2. after \in Seq(Bytes) /\ rest = usrbuf \o after
  <2>1. rest = (usrbuf \o Unread) \o channel
    BY Views
  <2> QED
    <3>1. after \in Seq(Bytes)
      BY <1>1, ConcatProperties
    <3>2. (usrbuf \o Unread) \o channel = usrbuf \o after
      BY <1>1, ConcatAssociative, SMTT(30)
    <3> QED
      BY <2>1, <3>1, <3>2
<1> HIDE DEF after
<1>3. /\ Len(rest) = bufp + Len(after)
      /\ \A i \in 1 .. bufp + Len(after) :
            rest[i] = IF i <= bufp THEN usrbuf[i] ELSE after[i - bufp]
  BY <1>1, <1>2, ConcatProperties
<1>4. Len(after) \in Nat
  BY <1>2
<1>5. bufp \in 0 .. Len(rest) /\ \A i \in 1 .. bufp : rest[i] = usrbuf[i]
  BY <1>1, <1>3, <1>4
<1>6. usrbuf = SubSeq(rest, 1, bufp) /\ after = SubSeq(rest, bufp + 1, Len(rest))
  BY <1>1, <1>2, TakeFirst, DropFirst
<1> QED
  BY <1>3, <1>5, <1>6 DEF after

LEMMA ReturnTakes ==
  ASSUME IInv, Reading, pc' = "returned", rc' = bufp,
         UNCHANGED <<closed, usrbuf>>, Unread' \in Seq(Bytes),
         Unread' \o channel' = Unread \o channel
  PROVE  BS!Take(bufp) /\ call' = <<>>
<1>1. bufp \in Nat /\ ~Reading' /\ rc' # -1
  BY DEF IInv, TypeOK, Reading
<1>2. call' = <<>> /\ answer' = <<bufp, usrbuf>>
  BY <1>1 DEF call, answer
<1>3. rest' = SubSeq(rest, bufp + 1, Len(rest))
  <2>1. rest' = <<>> \o Unread' \o channel'
    BY <1>1 DEF rest
  <2> QED
    BY <2>1, TakesStored, ConcatEmptySeq
<1> QED
  BY <1>2, <1>3, TakesStored DEF BS!Take

LEMMA FullIsRead == IInv /\ Full => BS!Next
<1> SUFFICES ASSUME IInv, Full PROVE BS!Next
  OBVIOUS
<1>1. /\ Reading /\ ~More /\ pc' = "returned" /\ rc' = bufp /\ n \in Lengths /\ n \in Nat
      /\ UNCHANGED <<closed, usrbuf, channel, rio_cnt, rio_buf, rio_bufptr, n>>
      /\ bufp \in Nat /\ bufp <= n
  BY DEF Full, Return, callVars, rioVars, IInv, CallInv, TypeOK
<1>2. BS!Take(bufp)
  <2>1. Unread' = Unread
    BY <1>1 DEF Unread
  <2> QED
    BY <1>1, <2>1, UnreadType, ReturnTakes DEF IInv
<1>3. CASE pc = "readnb"
  <2>1. bufp = n /\ call = <<"readnb", n>> /\ n <= Len(rest)
    BY <1>1, <1>3, TakesStored DEF More, call
  <2> QED
    BY <1>1, <1>2, <2>1 DEF BS!Next, BS!ReadN
<1>4. CASE pc = "readlineb"
  <2>1. bufp < n /\ bufp = n - 1 /\ call = <<"readlineb", n>> /\ bufp \in 0 .. Len(rest)
    BY <1>1, <1>4, TakesStored DEF More, call, Reading, IInv, CallInv
  <2>2. \A i \in 1 .. bufp - 1 : rest[i] # NL
    <3>1. \A i \in 1 .. bufp : rest[i] = usrbuf[i] /\ usrbuf[i] # NL
      BY <1>1, <1>4, TakesStored DEF IInv, CallInv
    <3> QED
      BY <1>1, <3>1
  <2>3. BS!ReadLine(n)
    BY <1>2, <2>1, <2>2 DEF BS!ReadLine
  <2> QED
    BY <1>1, <2>3 DEF BS!Next
<1> QED
  BY <1>1, <1>3, <1>4 DEF Reading

LEMMA EndOfFileIsRead == IInv /\ EndOfFile => BS!Next
<1> SUFFICES ASSUME IInv, EndOfFile PROVE BS!Next
  OBVIOUS
<1>1. /\ Reading /\ More /\ pc' = "returned" /\ rc' = bufp /\ n \in Lengths /\ n \in Nat
      /\ UNCHANGED <<closed, usrbuf, channel, n>> /\ channel = <<>> /\ closed
      /\ rio_cnt <= 0 /\ rio_cnt' = 0 /\ bufp \in Nat
  BY DEF EndOfFile, Refills, Return, callVars, IInv, CallInv, TypeOK
<1>2. Unread = <<>> /\ Unread' = <<>> /\ Len(Unread \o channel) = 0
  <2>1. Unread = <<>>
    BY <1>1, UnreadType DEF IInv
  <2>2. 1 .. 0 = {} /\ Unread' = [i \in 1 .. 0 |-> rio_buf'[rio_bufptr' + i - 1]]
    BY <1>1 DEF Unread
  <2>3. <<>> \o <<>> = <<>>
    OBVIOUS
  <2> QED
    BY <1>1, <2>1, <2>2, <2>3
<1>3. BS!Take(bufp)
  <2>1. Unread' \in Seq(Bytes) /\ Unread' \o channel' = Unread \o channel
    BY <1>1, <1>2
  <2> QED
    BY <1>1, <2>1, ReturnTakes
<1>4. Len(rest) = bufp
  BY <1>1, <1>2, TakesStored
<1>5. CASE pc = "readnb"
  <2>1. n > Len(rest) /\ call = <<"readnb", n>>
    BY <1>1, <1>4, <1>5 DEF More, call
  <2> QED
    BY <1>1, <1>3, <1>4, <2>1 DEF BS!Next, BS!ReadN
<1>6. CASE pc = "readlineb"
  <2>1. bufp < n /\ call = <<"readlineb", n>> /\ bufp \in 0 .. Len(rest)
    BY <1>1, <1>4, <1>6 DEF More, call, Reading
  <2>2. \A i \in 1 .. bufp - 1 : rest[i] # NL
    BY <1>1, <1>6, TakesStored DEF IInv, CallInv
  <2>3. BS!ReadLine(n)
    BY <1>1, <1>3, <1>4, <2>1, <2>2 DEF BS!ReadLine
  <2> QED
    BY <1>1, <2>3 DEF BS!Next
<1> QED
  BY <1>1, <1>5, <1>6 DEF Reading

LEMMA ReadFailsIsFail == IInv /\ ReadFails => BS!Next
<1> SUFFICES ASSUME IInv, ReadFails PROVE BS!Next
  OBVIOUS
<1>1. /\ Reading /\ pc' = "returned" /\ rc' = -1 /\ rio_cnt <= 0 /\ rio_cnt' = -1
      /\ UNCHANGED <<closed, usrbuf, channel, n>> /\ ~Reading'
  BY DEF ReadFails, Refills, Return, callVars, Reading
<1>2. Unread = <<>> /\ Unread' = <<>>
  <2>1. Unread = <<>>
    BY <1>1, UnreadType DEF IInv
  <2>2. 1 .. -1 = {} /\ Unread' = [i \in 1 .. -1 |-> rio_buf'[rio_bufptr' + i - 1]]
    BY <1>1 DEF Unread
  <2> QED
    BY <2>1, <2>2
<1>3. call # <<>> /\ call' = <<>> /\ answer' = <<-1>>
  BY <1>1 DEF call, answer
<1>4. rest' = SubSeq(rest, bufp + 1, Len(rest))
  <2>1. rest' = <<>> \o <<>> \o channel
    BY <1>1, <1>2 DEF rest
  <2>2. <<>> \o <<>> = <<>>
    OBVIOUS
  <2> QED
    BY <1>1, <1>2, <2>1, <2>2, TakesStored
<1>5. bufp \in 0 .. Len(rest)
  BY <1>1, TakesStored
<1> QED
  BY <1>1, <1>3, <1>4, <1>5 DEF BS!Next, BS!Fail

LEMMA CopyBytesNotSeen == IInv /\ CopyBytes => UNCHANGED BS!vars
<1> SUFFICES ASSUME IInv, CopyBytes PROVE UNCHANGED BS!vars
  OBVIOUS
<1> DEFINE k == IF rio_cnt < n - bufp THEN rio_cnt ELSE n - bufp
<1>1. k \in 1 .. rio_cnt /\ Copy(k) /\ bufp + k <= n /\ UNCHANGED pc
  BY DEF CopyBytes, Copy, More, Continue, IInv, TypeOK
<1> HIDE DEF k
<1> QED
  BY <1>1, CopyNotSeen

(* The byte that is copied last is the newline, and the first one. *)
LEMMA CopyByteIsRead == IInv /\ CopyByte => [BS!Next]_BS!vars
<1> SUFFICES ASSUME IInv, CopyByte PROVE [BS!Next]_BS!vars
  OBVIOUS
<1>1. /\ 1 \in 1 .. rio_cnt /\ Copy(1) /\ bufp + 1 < n /\ bufp \in Nat /\ n \in Nat
      /\ pc = "readlineb" /\ Reading /\ n \in Lengths /\ UNCHANGED <<channel, closed, n>>
  BY DEF CopyByte, Copy, More, IInv, TypeOK, CallInv, Reading
<1>2. CASE UNCHANGED pc
  <2>1. bufp + 1 <= n
    BY <1>1
  <2> QED
    BY <1>1, <1>2, <2>1, CopyNotSeen
<1>3. CASE Unread[1] = NL /\ pc' = "returned" /\ rc' = bufp + 1
  <2>1. /\ usrbuf' \in Seq(Bytes) /\ Len(usrbuf') = bufp + 1
        /\ \A i \in 1 .. bufp : usrbuf'[i] = usrbuf[i]
        /\ usrbuf'[bufp + 1] = NL /\ usrbuf' \o Unread' = usrbuf \o Unread
    <3>1. bufp + 1 <= n /\ 1 \in 1 .. 1
      BY <1>1
    <3> QED
      BY <1>1, <1>3, <3>1, CopyMoves
  <2>2. Unread' \in Seq(Bytes) /\ channel \in Seq(Bytes)
    <3>1. TypeOK'
      BY CopyByteKeeps DEF IInv
    <3>2. rio_cnt' = rio_cnt - 1 /\ rio_cnt \in Nat
      BY <1>1, SizesType DEF Copy, IInv, TypeOK
    <3>3. \A i \in 1 .. rio_cnt' : rio_buf'[rio_bufptr' + i - 1] \in Bytes
      <4> TAKE i \in 1 .. rio_cnt'
      <4>1. rio_bufptr' + i - 1 \in Buf
        <5>1. /\ rio_cnt' + rio_bufptr' <= RIO_BUFSIZE /\ rio_bufptr' \in 0 .. RIO_BUFSIZE
              /\ rio_cnt' \in Int
          BY <3>1, <3>2 DEF TypeOK
        <5>2. i \in Int /\ i >= 1 /\ i <= rio_cnt'
          BY <5>1
        <5>3. \A c, p, size \in Int :
                  p >= 0 /\ c + p <= size /\ i <= c => p + i - 1 \in 0 .. size - 1
          BY <5>2
        <5>4. rio_bufptr' + i - 1 \in 0 .. RIO_BUFSIZE - 1
          <6>1. rio_bufptr' \in Int /\ rio_bufptr' >= 0 /\ RIO_BUFSIZE \in Int
            BY <5>1, SizesAssumption
          <6> QED
            BY <5>1, <5>2, <5>3, <6>1
        <5> QED
          BY <5>4 DEF Buf
      <4> QED
        BY <3>1, <4>1 DEF TypeOK
    <3>4. rio_cnt' \in Nat /\ Unread' = [i \in 1 .. rio_cnt' |-> rio_buf'[rio_bufptr' + i - 1]]
      BY <3>2, <1>1 DEF Unread
    <3> QED
      BY <3>3, <3>4 DEF IInv, TypeOK
  <2> DEFINE after == Unread' \o channel
  <2>3. after \in Seq(Bytes) /\ rest = usrbuf' \o after
    <3>1. rest = (usrbuf' \o Unread') \o channel
      BY <1>1, <2>1, Views
    <3>2. (usrbuf' \o Unread') \o channel = usrbuf' \o (Unread' \o channel)
      <4>1. \A q, r, t \in Seq(Bytes) : (q \o r) \o t = q \o (r \o t)
        BY ConcatAssociative
      <4> QED
        BY <2>1, <2>2, <4>1
    <3>3. after \in Seq(Bytes)
      BY <2>2, ConcatProperties
    <3> QED
      BY <3>1, <3>2, <3>3
  <2> HIDE DEF after
  <2>4. /\ Len(rest) = bufp + 1 + Len(after) /\ Len(after) \in Nat
        /\ \A i \in 1 .. bufp + 1 : rest[i] = usrbuf'[i]
    <3>1. /\ Len(rest) = bufp + 1 + Len(after) /\ Len(after) \in Nat
          /\ \A i \in 1 .. bufp + 1 + Len(after) :
                rest[i] = IF i <= bufp + 1 THEN usrbuf'[i] ELSE after[i - (bufp + 1)]
      BY <2>1, <2>3, ConcatProperties
    <3> QED
      BY <3>1, <1>1
  <2>5. usrbuf' = SubSeq(rest, 1, bufp + 1) /\ after = SubSeq(rest, bufp + 1 + 1, Len(rest))
    BY <2>1, <2>3, TakeFirst, DropFirst
  <2>6. BS!Take(bufp + 1)
    <3>1. rc' # -1
      BY <1>1, <1>3
    <3>2. call' = <<>> /\ answer' = <<bufp + 1, usrbuf'>>
      BY <1>3, <3>1 DEF call, answer, Reading
    <3>3. rest' = after
      <4>1. rest' = <<>> \o Unread' \o channel
        BY <1>1, <1>3 DEF rest, Reading
      <4> QED
        BY <4>1, <2>2, ConcatEmptySeq DEF after
    <3> QED
      BY <1>1, <2>5, <3>2, <3>3 DEF BS!Take
  <2>7. /\ bufp + 1 \in 0 .. Len(rest) /\ bufp + 1 < n /\ bufp + 1 > 0 /\ rest[bufp + 1] = NL
        /\ call = <<"readlineb", n>>
    BY <1>1, <2>1, <2>4 DEF call
  <2>8. \A i \in 1 .. bufp + 1 - 1 : rest[i] # NL
    <3>1. \A i \in 1 .. bufp : rest[i] = usrbuf[i] /\ usrbuf[i] # NL
      BY <1>1, TakesStored DEF IInv, CallInv
    <3> QED
      BY <1>1, <3>1
  <2>9. BS!ReadLine(n)
    <3> DEFINE k == bufp + 1
    <3>1. BS!Take(k) /\ k \in 0 .. Len(rest) /\ k < n /\ BS!EndsLine(k)
      BY <2>6, <2>7 DEF BS!EndsLine
    <3>2. \A i \in 1 .. k - 1 : rest[i] # NL
      BY <1>1, <2>8
    <3> HIDE DEF k
    <3> QED
      BY <2>7, <3>1, <3>2 DEF BS!ReadLine
  <2> QED
    BY <1>1, <2>9 DEF BS!Next
<1> QED
  BY <1>2, <1>3 DEF CopyByte, Copy, Return, Continue, Reading
-----------------------------------------------------------------------------
(* Calls, writes, and the peer. *)
LEMMA CallIsAsk ==
  ASSUME IInv, NEW routine \in {"readnb", "readlineb", "writen"}, NEW length \in Lengths,
         Call(routine, length)
  PROVE  BS!Next
<1>1. /\ ~Reading /\ pc' = routine /\ n' = length /\ usrbuf' = <<>>
      /\ UNCHANGED <<channel, closed, rio_cnt, rio_buf, rio_bufptr>>
  BY DEF Call, Reading, rioVars
<1>2. call = <<>> /\ answer' = <<>> /\ Unread' = Unread
  BY <1>1 DEF call, answer, Unread
<1>3. rest' = rest
  BY <1>1, <1>2 DEF rest
<1>4. CASE routine = "writen"
  <2>1. call' = <<>>
    BY <1>1, <1>4 DEF call, Reading
  <2> QED
    BY <1>1, <1>2, <1>3, <2>1 DEF BS!Next, BS!Forget
<1>5. CASE routine \in {"readnb", "readlineb"}
  <2>1. call' = <<routine, length>>
    BY <1>1, <1>5 DEF call, Reading
  <2> QED
    BY <1>1, <1>2, <1>3, <1>5, <2>1 DEF BS!Next, BS!Ask
<1> QED
  BY <1>4, <1>5

LEMMA WriteNotSeen == IInv /\ WriteStep => UNCHANGED BS!vars
<1> SUFFICES ASSUME IInv, WriteStep PROVE UNCHANGED BS!vars
  OBVIOUS
<1>1. /\ pc = "writen" /\ pc' \in {"writen", "idle"}
      /\ UNCHANGED <<channel, closed, rio_cnt, rio_buf, rio_bufptr, n>>
  BY DEF WriteStep, Written, WriteFails, WriteSome, Writes, Return, Continue, Reading, rioVars,
         callVars
<1>2. Unread' = Unread
  BY <1>1 DEF Unread
<1> QED
  BY <1>1, <1>2 DEF BS!vars, rest, call, answer, Reading

LEMMA PeerIsSend == IInv /\ (Closes \/ \E byte \in Bytes : Arrives(byte)) => BS!Next
<1> SUFFICES ASSUME IInv, Closes \/ \E byte \in Bytes : Arrives(byte) PROVE BS!Next
  OBVIOUS
<1>1. /\ UNCHANGED <<rio_cnt, rio_buf, rio_bufptr, pc, n, usrbuf, rc>>
      /\ UNCHANGED <<call, answer>> /\ Unread' = Unread
  BY DEF Closes, Arrives, rioVars, callVars, call, answer, Unread, Reading
<1>2. CASE Closes
  <2>1. rest' = rest /\ closed' = TRUE
    BY <1>1, <1>2 DEF Closes, rest, Reading
  <2> QED
    BY <1>1, <2>1 DEF BS!Next, BS!End
<1>3. ASSUME NEW byte \in Bytes, Arrives(byte) PROVE BS!Next
  <2>1. ~closed /\ UNCHANGED closed /\ channel' = Append(channel, byte)
    BY <1>3 DEF Arrives
  <2> DEFINE before == (IF Reading THEN usrbuf ELSE <<>>) \o Unread
  <2>2. before \in Seq(Bytes) /\ channel \in Seq(Bytes)
    BY UnreadType, ConcatProperties DEF IInv, TypeOK
  <2>3. rest = before \o channel /\ rest' = before \o channel'
    BY <1>1 DEF rest, Reading
  <2> HIDE DEF before
  <2>4. before \o Append(channel, byte) = Append(before \o channel, byte)
    BY <2>2
  <2> QED
    BY <1>1, <2>1, <2>3, <2>4 DEF BS!Next, BS!Send
<1> QED
  BY <1>2, <1>3

LEMMA NextIsByteStream == IInv /\ [Next]_vars => [BS!Next]_BS!vars
<1> SUFFICES ASSUME IInv, [Next]_vars PROVE [BS!Next]_BS!vars
  OBVIOUS
<1>1. CASE UNCHANGED vars
  BY <1>1 DEF vars, BS!vars, rest, call, answer, Unread, Reading
<1>2. CASE ReadStep \/ Interrupted \/ ReadFails
  BY <1>2, FullIsRead, CopyBytesNotSeen, CopyByteIsRead, EndOfFileIsRead, RefillNotSeen,
     InterruptedNotSeen, ReadFailsIsFail DEF ReadStep
<1>3. CASE WriteStep
  BY <1>3, WriteNotSeen
<1>4. CASE Closes \/ \E byte \in Bytes : Arrives(byte)
  BY <1>4, PeerIsSend
<1>5. CASE \E routine \in {"readnb", "readlineb", "writen"}, length \in Lengths :
              Call(routine, length)
  BY <1>5, CallIsAsk
<1> QED
  BY <1>1, <1>2, <1>3, <1>4, <1>5 DEF Next

LEMMA InitIsByteStream == Init => BS!Init
<1> SUFFICES ASSUME Init PROVE BS!Init
  OBVIOUS
<1>1. Unread = <<>>
  <2>1. 1 .. 0 = {} /\ Unread = [i \in 1 .. 0 |-> rio_buf[rio_bufptr + i - 1]]
    BY DEF Init, Unread
  <2> QED
    BY <2>1
<1>2. rest = <<>>
  <2>1. <<>> \o <<>> = <<>>
    OBVIOUS
  <2> QED
    BY <1>1, <2>1 DEF Init, rest, Reading
<1> QED
  BY <1>2 DEF Init, BS!Init, call, answer, Reading

(* Reads hand out the bytes of the connection in order, each once, whatever *)
(* a read returns and whichever calls share the buffer, and a line or n     *)
(* bytes are whole unless the connection ended or broke (rio_read,          *)
(* rio_readnb, rio_readlineb).                                              *)
THEOREM RioIsByteStream == Spec => IsByteStream
BY InitEstablishes, InitIsByteStream, NextKeeps, NextIsByteStream, PTL
   DEF Spec, IsByteStream, BS!Spec
=============================================================================
