--------------------------------- MODULE Rio ---------------------------------
(***************************************************************************)
(* The robust I/O package of csapp.c on one connection: a thread that      *)
(* calls rio_readnb, rio_readlineb and rio_writen in any order, one system *)
(* call or copy at a time.                                                 *)
(*                                                                         *)
(* read and write may be short, may be interrupted by a signal, and may    *)
(* fail.  A call's own buffer is the sequence of bytes stored in it so     *)
(* far.  rio_readn is not called by any program and is left out.           *)
(***************************************************************************)
EXTENDS Integers, Sequences

CONSTANTS Bytes, NL,         \* the bytes, and '\n'
          RIO_BUFSIZE,
          Lengths,           \* what calls ask for: n or maxlen
          MaxInFlight        \* bound: bytes sent and not returned by a call
ASSUME BytesAssumption == NL \in Bytes
ASSUME SizesAssumption ==
    /\ RIO_BUFSIZE \in Nat \ {0} /\ MaxInFlight \in Nat
    /\ Lengths \subseteq Nat \ {0}    \* maxlen = 0 stores a NUL where there is no room

VARIABLES
    channel, closed,                  \* the descriptor: bytes that arrived; end of file
    rio_cnt, rio_bufptr, rio_buf,     \* the rio_t
    pc,                               \* the routine that is running; returned from a read
    n,                                \* its length, its argument n or maxlen
    bufp,                             \* bytes stored or written so far
    usrbuf,                           \* the bytes stored by a read
    sink,                             \* which bytes of a write the peer was sent
    rc                                \* what the last call returned

rioVars == <<rio_cnt, rio_bufptr, rio_buf>>
callVars == <<n, bufp, usrbuf, sink>>
vars == <<channel, closed, rio_cnt, rio_bufptr, rio_buf, pc, n, bufp, usrbuf, sink, rc>>

Buf == 0 .. RIO_BUFSIZE - 1
Reading == pc \in {"readnb", "readlineb"}

(* rio_readinitb.  What is in the buffer is not initialized. *)
Init ==
    /\ channel = <<>> /\ closed = FALSE
    /\ rio_cnt = 0 /\ rio_bufptr = 0 /\ rio_buf \in [Buf -> Bytes]
    /\ pc = "idle" /\ n = 0 /\ bufp = 0 /\ usrbuf = <<>> /\ sink = <<>> /\ rc = 0

(* The caller; a call runs until it returns. *)
Call(routine, length) ==
    /\ pc \in {"idle", "returned"} /\ pc' = routine
    /\ n' = length /\ bufp' = 0 /\ usrbuf' = <<>> /\ sink' = <<>> /\ rc' = 0
    /\ UNCHANGED <<channel, closed, rioVars>>

Return(value) ==
    /\ pc' = IF Reading THEN "returned" ELSE "idle"
    /\ rc' = value
Continue == UNCHANGED <<pc, rc>>
-----------------------------------------------------------------------------
(* The loop tests of rio_readnb (nleft > 0) and rio_readlineb (n < maxlen), *)
(* whose local n counts one more than the bytes stored.                     *)
More == \/ pc = "readnb" /\ bufp < n
        \/ pc = "readlineb" /\ bufp + 1 < n

Full ==
    /\ Reading /\ ~More /\ Return(bufp)
    /\ UNCHANGED <<channel, closed, rioVars, callVars>>

(* rio_read with an empty buffer calls read. *)
Refills == Reading /\ More /\ rio_cnt <= 0

Filled(buf, k) == [i \in Buf |-> IF i < k THEN channel[i + 1] ELSE buf[i]]

Refill(k) ==
    /\ Refills /\ k <= RIO_BUFSIZE
    /\ rio_buf' = Filled(rio_buf, k) /\ rio_cnt' = k /\ rio_bufptr' = 0
    /\ channel' = SubSeq(channel, k + 1, Len(channel)) /\ Continue
    /\ UNCHANGED <<closed, callVars>>

(* EINTR: the loop reads again. *)
Interrupted ==
    /\ Refills /\ rio_cnt' = -1 /\ Continue
    /\ UNCHANGED <<channel, closed, rio_bufptr, rio_buf, callVars>>

ReadFails ==
    /\ Refills /\ rio_cnt' = -1 /\ Return(-1)
    /\ UNCHANGED <<channel, closed, rio_bufptr, rio_buf, callVars>>

EndOfFileIgnored ==           \* Mutant: a line is read on at the end of the file.
    /\ Refills /\ closed /\ channel = <<>>
    /\ rio_cnt' = 0 /\ IF pc = "readnb" THEN Return(bufp) ELSE Continue
    /\ UNCHANGED <<channel, closed, rio_bufptr, rio_buf, callVars>>

(* End of file: both loops break and return what they have. *)
EndOfFile ==
    /\ Refills /\ closed /\ channel = <<>>
    /\ rio_cnt' = 0 /\ Return(bufp)
    /\ UNCHANGED <<channel, closed, rio_bufptr, rio_buf, callVars>>

(* rio_read copies min(k, rio_cnt) bytes: all rio_readnb wants, or one. *)
Unread == [i \in 1 .. rio_cnt |-> rio_buf[rio_bufptr + i - 1]]
Copy(k) ==
    /\ Reading /\ More /\ rio_cnt > 0
    /\ usrbuf' = usrbuf \o SubSeq(Unread, 1, k) /\ bufp' = bufp + k
    /\ rio_bufptr' = rio_bufptr + k /\ rio_cnt' = rio_cnt - k
    /\ UNCHANGED <<channel, closed, rio_buf, n, sink>>

CopyBytes ==
    /\ pc = "readnb" /\ Continue
    /\ Copy(IF rio_cnt < n - bufp THEN rio_cnt ELSE n - bufp)

CopyByteNoNewline ==          \* Mutant: the line does not end at '\n'.
    pc = "readlineb" /\ Copy(1) /\ Continue

CopyByte ==
    /\ pc = "readlineb" /\ Copy(1)
    /\ IF Head(Unread) = NL THEN Return(bufp + 1) ELSE Continue
-----------------------------------------------------------------------------
(* rio_writen: bytes bufp + 1 .. n are left to be written.  A write that is *)
(* interrupted changes nothing.                                             *)
Writes == pc = "writen" /\ bufp < n

WriteSomeAgain(k) ==          \* Mutant: a short write is repeated from its start.
    /\ Writes /\ k <= n - bufp /\ Continue
    /\ sink' = sink \o [i \in 1 .. k |-> i] /\ bufp' = bufp + k
    /\ UNCHANGED <<channel, closed, rioVars, n, usrbuf>>

WriteSome(k) ==
    /\ Writes /\ k <= n - bufp /\ Continue
    /\ sink' = sink \o [i \in 1 .. k |-> bufp + i] /\ bufp' = bufp + k
    /\ UNCHANGED <<channel, closed, rioVars, n, usrbuf>>

WriteFails ==
    /\ Writes /\ Return(-1) /\ UNCHANGED <<channel, closed, rioVars, callVars>>

Written ==
    /\ pc = "writen" /\ bufp = n /\ Return(n)
    /\ UNCHANGED <<channel, closed, rioVars, callVars>>
-----------------------------------------------------------------------------
(* The peer.  rest is what it has sent and no call has returned. *)
rest == (IF Reading THEN usrbuf ELSE <<>>) \o Unread \o channel

Arrives(byte) ==
    /\ ~closed /\ Len(rest) < MaxInFlight
    /\ channel' = Append(channel, byte)
    /\ UNCHANGED <<closed, rioVars, pc, callVars, rc>>

Closes ==
    /\ ~closed /\ closed' = TRUE
    /\ UNCHANGED <<channel, rioVars, pc, callVars, rc>>

ReadStep == \/ Full \/ CopyBytes \/ CopyByte \/ EndOfFile
            \/ \E k \in 1 .. Len(channel) : Refill(k)

WriteStep == Written \/ WriteFails \/ \E k \in 1 .. n : WriteSome(k)

Next == \/ \E routine \in {"readnb", "readlineb", "writen"}, length \in Lengths :
               Call(routine, length)
        \/ ReadStep \/ Interrupted \/ ReadFails \/ WriteStep
        \/ (\E byte \in Bytes : Arrives(byte)) \/ Closes

Spec == Init /\ [][Next]_vars

(* read returns what has arrived, or the end of file, unless signals go on *)
(* for ever; nothing is assumed of the peer.                               *)
FairSpec == Spec /\ WF_vars(ReadStep)
-----------------------------------------------------------------------------
TypeOK ==
    /\ channel \in Seq(Bytes) /\ closed \in BOOLEAN
    /\ rio_cnt \in -1 .. RIO_BUFSIZE /\ rio_bufptr \in 0 .. RIO_BUFSIZE
    /\ rio_cnt + rio_bufptr <= RIO_BUFSIZE /\ rio_buf \in [Buf -> Bytes]
    /\ pc \in {"idle", "readnb", "readlineb", "writen", "returned"}
    /\ n \in Nat /\ bufp \in 0 .. n /\ usrbuf \in Seq(Bytes)
    /\ sink \in Seq(1 .. n) /\ rc \in Int

(* A write hands the peer its bytes once and in order, and returns n when  *)
(* it has handed over all of them and -1 when it has not (rio_writen).     *)
WritesInOrder ==
    /\ sink = [i \in 1 .. Len(sink) |-> i]
    /\ pc = "idle" /\ n > 0 => rc = IF Len(sink) = n THEN n ELSE -1

(* Reads hand out the bytes of the connection in order, each once, however *)
(* they arrive and whichever calls share the buffer, and a line or n bytes *)
(* are whole unless the connection ended (rio_read, rio_readnb,            *)
(* rio_readlineb).                                                         *)
answer == IF pc # "returned" THEN <<>> ELSE IF rc = -1 THEN <<-1>> ELSE <<rc, usrbuf>>
call == IF Reading THEN <<pc, n>> ELSE <<>>
BS == INSTANCE ByteStream
        WITH rest <- rest, ended <- closed, call <- call, answer <- answer
IsByteStream == BS!Spec

(* Once the peer has closed the connection every read returns: the loops   *)
(* end at the end of the file (rio_read, rio_readnb, rio_readlineb).       *)
ReadsEnd == Reading /\ closed ~> ~Reading
(* The buffer's count and pointer stay inside it, and writes are whole     *)
(* (rio_read, rio_writen).                                                 *)
RioInv == TypeOK /\ WritesInOrder

=============================================================================
