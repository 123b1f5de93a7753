----------------------------- MODULE ByteStream -----------------------------
(***************************************************************************)
(* What buffered reading promises: however the bytes of a connection       *)
(* arrive, calls hand them out in order, each byte once.  A call for n     *)
(* bytes gets n, and a call for a line all up to its end or as much as     *)
(* there is room for; both get less only when the connection has ended.    *)
(***************************************************************************)
EXTENDS Integers, Sequences

CONSTANTS Bytes, NL,     \* the bytes, and the one that ends a line
          Lengths        \* what calls ask for

VARIABLES rest,          \* sent by the peer and not handed out
          ended,         \* the peer has closed the connection
          call,          \* the call being made, <<routine, length>>, or <<>>
          answer         \* what the last call returned, or <<>>

vars == <<rest, ended, call, answer>>

Init == rest = <<>> /\ ended = FALSE /\ call = <<>> /\ answer = <<>>

Send(byte) == ~ended /\ rest' = Append(rest, byte) /\ UNCHANGED <<ended, call, answer>>
End == ended' = TRUE /\ UNCHANGED <<rest, call, answer>>

Ask(routine, length) ==
    /\ call = <<>> /\ call' = <<routine, length>> /\ answer' = <<>>
    /\ UNCHANGED <<rest, ended>>
Forget == call = <<>> /\ answer' = <<>> /\ UNCHANGED <<rest, ended, call>>

(* The call returns and takes the first k bytes. *)
Take(k) ==
    /\ call' = <<>> /\ answer' = <<k, SubSeq(rest, 1, k)>>
    /\ rest' = SubSeq(rest, k + 1, Len(rest)) /\ UNCHANGED ended

ReadN(n) ==
    /\ call = <<"readnb", n>>
    /\ \/ n <= Len(rest) /\ Take(n)
       \/ n > Len(rest) /\ ended /\ Take(Len(rest))

(* A line of at most maxlen - 1 bytes: one byte of the room is for the NUL. *)
EndsLine(k) == k > 0 /\ rest[k] = NL
ReadLine(maxlen) == \E k \in 0 .. Len(rest) :
    /\ call = <<"readlineb", maxlen>>
    /\ k < maxlen /\ \A i \in 1 .. k - 1 : rest[i] # NL
    /\ k = maxlen - 1 \/ EndsLine(k) \/ (ended /\ k = Len(rest))
    /\ Take(k)

(* After an error what the call had read already is gone. *)
Fail == \E k \in 0 .. Len(rest) :
    /\ call # <<>> /\ call' = <<>> /\ answer' = <<-1>>
    /\ rest' = SubSeq(rest, k + 1, Len(rest)) /\ UNCHANGED ended

Next == \/ \E byte \in Bytes : Send(byte)
        \/ End \/ Forget \/ Fail
        \/ \E n \in Lengths :
              \/ \E routine \in {"readnb", "readlineb"} : Ask(routine, n)
              \/ ReadN(n) \/ ReadLine(n)

Spec == Init /\ [][Next]_vars
=============================================================================
