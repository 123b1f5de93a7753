----------------------------- MODULE Tiny_proofs -----------------------------
(***************************************************************************)
(* Proofs about Tiny for every number of clients, every list of addresses, *)
(* every set of files and of requests, and every number of changes: first  *)
(* that nothing of a connection outlives it, then what a client receives.  *)
(***************************************************************************)
EXTENDS Tiny, NatLemmas, SequenceTheorems, TLAPS

Serving == {"request", "headers1", "headers", "stat", "write", "open", "mmap", "munmap", "fork",
            "wait", "close"}

(* What the server has open, mapped and to do, at every place.             *)
ServerInv ==
    /\ addrs \in Seq(Range(ServerAddresses)) /\ backlog \in Seq(Clients)
    /\ pc \in {"bind", "listen", "accept"} \cup Serving => addrs # <<>>
    /\ pc \in Serving => conn \in Clients
    /\ pc \in {"start", "socket", "exited"} => fds = {}
    /\ pc \in {"bind", "listen", "accept"} => fds = {Head(addrs)}
    /\ pc \in Serving \ {"mmap"} => fds = {Head(addrs), conn}
    /\ pc = "mmap" => fds = {Head(addrs), conn, "src"}
    /\ next \in {"close", "open", "munmap", "fork"}
    /\ mapped => pc = "munmap" \/ (pc = "write" /\ next = "munmap")
    /\ \A name \in DOMAIN files : files[name].size \in Nat

(* TypeOK without the clients. *)
ServerTyped ==
    /\ pc \in {"start", "socket", "bind", "listen", "accept", "exited"} \cup Serving
    /\ conn \in Clients \cup {NoClient} /\ sbuf \in Nat /\ pages \in Nat /\ mapped \in BOOLEAN

(* The child is there only while the server waits for it. *)
ChildInv ==
    /\ DOMAIN child = {"state", "logged", "args"}
    /\ child.state \in {"none", "new", "exec", "adder", "zombie"}
    /\ child # NoChild => pc = "wait"

States == {"idle", "socket", "connect", "connected", "sent", "closed", "reset", "done", "failed"}

(* The clients: records, and the sockets they hold. *)
ClientInv ==
    /\ DOMAIN client = Clients
    /\ \A c \in Clients :
          /\ DOMAIN client[c] = {"state", "addrs", "socks", "asked", "inbox", "got"}
          /\ client[c].state \in States
    /\ OneSocket

IInv == ServerInv /\ ServerTyped /\ ChildInv /\ ClientInv
-----------------------------------------------------------------------------
(* The invariant is strong enough. *)
LEMMA IInvImplies == IInv => TinyInv
<1> SUFFICES ASSUME IInv PROVE TinyInv
  OBVIOUS
<1>1. fds \subseteq Range(ServerAddresses) \cup Clients \cup {"src"}
  <2>1. addrs # <<>> => Head(addrs) \in Range(ServerAddresses)
    BY DEF IInv, ServerInv
  <2> QED
    BY <2>1 DEF IInv, ServerInv, ServerTyped, Serving
<1>2. TypeOK
  BY <1>1 DEF IInv, ServerInv, ServerTyped, ChildInv, ClientInv, TypeOK, Serving, States
<1>3. NothingLeaks
  BY DEF IInv, ServerInv, ChildInv, NothingLeaks
<1> QED
  BY <1>2, <1>3 DEF IInv, ClientInv, TinyInv

LEMMA InitEstablishes == Init => IInv
<1> SUFFICES ASSUME Init PROVE IInv
  OBVIOUS
<1>1. ServerInv /\ ServerTyped
  <2>1. \A name \in DOMAIN Files : Files[name].size \in Nat
    BY TinyAssumption
  <2>2. <<>> \in Seq(Range(ServerAddresses)) /\ <<>> \in Seq(Clients)
    OBVIOUS
  <2> QED
    BY <2>1, <2>2 DEF Init, ServerInv, ServerTyped, Serving
<1>2. ChildInv
  BY DEF Init, ChildInv, NoChild
<1>3. ClientInv
  BY DEF Init, ClientInv, Over, States, OneSocket
<1> QED
  BY <1>1, <1>2, <1>3 DEF IInv
-----------------------------------------------------------------------------
(* A step that does not touch the clients keeps what is known of them, and *)
(* so does one that changes what a client has sent or received.            *)
LEMMA ClientsKept ==
  ASSUME ClientInv, UNCHANGED client
  PROVE  ClientInv'
BY DEF ClientInv, OneSocket

LEMMA MailKept ==
  ASSUME ClientInv, NEW c \in Clients, NEW v,
         \/ client' = [client EXCEPT ![c].inbox = v]
         \/ client' = [client EXCEPT ![c].got = v]
  PROVE  ClientInv'
<1>1. DOMAIN client' = Clients
  BY DEF ClientInv
<1>2. ASSUME NEW d \in Clients
      PROVE  /\ DOMAIN client'[d] = DOMAIN client[d]
             /\ client'[d].state = client[d].state /\ client'[d].socks = client[d].socks
  BY DEF ClientInv
<1> QED
  BY <1>1, <1>2 DEF ClientInv, OneSocket

LEMMA TakeLineKeeps ==
  ASSUME ClientInv, conn \in Clients, TakeLine
  PROVE  ClientInv'
BY MailKept DEF TakeLine

LEMMA ReachesKeeps ==
  ASSUME ClientInv, NEW c \in Clients, NEW units, Reaches(c, units)
  PROVE  ClientInv'
BY MailKept, ClientsKept DEF Reaches

(* The server has a child only where it waits for one. *)
LEMMA ChildKept ==
  ASSUME ChildInv, UNCHANGED child, pc # "wait" \/ pc' = "wait"
  PROVE  ChildInv'
BY DEF ChildInv

(* A connection is not a socket that listens, and neither is the file. *)
LEMMA Distinct ==
  ASSUME ServerInv, addrs # <<>>
  PROVE  /\ Head(addrs) \in Range(ServerAddresses)
         /\ Head(addrs) # "src" /\ Head(addrs) \notin Clients /\ "src" \notin Clients
BY TinyAssumption DEF ServerInv
-----------------------------------------------------------------------------
(* The steps of the server, one by one. *)

LEMMA GetAddrInfoKeeps == IInv /\ GetAddrInfo => IInv'
<1> SUFFICES ASSUME IInv, GetAddrInfo PROVE IInv'
  OBVIOUS
<1>1. ServerInv' /\ ServerTyped'
  <2>1. ServerAddresses \in Seq(Range(ServerAddresses))
    <3>1. ServerAddresses \in Seq(STRING)
      BY TinyAssumption
    <3> QED
      BY <3>1 DEF Range
  <2> QED
    BY <2>1 DEF GetAddrInfo, IInv, ServerInv, ServerTyped, Serving, doitVars,
       fileVars, outside
<1>2. ChildInv'
  BY ChildKept DEF GetAddrInfo, IInv
<1>3. ClientInv'
  BY ClientsKept DEF GetAddrInfo, IInv
<1> QED
  BY <1>1, <1>2, <1>3 DEF IInv

LEMMA SocketKeeps == IInv /\ Socket => IInv'
<1> SUFFICES ASSUME IInv, Socket PROVE IInv'
  OBVIOUS
<1>1. ServerInv' /\ ServerTyped'
  <2>1. addrs # <<>> => Tail(addrs) \in Seq(Range(ServerAddresses))
    BY DEF IInv, ServerInv
  <2> QED
    BY <2>1 DEF Socket, IInv, ServerInv, ServerTyped, Serving, doitVars, fileVars, outside
<1>2. ChildInv'
  BY ChildKept DEF Socket, IInv
<1>3. ClientInv'
  BY ClientsKept DEF Socket, IInv
<1> QED
  BY <1>1, <1>2, <1>3 DEF IInv

LEMMA BindKeeps == IInv /\ Bind => IInv'
<1> SUFFICES ASSUME IInv, Bind PROVE IInv'
  OBVIOUS
<1>1. ServerInv' /\ ServerTyped'
  <2>1. pc = "bind" /\ addrs # <<>> /\ fds = {Head(addrs)}
    BY DEF Bind, IInv, ServerInv
  <2>2. Tail(addrs) \in Seq(Range(ServerAddresses))
    BY <2>1 DEF IInv, ServerInv
  <2>3. \/ pc' = "listen" /\ UNCHANGED <<fds, addrs>>
        \/ pc' = "socket" /\ fds' = {} /\ addrs' = Tail(addrs)
    BY <2>1 DEF Bind
  <2>4. ServerInv'
    BY <2>1, <2>2, <2>3 DEF Bind, IInv, ServerInv, Serving, doitVars, fileVars, outside
  <2>5. ServerTyped'
    BY <2>3 DEF Bind, IInv, ServerTyped, Serving, doitVars, fileVars, outside
  <2> QED
    BY <2>4, <2>5
<1>2. ChildInv'
  BY ChildKept DEF Bind, IInv
<1>3. ClientInv'
  BY ClientsKept DEF Bind, IInv
<1> QED
  BY <1>1, <1>2, <1>3 DEF IInv

LEMMA ListenKeeps == IInv /\ Listen => IInv'
<1> SUFFICES ASSUME IInv, Listen PROVE IInv'
  OBVIOUS
<1>1. ServerInv' /\ ServerTyped'
  BY DEF Listen, IInv, ServerInv, ServerTyped, Serving, doitVars, fileVars, outside
<1>2. ChildInv'
  BY ChildKept DEF Listen, IInv
<1>3. ClientInv'
  BY ClientsKept DEF Listen, IInv
<1> QED
  BY <1>1, <1>2, <1>3 DEF IInv

LEMMA AcceptKeeps == IInv /\ Accept => IInv'
<1> SUFFICES ASSUME IInv, Accept PROVE IInv'
  OBVIOUS
<1>1. ServerInv' /\ ServerTyped'
  BY Distinct DEF Accept, IInv, ServerInv, ServerTyped, Serving, doitVars, fileVars, outside
<1>2. ChildInv'
  BY ChildKept DEF Accept, IInv
<1>3. ClientInv'
  BY ClientsKept DEF Accept, IInv
<1> QED
  BY <1>1, <1>2, <1>3 DEF IInv

LEMMA CloseKeeps == IInv /\ Close => IInv'
<1> SUFFICES ASSUME IInv, Close PROVE IInv'
  OBVIOUS
<1>1. ServerInv' /\ ServerTyped'
  BY Distinct DEF Close, IInv, ServerInv, ServerTyped, Serving, doitVars, fileVars,
     outside, Returned
<1>2. ChildInv'
  BY ChildKept DEF Close, IInv
<1>3. ClientInv'
  BY ClientsKept DEF Close, IInv
<1> QED
  BY <1>1, <1>2, <1>3 DEF IInv

LEMMA ReadRequestKeeps == IInv /\ ReadRequest => IInv'
<1> SUFFICES ASSUME IInv, ReadRequest PROVE IInv'
  OBVIOUS
<1>1. ServerInv' /\ ServerTyped'
  BY DEF ReadRequest, IInv, ServerInv, ServerTyped, Serving, doitVars, fileVars,
     outside, Write
<1>2. ChildInv'
  BY ChildKept DEF ReadRequest, IInv
<1>3. ClientInv'
  BY TakeLineKeeps DEF ReadRequest, IInv, ServerInv, Serving
<1> QED
  BY <1>1, <1>2, <1>3 DEF IInv

LEMMA NoRequestKeeps == IInv /\ NoRequest => IInv'
<1> SUFFICES ASSUME IInv, NoRequest PROVE IInv'
  OBVIOUS
<1>1. ServerInv' /\ ServerTyped'
  BY DEF NoRequest, IInv, ServerInv, ServerTyped, Serving, doitVars, fileVars, outside
<1>2. ChildInv'
  BY ChildKept DEF NoRequest, IInv
<1>3. ClientInv'
  BY ClientsKept DEF NoRequest, IInv
<1> QED
  BY <1>1, <1>2, <1>3 DEF IInv

LEMMA ReadHeaderKeeps == IInv /\ ReadHeader => IInv'
<1> SUFFICES ASSUME IInv, ReadHeader PROVE IInv'
  OBVIOUS
<1>1. ServerInv' /\ ServerTyped'
  BY DEF ReadHeader, IInv, ServerInv, ServerTyped, Serving, doitVars, fileVars, outside,
     EndHeaders
<1>2. ChildInv'
  BY ChildKept DEF ReadHeader, IInv
<1>3. ClientInv'
  BY TakeLineKeeps, ClientsKept DEF ReadHeader, IInv, ServerInv, Serving
<1> QED
  BY <1>1, <1>2, <1>3 DEF IInv

LEMMA StatKeeps == IInv /\ Stat => IInv'
<1> SUFFICES ASSUME IInv, Stat PROVE IInv'
  OBVIOUS
<1>1. ServerInv' /\ ServerTyped'
  BY DEF Stat, IInv, ServerInv, ServerTyped, Serving, doitVars, fileVars, outside,
     Write, File, Missing, Permission
<1>2. ChildInv'
  BY ChildKept DEF Stat, IInv
<1>3. ClientInv'
  BY ClientsKept DEF Stat, IInv
<1> QED
  BY <1>1, <1>2, <1>3 DEF IInv

LEMMA Rio_writenKeeps == IInv /\ Rio_writen => IInv'
<1> SUFFICES ASSUME IInv, Rio_writen PROVE IInv'
  OBVIOUS
<1>1. ServerInv' /\ ServerTyped'
  BY DEF Rio_writen, IInv, ServerInv, ServerTyped, Serving, doitVars, fileVars, outside
<1>2. ChildInv'
  BY ChildKept DEF Rio_writen, IInv
<1>3. ClientInv'
  BY ReachesKeeps DEF Rio_writen, IInv, ServerInv, Serving
<1> QED
  BY <1>1, <1>2, <1>3 DEF IInv

LEMMA OpenKeeps == IInv /\ Open => IInv'
<1> SUFFICES ASSUME IInv, Open PROVE IInv'
  OBVIOUS
<1>1. ServerInv' /\ ServerTyped'
  BY Distinct DEF Open, IInv, ServerInv, ServerTyped, Serving, doitVars, fileVars,
     outside, Openable, File, Missing
<1>2. ChildInv'
  BY ChildKept DEF Open, IInv
<1>3. ClientInv'
  BY ClientsKept DEF Open, IInv
<1> QED
  BY <1>1, <1>2, <1>3 DEF IInv

LEMMA MmapKeeps == IInv /\ Mmap => IInv'
<1> SUFFICES ASSUME IInv, Mmap PROVE IInv'
  OBVIOUS
<1>1. ServerInv' /\ ServerTyped'
  BY Distinct DEF Mmap, IInv, ServerInv, ServerTyped, Serving, doitVars, fileVars,
     outside, Write
<1>2. ChildInv'
  BY ChildKept DEF Mmap, IInv
<1>3. ClientInv'
  BY ClientsKept DEF Mmap, IInv
<1> QED
  BY <1>1, <1>2, <1>3 DEF IInv

LEMMA MunmapKeeps == IInv /\ Munmap => IInv'
<1> SUFFICES ASSUME IInv, Munmap PROVE IInv'
  OBVIOUS
<1>1. ServerInv' /\ ServerTyped'
  BY DEF Munmap, IInv, ServerInv, ServerTyped, Serving, doitVars, fileVars, outside
<1>2. ChildInv'
  BY ChildKept DEF Munmap, IInv
<1>3. ClientInv'
  BY ClientsKept DEF Munmap, IInv
<1> QED
  BY <1>1, <1>2, <1>3 DEF IInv

LEMMA ForkKeeps == IInv /\ Fork => IInv'
<1> SUFFICES ASSUME IInv, Fork PROVE IInv'
  OBVIOUS
<1>1. ServerInv' /\ ServerTyped'
  BY DEF Fork, IInv, ServerInv, ServerTyped, Serving, doitVars, fileVars, outside
<1>2. ChildInv'
  BY DEF Fork, IInv, ChildInv
<1>3. ClientInv'
  BY ClientsKept DEF Fork, IInv
<1> QED
  BY <1>1, <1>2, <1>3 DEF IInv

LEMMA WaitKeeps == IInv /\ Wait => IInv'
<1> SUFFICES ASSUME IInv, Wait PROVE IInv'
  OBVIOUS
<1>1. ServerInv' /\ ServerTyped'
  BY DEF Wait, IInv, ServerInv, ServerTyped, Serving, doitVars, fileVars, outside
<1>2. ChildInv'
  BY DEF Wait, IInv, ChildInv, NoChild
<1>3. ClientInv'
  BY ClientsKept DEF Wait, IInv
<1> QED
  BY <1>1, <1>2, <1>3 DEF IInv

(* A server that ends has nothing open, and it does not end while it waits *)
(* for a child.                                                            *)
LEMMA ExitKeeps == IInv /\ Exit => IInv'
<1> SUFFICES ASSUME IInv, Exit PROVE IInv'
  OBVIOUS
<1>1. ServerInv' /\ ServerTyped'
  BY DEF Exit, unix_error, IInv, ServerInv, ServerTyped, Serving, doitVars, outside
<1>2. ChildInv'
  <2>1. pc # "wait"
    BY DEF Exit, Fails, Open_listenfdFails
  <2> QED
    BY <2>1, ChildKept DEF Exit, unix_error, IInv
<1>3. ClientInv'
  BY ClientsKept DEF Exit, unix_error, IInv
<1> QED
  BY <1>1, <1>2, <1>3 DEF IInv
-----------------------------------------------------------------------------
(* The server does not see what happens beside it. *)
serverVars == <<pc, addrs, fds, conn, doitVars, out, next, fileVars, files>>

LEMMA ServerKept ==
  ASSUME ServerInv, ServerTyped, UNCHANGED <<serverVars, backlog>>
  PROVE  ServerInv' /\ ServerTyped'
BY DEF ServerInv, ServerTyped, Serving, serverVars, doitVars, fileVars

LEMMA ChildSteps == IInv /\ Child => IInv'
<1> SUFFICES ASSUME IInv, Child PROVE IInv'
  OBVIOUS
<1>1. UNCHANGED <<serverVars, backlog>> /\ pc = "wait" /\ conn \in Clients
  BY DEF Child, Dup2, Execve, Adder, serverVars, IInv, ServerInv, ChildInv, Serving,
     outside,
         NoChild
<1>2. ServerInv' /\ ServerTyped'
  BY <1>1, ServerKept DEF IInv
<1>3. ChildInv'
  BY <1>1 DEF Child, Dup2, Execve, Adder, IInv, ChildInv, serverVars
<1>4. ClientInv'
  <2>1. CASE Dup2
    BY <2>1, ClientsKept DEF Dup2, IInv
  <2>2. CASE Execve
    BY <2>2, <1>1, ReachesKeeps, ClientsKept DEF Execve, IInv
  <2>3. CASE Adder
    BY <2>3, <1>1, ReachesKeeps, ClientsKept DEF Adder, IInv
  <2> QED
    BY <2>1, <2>2, <2>3 DEF Child
<1> QED
  BY <1>2, <1>3, <1>4 DEF IInv
-----------------------------------------------------------------------------
(* A client that opens, closes or gives up: what it holds fits its state.   *)
LEMMA ClientMoves ==
  ASSUME ClientInv, NEW c \in Clients, NEW r,
         client' = [client EXCEPT ![c] = r],
         DOMAIN r = {"state", "addrs", "socks", "asked", "inbox", "got"},
         r.state \in States,
         r.socks = IF r.state \in {"connect", "connected", "sent"} THEN 1 ELSE 0
  PROVE  ClientInv'
BY DEF ClientInv, OneSocket

LEMMA ClientSteps ==
  ASSUME IInv, NEW c \in Clients, Client(c) \/ Leave(c)
  PROVE  IInv'
<1>1. UNCHANGED <<serverVars, child>>
  BY DEF Client, Leave, Only, Start, ClientSocket, Connect, Send, ReadEOF, serverVars,
     outside
<1>2. backlog' \in Seq(Clients)
  <2>1. backlog \in Seq(Clients) /\ Append(backlog, c) \in Seq(Clients)
    BY DEF IInv, ServerInv
  <2> QED
    BY <2>1 DEF Client, Leave, Start, ClientSocket, Connect, Send, ReadEOF
<1>3. ServerInv' /\ ServerTyped'
  BY <1>1, <1>2 DEF IInv, ServerInv, ServerTyped, Serving, serverVars, doitVars, fileVars
<1>4. ChildInv'
  BY <1>1, ChildKept DEF serverVars, IInv, ChildInv
<1>5. ClientInv'
  <2> USE DEF IInv, ClientInv, OneSocket, States
  <2>1. CASE Start(c)
    BY <2>1 DEF Start
  <2>2. CASE ClientSocket(c)
    BY <2>2 DEF ClientSocket
  <2>3. CASE Connect(c)
    BY <2>3 DEF Connect
  <2>4. CASE Send(c)
    BY <2>4 DEF Send
  <2>5. CASE ReadEOF(c)
    BY <2>5 DEF ReadEOF, Over
  <2>6. CASE Leave(c)
    BY <2>6 DEF Leave, Over
  <2> QED
    BY <2>1, <2>2, <2>3, <2>4, <2>5, <2>6 DEF Client
<1> QED
  BY <1>3, <1>4, <1>5 DEF IInv

(* A file may change at any moment; what is known of sizes stays. *)
LEMMA ChangeKeeps == IInv /\ Change => IInv'
<1> SUFFICES ASSUME IInv, Change PROVE IInv'
  OBVIOUS
<1>1. PICK name \in DOMAIN files, a \in Attributes :
        /\ files' = [files EXCEPT ![name] = a]
        /\ pages' \in {a.size, pages}
  BY DEF Change
<1>2. \A n \in DOMAIN files' : files'[n].size \in Nat
  BY <1>1, TinyAssumption DEF IInv, ServerInv
<1>3. ServerInv' /\ ServerTyped'
  BY <1>1, <1>2, TinyAssumption DEF Change, IInv, ServerInv, ServerTyped, Serving, doitVars
<1>4. ChildInv'
  BY ChildKept DEF Change, IInv, ChildInv
<1>5. ClientInv'
  BY ClientsKept DEF Change, IInv
<1> QED
  BY <1>3, <1>4, <1>5 DEF IInv
-----------------------------------------------------------------------------
LEMMA StutterKeeps == IInv /\ UNCHANGED vars => IInv'
<1> SUFFICES ASSUME IInv, UNCHANGED vars PROVE IInv'
  OBVIOUS
<1>1. ServerInv' /\ ServerTyped'
  BY ServerKept DEF vars, serverVars, outside, IInv
<1>2. ChildInv' /\ ClientInv'
  BY ChildKept, ClientsKept DEF vars, IInv, ChildInv
<1> QED
  BY <1>1, <1>2 DEF IInv

(* The invariant is inductive. *)
LEMMA StepKeeps == IInv /\ [Next]_vars => IInv'
<1> SUFFICES ASSUME IInv, [Next]_vars PROVE IInv'
  OBVIOUS
<1>1. CASE Server
  BY <1>1, GetAddrInfoKeeps, SocketKeeps, BindKeeps, ListenKeeps, AcceptKeeps, CloseKeeps,
     ReadRequestKeeps, NoRequestKeeps, ReadHeaderKeeps, StatKeeps, Rio_writenKeeps, OpenKeeps,
     MmapKeeps, MunmapKeeps, ForkKeeps, WaitKeeps, ExitKeeps DEF Server
<1>2. CASE Child
  BY <1>2, ChildSteps
<1>3. CASE \E c \in Clients : Client(c) \/ Leave(c)
  BY <1>3, ClientSteps
<1>4. CASE Change
  BY <1>4, ChangeKeeps
<1>5. CASE UNCHANGED vars
  BY <1>5, StutterKeeps
<1> QED
  BY <1>1, <1>2, <1>3, <1>4, <1>5 DEF Next

(* Whatever clients, files and system calls do, what the server and its     *)
(* clients opened, forked or mapped for a connection is gone after it      *)
(* (open_listenfd, open_clientfd, main, serve_static, serve_dynamic).      *)
THEOREM TinyIsClean == Spec => []TinyInv
BY StepKeeps, InitEstablishes, IInvImplies, PTL DEF Spec
-----------------------------------------------------------------------------
(* The strings: the provers do not know that a literal is one.             *)
Strings ==
    STRING \cup {"junk", "home.html", "200", "403", "404", "501", "Server", "text/html",
                 "image/gif", "text/plain", "error page", "Content-length", "page",
                 "Connection", "log"}

(* The units of a response, and a response of every kind. *)
Unit == [what : Strings, n : Nat, of : Seq(Strings)]

PagesOf(n, of) == [k \in 1 .. n |-> Page(k, of)]
StaticReply(f, n) == StaticHeader(f, n) \o PagesOf(n, f)
Errors == {"403", "404", "501"}

(* What OwnAnswer says of the pages of a response to a request whose first *)
(* line has these words: they are of the file that it names, or of the sum *)
(* that it asks for, if it names a URI.                                    *)
NoURI(words) == words \in {<<>>, <<"GET">>}
Own(words, of) ==
    IF Len(words) < 2 THEN NoURI(words)
    ELSE /\ words[1] = "GET"
         /\ IF Contains(words, "cgi-bin") THEN IsSuffix(<<"?">> \o of, words)
            ELSE IsPrefix(Tail(words), of)

(* What a program answers: nothing; the copy of the log, if it is too late *)
(* to run it; or a sum.                                                    *)
DynamicReply(words, late, got) ==
    \/ got = DynamicHeader
    \/ got = DynamicHeader \o <<Header("log")>> /\ late
    \/ \E parts \in Nat \ {0}, args \in Seq(Strings) :
          got = DynamicHeader \o Output(args, parts) /\ Own(words, args)

(* A whole response to these words, and one that may go on. *)
Whole(words, late, got) ==
    \/ \E errnum \in Errors : got = clienterror(errnum)
    \/ \E f \in DOMAIN Files \cap Seq(Strings), n \in Nat :
          got = StaticReply(f, n) /\ Own(words, f)
    \/ DynamicReply(words, late, got)
Begun(words, late, got) ==
    \/ \E errnum \in Errors : IsPrefix(got, clienterror(errnum))
    \/ \E f \in DOMAIN Files \cap Seq(Strings), n \in Nat :
          IsPrefix(got, StaticReply(f, n)) /\ Own(words, f)
    \/ IsPrefix(got, DynamicHeader)
    \/ DynamicReply(words, late, got)

Words(c) == client[c].asked[1]

(* The programs of the site are no empty files at the start: execve cannot *)
(* run one that is, and nor can it when it is too late.                    *)
ProgramsRun ==
    \A name \in DOMAIN Files :
        Files[name].type = "file" /\ Files[name].x => Files[name].size > 0
Late == changes > 0 \/ ~ProgramsRun

(* c has not been heard: it is in the backlog, or the next to be read.     *)
InBacklog(c) == \E i \in 1 .. Len(backlog) : backlog[i] = c
Waiting(c) == InBacklog(c) \/ (c = conn /\ pc = "request")
Served(c) == c = conn /\ pc \in Serving \ {"request"}

(* What the clients hold and have said, and that each connects once. *)
MailInv ==
    /\ \A c \in Clients :
          /\ client[c].got \in Seq(Unit) /\ client[c].inbox \in Seq(Seq(Strings))
          /\ client[c].state # "sent" => client[c].got = <<>>
          /\ client[c].state \in {"idle", "socket", "connect", "connected"} =>
                client[c].inbox = <<>>
          /\ client[c].state = "connected" => Waiting(c) \/ pc = "exited"
          /\ client[c].state = "sent" => client[c].asked \in Requests
          /\ client[c].state = "sent" /\ Waiting(c) =>
                client[c].got = <<>> /\ client[c].inbox = client[c].asked
          /\ client[c].state \in {"idle", "socket", "connect"} => ~InBacklog(c) /\ c # conn
          /\ InBacklog(c) => c # conn
    /\ \A i, j \in 1 .. Len(backlog) : backlog[i] = backlog[j] => i = j

(* The locals of doit and the files. *)
DoitInv ==
    /\ method \in Strings /\ uri \in Seq(Strings) /\ filename \in Seq(Strings)
    /\ cgiargs \in Seq(Strings) /\ is_static \in BOOLEAN
    /\ DOMAIN files = DOMAIN Files /\ changes \in Nat /\ (changes = 0 => files = Files)
    /\ pc = "write" => out \in Seq(Unit)
    /\ pc = "wait" => child.args = cgiargs \/ child.state \in {"none", "zombie"}

(* Where the server goes when what it has to write is written. *)
Goal == IF pc = "write" THEN next ELSE pc
Rest == IF pc = "write" THEN out ELSE <<>>

(* The locals are those of the request. *)
Asked(words) ==
    IF Len(words) < 2 THEN NoURI(words) ELSE words[1] = "GET" /\ uri = Tail(words)
Parsed(words) ==
    IF Len(words) < 2 THEN NoURI(words)
    ELSE /\ words[1] = "GET"
         /\ IF Contains(words, "cgi-bin")
            THEN ~is_static /\ (cgiargs = <<>> \/ IsSuffix(<<"?">> \o cgiargs, words))
            ELSE is_static /\ IsPrefix(Tail(words), filename)
Runs(f) == File(f).type = "file" /\ File(f).x

(* What the client that is served has, with what is to be written.         *)
HasWith(c, text) ==
    /\ Goal \in {"headers1", "headers"} => text = <<>> /\ Asked(Words(c))
    /\ Goal = "stat" => text = <<>> /\ Parsed(Words(c))
    /\ Goal \in {"open", "mmap"} =>
          /\ text = StaticHeader(filename, sbuf) /\ Parsed(Words(c)) /\ is_static
          /\ filename \in DOMAIN Files
    /\ Goal = "munmap" =>
          /\ text = StaticReply(filename, sbuf) /\ Own(Words(c), filename)
          /\ filename \in DOMAIN Files
    /\ Goal \in {"fork", "wait"} =>
          Parsed(Words(c)) /\ ~is_static /\ (Late \/ Runs(filename))
    /\ Goal = "fork" => text = DynamicHeader
    /\ Goal = "wait" /\ child.state \in {"new", "exec", "adder"} => text = DynamicHeader
    /\ Goal = "wait" => DynamicReply(Words(c), Late, text)
    /\ Goal = "close" => Whole(Words(c), Late, text)
    /\ Goal = "close" /\ pc = "write" => \E errnum \in Errors : text = clienterror(errnum)
ServedInv ==
    \A c \in Clients :
        Served(c) /\ client[c].state = "sent" => HasWith(c, client[c].got \o Rest)

(* What a client has at any time, and after it was served.                 *)
GotInv ==
    \A c \in Clients :
        /\ Begun(Words(c), Late, client[c].got)
        /\ client[c].state = "sent" /\ ~Waiting(c) /\ ~Served(c) /\ pc # "exited" =>
              Whole(Words(c), Late, client[c].got)

AnswerInv == MailInv /\ DoitInv /\ ServedInv /\ GotInv
-----------------------------------------------------------------------------
(* Sequences: a prefix of what is concatenated, and a unit that moves from *)
(* what is to be written to what is.                                       *)
LEMMA PrefixOfConcat ==
  ASSUME NEW S, NEW s \in Seq(S), NEW t \in Seq(S)
  PROVE  IsPrefix(s, s \o t)
<1>1. Len(s \o t) = Len(s) + Len(t) /\ s \o t \in Seq(S)
  OBVIOUS
<1>2. SubSeq(s \o t, 1, Len(s)) = SubSeq(s, 1, Len(s))
  OBVIOUS
<1> QED
  BY <1>1, <1>2 DEF IsPrefix

LEMMA PrefixOfItself ==
  ASSUME NEW S, NEW s \in Seq(S)
  PROVE  IsPrefix(s, s)
BY DEF IsPrefix

LEMMA UnitMoves ==
  ASSUME NEW S, NEW s \in Seq(S), NEW t \in Seq(S), t # <<>>
  PROVE  /\ (s \o <<Head(t)>>) \o Tail(t) = s \o t
         /\ Head(t) \in S /\ Tail(t) \in Seq(S) /\ s \o <<Head(t)>> \in Seq(S)
<1>1. Head(t) \in S /\ Tail(t) \in Seq(S)
  OBVIOUS
<1>2. t = <<Head(t)>> \o Tail(t)
  OBVIOUS
<1>3. (s \o <<Head(t)>>) \o Tail(t) = s \o (<<Head(t)>> \o Tail(t))
  BY <1>1, ConcatAssociative
<1> QED
  BY <1>1, <1>2, <1>3

LEMMA TupleTypes ==
  ASSUME NEW S, NEW a \in S, NEW b \in S, NEW c \in S, NEW d \in S
  PROVE  /\ <<a, b>> \in Seq(S) /\ Len(<<a, b>>) = 2
         /\ <<a, b>>[1] = a /\ <<a, b>>[2] = b
         /\ <<a, b, c>> \in Seq(S) /\ Len(<<a, b, c>>) = 3
         /\ <<a, b, c>>[1] = a /\ <<a, b, c>>[2] = b /\ <<a, b, c>>[3] = c
         /\ <<a, b, c, d>> \in Seq(S) /\ Len(<<a, b, c, d>>) = 4
         /\ <<a, b, c, d>>[1] = a /\ <<a, b, c, d>>[2] = b
         /\ <<a, b, c, d>>[3] = c /\ <<a, b, c, d>>[4] = d
OBVIOUS

(* Where the elements of two sequences are in their concatenation. *)
Concat(S, s, t) ==
    /\ s \o t \in Seq(S) /\ Len(s \o t) = Len(s) + Len(t)
    /\ \A k \in 1 .. Len(s) : (s \o t)[k] = s[k]
    /\ \A k \in Len(s) + 1 .. Len(s) + Len(t) : (s \o t)[k] = t[k - Len(s)]
    /\ \A k \in 1 .. Len(t) : (s \o t)[Len(s) + k] = t[k]

LEMMA ConcatAt ==
  ASSUME NEW S, NEW s \in Seq(S), NEW t \in Seq(S)
  PROVE  Concat(S, s, t)
BY DEF Concat

(* What follows a part of a sequence is a suffix with it. *)
LEMMA SuffixAt ==
  ASSUME NEW S, NEW s \in Seq(S), NEW q \in 1 .. Len(s)
  PROVE  IsSuffix(<<s[q]>> \o SubSeq(s, q + 1, Len(s)), s)
<1> DEFINE t == <<s[q]>> \o SubSeq(s, q + 1, Len(s))
<1>1. t \in Seq(S) /\ Len(t) = Len(s) - q + 1
  OBVIOUS
<1>2. \A i \in 1 .. Len(t) : t[i] = s[q + i - 1]
  OBVIOUS
<1>3. Reverse(t) = [i \in 1 .. Len(t) |-> t[(Len(t) - i) + 1]]
  BY DEF Reverse
<1>4. Reverse(s) = [i \in 1 .. Len(s) |-> s[(Len(s) - i) + 1]]
  BY DEF Reverse
<1>5. /\ Reverse(t) \in Seq(S) /\ Reverse(s) \in Seq(S)
      /\ Len(Reverse(t)) = Len(t) /\ Len(Reverse(s)) = Len(s)
  <2> HIDE DEF t
  <2>1. \A i \in 1 .. Len(t) : t[(Len(t) - i) + 1] \in S
    BY <1>1
  <2>2. \A i \in 1 .. Len(s) : s[(Len(s) - i) + 1] \in S
    OBVIOUS
  <2> QED
    BY <1>1, <1>3, <1>4, <2>1, <2>2
<1>6. \A i \in 1 .. Len(t) : Reverse(t)[i] = Reverse(s)[i]
  <2> HIDE DEF t
  <2> TAKE i \in 1 .. Len(t)
  <2>1. (Len(t) - i) + 1 \in 1 .. Len(t)
    BY <1>1
  <2>2. Reverse(t)[i] = s[q + ((Len(t) - i) + 1) - 1]
    BY <1>2, <1>3, <2>1
  <2>3. i \in 1 .. Len(s) /\ q + ((Len(t) - i) + 1) - 1 = (Len(s) - i) + 1
    BY <1>1
  <2> QED
    BY <1>4, <2>2, <2>3
<1>7. SubSeq(Reverse(t), 1, Len(t)) = SubSeq(Reverse(s), 1, Len(t))
  <2> HIDE DEF t
  <2> QED
    BY <1>1, <1>5, <1>6
<1> QED
  <2> HIDE DEF t
  <2>1. IsSuffix(t, s)
    BY <1>1, <1>5, <1>7 DEF IsSuffix, IsPrefix
  <2> QED
    BY <2>1 DEF t

(* IsSuffix of a longer sequence. *)
LEMMA SuffixOfLonger ==
  ASSUME NEW S, NEW a \in S, NEW s \in Seq(S), NEW q \in 1 .. Len(s)
  PROVE  IsSuffix(<<s[q]>> \o SubSeq(s, q + 1, Len(s)), <<a>> \o s)
<1> DEFINE t == <<a>> \o s
<1>1. t \in Seq(S) /\ Len(t) = Len(s) + 1 /\ t[q + 1] = s[q]
  OBVIOUS
<1>2. SubSeq(t, q + 2, Len(t)) = SubSeq(s, q + 1, Len(s))
  <2>1. SubSeq(t, q + 2, Len(t)) \in Seq(S) /\ SubSeq(s, q + 1, Len(s)) \in Seq(S)
    OBVIOUS
  <2> QED
    BY <2>1
<1>3. IsSuffix(<<t[q + 1]>> \o SubSeq(t, (q + 1) + 1, Len(t)), t)
  <2> HIDE DEF t
  <2>1. q + 1 \in 1 .. Len(t)
    BY <1>1
  <2> QED
    BY <1>1, <2>1, SuffixAt
<1>4. (q + 1) + 1 = q + 2
  OBVIOUS
<1> QED
  BY <1>1, <1>2, <1>3, <1>4
-----------------------------------------------------------------------------
(* The parts of a response. *)
LEMMA Literals ==
  /\ Junk \in Strings /\ "home.html" \in Strings
  /\ {"200", "403", "404", "501", "Server", "text/html", "image/gif", "text/plain", "error page",
      "Connection", "log"} \subseteq Strings
BY DEF Strings, Junk

LEMMA SeqOfStrings ==
  /\ \A s \in Seq(STRING) : s \in Seq(Strings)
  /\ \A s \in Seq(Seq(STRING)) : s \in Seq(Seq(Strings))
<1>1. STRING \subseteq Strings
  BY DEF Strings
<1>2. Seq(STRING) \subseteq Seq(Strings)
  BY <1>1, SeqMonotonic
<1> QED
  BY <1>2, SeqMonotonic

LEMMA UnitTypes ==
  /\ \A s \in Strings : Header(s) \in Unit
  /\ \A n \in Nat : Length(n) \in Unit
  /\ \A n \in Nat, of \in Seq(Strings) : Page(n, of) \in Unit
<1>1. <<>> \in Seq(Strings)
  OBVIOUS
<1>2. "Content-length" \in Strings /\ "page" \in Strings
  BY DEF Strings
<1> QED
  BY <1>1, <1>2 DEF Header, Length, Page, Unit

LEMMA PagesType ==
  ASSUME NEW n \in Nat, NEW of \in Seq(Strings)
  PROVE  /\ PagesOf(n, of) \in Seq(Unit) /\ Len(PagesOf(n, of)) = n
      /\ \A k \in 1 .. n : PagesOf(n, of)[k] = Page(k, of)
<1>1. \A k \in 1 .. n : Page(k, of) \in Unit
  BY UnitTypes
<1> QED
  BY <1>1 DEF PagesOf

LEMMA ErrorType ==
  ASSUME NEW errnum \in Errors
  PROVE  /\ clienterror(errnum) \in Seq(Unit)
      /\ \A k \in DOMAIN clienterror(errnum) :
               clienterror(errnum)[k].what \notin {"page", "Content-length"}
<1> DEFINE first == <<Header(errnum), Header("text/html")>>
           second == [k \in 1 .. 5 |-> Header("error page")]
<1>1. errnum \in Strings /\ errnum \notin {"page", "Content-length"}
  BY Literals DEF Errors
<1>2. Header(errnum) \in Unit /\ Header("text/html") \in Unit /\ Header("error page") \in Unit
  BY <1>1, UnitTypes, Literals
<1>3. first \in Seq(Unit) /\ Len(first) = 2
  BY <1>2, TupleTypes
<1>4. second \in Seq(Unit) /\ Len(second) = 5
  <2> DEFINE x == Header("error page")
  <2>1. x \in Unit /\ second = [k \in 1 .. 5 |-> x]
    BY <1>2
  <2> HIDE DEF x, second
  <2>2. [k \in 1 .. 5 |-> x] \in Seq(Unit) /\ Len([k \in 1 .. 5 |-> x]) = 5
    BY <2>1
  <2> QED
    BY <2>1, <2>2
<1>5. clienterror(errnum) = first \o second
  BY DEF clienterror
<1>6. ASSUME NEW k \in 1 .. 2 PROVE first[k].what \notin {"page", "Content-length"}
  BY <1>1 DEF Header
<1>7. ASSUME NEW k \in 1 .. 5 PROVE second[k].what \notin {"page", "Content-length"}
  BY DEF Header
<1> HIDE DEF first, second
<1>c. Concat(Unit, first, second)
  BY <1>3, <1>4, ConcatAt
<1>8. ASSUME NEW k \in DOMAIN (first \o second)
      PROVE  (first \o second)[k].what \notin {"page", "Content-length"}
  <2>1. k \in 1 .. 7
    BY <1>3, <1>4, <1>c DEF Concat
  <2>2. CASE k \in 1 .. 2
    BY <2>2, <1>3, <1>4, <1>6, <1>c DEF Concat
  <2>3. CASE k \in 3 .. 7
    <3>1. (first \o second)[k] = second[k - 2] /\ k - 2 \in 1 .. 5
      BY <2>3, <1>3, <1>4, <1>c DEF Concat
    <3> QED
      BY <3>1, <1>7
  <2> QED
    BY <2>1, <2>2, <2>3
<1> QED
  BY <1>3, <1>4, <1>5, <1>8

LEMMA FiletypeIs ==
  ASSUME NEW f
  PROVE  get_filetype(f) \in {"text/html", "image/gif", "text/plain"}
BY DEF get_filetype

LEMMA StaticHeaderIs ==
  ASSUME NEW f, NEW n \in Nat
  PROVE  /\ StaticHeader(f, n) \in Seq(Unit) /\ Len(StaticHeader(f, n)) = 4
         /\ StaticHeader(f, n)[1] = Header("200") /\ StaticHeader(f, n)[2] = Header("Server")
         /\ StaticHeader(f, n)[3] = Length(n)
         /\ StaticHeader(f, n)[4] = Header(get_filetype(f))
<1>1. get_filetype(f) \in Strings
  BY FiletypeIs, Literals
<1> QED
  <2> DEFINE x1 == Header("200")
             x2 == Header("Server")
             x3 == Length(n)
             x4 == Header(get_filetype(f))
  <2>1. x1 \in Unit /\ x2 \in Unit /\ x3 \in Unit /\ x4 \in Unit
    BY <1>1, UnitTypes, Literals
  <2>2. StaticHeader(f, n) = <<x1, x2, x3, x4>>
    BY DEF StaticHeader
  <2> HIDE DEF x1, x2, x3, x4
  <2>3. /\ <<x1, x2, x3, x4>> \in Seq(Unit) /\ Len(<<x1, x2, x3, x4>>) = 4
        /\ <<x1, x2, x3, x4>>[1] = x1 /\ <<x1, x2, x3, x4>>[2] = x2
        /\ <<x1, x2, x3, x4>>[3] = x3 /\ <<x1, x2, x3, x4>>[4] = x4
    BY <2>1, TupleTypes
  <2> QED
    BY <2>2, <2>3 DEF x1, x2, x3, x4

LEMMA LogType == <<Header("log")>> \in Seq(Unit) /\ Len(<<Header("log")>>) = 1
<1> DEFINE x == Header("log")
<1>1. x \in Unit
  BY UnitTypes, Literals
<1> HIDE DEF x
<1>2. <<x>> \in Seq(Unit) /\ Len(<<x>>) = 1
  BY <1>1
<1> QED
  BY <1>2 DEF x

StaticShape(got, f, n) ==
    /\ got \in Seq(Unit) /\ Len(got) = 4 + n
    /\ \A k \in 1 .. 4 : got[k] = StaticHeader(f, n)[k]
    /\ \A k \in 5 .. 4 + n : got[k] = Page(k - 4, f)

LEMMA StaticReplyIs ==
  ASSUME NEW f \in Seq(Strings), NEW n \in Nat
  PROVE  StaticShape(StaticReply(f, n), f, n)
<1> DEFINE h == StaticHeader(f, n)
           p == PagesOf(n, f)
<1>1. h \in Seq(Unit) /\ Len(h) = 4 /\ p \in Seq(Unit) /\ Len(p) = n
  BY StaticHeaderIs, PagesType
<1>2. \A k \in 1 .. n : p[k] = Page(k, f)
  BY PagesType
<1>3. StaticReply(f, n) = h \o p
  BY DEF StaticReply
<1> HIDE DEF h, p
<1>c. Concat(Unit, h, p)
  BY <1>1, ConcatAt
<1>4. ASSUME NEW k \in 5 .. 4 + n PROVE (h \o p)[k] = Page(k - 4, f)
  <2>1. k - 4 \in 1 .. n /\ (h \o p)[k] = p[k - 4]
    BY <1>1, <1>c DEF Concat
  <2> QED
    BY <2>1, <1>2
<1>5. h \o p \in Seq(Unit) /\ Len(h \o p) = 4 + n /\ \A k \in 1 .. 4 : (h \o p)[k] = h[k]
  BY <1>1, <1>c DEF Concat
<1> QED
  BY <1>3, <1>4, <1>5 DEF h, p, StaticShape

LEMMA DynamicHeaderIs ==
  /\ DynamicHeader \in Seq(Unit) /\ Len(DynamicHeader) = 2
  /\ DynamicHeader[1] = Header("200") /\ DynamicHeader[2] = Header("Server")
<1> DEFINE x1 == Header("200")
           x2 == Header("Server")
<1>1. x1 \in Unit /\ x2 \in Unit
  BY UnitTypes, Literals
<1>2. DynamicHeader = <<x1, x2>>
  BY DEF DynamicHeader
<1> HIDE DEF x1, x2
<1>3. /\ <<x1, x2>> \in Seq(Unit) /\ Len(<<x1, x2>>) = 2
      /\ <<x1, x2>>[1] = x1 /\ <<x1, x2>>[2] = x2
  BY <1>1, TupleTypes
<1> QED
  BY <1>2, <1>3 DEF x1, x2

OutputShape(got, args, parts) ==
    /\ got \in Seq(Unit) /\ Len(got) = 5 + parts
    /\ \A k \in 1 .. 2 : got[k] = DynamicHeader[k]
    /\ got[3] = Header("Connection") /\ got[4] = Length(parts) /\ got[5] = Header("text/html")
    /\ \A k \in 6 .. 5 + parts : got[k] = Page(k - 5, args)

LEMMA OutputIs ==
  ASSUME NEW args \in Seq(Strings), NEW parts \in Nat
  PROVE  /\ OutputShape(DynamicHeader \o Output(args, parts), args, parts)
         /\ Output(args, parts) \in Seq(Unit)
<1> DEFINE d == DynamicHeader
           h == <<Header("Connection"), Length(parts), Header("text/html")>>
           p == PagesOf(parts, args)
<1>1. d \in Seq(Unit) /\ Len(d) = 2
  BY DynamicHeaderIs
<1>2. /\ h \in Seq(Unit) /\ Len(h) = 3
      /\ h[1] = Header("Connection") /\ h[2] = Length(parts) /\ h[3] = Header("text/html")
  <2> DEFINE x1 == Header("Connection")
             x2 == Length(parts)
             x3 == Header("text/html")
  <2>1. x1 \in Unit /\ x2 \in Unit /\ x3 \in Unit
    BY UnitTypes, Literals
  <2> HIDE DEF x1, x2, x3
  <2>2. /\ <<x1, x2, x3>> \in Seq(Unit) /\ Len(<<x1, x2, x3>>) = 3
        /\ <<x1, x2, x3>>[1] = x1 /\ <<x1, x2, x3>>[2] = x2 /\ <<x1, x2, x3>>[3] = x3
    BY <2>1, TupleTypes
  <2> QED
    BY <2>2 DEF x1, x2, x3
<1>3. p \in Seq(Unit) /\ Len(p) = parts /\ \A k \in 1 .. parts : p[k] = Page(k, args)
  BY PagesType
<1>4. Output(args, parts) = h \o p
  BY DEF Output, PagesOf
<1> HIDE DEF d, h, p
<1>c. Concat(Unit, h, p)
  BY <1>2, <1>3, ConcatAt
<1>5. /\ h \o p \in Seq(Unit) /\ Len(h \o p) = 3 + parts
      /\ \A k \in 1 .. 3 : (h \o p)[k] = h[k]
      /\ \A k \in 1 .. parts : (h \o p)[3 + k] = p[k]
  BY <1>2, <1>3, <1>c DEF Concat
<1>6. /\ d \o (h \o p) \in Seq(Unit) /\ Len(d \o (h \o p)) = 2 + Len(h \o p)
      /\ \A k \in 1 .. 2 : (d \o (h \o p))[k] = d[k]
      /\ \A k \in 1 .. Len(h \o p) : (d \o (h \o p))[2 + k] = (h \o p)[k]
  <2> DEFINE q == h \o p
  <2>1. q \in Seq(Unit)
    BY <1>5
  <2> HIDE DEF q
  <2>2. Concat(Unit, d, q)
    BY <1>1, <2>1, ConcatAt
  <2>3. /\ d \o q \in Seq(Unit) /\ Len(d \o q) = 2 + Len(q)
        /\ \A k \in 1 .. 2 : (d \o q)[k] = d[k]
        /\ \A k \in 1 .. Len(q) : (d \o q)[2 + k] = q[k]
    BY <1>1, <2>2 DEF Concat
  <2> QED
    BY <2>3 DEF q
<1>7. /\ (d \o (h \o p))[3] = h[1] /\ (d \o (h \o p))[4] = h[2] /\ (d \o (h \o p))[5] = h[3]
  <2>1. 1 \in 1 .. Len(h \o p) /\ 2 \in 1 .. Len(h \o p) /\ 3 \in 1 .. Len(h \o p)
    BY <1>5
  <2>2. /\ (d \o (h \o p))[2 + 1] = h[1] /\ (d \o (h \o p))[2 + 2] = h[2]
        /\ (d \o (h \o p))[2 + 3] = h[3]
    <3>1. 1 \in 1 .. 3 /\ 2 \in 1 .. 3 /\ 3 \in 1 .. 3
      OBVIOUS
    <3> QED
      BY <2>1, <3>1, <1>5, <1>6
  <2>3. 2 + 1 = 3 /\ 2 + 2 = 4 /\ 2 + 3 = 5
    OBVIOUS
  <2> QED
    BY <2>2, <2>3
<1>8. ASSUME NEW k \in 6 .. 5 + parts PROVE (d \o (h \o p))[k] = Page(k - 5, args)
  <2>1. k - 2 \in 1 .. Len(h \o p) /\ k - 5 \in 1 .. parts /\ 2 + (k - 2) = k /\ 3 + (k - 5) = k - 2
    BY <1>5
  <2>2. (d \o (h \o p))[2 + (k - 2)] = (h \o p)[k - 2]
    BY <2>1, <1>6
  <2>3. (h \o p)[3 + (k - 5)] = p[k - 5]
    BY <2>1, <1>5
  <2> QED
    BY <2>1, <2>2, <2>3, <1>3
<1>9. Len(d \o (h \o p)) = 5 + parts
  BY <1>5, <1>6
<1> QED
  BY <1>2, <1>4, <1>5, <1>6, <1>7, <1>8, <1>9 DEF d, OutputShape
-----------------------------------------------------------------------------
(* What begins a response, and where a sequence is the prefix of another. *)
LEMMA PrefixParts ==
  ASSUME NEW S, NEW s \in Seq(S), NEW t \in Seq(S), IsPrefix(s, t)
  PROVE  Len(s) <= Len(t) /\ \A k \in 1 .. Len(s) : s[k] = t[k]
<1>1. Len(s) <= Len(t) /\ SubSeq(s, 1, Len(s)) = SubSeq(t, 1, Len(s))
  BY DEF IsPrefix
<1>2. \A k \in 1 .. Len(s) : SubSeq(s, 1, Len(s))[k] = s[k] /\ SubSeq(t, 1, Len(s))[k] = t[k]
  BY <1>1
<1> QED
  BY <1>1, <1>2

LEMMA PrefixByParts ==
  ASSUME NEW S, NEW s \in Seq(S), NEW t \in Seq(S),
         Len(s) <= Len(t), \A k \in 1 .. Len(s) : s[k] = t[k]
  PROVE  IsPrefix(s, t)
<1>1. SubSeq(s, 1, Len(s)) = SubSeq(t, 1, Len(s))
  OBVIOUS
<1> QED
  BY <1>1 DEF IsPrefix

(* The responses that WellFormed allows are those that have begun so. *)
WellFormedOf(late, got) ==
    \/ \E errnum \in {"403", "404", "501"} : IsPrefix(got, clienterror(errnum))
    \/ /\ Len(got) >= 3 /\ got[3].what = "Content-length"
       /\ \E f \in DOMAIN Files : IsPrefix(got, StaticReply(f, got[3].n))
    \/ IsPrefix(got, DynamicHeader)
    \/ got = DynamicHeader \o <<Header("log")>> /\ late
    \/ Len(got) > 5 /\ got = DynamicHeader \o Output(got[6].of, Len(got) - 5)

LEMMA DynamicIsWellFormed ==
  ASSUME NEW words, NEW late \in BOOLEAN, NEW got \in Seq(Unit), DynamicReply(words, late, got)
  PROVE  WellFormedOf(late, got)
<1>1. CASE got = DynamicHeader
  BY <1>1, PrefixOfItself DEF WellFormedOf
<1>2. CASE got = DynamicHeader \o <<Header("log")>> /\ late
  BY <1>2 DEF WellFormedOf
<1>3. ASSUME NEW parts \in Nat \ {0}, NEW args \in Seq(Strings),
             got = DynamicHeader \o Output(args, parts)
      PROVE  WellFormedOf(late, got)
  <2>1. /\ Len(got) = 5 + parts
        /\ \A k \in 6 .. 5 + parts : got[k] = Page(k - 5, args)
    BY <1>3, OutputIs DEF OutputShape
  <2>2. Len(got) > 5 /\ Len(got) - 5 = parts /\ 6 \in 6 .. 5 + parts
    BY <2>1
  <2>3. got[6] = Page(6 - 5, args)
    BY <2>1, <2>2
  <2>4. got[6].of = args
    BY <2>3 DEF Page
  <2> QED
    BY <1>3, <2>2, <2>4 DEF WellFormedOf
<1> QED
  BY <1>1, <1>2, <1>3 DEF DynamicReply

LEMMA StaticIsWellFormed ==
  ASSUME NEW late \in BOOLEAN, NEW got \in Seq(Unit),
         NEW f \in DOMAIN Files \cap Seq(Strings), NEW n \in Nat,
         IsPrefix(got, StaticReply(f, n))
  PROVE  WellFormedOf(late, got)
<1>1. /\ StaticReply(f, n) \in Seq(Unit) /\ Len(StaticReply(f, n)) = 4 + n
      /\ \A k \in 1 .. 4 : StaticReply(f, n)[k] = StaticHeader(f, n)[k]
  BY StaticReplyIs DEF StaticShape
<1>2. Len(got) <= 4 + n /\ \A k \in 1 .. Len(got) : got[k] = StaticReply(f, n)[k]
  BY <1>1, PrefixParts
<1>3. CASE Len(got) >= 3
  <2>1. got[3] = Length(n)
    BY <1>1, <1>2, <1>3, StaticHeaderIs
  <2>2. got[3].what = "Content-length" /\ got[3].n = n
    BY <2>1 DEF Length
  <2> QED
    BY <1>3, <2>2 DEF WellFormedOf
<1>4. CASE Len(got) < 3
  <2>1. \A k \in 1 .. Len(got) : got[k] = DynamicHeader[k]
    <3> TAKE k \in 1 .. Len(got)
    <3>1. k = 1 \/ k = 2
      BY <1>4
    <3> QED
      BY <3>1, <1>1, <1>2, StaticHeaderIs, DynamicHeaderIs
  <2>2. IsPrefix(got, DynamicHeader)
    BY <1>4, <2>1, DynamicHeaderIs, PrefixByParts
  <2> QED
    BY <2>2 DEF WellFormedOf
<1> QED
  BY <1>3, <1>4

LEMMA BegunIsWellFormed ==
  ASSUME NEW words, NEW late \in BOOLEAN, NEW got \in Seq(Unit), Begun(words, late, got)
  PROVE  WellFormedOf(late, got)
BY StaticIsWellFormed, DynamicIsWellFormed DEF Begun, WellFormedOf, Errors

(* The pages of a response are those of one file, or of one sum. *)
LEMMA BegunIsOwn ==
  ASSUME NEW words, NEW late \in BOOLEAN, NEW got \in Seq(Unit), Begun(words, late, got),
         NEW k \in DOMAIN got, got[k].what = "page"
  PROVE  Own(words, got[k].of)
<1>1. k \in 1 .. Len(got)
  OBVIOUS
<1>2. ASSUME NEW errnum \in Errors, IsPrefix(got, clienterror(errnum)) PROVE FALSE
  <2>1. clienterror(errnum) \in Seq(Unit)
    BY ErrorType
  <2>2. got[k] = clienterror(errnum)[k] /\ k \in DOMAIN clienterror(errnum)
    BY <1>1, <1>2, <2>1, PrefixParts
  <2> QED
    BY <2>2, ErrorType
<1>3. ASSUME NEW f \in DOMAIN Files \cap Seq(Strings), NEW n \in Nat,
             IsPrefix(got, StaticReply(f, n)), Own(words, f)
      PROVE  Own(words, got[k].of)
  <2>1. /\ StaticReply(f, n) \in Seq(Unit) /\ Len(StaticReply(f, n)) = 4 + n
        /\ \A i \in 1 .. 4 : StaticReply(f, n)[i] = StaticHeader(f, n)[i]
        /\ \A i \in 5 .. 4 + n : StaticReply(f, n)[i] = Page(i - 4, f)
    BY StaticReplyIs DEF StaticShape
  <2>2. Len(got) <= 4 + n /\ got[k] = StaticReply(f, n)[k]
    BY <1>1, <1>3, <2>1, PrefixParts
  <2>3. k \notin 1 .. 4
    <3>1. get_filetype(f) # "page"
      BY FiletypeIs
    <3>2. ASSUME k \in 1 .. 4
          PROVE  got[k] \in {Header("200"), Header("Server"), Length(n), Header(get_filetype(f))}
      <4>1. got[k] = StaticHeader(f, n)[k]
        BY <2>1, <2>2, <3>2
      <4> QED
        BY <4>1, <3>2, StaticHeaderIs
    <3>3. k \in 1 .. 4 => got[k].what # "page"
      BY <3>1, <3>2 DEF Header, Length
    <3> QED
      BY <3>3
  <2>4. got[k] = Page(k - 4, f)
    BY <1>1, <2>1, <2>2, <2>3
  <2> QED
    BY <1>3, <2>4 DEF Page
<1>4. ASSUME IsPrefix(got, DynamicHeader) PROVE FALSE
  <2>1. got[k] = DynamicHeader[k] /\ (k = 1 \/ k = 2)
    BY <1>1, <1>4, DynamicHeaderIs, PrefixParts
  <2> QED
    BY <2>1, DynamicHeaderIs DEF Header
<1>5. ASSUME got = DynamicHeader \o <<Header("log")>> PROVE FALSE
  <2>1. <<Header("log")>> \in Seq(Unit) /\ Len(<<Header("log")>>) = 1
    BY LogType
  <2>2. Concat(Unit, DynamicHeader, <<Header("log")>>)
    BY <2>1, DynamicHeaderIs, ConcatAt
  <2>3. /\ Len(got) = 3 /\ (k \in 1 .. 2 => got[k] = DynamicHeader[k])
        /\ k = 3 => got[k] = Header("log")
    BY <1>5, <2>1, <2>2, DynamicHeaderIs DEF Concat
  <2>4. got[k] \in {Header("200"), Header("Server"), Header("log")}
    BY <1>1, <2>3, DynamicHeaderIs
  <2> QED
    BY <2>4 DEF Header
<1>6. ASSUME NEW parts \in Nat \ {0}, NEW args \in Seq(Strings),
             got = DynamicHeader \o Output(args, parts), Own(words, args)
      PROVE  Own(words, got[k].of)
  <2>1. /\ Len(got) = 5 + parts
        /\ \A i \in 1 .. 2 : got[i] = DynamicHeader[i]
        /\ got[3] = Header("Connection") /\ got[4] = Length(parts)
        /\ got[5] = Header("text/html")
        /\ \A i \in 6 .. 5 + parts : got[i] = Page(i - 5, args)
    BY <1>6, OutputIs DEF OutputShape
  <2>2. k \in 1 .. 5 => got[k] \in {Header("200"), Header("Server"), Header("Connection"),
                                    Length(parts), Header("text/html")}
    BY <2>1, DynamicHeaderIs
  <2>3. k \notin 1 .. 5
    BY <2>2 DEF Header, Length
  <2>4. got[k] = Page(k - 5, args)
    BY <1>1, <2>1, <2>3
  <2> QED
    BY <1>6, <2>4 DEF Page
<1>7. ASSUME DynamicReply(words, late, got) PROVE Own(words, got[k].of)
  <2>1. got # DynamicHeader
    BY <1>4, DynamicHeaderIs, PrefixOfItself
  <2> QED
    BY <2>1, <1>5, <1>6, <1>7 DEF DynamicReply
<1> QED
  BY <1>2, <1>3, <1>4, <1>7 DEF Begun
-----------------------------------------------------------------------------
(* A whole response has as many pages as it says. *)
PagesIn(got) == {i \in DOMAIN got : got[i].what = "page"}
SaysLength(got) ==
    \A k \in DOMAIN got : got[k].what = "Content-length" => Cardinality(PagesIn(got)) = got[k].n

LEMMA PagesAtEnd ==
  ASSUME NEW got \in Seq(Unit), NEW h \in Nat, NEW n \in Nat, NEW l \in 1 .. h,
         Len(got) = h + n, got[l] = Length(n),
         \A k \in (1 .. h) \ {l} : got[k].what \notin {"page", "Content-length"},
         \A k \in h + 1 .. h + n : got[k].what = "page"
  PROVE  SaysLength(got)
<1>1. DOMAIN got = 1 .. h + n
  OBVIOUS
<1>2. got[l].what = "Content-length" /\ got[l].n = n
  BY DEF Length
<1>3. PagesIn(got) = h + 1 .. h + n
  <2>1. ASSUME NEW i \in 1 .. h + n PROVE got[i].what = "page" <=> i \in h + 1 .. h + n
    <3>1. CASE i = l
      BY <3>1, <1>2
    <3>2. CASE i # l /\ i \in 1 .. h
      BY <3>2
    <3>3. CASE i \in h + 1 .. h + n
      BY <3>3
    <3> QED
      BY <3>1, <3>2, <3>3
  <2>2. h + 1 .. h + n \subseteq 1 .. h + n
    OBVIOUS
  <2> QED
    BY <1>1, <2>1, <2>2 DEF PagesIn
<1>4. Cardinality(PagesIn(got)) = n
  <2>1. Cardinality(h + 1 .. h + n) = IF h + 1 > h + n THEN 0 ELSE h + n - (h + 1) + 1
    BY FS_Interval
  <2> QED
    BY <1>3, <2>1
<1>5. ASSUME NEW k \in 1 .. h + n, got[k].what = "Content-length" PROVE k = l
  <2>1. k \in h + 1 .. h + n => got[k].what = "page"
    OBVIOUS
  <2> QED
    BY <1>5, <2>1
<1> QED
  BY <1>1, <1>2, <1>4, <1>5 DEF SaysLength

LEMMA WholeSaysLength ==
  ASSUME NEW words, NEW late \in BOOLEAN, NEW got \in Seq(Unit), Whole(words, late, got)
  PROVE  SaysLength(got)
<1>1. ASSUME NEW errnum \in Errors, got = clienterror(errnum) PROVE SaysLength(got)
  BY <1>1, ErrorType DEF SaysLength
<1>2. ASSUME NEW f \in DOMAIN Files \cap Seq(Strings), NEW n \in Nat, got = StaticReply(f, n)
      PROVE  SaysLength(got)
  <2>1. /\ Len(got) = 4 + n
        /\ \A k \in 1 .. 4 : got[k] = StaticHeader(f, n)[k]
        /\ \A k \in 5 .. 4 + n : got[k] = Page(k - 4, f)
    BY <1>2, StaticReplyIs DEF StaticShape
  <2>2. ASSUME NEW k \in 4 + 1 .. 4 + n PROVE got[k].what = "page"
    <3>1. k \in 5 .. 4 + n
      OBVIOUS
    <3>2. got[k] = Page(k - 4, f)
      BY <2>1, <3>1
    <3> QED
      BY <3>2 DEF Page
  <2>3. got[3] = Length(n)
    BY <2>1, StaticHeaderIs
  <2>4. ASSUME NEW k \in (1 .. 4) \ {3} PROVE got[k].what \notin {"page", "Content-length"}
    <3>1. got[k] \in {Header("200"), Header("Server"), Header(get_filetype(f))}
      BY <2>1, StaticHeaderIs
    <3> QED
      BY <3>1, FiletypeIs DEF Header
  <2>5. 4 \in Nat /\ 3 \in 1 .. 4 /\ Len(got) = 4 + n
    BY <2>1
  <2> QED
    BY <2>2, <2>3, <2>4, <2>5, PagesAtEnd
<1>3. ASSUME got = DynamicHeader PROVE SaysLength(got)
  <2>1. \A k \in DOMAIN got : got[k] \in {Header("200"), Header("Server")}
    BY <1>3, DynamicHeaderIs
  <2> QED
    BY <2>1 DEF SaysLength, Header
<1>4. ASSUME got = DynamicHeader \o <<Header("log")>> PROVE SaysLength(got)
  <2>1. Concat(Unit, DynamicHeader, <<Header("log")>>)
    BY LogType, DynamicHeaderIs, ConcatAt
  <2>2. /\ Len(got) = 3 /\ got[1] = Header("200") /\ got[2] = Header("Server")
        /\ got[3] = Header("log")
    BY <1>4, <2>1, LogType, DynamicHeaderIs DEF Concat
  <2>3. \A k \in DOMAIN got : got[k] \in {Header("200"), Header("Server"), Header("log")}
    BY <2>2
  <2> QED
    BY <2>3 DEF SaysLength, Header
<1>5. ASSUME NEW parts \in Nat \ {0}, NEW args \in Seq(Strings),
             got = DynamicHeader \o Output(args, parts)
      PROVE  SaysLength(got)
  <2>1. OutputShape(got, args, parts)
    BY <1>5, OutputIs
  <2>2. ASSUME NEW k \in 5 + 1 .. 5 + parts PROVE got[k].what = "page"
    <3>1. k \in 6 .. 5 + parts
      OBVIOUS
    <3>2. got[k] = Page(k - 5, args)
      BY <2>1, <3>1 DEF OutputShape
    <3> QED
      BY <3>2 DEF Page
  <2>3. ASSUME NEW k \in (1 .. 5) \ {4} PROVE got[k].what \notin {"page", "Content-length"}
    <3>1. got[k] \in {Header("200"), Header("Server"), Header("Connection"), Header("text/html")}
      BY <2>1, DynamicHeaderIs DEF OutputShape
    <3> QED
      BY <3>1 DEF Header
  <2>4. Len(got) = 5 + parts /\ got[4] = Length(parts)
    BY <2>1 DEF OutputShape
  <2>5. 5 \in Nat /\ 4 \in 1 .. 5 /\ parts \in Nat
    OBVIOUS
  <2> QED
    BY <2>2, <2>3, <2>4, <2>5, PagesAtEnd
<1> QED
  BY <1>1, <1>2, <1>3, <1>4, <1>5 DEF Whole, DynamicReply

LEMMA LateIsBoolean == Late \in BOOLEAN
BY DEF Late

(* The three properties follow from the invariant. *)
LEMMA AnswerImplies ==
  ASSUME IInv, AnswerInv
  PROVE  (ProgramsRun => WellFormed) /\ LengthKept /\ OwnAnswer
<1>1. ProgramsRun => WellFormed
  <2> HAVE ProgramsRun
  <2> SUFFICES ASSUME NEW c \in Clients
               PROVE  WellFormedOf(Late, client[c].got)
    BY DEF WellFormed, WellFormedOf, StaticReply, PagesOf, Late
  <2> QED
    BY LateIsBoolean, BegunIsWellFormed DEF AnswerInv, MailInv, GotInv
<1>2. LengthKept
  <2> SUFFICES ASSUME NEW c \in Clients, Delivered(c)
               PROVE  SaysLength(client[c].got)
    BY DEF LengthKept, SaysLength, PagesIn
  <2>1. client[c].state = "sent" /\ c \notin fds /\ pc # "exited" /\ ~Contains(backlog, c)
    BY DEF Delivered, Ended
  <2>2. ~(c = conn /\ pc \in Serving)
    BY <2>1 DEF IInv, ServerInv, Serving
  <2>3. ~Waiting(c) /\ ~Served(c)
    BY <2>1, <2>2 DEF Waiting, Served, InBacklog, Contains, Serving
  <2>4. Whole(Words(c), Late, client[c].got) /\ client[c].got \in Seq(Unit)
    BY <2>1, <2>3 DEF AnswerInv, GotInv, MailInv
  <2> QED
    BY LateIsBoolean, <2>4, WholeSaysLength
<1>3. OwnAnswer
  <2> SUFFICES ASSUME NEW c \in Clients, NEW k \in DOMAIN client[c].got,
                      client[c].got[k].what = "page"
               PROVE  Own(Words(c), client[c].got[k].of)
    BY DEF OwnAnswer, Own, NoURI, Words
  <2> QED
    BY LateIsBoolean, BegunIsOwn DEF AnswerInv, MailInv, GotInv
<1> QED
  BY <1>1, <1>2, <1>3
-----------------------------------------------------------------------------
LEMMA JunkType == <<Junk>> \in Seq(Strings) /\ Junk \in Strings
<1> DEFINE x == Junk
<1>1. x \in Strings
  BY Literals
<1> HIDE DEF x
<1>2. <<x>> \in Seq(Strings)
  BY <1>1
<1> QED
  BY <1>1, <1>2 DEF x

(* At the start nothing has been said. *)
LEMMA NothingBegins ==
  ASSUME NEW words, NEW late
  PROVE  Begun(words, late, <<>>)
<1>1. <<>> \in Seq(Unit) /\ Len(<<>>) = 0 /\ DynamicHeader \in Seq(Unit) /\ Len(DynamicHeader) = 2
  BY DynamicHeaderIs
<1>2. IsPrefix(<<>>, DynamicHeader)
  <2>1. <<>> \o DynamicHeader = DynamicHeader
    BY <1>1
  <2> QED
    BY <1>1, <2>1, PrefixOfConcat
<1> QED
  BY <1>2 DEF Begun

LEMMA InitAnswers == Init => AnswerInv
<1> SUFFICES ASSUME Init PROVE AnswerInv
  OBVIOUS
<1>1. \A c \in Clients : client[c] = Over("idle")
  BY DEF Init
<1>2. backlog = <<>> /\ pc = "start" /\ conn = NoClient /\ NoClient \notin Clients
  BY TinyAssumption DEF Init
<1>3. \A c \in Clients : client[c].got = <<>> /\ client[c].inbox = <<>> /\ client[c].state = "idle"
  BY <1>1 DEF Over
<1>4. <<>> \in Seq(Unit) /\ <<>> \in Seq(Seq(Strings)) /\ <<>> \in Seq(Strings)
  OBVIOUS
<1>5. MailInv
  <2>1. \A i \in 1 .. Len(backlog) : FALSE
    BY <1>2
  <2>2. \A c \in Clients : ~InBacklog(c) /\ c # conn
    BY <1>2, <2>1 DEF InBacklog
  <2> QED
    BY <1>3, <1>4, <2>1, <2>2 DEF MailInv
<1>6. DoitInv
  <2> QED
    BY JunkType, <1>4 DEF Init, DoitInv
<1>7. ServedInv
  BY <1>3 DEF ServedInv
<1>8. GotInv
  BY <1>3, NothingBegins DEF GotInv
<1> QED
  BY <1>5, <1>6, <1>7, <1>8 DEF AnswerInv

(* What may be said early may be said late. *)
LEMMA BegunLater ==
  ASSUME NEW words, NEW late \in BOOLEAN, NEW later \in BOOLEAN, late => later, NEW got
  PROVE  /\ DynamicReply(words, late, got) => DynamicReply(words, later, got)
         /\ Whole(words, late, got) => Whole(words, later, got)
         /\ Begun(words, late, got) => Begun(words, later, got)
<1>1. DynamicReply(words, late, got) => DynamicReply(words, later, got)
  BY DEF DynamicReply
<1> QED
  BY <1>1 DEF Whole, Begun

(* A whole response has begun. *)
LEMMA WholeIsBegun ==
  ASSUME NEW words, NEW late \in BOOLEAN, NEW got \in Seq(Unit), Whole(words, late, got)
  PROVE  Begun(words, late, got)
<1>1. IsPrefix(got, got)
  BY PrefixOfItself
<1> QED
  BY <1>1 DEF Whole, Begun

(* The client that is served was heard, and is not in the backlog. *)
LEMMA ConnIsHeard ==
  ASSUME IInv, AnswerInv, pc \in Serving
  PROVE  /\ conn \in Clients /\ ~InBacklog(conn)
         /\ client[conn].state \notin {"idle", "socket", "connect"}
         /\ client[conn].state = "connected" => pc = "request"
         /\ client[conn].got \in Seq(Unit) /\ client[conn].inbox \in Seq(Seq(Strings))
         /\ client[conn].state # "sent" => client[conn].got = <<>>
<1>1. conn \in Clients /\ pc # "exited"
  BY DEF IInv, ServerInv, Serving
<1>2. ~InBacklog(conn)
  BY <1>1 DEF AnswerInv, MailInv
<1> QED
  BY <1>1, <1>2 DEF AnswerInv, MailInv, Waiting

(* A step of the server or of its child, while a client is served, changes *)
(* at most what that one has received and what is read of its request.     *)
ServeStep ==
    /\ pc \in Serving /\ pc' \in Serving \ {"request"}
    /\ UNCHANGED <<backlog, conn, changes>>
    /\ \A c \in Clients \ {conn} : client'[c] = client[c]
    /\ client'[conn].state = client[conn].state /\ client'[conn].asked = client[conn].asked
    /\ client'[conn].got \in Seq(Unit) /\ client'[conn].inbox \in Seq(Seq(Strings))
    /\ client[conn].state # "sent" => client'[conn].got = <<>>
    /\ client[conn].state = "connected" => pc # "request"

LEMMA ServeStepMail ==
  ASSUME IInv, AnswerInv, ServeStep
  PROVE  MailInv'
<1> USE DEF ServeStep
<1>1. /\ conn \in Clients /\ ~InBacklog(conn)
      /\ client[conn].state \notin {"idle", "socket", "connect", "connected"}
  BY ConnIsHeard
<1>2. \A c : InBacklog(c)' <=> InBacklog(c)
  BY DEF InBacklog
<1>3. pc # "exited" /\ pc' # "request"
  BY DEF Serving
<1>4. ASSUME NEW c \in Clients \ {conn}
      PROVE  Waiting(c)' <=> Waiting(c)
  BY <1>2 DEF Waiting
<1>5. ~Waiting(conn)'
  BY <1>1, <1>2, <1>3 DEF Waiting
<1>6. ASSUME NEW c \in Clients
      PROVE  /\ client'[c].got \in Seq(Unit) /\ client'[c].inbox \in Seq(Seq(Strings))
             /\ client'[c].state # "sent" => client'[c].got = <<>>
             /\ client'[c].state \in {"idle", "socket", "connect", "connected"} =>
                   client'[c].inbox = <<>>
             /\ client'[c].state = "connected" => Waiting(c)' \/ pc' = "exited"
             /\ client'[c].state = "sent" => client'[c].asked \in Requests
             /\ client'[c].state = "sent" /\ Waiting(c)' =>
                   client'[c].got = <<>> /\ client'[c].inbox = client'[c].asked
             /\ client'[c].state \in {"idle", "socket", "connect"} => ~InBacklog(c)' /\ c # conn'
             /\ InBacklog(c)' => c # conn'
  <2>1. CASE c = conn
    BY <2>1, <1>1, <1>2, <1>5 DEF AnswerInv, MailInv
  <2>2. CASE c # conn
    BY <2>2, <1>1, <1>2, <1>3, <1>4 DEF AnswerInv, MailInv
  <2> QED
    BY <2>1, <2>2
<1>7. \A i, j \in 1 .. Len(backlog') : backlog'[i] = backlog'[j] => i = j
  BY DEF AnswerInv, MailInv
<1> QED
  BY <1>6, <1>7 DEF MailInv

LEMMA ServeStepGot ==
  ASSUME IInv, AnswerInv, ServeStep,
         Begun(Words(conn)', Late', client'[conn].got)
  PROVE  GotInv'
<1> USE DEF ServeStep
<1>1. conn \in Clients /\ pc' # "exited" /\ pc # "exited" /\ Late' = Late
  BY ConnIsHeard DEF Serving, Late
<1>2. ASSUME NEW c \in Clients \ {conn}
      PROVE  Words(c)' = Words(c) /\ client'[c].got = client[c].got
  BY DEF Words
<1>3. ASSUME NEW c \in Clients
      PROVE  Begun(Words(c)', Late', client'[c].got)
  <2>1. CASE c = conn
    BY <2>1
  <2>2. CASE c # conn
    BY <2>2, <1>1, <1>2 DEF AnswerInv, GotInv
  <2> QED
    BY <2>1, <2>2
<1>4. ASSUME NEW c \in Clients,
             client'[c].state = "sent", ~Waiting(c)', ~Served(c)', pc' # "exited"
      PROVE  Whole(Words(c)', Late', client'[c].got)
  <2>1. c # conn
    BY <1>4 DEF Served
  <2>2. client[c].state = "sent" /\ ~Waiting(c) /\ ~Served(c)
    BY <1>4, <2>1 DEF Waiting, Served, InBacklog
  <2> QED
    BY <2>1, <2>2, <1>1, <1>2 DEF AnswerInv, GotInv
<1> QED
  BY <1>3, <1>4 DEF GotInv

(* Only the client that is served is to be looked at. *)
LEMMA ServeStepServed ==
  ASSUME IInv, AnswerInv, ServeStep,
         client[conn].state = "sent" => HasWith(conn, client[conn].got \o Rest)'
  PROVE  ServedInv'
<1>1. ASSUME NEW c \in Clients, Served(c)', client'[c].state = "sent"
      PROVE  HasWith(c, client[c].got \o Rest)'
  BY <1>1 DEF Served, ServeStep
<1> QED
  BY <1>1 DEF ServedInv
-----------------------------------------------------------------------------
(* parse_uri: its parts are those of the URI, cut at the first "?". *)
LEMMA ParseIs ==
  ASSUME NEW u \in Seq(Strings), NEW p, p = parse_uri(u)
  PROVE  /\ p.static \in BOOLEAN /\ p.args \in Seq(Strings) /\ p.uri \in Seq(Strings)
         /\ p.name \in Seq(Strings)
         /\ ~Contains(u, "cgi-bin") => p.static /\ IsPrefix(u, p.name)
         /\ Contains(u, "cgi-bin") =>
               /\ ~p.static
               /\ p.args = <<>> \/ \E q \in 1 .. Len(u) :
                     u[q] = "?" /\ p.args = SubSeq(u, q + 1, Len(u))
<1> DEFINE q == SelectInSeq(u, LAMBDA part : part = "?")
           tail == IF Last(u) = "/" THEN <<"home.html">> ELSE <<>>
<1>1. <<>> \in Seq(Strings) /\ tail \in Seq(Strings)
  <2> DEFINE x == "home.html"
  <2>1. x \in Strings
    BY Literals
  <2> HIDE DEF x
  <2>2. <<x>> \in Seq(Strings) /\ <<>> \in Seq(Strings)
    BY <2>1
  <2> QED
    BY <2>2 DEF x
<1>2. q = 0 \/ (q \in 1 .. Len(u) /\ u[q] = "?")
  <2> DEFINE I == {i \in 1 .. Len(u) : u[i] = "?"}
  <2>1. q = IF I # {} THEN Min(I) ELSE 0
    BY DEF SelectInSeq
  <2>2. I # {} => Min(I) \in I
    <3>1. I \subseteq Nat
      OBVIOUS
    <3> QED
      BY <3>1, MinNat
  <2> QED
    BY <2>1, <2>2
<1>3. p = IF ~Contains(u, "cgi-bin")
          THEN [static |-> TRUE, args |-> <<>>, uri |-> u, name |-> u \o tail]
          ELSE IF q = 0 THEN [static |-> FALSE, args |-> <<>>, uri |-> u, name |-> u]
          ELSE [static |-> FALSE, args |-> SubSeq(u, q + 1, Len(u)),
                uri |-> SubSeq(u, 1, q - 1), name |-> SubSeq(u, 1, q - 1)]
  BY DEF parse_uri
<1> HIDE DEF q, tail
<1>4. CASE ~Contains(u, "cgi-bin")
  <2>1. u \o tail \in Seq(Strings) /\ IsPrefix(u, u \o tail)
    BY <1>1, PrefixOfConcat
  <2> QED
    BY <1>1, <1>3, <1>4, <2>1
<1>5. CASE Contains(u, "cgi-bin") /\ q = 0
  BY <1>1, <1>3, <1>5
<1>6. CASE Contains(u, "cgi-bin") /\ q # 0
  <2>1. q \in 1 .. Len(u) /\ u[q] = "?"
    BY <1>2, <1>6
  <2>2. SubSeq(u, q + 1, Len(u)) \in Seq(Strings) /\ SubSeq(u, 1, q - 1) \in Seq(Strings)
    BY <2>1
  <2>3. p = [static |-> FALSE, args |-> SubSeq(u, q + 1, Len(u)),
             uri |-> SubSeq(u, 1, q - 1), name |-> SubSeq(u, 1, q - 1)]
    BY <1>3, <1>6
  <2>4. PICK a, b : a = SubSeq(u, q + 1, Len(u)) /\ b = SubSeq(u, 1, q - 1)
    OBVIOUS
  <2>5. p = [static |-> FALSE, args |-> a, uri |-> b, name |-> b]
    BY <2>3, <2>4
  <2>6. p.static = FALSE /\ p.args = a /\ p.uri = b /\ p.name = b
    BY <2>5
  <2> QED
    BY <1>6, <2>1, <2>2, <2>4, <2>6
<1> QED
  BY <1>4, <1>5, <1>6

LEMMA RequestWords ==
  ASSUME NEW r \in Requests
  PROVE  r \in Seq(Seq(Strings)) /\ r # <<>> /\ r[1] \in Seq(Strings)
<1>1. r \in Seq(Seq(STRING)) /\ r # <<>>
  BY TinyAssumption
<1>2. r \in Seq(Seq(Strings))
  BY <1>1, SeqOfStrings
<1> QED
  BY <1>1, <1>2

(* After read_requesthdrs the locals are those of the request. *)
LEMMA EndHeadersParses ==
  ASSUME NEW words \in Seq(Strings), uri \in Seq(Strings), Asked(words), EndHeaders
  PROVE  Parsed(words)'
<1>0. CASE Len(words) < 2
  BY <1>0 DEF Asked, Parsed, NoURI
<1> SUFFICES ASSUME ~(Len(words) < 2)
             PROVE  IF Contains(words, "cgi-bin")
                    THEN ~is_static' /\ (cgiargs' = <<>> \/ IsSuffix(<<"?">> \o cgiargs', words))
                    ELSE is_static' /\ IsPrefix(Tail(words), filename')
  BY <1>0 DEF Parsed, Asked
<1>1. words[1] = "GET" /\ uri = Tail(words) /\ Len(uri) = Len(words) - 1
  BY DEF Asked
<1>2. \A i \in 1 .. Len(uri) : uri[i] = words[i + 1]
  BY <1>1
<1>3. Contains(words, "cgi-bin") <=> Contains(uri, "cgi-bin")
  <2>1. ASSUME NEW i \in 1 .. Len(words), words[i] = "cgi-bin" PROVE Contains(uri, "cgi-bin")
    <3>1. i # 1
      BY <1>1, <2>1
    <3>2. i - 1 \in 1 .. Len(uri) /\ (i - 1) + 1 = i
      BY <1>1, <3>1
    <3>3. uri[i - 1] = "cgi-bin"
      BY <1>2, <2>1, <3>2
    <3> QED
      BY <3>2, <3>3 DEF Contains
  <2>2. ASSUME NEW i \in 1 .. Len(uri), uri[i] = "cgi-bin" PROVE Contains(words, "cgi-bin")
    <3>1. i + 1 \in 1 .. Len(words) /\ words[i + 1] = "cgi-bin"
      BY <1>1, <1>2, <2>2
    <3> QED
      BY <3>1 DEF Contains
  <2> QED
    BY <2>1, <2>2 DEF Contains
<1>4. PICK p : p = parse_uri(uri)
  OBVIOUS
<1>5. is_static' = p.static /\ cgiargs' = p.args /\ filename' = p.name
  BY <1>4 DEF EndHeaders
<1>6. CASE ~Contains(uri, "cgi-bin")
  BY <1>1, <1>3, <1>4, <1>5, <1>6, ParseIs
<1>7. CASE Contains(uri, "cgi-bin")
  <2>1. ASSUME NEW q \in 1 .. Len(uri), uri[q] = "?", p.args = SubSeq(uri, q + 1, Len(uri))
        PROVE  IsSuffix(<<"?">> \o p.args, words)
    <3>1. words[1] \in Strings /\ words = <<words[1]>> \o uri
      BY <1>1
    <3>2. IsSuffix(<<uri[q]>> \o SubSeq(uri, q + 1, Len(uri)), <<words[1]>> \o uri)
      BY <3>1, SuffixOfLonger
    <3> QED
      BY <2>1, <3>1, <3>2
  <2>2. ~p.static /\ (p.args = <<>> \/ IsSuffix(<<"?">> \o p.args, words))
    BY <1>4, <1>7, <2>1, ParseIs
  <2> QED
    BY <1>3, <1>5, <1>7, <2>2
<1> QED
  BY <1>6, <1>7
-----------------------------------------------------------------------------
(* The steps of the server that serves a client, one by one. *)
LEMMA Serves ==
  ASSUME IInv, AnswerInv, ServeStep, DoitInv',
         Begun(Words(conn)', Late', client'[conn].got),
         client[conn].state = "sent" => HasWith(conn, client[conn].got \o Rest)'
  PROVE  AnswerInv'
BY ServeStepMail, ServeStepGot, ServeStepServed DEF AnswerInv

(* A step that does not touch the clients. *)
LEMMA QuietServes ==
  ASSUME IInv, AnswerInv, pc \in Serving, pc' \in Serving \ {"request"},
         UNCHANGED <<client, backlog, conn, changes>>,
         client[conn].state = "connected" => pc # "request",
         DoitInv',
         client[conn].state = "sent" => HasWith(conn, client[conn].got \o Rest)'
  PROVE  AnswerInv'
<1>1. ServeStep
  BY ConnIsHeard DEF ServeStep
<1>2. Begun(Words(conn)', Late', client'[conn].got)
  <2>1. Words(conn)' = Words(conn) /\ Late' = Late
    BY DEF Words, Late
  <2>2. conn \in Clients
    BY ConnIsHeard
  <2> QED
    BY <2>1, <2>2 DEF AnswerInv, GotInv
<1> QED
  BY <1>1, <1>2, Serves

(* What is known of the client that is served, if it has sent a request. *)
LEMMA ServedHas ==
  ASSUME IInv, AnswerInv, pc \in Serving \ {"request"}, client[conn].state = "sent"
  PROVE  /\ HasWith(conn, client[conn].got \o Rest)
         /\ client[conn].got \in Seq(Unit) /\ client[conn].got \o <<>> = client[conn].got
         /\ Words(conn) \in Seq(Strings)
<1>1. conn \in Clients
  BY ConnIsHeard
<1>2. client[conn].got \in Seq(Unit) /\ client[conn].asked \in Requests
  BY <1>1 DEF AnswerInv, MailInv
<1> QED
  BY <1>1, <1>2, RequestWords DEF AnswerInv, ServedInv, Served, Words

LEMMA NoRequestAnswers == IInv /\ AnswerInv /\ NoRequest => AnswerInv'
<1> SUFFICES ASSUME IInv, AnswerInv, NoRequest PROVE AnswerInv'
  OBVIOUS
<1>1. client[conn].state = "closed" /\ pc = "request" /\ pc' = "close"
  BY DEF NoRequest, AtEOF
<1>2. DoitInv'
  BY <1>1 DEF AnswerInv, DoitInv, NoRequest, doitVars, outside
<1> QED
  BY <1>1, <1>2, QuietServes DEF NoRequest, Serving, outside

LEMMA StatAnswers == IInv /\ AnswerInv /\ Stat => AnswerInv'
<1> SUFFICES ASSUME IInv, AnswerInv, Stat PROVE AnswerInv'
  OBVIOUS
<1> DEFINE f == File(filename)
<1>1. /\ pc = "stat" /\ sbuf' = f.size /\ UNCHANGED <<client, backlog, conn>>
      /\ UNCHANGED <<method, uri, filename, cgiargs, is_static, child, files, changes>>
      /\ f.size \in Nat
  <2>1. f.size \in Nat
    BY DEF File, Missing, IInv, ServerInv
  <2> QED
    BY <2>1 DEF Stat, outside
<1>2. Permission(f) \in {"404", "403", "200"}
  BY DEF Permission
<1>3. \/ /\ Permission(f) \in Errors /\ pc' = "write" /\ out' = clienterror(Permission(f))
         /\ next' = "close"
      \/ /\ Permission(f) = "200" /\ is_static /\ pc' = "write"
         /\ out' = StaticHeader(filename, f.size) /\ next' = "open"
      \/ /\ Permission(f) = "200" /\ ~is_static /\ pc' = "write" /\ out' = DynamicHeader
         /\ next' = "fork"
  BY <1>2 DEF Stat, Write, Errors
<1>4. pc' = "write" /\ out' \in Seq(Unit)
  BY <1>1, <1>3, ErrorType, StaticHeaderIs, DynamicHeaderIs
<1>5. DoitInv'
  BY <1>1, <1>4 DEF AnswerInv, DoitInv
<1>6. ASSUME client[conn].state = "sent"
      PROVE  HasWith(conn, client[conn].got \o Rest)'
  <2>1. client[conn].got \o Rest = <<>> /\ Parsed(Words(conn)) /\ client[conn].got \in Seq(Unit)
    BY <1>1, <1>6, ServedHas DEF HasWith, Goal, Serving
  <2>2. client[conn].got = <<>>
    BY <1>1, <2>1, <1>6, ServedHas DEF Rest, Serving
  <2>3. (client[conn].got \o Rest)' = out'
    BY <1>1, <1>4, <2>2 DEF Rest
  <2>4. Words(conn)' = Words(conn) /\ Parsed(Words(conn))'
    BY <1>1, <2>1 DEF Words, Parsed
  <2>5. Goal' = next' /\ Late' = Late
    BY <1>1, <1>4 DEF Goal, Late
  <2>6. ASSUME Permission(f) = "200"
        PROVE  f.type = "file" /\ (~is_static => f.x) /\ filename \in DOMAIN files
    BY <2>6 DEF Permission, File, Missing
  <2>7. DOMAIN files = DOMAIN Files /\ UNCHANGED files
    BY <1>1 DEF AnswerInv, DoitInv
  <2>8. ASSUME Permission(f) = "200", ~is_static PROVE Runs(filename)'
    BY <1>1, <2>6, <2>8 DEF Runs, File
  <2>9. CASE next' = "close"
    <3>1. \E errnum \in Errors : out' = clienterror(errnum)
      BY <1>3, <2>9
    <3>2. Whole(Words(conn)', Late', out')
      BY <3>1 DEF Whole
    <3> QED
      BY <2>3, <2>5, <2>9, <3>1, <3>2 DEF HasWith
  <2>10. CASE next' = "open"
    BY <1>1, <1>3, <2>3, <2>4, <2>5, <2>6, <2>7, <2>10 DEF HasWith
  <2>11. CASE next' = "fork"
    BY <1>1, <1>3, <2>3, <2>4, <2>5, <2>8, <2>11 DEF HasWith
  <2> QED
    BY <1>3, <2>9, <2>10, <2>11
<1> QED
  BY <1>1, <1>4, <1>5, <1>6, QuietServes DEF Serving

LEMMA OpenAnswers == IInv /\ AnswerInv /\ Open => AnswerInv'
<1> SUFFICES ASSUME IInv, AnswerInv, Open PROVE AnswerInv'
  OBVIOUS
<1>1. /\ pc = "open" /\ pc' = "mmap" /\ UNCHANGED <<client, backlog, conn, child, files, changes>>
      /\ UNCHANGED doitVars
  BY DEF Open, outside
<1>2. DoitInv'
  BY <1>1 DEF AnswerInv, DoitInv, doitVars
<1>3. ASSUME client[conn].state = "sent"
      PROVE  HasWith(conn, client[conn].got \o Rest)'
  <2>1. HasWith(conn, client[conn].got \o Rest) /\ Goal = "open"
    BY <1>1, <1>3, ServedHas DEF Serving, Goal
  <2>2. Rest' = Rest /\ Words(conn)' = Words(conn) /\ Goal' = "mmap"
    BY <1>1 DEF Rest, Words, Goal
  <2> QED
    BY <1>1, <2>1, <2>2 DEF HasWith, Parsed, doitVars
<1> QED
  BY <1>1, <1>2, <1>3, QuietServes DEF Serving

(* Parsed for a static request: the file is the one that was asked for. *)
LEMMA StaticIsOwn ==
  ASSUME NEW words, Parsed(words), is_static
  PROVE  Own(words, filename)
BY DEF Parsed, Own

LEMMA MmapAnswers == IInv /\ AnswerInv /\ Mmap => AnswerInv'
<1> SUFFICES ASSUME IInv, AnswerInv, Mmap PROVE AnswerInv'
  OBVIOUS
<1>1. /\ pc = "mmap" /\ pc' = "write" /\ out' = Body(sbuf) /\ next' = "munmap"
      /\ UNCHANGED <<client, backlog, conn, child, files, changes>> /\ UNCHANGED doitVars
  BY DEF Mmap, outside, Write
<1>2. filename \in Seq(Strings) /\ sbuf \in Nat
  BY DEF AnswerInv, DoitInv, IInv, ServerTyped
<1>3. out' = PagesOf(sbuf, filename) /\ out' \in Seq(Unit)
  BY <1>1, <1>2, PagesType DEF Body, PagesOf
<1>4. DoitInv'
  BY <1>1, <1>3 DEF AnswerInv, DoitInv, doitVars
<1>5. ASSUME client[conn].state = "sent"
      PROVE  HasWith(conn, client[conn].got \o Rest)'
  <2>1. HasWith(conn, client[conn].got \o Rest) /\ Goal = "mmap" /\ Rest = <<>>
    BY <1>1, <1>5, ServedHas DEF Serving, Goal, Rest
  <2>2. client[conn].got = StaticHeader(filename, sbuf)
    BY <2>1, <1>1, <1>5, ServedHas DEF HasWith, Serving
  <2>3. (client[conn].got \o Rest)' = StaticReply(filename, sbuf)
    BY <1>1, <1>3, <2>2 DEF Rest, StaticReply
  <2>4. Own(Words(conn), filename) /\ filename \in DOMAIN Files
    BY <2>1, StaticIsOwn DEF HasWith
  <2>5. Words(conn)' = Words(conn) /\ Goal' = "munmap" /\ UNCHANGED <<filename, sbuf>>
    BY <1>1 DEF Words, Goal, doitVars
  <2> QED
    BY <2>3, <2>4, <2>5 DEF HasWith
<1> QED
  BY <1>1, <1>4, <1>5, QuietServes DEF Serving

LEMMA MunmapAnswers == IInv /\ AnswerInv /\ Munmap => AnswerInv'
<1> SUFFICES ASSUME IInv, AnswerInv, Munmap PROVE AnswerInv'
  OBVIOUS
<1>1. /\ pc = "munmap" /\ pc' = "close"
      /\ UNCHANGED <<client, backlog, conn, child, files, changes>> /\ UNCHANGED doitVars
  BY DEF Munmap, outside
<1>2. DoitInv'
  BY <1>1 DEF AnswerInv, DoitInv, doitVars
<1>3. ASSUME client[conn].state = "sent"
      PROVE  HasWith(conn, client[conn].got \o Rest)'
  <2>1. HasWith(conn, client[conn].got \o Rest) /\ Goal = "munmap"
    BY <1>1, <1>3, ServedHas DEF Serving, Goal
  <2>2. Rest' = Rest /\ Words(conn)' = Words(conn) /\ Goal' = "close"
    BY <1>1 DEF Rest, Words, Goal
  <2>3. filename \in DOMAIN Files \cap Seq(Strings) /\ sbuf \in Nat
    BY <2>1 DEF HasWith, AnswerInv, DoitInv, IInv, ServerTyped
  <2>4. Whole(Words(conn), Late', client[conn].got \o Rest)
    BY <2>1, <2>3 DEF HasWith, Whole
  <2> QED
    BY <1>1, <2>2, <2>4 DEF HasWith
<1> QED
  BY <1>1, <1>2, <1>3, QuietServes DEF Serving

LEMMA ForkAnswers == IInv /\ AnswerInv /\ Fork => AnswerInv'
<1> SUFFICES ASSUME IInv, AnswerInv, Fork PROVE AnswerInv'
  OBVIOUS
<1>1. /\ pc = "fork" /\ pc' = "wait" /\ child'.state = "new" /\ child'.args = cgiargs
      /\ UNCHANGED <<client, backlog, conn, files, changes>> /\ UNCHANGED doitVars
  BY DEF Fork, outside
<1>2. DoitInv'
  BY <1>1 DEF AnswerInv, DoitInv, doitVars
<1>3. ASSUME client[conn].state = "sent"
      PROVE  HasWith(conn, client[conn].got \o Rest)'
  <2>1. HasWith(conn, client[conn].got \o Rest) /\ Goal = "fork"
    BY <1>1, <1>3, ServedHas DEF Serving, Goal
  <2>2. Rest' = Rest /\ Words(conn)' = Words(conn) /\ Goal' = "wait" /\ Late' = Late
        /\ (Runs(filename) => Runs(filename)') /\ (Parsed(Words(conn)) => Parsed(Words(conn))')
    BY <1>1 DEF Rest, Words, Goal, Late, Runs, File, Parsed, doitVars
  <2>3. client[conn].got \o Rest = DynamicHeader
    BY <2>1 DEF HasWith
  <2>4. DynamicReply(Words(conn), Late, client[conn].got \o Rest)
    BY <2>3 DEF DynamicReply
  <2> QED
    BY <1>1, <2>1, <2>2, <2>3, <2>4 DEF HasWith, doitVars
<1> QED
  BY <1>1, <1>2, <1>3, QuietServes DEF Serving

LEMMA WaitAnswers == IInv /\ AnswerInv /\ Wait => AnswerInv'
<1> SUFFICES ASSUME IInv, AnswerInv, Wait PROVE AnswerInv'
  OBVIOUS
<1>1. /\ pc = "wait" /\ pc' = "close"
      /\ UNCHANGED <<client, backlog, conn, files, changes>> /\ UNCHANGED doitVars
  BY DEF Wait, outside
<1>2. DoitInv'
  BY <1>1 DEF AnswerInv, DoitInv, doitVars
<1>3. ASSUME client[conn].state = "sent"
      PROVE  HasWith(conn, client[conn].got \o Rest)'
  <2>1. HasWith(conn, client[conn].got \o Rest) /\ Goal = "wait"
    BY <1>1, <1>3, ServedHas DEF Serving, Goal
  <2>2. Rest' = Rest /\ Words(conn)' = Words(conn) /\ Goal' = "close" /\ Late' = Late
    BY <1>1 DEF Rest, Words, Goal, Late
  <2>3. Whole(Words(conn), Late, client[conn].got \o Rest)
    BY <2>1 DEF HasWith, Whole
  <2> QED
    BY <1>1, <2>2, <2>3 DEF HasWith
<1> QED
  BY <1>1, <1>2, <1>3, QuietServes DEF Serving
-----------------------------------------------------------------------------
(* The steps that read from the client, or write to it. *)
LEMMA PrefixOfPrefix ==
  ASSUME NEW S, NEW s \in Seq(S), NEW t \in Seq(S), NEW u \in Seq(S),
         IsPrefix(s, t), IsPrefix(t, u)
  PROVE  IsPrefix(s, u)
<1>1. Len(s) <= Len(t) /\ \A k \in 1 .. Len(s) : s[k] = t[k]
  BY PrefixParts
<1>2. Len(t) <= Len(u) /\ \A k \in 1 .. Len(t) : t[k] = u[k]
  BY PrefixParts
<1>3. \A k \in 1 .. Len(s) : s[k] = u[k]
  BY <1>1, <1>2
<1> QED
  BY <1>1, <1>2, <1>3, PrefixByParts

LEMMA NothingAfter ==
  ASSUME NEW s, NEW t, s = <<>>, t = <<>>
  PROVE  s \o t = <<>>
OBVIOUS

LEMMA LineTaken ==
  ASSUME IInv, AnswerInv, pc \in Serving, HasLine, TakeLine
  PROVE  /\ client[conn].state # "connected" /\ line \in Seq(Strings)
         /\ \A c \in Clients \ {conn} : client'[c] = client[c]
         /\ client'[conn].state = client[conn].state /\ client'[conn].asked = client[conn].asked
         /\ client'[conn].got = client[conn].got
         /\ client'[conn].inbox \in Seq(Seq(Strings))
<1>1. /\ conn \in Clients /\ client[conn].inbox \in Seq(Seq(Strings))
      /\ client[conn].inbox # <<>>
  BY ConnIsHeard DEF HasLine
<1>2. line \in Seq(Strings) /\ Tail(client[conn].inbox) \in Seq(Seq(Strings))
  BY <1>1 DEF line
<1>3. client[conn].state # "connected"
  BY <1>1 DEF AnswerInv, MailInv
<1>4. /\ DOMAIN client = Clients
      /\ DOMAIN client[conn] = {"state", "addrs", "socks", "asked", "inbox", "got"}
  BY <1>1 DEF IInv, ClientInv
<1> QED
  BY <1>1, <1>2, <1>3, <1>4 DEF TakeLine

LEMMA ReadRequestAnswers == IInv /\ AnswerInv /\ ReadRequest => AnswerInv'
<1> SUFFICES ASSUME IInv, AnswerInv, ReadRequest PROVE AnswerInv'
  OBVIOUS
<1>1. /\ pc = "request" /\ HasLine /\ TakeLine
      /\ Len(line) >= 1 => method' = line[1]
      /\ Len(line) < 1 => method' \in {method, Junk}
      /\ Len(line) >= 2 => uri' = Tail(line)
      /\ Len(line) < 2 => uri' \in {uri, <<Junk>>}
      /\ \/ method' = "GET" /\ pc' = "headers1"
         \/ method' # "GET" /\ pc' = "write" /\ out' = clienterror("501") /\ next' = "close"
      /\ UNCHANGED <<backlog, conn, filename, cgiargs, is_static, child, files, changes>>
  BY LineTaken DEF ReadRequest, Write, outside, Serving
<1>2. /\ client[conn].state # "connected" /\ line \in Seq(Strings)
      /\ \A c \in Clients \ {conn} : client'[c] = client[c]
      /\ client'[conn].state = client[conn].state /\ client'[conn].asked = client[conn].asked
      /\ client'[conn].got = client[conn].got
      /\ client'[conn].inbox \in Seq(Seq(Strings))
  BY <1>1, LineTaken DEF Serving
<1>3. ServeStep
  BY <1>1, <1>2, ConnIsHeard DEF ServeStep, Serving
<1>4. "501" \in Errors /\ clienterror("501") \in Seq(Unit)
  BY ErrorType DEF Errors
<1>5. DoitInv'
  <2>1. method' \in Strings
    <3>1. Junk \in Strings /\ method \in Strings
      BY JunkType DEF AnswerInv, DoitInv
    <3>2. CASE Len(line) >= 1
      BY <1>1, <1>2, <3>2
    <3>3. CASE Len(line) < 1
      BY <1>1, <3>1, <3>3
    <3>4. Len(line) \in Nat
      BY <1>2
    <3> QED
      BY <3>2, <3>3, <3>4
  <2>2. uri' \in Seq(Strings)
    <3>1. <<Junk>> \in Seq(Strings)
      BY JunkType
    <3>2. Len(line) >= 2 => Tail(line) \in Seq(Strings)
      BY <1>2
    <3>3. CASE Len(line) >= 2
      BY <1>1, <3>2, <3>3
    <3>4. CASE Len(line) < 2
      BY <1>1, <3>1, <3>4 DEF AnswerInv, DoitInv
    <3>5. Len(line) \in Nat
      BY <1>2
    <3> QED
      BY <3>3, <3>4, <3>5
  <2> QED
    BY <1>1, <1>4, <2>1, <2>2 DEF AnswerInv, DoitInv
<1>6. conn \in Clients
  BY <1>1, ConnIsHeard DEF Serving
<1>7. Words(conn)' = Words(conn) /\ Late' = Late
  BY <1>1, <1>2 DEF Words, Late
<1>8. Begun(Words(conn)', Late', client'[conn].got)
  BY <1>2, <1>6, <1>7 DEF AnswerInv, GotInv
<1>9. ASSUME client[conn].state = "sent"
      PROVE  HasWith(conn, client[conn].got \o Rest)'
  <2>1. client[conn].got = <<>> /\ client[conn].inbox = client[conn].asked
    BY <1>1, <1>6, <1>9 DEF AnswerInv, MailInv, Waiting
  <2>2. client[conn].asked \in Requests
    BY <1>6, <1>9 DEF AnswerInv, MailInv
  <2>3. line = Words(conn)
    BY <2>1, <2>2, RequestWords DEF line, Words
  <2>4. CASE pc' = "headers1"
    <3>1. (client[conn].got \o Rest)' = <<>> /\ Goal' = "headers1"
      <4>1. client'[conn].got = <<>> /\ conn' = conn /\ Rest' = <<>> /\ Goal' = "headers1"
        BY <1>1, <1>2, <2>1, <2>4 DEF Rest, Goal
      <4> QED
        BY <4>1, NothingAfter
    <3>2. Asked(Words(conn))'
      <4>1. method' = "GET"
        BY <1>1, <2>4
      <4>2. CASE Len(line) < 2
        <5>1. Len(line) = 0 => line = <<>>
          BY <1>2
        <5>2. Len(line) = 1 => line = <<line[1]>>
          BY <1>2
        <5>3. Len(line) = 0 \/ Len(line) = 1
          <6>1. PICK n \in Nat : n = Len(line)
            BY <1>2
          <6>2. n < 2
            BY <4>2, <6>1
          <6>3. n = 0 \/ n = 1
            BY <6>2
          <6> QED
            BY <6>1, <6>3
        <5>4. Len(line) = 1 => line[1] = "GET"
          BY <1>1, <4>1
        <5>5. NoURI(line)
          BY <5>1, <5>2, <5>3, <5>4 DEF NoURI
        <5> QED
          BY <1>7, <2>3, <4>2, <5>5 DEF Asked
      <4>3. CASE ~(Len(line) < 2)
        <5>1. line[1] = "GET" /\ uri' = Tail(line)
          BY <1>1, <1>2, <4>1, <4>3
        <5> QED
          BY <1>7, <2>3, <4>3, <5>1 DEF Asked
      <4> QED
        BY <4>2, <4>3
    <3> QED
      BY <3>1, <3>2, <2>4 DEF HasWith
  <2>5. CASE pc' = "write"
    <3>1. (client[conn].got \o Rest)' = clienterror("501") /\ Goal' = "close"
      BY <1>1, <1>2, <1>4, <2>1, <2>5 DEF Rest, Goal
    <3>2. Whole(Words(conn)', Late', clienterror("501"))
      BY <1>4 DEF Whole
    <3> QED
      BY <1>4, <3>1, <3>2 DEF HasWith
  <2> QED
    BY <1>1, <2>4, <2>5
<1> QED
  BY <1>3, <1>5, <1>8, <1>9, Serves

LEMMA ReadHeaderAnswers == IInv /\ AnswerInv /\ ReadHeader => AnswerInv'
<1> SUFFICES ASSUME IInv, AnswerInv, ReadHeader PROVE AnswerInv'
  OBVIOUS
<1>1. /\ pc \in {"headers1", "headers"} /\ conn \in Clients
      /\ pc \in Serving \ {"request"}
  BY ConnIsHeard DEF ReadHeader, Serving
<1>2. /\ UNCHANGED <<backlog, conn, method, child, files, changes>>
      /\ \/ EndHeaders
         \/ pc' = "headers" /\ UNCHANGED <<uri, filename, cgiargs, is_static>>
      /\ \/ HasLine /\ TakeLine
         \/ AtEOF /\ UNCHANGED client
  BY DEF ReadHeader, outside
<1>3. /\ \A c \in Clients \ {conn} : client'[c] = client[c]
      /\ client'[conn].state = client[conn].state /\ client'[conn].asked = client[conn].asked
      /\ client'[conn].got = client[conn].got
      /\ client'[conn].inbox \in Seq(Seq(Strings))
  <2>1. CASE HasLine /\ TakeLine
    BY <1>1, <2>1, LineTaken
  <2>2. CASE UNCHANGED client
    BY <1>1, <2>2, ConnIsHeard
  <2> QED
    BY <1>2, <2>1, <2>2
<1>4. pc' \in {"headers", "stat"} /\ (EndHeaders => pc' = "stat")
  BY <1>2 DEF EndHeaders
<1>5. ServeStep
  BY <1>1, <1>2, <1>3, <1>4, ConnIsHeard DEF ServeStep, Serving
<1>6. DoitInv'
  <2>1. CASE EndHeaders
    <3>1. PICK p : p = parse_uri(uri)
      OBVIOUS
    <3>2. is_static' = p.static /\ cgiargs' = p.args /\ filename' = p.name /\ uri' = p.uri
      BY <2>1, <3>1 DEF EndHeaders
    <3>3. /\ p.static \in BOOLEAN /\ p.args \in Seq(Strings) /\ p.uri \in Seq(Strings)
          /\ p.name \in Seq(Strings)
      BY <3>1, ParseIs DEF AnswerInv, DoitInv
    <3> QED
      BY <1>2, <1>4, <3>2, <3>3 DEF AnswerInv, DoitInv
  <2>2. CASE UNCHANGED <<uri, filename, cgiargs, is_static>>
    BY <1>2, <1>4, <2>2 DEF AnswerInv, DoitInv
  <2> QED
    BY <1>2, <2>1, <2>2
<1>7. Words(conn)' = Words(conn) /\ Late' = Late
  BY <1>2, <1>3 DEF Words, Late
<1>8. Begun(Words(conn)', Late', client'[conn].got)
  BY <1>1, <1>3, <1>7 DEF AnswerInv, GotInv
<1>9. ASSUME client[conn].state = "sent"
      PROVE  HasWith(conn, client[conn].got \o Rest)'
  <2>1. HasWith(conn, client[conn].got \o Rest) /\ Rest = <<>> /\ Words(conn) \in Seq(Strings)
    BY <1>1, <1>9, ServedHas DEF Rest
  <2>2. client[conn].got = <<>> /\ Asked(Words(conn))
    BY <1>1, <1>9, <2>1, ServedHas DEF HasWith, Goal
  <2>3. (client[conn].got \o Rest)' = <<>> /\ Goal' = pc'
    <3>1. client'[conn].got = <<>> /\ conn' = conn /\ Rest' = <<>> /\ Goal' = pc'
      BY <1>2, <1>3, <1>4, <2>2 DEF Rest, Goal
    <3> QED
      BY <3>1, NothingAfter
  <2>4. CASE EndHeaders
    <3>1. Parsed(Words(conn))'
      <4>1. PICK words : words = Words(conn)
        OBVIOUS
      <4>2. Parsed(words)'
        BY <2>1, <2>2, <2>4, <4>1, EndHeadersParses DEF AnswerInv, DoitInv
      <4> QED
        BY <4>1, <4>2, <1>7 DEF Parsed
    <3> QED
      BY <1>4, <2>3, <2>4, <3>1 DEF HasWith
  <2>5. CASE pc' = "headers" /\ UNCHANGED <<uri, filename, cgiargs, is_static>>
    BY <1>7, <2>2, <2>3, <2>5 DEF HasWith, Asked
  <2> QED
    BY <1>2, <2>4, <2>5
<1> QED
  BY <1>5, <1>6, <1>8, <1>9, Serves
-----------------------------------------------------------------------------
(* What a client has received begins what it will have, if that is known.  *)
LEMMA HasBegun ==
  ASSUME NEW c, NEW got \in Seq(Unit), NEW text \in Seq(Unit), HasWith(c, text),
         IsPrefix(got, text), DoitInv, sbuf \in Nat,
         \/ pc = "write" /\ Goal \in {"close", "open", "munmap", "fork"}
  PROVE  Begun(Words(c), Late, got)
<1>1. CASE Goal = "close"
  BY <1>1 DEF HasWith, Begun
<1>2. filename \in Seq(Strings)
  BY DEF DoitInv
<1>3. CASE Goal = "open"
  <2>1. text = StaticHeader(filename, sbuf) /\ filename \in DOMAIN Files /\ Own(Words(c), filename)
    BY <1>3, StaticIsOwn DEF HasWith
  <2>2. StaticReply(filename, sbuf) \in Seq(Unit) /\ IsPrefix(text, StaticReply(filename, sbuf))
    <3>1. text \in Seq(Unit) /\ PagesOf(sbuf, filename) \in Seq(Unit)
      BY <1>2, PagesType
    <3>2. StaticReply(filename, sbuf) = text \o PagesOf(sbuf, filename)
      BY <2>1 DEF StaticReply
    <3>3. text \o PagesOf(sbuf, filename) \in Seq(Unit)
      BY <3>1, ConcatAt DEF Concat
    <3> QED
      BY <3>1, <3>2, <3>3, PrefixOfConcat
  <2>3. IsPrefix(got, StaticReply(filename, sbuf))
    BY <2>2, PrefixOfPrefix
  <2> QED
    BY <1>2, <2>1, <2>3 DEF Begun
<1>4. CASE Goal = "munmap"
  BY <1>2, <1>4 DEF HasWith, Begun
<1>5. CASE Goal = "fork"
  BY <1>5 DEF HasWith, Begun
<1> QED
  BY <1>1, <1>3, <1>4, <1>5

(* What is written reaches a client that is there. *)
LEMMA ReachesServes ==
  ASSUME IInv, AnswerInv, pc \in Serving \ {"request"}, pc' \in Serving \ {"request"},
         UNCHANGED <<backlog, conn, changes>>, NEW units, units \in Seq(Unit),
         Reaches(conn, units)
  PROVE  /\ ServeStep /\ Words(conn)' = Words(conn) /\ Late' = Late
         /\ client[conn].state = "sent" => client'[conn].got = client[conn].got \o units
         /\ client[conn].state # "sent" => client' = client
<1>1. /\ conn \in Clients /\ client[conn].got \in Seq(Unit)
      /\ client[conn].inbox \in Seq(Seq(Strings))
      /\ DOMAIN client = Clients
      /\ DOMAIN client[conn] = {"state", "addrs", "socks", "asked", "inbox", "got"}
  BY ConnIsHeard DEF IInv, ClientInv
<1>2. client[conn].got \o units \in Seq(Unit)
  BY <1>1, ConcatAt DEF Concat
<1>3. CASE client[conn].state # "sent"
  <2>1. client' = client
    BY <1>3 DEF Reaches
  <2> QED
    BY <1>3, <2>1, ConnIsHeard DEF ServeStep, Words, Late
<1>4. CASE client[conn].state = "sent"
  <2>1. client' = [client EXCEPT ![conn].got = client[conn].got \o units]
    BY <1>4 DEF Reaches
  <2>2. /\ \A c \in Clients \ {conn} : client'[c] = client[c]
        /\ client'[conn].state = client[conn].state /\ client'[conn].asked = client[conn].asked
        /\ client'[conn].got = client[conn].got \o units
        /\ client'[conn].inbox = client[conn].inbox
    BY <1>1, <2>1
  <2> QED
    BY <1>1, <1>2, <1>4, <2>2 DEF ServeStep, Words, Late
<1> QED
  BY <1>3, <1>4

LEMMA Rio_writenAnswers == IInv /\ AnswerInv /\ Rio_writen => AnswerInv'
<1> SUFFICES ASSUME IInv, AnswerInv, Rio_writen PROVE AnswerInv'
  OBVIOUS
<1>1. /\ pc = "write" /\ out # <<>> /\ Reaches(conn, <<Head(out)>>) /\ out' = Tail(out)
      /\ pc' = IF out' = <<>> THEN next ELSE "write"
      /\ next \in {"close", "open", "munmap", "fork"} /\ next' = next
      /\ UNCHANGED <<backlog, conn, child, files, changes>> /\ UNCHANGED doitVars
  BY DEF Rio_writen, outside, IInv, ServerInv
<1>2. pc \in Serving \ {"request"} /\ pc' \in Serving \ {"request"}
  BY <1>1 DEF Serving
<1>3. out \in Seq(Unit)
  BY <1>1 DEF AnswerInv, DoitInv
<1>4. <<Head(out)>> \in Seq(Unit) /\ Tail(out) \in Seq(Unit)
  BY <1>1, <1>3
<1>5. /\ ServeStep /\ Words(conn)' = Words(conn) /\ Late' = Late
      /\ client[conn].state = "sent" => client'[conn].got = client[conn].got \o <<Head(out)>>
      /\ client[conn].state # "sent" => client' = client
  BY <1>1, <1>2, <1>4, ReachesServes
<1>6. DoitInv'
  BY <1>1, <1>4 DEF AnswerInv, DoitInv, doitVars
<1>7. Goal = next /\ Goal' = next /\ Rest = out /\ Rest' = Tail(out)
  BY <1>1 DEF Goal, Rest
<1>8. ASSUME client[conn].state = "sent"
      PROVE  /\ (client[conn].got \o Rest)' = client[conn].got \o Rest
             /\ client'[conn].got \in Seq(Unit)
             /\ HasWith(conn, client[conn].got \o Rest)
             /\ client[conn].got \o Rest \in Seq(Unit)
             /\ IsPrefix(client'[conn].got, client[conn].got \o Rest)
  <2>1. PICK s \in Seq(Unit) : s = client[conn].got
    BY <1>2, <1>8, ServedHas
  <2>2. /\ (s \o <<Head(out)>>) \o Tail(out) = s \o out
        /\ s \o <<Head(out)>> \in Seq(Unit)
    BY <1>1, <1>3, UnitMoves
  <2>3. IsPrefix(s \o <<Head(out)>>, (s \o <<Head(out)>>) \o Tail(out))
    BY <1>4, <2>2, PrefixOfConcat
  <2>4. s \o out \in Seq(Unit)
    BY <1>3, ConcatAt DEF Concat
  <2> QED
    BY <1>1, <1>2, <1>5, <1>7, <1>8, <2>1, <2>2, <2>3, <2>4, ServedHas
<1>9. ASSUME client[conn].state = "sent"
      PROVE  HasWith(conn, client[conn].got \o Rest)'
  BY <1>1, <1>5, <1>7, <1>8, <1>9 DEF HasWith, Parsed, Asked, Runs, File, doitVars
<1>10. Begun(Words(conn)', Late', client'[conn].got)
  <2>1. CASE client[conn].state = "sent"
    <3>1. DoitInv /\ sbuf \in Nat
      BY DEF AnswerInv, IInv, ServerTyped
    <3> QED
      BY <1>1, <1>5, <1>7, <1>8, <2>1, <3>1, HasBegun
  <2>2. CASE client[conn].state # "sent"
    BY <1>2, <1>5, <2>2, ConnIsHeard DEF AnswerInv, GotInv
  <2> QED
    BY <2>1, <2>2
<1> QED
  BY <1>5, <1>6, <1>9, <1>10, Serves
-----------------------------------------------------------------------------
(* The steps of the child. *)
LEMMA ChildIsWaitedFor ==
  ASSUME IInv, child.state \in {"new", "exec", "adder"}
  PROVE  pc = "wait" /\ pc \in Serving \ {"request"}
BY DEF IInv, ChildInv, NoChild, Serving

LEMMA Dup2Answers == IInv /\ AnswerInv /\ Dup2 => AnswerInv'
<1> SUFFICES ASSUME IInv, AnswerInv, Dup2 PROVE AnswerInv'
  OBVIOUS
<1>1. /\ pc = "wait" /\ pc \in Serving \ {"request"} /\ child.state = "new"
      /\ child'.state = "exec" /\ child'.args = child.args
      /\ UNCHANGED <<pc, out, next, client, backlog, conn, files, changes>> /\ UNCHANGED doitVars
  BY ChildIsWaitedFor DEF Dup2, outside, IInv, ChildInv
<1>2. DoitInv'
  BY <1>1 DEF AnswerInv, DoitInv, doitVars
<1>3. ASSUME client[conn].state = "sent"
      PROVE  HasWith(conn, client[conn].got \o Rest)'
  <2>1. HasWith(conn, client[conn].got \o Rest) /\ Goal = "wait"
    BY <1>1, <1>3, ServedHas DEF Goal
  <2>2. Rest' = Rest /\ Words(conn)' = Words(conn) /\ Goal' = "wait" /\ Late' = Late
        /\ (Runs(filename) => Runs(filename)') /\ (Parsed(Words(conn)) => Parsed(Words(conn))')
    BY <1>1 DEF Rest, Words, Goal, Late, Runs, File, Parsed, doitVars
  <2> QED
    BY <1>1, <2>1, <2>2 DEF HasWith, doitVars
<1> QED
  BY <1>1, <1>2, <1>3, QuietServes

LEMMA ExecveAnswers == IInv /\ AnswerInv /\ Execve => AnswerInv'
<1> SUFFICES ASSUME IInv, AnswerInv, Execve PROVE AnswerInv'
  OBVIOUS
<1> DEFINE f == File(filename)
           runs == f.type = "file" /\ f.x /\ f.size > 0
           units == IF ~runs /\ child.logged THEN <<Header("log")>> ELSE <<>>
<1>1. /\ pc = "wait" /\ pc \in Serving \ {"request"} /\ child.state = "exec"
      /\ runs => child'.state = "adder" /\ child'.args = child.args
      /\ ~runs => child'.state = "zombie"
      /\ runs => client' = client
      /\ ~runs => Reaches(conn, units)
      /\ UNCHANGED <<pc, out, next, backlog, conn, files, changes>> /\ UNCHANGED doitVars
  <2>1. pc = "wait" /\ pc \in Serving \ {"request"} /\ child.state = "exec"
    BY ChildIsWaitedFor DEF Execve
  <2>2. CASE runs
    BY <2>1, <2>2 DEF Execve, outside, IInv, ChildInv
  <2>3. CASE ~runs
    BY <2>1, <2>3 DEF Execve, outside, IInv, ChildInv
  <2> QED
    BY <2>1, <2>2, <2>3
<1>2. DoitInv'
  BY <1>1 DEF AnswerInv, DoitInv, doitVars
<1>3. units \in Seq(Unit)
  BY LogType
<1>4. /\ ServeStep /\ Words(conn)' = Words(conn) /\ Late' = Late
      /\ client[conn].state = "sent" => client'[conn].got = client[conn].got \o units
      /\ client[conn].state # "sent" => client' = client
  <2>1. CASE ~runs
    BY <1>1, <1>3, <2>1, ReachesServes
  <2>2. CASE runs
    <3>1. client' = client /\ units = <<>>
      BY <1>1, <2>2
    <3>2. ServeStep
      BY <1>1, <3>1, ConnIsHeard DEF ServeStep
    <3>3. client[conn].state = "sent" => client[conn].got \o <<>> = client[conn].got
      BY <1>1, ServedHas
    <3> QED
      BY <1>1, <3>1, <3>2, <3>3 DEF Words, Late
  <2> QED
    BY <2>1, <2>2
<1>5. ASSUME client[conn].state = "sent"
      PROVE  /\ HasWith(conn, client[conn].got \o Rest) /\ Goal = "wait" /\ Rest = <<>>
             /\ client[conn].got = DynamicHeader
  BY <1>1, <1>5, ServedHas DEF Goal, Rest, HasWith
<1>6. ASSUME client[conn].state = "sent", ~runs
      PROVE  Late
  <2>1. Late \/ Runs(filename)
    BY <1>5, <1>6 DEF HasWith
  <2>2. ASSUME ~Late, Runs(filename) PROVE FALSE
    <3>1. files = Files /\ ProgramsRun
      BY <2>2 DEF Late, AnswerInv, DoitInv
    <3>2. f.type = "file" /\ f.x /\ filename \in DOMAIN files
      BY <2>2 DEF Runs, File, Missing
    <3>3. f.size > 0
      BY <3>1, <3>2 DEF ProgramsRun, File
    <3> QED
      BY <1>6, <3>2, <3>3
  <2> QED
    BY <2>1, <2>2
<1> HIDE DEF runs
<1>7. ASSUME client[conn].state = "sent"
      PROVE  /\ runs => client'[conn].got = DynamicHeader
             /\ DynamicReply(Words(conn), Late, client'[conn].got)
  <2>1. DynamicHeader \o <<>> = DynamicHeader
    BY DynamicHeaderIs
  <2>2. client'[conn].got = DynamicHeader \o units
    BY <1>4, <1>5, <1>7
  <2>3. CASE units = <<>>
    BY <2>1, <2>2, <2>3 DEF DynamicReply
  <2>4. CASE ~runs /\ units = <<Header("log")>>
    BY <1>6, <1>7, <2>2, <2>4 DEF DynamicReply
  <2> QED
    BY <2>1, <2>2, <2>3, <2>4
<1>8. ASSUME client[conn].state = "sent"
      PROVE  HasWith(conn, client[conn].got \o Rest)'
  <2>1. (client[conn].got \o Rest)' = client'[conn].got /\ Goal' = "wait"
    <3>1. Rest' = <<>> /\ Goal' = "wait" /\ conn' = conn /\ client'[conn].got \in Seq(Unit)
      BY <1>1, <1>4 DEF Rest, Goal, ServeStep
    <3>2. client'[conn].got \o <<>> = client'[conn].got
      BY <3>1
    <3> QED
      BY <3>1, <3>2
  <2>2. (Runs(filename) => Runs(filename)') /\ (Parsed(Words(conn)) => Parsed(Words(conn))')
    BY <1>1, <1>4 DEF Runs, File, Parsed, doitVars
  <2> QED
    BY <1>1, <1>4, <1>5, <1>7, <1>8, <2>1, <2>2 DEF HasWith, doitVars
<1>9. Begun(Words(conn)', Late', client'[conn].got)
  <2>1. CASE client[conn].state = "sent"
    BY <1>4, <1>7, <2>1 DEF Begun
  <2>2. CASE client[conn].state # "sent"
    BY <1>1, <1>4, <2>2, ConnIsHeard DEF AnswerInv, GotInv
  <2> QED
    BY <2>1, <2>2
<1> QED
  BY <1>2, <1>4, <1>8, <1>9, Serves

LEMMA AdderAnswers == IInv /\ AnswerInv /\ Adder => AnswerInv'
<1> SUFFICES ASSUME IInv, AnswerInv, Adder PROVE AnswerInv'
  OBVIOUS
<1>1. /\ pc = "wait" /\ pc \in Serving \ {"request"} /\ child.state = "adder"
      /\ child'.state = "zombie" /\ child.args = cgiargs
      /\ UNCHANGED <<pc, out, next, backlog, conn, files, changes>> /\ UNCHANGED doitVars
  BY ChildIsWaitedFor DEF Adder, outside, IInv, ChildInv, AnswerInv, DoitInv
<1>2. cgiargs \in Seq(Strings)
  BY DEF AnswerInv, DoitInv
<1>3. PICK units \in Seq(Unit) :
         /\ \/ units = <<>>
            \/ Contains(cgiargs, "&") /\ \E parts \in 1 .. 2 : units = Output(cgiargs, parts)
         /\ (units = <<>> /\ client' = client) \/ Reaches(conn, units)
  <2>1. CASE Contains(cgiargs, "&")
    <3>1. PICK parts \in 1 .. 2 : Reaches(conn, Output(cgiargs, parts))
      BY <1>1, <2>1 DEF Adder
    <3>2. Output(cgiargs, parts) \in Seq(Unit)
      BY <1>2, OutputIs
    <3> QED
      BY <2>1, <3>1, <3>2
  <2>2. CASE ~Contains(cgiargs, "&")
    <3>1. client' = client /\ <<>> \in Seq(Unit)
      BY <1>1, <2>2 DEF Adder
    <3> QED
      BY <3>1
  <2> QED
    BY <2>1, <2>2
<1>4. /\ ServeStep /\ Words(conn)' = Words(conn) /\ Late' = Late
      /\ client[conn].state = "sent" => client'[conn].got = client[conn].got \o units
      /\ client[conn].state # "sent" => client' = client
  <2>1. CASE Reaches(conn, units)
    BY <1>1, <2>1, ReachesServes
  <2>2. CASE units = <<>> /\ client' = client
    <3>1. ServeStep
      BY <1>1, <2>2, ConnIsHeard DEF ServeStep
    <3>2. client[conn].state = "sent" => client[conn].got \o <<>> = client[conn].got
      BY <1>1, ServedHas
    <3> QED
      BY <1>1, <2>2, <3>1, <3>2 DEF Words, Late
  <2> QED
    BY <1>3, <2>1, <2>2
<1>5. DoitInv'
  BY <1>1 DEF AnswerInv, DoitInv, doitVars
<1>6. ASSUME client[conn].state = "sent"
      PROVE  /\ Parsed(Words(conn)) /\ ~is_static /\ (Late \/ Runs(filename))
             /\ client[conn].got = DynamicHeader
  BY <1>1, <1>6, ServedHas DEF Goal, Rest, HasWith
<1>7. ASSUME client[conn].state = "sent"
      PROVE  DynamicReply(Words(conn), Late, client'[conn].got)
  <2>1. client'[conn].got = DynamicHeader \o units
    BY <1>4, <1>6, <1>7
  <2>2. CASE units = <<>>
    <3>1. DynamicHeader \o <<>> = DynamicHeader
      BY DynamicHeaderIs
    <3> QED
      BY <2>1, <2>2, <3>1 DEF DynamicReply
  <2>3. ASSUME Contains(cgiargs, "&"), NEW parts \in 1 .. 2, units = Output(cgiargs, parts)
        PROVE  DynamicReply(Words(conn), Late, client'[conn].got)
    <3>1. cgiargs # <<>>
      BY <2>3 DEF Contains
    <3>2. Own(Words(conn), cgiargs)
      BY <1>6, <1>7, <3>1 DEF Parsed, Own
    <3>3. parts \in Nat \ {0}
      OBVIOUS
    <3>4. client'[conn].got = DynamicHeader \o Output(cgiargs, parts)
      BY <2>1, <2>3
    <3> QED
      BY <1>2, <3>2, <3>3, <3>4 DEF DynamicReply
  <2> QED
    BY <1>3, <2>2, <2>3
<1>8. ASSUME client[conn].state = "sent"
      PROVE  HasWith(conn, client[conn].got \o Rest)'
  <2>1. (client[conn].got \o Rest)' = client'[conn].got /\ Goal' = "wait"
    <3>1. Rest' = <<>> /\ Goal' = "wait" /\ conn' = conn /\ client'[conn].got \in Seq(Unit)
      BY <1>1, <1>4 DEF Rest, Goal, ServeStep
    <3>2. client'[conn].got \o <<>> = client'[conn].got
      BY <3>1
    <3> QED
      BY <3>1, <3>2
  <2>2. (Runs(filename) => Runs(filename)') /\ (Parsed(Words(conn)) => Parsed(Words(conn))')
    BY <1>1, <1>4 DEF Runs, File, Parsed, doitVars
  <2> QED
    BY <1>1, <1>4, <1>6, <1>7, <1>8, <2>1, <2>2 DEF HasWith, doitVars
<1>9. Begun(Words(conn)', Late', client'[conn].got)
  <2>1. CASE client[conn].state = "sent"
    BY <1>4, <1>7, <2>1 DEF Begun
  <2>2. CASE client[conn].state # "sent"
    BY <1>1, <1>4, <2>2, ConnIsHeard DEF AnswerInv, GotInv
  <2> QED
    BY <2>1, <2>2
<1> QED
  BY <1>4, <1>5, <1>8, <1>9, Serves
-----------------------------------------------------------------------------
(* The steps of the server between two clients. *)
LEMMA IdleAnswers ==
  ASSUME IInv, AnswerInv, pc \notin Serving \cup {"exited"}, pc' \notin Serving \cup {"exited"},
         UNCHANGED <<client, backlog, conn, doitVars, child, files, changes>>
  PROVE  AnswerInv'
<1>1. \A c \in Clients : /\ InBacklog(c)' <=> InBacklog(c)
                         /\ Waiting(c)' <=> Waiting(c)
                         /\ ~Served(c) /\ ~Served(c)'
                         /\ Words(c)' = Words(c)
  BY DEF InBacklog, Waiting, Served, Serving, Words
<1>2. MailInv'
  BY <1>1 DEF AnswerInv, MailInv, Serving
<1>3. DoitInv'
  BY DEF AnswerInv, DoitInv, doitVars, Serving
<1>4. ServedInv'
  BY <1>1 DEF ServedInv
<1>5. GotInv'
  <2>1. Late' = Late
    BY DEF Late
  <2> QED
    BY <1>1, <2>1 DEF AnswerInv, GotInv
<1> QED
  BY <1>2, <1>3, <1>4, <1>5 DEF AnswerInv

LEMMA StartupAnswers ==
  IInv /\ AnswerInv /\ (GetAddrInfo \/ Socket \/ Bind \/ Listen) => AnswerInv'
<1> SUFFICES ASSUME IInv, AnswerInv, GetAddrInfo \/ Socket \/ Bind \/ Listen PROVE AnswerInv'
  OBVIOUS
<1>1. /\ pc \in {"start", "socket", "bind", "listen"}
      /\ pc' \in {"socket", "bind", "listen", "accept"}
      /\ UNCHANGED <<client, backlog, conn, doitVars, child, files, changes>>
  BY DEF GetAddrInfo, Socket, Bind, Listen, outside
<1> QED
  BY <1>1, IdleAnswers DEF Serving

LEMMA AcceptAnswers == IInv /\ AnswerInv /\ Accept => AnswerInv'
<1> SUFFICES ASSUME IInv, AnswerInv, Accept PROVE AnswerInv'
  OBVIOUS
<1>1. /\ pc = "accept" /\ pc' = "request" /\ backlog # <<>>
      /\ conn' = Head(backlog) /\ backlog' = Tail(backlog)
      /\ UNCHANGED <<client, doitVars, child, files, changes>>
  BY DEF Accept, outside
<1>2. /\ backlog \in Seq(Clients) /\ Len(backlog') = Len(backlog) - 1
      /\ \A i \in 1 .. Len(backlog') : backlog'[i] = backlog[i + 1] /\ i + 1 \in 1 .. Len(backlog)
      /\ conn' = backlog[1] /\ 1 \in 1 .. Len(backlog)
  BY <1>1 DEF IInv, ServerInv
<1>3. \A i, j \in 1 .. Len(backlog) : backlog[i] = backlog[j] => i = j
  BY DEF AnswerInv, MailInv
<1>4. ASSUME NEW c \in Clients
      PROVE  /\ InBacklog(c)' => InBacklog(c) /\ c # conn'
             /\ c = conn' => InBacklog(c)
             /\ InBacklog(c) => InBacklog(c)' \/ c = conn'
  <2>1. ASSUME NEW i \in 1 .. Len(backlog'), backlog'[i] = c
        PROVE  InBacklog(c) /\ c # conn'
    <3>1. i + 1 \in 1 .. Len(backlog) /\ backlog[i + 1] = c /\ i + 1 # 1
      BY <1>2, <2>1
    <3> QED
      BY <3>1, <1>2, <1>3 DEF InBacklog
  <2>2. ASSUME NEW i \in 1 .. Len(backlog), backlog[i] = c, i # 1
        PROVE  InBacklog(c)'
    <3>1. i - 1 \in 1 .. Len(backlog') /\ (i - 1) + 1 = i
      BY <1>2, <2>2
    <3>2. backlog'[i - 1] = c
      BY <1>2, <2>2, <3>1
    <3> QED
      BY <3>1, <3>2 DEF InBacklog
  <2>3. InBacklog(c)' => InBacklog(c) /\ c # conn'
    BY <2>1 DEF InBacklog
  <2>4. c = conn' => InBacklog(c)
    BY <1>2 DEF InBacklog
  <2>5. InBacklog(c) => InBacklog(c)' \/ c = conn'
    BY <1>2, <2>2 DEF InBacklog
  <2> QED
    BY <2>3, <2>4, <2>5
<1>5. \A c \in Clients : /\ Waiting(c)' <=> Waiting(c)
                         /\ ~Served(c) /\ ~Served(c)'
                         /\ Words(c)' = Words(c)
  BY <1>1, <1>4 DEF Waiting, Served, Serving, Words
<1>6. MailInv'
  <2>1. ASSUME NEW i \in 1 .. Len(backlog'), NEW j \in 1 .. Len(backlog'),
               backlog'[i] = backlog'[j]
        PROVE  i = j
    <3>1. i + 1 = j + 1
      BY <1>2, <1>3, <2>1
    <3> QED
      BY <3>1
  <2> QED
    BY <1>1, <1>4, <1>5, <2>1 DEF AnswerInv, MailInv
<1>7. DoitInv'
  BY <1>1 DEF AnswerInv, DoitInv, doitVars
<1>8. ServedInv'
  BY <1>5 DEF ServedInv
<1>9. GotInv'
  <2>1. Late' = Late
    BY <1>1 DEF Late
  <2> QED
    BY <1>1, <1>5, <2>1 DEF AnswerInv, GotInv
<1> QED
  BY <1>6, <1>7, <1>8, <1>9 DEF AnswerInv

(* When the connection is closed, the response is whole. *)
LEMMA CloseAnswers == IInv /\ AnswerInv /\ Close => AnswerInv'
<1> SUFFICES ASSUME IInv, AnswerInv, Close PROVE AnswerInv'
  OBVIOUS
<1>1. /\ pc = "close" /\ pc' = "accept" /\ conn' = NoClient
      /\ filename' = <<Junk>> /\ is_static' = TRUE
      /\ UNCHANGED <<client, backlog, method, uri, cgiargs, child, files, changes>>
  BY DEF Close, Returned, outside
<1>2. NoClient \notin Clients /\ conn \in Clients
  BY <1>1, TinyAssumption, ConnIsHeard DEF Serving
<1>3. \A c \in Clients : /\ InBacklog(c)' <=> InBacklog(c)
                         /\ Waiting(c)' <=> Waiting(c)
                         /\ ~Served(c)' /\ (Served(c) <=> c = conn) /\ c # conn'
                         /\ Words(c)' = Words(c)
  BY <1>1, <1>2 DEF InBacklog, Waiting, Served, Serving, Words
<1>4. MailInv'
  BY <1>1, <1>3 DEF AnswerInv, MailInv
<1>5. DoitInv'
  BY <1>1, JunkType DEF AnswerInv, DoitInv
<1>6. ServedInv'
  BY <1>3 DEF ServedInv
<1>7. GotInv'
  <2>1. Late' = Late
    BY <1>1 DEF Late
  <2>2. ASSUME client[conn].state = "sent"
        PROVE  Whole(Words(conn), Late, client[conn].got)
    BY <1>1, <2>2, ServedHas DEF HasWith, Goal, Rest, Serving
  <2> QED
    BY <1>1, <1>3, <2>1, <2>2 DEF AnswerInv, GotInv
<1> QED
  BY <1>4, <1>5, <1>6, <1>7 DEF AnswerInv

LEMMA ExitAnswers == IInv /\ AnswerInv /\ Exit => AnswerInv'
<1> SUFFICES ASSUME IInv, AnswerInv, Exit PROVE AnswerInv'
  OBVIOUS
<1>1. pc' = "exited" /\ UNCHANGED <<client, backlog, conn, doitVars, child, files, changes>>
  BY DEF Exit, unix_error, outside
<1>2. \A c \in Clients : /\ InBacklog(c)' <=> InBacklog(c)
                         /\ Waiting(c)' => Waiting(c)
                         /\ ~Served(c)' /\ Words(c)' = Words(c)
  BY <1>1 DEF InBacklog, Waiting, Served, Serving, Words
<1>3. MailInv'
  BY <1>1, <1>2 DEF AnswerInv, MailInv
<1>4. DoitInv'
  BY <1>1 DEF AnswerInv, DoitInv, doitVars
<1>5. ServedInv'
  BY <1>2 DEF ServedInv
<1>6. GotInv'
  <2>1. Late' = Late
    BY <1>1 DEF Late
  <2> QED
    BY <1>1, <1>2, <2>1 DEF AnswerInv, GotInv
<1> QED
  BY <1>3, <1>4, <1>5, <1>6 DEF AnswerInv
-----------------------------------------------------------------------------
(* The clients.  One that moves has nothing yet, or forgets it. *)
ClientStep(c) ==
    /\ UNCHANGED <<serverVars, child, changes>>
    /\ \A d \in Clients \ {c} : client'[d] = client[d]
    /\ client'[c].got = <<>> /\ client'[c].inbox \in Seq(Seq(Strings))
    /\ client'[c].state \in {"idle", "socket", "connect", "connected"} => client'[c].inbox = <<>>
    /\ \/ UNCHANGED backlog
       \/ backlog' = Append(backlog, c) /\ client[c].state = "connect"
          /\ client'[c].state = "connected"
    /\ client'[c].state \in {"idle", "socket", "connect"} =>
          client[c].state \in {"idle", "socket", "connect"}
    /\ client'[c].state = "connected" => backlog' = Append(backlog, c)
    /\ client'[c].state = "sent" =>
          /\ client[c].state = "connected" /\ client'[c].asked \in Requests
          /\ client'[c].inbox = client'[c].asked

LEMMA ClientMovesAnswers ==
  ASSUME IInv, AnswerInv, NEW c \in Clients, ClientStep(c)
  PROVE  AnswerInv'
<1> USE DEF ClientStep
<1>1. UNCHANGED <<pc, conn, out, next, child, files, changes, method, uri, filename, cgiargs,
                  is_static, sbuf>>
  BY DEF serverVars, doitVars
<1>2. backlog \in Seq(Clients)
  BY DEF IInv, ServerInv
<1>3. ASSUME backlog' = Append(backlog, c)
      PROVE  /\ Len(backlog') = Len(backlog) + 1 /\ backlog'[Len(backlog')] = c
             /\ \A i \in 1 .. Len(backlog) : backlog'[i] = backlog[i]
  BY <1>2, <1>3
<1>4. ASSUME NEW d \in Clients
      PROVE  /\ InBacklog(d)' <=> InBacklog(d) \/ (d = c /\ backlog' = Append(backlog, c))
  <2>1. CASE UNCHANGED backlog
    <3>1. backlog # Append(backlog, c)
      <4>1. Len(Append(backlog, c)) # Len(backlog)
        BY <1>2
      <4> QED
        BY <4>1
    <3> QED
      BY <2>1, <3>1 DEF InBacklog
  <2>2. CASE backlog' = Append(backlog, c)
    <3>1. \A i \in 1 .. Len(backlog') : i \in 1 .. Len(backlog) \/ i = Len(backlog')
      BY <1>2, <1>3, <2>2
    <3>2. \A i \in 1 .. Len(backlog) : i \in 1 .. Len(backlog')
      BY <1>2, <1>3, <2>2
    <3>3. Len(backlog') \in 1 .. Len(backlog')
      BY <1>2, <1>3, <2>2
    <3> QED
      BY <1>3, <2>2, <3>1, <3>2, <3>3 DEF InBacklog
  <2> QED
    BY <2>1, <2>2
<1>5. ASSUME NEW d \in Clients \ {c}
      PROVE  /\ Waiting(d)' <=> Waiting(d)
             /\ Served(d)' <=> Served(d)
             /\ Words(d)' = Words(d)
  BY <1>1, <1>4 DEF Waiting, Served, Words
<1>6. /\ client'[c].state = "connected" => Waiting(c)'
      /\ client'[c].state = "sent" => Waiting(c)' \/ pc' = "exited"
      /\ backlog' = Append(backlog, c) => c # conn /\ ~InBacklog(c)
      /\ client'[c].state \in {"idle", "socket", "connect"} => ~InBacklog(c)' /\ c # conn'
  <2>1. backlog' = Append(backlog, c) => client[c].state = "connect"
    <3>1. backlog # Append(backlog, c)
      <4>1. Len(Append(backlog, c)) # Len(backlog)
        BY <1>2
      <4> QED
        BY <4>1
    <3> QED
      BY <3>1
  <2>2. backlog' = Append(backlog, c) => c # conn /\ ~InBacklog(c)
    BY <2>1 DEF AnswerInv, MailInv
  <2>3. client'[c].state = "connected" => Waiting(c)'
    BY <1>4 DEF Waiting
  <2>4. client'[c].state = "sent" => Waiting(c)' \/ pc' = "exited"
    <3>1. ASSUME client'[c].state = "sent", pc # "exited" PROVE Waiting(c)
      BY <3>1 DEF AnswerInv, MailInv
    <3>2. Waiting(c) => Waiting(c)'
      BY <1>1, <1>4 DEF Waiting
    <3> QED
      BY <1>1, <3>1, <3>2
  <2>5. client'[c].state \in {"idle", "socket", "connect"} => ~InBacklog(c)' /\ c # conn'
    <3>1. ASSUME client'[c].state \in {"idle", "socket", "connect"}
          PROVE  ~InBacklog(c) /\ c # conn /\ backlog' = backlog
      BY <3>1 DEF AnswerInv, MailInv
    <3> QED
      BY <1>1, <3>1 DEF InBacklog
  <2> QED
    BY <2>2, <2>3, <2>4, <2>5
<1>7. MailInv'
  <2>1. \A i, j \in 1 .. Len(backlog') : backlog'[i] = backlog'[j] => i = j
    <3>1. CASE UNCHANGED backlog
      BY <3>1 DEF AnswerInv, MailInv
    <3>2. CASE backlog' = Append(backlog, c)
      <4>1. \A i \in 1 .. Len(backlog) : backlog[i] # c
        BY <1>6, <3>2 DEF InBacklog
      <4>2. \A i \in 1 .. Len(backlog') : i \in 1 .. Len(backlog) \/ i = Len(backlog')
        BY <1>2, <1>3, <3>2
      <4>3. \A i, j \in 1 .. Len(backlog) : backlog[i] = backlog[j] => i = j
        BY DEF AnswerInv, MailInv
      <4> QED
        BY <1>3, <3>2, <4>1, <4>2, <4>3
    <3> QED
      BY <3>1, <3>2
  <2>2. ASSUME NEW d \in Clients
        PROVE  /\ client'[d].got \in Seq(Unit) /\ client'[d].inbox \in Seq(Seq(Strings))
               /\ client'[d].state # "sent" => client'[d].got = <<>>
               /\ client'[d].state \in {"idle", "socket", "connect", "connected"} =>
                     client'[d].inbox = <<>>
               /\ client'[d].state = "connected" => Waiting(d)' \/ pc' = "exited"
               /\ client'[d].state = "sent" => client'[d].asked \in Requests
               /\ client'[d].state = "sent" /\ Waiting(d)' =>
                     client'[d].got = <<>> /\ client'[d].inbox = client'[d].asked
               /\ client'[d].state \in {"idle", "socket", "connect"} =>
                     ~InBacklog(d)' /\ d # conn'
               /\ InBacklog(d)' => d # conn'
    <3>1. CASE d = c
      <4>1. InBacklog(c)' => c # conn'
        BY <1>1, <1>4, <1>6 DEF AnswerInv, MailInv
      <4>2. <<>> \in Seq(Unit)
        OBVIOUS
      <4> QED
        BY <1>6, <3>1, <4>1, <4>2
    <3>2. CASE d # c
      BY <1>1, <1>4, <1>5, <3>2 DEF AnswerInv, MailInv
    <3> QED
      BY <3>1, <3>2
  <2> QED
    BY <2>1, <2>2 DEF MailInv
<1>8. DoitInv'
  BY <1>1 DEF AnswerInv, DoitInv
<1>9. ServedInv'
  <2>1. ASSUME NEW d \in Clients, Served(d)', client'[d].state = "sent"
        PROVE  HasWith(d, client[d].got \o Rest)'
    <3>1. d # c
      <4>1. ASSUME d = c PROVE FALSE
        <5>1. Waiting(c)' /\ c = conn' /\ pc' # "request"
          BY <1>6, <2>1, <4>1 DEF Served, Serving
        <5>2. InBacklog(c)'
          BY <5>1 DEF Waiting
        <5> QED
          BY <5>1, <5>2, <1>7, <2>1, <4>1 DEF MailInv
      <4> QED
        BY <4>1
    <3>2. HasWith(d, client[d].got \o Rest)
      BY <1>5, <2>1, <3>1 DEF AnswerInv, ServedInv
    <3>3. (client[d].got \o Rest)' = client[d].got \o Rest /\ Words(d)' = Words(d)
      BY <1>1, <1>5, <3>1 DEF Rest
    <3>4. Goal' = Goal /\ Late' = Late /\ (Runs(filename)' <=> Runs(filename))
          /\ (Parsed(Words(d))' <=> Parsed(Words(d))) /\ (Asked(Words(d))' <=> Asked(Words(d)))
      BY <1>1, <3>3 DEF Goal, Late, Runs, File, Parsed, Asked
    <3> QED
      BY <1>1, <3>2, <3>3, <3>4 DEF HasWith
  <2> QED
    BY <2>1 DEF ServedInv
<1>10. GotInv'
  <2>1. Late' = Late
    BY <1>1 DEF Late
  <2>2. ASSUME NEW d \in Clients
        PROVE  /\ Begun(Words(d)', Late', client'[d].got)
               /\ client'[d].state = "sent" /\ ~Waiting(d)' /\ ~Served(d)' /\ pc' # "exited" =>
                     Whole(Words(d)', Late', client'[d].got)
    <3>1. CASE d = c
      BY <1>6, <3>1, NothingBegins
    <3>2. CASE d # c
      BY <1>1, <1>5, <2>1, <3>2 DEF AnswerInv, GotInv
    <3> QED
      BY <3>1, <3>2
  <2> QED
    BY <2>2 DEF GotInv
<1> QED
  BY <1>7, <1>8, <1>9, <1>10 DEF AnswerInv

LEMMA ClientAnswers ==
  ASSUME IInv, AnswerInv, NEW c \in Clients, Client(c) \/ Leave(c)
  PROVE  AnswerInv'
<1>1. UNCHANGED <<serverVars, child, changes>>
  BY DEF Client, Leave, Only, Start, ClientSocket, Connect, Send, ReadEOF, serverVars,
     outside
<1>2. /\ DOMAIN client = Clients
      /\ DOMAIN client[c] = {"state", "addrs", "socks", "asked", "inbox", "got"}
      /\ client[c].inbox \in Seq(Seq(Strings))
      /\ client[c].state # "sent" => client[c].got = <<>>
      /\ client[c].state \in {"idle", "socket", "connect", "connected"} => client[c].inbox = <<>>
  BY DEF IInv, ClientInv, AnswerInv, MailInv
<1>3. ClientStep(c)
  <2>1. CASE Start(c)
    BY <1>1, <1>2, <2>1 DEF Start, ClientStep
  <2>2. CASE ClientSocket(c)
    BY <1>1, <1>2, <2>2 DEF ClientSocket, ClientStep
  <2>3. CASE Connect(c)
    <3>1. CASE Listening(Head(client[c].addrs))
      BY <1>1, <1>2, <2>3, <3>1 DEF Connect, ClientStep
    <3>2. CASE ~Listening(Head(client[c].addrs))
      BY <1>1, <1>2, <2>3, <3>2 DEF Connect, ClientStep
    <3> QED
      BY <3>1, <3>2
  <2>4. CASE Send(c)
    <3>1. PICK r \in Requests :
            client' = [client EXCEPT ![c].state = "sent", ![c].asked = r, ![c].inbox = r]
      BY <2>4 DEF Send
    <3>2. r \in Seq(Seq(Strings))
      BY RequestWords
    <3> QED
      BY <1>1, <1>2, <2>4, <3>1, <3>2 DEF Send, ClientStep
  <2>5. CASE ReadEOF(c)
    <3>1. <<>> \in Seq(Seq(Strings))
      OBVIOUS
    <3> QED
      BY <1>1, <1>2, <2>5, <3>1 DEF ReadEOF, ClientStep, Over
  <2>6. CASE Leave(c)
    <3>1. PICK gone \in {"closed", "reset"}, sent \in Fragments :
            client' = [client EXCEPT ![c] = [Over(gone) EXCEPT !.inbox = client[c].inbox \o sent]]
      BY <2>6 DEF Leave
    <3>2. sent \in Seq(Seq(Strings))
      BY TinyAssumption, SeqOfStrings
    <3>3. PICK box \in Seq(Seq(Strings)) : box = client[c].inbox \o sent
      BY <1>2, <3>2, ConcatAt DEF Concat
    <3>4. /\ client'[c].state = gone /\ client'[c].got = <<>> /\ client'[c].inbox = box
          /\ \A d \in Clients \ {c} : client'[d] = client[d]
      BY <1>2, <3>1, <3>3 DEF Over
    <3> QED
      BY <1>1, <2>6, <3>4 DEF Leave, ClientStep
  <2> QED
    BY <2>1, <2>2, <2>3, <2>4, <2>5, <2>6 DEF Client
<1> QED
  BY <1>3, ClientMovesAnswers

(* A file changes: from then on a program may not be there any more. *)
LEMMA ChangeAnswers == IInv /\ AnswerInv /\ Change => AnswerInv'
<1> SUFFICES ASSUME IInv, AnswerInv, Change PROVE AnswerInv'
  OBVIOUS
<1>1. /\ UNCHANGED <<pc, conn, backlog, out, next, child, client, method, uri, filename, cgiargs,
                     is_static, sbuf>>
      /\ changes' = changes + 1 /\ DOMAIN files' = DOMAIN files
  BY DEF Change, doitVars
<1>2. changes \in Nat /\ Late' /\ Late' \in BOOLEAN /\ Late \in BOOLEAN
  BY <1>1, LateIsBoolean DEF AnswerInv, DoitInv, Late
<1>3. \A c \in Clients : /\ InBacklog(c)' <=> InBacklog(c)
                         /\ Waiting(c)' <=> Waiting(c)
                         /\ Served(c)' <=> Served(c)
                         /\ Words(c)' = Words(c)
  BY <1>1 DEF InBacklog, Waiting, Served, Words
<1>4. MailInv'
  BY <1>1, <1>3 DEF AnswerInv, MailInv
<1>5. DoitInv'
  BY <1>1, <1>2 DEF AnswerInv, DoitInv
<1>6. ServedInv'
  <2>1. ASSUME NEW c \in Clients, Served(c)', client'[c].state = "sent"
        PROVE  HasWith(c, client[c].got \o Rest)'
    <3>1. HasWith(c, client[c].got \o Rest)
      BY <1>1, <1>3, <2>1 DEF AnswerInv, ServedInv
    <3>2. (client[c].got \o Rest)' = client[c].got \o Rest /\ Goal' = Goal
      BY <1>1 DEF Rest, Goal
    <3>3. (Parsed(Words(c))' <=> Parsed(Words(c))) /\ (Asked(Words(c))' <=> Asked(Words(c)))
      BY <1>1, <1>3 DEF Parsed, Asked
    <3>4. /\ DynamicReply(Words(c), Late, client[c].got \o Rest) =>
                DynamicReply(Words(c), Late', client[c].got \o Rest)
          /\ Whole(Words(c), Late, client[c].got \o Rest) =>
                Whole(Words(c), Late', client[c].got \o Rest)
      BY <1>2, BegunLater
    <3> QED
      BY <1>1, <1>2, <1>3, <3>1, <3>2, <3>3, <3>4 DEF HasWith
  <2> QED
    BY <2>1 DEF ServedInv
<1>7. GotInv'
  <2>1. ASSUME NEW c \in Clients
        PROVE  /\ Begun(Words(c), Late, client[c].got) => Begun(Words(c), Late', client[c].got)
               /\ Whole(Words(c), Late, client[c].got) => Whole(Words(c), Late', client[c].got)
    BY <1>2, BegunLater
  <2> QED
    BY <1>1, <1>3, <2>1 DEF AnswerInv, GotInv
<1> QED
  BY <1>4, <1>5, <1>6, <1>7 DEF AnswerInv

LEMMA StutterAnswers == AnswerInv /\ UNCHANGED vars => AnswerInv'
<1> SUFFICES ASSUME AnswerInv, UNCHANGED vars PROVE AnswerInv'
  OBVIOUS
<1>1. UNCHANGED <<pc, conn, backlog, out, next, child, client, method, uri, filename, cgiargs,
                  is_static, sbuf, files, changes>>
  BY DEF vars, doitVars, outside
<1>2. MailInv'
  BY <1>1 DEF AnswerInv, MailInv, InBacklog, Waiting
<1>3. DoitInv'
  BY <1>1 DEF AnswerInv, DoitInv
<1>4. \A c \in Clients : /\ Words(c)' = Words(c) /\ (Served(c)' <=> Served(c))
                         /\ Waiting(c)' <=> Waiting(c)
  BY <1>1 DEF Words, Served, Waiting, InBacklog
<1>5. Goal' = Goal /\ Rest' = Rest /\ Late' = Late
  BY <1>1 DEF Goal, Rest, Late
<1>6. ServedInv'
  BY <1>1, <1>4, <1>5 DEF AnswerInv, ServedInv, HasWith, Runs, File, Parsed, Asked
<1>7. GotInv'
  BY <1>1, <1>4, <1>5 DEF AnswerInv, GotInv
<1> QED
  BY <1>2, <1>3, <1>6, <1>7 DEF AnswerInv
-----------------------------------------------------------------------------
LEMMA StepAnswers == IInv /\ AnswerInv /\ [Next]_vars => AnswerInv'
<1> SUFFICES ASSUME IInv, AnswerInv, [Next]_vars PROVE AnswerInv'
  OBVIOUS
<1>1. CASE Server
  BY <1>1, StartupAnswers, AcceptAnswers, CloseAnswers, ReadRequestAnswers, NoRequestAnswers,
     ReadHeaderAnswers, StatAnswers, Rio_writenAnswers, OpenAnswers, MmapAnswers,
     MunmapAnswers, ForkAnswers, WaitAnswers, ExitAnswers DEF Server
<1>2. CASE Child
  BY <1>2, Dup2Answers, ExecveAnswers, AdderAnswers DEF Child
<1>3. CASE \E c \in Clients : Client(c) \/ Leave(c)
  BY <1>3, ClientAnswers
<1>4. CASE Change
  BY <1>4, ChangeAnswers
<1>5. CASE UNCHANGED vars
  BY <1>5, StutterAnswers
<1> QED
  BY <1>1, <1>2, <1>3, <1>4, <1>5 DEF Next

LEMMA AnswersAlways == Spec => [](IInv /\ AnswerInv)
<1>1. IInv /\ AnswerInv /\ [Next]_vars => (IInv /\ AnswerInv)'
  BY StepKeeps, StepAnswers
<1>2. Init => IInv /\ AnswerInv
  BY InitEstablishes, InitAnswers
<1> QED
  BY <1>1, <1>2, PTL DEF Spec
(* What a client receives begins one well-formed response, although the    *)
(* server and the program that it forks both write it, and lines of the    *)
(* log are in it only when the program was changed after stat - or could   *)
(* never run (doit, serve_static, serve_dynamic, Execve).                  *)
THEOREM TinyWellFormed == ProgramsRun /\ Spec => []WellFormed
<1>1. ProgramsRun => []ProgramsRun
  <2>1. ProgramsRun => ProgramsRun'
    BY DEF ProgramsRun
  <2> QED
    BY <2>1, PTL
<1>2. ProgramsRun /\ IInv /\ AnswerInv => WellFormed
  BY AnswerImplies
<1> QED
  BY <1>1, <1>2, AnswersAlways, PTL

(* A response that is over has the length that its header says, however    *)
(* files changed between stat, open and mmap (serve_static, adder.c).      *)
THEOREM TinyLengthKept == Spec => []LengthKept
<1>1. IInv /\ AnswerInv => LengthKept
  BY AnswerImplies
<1> QED
  BY <1>1, AnswersAlways, PTL

(* A client whose request line names a URI gets the pages of that file, or  *)
(* of that sum, and no others, whatever the clients before it left in the   *)
(* locals of doit.  Other pages may reach only a client whose line is empty *)
(* or a bare GET, for which sscanf leaves the URI of an earlier request,    *)
(* tiny.c 63 (doit, parse_uri, serve_dynamic).                              *)
THEOREM TinyOwnAnswer == Spec => []OwnAnswer
<1>1. IInv /\ AnswerInv => OwnAnswer
  BY AnswerImplies
<1> QED
  BY <1>1, AnswersAlways, PTL
=============================================================================
