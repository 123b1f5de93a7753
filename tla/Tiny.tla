-------------------------------- MODULE Tiny --------------------------------
(***************************************************************************)
(* The iterative Web server tiny.c with its wrappers (tiny/csapp.c), the   *)
(* CGI program adder.c that it forks, its clients, which connect with      *)
(* open_clientfd, and the owner of its files, who may change them.         *)
(*                                                                         *)
(* A URI is the sequence of its parts, a line of a request the sequence of *)
(* its words, and a response the sequence of what is written: lines of the *)
(* header, lines of the page that reports an error, pages of a file.       *)
(***************************************************************************)
EXTENDS Integers, FiniteSets, SequencesExt

CONSTANTS Clients, NoClient,
          ServerAddresses, ClientAddresses,   \* what getaddrinfo gives
          TakenAddresses,    \* those that cannot be bound, and where nobody listens
          Terminal,          \* is stdout one: its buffer then holds no finished line
          Files,             \* the files at the start: names to attributes
          Attributes,        \* what their owner may turn one into
          MaxChanges,        \* bound: how often
          Requests,          \* what clients send
          Fragments          \* what they send when they break off
ASSUME TinyAssumption ==
    /\ NoClient \notin Clients /\ MaxChanges \in Nat /\ Terminal \in BOOLEAN
    /\ Requests \subseteq Seq(Seq(STRING)) /\ Fragments \subseteq Seq(Seq(STRING))
    /\ \A r \in Requests : r # <<>> /\ Last(r) = <<>>
    /\ ServerAddresses \in Seq(STRING) /\ ClientAddresses \in Seq(STRING)
    /\ {"src"} \cap Range(ServerAddresses) = {}
    /\ Clients \cap (Range(ServerAddresses) \cup {"src"}) = {}
    /\ \A name \in DOMAIN Files : Files[name].size \in Nat
    /\ \A a \in Attributes : a.size \in Nat

VARIABLES pc,                \* where the server is
          addrs,             \* addresses to try
          fds,               \* the descriptors the server has open
          backlog, conn,     \* connections to accept, and the one it serves
          method, uri, filename, cgiargs, is_static, sbuf,   \* doit's locals
          out, next,         \* what is to be written, and where the server goes then
          pages, mapped,     \* the pages behind the open file, and is it mapped
          logged,            \* is anything in stdout's buffer
          child,             \* the process it forked
          files, changes,
          client             \* the clients

doitVars == <<method, uri, filename, cgiargs, is_static, sbuf>>
fileVars == <<pages, mapped>>
outside == <<files, changes>>
vars == <<pc, addrs, fds, backlog, conn, doitVars, out, next, fileVars, logged, child,
          client, outside>>

NoChild == [state |-> "none", logged |-> FALSE, args |-> <<>>]
Missing == [type |-> "none", size |-> 0, r |-> FALSE, x |-> FALSE]
File(name) == IF name \in DOMAIN files THEN files[name] ELSE Missing

(* A client that holds no connection: what it has read it may forget. *)
Over(state) == [state |-> state, addrs |-> <<>>, socks |-> 0,
                asked |-> <<>>, inbox |-> <<>>, got |-> <<>>]

(* What was on the stack before the first request. *)
Junk == "junk"

Init ==
    /\ pc = "start" /\ addrs = <<>> /\ fds = {}
    /\ backlog = <<>> /\ conn = NoClient
    /\ method = Junk /\ uri = <<Junk>> /\ filename = <<Junk>> /\ cgiargs = <<Junk>>
    /\ is_static = TRUE /\ sbuf = 0
    /\ out = <<>> /\ next = "close" /\ pages = 0 /\ mapped = FALSE
    /\ logged = FALSE /\ child = NoChild
    /\ files = Files /\ changes = 0
    /\ client = [c \in Clients |-> Over("idle")]
-----------------------------------------------------------------------------
(* unix_error: the server ends, and the kernel closes what it had open. *)
unix_error ==
    /\ pc' = "exited" /\ fds' = {} /\ mapped' = FALSE
    /\ UNCHANGED <<addrs, backlog, conn, doitVars, out, next, pages, logged, child, client,
                   outside>>

(* open_listenfd: the first address that a socket can be bound to. *)
GetAddrInfo ==
    /\ pc = "start" /\ pc' = "socket" /\ addrs' = ServerAddresses
    /\ UNCHANGED <<fds, backlog, conn, doitVars, out, next, fileVars, logged, child, client,
                   outside>>

Socket ==
    /\ pc = "socket" /\ addrs # <<>>
    /\ \/ pc' = "bind" /\ fds' = fds \cup {Head(addrs)} /\ UNCHANGED addrs
       \/ addrs' = Tail(addrs) /\ UNCHANGED <<pc, fds>>
    /\ UNCHANGED <<backlog, conn, doitVars, out, next, fileVars, logged, child, client,
                   outside>>

BindKeepsSocket ==                    \* Mutant: a socket that is not bound stays open.
    /\ pc = "bind"
    /\ IF Head(addrs) \notin TakenAddresses THEN pc' = "listen" /\ UNCHANGED <<fds, addrs>>
       ELSE pc' = "socket" /\ addrs' = Tail(addrs) /\ UNCHANGED fds
    /\ UNCHANGED <<backlog, conn, doitVars, out, next, fileVars, logged, child, client,
                   outside>>

Bind ==
    /\ pc = "bind"
    /\ IF Head(addrs) \notin TakenAddresses THEN pc' = "listen" /\ UNCHANGED <<fds, addrs>>
       ELSE pc' = "socket" /\ fds' = fds \ {Head(addrs)} /\ addrs' = Tail(addrs)
    /\ UNCHANGED <<backlog, conn, doitVars, out, next, fileVars, logged, child, client,
                   outside>>

Listen ==
    /\ pc = "listen" /\ pc' = "accept"
    /\ UNCHANGED <<addrs, fds, backlog, conn, doitVars, out, next, fileVars, logged, child,
                   client, outside>>

(* Open_listenfd ends the server when getaddrinfo or listen fails, or no    *)
(* address is left.                                                        *)
Open_listenfdFails ==
    pc \in {"start", "listen"} \/ (pc = "socket" /\ addrs = <<>>)
-----------------------------------------------------------------------------
(* main: the next connection. *)
Accept ==
    /\ pc = "accept" /\ backlog # <<>>
    /\ conn' = Head(backlog) /\ backlog' = Tail(backlog)
    /\ fds' = fds \cup {conn'} /\ logged' = ~Terminal /\ pc' = "request"
    /\ UNCHANGED <<addrs, doitVars, out, next, fileVars, child, client, outside>>

Header(line) == [what |-> line, n |-> 0, of |-> <<>>]
Length(n) == [what |-> "Content-length", n |-> n, of |-> <<>>]
Page(n, of) == [what |-> "page", n |-> n, of |-> of]

(* clienterror: two lines of header, five of a page. *)
clienterror(errnum) ==
    <<Header(errnum), Header("text/html")>> \o [k \in 1 .. 5 |-> Header("error page")]

get_filetype(name) ==
    CASE Last(name) = "home.html" -> "text/html"
      [] Last(name) = "godzilla.gif" -> "image/gif"
      [] OTHER -> "text/plain"

StaticHeader(name, filesize) ==
    <<Header("200"), Header("Server"), Length(filesize), Header(get_filetype(name))>>
DynamicHeader == <<Header("200"), Header("Server")>>

(* The lines are written, and the server goes on at then. *)
Write(lines, then) == pc' = "write" /\ out' = lines /\ next' = then

(* Rio_readlineb: a client's lines, then the end of its data, or an error. *)
AtEOF == client[conn].inbox = <<>> /\ client[conn].state = "closed"
HasLine == client[conn].inbox # <<>>
line == Head(client[conn].inbox)
TakeLine == client' = [client EXCEPT ![conn].inbox = Tail(@)]

ReadRequestGoesOn ==                  \* Mutant: no return after the error.
    /\ pc = "request" /\ HasLine /\ TakeLine /\ logged' = ~Terminal
    /\ IF Len(line) >= 1 THEN method' = line[1] ELSE method' \in {method, Junk}
    /\ IF Len(line) >= 2 THEN uri' = Tail(line) ELSE uri' \in {uri, <<Junk>>}
    /\ IF method' = "GET" THEN pc' = "headers1" /\ UNCHANGED <<out, next>>
       ELSE Write(clienterror("501"), "headers1")
    /\ UNCHANGED <<addrs, fds, backlog, conn, filename, cgiargs, is_static, sbuf, fileVars,
                   child, outside>>

(* doit: the request line.  sscanf leaves what it finds no word for as it   *)
(* was on the stack, which an earlier call may have written.               *)
ReadRequest ==
    /\ pc = "request" /\ HasLine /\ TakeLine /\ logged' = ~Terminal
    /\ IF Len(line) >= 1 THEN method' = line[1] ELSE method' \in {method, Junk}
    /\ IF Len(line) >= 2 THEN uri' = Tail(line) ELSE uri' \in {uri, <<Junk>>}
    /\ IF method' = "GET" THEN pc' = "headers1" /\ UNCHANGED <<out, next>>
       ELSE Write(clienterror("501"), "close")
    /\ UNCHANGED <<addrs, fds, backlog, conn, filename, cgiargs, is_static, sbuf, fileVars,
                   child, outside>>

NoRequest ==
    /\ pc = "request" /\ AtEOF /\ pc' = "close"
    /\ UNCHANGED <<addrs, fds, backlog, conn, doitVars, out, next, fileVars, logged, child,
                   client, outside>>

parse_uriKeepsArgs(u) ==              \* Mutant: cgiargs is not cleared.
    LET q == SelectInSeq(u, LAMBDA part : part = "?")
    IN  IF ~Contains(u, "cgi-bin")
        THEN [static |-> TRUE, args |-> <<>>, uri |-> u,
              name |-> u \o (IF Last(u) = "/" THEN <<"home.html">> ELSE <<>>)]
        ELSE IF q = 0 THEN [static |-> FALSE, args |-> cgiargs, uri |-> u, name |-> u]
        ELSE [static |-> FALSE, args |-> SubSeq(u, q + 1, Len(u)),
              uri |-> SubSeq(u, 1, q - 1), name |-> SubSeq(u, 1, q - 1)]

(* parse_uri: it cuts the URI at its "?". *)
parse_uri(u) ==
    LET q == SelectInSeq(u, LAMBDA part : part = "?")
    IN  IF ~Contains(u, "cgi-bin")
        THEN [static |-> TRUE, args |-> <<>>, uri |-> u,
              name |-> u \o (IF Last(u) = "/" THEN <<"home.html">> ELSE <<>>)]
        ELSE IF q = 0 THEN [static |-> FALSE, args |-> <<>>, uri |-> u, name |-> u]
        ELSE [static |-> FALSE, args |-> SubSeq(u, q + 1, Len(u)),
              uri |-> SubSeq(u, 1, q - 1), name |-> SubSeq(u, 1, q - 1)]

EndHeaders ==
    LET parsed == parse_uri(uri)
    IN  /\ pc' = "stat" /\ is_static' = parsed.static /\ cgiargs' = parsed.args
        /\ uri' = parsed.uri /\ filename' = parsed.name

(* read_requesthdrs: up to the empty line.  At the end of the data buf     *)
(* stays as it is: the loop goes on for ever, unless no line was read and  *)
(* the stack holds an empty line.                                          *)
ReadHeader ==
    /\ pc \in {"headers1", "headers"} /\ logged' = ~Terminal
    /\ \/ /\ HasLine /\ TakeLine
          /\ IF line = <<>> THEN EndHeaders
             ELSE pc' = "headers" /\ UNCHANGED <<uri, filename, cgiargs, is_static>>
       \/ /\ pc = "headers1" /\ AtEOF /\ UNCHANGED client
          /\ \/ EndHeaders
             \/ pc' = "headers" /\ UNCHANGED <<uri, filename, cgiargs, is_static>>
    /\ UNCHANGED <<addrs, fds, backlog, conn, method, sbuf, out, next, fileVars, child,
                   outside>>

(* doit: stat, and what may be done with the file. *)
Permission(f) ==
    IF f.type = "none" THEN "404"
    ELSE IF f.type # "file" \/ (is_static /\ ~f.r) \/ (~is_static /\ ~f.x) THEN "403"
    ELSE "200"

Stat ==
    LET f == File(filename)
    IN  /\ pc = "stat" /\ sbuf' = f.size
        /\ IF Permission(f) # "200" THEN Write(clienterror(Permission(f)), "close")
           ELSE IF is_static THEN Write(StaticHeader(filename, f.size), "open")
           ELSE Write(DynamicHeader, "fork")
        /\ UNCHANGED <<addrs, fds, backlog, conn, method, uri, filename, cgiargs, is_static,
                       fileVars, logged, child, client, outside>>

(* Rio_writen, of one unit: to a client that has gone it may end the server *)
(* (SIGPIPE, or unix_error), and so does a page that the file lost.        *)
Reaches(c, units) ==
    client' = IF client[c].state # "sent" THEN client
              ELSE [client EXCEPT ![c].got = @ \o units]
PageLost == out # <<>> /\ Head(out).what = "page" /\ Head(out).n > pages
Rio_writen ==
    /\ pc = "write" /\ out # <<>> /\ ~PageLost /\ client[conn].state # "reset"
    /\ Reaches(conn, <<Head(out)>>) /\ out' = Tail(out)
    /\ pc' = IF out' = <<>> THEN next ELSE "write"
    /\ UNCHANGED <<addrs, fds, backlog, conn, doitVars, next, fileVars, logged, child,
                   outside>>
-----------------------------------------------------------------------------
(* serve_static: open; mmap and close; write; munmap. *)
Openable == LET f == File(filename) IN f.type = "file" /\ f.r
Open ==
    /\ pc = "open" /\ Openable
    /\ pc' = "mmap" /\ fds' = fds \cup {"src"} /\ pages' = File(filename).size
    /\ UNCHANGED <<addrs, backlog, conn, doitVars, out, next, mapped, logged, child, client,
                   outside>>

BodyOfFile(filesize) ==               \* Mutant: what the file holds is written.
    [k \in 1 .. pages |-> Page(k, filename)]
Body(filesize) == [k \in 1 .. filesize |-> Page(k, filename)]

Mmap ==
    /\ pc = "mmap" /\ sbuf # 0
    /\ mapped' = TRUE /\ fds' = fds \ {"src"} /\ Write(Body(sbuf), "munmap")
    /\ UNCHANGED <<addrs, backlog, conn, doitVars, pages, logged, child, client, outside>>

Munmap ==
    /\ pc = "munmap" /\ mapped' = FALSE /\ pages' = 0 /\ pc' = "close"
    /\ UNCHANGED <<addrs, fds, backlog, conn, doitVars, out, next, logged, child, client,
                   outside>>

(* serve_dynamic: the child has a copy of what stdout's buffer holds. *)
Fork ==
    /\ pc = "fork" /\ pc' = "wait"
    /\ child' = [state |-> "new", logged |-> logged, args |-> cgiargs]
    /\ UNCHANGED <<addrs, fds, backlog, conn, doitVars, out, next, fileVars, logged, client,
                   outside>>

Wait ==
    /\ pc = "wait" /\ child.state = "zombie" /\ child' = NoChild /\ pc' = "close"
    /\ UNCHANGED <<addrs, fds, backlog, conn, doitVars, out, next, fileVars, logged, client,
                   outside>>

Returned ==                           \* from doit: only three of its locals may be seen again
    /\ filename' = <<Junk>> /\ is_static' = TRUE /\ sbuf' = 0 /\ next' = "close"
    /\ UNCHANGED <<method, uri, cgiargs>>

CloseForgets ==                       \* Mutant: the connection stays open.
    /\ pc = "close" /\ pc' = "accept" /\ conn' = NoClient /\ Returned
    /\ UNCHANGED <<addrs, fds, backlog, out, fileVars, logged, child, client, outside>>
Close ==
    /\ pc = "close" /\ pc' = "accept" /\ fds' = fds \ {conn} /\ conn' = NoClient /\ Returned
    /\ UNCHANGED <<addrs, backlog, out, fileVars, logged, child, client, outside>>

(* Where a wrapper may find an error. *)
Fails ==
    \/ Open_listenfdFails
    \/ pc \in {"request", "headers1", "headers", "write"} /\ client[conn].state = "reset"
    \/ pc = "write" /\ (PageLost \/ client[conn].state = "closed")
    \/ pc = "open" /\ ~Openable
    \/ pc = "mmap" /\ sbuf = 0
    \/ pc = "fork"
Exit == Fails /\ unix_error
-----------------------------------------------------------------------------
(* The child: Dup2 makes the connection its stdout. *)
Dup2 ==
    /\ child.state = "new" /\ child' = [child EXCEPT !.state = "exec"]
    /\ UNCHANGED <<pc, addrs, fds, backlog, conn, doitVars, out, next, fileVars, logged,
                   client, outside>>

(* Execve; when it fails, exit writes out the copy of the server's log. *)
Execve ==
    LET f == File(filename)
        runs == f.type = "file" /\ f.x /\ f.size > 0
    IN  /\ child.state = "exec"
        /\ IF runs
           THEN child' = [child EXCEPT !.state = "adder", !.logged = FALSE] /\ UNCHANGED client
           ELSE /\ child' = [child EXCEPT !.state = "zombie"]
                /\ Reaches(conn, IF child.logged THEN <<Header("log")>> ELSE <<>>)
        /\ UNCHANGED <<pc, addrs, fds, backlog, conn, doitVars, out, next, fileVars, logged,
                       outside>>

(* adder.c: no "&", and it is killed before it prints.  Its sprintf from   *)
(* content into content is undefined: the earlier parts may be lost.       *)
Output(args, parts) ==
    <<Header("Connection"), Length(parts), Header("text/html")>>
        \o [k \in 1 .. parts |-> Page(k, args)]
Adder ==
    /\ child.state = "adder" /\ child' = [child EXCEPT !.state = "zombie"]
    /\ IF Contains(child.args, "&")
       THEN \E parts \in 1 .. 2 : Reaches(conn, Output(child.args, parts))
       ELSE UNCHANGED client
    /\ UNCHANGED <<pc, addrs, fds, backlog, conn, doitVars, out, next, fileVars, logged,
                   outside>>
-----------------------------------------------------------------------------
(* The clients.  open_clientfd tries the addresses in turn. *)
Only(c) ==
    UNCHANGED <<pc, addrs, fds, conn, doitVars, out, next, fileVars, logged, child, outside>>
Start(c) ==
    /\ client[c].state = "idle"
    /\ client' = [client EXCEPT ![c].state = "socket", ![c].addrs = ClientAddresses]
    /\ Only(c) /\ UNCHANGED backlog

ClientSocket(c) ==
    /\ client[c].state = "socket" /\ Only(c) /\ UNCHANGED backlog
    /\ IF client[c].addrs = <<>> THEN client' = [client EXCEPT ![c].state = "failed"]
       ELSE \/ client' = [client EXCEPT ![c].state = "connect", ![c].socks = @ + 1]
            \/ client' = [client EXCEPT ![c].addrs = Tail(@)]

Listening(addr) == addr \in fds /\ pc \notin {"socket", "bind", "listen"}
Connect(c) ==
    /\ client[c].state = "connect" /\ Only(c)
    /\ IF Listening(Head(client[c].addrs))
       THEN /\ client' = [client EXCEPT ![c].state = "connected"]
            /\ backlog' = Append(backlog, c)
       ELSE /\ client' = [client EXCEPT ![c].state = "socket", ![c].addrs = Tail(@),
                                        ![c].socks = @ - 1]
            /\ UNCHANGED backlog

Send(c) ==
    /\ client[c].state = "connected" /\ Only(c) /\ UNCHANGED backlog
    /\ \E r \in Requests :
          client' = [client EXCEPT ![c].state = "sent", ![c].asked = r, ![c].inbox = r]

(* A client goes, maybe in the middle of its request; what the server has  *)
(* not read it may lose.                                                   *)
Leave(c) ==
    /\ client[c].state \in {"connected", "sent"} /\ Only(c) /\ UNCHANGED backlog
    /\ \E gone \in {"closed", "reset"}, sent \in Fragments :
          /\ client[c].state = "sent" => sent = <<>>
          /\ client' = [client EXCEPT ![c] = [Over(gone) EXCEPT !.inbox = client[c].inbox \o sent]]

(* The server and its child have closed the connection. *)
Ended(c) ==
    /\ c \notin fds /\ (pc = "exited" \/ ~Contains(backlog, c))
    /\ ~(child.state \in {"new", "exec", "adder"} /\ conn = c)
ReadEOF(c) ==
    /\ client[c].state \in {"connected", "sent"} /\ Ended(c) /\ Only(c) /\ UNCHANGED backlog
    /\ client' = [client EXCEPT ![c] = Over("done")]

(* Somebody changes a file, in place, or removes it: then those who have    *)
(* opened it keep it.                                                      *)
Change ==
    /\ changes < MaxChanges /\ pc # "exited" /\ changes' = changes + 1
    /\ \E name \in DOMAIN files, a \in Attributes :
          /\ files[name].type = "file" /\ a # files[name] /\ files' = [files EXCEPT ![name] = a]
          /\ pages' = IF name = filename /\ a.type = "file" /\ (mapped \/ "src" \in fds)
                      THEN a.size ELSE pages
    /\ UNCHANGED <<pc, addrs, fds, backlog, conn, doitVars, out, next, mapped, logged, child,
                   client>>

Server == \/ GetAddrInfo \/ Socket \/ Bind \/ Listen \/ Accept \/ Close
          \/ ReadRequest \/ NoRequest \/ ReadHeader \/ Stat \/ Rio_writen
          \/ Open \/ Mmap \/ Munmap \/ Fork \/ Wait \/ Exit
Child == Dup2 \/ Execve \/ Adder
Client(c) == Start(c) \/ ClientSocket(c) \/ Connect(c) \/ Send(c) \/ ReadEOF(c)

Next == Server \/ Child \/ Change \/ \E c \in Clients : Client(c) \/ Leave(c)

(* The scheduler runs every process, and a client that is connected does   *)
(* not stay silent: it sends a request, or it goes.                        *)
Fairness == WF_vars(Server) /\ WF_vars(Child) /\ \A c \in Clients : WF_vars(Client(c))
Spec == Init /\ [][Next]_vars /\ Fairness
-----------------------------------------------------------------------------
TypeOK ==
    /\ pc \in {"start", "socket", "bind", "listen", "accept", "request", "headers1",
               "headers", "stat", "write", "open", "mmap", "munmap", "fork", "wait", "close",
               "exited"}
    /\ conn \in Clients \cup {NoClient} /\ sbuf \in Nat /\ pages \in Nat /\ mapped \in BOOLEAN
    /\ fds \subseteq Range(ServerAddresses) \cup Clients \cup {"src"}
    /\ child.state \in {"none", "new", "exec", "adder", "zombie"}
    /\ child # NoChild => pc = "wait"
    /\ \A c \in Clients : client[c].state \in {"idle", "socket", "connect", "connected", "sent",
                                               "closed", "reset", "done", "failed"}

(* Whatever the last client did, the server that waits for the next one    *)
(* has one descriptor, the socket it listens to, no child and no mapping   *)
(* (open_listenfd, main, serve_static, serve_dynamic).                     *)
NothingLeaks ==
    pc = "accept" => fds = {Head(addrs)} /\ child = NoChild /\ ~mapped

(* open_clientfd leaves one socket open, and none when it fails. *)
OneSocket ==
    \A c \in Clients :
        client[c].socks = IF client[c].state \in {"connect", "connected", "sent"} THEN 1 ELSE 0

(* What a client receives begins one well-formed response, although two    *)
(* processes write it; lines of the server's log are in it only when the   *)
(* program was changed after stat (serve_dynamic, Execve).                 *)
WellFormed ==
    \A c \in Clients :
        LET got == client[c].got
            static(f, n) == StaticHeader(f, n) \o [k \in 1 .. n |-> Page(k, f)]
        IN  \/ \E errnum \in {"403", "404", "501"} : IsPrefix(got, clienterror(errnum))
            \/ Len(got) >= 3 /\ got[3].what = "Content-length"
               /\ \E f \in DOMAIN Files : IsPrefix(got, static(f, got[3].n))
            \/ IsPrefix(got, DynamicHeader)
            \/ got = DynamicHeader \o <<Header("log")>> /\ changes > 0
            \/ Len(got) > 5 /\ got = DynamicHeader \o Output(got[6].of, Len(got) - 5)

Delivered(c) == client[c].state = "sent" /\ Ended(c) /\ pc # "exited"

(* A response has the length it says, however the file changed, unless the *)
(* server ended (serve_static).                                            *)
LengthKept ==
    \A c \in Clients : \A k \in DOMAIN client[c].got :
        LET got == client[c].got
        IN  Delivered(c) /\ got[k].what = "Content-length" =>
                Cardinality({i \in DOMAIN got : got[i].what = "page"}) = got[k].n

(* A client gets the pages of the file that it names, or of the sum, and   *)
(* nothing of what an earlier client asked for - unless its request line   *)
(* is empty or a bare GET: then sscanf leaves the URI of an earlier        *)
(* request, tiny.c 63, and whose page it gets is not said here (doit,      *)
(* parse_uri).                                                             *)
OwnAnswer ==
    \A c \in Clients : \A k \in DOMAIN client[c].got :
        LET got == client[c].got
            words == client[c].asked[1]
        IN  got[k].what = "page" =>
                IF Len(words) < 2 THEN words \in {<<>>, <<"GET">>}
                ELSE /\ words[1] = "GET"
                     /\ IF Contains(words, "cgi-bin") THEN IsSuffix(<<"?">> \o got[k].of, words)
                        ELSE IsPrefix(Tail(words), got[k].of)

Spins == pc = "headers" /\ AtEOF

(* Every client that is connected gets the end of a response, unless the   *)
(* server ended or waits for ever for the header of a client that has gone *)
(* (main, read_requesthdrs).                                               *)
Answered ==
    \A c \in Clients :
        client[c].state = "connected" ~>
            client[c].state \in {"done", "closed", "reset"} \/ pc = "exited" \/ Spins
(* What was opened, forked or mapped for a connection is gone after it, on *)
(* both sides (open_listenfd, open_clientfd, main, serve_static,           *)
(* serve_dynamic).                                                         *)
TinyInv == TypeOK /\ NothingLeaks /\ OneSocket

=============================================================================
