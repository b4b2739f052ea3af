-------------------------------- MODULE Http --------------------------------
(***************************************************************************)
(* mp1: the web server (mp1/src/http_server.c), a parent that forks a      *)
(* child for each connection, and clients (mp1/src/http_client.c) that     *)
(* take a URL apart, ask for its file and save what they are sent.         *)
(*                                                                         *)
(* Between a child and its client there is a TCP connection: a stream of   *)
(* bytes in order, of which one recv() takes any non-empty part that fits  *)
(* the buffer.  A byte of a file is "x", or "0" when it is NUL.  A reply   *)
(* begins with a header of one symbol for the status line and the four     *)
(* bytes \r \n \r \n.                                                      *)
(*                                                                         *)
(* A URL is a sequence of characters, a request the characters of its path *)
(* between "GET /" and the rest, each of which stands as one symbol.       *)
(*                                                                         *)
(* Undefined behaviour.  The client looks for the header's \r, and for the *)
(* end of the body, with strstr() and strlen().  Without \r the process    *)
(* dies.  When the buffer is full, strlen() runs on behind it, and bytes   *)
(* that were never sent ("?") may be saved.  A URL without ':', without    *)
(* '/' behind the host, or with a ':' in its path makes strncpy() copy a   *)
(* negative length, or names a host read from behind the URL: the client   *)
(* ends without a connection.                                              *)
(***************************************************************************)
EXTENDS ByteStream

CONSTANTS
    Clients,
    Urls,           \* the URLs each client may be started with
    ServerHost,     \* where the server is, and the port it is started with
    ServerPort,
    Files,          \* a function: the contents of the files that exist
    FN_LENGTH,      \* the size of the buffers, 4096 in both programs
    BACKLOG         \* the connections the kernel keeps for accept()

ASSUME HttpAssumption ==
    /\ \A c \in Clients : \A u \in Urls[c] : u \in Seq(ToSet(u))
    /\ <<>> \notin DOMAIN Files
    /\ \A n \in DOMAIN Files : Files[n] \in Seq({"x", "0"})
    /\ FN_LENGTH \in Nat /\ FN_LENGTH > 5
    /\ BACKLOG \in Nat \ {0}

VARIABLES
    cpc,            \* where each client is
    url,            \* the URL it was started with
    output,         \* the file it saves to
    clean,          \* history: what its first recv() brought
    server,         \* whether the parent listens
    backlog,        \* the connections that wait for accept()
    child,          \* where the child of each connection is
    got,            \* what the child's only recv() brought of the request
    unread,         \* what the child has not read of its file yet
    stream          \* the bytes on their way to each client

clientVars == <<cpc, url, output, clean>>
childVars == <<child, got, unread, stream>>
serverVars == <<server, backlog, childVars>>
vars == <<clientVars, serverVars>>

Statuses == {"200", "400", "404"}

HeaderLength == 5
Header(status) == <<status, "\r", "\n", "\r", "\n">>

Init ==
    /\ cpc = [c \in Clients |-> "start"]
    /\ url \in [Clients -> UNION {Urls[c] : c \in Clients}]
    /\ \A c \in Clients : url[c] \in Urls[c]
    /\ output = [c \in Clients |-> <<>>]
    /\ clean = [c \in Clients |-> "unknown"]
    /\ server = "starting"
    /\ backlog = <<>>
    /\ child = [c \in Clients |-> "none"]
    /\ got = [c \in Clients |-> <<>>]
    /\ unread = [c \in Clients |-> <<>>]
    /\ stream = [c \in Clients |-> <<>>]

----------------------------------------------------------------------------
\* Mutant: the copy of the path begins two characters behind, as the port's does.
PathBehind_SkipsTwo(rest, slash) == From(rest, slash + 2)

PathBehind(rest, slash) == From(rest, slash + 1)

\* The client takes a URL apart: the host begins three characters behind the
\* first ':', and a further ':' anywhere behind it is taken for the port's.
Extract(u) ==
    LET rest  == From(u, Strchr(u, ":") + 3)
        colon == Strchr(rest, ":")
        slash == Strchr(rest, "/")
    IN  [ok   |-> /\ Strchr(u, ":") # 0
                  /\ colon < slash,
         host |-> SubSeq(rest, 1, (IF colon = 0 THEN slash ELSE colon) - 1),
         port |-> IF colon = 0 THEN <<"8", "0">> ELSE SubSeq(rest, colon + 1, slash - 1),
         path |-> PathBehind(rest, slash)]

Request(c) == <<"GET /">> \o Extract(url[c]).path \o <<" ", "headers">>

\* Whether connect() finds the server.
Reaches(c) ==
    LET asked == Extract(url[c])
    IN  /\ asked.ok
        /\ asked.host = ServerHost
        /\ asked.port = ServerPort
        /\ server = "listening"

\* The client connects, sends its request and opens the file `output`.
Connect(c) ==
    /\ cpc[c] = "start"
    /\ Reaches(c)
    /\ Len(backlog) < BACKLOG
    /\ backlog' = Append(backlog, c)
    /\ cpc' = [cpc EXCEPT ![c] = "first"]
    /\ UNCHANGED <<url, output, clean, server, childVars>>

\* The URL cannot be taken apart, there is no such host, or nobody listens.
ConnectFails(c) ==
    /\ cpc[c] = "start"
    /\ ~ Reaches(c)
    /\ cpc' = [cpc EXCEPT ![c] = "failed"]
    /\ UNCHANGED <<url, output, clean, serverVars>>

\* The parent binds its port and listens, or ends because it cannot.
Start ==
    /\ server = "starting"
    /\ server' \in {"listening", "failed"}
    /\ UNCHANGED <<clientVars, backlog, childVars>>

\* The parent's loop: accept() and fork().  When fork() fails there is no child,
\* and the parent closes the connection as it always does.
Accept ==
    /\ backlog # <<>>
    /\ \E start \in {"request", "closed"} :
        child' = [child EXCEPT ![Head(backlog)] = start]
    /\ backlog' = Tail(backlog)
    /\ UNCHANGED <<clientVars, server, got, unread, stream>>

Sends(c, bytes) == stream' = [stream EXCEPT ![c] = @ \o bytes]

\* The client is gone: sooner or later a send() fails, or its signal ends the child.
Gone(c) == cpc[c] \in {"done", "failed"}

\* Mutant: the connection is left open, and the child goes on waiting.
CloseChild_LeavesOpen(c) == child' = [child EXCEPT ![c] = "open"]

CloseChild(c) == child' = [child EXCEPT ![c] = "closed"]

\* The child's only recv() brings the request or a part of it.
ReadRequest(c) ==
    /\ child[c] = "request"
    /\ child' = [child EXCEPT ![c] = "reply"]
    /\ \E n \in 1..Len(Request(c)) : got' = [got EXCEPT ![c] = SubSeq(Request(c), 1, n)]
    /\ UNCHANGED <<clientVars, server, backlog, unread, stream>>

\* The path in what the child has got: the characters before the first blank, and
\* none when there is no blank.
PathGot(c) == SubSeq(got[c], 2, Strchr(got[c], " ") - 1)

\* The path is empty, or ends behind what recv() brought: reply 400 and close.
RefuseRequest(c) ==
    /\ child[c] = "reply"
    /\ PathGot(c) = <<>>
    /\ Sends(c, Header("400"))
    /\ CloseChild(c)
    /\ UNCHANGED <<clientVars, server, backlog, got, unread>>

\* There is no such file: reply 404 and close.
FileMissing(c) ==
    /\ child[c] = "reply"
    /\ PathGot(c) \notin DOMAIN Files \cup {<<>>}
    /\ Sends(c, Header("404"))
    /\ CloseChild(c)
    /\ UNCHANGED <<clientVars, server, backlog, got, unread>>

\* There is: open it and send the header.
FileFound(c) ==
    /\ child[c] = "reply"
    /\ PathGot(c) \in DOMAIN Files
    /\ Sends(c, Header("200"))
    /\ unread' = [unread EXCEPT ![c] = Files[PathGot(c)]]
    /\ child' = [child EXCEPT ![c] = "file"]
    /\ UNCHANGED <<clientVars, server, backlog, got>>

ChunkLength(c) == IF Len(unread[c]) < FN_LENGTH THEN Len(unread[c]) ELSE FN_LENGTH

\* Mutant: the buffer is sent whole, however little fread() put there.
Chunk_WholeBuffer(c) ==
    SubSeq(unread[c], 1, ChunkLength(c)) \o [i \in 1..(FN_LENGTH - ChunkLength(c)) |-> "0"]

Chunk(c) == SubSeq(unread[c], 1, ChunkLength(c))

\* fread() and send() a buffer of the file.
SendChunk(c) ==
    /\ child[c] = "file"
    /\ unread[c] # <<>>
    /\ Sends(c, Chunk(c))
    /\ unread' = [unread EXCEPT ![c] = From(@, ChunkLength(c) + 1)]
    /\ UNCHANGED <<clientVars, server, backlog, child, got>>

\* The end of the file, or a send() that fails: close and exit.
EndOfFile(c) ==
    /\ child[c] = "file"
    /\ unread[c] = <<>> \/ Gone(c)
    /\ CloseChild(c)
    /\ UNCHANGED <<clientVars, server, backlog, got, unread, stream>>

----------------------------------------------------------------------------
\* recv() takes a part of the client's stream.
Takes(c, segment) ==
    stream' = [stream EXCEPT ![c] = From(@, Len(segment) + 1)]

\* What strlen() takes of the buffer: the bytes up to a NUL.
Text(bytes) ==
    LET nul == Strchr(bytes, "0")
    IN  IF nul = 0 THEN bytes ELSE SubSeq(bytes, 1, nul - 1)

\* A first segment is clean when it brings the whole header, a NUL-free part of
\* the body and less than a buffer.
IsClean(segment) ==
    /\ Len(segment) \in HeaderLength..(FN_LENGTH - 1)
    /\ Text(segment) = segment

\* The client's first recv(): what follows the first \r by four bytes is the body.
FirstSegment(c) ==
    /\ cpc[c] = "first"
    /\ \E segment \in Segments(stream[c], FN_LENGTH) :
        /\ Takes(c, segment)
        /\ clean' = [clean EXCEPT ![c] = IF IsClean(segment) THEN "clean" ELSE "not clean"]
        /\ IF "\r" \notin ToSet(segment)
           THEN /\ cpc' = [cpc EXCEPT ![c] = "failed"]
                /\ UNCHANGED output
           ELSE LET body == Text(From(segment, HeaderLength + 1)) IN
                /\ cpc' = [cpc EXCEPT ![c] = "body"]
                /\ \E beyond \in IF Len(segment) = FN_LENGTH /\ Text(segment) = segment
                                 THEN {<<>>, <<"?">>} ELSE {<<>>} :
                    output' = [output EXCEPT ![c] = body \o beyond]
    /\ UNCHANGED <<url, server, backlog, child, got, unread>>

\* Each later recv(): all of it is saved.
NextSegment(c) ==
    /\ cpc[c] = "body"
    /\ \E segment \in Segments(stream[c], FN_LENGTH) :
        /\ Takes(c, segment)
        /\ output' = [output EXCEPT ![c] = @ \o segment]
    /\ UNCHANGED <<cpc, url, clean, server, backlog, child, got, unread>>

\* recv() returns 0: the child has closed and everything was taken.
EndOfStream(c) ==
    /\ cpc[c] \in {"first", "body"}
    /\ stream[c] = <<>> /\ child[c] = "closed"
    /\ cpc' = [cpc EXCEPT ![c] = "done"]
    /\ UNCHANGED <<url, output, clean, serverVars>>

\* A child that closes with a part of the request unread resets the connection,
\* and recv() fails with whatever is on its way lost.
Reset(c) ==
    /\ cpc[c] \in {"first", "body"}
    /\ child[c] = "closed"
    /\ got[c] # Request(c)
    /\ cpc' = [cpc EXCEPT ![c] = "failed"]
    /\ stream' = [stream EXCEPT ![c] = <<>>]
    /\ UNCHANGED <<url, output, clean, server, backlog, child, got, unread>>

----------------------------------------------------------------------------
Client(c) ==
    \/ Connect(c)
    \/ ConnectFails(c)
    \/ FirstSegment(c)
    \/ NextSegment(c)
    \/ EndOfStream(c)
    \/ Reset(c)

Child(c) ==
    \/ ReadRequest(c)
    \/ RefuseRequest(c)
    \/ FileMissing(c)
    \/ FileFound(c)
    \/ SendChunk(c)
    \/ EndOfFile(c)

\* Every client has ended, and the server waits for others.
Idle ==
    /\ server # "starting"
    /\ \A c \in Clients : Gone(c) /\ child[c] \in {"none", "closed"}
    /\ UNCHANGED vars

Next ==
    \/ \E c \in Clients : Client(c) \/ Child(c)
    \/ Start
    \/ Accept
    \/ Idle

\* The parent, the children and the clients are processes that keep running.
Spec ==
    /\ Init
    /\ [][Next]_vars
    /\ WF_vars(Start \/ Accept)
    /\ \A c \in Clients : WF_vars(Client(c)) /\ WF_vars(Child(c))

----------------------------------------------------------------------------
TypeOK ==
    /\ cpc \in [Clients -> {"start", "first", "body", "done", "failed"}]
    /\ \A c \in Clients : url[c] \in Urls[c]
    /\ \A c \in Clients : ToSet(output[c]) \subseteq {"x", "0", "?", "\r", "\n"}
    /\ clean \in [Clients -> {"unknown", "clean", "not clean"}]
    /\ server \in {"starting", "listening", "failed"}
    /\ ToSet(backlog) \subseteq Clients
    /\ child \in [Clients -> {"none", "request", "reply", "file", "closed"}]
    /\ \A c \in Clients : IsPrefix(got[c], Request(c))
    /\ \A c \in Clients : ToSet(unread[c]) \subseteq {"x", "0"}
    /\ \A c \in Clients :
        ToSet(stream[c]) \subseteq Statuses \cup {"x", "0", "\r", "\n"}

\* The path of client c's URL, and the bytes of the file it names there.  A path
\* with a blank in it ends at the blank for the server, and is left out.
Path(c) == Extract(url[c]).path
Body(c) == IF Path(c) \in DOMAIN Files THEN Files[Path(c)] ELSE <<>>
HasBlank(c) == " " \in ToSet(Path(c))

\* The file a child looks for is the one its client's URL names: the URL is
\* something that ends before this server's address, the address, '/' and the path.
OpensWhatTheUrlNames ==
    \A c \in Clients :
        PathGot(c) # <<>> /\ ~ HasBlank(c) =>
            \E i \in 0..Len(url[c]) :
            \E port \in {<<":">> \o ServerPort}
                            \cup (IF ServerPort = <<"8", "0">> THEN {<<>>} ELSE {}) :
                From(url[c], i + 1) = ServerHost \o port \o <<"/">> \o PathGot(c)

\* When the first recv() brings the whole header and nothing awkward, the client's
\* file is a part of the server's from its start, however the stream is cut after
\* that; and the whole of it when the client ends and its path had arrived whole.
SavedIsBody ==
    \A c \in Clients :
        clean[c] = "clean" /\ ~ HasBlank(c) =>
            /\ IsPrefix(output[c], Body(c))
            /\ (cpc[c] = "done" /\ PathGot(c) = Path(c)) => output[c] = Body(c)

\* Every client ends, and so does every child that was forked for one, whatever
\* other clients do and however they end.
EveryConnectionEnds ==
    \A c \in Clients : <>[](Gone(c) /\ child[c] \in {"none", "closed"})

============================================================================
