----------------------------- MODULE FileServer -----------------------------
(***************************************************************************)
(* mp0: a server that reads a file as it starts (mp0/src/server.c), and    *)
(* sends each client that connects the file's length, three newlines and   *)
(* the text of the file, and a client (mp0/src/client.c) that prints what  *)
(* one recv() brings of it.                                                *)
(*                                                                         *)
(* A byte of the file is "x", "\n", or "0" when it is NUL; the digits of   *)
(* the length are one symbol.  Others may write to the file at any time,   *)
(* also between the server's taking the length and its reading the bytes,  *)
(* and while it reads them.                                                *)
(*                                                                         *)
(* Undefined behaviour.  The server does not look at how much it could     *)
(* read: where the file became shorter than the length taken before, the   *)
(* rest is memory nobody initialised, NUL ("0") or not ("?").  A first     *)
(* recv() that does not bring the first newline leaves the client with a   *)
(* null pointer, and it dies; one that ends with that newline makes it     *)
(* print the buffer from behind the end ("?").                             *)
(***************************************************************************)
EXTENDS ByteStream

CONSTANTS
    Clients,
    Contents,       \* what the file may contain
    NoFile,         \* stands for a file that does not exist
    Digits(_),      \* a length as snprintf() writes it: one symbol
    MAXDATASIZE,    \* the size of the client's buffer, 100
    BACKLOG,        \* the connections the kernel keeps for accept()
    MAX_EDITS       \* bound: how often others write to the file

ASSUME FileServerAssumption ==
    /\ \A f \in Contents : f \in Seq({"x", "\n", "0"})
    /\ NoFile \notin Contents
    /\ \A f \in Contents : Digits(Len(f)) \notin {"", "\n"}
    /\ MAXDATASIZE \in Nat /\ MAXDATASIZE > 1
    /\ BACKLOG \in Nat \ {0}
    /\ MAX_EDITS \in Nat

VARIABLES
    file,           \* what the file contains now
    edits,          \* how often it was written
    len,            \* the length the server took of it
    string,         \* what it has of the bytes
    seen,           \* history: what the file contained from then until all was read
    server,         \* where the parent is
    backlog,        \* the connections that wait for accept()
    child,          \* where the child of each connection is
    stream,         \* the bytes on their way to each client
    cpc,            \* where each client is
    announced,      \* the length it printed
    printed         \* the text it printed

serverVars == <<len, string, seen, server, backlog, child>>
clientVars == <<cpc, announced, printed>>
vars == <<file, edits, serverVars, stream, clientVars>>

Init ==
    /\ file \in Contents \cup {NoFile}
    /\ edits = 0
    /\ len = 0
    /\ string = <<>>
    /\ seen = {}
    /\ server = "starting"
    /\ backlog = <<>>
    /\ child = [c \in Clients |-> "none"]
    /\ stream = [c \in Clients |-> <<>>]
    /\ cpc = [c \in Clients |-> "start"]
    /\ announced = [c \in Clients |-> ""]
    /\ printed = [c \in Clients |-> <<>>]

----------------------------------------------------------------------------
\* Somebody else writes to the file.
Edit ==
    /\ edits < MAX_EDITS
    /\ edits' = edits + 1
    /\ file' \in Contents
    /\ seen' = IF server = "reading" THEN seen \cup {file'} ELSE seen
    /\ UNCHANGED <<len, string, server, backlog, child, stream, clientVars>>

\* The server opens the file and asks for its length.  That there is no file is looked
\* at after the file was used, and the server dies before.
TakeLength ==
    /\ server = "starting"
    /\ \/ /\ file # NoFile
          /\ len' = Len(file)
          /\ seen' = {file}
          /\ server' = "reading"
       \/ /\ file = NoFile
          /\ server' = "failed"
          /\ UNCHANGED <<len, seen>>
    /\ UNCHANGED <<file, edits, string, backlog, child, stream, clientVars>>

\* Mutant: the file is not rewound after its length was taken.
Place_AtEnd == len + Len(string)

\* Where in the file the server reads on: it rewinds the file before.
Place == Len(string)

\* Within fread(): the next bytes of the file as it is by now, any number of those that
\* are there and fit the length taken.
ReadSome ==
    /\ server = "reading"
    /\ \E n \in 1..(len - Len(string)) :
        /\ Place + n <= Len(file)
        /\ string' = string \o SubSeq(file, Place + 1, Place + n)
    /\ UNCHANGED <<file, edits, len, seen, server, backlog, child, stream, clientVars>>

\* A byte of memory nobody initialised.
Garbage == {"0", "?"}

\* fread() returns, with all the bytes or at the end of the file, and the server binds
\* its port and listens; it ends when it cannot bind.
Listen ==
    /\ server = "reading"
    /\ Len(string) = len \/ Place >= Len(file)
    /\ \E rest \in [1..(len - Len(string)) -> Garbage] : string' = string \o rest
    /\ server' \in {"listening", "failed"}
    /\ UNCHANGED <<file, edits, len, seen, backlog, child, stream, clientVars>>

\* The parent's loop: accept() and fork().  When fork() fails there is no child,
\* and the parent closes the connection as it always does.
Accept ==
    /\ backlog # <<>>
    /\ \E start \in {"send", "closed"} :
        child' = [child EXCEPT ![Head(backlog)] = start]
    /\ backlog' = Tail(backlog)
    /\ UNCHANGED <<file, edits, len, string, seen, server, stream, clientVars>>

\* Mutant: all bytes of a buffer are taken, also those behind a NUL.
Text_All(bytes) == bytes

\* What strlen() takes of a buffer: the bytes up to a NUL.
Text(bytes) == SubSeq(bytes, 1, Strchr(Append(bytes, "0"), "0") - 1)

\* Mutant: the child reads the file for its client.
Message_Afresh == <<Digits(Len(file)), "\n", "\n", "\n">> \o Text(file)

\* The length, and the text as far as strcat() takes it: put together once, before the
\* server listens.
Message == <<Digits(len), "\n", "\n", "\n">> \o Text(string)

\* The child sends the message and closes.
SendAll(c) ==
    /\ child[c] = "send"
    /\ stream' = [stream EXCEPT ![c] = Message]
    /\ child' = [child EXCEPT ![c] = "closed"]
    /\ UNCHANGED <<file, edits, len, string, seen, server, backlog, clientVars>>

----------------------------------------------------------------------------
Connect(c) ==
    /\ cpc[c] = "start"
    /\ server = "listening"
    /\ Len(backlog) < BACKLOG
    /\ backlog' = Append(backlog, c)
    /\ cpc' = [cpc EXCEPT ![c] = "recv"]
    /\ UNCHANGED <<file, edits, len, string, seen, server, child, stream, announced, printed>>

ConnectFails(c) ==
    /\ cpc[c] = "start"
    /\ server # "listening"
    /\ cpc' = [cpc EXCEPT ![c] = "failed"]
    /\ UNCHANGED <<file, edits, serverVars, stream, announced, printed>>

\* What is printed from two characters behind the first newline on: the third
\* newline and the text.
TextBehind(segment, newline) == From(segment, newline + 2)

\* The client's only recv() brings a segment, and the client ends.  It dies when
\* there is no newline in it.
Receive(c) ==
    /\ cpc[c] = "recv"
    /\ \E segment \in Segments(stream[c], MAXDATASIZE - 1) :
        LET newline == Strchr(segment, "\n") IN
        IF newline = 0
        THEN /\ cpc' = [cpc EXCEPT ![c] = "failed"]
             /\ UNCHANGED <<announced, printed>>
        ELSE /\ cpc' = [cpc EXCEPT ![c] = "done"]
             /\ announced' = [announced EXCEPT ![c] = segment[1]]
             /\ \E beyond \in IF newline = Len(segment) THEN {<<>>, <<"?">>} ELSE {<<>>} :
                    printed' = [printed EXCEPT ![c] = TextBehind(segment, newline) \o beyond]
    /\ stream' = [stream EXCEPT ![c] = <<>>]
    /\ UNCHANGED <<file, edits, serverVars>>

\* recv() returns 0, there is no newline either, and the client dies.
ReceiveNothing(c) ==
    /\ cpc[c] = "recv"
    /\ child[c] = "closed"
    /\ stream[c] = <<>>
    /\ cpc' = [cpc EXCEPT ![c] = "failed"]
    /\ UNCHANGED <<file, edits, serverVars, stream, announced, printed>>

----------------------------------------------------------------------------
Client(c) ==
    \/ Connect(c)
    \/ ConnectFails(c)
    \/ Receive(c)
    \/ ReceiveNothing(c)

\* Every client has ended, and the server waits for others.
Idle ==
    /\ server \in {"listening", "failed"}
    /\ \A c \in Clients : cpc[c] \in {"done", "failed"} /\ child[c] \in {"none", "closed"}
    /\ UNCHANGED vars

Next ==
    \/ \E c \in Clients : Client(c) \/ SendAll(c)
    \/ TakeLength
    \/ ReadSome
    \/ Listen
    \/ Accept
    \/ Edit
    \/ Idle

Spec == Init /\ [][Next]_vars

----------------------------------------------------------------------------
TypeOK ==
    /\ file \in Contents \cup {NoFile}
    /\ edits \in 0..MAX_EDITS
    /\ len \in Nat
    /\ Len(string) <= len /\ ToSet(string) \subseteq {"x", "\n", "0", "?"}
    /\ seen \subseteq Contents
    /\ server \in {"starting", "reading", "listening", "failed"}
    /\ ToSet(backlog) \subseteq Clients
    /\ child \in [Clients -> {"none", "send", "closed"}]
    /\ \A c \in Clients : stream[c] \in {<<>>, Message}
    /\ cpc \in [Clients -> {"start", "recv", "done", "failed"}]
    /\ \A c \in Clients : announced[c] # "\n"
    /\ \A c \in Clients : ToSet(printed[c]) \subseteq {"x", "\n", "?"}

\* Whatever others write to the file once the server listens, all clients are told the
\* same length, and a client that printed a text printed the one blank line of the
\* header and then a part, from its start, of the one string the server has read, no
\* longer than its buffer.
ClientsSeeOneFile ==
    \A c \in Clients :
        /\ announced[c] # "" => announced[c] = Digits(len)
        /\ printed[c] \notin {<<>>, <<"?">>} =>
            /\ IsPrefix(printed[c], <<"\n">> \o string)
            /\ Len(printed[c]) <= MAXDATASIZE - 4

\* The length a client is told is that of a version the file had between the server's
\* asking for it and its having read the bytes, and so is every byte of the text, each
\* perhaps of another version; a byte from nowhere is printed only where such a version
\* is too short to have one there.  If the file had one version only in that time, the
\* length and the text are those of this version.
PrintedWasInTheFile ==
    \A c \in Clients :
        /\ announced[c] # "" => \E v \in seen : announced[c] = Digits(Len(v))
        /\ printed[c] \notin {<<>>, <<"?">>} =>
            /\ \A i \in 1..(Len(printed[c]) - 1) : \E v \in seen :
                  printed[c][i + 1] = IF i <= Len(v) THEN v[i] ELSE "?"
            /\ \A v \in seen : seen = {v} => IsPrefix(printed[c], <<"\n">> \o v)

============================================================================
