------------------------------- MODULE MCHttp -------------------------------
\* Two clients.  The first is started with the URL of any file there is, or with
\* one that cannot be taken apart, names no file or leads elsewhere; the second
\* keeps the server busy with an empty file.  Files are empty, short, with a NUL in
\* them, and longer than a buffer.
EXTENDS Http

CONSTANTS c1, c2

MCClients == {c1, c2}

MCServerHost == <<"h">>
MCServerPort == <<"8", "0">>

MCFiles ==
    (<<"e">> :> <<>>) @@ (<<"s">> :> <<"x", "x">>) @@ (<<"b">> :> <<"x", "0", "x">>)
        @@ (<<"l">> :> <<"x", "x", "x", "x", "x", "0", "x">>)

Http(rest) == <<"http", ":", "/", "/">> \o rest

MCUrls ==
    (c1 :>
        { Http(<<"h", "/">> \o path) : path \in DOMAIN MCFiles \cup {<<>>, <<"m", "m">>} }
        \cup { Http(<<"h", ":", "8", "0", "/", "s">>),
               Http(<<"h", ":", "8", "1", "/", "s">>),
               Http(<<"g", "/", "s">>),
               Http(<<"h", "/", "s", " ", "b">>),
               Http(<<"h", "/", "s", ":", "b">>),
               Http(<<"h">>),
               <<"h", ":", "8", "0", "/", "s">>,
               <<"h", "/", "s">> })
    @@ (c2 :> { Http(<<"h", "/", "e">>) })

============================================================================
