---------------------------- MODULE MCFileServer ----------------------------
\* Three clients, and files that are empty, short, with a NUL or a newline in
\* them, and too long for the client's buffer.
EXTENDS FileServer, TLC

MCContents ==
    { <<>>, <<"x", "x">>, <<"x", "0", "x">>, <<"\n", "x">>,
      <<"x", "x", "\n", "x", "x", "x">> }

MCNoFile == <<"none">>

MCDigits(n) == ToString(n)

MCSymmetry == Permutations(Clients)

============================================================================
