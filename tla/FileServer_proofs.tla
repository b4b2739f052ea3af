-------------------------- MODULE FileServer_proofs --------------------------
(***************************************************************************)
(* What the clients of mp0 are told of the file, for any number of clients *)
(* and all files: all get the same length and print the beginning of one   *)
(* and the same string, and both are made of what the file contained while *)
(* the server read it, or of memory nobody initialised.                    *)
(***************************************************************************)
EXTENDS FileServer, SequenceTheorems, WellFoundedInduction, TLAPS

(***************************************************************************)
(* Parts of sequences, and the first place of an element.                  *)
(***************************************************************************)

\* A set of natural numbers that is not empty has a least element.
LEMMA MinOfNaturals ==
    ASSUME NEW S \in SUBSET Nat, S # {}
    PROVE  /\ Min(S) \in S
           /\ \A y \in S : Min(S) <= y
<1> DEFINE R == OpToRel(<, Nat)
<1>1. IsWellFoundedOn(R, Nat)
  BY NatLessThanWellFounded
<1>2. \A x, y \in Nat : x < y => <<x, y>> \in R
  BY DEF OpToRel
<1> HIDE DEF R
<1>3. PICK x \in S : \A y \in S : <<y, x>> \notin R
  BY <1>1, WFMin
<1>4. \A y \in S : x <= y
  <2>1. TAKE y \in S
  <2>2. x \in Nat /\ y \in Nat /\ ~ (y < x)
    BY <1>2, <1>3
  <2>3. QED
    BY <2>2
<1>5. QED
  BY <1>4 DEF Min

\* Strchr finds the first x.
LEMMA FirstPlace ==
    ASSUME NEW S, NEW s \in Seq(S), NEW x
    PROVE  /\ Strchr(s, x) \in 0..Len(s)
           /\ Strchr(s, x) = 0 => \A i \in 1..Len(s) : s[i] # x
           /\ Strchr(s, x) # 0 => /\ s[Strchr(s, x)] = x
                                  /\ \A i \in 1..(Strchr(s, x) - 1) : s[i] # x
<1> DEFINE I == {i \in 1..Len(s) : s[i] = x}
<1>1. Strchr(s, x) = IF I # {} THEN Min(I) ELSE 0
  BY DEF Strchr, SelectInSeq
<1>2. Len(s) \in Nat
  OBVIOUS
<1>3. I \in SUBSET Nat
  OBVIOUS
<1>4. CASE I = {}
  BY <1>1, <1>2, <1>4
<1>5. CASE I # {}
  <2>1. Min(I) \in I /\ \A y \in I : Min(I) <= y
    BY <1>3, <1>5, MinOfNaturals
  <2> DEFINE m == Min(I)
  <2>2. m \in 1..Len(s) /\ s[m] = x /\ m # 0
    BY <2>1
  <2>3. ASSUME NEW i \in 1..(m - 1) PROVE s[i] # x
    <3>1. i \in 1..Len(s) /\ ~ (m <= i)
      BY <1>2, <2>2
    <3>2. QED
      BY <2>1, <3>1
  <2>4. Strchr(s, x) = m
    BY <1>1, <1>5
  <2> HIDE DEF m
  <2>5. QED
    BY <1>2, <2>2, <2>3, <2>4
<1>6. QED
  BY <1>4, <1>5

\* A part of a sequence, element by element.
LEMMA PartProperties ==
    ASSUME NEW S, NEW s \in Seq(S), NEW m \in Int, NEW n \in Int,
           m >= 1, n <= Len(s), m <= n + 1
    PROVE  /\ SubSeq(s, m, n) \in Seq(S)
           /\ Len(SubSeq(s, m, n)) = n - m + 1
           /\ \A i \in 1..(n - m + 1) : SubSeq(s, m, n)[i] = s[m + i - 1]
<1>1. \A i \in m..n : s[i] \in S
  <2>1. TAKE i \in m..n
  <2>2. i \in 1..Len(s)
    OBVIOUS
  <2>3. QED
    BY <2>2, ElementOfSeq
<1>2. /\ SubSeq(s, m, n) \in Seq(S)
      /\ Len(SubSeq(s, m, n)) = IF m <= n THEN n - m + 1 ELSE 0
      /\ \A i \in 1..(n - m + 1) : SubSeq(s, m, n)[i] = s[m + i - 1]
  BY <1>1, SubSeqProperties
<1>3. QED
  BY <1>2

\* The first n elements of a sequence.
LEMMA FirstElements ==
    ASSUME NEW S, NEW s \in Seq(S), NEW n \in 0..Len(s)
    PROVE  /\ SubSeq(s, 1, n) \in Seq(S)
           /\ Len(SubSeq(s, 1, n)) = n
           /\ \A i \in 1..n : SubSeq(s, 1, n)[i] = s[i]
<1>1. n \in Int /\ n <= Len(s) /\ 1 <= n + 1 /\ n - 1 + 1 = n
      /\ \A i \in 1..n : 1 + i - 1 = i
  OBVIOUS
<1>2. /\ SubSeq(s, 1, n) \in Seq(S) /\ Len(SubSeq(s, 1, n)) = n - 1 + 1
      /\ \A i \in 1..(n - 1 + 1) : SubSeq(s, 1, n)[i] = s[1 + i - 1]
  BY <1>1, PartProperties
<1>3. QED
  BY <1>1, <1>2

\* What comes first is a prefix.
LEMMA PrefixOfConcat ==
    ASSUME NEW S, NEW s \in Seq(S), NEW t \in Seq(S)
    PROVE  IsPrefix(s, s \o t)
<1>1. /\ s \o t \in Seq(S) /\ Len(s \o t) = Len(s) + Len(t)
      /\ \A i \in 1..(Len(s) + Len(t)) :
           (s \o t)[i] = IF i <= Len(s) THEN s[i] ELSE t[i - Len(s)]
      /\ Len(s) \in Nat /\ Len(t) \in Nat
  BY ConcatProperties
<1>2. /\ SubSeq(s \o t, 1, Len(s)) \in Seq(S)
      /\ Len(SubSeq(s \o t, 1, Len(s))) = Len(s) - 1 + 1
      /\ \A i \in 1..(Len(s) - 1 + 1) : SubSeq(s \o t, 1, Len(s))[i] = (s \o t)[1 + i - 1]
  BY <1>1, PartProperties
<1>3. \A i \in 1..Len(s) : SubSeq(s \o t, 1, Len(s))[i] = s[i]
  <2>1. TAKE i \in 1..Len(s)
  <2>2. i \in 1..(Len(s) - 1 + 1) /\ 1 + i - 1 = i /\ i \in 1..(Len(s) + Len(t))
        /\ i <= Len(s)
    BY <1>1
  <2>3. SubSeq(s \o t, 1, Len(s))[i] = (s \o t)[i]
    BY <1>2, <2>2
  <2>4. QED
    BY <1>1, <2>2, <2>3
<1>4. SubSeq(s \o t, 1, Len(s)) = s
  <2>1. Len(SubSeq(s \o t, 1, Len(s))) = Len(s)
    BY <1>1, <1>2
  <2>2. QED
    BY <1>2, <1>3, <2>1, SeqEqual
<1>5. SubSeq(s, 1, Len(s)) = s
  BY SubSeqFull
<1>6. QED
  BY <1>1, <1>4, <1>5 DEF IsPrefix

----------------------------------------------------------------------------
(***************************************************************************)
(* The inductive invariant.                                                *)
(***************************************************************************)

\* The bytes of files and of memory, those of them that reach a client, and those it may print.
FileBytes == {"x", "\n", "0", "?"}
TextBytes == {"x", "\n", "?"}
Printable == {"x", "\n", "?"}

\* The lengths a client may announce, and none.
Lengths == {""} \cup {Digits(Len(f)) : f \in Contents}

Types ==
    /\ file \in Contents \cup {NoFile}
    /\ edits \in 0..MAX_EDITS
    /\ len \in Nat
    /\ string \in Seq(FileBytes)
    /\ seen \subseteq Contents
    /\ server \in {"starting", "reading", "listening", "failed"}
    /\ backlog \in Seq(Clients)
    /\ child \in [Clients -> {"none", "send", "closed"}]
    /\ DOMAIN stream = Clients
    /\ cpc \in [Clients -> {"start", "recv", "done", "failed"}]
    /\ announced \in [Clients -> Lengths]
    /\ printed \in [Clients -> Seq(Printable)]

\* Byte b may come from place i of a version the file had while it was read: it is the
\* byte of that version, or one of the memory where the version has none.
WasThere(b, i) == \E v \in seen : IF i <= Len(v) THEN b = v[i] ELSE b \in Garbage

\* The length and the bytes read so far come from versions the file had meanwhile.
ReadInv ==
    /\ Len(string) <= len
    /\ server = "starting" => string = <<>>
    /\ server = "reading" => file \in seen
    /\ server = "listening" => Len(string) = len
    /\ server \in {"reading", "listening"} =>
        /\ \E v \in seen : len = Len(v)
        /\ \A i \in 1..Len(string) : WasThere(string[i], i)

\* Nothing happens to a client before the server listens.
BeforeInv ==
    server # "listening" =>
        /\ backlog = <<>>
        /\ \A c \in Clients :
            /\ child[c] = "none" /\ cpc[c] \in {"start", "failed"}
            /\ stream[c] = <<>> /\ announced[c] = "" /\ printed[c] = <<>>

\* What is on its way to client c, and what it printed.
ClientInv(c) ==
    /\ stream[c] \in {<<>>, Message}
    /\ announced[c] \in {"", Digits(len)}
    /\ \/ printed[c] \in {<<>>, <<"?">>}
       \/ /\ IsPrefix(printed[c], <<"\n">> \o string)
          /\ Len(printed[c]) <= MAXDATASIZE - 4

FileServerInv ==
    /\ Types
    /\ ReadInv
    /\ BeforeInv
    /\ \A c \in Clients : ClientInv(c)

----------------------------------------------------------------------------
(***************************************************************************)
(* What a client makes of the part of a message its recv() brings.         *)
(***************************************************************************)

\* strlen() takes the beginning of a file, without a NUL.
LEMMA TextProperties ==
    ASSUME NEW s \in Seq(FileBytes)
    PROVE  \E n \in 0..Len(s) : /\ Text(s) = SubSeq(s, 1, n)
                                /\ Text(s) \in Seq(TextBytes)
<1>1. "0" \in FileBytes
  BY DEF FileBytes
<1>2. PICK b \in Seq(FileBytes) : b = Append(s, "0")
  BY <1>1, AppendProperties
<1>3. /\ Len(b) = Len(s) + 1 /\ b[Len(s) + 1] = "0"
      /\ \A i \in 1..Len(s) : b[i] = s[i]
  BY <1>1, <1>2, AppendProperties
<1>4. PICK k \in 0..Len(b) :
        /\ k = Strchr(b, "0")
        /\ k = 0 => \A i \in 1..Len(b) : b[i] # "0"
        /\ k # 0 => \A i \in 1..(k - 1) : b[i] # "0"
  BY FirstPlace
<1>5. Len(s) \in Nat
  OBVIOUS
<1>6. k \in 1..(Len(s) + 1)
  <2>1. Len(s) + 1 \in 1..Len(b)
    BY <1>3, <1>5
  <2>2. k # 0
    BY <1>3, <1>4, <2>1
  <2>3. QED
    BY <1>3, <1>5, <2>2
<1>7. PICK n \in 0..Len(s) : n = k - 1
  BY <1>5, <1>6
<1>8. Text(s) = SubSeq(s, 1, n)
  BY <1>2, <1>4, <1>7 DEF Text
<1>9. \A i \in 1..n : s[i] \in TextBytes
  <2>1. TAKE i \in 1..n
  <2>2. i \in 1..Len(s) /\ i \in 1..(k - 1) /\ k # 0
    BY <1>5, <1>6, <1>7
  <2>3. s[i] # "0"
    BY <1>3, <1>4, <2>2
  <2>4. s[i] \in FileBytes
    BY <2>2, ElementOfSeq
  <2>5. QED
    BY <2>3, <2>4 DEF FileBytes, TextBytes
<1>10. SubSeq(s, 1, n) \in Seq(TextBytes)
  BY <1>9, SubSeqProperties
<1>11. QED
  BY <1>8, <1>10

\* The server has a string and a length that can be announced.
HasRead == string \in Seq(FileBytes) /\ Digits(len) \notin {"", "\n"}

\* The first symbol of a message is the length, the next three are newlines, and what
\* comes behind them is the beginning of the file.
LEMMA MessageProperties ==
    ASSUME HasRead
    PROVE  \E d \in {Digits(len)}, n \in 0..Len(string) :
           \E t \in Seq(TextBytes) :
              /\ d \notin {"", "\n"}
              /\ t = SubSeq(string, 1, n)
              /\ Message = <<d, "\n", "\n", "\n">> \o t
BY TextProperties DEF Message, HasRead

\* Sequences of one and of four elements.
LEMMA SmallSeq ==
    ASSUME NEW S, NEW x \in S, NEW y \in S
    PROVE  <<x>> \in Seq(S) /\ <<y, x, x, x>> \in Seq(S)
OBVIOUS

\* The same, element by element: y is the blank line and the file.
LEMMA MessageElements ==
    ASSUME HasRead
    PROVE  \E d \in {Digits(len)} :
           \E y \in Seq(FileBytes), m \in Seq(TextBytes \cup {d}) :
              /\ d \notin {"", "\n"} /\ y = <<"\n">> \o string /\ m = Message
              /\ Len(m) >= 4 /\ Len(m) <= Len(y) + 3 /\ m[1] = d /\ m[2] = "\n"
              /\ \A i \in 1..(Len(m) - 3) : m[i + 3] = y[i]
              /\ \A i \in 2..Len(m) : m[i] \in TextBytes
<1>1. PICK d \in {Digits(len)}, j \in 0..Len(string), t \in Seq(TextBytes) :
        /\ d \notin {"", "\n"}
        /\ t = SubSeq(string, 1, j)
        /\ Message = <<d, "\n", "\n", "\n">> \o t
  BY MessageProperties
<1> DEFINE M == TextBytes \cup {d}
<1>2. PICK x \in Seq(FileBytes) : x = string
  BY DEF HasRead
<1>3. Len(t) = j /\ \A i \in 1..j : t[i] = x[i]
  BY <1>1, <1>2, FirstElements
<1>4. PICK h \in Seq(M) : h = <<d, "\n", "\n", "\n">>
  <2>1. d \in M /\ "\n" \in M
    BY DEF TextBytes
  <2>2. <<d, "\n", "\n", "\n">> \in Seq(M)
    BY <2>1, SmallSeq
  <2>3. QED
    BY <2>2
<1>5. Len(h) = 4
  BY <1>4
<1>6. h[1] = d /\ h[2] = "\n" /\ h[3] = "\n" /\ h[4] = "\n"
  BY <1>4
<1>7. PICK l \in Seq(FileBytes) : l = <<"\n">>
  <2>1. "\n" \in FileBytes
    BY DEF FileBytes
  <2>2. <<"\n">> \in Seq(FileBytes)
    BY <2>1, SmallSeq
  <2>3. QED
    BY <2>2
<1>8. Len(l) = 1
  BY <1>7
<1>9. l[1] = "\n"
  BY <1>7
<1>10. t \in Seq(M)
  BY SeqMonotonic
<1> HIDE DEF M
<1>11. PICK m \in Seq(M) : m = h \o t
  BY <1>10, ConcatProperties
<1>12. PICK y \in Seq(FileBytes) : y = l \o x
  BY ConcatProperties
<1>13. PICK k \in Nat : k = Len(x)
  OBVIOUS
<1>14. /\ Len(m) = 4 + j
       /\ \A i \in 1..(4 + j) : m[i] = IF i <= 4 THEN h[i] ELSE t[i - 4]
  <2>1. /\ Len(h \o t) = Len(h) + Len(t)
        /\ \A i \in 1..(Len(h) + Len(t)) :
              (h \o t)[i] = IF i <= Len(h) THEN h[i] ELSE t[i - Len(h)]
    BY <1>10, ConcatProperties
  <2>2. QED
    BY <1>3, <1>5, <1>11, <2>1
<1>15. /\ Len(y) = 1 + k
       /\ \A i \in 1..(1 + k) : y[i] = IF i <= 1 THEN l[i] ELSE x[i - 1]
  <2>1. /\ Len(l \o x) = Len(l) + Len(x)
        /\ \A i \in 1..(Len(l) + Len(x)) :
              (l \o x)[i] = IF i <= Len(l) THEN l[i] ELSE x[i - Len(l)]
    BY ConcatProperties
  <2>2. QED
    BY <1>8, <1>12, <1>13, <2>1
<1>16. j \in Nat /\ j <= k
  BY <1>2, <1>13
<1>17. Len(m) >= 4 /\ Len(m) <= Len(y) + 3
  BY <1>14, <1>15, <1>16
<1>18. m[1] = d /\ m[2] = "\n"
  <2>1. 1 \in 1..(4 + j) /\ 2 \in 1..(4 + j) /\ 1 <= 4 /\ 2 <= 4
    BY <1>16
  <2>2. m[1] = h[1] /\ m[2] = h[2]
    BY <1>14, <2>1
  <2>3. QED
    BY <1>6, <2>2
<1>19. ASSUME NEW i \in 1..(Len(m) - 3) PROVE m[i + 3] = y[i]
  <2>1. i \in 1..(j + 1) /\ i + 3 \in 1..(4 + j) /\ i \in 1..(1 + k)
    BY <1>14, <1>16
  <2>2. CASE i = 1
    <3>1. m[4] = h[4]
      <4>1. 4 \in 1..(4 + j)
        BY <1>16
      <4>2. QED
        BY <1>14, <4>1
    <3>2. y[1] = l[1]
      <4>1. 1 \in 1..(1 + k)
        BY <1>16
      <4>2. QED
        BY <1>15, <4>1
    <3>3. i + 3 = 4
      BY <2>2
    <3>4. QED
      BY <1>6, <1>9, <2>2, <3>1, <3>2, <3>3
  <2>3. CASE i # 1
    <3>1. PICK a \in Nat, b \in Nat : a = i + 3 /\ b = i - 1
      BY <2>1
    <3>2. a \in 1..(4 + j) /\ ~ (a <= 4) /\ a - 4 = b /\ b \in 1..j /\ ~ (i <= 1)
      BY <1>16, <2>1, <2>3, <3>1
    <3>3. m[a] = t[a - 4]
      BY <1>14, <3>2
    <3>4. y[i] = x[i - 1]
      BY <1>15, <2>1, <3>2
    <3>5. m[a] = t[b] /\ y[i] = x[b]
      BY <3>1, <3>2, <3>3, <3>4
    <3>6. t[b] = x[b]
      BY <1>3, <3>2
    <3>7. QED
      BY <3>1, <3>5, <3>6
  <2>4. QED
    BY <2>2, <2>3
<1>20. ASSUME NEW i \in 2..Len(m) PROVE m[i] \in TextBytes
  <2>1. i \in 1..(4 + j) /\ i \in 2..(4 + j)
    BY <1>14, <1>16
  <2>2. CASE i <= 4
    <3>1. i = 2 \/ i = 3 \/ i = 4
      BY <2>1, <2>2
    <3>2. m[i] = h[i]
      BY <1>14, <2>1, <2>2
    <3>3. "\n" \in TextBytes
      BY DEF TextBytes
    <3>4. QED
      BY <1>6, <3>1, <3>2, <3>3
  <2>3. CASE ~ (i <= 4)
    <3>1. m[i] = t[i - 4] /\ i - 4 \in 1..Len(t)
      BY <1>3, <1>14, <1>16, <2>1, <2>3
    <3>2. t[i - 4] \in TextBytes
      BY <3>1, ElementOfSeq
    <3>3. QED
      BY <3>1, <3>2
  <2>4. QED
    BY <2>2, <2>3
<1>21. m = Message /\ y = <<"\n">> \o string
  BY <1>1, <1>2, <1>4, <1>7, <1>11, <1>12
<1>22. QED
  BY <1>1, <1>17, <1>18, <1>19, <1>20, <1>21 DEF M

\* What the client prints of the part its recv() brings when there is a newline in it:
\* the length, and the beginning of the blank line and the file.
LEMMA SegmentProperties ==
    ASSUME HasRead, NEW segment \in Segments(Message, MAXDATASIZE - 1),
           Strchr(segment, "\n") # 0,
           NEW beyond \in IF Strchr(segment, "\n") = Len(segment) THEN {<<>>, <<"?">>}
                                                                 ELSE {<<>>},
           NEW p, p = TextBehind(segment, Strchr(segment, "\n")) \o beyond
    PROVE  /\ segment[1] = Digits(len)
           /\ p \in Seq(Printable)
           /\ \/ p \in {<<>>, <<"?">>}
              \/ /\ IsPrefix(p, <<"\n">> \o string)
                 /\ Len(p) <= MAXDATASIZE - 4
<1>1. PICK d \in {Digits(len)} :
      \E y \in Seq(FileBytes), m \in Seq(TextBytes \cup {d}) :
        /\ d \notin {"", "\n"} /\ y = <<"\n">> \o string /\ m = Message
        /\ Len(m) >= 4 /\ Len(m) <= Len(y) + 3 /\ m[1] = d /\ m[2] = "\n"
        /\ \A i \in 1..(Len(m) - 3) : m[i + 3] = y[i]
        /\ \A i \in 2..Len(m) : m[i] \in TextBytes
  BY MessageElements
<1>0. MAXDATASIZE \in Nat
  BY FileServerAssumption
<1> DEFINE M == TextBytes \cup {d}
<1> HIDE DEF M
<1>2. PICK y \in Seq(FileBytes), m \in Seq(M) :
        /\ d # "\n" /\ y = <<"\n">> \o string /\ m = Message
        /\ Len(m) >= 4 /\ Len(m) <= Len(y) + 3 /\ m[1] = d /\ m[2] = "\n"
        /\ \A i \in 1..(Len(m) - 3) : m[i + 3] = y[i]
        /\ \A i \in 2..Len(m) : m[i] \in TextBytes
  BY <1>1 DEF M
<1>3. PICK n \in 1..Len(m) : segment = SubSeq(m, 1, n) /\ n <= MAXDATASIZE - 1
  <2>1. Len(m) \in Nat
    OBVIOUS
  <2>2. QED
    BY <1>0, <1>2, <2>1 DEF Segments
<1>4. PICK s \in Seq(M) : s = segment /\ Len(s) = n /\ \A i \in 1..n : s[i] = m[i]
  <2>1. n \in 0..Len(m)
    OBVIOUS
  <2>2. /\ SubSeq(m, 1, n) \in Seq(M) /\ Len(SubSeq(m, 1, n)) = n
        /\ \A i \in 1..n : SubSeq(m, 1, n)[i] = m[i]
    BY <2>1, FirstElements
  <2>3. QED
    BY <1>3, <2>2
<1>5. n \in Nat /\ n <= Len(m) /\ Len(m) \in Nat /\ n >= 1
  OBVIOUS
<1>6. PICK k \in 0..Len(s) :
        /\ k = Strchr(s, "\n")
        /\ k # 0 => s[k] = "\n" /\ \A i \in 1..(k - 1) : s[i] # "\n"
  BY FirstPlace
<1>7. k \in 1..n
  BY <1>4, <1>5, <1>6
<1>8. k # 1
  <2>1. s[1] = m[1]
    BY <1>4, <1>5
  <2>2. QED
    BY <1>2, <1>6, <2>1
<1>9. ~ (k > 2)
  <2>1. SUFFICES ASSUME k > 2 PROVE FALSE
    OBVIOUS
  <2>2. 2 \in 1..(k - 1) /\ 2 \in 1..n /\ k # 0
    BY <1>5, <1>7, <2>1
  <2>3. s[2] # "\n" /\ s[2] = m[2]
    BY <1>4, <1>6, <2>2
  <2>4. QED
    BY <1>2, <2>3
<1>10. k = 2 /\ n >= 2
  BY <1>5, <1>7, <1>8, <1>9
<1>11. p = From(s, 4) \o beyond
  <2>1. p = From(s, k + 2) \o beyond
    BY <1>4, <1>6 DEF TextBehind
  <2>2. k + 2 = 4
    BY <1>10
  <2>3. QED
    BY <2>1, <2>2
<1>12. segment[1] = Digits(len)
  BY <1>2, <1>4, <1>5
<1>13. <<>> \in Seq(Printable) /\ <<"?">> \in Seq(Printable)
  BY EmptySeq DEF Printable
<1>14. CASE n < 4
  <2>1. n \in Int /\ 4 \in Int /\ n < 4
    BY <1>5, <1>14
  <2>2. From(s, 4) = <<>>
    BY <1>4, <2>1, SubSeqEmpty DEF From
  <2>3. beyond \in {<<>>, <<"?">>}
    OBVIOUS
  <2>4. p = beyond
    BY <1>11, <1>13, <2>2, <2>3, ConcatEmptySeq
  <2>5. QED
    BY <1>12, <1>13, <2>3, <2>4
<1>15. CASE ~ (n < 4)
  <2>1. PICK l \in Nat : l = n - 3
    BY <1>5, <1>15
  <2>2. l >= 1 /\ l + 3 = n /\ l <= Len(m) - 3 /\ 4 \in Int /\ n \in Int /\ n - 4 + 1 = l
        /\ l <= Len(y) /\ l \in 0..Len(y) /\ k # n /\ Len(y) \in Nat
    BY <1>2, <1>5, <1>10, <1>15, <2>1
  <2>3. beyond = <<>>
    BY <1>4, <1>6, <2>2
  <2>4. \A i \in 4..n : s[i] \in TextBytes
    <3>1. TAKE i \in 4..n
    <3>2. i \in 1..n /\ i \in 2..Len(m)
      BY <1>5
    <3>3. QED
      BY <1>2, <1>4, <3>2
  <2>5. /\ SubSeq(s, 4, n) \in Seq(TextBytes)
        /\ Len(SubSeq(s, 4, n)) = l
        /\ \A i \in 1..l : SubSeq(s, 4, n)[i] = s[4 + i - 1]
    <3>1. /\ SubSeq(s, 4, n) \in Seq(TextBytes)
          /\ Len(SubSeq(s, 4, n)) = IF 4 <= n THEN n - 4 + 1 ELSE 0
          /\ \A i \in 1..(n - 4 + 1) : SubSeq(s, 4, n)[i] = s[4 + i - 1]
      BY <2>2, <2>4, SubSeqProperties
    <3>2. QED
      BY <1>15, <2>2, <3>1
  <2>6. PICK q \in Seq(TextBytes) : q = SubSeq(s, 4, n)
    BY <2>5
  <2>7. q \in Seq(FileBytes) /\ q \in Seq(Printable)
    BY SeqMonotonic DEF TextBytes, FileBytes, Printable
  <2>8. p = q
    BY <1>4, <1>11, <2>3, <2>6, ConcatEmptySeq DEF From
  <2>9. ASSUME NEW i \in 1..l PROVE q[i] = y[i]
    <3>1. 4 + i - 1 = i + 3 /\ i + 3 \in 1..n /\ i \in 1..(Len(m) - 3)
      BY <1>5, <2>2
    <3>2. q[i] = s[4 + i - 1]
      BY <2>5, <2>6
    <3>3. q[i] = s[i + 3]
      BY <3>1, <3>2
    <3>4. s[i + 3] = m[i + 3]
      BY <1>4, <3>1
    <3>5. QED
      BY <1>2, <3>1, <3>3, <3>4
  <2>10. /\ SubSeq(y, 1, l) \in Seq(FileBytes) /\ Len(SubSeq(y, 1, l)) = l
         /\ \A i \in 1..l : SubSeq(y, 1, l)[i] = y[i]
    BY <2>2, FirstElements
  <2>11. PICK z \in Seq(FileBytes) : z = SubSeq(y, 1, l)
    BY <2>10
  <2>12. Len(q) = l
    BY <2>5, <2>6
  <2>13. q = z
    BY <2>7, <2>9, <2>10, <2>11, <2>12, SeqEqual
  <2>14. SubSeq(q, 1, Len(q)) = q
    BY SubSeqFull
  <2>15. IsPrefix(q, y)
    BY <2>2, <2>11, <2>12, <2>13, <2>14 DEF IsPrefix
  <2>16. Len(q) <= MAXDATASIZE - 4
    BY <1>0, <1>3, <1>5, <2>1, <2>12
  <2>17. QED
    BY <1>2, <1>12, <2>7, <2>8, <2>15, <2>16
<1>16. QED
  BY <1>14, <1>15


----------------------------------------------------------------------------
(***************************************************************************)
(* The first state, and one lemma for each action.                         *)
(***************************************************************************)

LEMMA FileServerInit == Init => FileServerInv
<1> SUFFICES ASSUME Init PROVE FileServerInv
  OBVIOUS
<1>1. <<>> \in Seq(Printable) /\ <<>> \in Seq(Clients) /\ <<>> \in Seq(FileBytes)
  BY EmptySeq
<1>2. Types
  <2>1. 0 \in 0..MAX_EDITS
    <3>1. MAX_EDITS \in Nat
      BY FileServerAssumption
    <3>2. QED
      BY <3>1
  <2>2. "" \in Lengths
    BY DEF Lengths
  <2>3. QED
    BY <1>1, <2>1, <2>2 DEF Init, Types
<1>3. ReadInv
  <2>1. Len(string) = 0 /\ len = 0 /\ string = <<>> /\ server = "starting"
    BY EmptySeq DEF Init
  <2>2. QED
    BY <2>1 DEF ReadInv
<1>4. BeforeInv
  BY DEF Init, BeforeInv
<1>5. \A c \in Clients : ClientInv(c)
  BY DEF Init, ClientInv
<1>6. QED
  BY <1>2, <1>3, <1>4, <1>5 DEF FileServerInv

\* What was read stays what it was.
LEMMA FrameRead ==
    ASSUME ReadInv,
           file' = file, len' = len, string' = string, seen' = seen, server' = server
    PROVE  ReadInv'
  BY DEF ReadInv, WasThere, Garbage

\* While the length and the string stay, so does the message.
LEMMA SameMessage ==
    ASSUME len' = len, string' = string
    PROVE  Message' = Message
  BY DEF Message, Text, Strchr, SelectInSeq, Min

\* What holds of a client holds on while nothing of it changes.
LEMMA FrameClient ==
    ASSUME NEW c \in Clients, ClientInv(c), len' = len, string' = string,
           stream'[c] = stream[c], announced'[c] = announced[c], printed'[c] = printed[c]
    PROVE  ClientInv(c)'
<1>1. Message' = Message
  BY SameMessage
<1>2. (IsPrefix(printed[c], <<"\n">> \o string))' <=> IsPrefix(printed[c], <<"\n">> \o string)
  BY DEF IsPrefix
<1>3. QED
  BY <1>1, <1>2 DEF ClientInv

\* Before the server listens there is nothing for any client.
LEMMA NothingYet ==
    ASSUME FileServerInv, server # "listening",
           UNCHANGED <<backlog, child, stream, cpc, announced, printed>>
    PROVE  BeforeInv' /\ \A c \in Clients : ClientInv(c)'
<1>1. BeforeInv
  BY DEF FileServerInv
<1>2. BeforeInv'
  BY <1>1 DEF BeforeInv
<1>3. \A c \in Clients : ClientInv(c)'
  BY <1>1 DEF BeforeInv, ClientInv
<1>4. QED
  BY <1>2, <1>3

\* Another version of the file is one more that was there; what is the server's stays.
LEMMA EditKeeps ==
    ASSUME FileServerInv, Edit
    PROVE  FileServerInv'
<1>1. /\ edits < MAX_EDITS /\ edits' = edits + 1 /\ file' \in Contents
      /\ seen' = IF server = "reading" THEN seen \cup {file'} ELSE seen
      /\ len' = len /\ string' = string
      /\ server' = server /\ backlog' = backlog /\ child' = child /\ stream' = stream
      /\ cpc' = cpc /\ announced' = announced /\ printed' = printed
  BY DEF Edit, clientVars
<1>2. edits' \in 0..MAX_EDITS
  <2>1. MAX_EDITS \in Nat
    BY FileServerAssumption
  <2>2. edits \in 0..MAX_EDITS
    BY DEF FileServerInv, Types
  <2>3. QED
    BY <1>1, <2>1, <2>2
<1>3. Types'
  BY <1>1, <1>2 DEF FileServerInv, Types
<1>4. ReadInv'
  <2>1. ReadInv /\ seen \subseteq seen'
    BY <1>1 DEF FileServerInv
  <2>2. server = "reading" => file' \in seen'
    BY <1>1
  <2>3. ASSUME NEW i \in 1..Len(string), WasThere(string[i], i)
        PROVE  WasThere(string[i], i)'
    BY <1>1, <2>1, <2>3 DEF WasThere, Garbage
  <2>4. (\E v \in seen : len = Len(v)) => (\E v \in seen' : len' = Len(v))
    BY <1>1, <2>1
  <2>5. QED
    BY <1>1, <2>1, <2>2, <2>3, <2>4 DEF ReadInv
<1>5. BeforeInv'
  BY <1>1 DEF FileServerInv, BeforeInv
<1>6. \A c \in Clients : ClientInv(c)'
  BY <1>1, FrameClient DEF FileServerInv
<1>7. QED
  BY <1>3, <1>4, <1>5, <1>6 DEF FileServerInv

LEMMA TakeLengthKeeps ==
    ASSUME FileServerInv, TakeLength
    PROVE  FileServerInv'
<1>1. /\ server = "starting" /\ file' = file /\ edits' = edits /\ string' = string
      /\ backlog' = backlog /\ child' = child /\ stream' = stream
      /\ cpc' = cpc /\ announced' = announced /\ printed' = printed
      /\ \/ file # NoFile /\ len' = Len(file) /\ seen' = {file} /\ server' = "reading"
         \/ server' = "failed" /\ len' = len /\ seen' = seen
  BY DEF TakeLength, clientVars
<1>2. string = <<>> /\ Len(string) = 0 /\ Len(string) <= len
  <2>1. string = <<>>
    BY <1>1 DEF FileServerInv, ReadInv
  <2>2. QED
    BY <2>1, EmptySeq DEF FileServerInv, ReadInv
<1>3. file # NoFile => Len(file) \in Nat
  <2>1. file # NoFile => file \in Seq({"x", "\n", "0"})
    BY FileServerAssumption DEF FileServerInv, Types
  <2>2. QED
    BY <2>1
<1>4. Types'
  BY <1>1, <1>3 DEF FileServerInv, Types
<1>5. ReadInv'
  <2>1. CASE server' = "failed" /\ len' = len
    BY <1>1, <1>2, <2>1 DEF ReadInv
  <2>2. CASE file # NoFile /\ len' = Len(file) /\ seen' = {file} /\ server' = "reading"
    <3>1. file' \in seen' /\ \E v \in seen' : len' = Len(v)
      BY <1>1, <2>2
    <3>2. Len(string') = 0 /\ 0 <= len'
      BY <1>1, <1>2, <1>3, <2>2
    <3>3. \A i \in 1..Len(string') : WasThere(string[i], i)'
      BY <3>2
    <3>4. QED
      BY <2>2, <3>1, <3>2, <3>3 DEF ReadInv
  <2>3. QED
    BY <1>1, <2>1, <2>2
<1>6. BeforeInv' /\ \A c \in Clients : ClientInv(c)'
  BY <1>1, NothingYet
<1>7. QED
  BY <1>4, <1>5, <1>6 DEF FileServerInv

\* Every byte that is added comes from the file as it is by now, which is one of the
\* versions the file had meanwhile.
LEMMA ReadSomeKeeps ==
    ASSUME FileServerInv, ReadSome
    PROVE  FileServerInv'
<1>1. PICK n \in 1..(len - Len(string)) :
        /\ Len(string) + n <= Len(file)
        /\ string' = string \o SubSeq(file, Len(string) + 1, Len(string) + n)
  BY DEF ReadSome, Place
<1>2. /\ server = "reading" /\ file' = file /\ edits' = edits /\ len' = len
      /\ seen' = seen /\ server' = server /\ backlog' = backlog /\ child' = child
      /\ stream' = stream /\ cpc' = cpc /\ announced' = announced /\ printed' = printed
  BY DEF ReadSome, clientVars
<1>3. PICK f \in Seq(FileBytes) : f = file /\ f \in seen
  <2>1. file \in seen /\ seen \subseteq Contents
    BY <1>2 DEF FileServerInv, Types, ReadInv
  <2>2. file \in Seq({"x", "\n", "0"})
    BY <2>1, FileServerAssumption
  <2>3. file \in Seq(FileBytes)
    BY <2>2, SeqMonotonic DEF FileBytes
  <2>4. QED
    BY <2>1, <2>3
<1>4. string \in Seq(FileBytes) /\ len \in Nat /\ Len(string) <= len
  BY DEF FileServerInv, Types, ReadInv
<1>5. PICK k \in Nat : k = Len(string)
  BY <1>4
<1>6. PICK m \in Nat : m = n /\ m >= 1 /\ k + m <= len /\ k + m <= Len(f)
  BY <1>1, <1>3, <1>4, <1>5
<1>7. PICK part \in Seq(FileBytes) :
        /\ part = SubSeq(f, k + 1, k + m) /\ Len(part) = m
        /\ \A i \in 1..m : part[i] = f[k + i]
  <2>1. k + 1 \in Int /\ k + m \in Int /\ k + 1 >= 1 /\ k + 1 <= k + m + 1
        /\ (k + m) - (k + 1) + 1 = m /\ \A i \in 1..m : (k + 1) + i - 1 = k + i
    BY <1>6
  <2>2. /\ SubSeq(f, k + 1, k + m) \in Seq(FileBytes)
        /\ Len(SubSeq(f, k + 1, k + m)) = (k + m) - (k + 1) + 1
        /\ \A i \in 1..((k + m) - (k + 1) + 1) :
              SubSeq(f, k + 1, k + m)[i] = f[(k + 1) + i - 1]
    BY <1>6, <2>1, PartProperties
  <2>3. PICK part \in Seq(FileBytes) : part = SubSeq(f, k + 1, k + m)
    BY <2>2
  <2>4. ASSUME NEW i \in 1..m PROVE part[i] = f[k + i]
    <3>1. i \in 1..((k + m) - (k + 1) + 1) /\ (k + 1) + i - 1 = k + i
      BY <2>1
    <3>2. part[i] = f[(k + 1) + i - 1]
      BY <2>2, <2>3, <3>1
    <3>3. QED
      BY <3>1, <3>2
  <2>5. QED
    BY <2>1, <2>2, <2>3, <2>4
<1>8. /\ string' = string \o part /\ string' \in Seq(FileBytes) /\ Len(string') = k + m
      /\ \A i \in 1..(k + m) : string'[i] = IF i <= k THEN string[i] ELSE part[i - k]
  <2>1. string' = string \o part
    BY <1>1, <1>3, <1>5, <1>6, <1>7
  <2>2. /\ string \o part \in Seq(FileBytes) /\ Len(string \o part) = k + m
        /\ \A i \in 1..(k + m) : (string \o part)[i] = IF i <= k THEN string[i] ELSE part[i - k]
    BY <1>4, <1>5, <1>7, ConcatProperties
  <2>3. QED
    BY <2>1, <2>2
<1>9. Types'
  BY <1>2, <1>8 DEF FileServerInv, Types
<1>10. ReadInv'
  <2>1. ReadInv
    BY DEF FileServerInv
  <2>2. Len(string') <= len'
    BY <1>2, <1>6, <1>8
  <2>3. ASSUME NEW i \in 1..Len(string') PROVE WasThere(string[i], i)'
    <3>1. i \in 1..(k + m)
      BY <1>8
    <3>2. CASE i <= k
      <4>1. string'[i] = string[i] /\ i \in 1..Len(string)
        BY <1>5, <1>6, <1>8, <3>1, <3>2
      <4>2. WasThere(string[i], i)
        BY <1>2, <2>1, <4>1 DEF ReadInv
      <4>3. QED
        BY <1>2, <4>1, <4>2 DEF WasThere, Garbage
    <3>3. CASE ~ (i <= k)
      <4>1. i - k \in 1..m /\ k + (i - k) = i /\ i <= Len(f)
        BY <1>6, <3>1, <3>3
      <4>2. string'[i] = part[i - k]
        BY <1>8, <3>1, <3>3
      <4>3. part[i - k] = f[k + (i - k)]
        BY <1>7, <4>1
      <4>4. string'[i] = f[i]
        BY <4>1, <4>2, <4>3
      <4>5. QED
        BY <1>2, <1>3, <4>1, <4>4 DEF WasThere
    <3>4. QED
      BY <3>2, <3>3
  <2>4. QED
    BY <1>2, <2>1, <2>2, <2>3 DEF ReadInv
<1>11. BeforeInv' /\ \A c \in Clients : ClientInv(c)'
  BY <1>2, NothingYet
<1>12. QED
  BY <1>9, <1>10, <1>11 DEF FileServerInv

\* What was not read is behind the end of the file as it is by now.
LEMMA ListenKeeps ==
    ASSUME FileServerInv, Listen
    PROVE  FileServerInv'
<1>1. PICK rest \in [1..(len - Len(string)) -> Garbage] : string' = string \o rest
  BY DEF Listen
<1>2. /\ server = "reading" /\ server' \in {"listening", "failed"}
      /\ Len(string) = len \/ Len(string) >= Len(file)
      /\ file' = file /\ edits' = edits /\ len' = len
      /\ seen' = seen /\ backlog' = backlog /\ child' = child
      /\ stream' = stream /\ cpc' = cpc /\ announced' = announced /\ printed' = printed
  BY DEF Listen, Place, clientVars
<1>3. PICK f \in Seq({"x", "\n", "0"}) : f = file /\ f \in seen
  <2>1. file \in seen /\ seen \subseteq Contents
    BY <1>2 DEF FileServerInv, Types, ReadInv
  <2>2. QED
    BY <2>1, FileServerAssumption
<1>4. string \in Seq(FileBytes) /\ len \in Nat /\ Len(string) <= len
  BY DEF FileServerInv, Types, ReadInv
<1>5. PICK k \in Nat, m \in Nat : k = Len(string) /\ m = len - k /\ k + m = len
  BY <1>4
<1>6. PICK more \in Seq(FileBytes) :
        /\ more = rest /\ Len(more) = m /\ \A i \in 1..m : more[i] \in Garbage
  <2>1. rest \in [1..m -> Garbage]
    BY <1>1, <1>5
  <2>2. Garbage \subseteq FileBytes
    BY DEF Garbage, FileBytes
  <2>3. rest \in [1..m -> FileBytes]
    BY <2>1, <2>2
  <2>4. rest \in Seq(FileBytes) /\ DOMAIN rest = 1..m
    BY <2>3, SeqDef
  <2>5. Len(rest) = m
    BY <2>4, LenProperties
  <2>6. QED
    BY <2>1, <2>4, <2>5
<1>7. /\ string' \in Seq(FileBytes) /\ Len(string') = k + m
      /\ \A i \in 1..(k + m) : string'[i] = IF i <= k THEN string[i] ELSE more[i - k]
  <2>1. string' = string \o more
    BY <1>1, <1>6
  <2>2. /\ string \o more \in Seq(FileBytes) /\ Len(string \o more) = k + m
        /\ \A i \in 1..(k + m) : (string \o more)[i] = IF i <= k THEN string[i] ELSE more[i - k]
    BY <1>4, <1>5, <1>6, ConcatProperties
  <2>3. QED
    BY <2>1, <2>2
<1>8. Types'
  BY <1>2, <1>7 DEF FileServerInv, Types
<1>9. ReadInv'
  <2>1. ReadInv
    BY DEF FileServerInv
  <2>2. Len(string') = len' /\ Len(string') <= len'
    BY <1>2, <1>4, <1>5, <1>7
  <2>3. ASSUME NEW i \in 1..Len(string') PROVE WasThere(string[i], i)'
    <3>1. i \in 1..(k + m)
      BY <1>7
    <3>2. CASE i <= k
      <4>1. string'[i] = string[i] /\ i \in 1..Len(string)
        BY <1>5, <1>7, <3>1, <3>2
      <4>2. WasThere(string[i], i)
        BY <1>2, <2>1, <4>1 DEF ReadInv
      <4>3. QED
        BY <1>2, <4>1, <4>2 DEF WasThere, Garbage
    <3>3. CASE ~ (i <= k)
      <4>1. i - k \in 1..m
        BY <3>1, <3>3
      <4>2. string'[i] \in Garbage
        <5>1. string'[i] = more[i - k]
          BY <1>7, <3>1, <3>3
        <5>2. QED
          BY <1>6, <4>1, <5>1
      <4>3. ~ (i <= Len(f))
        <5>1. Len(string) # len
          BY <1>5, <3>1, <3>3
        <5>2. k >= Len(f) /\ Len(f) \in Nat
          BY <1>2, <1>3, <1>5, <5>1
        <5>3. QED
          BY <3>1, <3>3, <5>2
      <4>4. QED
        BY <1>2, <1>3, <4>2, <4>3 DEF WasThere, Garbage
    <3>4. QED
      BY <3>2, <3>3
  <2>4. \E v \in seen' : len' = Len(v)
    BY <1>2, <2>1 DEF ReadInv
  <2>5. QED
    BY <1>2, <2>2, <2>3, <2>4 DEF ReadInv
<1>10. BeforeInv' /\ \A c \in Clients : ClientInv(c)'
  BY <1>2, NothingYet
<1>11. QED
  BY <1>8, <1>9, <1>10 DEF FileServerInv

LEMMA AcceptKeeps ==
    ASSUME FileServerInv, Accept
    PROVE  FileServerInv'
<1>1. PICK start \in {"send", "closed"} : child' = [child EXCEPT ![Head(backlog)] = start]
  BY DEF Accept
<1>2. /\ backlog # <<>> /\ backlog' = Tail(backlog)
      /\ file' = file /\ edits' = edits /\ len' = len /\ string' = string
      /\ seen' = seen /\ server' = server
      /\ stream' = stream /\ cpc' = cpc /\ announced' = announced /\ printed' = printed
  BY DEF Accept, clientVars
<1>3. Tail(backlog) \in Seq(Clients) /\ Head(backlog) \in Clients
  BY <1>2, HeadTailProperties DEF FileServerInv, Types
<1>4. Types'
  BY <1>1, <1>2, <1>3 DEF FileServerInv, Types
<1>5. ReadInv'
  BY <1>2, FrameRead DEF FileServerInv
<1>6. BeforeInv'
  BY <1>2 DEF FileServerInv, BeforeInv
<1>7. \A c \in Clients : ClientInv(c)'
  BY <1>2, FrameClient DEF FileServerInv
<1>8. QED
  BY <1>4, <1>5, <1>6, <1>7 DEF FileServerInv

LEMMA SendAllKeeps ==
    ASSUME FileServerInv, NEW c \in Clients, SendAll(c)
    PROVE  FileServerInv'
<1>1. /\ child[c] = "send" /\ stream' = [stream EXCEPT ![c] = Message]
      /\ child' = [child EXCEPT ![c] = "closed"]
      /\ file' = file /\ edits' = edits /\ len' = len /\ string' = string
      /\ seen' = seen /\ server' = server
      /\ backlog' = backlog /\ cpc' = cpc /\ announced' = announced /\ printed' = printed
  BY DEF SendAll, clientVars
<1>2. Types'
  BY <1>1 DEF FileServerInv, Types
<1>3. server = "listening"
  BY <1>1 DEF FileServerInv, BeforeInv
<1>4. BeforeInv'
  BY <1>1, <1>3 DEF FileServerInv, BeforeInv
<1>5. DOMAIN stream = Clients
  BY DEF FileServerInv, Types
<1>6. stream'[c] = Message /\ \A d \in Clients \ {c} : stream'[d] = stream[d]
  BY <1>1, <1>5
<1>7. \A d \in Clients \ {c} : ClientInv(d)'
  BY <1>1, <1>6, FrameClient DEF FileServerInv
<1>8. ClientInv(c)'
  <2>1. Message' = Message
    BY <1>1, SameMessage
  <2>2. stream'[c] \in {<<>>, Message'}
    BY <1>6, <2>1
  <2>3. ClientInv(c)
    BY DEF FileServerInv
  <2>4. (IsPrefix(printed[c], <<"\n">> \o string))'
            <=> IsPrefix(printed[c], <<"\n">> \o string)
    BY <1>1 DEF IsPrefix
  <2>5. QED
    BY <1>1, <2>2, <2>3, <2>4 DEF ClientInv
<1>9. \A d \in Clients : ClientInv(d)'
  BY <1>7, <1>8
<1>10. ReadInv'
  BY <1>1, FrameRead DEF FileServerInv
<1>11. QED
  BY <1>2, <1>4, <1>9, <1>10 DEF FileServerInv

\* A client that comes or goes without having received anything.
LEMMA MoveKeeps ==
    ASSUME FileServerInv, NEW c \in Clients, NEW next \in {"recv", "failed"},
           cpc' = [cpc EXCEPT ![c] = next], server # "listening" => next = "failed",
           backlog' = backlog \/ (server = "listening" /\ backlog' = Append(backlog, c)),
           UNCHANGED <<file, edits, len, string, seen, server, child, stream,
                       announced, printed>>
    PROVE  FileServerInv'
<1>1. backlog' \in Seq(Clients)
  <2>1. backlog \in Seq(Clients)
    BY DEF FileServerInv, Types
  <2>2. Append(backlog, c) \in Seq(Clients)
    BY <2>1, AppendProperties
  <2>3. QED
    BY <2>1, <2>2
<1>2. Types'
  BY <1>1 DEF FileServerInv, Types
<1>3. BeforeInv'
  BY DEF FileServerInv, BeforeInv, Types
<1>4. \A d \in Clients : ClientInv(d)'
  BY FrameClient DEF FileServerInv
<1>5. ReadInv'
  BY FrameRead DEF FileServerInv
<1>6. QED
  BY <1>2, <1>3, <1>4, <1>5 DEF FileServerInv

\* The length the server announces is that of some file.
LEMMA AnnouncedLength ==
    ASSUME FileServerInv, server = "listening"
    PROVE  Digits(len) \notin {"", "\n"} /\ Digits(len) \in Lengths
<1>1. PICK v \in seen : len = Len(v)
  BY DEF FileServerInv, ReadInv
<1>2. v \in Contents
  BY DEF FileServerInv, Types
<1>3. QED
  BY <1>1, <1>2, FileServerAssumption DEF Lengths

LEMMA ReceiveKeeps ==
    ASSUME FileServerInv, NEW c \in Clients, Receive(c)
    PROVE  FileServerInv'
<1>1. /\ cpc[c] = "recv" /\ stream' = [stream EXCEPT ![c] = <<>>]
      /\ file' = file /\ edits' = edits /\ len' = len /\ string' = string
      /\ seen' = seen /\ server' = server
      /\ backlog' = backlog /\ child' = child
  BY DEF Receive, serverVars
<1>2. server = "listening" /\ HasRead /\ Digits(len) \in Lengths
  <2>1. server = "listening"
    BY <1>1 DEF FileServerInv, BeforeInv
  <2>2. QED
    BY <2>1, AnnouncedLength DEF HasRead, FileServerInv, Types
<1>3. PICK segment \in Segments(stream[c], MAXDATASIZE - 1) :
        IF Strchr(segment, "\n") = 0
        THEN /\ cpc' = [cpc EXCEPT ![c] = "failed"]
             /\ announced' = announced /\ printed' = printed
        ELSE /\ cpc' = [cpc EXCEPT ![c] = "done"]
             /\ announced' = [announced EXCEPT ![c] = segment[1]]
             /\ \E beyond \in IF Strchr(segment, "\n") = Len(segment)
                              THEN {<<>>, <<"?">>} ELSE {<<>>} :
                    printed' = [printed EXCEPT
                        ![c] = TextBehind(segment, Strchr(segment, "\n")) \o beyond]
  BY DEF Receive
<1>4. stream[c] = Message
  <2>1. SUFFICES ASSUME stream[c] = <<>> PROVE FALSE
    BY DEF FileServerInv, ClientInv
  <2>2. Segments(<<>>, MAXDATASIZE - 1) = {}
    <3>1. Len(<<>>) = 0
      BY EmptySeq
    <3>2. QED
      BY <3>1 DEF Segments
  <2>3. QED
    BY <2>1, <2>2
<1>5. PICK a, p :
        /\ announced' = [announced EXCEPT ![c] = a]
        /\ printed' = [printed EXCEPT ![c] = p]
        /\ a \in {"", Digits(len)} /\ a \in Lengths /\ p \in Seq(Printable)
        /\ \/ p \in {<<>>, <<"?">>}
           \/ IsPrefix(p, <<"\n">> \o string) /\ Len(p) <= MAXDATASIZE - 4
  <2>1. ClientInv(c) /\ announced \in [Clients -> Lengths]
        /\ printed \in [Clients -> Seq(Printable)]
    BY DEF FileServerInv, Types
  <2>2. CASE Strchr(segment, "\n") = 0
    <3>1. announced' = announced /\ printed' = printed
      BY <1>3, <2>2
    <3>2. announced' = [announced EXCEPT ![c] = announced[c]]
      BY <2>1, <3>1
    <3>3. printed' = [printed EXCEPT ![c] = printed[c]]
      BY <2>1, <3>1
    <3>4. QED
      BY <2>1, <3>2, <3>3 DEF ClientInv
  <2>3. CASE Strchr(segment, "\n") # 0
    <3>1. PICK beyond \in IF Strchr(segment, "\n") = Len(segment)
                          THEN {<<>>, <<"?">>} ELSE {<<>>} :
            printed' = [printed EXCEPT
                ![c] = TextBehind(segment, Strchr(segment, "\n")) \o beyond]
      BY <1>3, <2>3
    <3>2. PICK p : p = TextBehind(segment, Strchr(segment, "\n")) \o beyond
      OBVIOUS
    <3>3. segment \in Segments(Message, MAXDATASIZE - 1)
      BY <1>4
    <3>4. /\ segment[1] = Digits(len) /\ p \in Seq(Printable)
          /\ \/ p \in {<<>>, <<"?">>}
             \/ IsPrefix(p, <<"\n">> \o string) /\ Len(p) <= MAXDATASIZE - 4
      BY <1>2, <2>3, <3>2, <3>3, SegmentProperties
    <3>5. announced' = [announced EXCEPT ![c] = segment[1]]
      BY <1>3, <2>3
    <3>6. QED
      BY <1>2, <3>1, <3>2, <3>4, <3>5
  <2>4. QED
    BY <2>2, <2>3
<1>6. cpc' \in [Clients -> {"start", "recv", "done", "failed"}]
  BY <1>3 DEF FileServerInv, Types
<1>7. Types'
  BY <1>1, <1>5, <1>6 DEF FileServerInv, Types
<1>8. BeforeInv'
  BY <1>1, <1>2 DEF BeforeInv
<1>9. DOMAIN stream = Clients /\ announced \in [Clients -> Lengths]
      /\ printed \in [Clients -> Seq(Printable)]
  BY DEF FileServerInv, Types
<1>10. \A d \in Clients \ {c} : /\ stream'[d] = stream[d] /\ announced'[d] = announced[d]
                               /\ printed'[d] = printed[d]
  BY <1>1, <1>5, <1>9
<1>11. \A d \in Clients \ {c} : ClientInv(d)'
  BY <1>1, <1>10, FrameClient DEF FileServerInv
<1>12. stream'[c] = <<>> /\ announced'[c] = a /\ printed'[c] = p
  BY <1>1, <1>5, <1>9
<1>13. ClientInv(c)'
  <2>1. (IsPrefix(printed[c], <<"\n">> \o string))' <=> IsPrefix(p, <<"\n">> \o string)
    BY <1>1, <1>12 DEF IsPrefix
  <2>2. QED
    BY <1>1, <1>5, <1>12, <2>1 DEF ClientInv
<1>14. \A d \in Clients : ClientInv(d)'
  BY <1>11, <1>13
<1>15. ReadInv'
  BY <1>1, FrameRead DEF FileServerInv
<1>16. QED
  BY <1>7, <1>8, <1>14, <1>15 DEF FileServerInv

LEMMA FileServerNext == FileServerInv /\ [Next]_vars => FileServerInv'
<1> SUFFICES ASSUME FileServerInv, [Next]_vars PROVE FileServerInv'
  OBVIOUS
<1>1. ASSUME NEW c \in Clients, Connect(c) PROVE FileServerInv'
  <2>1. /\ cpc' = [cpc EXCEPT ![c] = "recv"] /\ server = "listening"
        /\ backlog' = Append(backlog, c)
        /\ UNCHANGED <<file, edits, len, string, seen, server, child, stream,
                       announced, printed>>
    BY <1>1 DEF Connect
  <2>2. QED
    BY <2>1, MoveKeeps
<1>2. ASSUME NEW c \in Clients, ConnectFails(c) \/ ReceiveNothing(c) PROVE FileServerInv'
  <2>1. /\ cpc' = [cpc EXCEPT ![c] = "failed"] /\ backlog' = backlog
        /\ UNCHANGED <<file, edits, len, string, seen, server, child, stream,
                       announced, printed>>
    BY <1>2 DEF ConnectFails, ReceiveNothing, serverVars
  <2>2. QED
    BY <2>1, MoveKeeps
<1>3. ASSUME UNCHANGED vars PROVE FileServerInv'
  <2>1. /\ file' = file /\ edits' = edits /\ len' = len /\ string' = string
      /\ seen' = seen /\ server' = server
        /\ backlog' = backlog /\ child' = child /\ stream' = stream
        /\ cpc' = cpc /\ announced' = announced /\ printed' = printed
    BY <1>3 DEF vars, serverVars, clientVars
  <2>2. Types' /\ BeforeInv' /\ ReadInv'
    BY <2>1, FrameRead DEF FileServerInv, Types, BeforeInv
  <2>3. \A c \in Clients : ClientInv(c)'
    BY <2>1, FrameClient DEF FileServerInv
  <2>4. QED
    BY <2>2, <2>3 DEF FileServerInv
<1>4. QED
  BY <1>1, <1>2, <1>3, ReceiveKeeps, SendAllKeeps, AcceptKeeps, EditKeeps,
     TakeLengthKeeps, ReadSomeKeeps, ListenKeeps
  DEF Next, Client, Idle

----------------------------------------------------------------------------
(***************************************************************************)
(* Theorems.                                                               *)
(***************************************************************************)

\* The invariant holds in every state.
LEMMA FileServerInvariance == Spec => []FileServerInv
<1>1. Init => FileServerInv
  BY FileServerInit
<1>2. FileServerInv /\ [Next]_vars => FileServerInv'
  BY FileServerNext
<1>3. QED
  BY <1>1, <1>2, PTL DEF Spec

\* What is on its way to a client is nothing or the one message of the server, and no
\* NUL is ever printed.
THEOREM TypeCorrectness == Spec => []TypeOK
<1>1. FileServerInv => TypeOK
  <2> SUFFICES ASSUME FileServerInv PROVE TypeOK
    OBVIOUS
  <2>1. ToSet(backlog) \subseteq Clients
    BY ElementOfSeq DEF FileServerInv, Types, ToSet
  <2>2. \A c \in Clients : announced[c] # "\n"
    <3>1. TAKE c \in Clients
    <3>2. CASE server = "listening"
      <4>1. Digits(len) # "\n"
        BY <3>2, AnnouncedLength
      <4>2. QED
        BY <4>1 DEF FileServerInv, ClientInv
    <3>3. CASE server # "listening"
      BY <3>3 DEF FileServerInv, BeforeInv
    <3>4. QED
      BY <3>2, <3>3
  <2>3. \A c \in Clients : ToSet(printed[c]) \subseteq {"x", "\n", "?"}
    <3>1. TAKE c \in Clients
    <3>2. printed[c] \in Seq(Printable)
      BY DEF FileServerInv, Types
    <3>3. QED
      BY <3>2, ElementOfSeq DEF ToSet, Printable
  <2>4. \A c \in Clients : stream[c] \in {<<>>, Message}
    BY DEF FileServerInv, ClientInv
  <2>5. Len(string) <= len /\ ToSet(string) \subseteq {"x", "\n", "0", "?"}
    BY ElementOfSeq DEF FileServerInv, Types, ReadInv, ToSet, FileBytes
  <2>6. QED
    BY <2>1, <2>2, <2>3, <2>4, <2>5 DEF FileServerInv, Types, TypeOK
<1>2. QED
  BY <1>1, FileServerInvariance, PTL

\* All clients are told the same length and print a part, from its start, of the same
\* string, however TCP cuts the message and whatever others write to the file once the
\* server has read it.
THEOREM OneFileForAll == Spec => []ClientsSeeOneFile
<1>1. FileServerInv => ClientsSeeOneFile
  BY DEF FileServerInv, ClientInv, ClientsSeeOneFile
<1>2. QED
  BY <1>1, FileServerInvariance, PTL

\* The elements of a prefix.
LEMMA PrefixElements ==
    ASSUME NEW S, NEW s \in Seq(S), NEW T, NEW t \in Seq(T), IsPrefix(s, t)
    PROVE  Len(s) <= Len(t) /\ \A i \in 1..Len(s) : s[i] = t[i]
<1>1. Len(s) <= Len(t) /\ SubSeq(s, 1, Len(s)) = SubSeq(t, 1, Len(s))
  BY DEF IsPrefix
<1>2. Len(s) \in 0..Len(s) /\ Len(s) \in 0..Len(t)
  BY <1>1
<1>3. \A i \in 1..Len(s) : SubSeq(s, 1, Len(s))[i] = s[i]
  BY <1>2, FirstElements
<1>4. \A i \in 1..Len(s) : SubSeq(t, 1, Len(s))[i] = t[i]
  BY <1>2, FirstElements
<1>5. QED
  BY <1>1, <1>3, <1>4

\* Whenever others write to the file, the length a client is told and every byte of the
\* text it prints are of versions the file had while the server read it, unless such a
\* version was too short to have the byte; with one such version, it is that one.
THEOREM OnlyWhatWasRead == Spec => []PrintedWasInTheFile
<1>1. ASSUME FileServerInv, NEW c \in Clients, announced[c] # ""
      PROVE  \E v \in seen : announced[c] = Digits(Len(v))
  <2>1. server = "listening"
    BY <1>1 DEF FileServerInv, BeforeInv
  <2>2. PICK v \in seen : len = Len(v)
    BY <1>1, <2>1 DEF FileServerInv, ReadInv
  <2>3. announced[c] = Digits(len)
    BY <1>1 DEF FileServerInv, ClientInv
  <2>4. QED
    BY <2>2, <2>3
<1>2. ASSUME FileServerInv, NEW c \in Clients, printed[c] \notin {<<>>, <<"?">>}
      PROVE  /\ \A i \in 1..(Len(printed[c]) - 1) : \E v \in seen :
                   printed[c][i + 1] = IF i <= Len(v) THEN v[i] ELSE "?"
             /\ \A v \in seen : seen = {v} => IsPrefix(printed[c], <<"\n">> \o v)
  <2>1. server = "listening"
    BY <1>2 DEF FileServerInv, BeforeInv
  <2>2. /\ Len(string) = len /\ \E v \in seen : len = Len(v)
        /\ \A i \in 1..Len(string) : WasThere(string[i], i)
    BY <1>2, <2>1 DEF FileServerInv, ReadInv
  <2>3. PICK p \in Seq(Printable) : p = printed[c]
    BY <1>2 DEF FileServerInv, Types
  <2>4. PICK x \in Seq(FileBytes) : x = string
    BY <1>2 DEF FileServerInv, Types
  <2>5. IsPrefix(p, <<"\n">> \o x)
    BY <1>2, <2>3, <2>4 DEF FileServerInv, ClientInv
  <2>6. PICK l \in Seq(FileBytes) : l = <<"\n">> /\ Len(l) = 1
    <3>1. "\n" \in FileBytes
      BY DEF FileBytes
    <3>2. <<"\n">> \in Seq(FileBytes) /\ Len(<<"\n">>) = 1
      BY <3>1, SmallSeq
    <3>3. QED
      BY <3>2
  <2>7. /\ l \o x \in Seq(FileBytes) /\ Len(l \o x) = 1 + Len(x)
        /\ \A j \in 1..(1 + Len(x)) : (l \o x)[j] = IF j <= 1 THEN l[j] ELSE x[j - 1]
    BY <2>6, ConcatProperties
  <2>8. Len(p) <= 1 + Len(x) /\ \A j \in 1..Len(p) : p[j] = (l \o x)[j]
    BY <2>5, <2>6, <2>7, PrefixElements
  <2>9. Len(p) \in Nat /\ Len(x) \in Nat
    OBVIOUS
  <2>10. ASSUME NEW i \in 1..(Len(p) - 1)
         PROVE  \E v \in seen : p[i + 1] = IF i <= Len(v) THEN v[i] ELSE "?"
    <3>1. i + 1 \in 1..Len(p) /\ i + 1 \in 1..(1 + Len(x)) /\ ~ (i + 1 <= 1)
          /\ (i + 1) - 1 = i /\ i \in 1..Len(x)
      BY <2>8, <2>9
    <3>2. p[i + 1] = (l \o x)[i + 1]
      BY <2>8, <3>1
    <3>3. (l \o x)[i + 1] = x[(i + 1) - 1]
      BY <2>7, <3>1
    <3>4. p[i + 1] = x[i]
      BY <3>1, <3>2, <3>3
    <3>5. PICK v \in seen : IF i <= Len(v) THEN x[i] = v[i] ELSE x[i] \in Garbage
      BY <2>2, <2>4, <3>1 DEF WasThere
    <3>6. p[i + 1] \in Printable
      BY <3>1, ElementOfSeq
    <3>7. x[i] \in Garbage => x[i] = "?"
      BY <3>4, <3>6 DEF Garbage, Printable
    <3>8. QED
      BY <3>4, <3>5, <3>7
  <2>11. ASSUME NEW v \in seen, seen = {v} PROVE IsPrefix(p, <<"\n">> \o v)
    <3>1. PICK f \in Seq(FileBytes) : f = v
      <4>1. v \in Seq({"x", "\n", "0"})
        BY <1>2, FileServerAssumption DEF FileServerInv, Types
      <4>2. v \in Seq(FileBytes)
        BY <4>1, SeqMonotonic DEF FileBytes
      <4>3. QED
        BY <4>2
    <3>2. Len(x) = Len(f)
      BY <2>2, <2>4, <2>11, <3>1
    <3>3. ASSUME NEW i \in 1..Len(x) PROVE x[i] = f[i]
      <4>1. WasThere(x[i], i)
        BY <2>2, <2>4
      <4>2. i <= Len(f)
        BY <2>9, <3>2
      <4>3. QED
        BY <2>11, <3>1, <4>1, <4>2 DEF WasThere
    <3>4. x = f
      BY <3>2, <3>3, SeqEqual
    <3>5. QED
      BY <2>5, <3>1, <3>4
  <2>12. QED
    BY <2>3, <2>10, <2>11
<1>3. FileServerInv => PrintedWasInTheFile
  BY <1>1, <1>2 DEF PrintedWasInTheFile
<1>4. QED
  BY <1>3, FileServerInvariance, PTL
==============================================================================
