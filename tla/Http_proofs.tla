----------------------------- MODULE Http_proofs -----------------------------
(***************************************************************************)
(* What the server of mp1 serves is the file the URL names, and what a     *)
(* client saves after a clean start is that file: for any number of        *)
(* clients, all URLs and files, and however TCP cuts its streams.          *)
(***************************************************************************)
EXTENDS Http, SequenceTheorems, WellFoundedInduction, TLAPS

(***************************************************************************)
(* Parts of sequences, and the first place of an element.                  *)
(***************************************************************************)

\* A set of natural numbers that is not empty has a least element.
LEMMA MinOfNaturals ==
    ASSUME NEW S \in SUBSET Nat, S # {}
    PROVE  /\ Min(S) \in S
           /\ \A y \in S : Min(S) <= y
<1> DEFINE R == OpToRel(<, Nat)
<1>1. IsWellFoundedOn(R, Nat)
  BY NatLessThanWellFounded
<1>2. \A x, y \in Nat : x < y => <<x, y>> \in R
  BY DEF OpToRel
<1> HIDE DEF R
<1>3. PICK x \in S : \A y \in S : <<y, x>> \notin R
  BY <1>1, WFMin
<1>4. \A y \in S : x <= y
  <2>1. TAKE y \in S
  <2>2. x \in Nat /\ y \in Nat /\ ~ (y < x)
    BY <1>2, <1>3
  <2>3. QED
    BY <2>2
<1>5. QED
  BY <1>4 DEF Min

\* Strchr finds the first x.
LEMMA FirstPlace ==
    ASSUME NEW S, NEW s \in Seq(S), NEW x
    PROVE  /\ Strchr(s, x) \in 0..Len(s)
           /\ Strchr(s, x) = 0 => \A i \in 1..Len(s) : s[i] # x
           /\ Strchr(s, x) # 0 => /\ s[Strchr(s, x)] = x
                                  /\ \A i \in 1..(Strchr(s, x) - 1) : s[i] # x
<1> DEFINE I == {i \in 1..Len(s) : s[i] = x}
<1>1. Strchr(s, x) = IF I # {} THEN Min(I) ELSE 0
  BY DEF Strchr, SelectInSeq
<1>2. Len(s) \in Nat
  OBVIOUS
<1>3. I \in SUBSET Nat
  OBVIOUS
<1>4. CASE I = {}
  BY <1>1, <1>2, <1>4
<1>5. CASE I # {}
  <2>1. Min(I) \in I /\ \A y \in I : Min(I) <= y
    BY <1>3, <1>5, MinOfNaturals
  <2> DEFINE m == Min(I)
  <2>2. m \in 1..Len(s) /\ s[m] = x /\ m # 0
    BY <2>1
  <2>3. ASSUME NEW i \in 1..(m - 1) PROVE s[i] # x
    <3>1. i \in 1..Len(s) /\ ~ (m <= i)
      BY <1>2, <2>2
    <3>2. QED
      BY <2>1, <3>1
  <2>4. Strchr(s, x) = m
    BY <1>1, <1>5
  <2> HIDE DEF m
  <2>5. QED
    BY <1>2, <2>2, <2>3, <2>4
<1>6. QED
  BY <1>4, <1>5

\* A part of a sequence, element by element.
LEMMA PartProperties ==
    ASSUME NEW S, NEW s \in Seq(S), NEW m \in Int, NEW n \in Int,
           m >= 1, n <= Len(s), m <= n + 1
    PROVE  /\ SubSeq(s, m, n) \in Seq(S)
           /\ Len(SubSeq(s, m, n)) = n - m + 1
           /\ \A i \in 1..(n - m + 1) : SubSeq(s, m, n)[i] = s[m + i - 1]
<1>1. \A i \in m..n : s[i] \in S
  <2>1. TAKE i \in m..n
  <2>2. i \in 1..Len(s)
    OBVIOUS
  <2>3. QED
    BY <2>2, ElementOfSeq
<1>2. /\ SubSeq(s, m, n) \in Seq(S)
      /\ Len(SubSeq(s, m, n)) = IF m <= n THEN n - m + 1 ELSE 0
      /\ \A i \in 1..(n - m + 1) : SubSeq(s, m, n)[i] = s[m + i - 1]
  BY <1>1, SubSeqProperties
<1>3. QED
  BY <1>2

\* The rest of a sequence.
LEMMA FromProperties ==
    ASSUME NEW S, NEW s \in Seq(S), NEW m \in 1..(Len(s) + 1)
    PROVE  /\ From(s, m) \in Seq(S)
           /\ Len(From(s, m)) = Len(s) - m + 1
           /\ \A i \in 1..(Len(s) - m + 1) : From(s, m)[i] = s[m + i - 1]
<1>1. Len(s) \in Nat /\ m \in Int /\ m >= 1 /\ m <= Len(s) + 1
  OBVIOUS
<1>2. QED
  BY <1>1, PartProperties DEF From

\* A sequence is its first n elements and the rest.
LEMMA SplitSeq ==
    ASSUME NEW S, NEW s \in Seq(S), NEW n \in 0..Len(s)
    PROVE  SubSeq(s, 1, n) \o From(s, n + 1) = s
<1>1. Len(s) \in Nat
  OBVIOUS
<1>2. 1 \in 1..(Len(s) + 1) /\ n \in (1 - 1)..Len(s) /\ Len(s) \in n..Len(s)
  BY <1>1
<1>3. SubSeq(s, 1, n) \o SubSeq(s, n + 1, Len(s)) = SubSeq(s, 1, Len(s))
  BY <1>2, ConcatAdjacentSubSeq
<1>4. QED
  BY <1>3, SubSeqFull DEF From

\* The elements of a sequence, and those of its parts.
LEMMA ElementsOfSeq ==
    ASSUME NEW S, NEW s \in Seq(S)
    PROVE  ToSet(s) \subseteq S
  BY ElementOfSeq DEF ToSet

----------------------------------------------------------------------------
(***************************************************************************)
(* The inductive invariant.                                                *)
(***************************************************************************)

\* The symbols of URLs and requests.
Symbols ==
    {"GET /", " ", "headers"} \cup (UNION {ToSet(u) : u \in UNION {Urls[c] : c \in Clients}})

\* The bytes of files, those that may be on their way behind the status line, all
\* that may be on their way, and those a client may save,
\* and any of them.
FileBytes == {"x", "0"}
Data == FileBytes \cup {"\r", "\n"}
Bytes == Statuses \cup Data
Saved == Data \cup {"?"}
AnyByte == Bytes \cup Saved

\* What the child of client c sends of a file: nothing if it finds none.
Served(c) == IF PathGot(c) \in DOMAIN Files THEN Files[PathGot(c)] ELSE <<>>

\* The URL names this server.
Named(u) ==
    LET asked == Extract(u)
    IN  asked.ok /\ asked.host = ServerHost /\ asked.port = ServerPort

Types ==
    /\ cpc \in [Clients -> {"start", "first", "body", "done", "failed"}]
    /\ clean \in [Clients -> {"unknown", "clean", "not clean"}]
    /\ child \in [Clients -> {"none", "request", "reply", "file", "closed"}]
    /\ server \in {"starting", "listening", "failed"}
    /\ url \in [Clients -> Seq(Symbols)]
    /\ \A c \in Clients : url[c] \in Urls[c]
    /\ output \in [Clients -> Seq(Saved)]
    /\ unread \in [Clients -> Seq(FileBytes)]
    /\ stream \in [Clients -> Seq(Bytes)]
    /\ got \in [Clients -> Seq(Symbols)]

\* The connections that wait for accept() are of clients that wait for an answer.
BacklogInv ==
    /\ backlog \in Seq(Clients)
    /\ \A i \in 1..Len(backlog) :
        child[backlog[i]] = "none" /\ cpc[backlog[i]] = "first"
    /\ \A i, j \in 1..Len(backlog) : backlog[i] = backlog[j] => i = j

\* What a child has got is a part of the request of a client that found the server.
RequestInv(c) ==
    /\ \E n \in 0..Len(Request(c)) : got[c] = SubSeq(Request(c), 1, n)
    /\ (child[c] # "none" \/ cpc[c] = "first") => Named(url[c])
    /\ child[c] = "none" => cpc[c] \in {"start", "first", "failed"}
    /\ child[c] \in {"none", "request"} => got[c] = <<>>

\* Before the child answers nothing is on its way.
QuietInv(c) ==
    /\ child[c] \in {"none", "request", "reply"} =>
        /\ stream[c] = <<>> /\ unread[c] = <<>> /\ output[c] = <<>>
        /\ clean[c] = "unknown"
    /\ child[c] \in {"request", "reply"} => cpc[c] = "first"

\* Until the client's first recv() the whole answer is on its way or still unread;
\* after a clean one it is what is saved, on its way or unread.
AnswerInv(c) ==
    child[c] \in {"file", "closed"} =>
        /\ cpc[c] \in {"first", "body", "done", "failed"}
        /\ cpc[c] = "first" =>
            /\ clean[c] = "unknown" /\ output[c] = <<>>
            /\ \/ stream[c] = <<>> /\ unread[c] = <<>>
               \/ \E status \in Statuses :
                    stream[c] \o unread[c] = Header(status) \o Served(c)
        /\ cpc[c] # "first" => stream[c] \in Seq(Data)
        /\ (cpc[c] \in {"body", "done"} /\ clean[c] = "clean")
                => (output[c] \o stream[c]) \o unread[c] = Served(c)
        /\ (cpc[c] = "failed" /\ clean[c] = "clean") => IsPrefix(output[c], Served(c))
        /\ (child[c] = "closed" /\ cpc[c] \in {"first", "body", "done"})
                => unread[c] = <<>>
        /\ cpc[c] = "done" => child[c] = "closed" /\ stream[c] = <<>>

ConnectionInv(c) == RequestInv(c) /\ QuietInv(c) /\ AnswerInv(c)

HttpInv ==
    /\ Types
    /\ BacklogInv
    /\ \A c \in Clients : ConnectionInv(c)

----------------------------------------------------------------------------
(***************************************************************************)
(* Sequences put together from others.                                     *)
(***************************************************************************)

\* What comes first is a prefix.
LEMMA PrefixOfConcat ==
    ASSUME NEW S, NEW s \in Seq(S), NEW t \in Seq(S)
    PROVE  IsPrefix(s, s \o t)
<1>1. /\ s \o t \in Seq(S) /\ Len(s \o t) = Len(s) + Len(t)
      /\ \A i \in 1..(Len(s) + Len(t)) :
           (s \o t)[i] = IF i <= Len(s) THEN s[i] ELSE t[i - Len(s)]
      /\ Len(s) \in Nat /\ Len(t) \in Nat
  BY ConcatProperties
<1>2. /\ SubSeq(s \o t, 1, Len(s)) \in Seq(S)
      /\ Len(SubSeq(s \o t, 1, Len(s))) = Len(s) - 1 + 1
      /\ \A i \in 1..(Len(s) - 1 + 1) : SubSeq(s \o t, 1, Len(s))[i] = (s \o t)[1 + i - 1]
  BY <1>1, PartProperties
<1>3. \A i \in 1..Len(s) : SubSeq(s \o t, 1, Len(s))[i] = s[i]
  <2>1. TAKE i \in 1..Len(s)
  <2>2. i \in 1..(Len(s) - 1 + 1) /\ 1 + i - 1 = i /\ i \in 1..(Len(s) + Len(t))
        /\ i <= Len(s)
    BY <1>1
  <2>3. SubSeq(s \o t, 1, Len(s))[i] = (s \o t)[i]
    BY <1>2, <2>2
  <2>4. QED
    BY <1>1, <2>2, <2>3
<1>4. SubSeq(s \o t, 1, Len(s)) = s
  <2>1. Len(SubSeq(s \o t, 1, Len(s))) = Len(s)
    BY <1>1, <1>2
  <2>2. QED
    BY <1>2, <1>3, <2>1, SeqEqual
<1>5. SubSeq(s, 1, Len(s)) = s
  BY SubSeqFull
<1>6. QED
  BY <1>1, <1>4, <1>5 DEF IsPrefix

\* Strip the first k elements, which are h, of s and u together; the first n
\* elements of s go one way and the others another.
LEMMA StripHeader ==
    ASSUME NEW S, NEW s \in Seq(S), NEW u \in Seq(S), NEW h \in Seq(S), NEW f \in Seq(S),
           s \o u = h \o f, NEW n \in Len(h)..Len(s)
    PROVE  (From(SubSeq(s, 1, n), Len(h) + 1) \o From(s, n + 1)) \o u = f
<1> DEFINE k == Len(h)
           a == SubSeq(s, 1, n)
           r == SubSeq(s, k + 1, Len(s))
<1>1. k \in Nat /\ Len(s) \in Nat /\ Len(u) \in Nat /\ Len(f) \in Nat
      /\ n \in Nat /\ k <= n /\ n <= Len(s)
  OBVIOUS
<1>2. /\ a \in Seq(S) /\ Len(a) = n
      /\ \A i \in 1..n : a[i] = s[i]
  <2>1. /\ a \in Seq(S) /\ Len(a) = n - 1 + 1
        /\ \A i \in 1..(n - 1 + 1) : a[i] = s[1 + i - 1]
    BY <1>1, PartProperties
  <2>2. n - 1 + 1 = n /\ \A i \in 1..n : 1 + i - 1 = i
    BY <1>1
  <2>3. QED
    BY <2>1, <2>2
<1> HIDE DEF k, a
<1>3. From(a, k + 1) = SubSeq(s, k + 1, n)
  <2>1. k + 1 \in 1..(Len(a) + 1) /\ Len(a) - (k + 1) + 1 = n - k
        /\ n - (k + 1) + 1 = n - k /\ k + 1 \in Int /\ n \in Int
        /\ k + 1 >= 1 /\ n <= Len(s) /\ k + 1 <= n + 1
    BY <1>1, <1>2
  <2>2. /\ From(a, k + 1) \in Seq(S) /\ Len(From(a, k + 1)) = n - k
        /\ \A i \in 1..(n - k) : From(a, k + 1)[i] = a[k + 1 + i - 1]
    BY <1>2, <2>1, FromProperties
  <2>3. /\ SubSeq(s, k + 1, n) \in Seq(S) /\ Len(SubSeq(s, k + 1, n)) = n - k
        /\ \A i \in 1..(n - k) : SubSeq(s, k + 1, n)[i] = s[k + 1 + i - 1]
    BY <2>1, PartProperties
  <2>4. \A i \in 1..(n - k) : k + 1 + i - 1 \in 1..n
    BY <1>1
  <2>5. \A i \in 1..(n - k) : From(a, k + 1)[i] = SubSeq(s, k + 1, n)[i]
    BY <1>2, <2>2, <2>3, <2>4
  <2>6. QED
    BY <2>2, <2>3, <2>5, SeqEqual
<1>4. SubSeq(s, k + 1, n) \o From(s, n + 1) = r
  <2>1. k + 1 \in 1..(Len(s) + 1) /\ n \in ((k + 1) - 1)..Len(s) /\ Len(s) \in n..Len(s)
    BY <1>1
  <2>2. SubSeq(s, k + 1, n) \o SubSeq(s, n + 1, Len(s)) = SubSeq(s, k + 1, Len(s))
    BY <2>1, ConcatAdjacentSubSeq
  <2>3. QED
    BY <2>2 DEF From
<1>5. /\ r \in Seq(S) /\ Len(r) = Len(s) - k
      /\ \A i \in 1..(Len(s) - k) : r[i] = s[k + i]
  <2>1. /\ r \in Seq(S) /\ Len(r) = Len(s) - (k + 1) + 1
        /\ \A i \in 1..(Len(s) - (k + 1) + 1) : r[i] = s[k + 1 + i - 1]
    <3>1. k + 1 \in Int /\ k + 1 >= 1 /\ Len(s) \in Int /\ k + 1 <= Len(s) + 1
          /\ Len(s) <= Len(s)
      BY <1>1
    <3>2. QED
      BY <3>1, PartProperties
  <2>2. Len(s) - (k + 1) + 1 = Len(s) - k /\ \A i \in 1..(Len(s) - k) : k + 1 + i - 1 = k + i
    BY <1>1
  <2>3. QED
    BY <2>1, <2>2
<1> HIDE DEF r
<1>6. /\ Len(s \o u) = Len(s) + Len(u)
      /\ \A i \in 1..(Len(s) + Len(u)) :
           (s \o u)[i] = IF i <= Len(s) THEN s[i] ELSE u[i - Len(s)]
  BY ConcatProperties
<1>7. /\ Len(s \o u) = k + Len(f)
      /\ \A i \in 1..(k + Len(f)) :
           (s \o u)[i] = IF i <= k THEN h[i] ELSE f[i - k]
  <2>1. /\ Len(h \o f) = Len(h) + Len(f)
        /\ \A i \in 1..(Len(h) + Len(f)) :
             (h \o f)[i] = IF i <= Len(h) THEN h[i] ELSE f[i - Len(h)]
    BY ConcatProperties
  <2>2. QED
    BY <2>1 DEF k
<1>8. /\ r \o u \in Seq(S) /\ Len(r \o u) = Len(r) + Len(u)
      /\ \A i \in 1..(Len(r) + Len(u)) :
           (r \o u)[i] = IF i <= Len(r) THEN r[i] ELSE u[i - Len(r)]
  BY <1>5, ConcatProperties
<1>9. Len(r \o u) = Len(f)
  BY <1>1, <1>5, <1>6, <1>7, <1>8
<1>10. ASSUME NEW i \in 1..Len(f) PROVE (r \o u)[i] = f[i]
  <2>1. k + i \in 1..(k + Len(f)) /\ ~ (k + i <= k) /\ k + i - k = i
        /\ k + i \in 1..(Len(s) + Len(u)) /\ i \in 1..(Len(r) + Len(u))
        /\ i \in Int
    BY <1>1, <1>5, <1>6, <1>7
  <2>2. (s \o u)[k + i] = f[i]
    <3> DEFINE j == k + i
    <3>1. j \in 1..(k + Len(f)) /\ ~ (j <= k) /\ j - k = i
      BY <1>1, <2>1
    <3> HIDE DEF j
    <3>2. (s \o u)[j] = f[j - k]
      BY <1>7, <3>1
    <3>3. (s \o u)[j] = f[i]
      BY <3>1, <3>2
    <3>4. QED
      BY <3>3 DEF j
  <2>3. CASE i <= Len(s) - k
    <3>1. (r \o u)[i] = s[k + i]
      BY <1>1, <1>5, <1>8, <2>1, <2>3
    <3>2. (s \o u)[k + i] = s[k + i]
      BY <1>1, <1>6, <2>1, <2>3
    <3>3. QED
      BY <2>2, <3>1, <3>2
  <2>4. CASE ~ (i <= Len(s) - k)
    <3>1. (r \o u)[i] = u[i - Len(r)]
      BY <1>1, <1>5, <1>8, <2>1, <2>4
    <3>2. (s \o u)[k + i] = u[k + i - Len(s)]
      BY <1>1, <1>6, <2>1, <2>4
    <3>3. i - Len(r) = k + i - Len(s)
      BY <1>1, <1>5, <2>1
    <3>4. QED
      BY <2>2, <3>1, <3>2, <3>3
  <2>5. QED
    BY <2>3, <2>4
<1>11. r \o u = f
  BY <1>8, <1>9, <1>10, SeqEqual
<1>12. QED
  BY <1>3, <1>4, <1>11 DEF k, a

\* A part moves from the front of t to the end of s.
LEMMA MovePart ==
    ASSUME NEW S, NEW s \in Seq(S), NEW t \in Seq(S), NEW n \in 0..Len(t)
    PROVE  (s \o SubSeq(t, 1, n)) \o From(t, n + 1) = s \o t
<1> DEFINE a == SubSeq(t, 1, n)
           b == From(t, n + 1)
<1>1. a \o b = t
  BY SplitSeq
<1>2. a \in Seq(S) /\ b \in Seq(S)
  <2>1. Len(t) \in Nat /\ n \in Int /\ 1 <= n + 1 /\ n <= Len(t) /\ n + 1 \in 1..(Len(t) + 1)
    OBVIOUS
  <2>2. QED
    BY <2>1, PartProperties, FromProperties
<1> HIDE DEF a, b
<1>3. (s \o a) \o b = s \o (a \o b)
  BY <1>2, ConcatAssociative
<1>4. QED
  BY <1>1, <1>3 DEF a, b

\* What strlen() takes of some bytes.
LEMMA TextProperties ==
    ASSUME NEW S, NEW s \in Seq(S)
    PROVE  /\ Text(s) \in Seq(S)
           /\ Text(s) = s <=> \A i \in 1..Len(s) : s[i] # "0"
<1> DEFINE k == Strchr(s, "0")
<1>1. /\ k \in 0..Len(s)
      /\ k = 0 => \A i \in 1..Len(s) : s[i] # "0"
      /\ k # 0 => s[k] = "0"
  BY FirstPlace
<1>2. Text(s) = IF k = 0 THEN s ELSE SubSeq(s, 1, k - 1)
  BY DEF Text
<1> HIDE DEF k
<1>3. CASE k = 0
  BY <1>1, <1>2, <1>3
<1>4. CASE k # 0
  <2>1. k \in 1..Len(s) /\ Len(s) \in Nat /\ k - 1 \in Int /\ k - 1 <= Len(s) /\ 1 <= k - 1 + 1
    BY <1>1, <1>4
  <2>2. SubSeq(s, 1, k - 1) \in Seq(S) /\ Len(SubSeq(s, 1, k - 1)) = k - 1 - 1 + 1
    BY <2>1, PartProperties
  <2>3. Text(s) # s
    BY <1>2, <1>4, <2>1, <2>2
  <2>4. QED
    BY <1>1, <1>2, <1>4, <2>1, <2>2, <2>3
<1>5. QED
  BY <1>3, <1>4

\* What is left behind some place, also when the sequence ends before it.
LEMMA FromInSeq ==
    ASSUME NEW S, NEW s \in Seq(S), NEW m \in Nat \ {0}
    PROVE  /\ From(s, m) \in Seq(S)
           /\ m > Len(s) => From(s, m) = <<>>
<1>1. Len(s) \in Nat /\ m \in Int /\ Len(s) \in Int
  OBVIOUS
<1>2. \A i \in m..Len(s) : s[i] \in S
  <2>1. TAKE i \in m..Len(s)
  <2>2. i \in 1..Len(s)
    OBVIOUS
  <2>3. QED
    BY <2>2, ElementOfSeq
<1>3. SubSeq(s, m, Len(s)) \in Seq(S)
  BY <1>1, <1>2, SubSeqProperties
<1>4. m > Len(s) => SubSeq(s, m, Len(s)) = <<>>
  BY <1>1, SubSeqEmpty
<1>5. QED
  BY <1>3, <1>4 DEF From

\* The first n elements of a sequence.
LEMMA FirstElements ==
    ASSUME NEW S, NEW s \in Seq(S), NEW n \in 0..Len(s)
    PROVE  /\ SubSeq(s, 1, n) \in Seq(S)
           /\ Len(SubSeq(s, 1, n)) = n
           /\ \A i \in 1..n : SubSeq(s, 1, n)[i] = s[i]
<1>1. n \in Int /\ n <= Len(s) /\ 1 <= n + 1 /\ n - 1 + 1 = n
      /\ \A i \in 1..n : 1 + i - 1 = i
  OBVIOUS
<1>2. /\ SubSeq(s, 1, n) \in Seq(S) /\ Len(SubSeq(s, 1, n)) = n - 1 + 1
      /\ \A i \in 1..(n - 1 + 1) : SubSeq(s, 1, n)[i] = s[1 + i - 1]
  BY <1>1, PartProperties
<1>3. QED
  BY <1>1, <1>2

----------------------------------------------------------------------------
(***************************************************************************)
(* URLs, requests and answers.                                             *)
(***************************************************************************)

\* The parts a URL is taken apart into.
LEMMA PathOfUrl ==
    ASSUME NEW u \in Seq(Symbols)
    PROVE  /\ From(u, Strchr(u, ":") + 3) \in Seq(Symbols)
           /\ Extract(u).path \in Seq(Symbols)
<1> DEFINE rest == From(u, Strchr(u, ":") + 3)
           slash == Strchr(rest, "/")
<1>1. Strchr(u, ":") \in 0..Len(u)
  BY FirstPlace
<1>2. Strchr(u, ":") + 3 \in Nat \ {0}
  BY <1>1
<1>3. rest \in Seq(Symbols)
  BY <1>2, FromInSeq
<1>4. Extract(u).path = From(rest, slash + 1)
  BY DEF Extract, PathBehind
<1> HIDE DEF rest
<1>5. slash \in 0..Len(rest)
  BY <1>3, FirstPlace
<1>6. slash + 1 \in Nat \ {0}
  BY <1>5
<1> HIDE DEF slash
<1>7. From(rest, slash + 1) \in Seq(Symbols)
  BY <1>3, <1>6, FromInSeq
<1>8. QED
  BY <1>3, <1>4, <1>7 DEF rest

\* Sequences of one and of two elements.
LEMMA SmallSeq ==
    ASSUME NEW S, NEW x \in S, NEW y \in S
    PROVE  <<x>> \in Seq(S) /\ <<x, y>> \in Seq(S)
OBVIOUS

\* A request.
LEMMA RequestInSeq ==
    ASSUME NEW c \in Clients, url[c] \in Seq(Symbols)
    PROVE  Request(c) \in Seq(Symbols)
<1> DEFINE p == Extract(url[c]).path
<1>1. p \in Seq(Symbols)
  BY PathOfUrl
<1> HIDE DEF p
<1>2. <<"GET /">> \in Seq(Symbols) /\ <<" ", "headers">> \in Seq(Symbols)
  <2>1. "GET /" \in Symbols /\ " " \in Symbols /\ "headers" \in Symbols
    BY DEF Symbols
  <2>2. <<"GET /">> \in Seq(Symbols)
    BY <2>1, SmallSeq
  <2>3. <<" ", "headers">> \in Seq(Symbols)
    BY <2>1, SmallSeq
  <2>4. QED
    BY <2>2, <2>3
<1>3. <<"GET /">> \o p \in Seq(Symbols)
  BY <1>1, <1>2, ConcatProperties
<1>4. <<"GET /">> \o p \o <<" ", "headers">> \in Seq(Symbols)
  BY <1>2, <1>3, ConcatProperties
<1>5. QED
  BY <1>4 DEF Request, p

\* The header of an answer.
LEMMA HeaderProperties ==
    ASSUME NEW status \in Statuses
    PROVE  /\ Header(status) \in Seq(Bytes)
           /\ Len(Header(status)) = HeaderLength
           /\ \A i \in 2..HeaderLength : Header(status)[i] \in Data
<1>1. Header(status) \in Seq(Bytes)
  BY DEF Header, Bytes, Statuses, Data, FileBytes
<1>2. Len(Header(status)) = 5 /\ Header(status)[2] = "\r" /\ Header(status)[3] = "\n"
      /\ Header(status)[4] = "\r" /\ Header(status)[5] = "\n"
  BY DEF Header
<1>3. \A i \in 2..5 : i = 2 \/ i = 3 \/ i = 4 \/ i = 5
  OBVIOUS
<1>4. "\r" \in Data /\ "\n" \in Data
  BY DEF Data
<1>5. QED
  BY <1>1, <1>2, <1>3, <1>4 DEF HeaderLength

\* Files are made of bytes, and so is what is served.
LEMMA ServedInSeq ==
    ASSUME NEW c \in Clients
    PROVE  Served(c) \in Seq(FileBytes)
  BY HttpAssumption, EmptySeq DEF Served, FileBytes

\* Behind the status an answer is data.
LEMMA AnswerElements ==
    ASSUME NEW status \in Statuses, NEW f \in Seq(FileBytes),
           NEW s \in Seq(Bytes), NEW u \in Seq(FileBytes),
           s \o u = Header(status) \o f
    PROVE  \A i \in 2..Len(s) : s[i] \in Data
<1>1. f \in Seq(Bytes) /\ u \in Seq(Bytes)
  BY SeqMonotonic DEF Bytes, Data
<1>2. Header(status) \in Seq(Bytes) /\ Len(Header(status)) = 5
      /\ \A i \in 2..5 : Header(status)[i] \in Data
  BY HeaderProperties DEF HeaderLength
<1> DEFINE h == Header(status)
<1> HIDE DEF h
<1>3. /\ Len(h \o f) = 5 + Len(f)
      /\ \A i \in 1..(5 + Len(f)) : (h \o f)[i] = IF i <= 5 THEN h[i] ELSE f[i - 5]
  <2>1. h \in Seq(Bytes) /\ Len(h) = 5
    BY <1>2 DEF h
  <2>2. /\ Len(h \o f) = Len(h) + Len(f)
        /\ \A i \in 1..(Len(h) + Len(f)) :
             (h \o f)[i] = IF i <= Len(h) THEN h[i] ELSE f[i - Len(h)]
    BY <1>1, <2>1, ConcatProperties
  <2>3. QED
    BY <2>1, <2>2
<1>4. /\ Len(s \o u) = Len(s) + Len(u)
      /\ \A i \in 1..(Len(s) + Len(u)) :
           (s \o u)[i] = IF i <= Len(s) THEN s[i] ELSE u[i - Len(s)]
  BY <1>1, ConcatProperties
<1>5. s \o u = h \o f
  BY DEF h
<1>6. ASSUME NEW i \in 2..Len(s) PROVE s[i] \in Data
  <2>1. Len(s) \in Nat /\ Len(u) \in Nat /\ Len(f) \in Nat
    OBVIOUS
  <2>2. i \in 1..(Len(s) + Len(u)) /\ i <= Len(s) /\ i \in 1..(5 + Len(f)) /\ i \in Int
    BY <1>3, <1>4, <1>5, <2>1
  <2>3. s[i] = (s \o u)[i]
    BY <1>4, <2>2
  <2>4. s[i] = IF i <= 5 THEN h[i] ELSE f[i - 5]
    BY <1>3, <1>5, <2>2, <2>3
  <2>5. CASE i <= 5
    <3>1. i \in 2..5
      BY <2>5
    <3>2. h[i] \in Data
      BY <1>2, <3>1 DEF h
    <3>3. QED
      BY <2>4, <2>5, <3>2
  <2>6. CASE ~ (i <= 5)
    <3>1. i - 5 \in 1..Len(f)
      BY <2>1, <2>2, <2>6
    <3>2. f[i - 5] \in FileBytes
      BY <3>1, ElementOfSeq
    <3>3. QED
      BY <2>4, <2>6, <3>2 DEF Data
  <2>7. QED
    BY <2>5, <2>6
<1>7. QED
  BY <1>6

\* Whatever recv() takes first, only data is left, and only data is saved.
LEMMA DataBehindFirst ==
    ASSUME NEW s \in Seq(Bytes), \A i \in 2..Len(s) : s[i] \in Data, NEW n \in 1..Len(s)
    PROVE  /\ From(s, n + 1) \in Seq(Data)
           /\ From(SubSeq(s, 1, n), HeaderLength + 1) \in Seq(Data)
<1>1. Len(s) \in Nat /\ n \in 0..Len(s) /\ n + 1 \in Int /\ Len(s) \in Int
  OBVIOUS
<1>2. \A i \in (n + 1)..Len(s) : s[i] \in Data
  BY <1>1
<1>3. From(s, n + 1) \in Seq(Data)
  BY <1>1, <1>2, SubSeqProperties DEF From
<1> DEFINE a == SubSeq(s, 1, n)
<1>4. Len(a) = n /\ \A i \in 1..n : a[i] = s[i]
  BY <1>1, FirstElements
<1> HIDE DEF a
<1>5. \A i \in 6..n : a[i] \in Data
  <2>1. TAKE i \in 6..n
  <2>2. i \in 1..n /\ i \in 2..Len(s)
    BY <1>1
  <2>3. QED
    BY <1>4, <2>2
<1>6. SubSeq(a, 6, n) \in Seq(Data)
  BY <1>1, <1>5, SubSeqProperties
<1>7. From(a, HeaderLength + 1) = SubSeq(a, 6, n)
  BY <1>4 DEF From, HeaderLength
<1>8. QED
  BY <1>3, <1>6, <1>7 DEF a

\* A clean first segment: the body in it is saved as it is.
LEMMA CleanBody ==
    ASSUME NEW s \in Seq(Bytes), IsClean(s)
    PROVE  Text(From(s, HeaderLength + 1)) = From(s, HeaderLength + 1)
<1>1. Text(s) = s /\ Len(s) >= 5 /\ Len(s) \in Nat
  BY DEF IsClean, HeaderLength
<1>2. \A i \in 1..Len(s) : s[i] # "0"
  BY <1>1, TextProperties
<1> DEFINE b == From(s, 6)
<1>3. b \in Seq(Bytes) /\ Len(b) = Len(s) - 6 + 1
      /\ \A i \in 1..(Len(s) - 6 + 1) : b[i] = s[6 + i - 1]
  <2>1. 6 \in 1..(Len(s) + 1)
    BY <1>1
  <2>2. QED
    BY <2>1, FromProperties
<1> HIDE DEF b
<1>4. ASSUME NEW i \in 1..Len(b) PROVE b[i] # "0"
  <2>1. i \in 1..(Len(s) - 6 + 1) /\ 6 + i - 1 \in 1..Len(s)
    BY <1>1, <1>3
  <2>2. QED
    BY <1>2, <1>3, <2>1
<1>5. Text(b) = b
  BY <1>3, <1>4, TextProperties
<1>6. QED
  BY <1>5 DEF b, HeaderLength

----------------------------------------------------------------------------
(***************************************************************************)
(* What a step leaves alone.                                               *)
(***************************************************************************)

\* A step that changes nothing of connection d.
Untouched(d) ==
    /\ cpc'[d] = cpc[d] /\ url'[d] = url[d] /\ output'[d] = output[d]
    /\ clean'[d] = clean[d] /\ child'[d] = child[d] /\ got'[d] = got[d]
    /\ unread'[d] = unread[d] /\ stream'[d] = stream[d]

\* The request, the path and what is served depend on the URL and on what the child
\* has got alone.
LEMMA SameRequest ==
    ASSUME NEW d \in Clients, url'[d] = url[d]
    PROVE  Request(d)' = Request(d)
  BY DEF Request, Extract, From, Strchr, SelectInSeq, Min, PathBehind

LEMMA SameServed ==
    ASSUME NEW d \in Clients, got'[d] = got[d]
    PROVE  PathGot(d)' = PathGot(d) /\ Served(d)' = Served(d)
  BY DEF PathGot, Served, Strchr, SelectInSeq, Min

LEMMA SameNamed ==
    ASSUME NEW d \in Clients, url'[d] = url[d]
    PROVE  Named(url[d])' = Named(url[d])
  BY DEF Named, Extract, From, Strchr, SelectInSeq, Min, PathBehind

LEMMA FrameConnection ==
    ASSUME NEW d \in Clients, Untouched(d), ConnectionInv(d)
    PROVE  ConnectionInv(d)'
<1>1. Request(d)' = Request(d) /\ PathGot(d)' = PathGot(d) /\ Served(d)' = Served(d)
      /\ Named(url[d])' = Named(url[d])
  BY SameRequest, SameServed, SameNamed DEF Untouched
<1>2. RequestInv(d)'
  BY <1>1 DEF RequestInv, ConnectionInv, Untouched
<1>3. QuietInv(d)'
  BY DEF QuietInv, ConnectionInv, Untouched
<1>4. AnswerInv(d)'
  BY <1>1 DEF AnswerInv, ConnectionInv, Untouched, Header, Statuses, Data, FileBytes
<1>5. QED
  BY <1>2, <1>3, <1>4 DEF ConnectionInv

\* A client that is not waiting for accept() does not come to wait.
LEMMA FrameBacklog ==
    ASSUME BacklogInv, backlog' = backlog, NEW c \in Clients,
           child[c] # "none" \/ cpc[c] # "first",
           \A d \in Clients \ {c} : child'[d] = child[d] /\ cpc'[d] = cpc[d]
    PROVE  BacklogInv'
<1>1. \A i \in 1..Len(backlog) : backlog[i] \in Clients /\ backlog[i] # c
  BY ElementOfSeq DEF BacklogInv
<1>2. QED
  BY <1>1 DEF BacklogInv

\* A step of one connection.
LEMMA OneConnection ==
    ASSUME HttpInv, NEW c \in Clients, Types', BacklogInv', ConnectionInv(c)',
           \A d \in Clients \ {c} : Untouched(d)
    PROVE  HttpInv'
<1>1. \A d \in Clients \ {c} : ConnectionInv(d)'
  BY FrameConnection DEF HttpInv
<1>2. \A d \in Clients : ConnectionInv(d)'
  BY <1>1
<1>3. QED
  BY <1>2 DEF HttpInv

----------------------------------------------------------------------------
(***************************************************************************)
(* The first state, and one lemma for each action.                         *)
(***************************************************************************)

LEMMA HttpInit == Init => HttpInv
<1> SUFFICES ASSUME Init PROVE HttpInv
  OBVIOUS
<1>1. <<>> \in Seq(Saved) /\ <<>> \in Seq(FileBytes) /\ <<>> \in Seq(Bytes)
      /\ <<>> \in Seq(Symbols) /\ <<>> \in Seq(Clients) /\ Len(<<>>) = 0
  BY EmptySeq
<1>2. \A c \in Clients : url[c] \in Seq(Symbols)
  <2>1. TAKE c \in Clients
  <2>2. url[c] \in Urls[c] /\ url[c] \in Seq(ToSet(url[c]))
    BY HttpAssumption DEF Init
  <2>3. ToSet(url[c]) \subseteq Symbols
    BY <2>2 DEF Symbols
  <2> HIDE DEF Init
  <2>4. QED
    BY <2>2, <2>3, SeqMonotonic
<1>3. url \in [Clients -> Seq(Symbols)]
  BY <1>2 DEF Init
<1>4. Types
  BY <1>1, <1>3 DEF Types, Init
<1>5. BacklogInv
  BY <1>1 DEF BacklogInv, Init
<1>6. ASSUME NEW c \in Clients PROVE ConnectionInv(c)
  <2>1. cpc[c] = "start" /\ child[c] = "none" /\ got[c] = <<>> /\ stream[c] = <<>>
        /\ unread[c] = <<>> /\ output[c] = <<>> /\ clean[c] = "unknown"
    BY DEF Init
  <2>2. \E n \in 0..Len(Request(c)) : got[c] = SubSeq(Request(c), 1, n)
    <3>1. Request(c) \in Seq(Symbols)
      BY <1>2, RequestInSeq
    <3>2. 0 \in 0..Len(Request(c)) /\ SubSeq(Request(c), 1, 0) = <<>>
      BY <3>1, SubSeqEmpty
    <3>3. QED
      BY <2>1, <3>2
  <2>3. QED
    BY <2>1, <2>2 DEF ConnectionInv, RequestInv, QuietInv, AnswerInv
<1>7. QED
  BY <1>4, <1>5, <1>6 DEF HttpInv

\* A client that starts has no child and does not wait for one.
LEMMA Starting ==
    ASSUME NEW c \in Clients, HttpInv, cpc[c] = "start"
    PROVE  child[c] = "none"
<1>1. child[c] \in {"none", "request", "reply", "file", "closed"}
  BY DEF HttpInv, Types
<1>2. QED
  BY <1>1 DEF HttpInv, ConnectionInv, QuietInv, AnswerInv

LEMMA ConnectKeeps ==
    ASSUME HttpInv, NEW c \in Clients, Connect(c)
    PROVE  HttpInv'
<1>1. cpc[c] = "start" /\ child[c] = "none" /\ Named(url[c])
  BY Starting DEF Connect, Reaches, Named
<1>2. /\ cpc' = [cpc EXCEPT ![c] = "first"] /\ backlog' = Append(backlog, c)
      /\ url' = url /\ output' = output /\ clean' = clean /\ server' = server
      /\ child' = child /\ got' = got /\ unread' = unread /\ stream' = stream
  BY DEF Connect, childVars
<1>3. Types'
  BY <1>2 DEF HttpInv, Types
<1>4. BacklogInv'
  <2> DEFINE n == Len(backlog)
  <2>1. backlog \in Seq(Clients) /\ n \in Nat
        /\ \A i \in 1..n : /\ backlog[i] \in Clients
                           /\ child[backlog[i]] = "none" /\ cpc[backlog[i]] = "first"
    BY ElementOfSeq DEF HttpInv, BacklogInv
  <2>2. \A i \in 1..n : backlog[i] # c
    BY <1>1, <2>1
  <2>3. /\ backlog' \in Seq(Clients) /\ Len(backlog') = n + 1
        /\ \A i \in 1..n : backlog'[i] = backlog[i]
        /\ backlog'[n + 1] = c
    BY <1>2, <2>1, AppendProperties
  <2> HIDE DEF n
  <2>4. \A i \in 1..(n + 1) : i \in 1..n \/ i = n + 1
    BY <2>1
  <2>5. cpc'[c] = "first" /\ child'[c] = "none"
        /\ \A d \in Clients : d # c => cpc'[d] = cpc[d] /\ child'[d] = child[d]
    BY <1>1, <1>2 DEF HttpInv, Types
  <2>6. \A i \in 1..(n + 1) : child'[backlog'[i]] = "none" /\ cpc'[backlog'[i]] = "first"
    <3>1. TAKE i \in 1..(n + 1)
    <3>2. CASE i \in 1..n
      BY <2>1, <2>2, <2>3, <2>5, <3>2
    <3>3. CASE i = n + 1
      BY <2>3, <2>5, <3>3
    <3>4. QED
      BY <2>4, <3>2, <3>3
  <2>7. \A i, j \in 1..n : backlog[i] = backlog[j] => i = j
    BY DEF HttpInv, BacklogInv, n
  <2>8. ASSUME NEW i \in 1..(n + 1), NEW j \in 1..(n + 1), backlog'[i] = backlog'[j]
        PROVE  i = j
    BY <2>2, <2>3, <2>4, <2>7, <2>8
  <2>9. QED
    BY <2>3, <2>6, <2>8 DEF BacklogInv
<1>5. ConnectionInv(c)'
  <2>1. ConnectionInv(c)
    BY DEF HttpInv
  <2>2. Request(c)' = Request(c) /\ Named(url[c])'
    BY <1>1, <1>2, SameRequest, SameNamed
  <2>3. cpc'[c] = "first" /\ child'[c] = "none"
    BY <1>1, <1>2 DEF HttpInv, Types
  <2>4. RequestInv(c)'
    BY <1>1, <1>2, <2>1, <2>2, <2>3 DEF ConnectionInv, RequestInv
  <2>5. QuietInv(c)' /\ AnswerInv(c)'
    BY <1>1, <1>2, <2>1, <2>3 DEF ConnectionInv, QuietInv, AnswerInv
  <2>6. QED
    BY <2>4, <2>5 DEF ConnectionInv
<1>6. \A d \in Clients \ {c} : Untouched(d)
  BY <1>2 DEF Untouched, HttpInv, Types
<1>7. QED
  BY <1>3, <1>4, <1>5, <1>6, OneConnection

LEMMA ConnectFailsKeeps ==
    ASSUME HttpInv, NEW c \in Clients, ConnectFails(c)
    PROVE  HttpInv'
<1>1. cpc[c] = "start" /\ child[c] = "none"
  BY Starting DEF ConnectFails
<1>2. /\ cpc' = [cpc EXCEPT ![c] = "failed"] /\ backlog' = backlog
      /\ url' = url /\ output' = output /\ clean' = clean /\ server' = server
      /\ child' = child /\ got' = got /\ unread' = unread /\ stream' = stream
  BY DEF ConnectFails, serverVars, childVars
<1>3. Types'
  BY <1>2 DEF HttpInv, Types
<1>4. \A d \in Clients \ {c} : Untouched(d)
  BY <1>2 DEF Untouched, HttpInv, Types
<1>5. BacklogInv'
  BY <1>1, <1>2, <1>4, FrameBacklog DEF HttpInv, Untouched
<1>6. ConnectionInv(c)'
  <2>1. ConnectionInv(c)
    BY DEF HttpInv
  <2>2. Request(c)' = Request(c)
    BY <1>2, SameRequest
  <2>3. cpc'[c] = "failed" /\ child'[c] = "none"
    BY <1>1, <1>2 DEF HttpInv, Types
  <2>4. QED
    BY <1>1, <1>2, <2>1, <2>2, <2>3 DEF ConnectionInv, RequestInv, QuietInv, AnswerInv
<1>7. QED
  BY <1>3, <1>4, <1>5, <1>6, OneConnection

LEMMA StartKeeps ==
    ASSUME HttpInv, Start
    PROVE  HttpInv'
<1>1. /\ server' \in {"listening", "failed"} /\ backlog' = backlog /\ cpc' = cpc
      /\ url' = url /\ output' = output /\ clean' = clean
      /\ child' = child /\ got' = got /\ unread' = unread /\ stream' = stream
  BY DEF Start, clientVars, childVars
<1>2. Types'
  BY <1>1 DEF HttpInv, Types
<1>3. BacklogInv'
  BY <1>1 DEF HttpInv, BacklogInv
<1>4. \A d \in Clients : ConnectionInv(d)'
  BY <1>1, FrameConnection DEF HttpInv, Untouched
<1>5. QED
  BY <1>2, <1>3, <1>4 DEF HttpInv

\* What is left to wait when the first connection was accepted.
LEMMA AcceptBacklog ==
    ASSUME BacklogInv, backlog # <<>>, backlog' = Tail(backlog), cpc' = cpc,
           \A d \in Clients \ {Head(backlog)} : child'[d] = child[d]
    PROVE  BacklogInv'
<1> DEFINE c == Head(backlog)
           n == Len(backlog)
<1>1. /\ backlog \in Seq(Clients) /\ n \in Nat \ {0} /\ c = backlog[1]
      /\ backlog' \in Seq(Clients) /\ Len(backlog') = n - 1
      /\ \A i \in 1..(n - 1) : backlog'[i] = backlog[i + 1]
  <2>1. backlog \in Seq(Clients)
    BY DEF BacklogInv
  <2>2. /\ Tail(backlog) \in Seq(Clients) /\ Len(Tail(backlog)) = n - 1
        /\ \A i \in 1..(n - 1) : Tail(backlog)[i] = backlog[i + 1]
    BY <2>1, HeadTailProperties
  <2>3. n \in Nat \ {0} /\ c = backlog[1]
    BY <2>1, EmptySeq
  <2>4. QED
    BY <2>1, <2>2, <2>3
<1>2. /\ \A i \in 1..n : child[backlog[i]] = "none" /\ cpc[backlog[i]] = "first"
      /\ \A i, j \in 1..n : backlog[i] = backlog[j] => i = j
  BY DEF BacklogInv
<1> HIDE DEF c, n
<1>3. ASSUME NEW i \in 1..(n - 1)
      PROVE  /\ i + 1 \in 1..n
             /\ backlog'[i] = backlog[i + 1]
             /\ backlog[i + 1] \in Clients \ {c}
  <2>1. i + 1 \in 1..n /\ 1 \in 1..n /\ i + 1 # 1
    BY <1>1
  <2>2. backlog[i + 1] # c
    BY <1>1, <1>2, <2>1
  <2>3. backlog[i + 1] \in Clients
    BY <1>1, <2>1, ElementOfSeq DEF n
  <2>4. QED
    BY <1>1, <2>1, <2>2, <2>3
<1>4. ASSUME NEW i \in 1..(n - 1)
      PROVE  child'[backlog'[i]] = "none" /\ cpc'[backlog'[i]] = "first"
  <2>1. child[backlog[i + 1]] = "none" /\ cpc[backlog[i + 1]] = "first"
    BY <1>2, <1>3
  <2>2. child'[backlog[i + 1]] = child[backlog[i + 1]]
    BY <1>3 DEF c
  <2>3. QED
    BY <1>3, <2>1, <2>2
<1>5. ASSUME NEW i \in 1..(n - 1), NEW j \in 1..(n - 1), backlog'[i] = backlog'[j]
      PROVE  i = j
  <2>1. i + 1 \in 1..n /\ j + 1 \in 1..n /\ backlog[i + 1] = backlog[j + 1]
    BY <1>3, <1>5
  <2>2. i + 1 = j + 1
    BY <1>2, <2>1
  <2>3. QED
    BY <1>1, <2>2
<1>6. QED
  BY <1>1, <1>4, <1>5 DEF BacklogInv

LEMMA AcceptKeeps ==
    ASSUME HttpInv, Accept
    PROVE  HttpInv'
<1>0. PICK c \in Clients : c = Head(backlog) /\ child[c] = "none" /\ cpc[c] = "first"
  <2>1. backlog \in Seq(Clients) /\ BacklogInv /\ backlog # <<>>
    BY DEF HttpInv, BacklogInv, Accept
  <2>2. 1 \in 1..Len(backlog) /\ Head(backlog) = backlog[1]
    BY <2>1, EmptySeq
  <2>3. QED
    BY <2>1, <2>2, ElementOfSeq DEF BacklogInv
<1>1. PICK start \in {"request", "closed"} : child' = [child EXCEPT ![c] = start]
  BY <1>0 DEF Accept
<1>2. /\ backlog # <<>> /\ backlog' = Tail(backlog) /\ cpc' = cpc /\ server' = server
      /\ url' = url /\ output' = output /\ clean' = clean
      /\ got' = got /\ unread' = unread /\ stream' = stream
  BY DEF Accept, clientVars
<1>3. child[c] = "none" /\ cpc[c] = "first"
  BY <1>0
<1>4. child \in [Clients -> {"none", "request", "reply", "file", "closed"}]
  BY DEF HttpInv, Types
<1>5. child'[c] = start /\ \A d \in Clients \ {c} : child'[d] = child[d]
  BY <1>1, <1>3, <1>4
<1>6. Types'
  BY <1>1, <1>2 DEF HttpInv, Types
<1>7. BacklogInv'
  BY <1>0, <1>2, <1>5, AcceptBacklog DEF HttpInv
<1>8. \A d \in Clients \ {c} : Untouched(d)
  BY <1>2, <1>5 DEF Untouched
<1>9. ConnectionInv(c)'
  <2>1. ConnectionInv(c)
    BY <1>3 DEF HttpInv
  <2>2. Request(c)' = Request(c) /\ Named(url[c])' = Named(url[c])
    BY <1>2, <1>3, SameRequest, SameNamed
  <2>3. RequestInv(c)'
    BY <1>2, <1>3, <1>5, <2>1, <2>2 DEF ConnectionInv, RequestInv
  <2>4. stream[c] = <<>> /\ unread[c] = <<>> /\ output[c] = <<>> /\ clean[c] = "unknown"
    BY <1>3, <2>1 DEF ConnectionInv, QuietInv
  <2>5. QuietInv(c)' /\ AnswerInv(c)'
    BY <1>2, <1>3, <1>5, <2>4 DEF QuietInv, AnswerInv
  <2>6. QED
    BY <2>3, <2>5 DEF ConnectionInv
<1>10. QED
  BY <1>3, <1>6, <1>7, <1>8, <1>9, OneConnection

LEMMA ReadRequestKeeps ==
    ASSUME HttpInv, NEW c \in Clients, ReadRequest(c)
    PROVE  HttpInv'
<1>1. PICK n \in 1..Len(Request(c)) : got' = [got EXCEPT ![c] = SubSeq(Request(c), 1, n)]
  BY DEF ReadRequest
<1>2. /\ child[c] = "request" /\ child' = [child EXCEPT ![c] = "reply"]
      /\ backlog' = backlog /\ cpc' = cpc /\ server' = server
      /\ url' = url /\ output' = output /\ clean' = clean
      /\ unread' = unread /\ stream' = stream
  BY DEF ReadRequest, clientVars
<1>3. Request(c) \in Seq(Symbols)
  BY RequestInSeq DEF HttpInv, Types
<1>4. n \in 0..Len(Request(c)) /\ SubSeq(Request(c), 1, n) \in Seq(Symbols)
  <2>1. n \in 0..Len(Request(c))
    BY <1>3
  <2>2. QED
    BY <1>3, <2>1, FirstElements
<1>5. Types'
  BY <1>1, <1>2, <1>4 DEF HttpInv, Types
<1>6. \A d \in Clients \ {c} : Untouched(d)
  BY <1>1, <1>2 DEF Untouched, HttpInv, Types
<1>7. BacklogInv'
  BY <1>2, <1>6, FrameBacklog DEF HttpInv, Untouched
<1>8. ConnectionInv(c)'
  <2>1. ConnectionInv(c)
    BY DEF HttpInv
  <2>2. Request(c)' = Request(c) /\ Named(url[c])' = Named(url[c])
    BY <1>2, SameRequest, SameNamed
  <2>3. child'[c] = "reply" /\ got'[c] = SubSeq(Request(c), 1, n)
    BY <1>1, <1>2 DEF HttpInv, Types
  <2>4. RequestInv(c)'
    <3>1. \E m \in 0..Len(Request(c)') : got'[c] = SubSeq(Request(c)', 1, m)
      BY <1>4, <2>2, <2>3
    <3>2. Named(url[c])'
      BY <1>2, <2>1, <2>2 DEF ConnectionInv, RequestInv
    <3>3. QED
      BY <2>3, <3>1, <3>2 DEF RequestInv
  <2>5. QuietInv(c)' /\ AnswerInv(c)'
    BY <1>2, <2>1, <2>3 DEF ConnectionInv, QuietInv, AnswerInv
  <2>6. QED
    BY <2>4, <2>5 DEF ConnectionInv
<1>9. QED
  BY <1>5, <1>6, <1>7, <1>8, OneConnection

\* A child answers: from here on the header and the file are on their way or unread.
LEMMA AnswerKeeps ==
    ASSUME HttpInv, NEW c \in Clients, child[c] = "reply",
           NEW status \in Statuses, Sends(c, Header(status)),
           NEW next \in {"file", "closed"}, child' = [child EXCEPT ![c] = next],
           unread' = [unread EXCEPT ![c] = Served(c)],
           next = "closed" => Served(c) = <<>>,
           UNCHANGED <<clientVars, server, backlog, got>>
    PROVE  HttpInv'
<1>1. /\ backlog' = backlog /\ cpc' = cpc /\ server' = server /\ got' = got
      /\ url' = url /\ output' = output /\ clean' = clean
  BY DEF clientVars
<1>2. ConnectionInv(c)
  BY DEF HttpInv
<1>3. /\ cpc[c] = "first" /\ clean[c] = "unknown" /\ output[c] = <<>>
      /\ stream[c] = <<>> /\ unread[c] = <<>>
  BY <1>2 DEF ConnectionInv, QuietInv
<1>4. Header(status) \in Seq(Bytes) /\ Served(c) \in Seq(FileBytes)
  BY HeaderProperties, ServedInSeq
<1>5. stream' = [stream EXCEPT ![c] = Header(status)]
  BY <1>3, <1>4, ConcatEmptySeq DEF Sends
<1>6. Types'
  BY <1>1, <1>4, <1>5 DEF HttpInv, Types
<1>7. \A d \in Clients \ {c} : Untouched(d)
  BY <1>1, <1>5 DEF Untouched, HttpInv, Types
<1>8. BacklogInv'
  BY <1>1, <1>7, FrameBacklog DEF HttpInv, Untouched
<1>9. ConnectionInv(c)'
  <2>1. /\ Request(c)' = Request(c) /\ Named(url[c])' = Named(url[c])
        /\ Served(c)' = Served(c)
    BY <1>1, SameRequest, SameNamed, SameServed
  <2>2. child'[c] = next /\ unread'[c] = Served(c) /\ stream'[c] = Header(status)
    BY <1>5 DEF HttpInv, Types
  <2>3. RequestInv(c)' /\ QuietInv(c)'
    BY <1>1, <1>2, <2>1, <2>2 DEF ConnectionInv, RequestInv, QuietInv
  <2>4. stream'[c] \o unread'[c] = Header(status) \o Served(c)'
    BY <2>1, <2>2
  <2>5. \E st \in Statuses : stream'[c] \o unread'[c] = Header(st) \o Served(c)'
    BY <2>4
  <2>6. cpc'[c] = "first" /\ clean'[c] = "unknown" /\ output'[c] = <<>>
    BY <1>1, <1>3
  <2>7. AnswerInv(c)'
    BY <2>2, <2>5, <2>6 DEF AnswerInv, Header, Statuses
  <2>8. QED
    BY <2>3, <2>7 DEF ConnectionInv
<1>10. QED
  BY <1>6, <1>7, <1>8, <1>9, OneConnection

LEMMA RefuseOrMissingKeeps ==
    ASSUME HttpInv, NEW c \in Clients, RefuseRequest(c) \/ FileMissing(c)
    PROVE  HttpInv'
<1>1. child[c] = "reply" /\ Served(c) = <<>>
  BY HttpAssumption DEF RefuseRequest, FileMissing, Served
<1>2. PICK status \in Statuses : Sends(c, Header(status))
  BY DEF RefuseRequest, FileMissing, Statuses
<1>3. /\ child' = [child EXCEPT ![c] = "closed"] /\ unread' = unread
      /\ UNCHANGED <<clientVars, server, backlog, got>>
  BY DEF RefuseRequest, FileMissing, CloseChild
<1>4. unread' = [unread EXCEPT ![c] = Served(c)]
  <2>1. unread[c] = <<>> /\ unread \in [Clients -> Seq(FileBytes)]
    BY <1>1 DEF HttpInv, ConnectionInv, QuietInv, Types
  <2>2. QED
    BY <1>1, <1>3, <2>1
<1>5. QED
  BY <1>1, <1>2, <1>3, <1>4, AnswerKeeps

LEMMA FileFoundKeeps ==
    ASSUME HttpInv, NEW c \in Clients, FileFound(c)
    PROVE  HttpInv'
<1>1. child[c] = "reply" /\ Sends(c, Header("200")) /\ "200" \in Statuses
      /\ child' = [child EXCEPT ![c] = "file"]
      /\ UNCHANGED <<clientVars, server, backlog, got>>
  BY DEF FileFound, Statuses
<1>2. unread' = [unread EXCEPT ![c] = Served(c)]
  BY DEF FileFound, Served
<1>3. QED
  BY <1>1, <1>2, AnswerKeeps

\* A part of the file moves from what is unread to what is on its way.
LEMMA SendChunkKeeps ==
    ASSUME HttpInv, NEW c \in Clients, SendChunk(c)
    PROVE  HttpInv'
<1>1. /\ child[c] = "file" /\ unread[c] # <<>> /\ child' = child
      /\ backlog' = backlog /\ cpc' = cpc /\ server' = server /\ got' = got
      /\ url' = url /\ output' = output /\ clean' = clean
  BY DEF SendChunk, clientVars
<1>2. ConnectionInv(c) /\ unread[c] \in Seq(FileBytes) /\ stream[c] \in Seq(Bytes)
      /\ output[c] \in Seq(Saved) /\ unread \in [Clients -> Seq(FileBytes)]
      /\ stream \in [Clients -> Seq(Bytes)]
  BY DEF HttpInv, Types
<1>3. PICK n \in 0..Len(unread[c]) :
        /\ stream' = [stream EXCEPT ![c] = @ \o SubSeq(unread[c], 1, n)]
        /\ unread' = [unread EXCEPT ![c] = From(@, n + 1)]
  <2>1. Len(unread[c]) \in Nat /\ FN_LENGTH \in Nat
    BY <1>2, HttpAssumption
  <2>2. ChunkLength(c) \in 0..Len(unread[c])
    BY <2>1 DEF ChunkLength
  <2>3. QED
    BY <2>2 DEF SendChunk, Sends, Chunk
<1> DEFINE sent == stream[c]
           a == SubSeq(unread[c], 1, n)
           b == From(unread[c], n + 1)
<1>4. a \in Seq(FileBytes) /\ b \in Seq(FileBytes) /\ a \o b = unread[c]
  <2>1. n + 1 \in Nat \ {0}
    OBVIOUS
  <2>2. QED
    BY <1>2, <2>1, FirstElements, FromInSeq, SplitSeq
<1>5. stream'[c] = sent \o a /\ unread'[c] = b
      /\ \A d \in Clients \ {c} : stream'[d] = stream[d] /\ unread'[d] = unread[d]
  BY <1>2, <1>3
<1>6. sent \o a \in Seq(Bytes)
  <2>1. a \in Seq(Bytes)
    BY <1>4, SeqMonotonic DEF Bytes, Data
  <2>2. QED
    BY <1>2, <2>1, ConcatProperties
<1> HIDE DEF a, b
<1>7. Types'
  <2>1. unread' \in [Clients -> Seq(FileBytes)]
    BY <1>2, <1>3, <1>4 DEF b
  <2>2. stream' \in [Clients -> Seq(Bytes)]
    BY <1>2, <1>3, <1>6 DEF a
  <2>3. QED
    BY <1>1, <2>1, <2>2 DEF HttpInv, Types
<1>8. \A d \in Clients \ {c} : Untouched(d)
  BY <1>1, <1>5 DEF Untouched
<1>9. BacklogInv'
  BY <1>1, FrameBacklog DEF HttpInv
<1>10. ConnectionInv(c)'
  <2>1. /\ Request(c)' = Request(c) /\ Named(url[c])' = Named(url[c])
        /\ Served(c)' = Served(c)
    BY <1>1, SameRequest, SameNamed, SameServed
  <2>2. RequestInv(c)' /\ QuietInv(c)'
    BY <1>1, <1>2, <2>1 DEF ConnectionInv, RequestInv, QuietInv
  <2>3. AnswerInv(c)
    BY <1>2 DEF ConnectionInv
  <2>4. cpc[c] = "first" =>
            \E st \in Statuses : stream'[c] \o unread'[c] = Header(st) \o Served(c)
    <3>1. SUFFICES ASSUME cpc[c] = "first"
                   PROVE  \E st \in Statuses : stream'[c] \o unread'[c] = Header(st) \o Served(c)
      OBVIOUS
    <3>2. PICK st \in Statuses : sent \o unread[c] = Header(st) \o Served(c)
      BY <1>1, <2>3, <3>1 DEF AnswerInv
    <3>3. (sent \o a) \o b = sent \o unread[c]
      <4>1. a \in Seq(Bytes) /\ b \in Seq(Bytes) /\ sent \in Seq(Bytes)
        BY <1>2, <1>4, SeqMonotonic DEF Bytes, Data
      <4> HIDE DEF sent
      <4>2. (sent \o a) \o b = sent \o (a \o b)
        BY <4>1, ConcatAssociative
      <4>3. QED
        BY <1>4, <4>2
    <3>4. QED
      BY <1>5, <3>2, <3>3
  <2>5. cpc[c] # "first" => stream'[c] \in Seq(Data)
    <3>1. SUFFICES ASSUME cpc[c] # "first" PROVE sent \o a \in Seq(Data)
      BY <1>5
    <3>2. sent \in Seq(Data)
      BY <1>1, <2>3, <3>1 DEF AnswerInv
    <3>3. a \in Seq(Data)
      BY <1>4, SeqMonotonic DEF Data
    <3>4. QED
      BY <3>2, <3>3, ConcatProperties
  <2>6. (cpc[c] = "body" /\ clean[c] = "clean")
            => (output[c] \o stream'[c]) \o unread'[c] = Served(c)
    <3>1. SUFFICES ASSUME cpc[c] = "body", clean[c] = "clean"
                   PROVE  (output[c] \o (sent \o a)) \o b = Served(c)
      BY <1>5
    <3>2. (output[c] \o sent) \o unread[c] = Served(c)
      BY <1>1, <2>3, <3>1 DEF AnswerInv
    <3>3. a \in Seq(AnyByte) /\ b \in Seq(AnyByte) /\ sent \in Seq(AnyByte)
          /\ output[c] \in Seq(AnyByte)
      BY <1>2, <1>4, SeqMonotonic DEF AnyByte, Bytes, Data
    <3>4. PICK o \in Seq(AnyByte), s \in Seq(AnyByte), x \in Seq(AnyByte), y \in Seq(AnyByte) :
            o = output[c] /\ s = sent /\ x = a /\ y = b
      BY <3>3
    <3>5. (o \o (s \o x)) \o y = (o \o s) \o (x \o y)
      <4>1. PICK w \in Seq(AnyByte) : w = o \o s
        BY ConcatProperties
      <4>2. o \o (s \o x) = w \o x
        BY <4>1, ConcatAssociative
      <4>3. (w \o x) \o y = w \o (x \o y)
        BY ConcatAssociative
      <4>4. QED
        BY <4>1, <4>2, <4>3
    <3>6. QED
      BY <1>4, <3>2, <3>4, <3>5
  <2>7. cpc[c] # "done"
    BY <1>1, <2>3 DEF AnswerInv
  <2>8. AnswerInv(c)'
    <3>1. /\ cpc[c] \in {"first", "body", "done", "failed"}
          /\ cpc[c] = "first" => clean[c] = "unknown" /\ output[c] = <<>>
          /\ (cpc[c] = "failed" /\ clean[c] = "clean") => IsPrefix(output[c], Served(c))
      BY <1>1, <2>3 DEF AnswerInv
    <3>2. child'[c] = "file" /\ cpc'[c] = cpc[c] /\ output'[c] = output[c]
          /\ clean'[c] = clean[c]
      BY <1>1
    <3>3. cpc[c] = "first" =>
            \E st \in Statuses : stream'[c] \o unread'[c] = Header(st) \o Served(c)'
      BY <2>1, <2>4
    <3>4. QED
      BY <2>1, <2>5, <2>6, <2>7, <3>1, <3>2, <3>3
      DEF AnswerInv, Header, Statuses, Data, FileBytes
  <2>9. QED
    BY <2>2, <2>8 DEF ConnectionInv
<1>11. QED
  BY <1>7, <1>8, <1>9, <1>10, OneConnection

LEMMA EndOfFileKeeps ==
    ASSUME HttpInv, NEW c \in Clients, EndOfFile(c)
    PROVE  HttpInv'
<1>1. /\ child[c] = "file" /\ child' = [child EXCEPT ![c] = "closed"]
      /\ unread[c] = <<>> \/ cpc[c] \in {"done", "failed"}
      /\ backlog' = backlog /\ cpc' = cpc /\ server' = server /\ got' = got
      /\ url' = url /\ output' = output /\ clean' = clean
      /\ unread' = unread /\ stream' = stream
  BY DEF EndOfFile, CloseChild, Gone, clientVars
<1>2. Types'
  BY <1>1 DEF HttpInv, Types
<1>3. \A d \in Clients \ {c} : Untouched(d)
  BY <1>1 DEF Untouched, HttpInv, Types
<1>4. BacklogInv'
  BY <1>1, <1>3, FrameBacklog DEF HttpInv, Untouched
<1>5. ConnectionInv(c)'
  <2>1. /\ Request(c)' = Request(c) /\ Named(url[c])' = Named(url[c])
        /\ Served(c)' = Served(c)
    BY <1>1, SameRequest, SameNamed, SameServed
  <2>2. child'[c] = "closed" /\ ConnectionInv(c)
    BY <1>1 DEF HttpInv, Types
  <2>3. RequestInv(c)' /\ QuietInv(c)'
    BY <1>1, <2>1, <2>2 DEF ConnectionInv, RequestInv, QuietInv
  <2>4. AnswerInv(c)'
    BY <1>1, <2>1, <2>2 DEF ConnectionInv, AnswerInv, Header, Statuses, Data, FileBytes
  <2>5. QED
    BY <2>3, <2>4 DEF ConnectionInv
<1>6. QED
  BY <1>2, <1>3, <1>4, <1>5, OneConnection

LEMMA EndOfStreamKeeps ==
    ASSUME HttpInv, NEW c \in Clients, EndOfStream(c)
    PROVE  HttpInv'
<1>1. /\ cpc[c] \in {"first", "body"} /\ stream[c] = <<>> /\ child[c] = "closed"
      /\ cpc' = [cpc EXCEPT ![c] = "done"]
      /\ backlog' = backlog /\ child' = child /\ server' = server /\ got' = got
      /\ url' = url /\ output' = output /\ clean' = clean
      /\ unread' = unread /\ stream' = stream
  BY DEF EndOfStream, serverVars, childVars
<1>2. Types'
  BY <1>1 DEF HttpInv, Types
<1>3. \A d \in Clients \ {c} : Untouched(d)
  BY <1>1 DEF Untouched, HttpInv, Types
<1>4. BacklogInv'
  BY <1>1, <1>3, FrameBacklog DEF HttpInv, Untouched
<1>5. ConnectionInv(c)'
  <2>1. /\ Request(c)' = Request(c) /\ Named(url[c])' = Named(url[c])
        /\ Served(c)' = Served(c)
    BY <1>1, SameRequest, SameNamed, SameServed
  <2>2. cpc'[c] = "done" /\ ConnectionInv(c)
    BY <1>1 DEF HttpInv, Types
  <2>3. RequestInv(c)' /\ QuietInv(c)'
    BY <1>1, <2>1, <2>2 DEF ConnectionInv, RequestInv, QuietInv
  <2>4. /\ cpc[c] = "first" => clean[c] = "unknown"
        /\ (cpc[c] = "body" /\ clean[c] = "clean")
               => (output[c] \o stream[c]) \o unread[c] = Served(c)
        /\ unread[c] = <<>>
    BY <1>1, <2>2 DEF ConnectionInv, AnswerInv
  <2>5. stream'[c] \in Seq(Data)
    BY <1>1, EmptySeq
  <2>6. AnswerInv(c)'
    BY <1>1, <2>1, <2>2, <2>4, <2>5 DEF AnswerInv, Data, FileBytes
  <2>7. QED
    BY <2>3, <2>6 DEF ConnectionInv
<1>6. QED
  BY <1>2, <1>3, <1>4, <1>5, OneConnection

LEMMA ResetKeeps ==
    ASSUME HttpInv, NEW c \in Clients, Reset(c)
    PROVE  HttpInv'
<1>1. /\ cpc[c] \in {"first", "body"} /\ child[c] = "closed"
      /\ cpc' = [cpc EXCEPT ![c] = "failed"] /\ stream' = [stream EXCEPT ![c] = <<>>]
      /\ backlog' = backlog /\ child' = child /\ server' = server /\ got' = got
      /\ url' = url /\ output' = output /\ clean' = clean /\ unread' = unread
  BY DEF Reset
<1>2. <<>> \in Seq(Bytes) /\ <<>> \in Seq(Data)
  BY EmptySeq
<1>3. Types'
  BY <1>1, <1>2 DEF HttpInv, Types
<1>4. \A d \in Clients \ {c} : Untouched(d)
  BY <1>1 DEF Untouched, HttpInv, Types
<1>5. BacklogInv'
  BY <1>1, <1>4, FrameBacklog DEF HttpInv, Untouched
<1>6. ConnectionInv(c)'
  <2>1. /\ Request(c)' = Request(c) /\ Named(url[c])' = Named(url[c])
        /\ Served(c)' = Served(c)
    BY <1>1, SameRequest, SameNamed, SameServed
  <2>2. cpc'[c] = "failed" /\ stream'[c] = <<>> /\ ConnectionInv(c)
    BY <1>1 DEF HttpInv, Types
  <2>3. RequestInv(c)' /\ QuietInv(c)'
    BY <1>1, <2>1, <2>2 DEF ConnectionInv, RequestInv, QuietInv
  <2>4. clean[c] = "clean" => IsPrefix(output[c], Served(c))
    <3>1. SUFFICES ASSUME clean[c] = "clean" PROVE IsPrefix(output[c], Served(c))
      OBVIOUS
    <3>2. (output[c] \o stream[c]) \o unread[c] = Served(c)
      BY <1>1, <2>2, <3>1 DEF ConnectionInv, AnswerInv
    <3>3. PICK o \in Seq(AnyByte), s \in Seq(AnyByte), u \in Seq(AnyByte) :
            o = output[c] /\ s = stream[c] /\ u = unread[c]
      <4>1. output[c] \in Seq(Saved) /\ stream[c] \in Seq(Bytes)
            /\ unread[c] \in Seq(FileBytes)
        BY DEF HttpInv, Types
      <4>2. output[c] \in Seq(AnyByte) /\ stream[c] \in Seq(AnyByte)
            /\ unread[c] \in Seq(AnyByte)
        BY <4>1, SeqMonotonic DEF AnyByte, Bytes, Data
      <4>3. QED
        BY <4>2
    <3>4. PICK w \in Seq(AnyByte) : w = s \o u
      BY ConcatProperties
    <3>5. (o \o s) \o u = o \o (s \o u)
      BY ConcatAssociative
    <3>6. IsPrefix(o, o \o w)
      BY PrefixOfConcat
    <3>7. QED
      BY <3>2, <3>3, <3>4, <3>5, <3>6
  <2>5. AnswerInv(c)'
    <3>1. (IsPrefix(output[c], Served(c)))' <=> IsPrefix(output[c], Served(c))
      BY <1>1, <2>1 DEF IsPrefix
    <3>2. QED
      BY <1>1, <1>2, <2>2, <2>4, <3>1 DEF AnswerInv, Data, FileBytes
  <2>6. QED
    BY <2>3, <2>5 DEF ConnectionInv
<1>7. QED
  BY <1>3, <1>4, <1>5, <1>6, OneConnection

\* What one recv() takes.
LEMMA SegmentIsPart ==
    ASSUME NEW s, NEW segment \in Segments(s, FN_LENGTH), s \in Seq(Bytes)
    PROVE  \E n \in 1..Len(s) : segment = SubSeq(s, 1, n)
<1>1. Len(s) \in Nat
  OBVIOUS
<1>2. QED
  BY <1>1, HttpAssumption DEF Segments

\* The first recv() splits the answer behind its header.
LEMMA FirstSegmentKeeps ==
    ASSUME HttpInv, NEW c \in Clients, FirstSegment(c)
    PROVE  HttpInv'
<1>1. /\ cpc[c] = "first" /\ backlog' = backlog /\ child' = child /\ server' = server
      /\ got' = got /\ url' = url /\ unread' = unread
  BY DEF FirstSegment
<1>2. ConnectionInv(c) /\ unread[c] \in Seq(FileBytes) /\ stream[c] \in Seq(Bytes)
      /\ stream \in [Clients -> Seq(Bytes)] /\ output \in [Clients -> Seq(Saved)]
      /\ cpc \in [Clients -> {"start", "first", "body", "done", "failed"}]
      /\ clean \in [Clients -> {"unknown", "clean", "not clean"}]
      /\ child[c] \in {"none", "request", "reply", "file", "closed"}
  BY DEF HttpInv, Types
<1>3. PICK segment \in Segments(stream[c], FN_LENGTH) :
        /\ Takes(c, segment)
        /\ clean' = [clean EXCEPT ![c] = IF IsClean(segment) THEN "clean" ELSE "not clean"]
        /\ IF "\r" \notin ToSet(segment)
           THEN cpc' = [cpc EXCEPT ![c] = "failed"] /\ output' = output
           ELSE /\ cpc' = [cpc EXCEPT ![c] = "body"]
                /\ \E beyond \in IF Len(segment) = FN_LENGTH /\ Text(segment) = segment
                                 THEN {<<>>, <<"?">>} ELSE {<<>>} :
                    output' = [output EXCEPT
                        ![c] = Text(From(segment, HeaderLength + 1)) \o beyond]
  BY DEF FirstSegment
<1>4. PICK s \in Seq(Bytes), u \in Seq(FileBytes), f \in Seq(FileBytes) :
        s = stream[c] /\ u = unread[c] /\ f = Served(c)
  BY <1>2, ServedInSeq
<1>5. PICK n \in 1..Len(s) : segment = SubSeq(s, 1, n)
  BY <1>4, SegmentIsPart
<1>6. n \in 0..Len(s) /\ n + 1 \in Nat \ {0} /\ n \in Nat
  OBVIOUS
<1>7. segment \in Seq(Bytes) /\ Len(segment) = n
  BY <1>5, <1>6, FirstElements
<1>8. stream' = [stream EXCEPT ![c] = From(s, n + 1)]
  BY <1>3, <1>4, <1>7 DEF Takes
<1>9. s # <<>>
  <2>1. Len(s) \in Nat /\ Len(s) # 0
    BY <1>5
  <2>2. Len(<<>>) = 0
    BY EmptySeq
  <2>3. QED
    BY <2>1, <2>2
<1>10. child[c] \in {"file", "closed"} /\ output[c] = <<>>
  BY <1>1, <1>2, <1>4, <1>9 DEF ConnectionInv, QuietInv, AnswerInv
<1>11. PICK status \in Statuses : s \o u = Header(status) \o f
  BY <1>1, <1>2, <1>4, <1>9, <1>10 DEF ConnectionInv, AnswerInv
<1>12. From(s, n + 1) \in Seq(Data) /\ From(segment, HeaderLength + 1) \in Seq(Data)
  <2>1. \A i \in 2..Len(s) : s[i] \in Data
    BY <1>11, AnswerElements
  <2>2. QED
    BY <1>5, <2>1, DataBehindFirst
\* After a clean segment nothing of the file is lost or added.
<1>13. ASSUME IsClean(segment), "\r" \in ToSet(segment)
       PROVE  (output'[c] \o stream'[c]) \o unread'[c] = f
  <2> DEFINE b == From(segment, HeaderLength + 1)
  <2>1. Text(b) = b
    BY <1>7, <1>13, CleanBody
  <2>2. Len(segment) # FN_LENGTH /\ n \in 5..Len(s)
    <3>1. n \in 5..(FN_LENGTH - 1) /\ FN_LENGTH \in Nat
      BY <1>7, <1>13, HttpAssumption DEF IsClean, HeaderLength
    <3>2. QED
      BY <1>6, <1>7, <3>1
  <2> HIDE DEF b
  <2>3. output' = [output EXCEPT ![c] = b \o <<>>]
    BY <1>3, <1>13, <2>1, <2>2 DEF b
  <2>4. b \o <<>> = b
    BY <1>12, ConcatEmptySeq DEF b
  <2>5. output'[c] = b /\ stream'[c] = From(s, n + 1) /\ unread'[c] = u
    BY <1>1, <1>2, <1>4, <1>8, <2>3, <2>4
  <2>6. PICK h \in Seq(Bytes) : h = Header(status) /\ Len(h) = 5
    BY HeaderProperties DEF HeaderLength
  <2>7. u \in Seq(Bytes) /\ f \in Seq(Bytes)
    BY SeqMonotonic DEF Bytes, Data
  <2>8. s \o u = h \o f /\ n \in Len(h)..Len(s)
    BY <1>11, <2>2, <2>6
  <2>9. (From(SubSeq(s, 1, n), Len(h) + 1) \o From(s, n + 1)) \o u = f
    BY <2>7, <2>8, StripHeader
  <2>10. From(SubSeq(s, 1, n), Len(h) + 1) = b
    BY <1>5, <2>6 DEF b, HeaderLength
  <2>11. QED
    BY <2>5, <2>9, <2>10
<1>14. /\ clean'[c] = "clean" => IsClean(segment)
       /\ \A d \in Clients \ {c} : clean'[d] = clean[d]
       /\ clean' \in [Clients -> {"unknown", "clean", "not clean"}]
  BY <1>2, <1>3
<1>15. /\ cpc'[c] \in {"failed", "body"}
       /\ cpc'[c] = "failed" => output'[c] = <<>>
       /\ cpc'[c] = "body" => "\r" \in ToSet(segment)
       /\ \A d \in Clients \ {c} : cpc'[d] = cpc[d]
       /\ cpc' \in [Clients -> {"start", "first", "body", "done", "failed"}]
  BY <1>2, <1>3, <1>10
<1>16. output' \in [Clients -> Seq(Saved)]
       /\ \A d \in Clients \ {c} : output'[d] = output[d]
  <2>1. CASE output' = output
    BY <1>2, <2>1
  <2>2. CASE output' # output
    <3>1. PICK beyond \in {<<>>, <<"?">>} :
            output' = [output EXCEPT ![c] = Text(From(segment, HeaderLength + 1)) \o beyond]
      BY <1>3, <2>2
    <3>2. Text(From(segment, HeaderLength + 1)) \in Seq(Saved)
      <4>1. Text(From(segment, HeaderLength + 1)) \in Seq(Data)
        BY <1>12, TextProperties
      <4>2. QED
        BY <4>1, SeqMonotonic DEF Saved
    <3>3. beyond \in Seq(Saved)
      <4>1. "?" \in Saved /\ <<>> \in Seq(Saved)
        BY EmptySeq DEF Saved
      <4>2. <<"?">> \in Seq(Saved)
        BY <4>1, SmallSeq
      <4>3. QED
        BY <4>1, <4>2
    <3>4. Text(From(segment, HeaderLength + 1)) \o beyond \in Seq(Saved)
      BY <3>2, <3>3, ConcatProperties
    <3>5. QED
      BY <1>2, <3>1, <3>4
  <2>3. QED
    BY <2>1, <2>2
<1>17. /\ stream' \in [Clients -> Seq(Bytes)] /\ stream'[c] \in Seq(Data)
       /\ \A d \in Clients \ {c} : stream'[d] = stream[d]
  <2>1. From(s, n + 1) \in Seq(Bytes)
    BY <1>6, FromInSeq
  <2>2. QED
    BY <1>2, <1>8, <1>12, <2>1
<1>18. Types'
  <2>1. /\ child' \in [Clients -> {"none", "request", "reply", "file", "closed"}]
        /\ server' \in {"starting", "listening", "failed"}
        /\ url' \in [Clients -> Seq(Symbols)]
        /\ \A d \in Clients : url'[d] \in Urls[d]
        /\ unread' \in [Clients -> Seq(FileBytes)]
        /\ got' \in [Clients -> Seq(Symbols)]
    BY <1>1 DEF HttpInv, Types
  <2>2. QED
    BY <1>14, <1>15, <1>16, <1>17, <2>1 DEF Types
<1>19. \A d \in Clients \ {c} : Untouched(d)
  BY <1>1, <1>14, <1>15, <1>16, <1>17 DEF Untouched
<1>20. BacklogInv'
  BY <1>1, <1>10, <1>15, FrameBacklog DEF HttpInv
<1>21. ConnectionInv(c)'
  <2>1. /\ Request(c)' = Request(c) /\ Named(url[c])' = Named(url[c])
        /\ Served(c)' = Served(c)
    BY <1>1, SameRequest, SameNamed, SameServed
  <2>2. RequestInv(c)' /\ QuietInv(c)'
    BY <1>1, <1>2, <1>10, <2>1 DEF ConnectionInv, RequestInv, QuietInv
  <2>3. IsPrefix(<<>>, f)
    <3>1. <<>> \in Seq(FileBytes) /\ <<>> \o f = f
      BY EmptySeq, ConcatEmptySeq
    <3>2. QED
      BY <3>1, PrefixOfConcat
  <2>4. (cpc'[c] = "failed" => IsPrefix(output[c], Served(c))')
    <3>1. (IsPrefix(output[c], Served(c)))' <=> IsPrefix(output'[c], f)
      BY <1>4, <2>1 DEF IsPrefix
    <3>2. QED
      BY <1>15, <2>3, <3>1
  <2>5. (cpc'[c] = "body" /\ clean'[c] = "clean")
            => (output'[c] \o stream'[c]) \o unread'[c] = Served(c)'
    BY <1>4, <1>13, <1>14, <1>15, <2>1
  <2>6. child'[c] = "closed" => unread'[c] = <<>>
    BY <1>1, <1>2 DEF ConnectionInv, AnswerInv
  <2>7. stream'[c] \in Seq(Data)' /\ cpc'[c] \in {"failed", "body"}
    BY <1>15, <1>17 DEF Data, FileBytes
  <2>8. AnswerInv(c)'
    BY <2>4, <2>5, <2>6, <2>7 DEF AnswerInv
  <2>9. QED
    BY <2>2, <2>8 DEF ConnectionInv
<1>22. QED
  BY <1>18, <1>19, <1>20, <1>21, OneConnection

\* A later recv() moves what was on its way to the end of what is saved.
LEMMA NextSegmentKeeps ==
    ASSUME HttpInv, NEW c \in Clients, NextSegment(c)
    PROVE  HttpInv'
<1>1. /\ cpc[c] = "body" /\ backlog' = backlog /\ child' = child /\ server' = server
      /\ got' = got /\ url' = url /\ unread' = unread /\ cpc' = cpc /\ clean' = clean
  BY DEF NextSegment
<1>2. ConnectionInv(c) /\ stream[c] \in Seq(Bytes) /\ output[c] \in Seq(Saved)
      /\ stream \in [Clients -> Seq(Bytes)] /\ output \in [Clients -> Seq(Saved)]
      /\ child[c] \in {"none", "request", "reply", "file", "closed"}
  BY DEF HttpInv, Types
<1>3. child[c] \in {"file", "closed"}
  BY <1>1, <1>2 DEF ConnectionInv, RequestInv, QuietInv
<1>4. stream[c] \in Seq(Data)
  BY <1>1, <1>2, <1>3 DEF ConnectionInv, AnswerInv
<1>5. PICK segment \in Segments(stream[c], FN_LENGTH) :
        Takes(c, segment) /\ output' = [output EXCEPT ![c] = @ \o segment]
  BY DEF NextSegment
<1>6. PICK o \in Seq(Saved), s \in Seq(Saved) : o = output[c] /\ s = stream[c]
  BY <1>2, <1>4, SeqMonotonic DEF Saved
<1>7. PICK n \in 1..Len(s) : segment = SubSeq(s, 1, n)
  BY <1>2, <1>6, SegmentIsPart
<1>8. n \in 0..Len(s) /\ n + 1 \in Nat \ {0} /\ n \in Nat
  OBVIOUS
<1>9. segment \in Seq(Saved) /\ Len(segment) = n
  BY <1>7, <1>8, FirstElements
<1>10. stream' = [stream EXCEPT ![c] = From(s, n + 1)]
       /\ output' = [output EXCEPT ![c] = o \o segment]
  BY <1>5, <1>6, <1>9 DEF Takes
<1>11. From(s, n + 1) \in Seq(Data) /\ From(s, n + 1) \in Seq(Bytes)
  BY <1>2, <1>4, <1>6, <1>8, FromInSeq
<1>12. o \o segment \in Seq(Saved)
  BY <1>9, ConcatProperties
<1>13. (o \o segment) \o From(s, n + 1) = o \o s
  BY <1>7, <1>8, MovePart
<1>14. /\ output' \in [Clients -> Seq(Saved)] /\ output'[c] = o \o segment
       /\ \A d \in Clients \ {c} : output'[d] = output[d]
  BY <1>2, <1>10, <1>12
<1>15. /\ stream' \in [Clients -> Seq(Bytes)] /\ stream'[c] = From(s, n + 1)
       /\ \A d \in Clients \ {c} : stream'[d] = stream[d]
  BY <1>2, <1>10, <1>11
<1>16. Types'
  BY <1>1, <1>14, <1>15 DEF HttpInv, Types
<1>17. \A d \in Clients \ {c} : Untouched(d)
  BY <1>1, <1>14, <1>15 DEF Untouched
<1>18. BacklogInv'
  BY <1>1, FrameBacklog DEF HttpInv
<1>19. ConnectionInv(c)'
  <2>1. /\ Request(c)' = Request(c) /\ Named(url[c])' = Named(url[c])
        /\ Served(c)' = Served(c)
    BY <1>1, SameRequest, SameNamed, SameServed
  <2>2. RequestInv(c)' /\ QuietInv(c)'
    BY <1>1, <1>2, <1>3, <2>1 DEF ConnectionInv, RequestInv, QuietInv
  <2>3. /\ clean[c] = "clean" => (o \o s) \o unread[c] = Served(c)
        /\ child[c] = "closed" => unread[c] = <<>>
    BY <1>1, <1>2, <1>3, <1>6 DEF ConnectionInv, AnswerInv
  <2>4. clean'[c] = "clean" => (output'[c] \o stream'[c]) \o unread'[c] = Served(c)'
    BY <1>1, <1>13, <1>14, <1>15, <2>1, <2>3
  <2>5. child'[c] = "closed" => unread'[c] = <<>>
    BY <1>1, <2>3
  <2>6. stream'[c] \in Seq(Data)' /\ cpc'[c] = "body"
    BY <1>1, <1>11, <1>15 DEF Data, FileBytes
  <2>7. AnswerInv(c)'
    BY <2>4, <2>5, <2>6 DEF AnswerInv
  <2>8. QED
    BY <2>2, <2>7 DEF ConnectionInv
<1>20. QED
  BY <1>16, <1>17, <1>18, <1>19, OneConnection

LEMMA HttpNext == HttpInv /\ [Next]_vars => HttpInv'
<1> SUFFICES ASSUME HttpInv, [Next]_vars PROVE HttpInv'
  OBVIOUS
<1>1. ASSUME NEW c \in Clients, Client(c) PROVE HttpInv'
  BY <1>1, ConnectKeeps, ConnectFailsKeeps, FirstSegmentKeeps, NextSegmentKeeps,
     EndOfStreamKeeps, ResetKeeps DEF Client
<1>2. ASSUME NEW c \in Clients, Child(c) PROVE HttpInv'
  BY <1>2, ReadRequestKeeps, RefuseOrMissingKeeps, FileFoundKeeps, SendChunkKeeps,
     EndOfFileKeeps DEF Child
<1>3. ASSUME UNCHANGED vars PROVE HttpInv'
  <2>1. /\ server' = server /\ backlog' = backlog /\ cpc' = cpc
        /\ url' = url /\ output' = output /\ clean' = clean
        /\ child' = child /\ got' = got /\ unread' = unread /\ stream' = stream
    BY <1>3 DEF vars, clientVars, serverVars, childVars
  <2>2. Types'
    BY <2>1 DEF HttpInv, Types
  <2>3. BacklogInv'
    BY <2>1 DEF HttpInv, BacklogInv
  <2>4. \A d \in Clients : ConnectionInv(d)'
    BY <2>1, FrameConnection DEF HttpInv, Untouched
  <2>5. QED
    BY <2>2, <2>3, <2>4 DEF HttpInv
<1>4. QED
  BY <1>1, <1>2, <1>3, StartKeeps, AcceptKeeps DEF Next, Idle

----------------------------------------------------------------------------
(***************************************************************************)
(* Theorems.                                                               *)
(***************************************************************************)

\* The invariant holds in every state.
LEMMA HttpInvariance == Spec => []HttpInv
<1>1. Init => HttpInv
  BY HttpInit
<1>2. HttpInv /\ [Next]_vars => HttpInv'
  BY HttpNext
<1>3. QED
  BY <1>1, <1>2, PTL DEF Spec

\* The variables hold what they should, and a child has got the beginning of what its
\* client sent.
THEOREM TypeCorrectness == Spec => []TypeOK
<1>1. HttpInv => TypeOK
  <2> SUFFICES ASSUME HttpInv PROVE TypeOK
    OBVIOUS
  <2>1. Types /\ BacklogInv
    BY DEF HttpInv
  <2>2. \A c \in Clients : ToSet(output[c]) \subseteq {"x", "0", "?", "\r", "\n"}
    <3>1. TAKE c \in Clients
    <3>2. output[c] \in Seq(Saved)
      BY <2>1 DEF Types
    <3>3. Saved = {"x", "0", "?", "\r", "\n"}
      BY DEF Saved, Data, FileBytes
    <3>4. QED
      BY <3>2, <3>3, ElementsOfSeq
  <2>3. \A c \in Clients : ToSet(unread[c]) \subseteq {"x", "0"}
    <3>1. TAKE c \in Clients
    <3>2. unread[c] \in Seq({"x", "0"})
      BY <2>1 DEF Types, FileBytes
    <3>3. QED
      BY <3>2, ElementsOfSeq
  <2>4. \A c \in Clients : ToSet(stream[c]) \subseteq Statuses \cup {"x", "0", "\r", "\n"}
    <3>1. TAKE c \in Clients
    <3>2. stream[c] \in Seq(Bytes)
      BY <2>1 DEF Types
    <3>3. Bytes = Statuses \cup {"x", "0", "\r", "\n"}
      BY DEF Bytes, Data, FileBytes
    <3>4. QED
      BY <3>2, <3>3, ElementsOfSeq
  <2>5. ToSet(backlog) \subseteq Clients
    BY <2>1, ElementsOfSeq DEF BacklogInv
  <2>6. \A c \in Clients : IsPrefix(got[c], Request(c))
    <3>1. TAKE c \in Clients
    <3>2. Request(c) \in Seq(Symbols)
      BY <2>1, RequestInSeq DEF Types
    <3>3. PICK n \in 0..Len(Request(c)) : got[c] = SubSeq(Request(c), 1, n)
      BY DEF HttpInv, ConnectionInv, RequestInv
    <3>4. got[c] \in Seq(Symbols) /\ Len(got[c]) = n
      BY <3>2, <3>3, FirstElements
    <3>5. SubSeq(got[c], 1, n) = got[c]
      BY <3>4, SubSeqFull
    <3>6. n <= Len(Request(c))
      BY <3>2
    <3>7. QED
      BY <3>3, <3>4, <3>5, <3>6 DEF IsPrefix
  <2>7. QED
    BY <2>1, <2>2, <2>3, <2>4, <2>5, <2>6 DEF TypeOK, Types
<1>2. QED
  BY <1>1, HttpInvariance, PTL

\* When there is no blank in it, what the child takes for the path is the whole path
\* or nothing.
LEMMA WholePath ==
    ASSUME HttpInv, NEW c \in Clients, ~ HasBlank(c)
    PROVE  PathGot(c) \in {<<>>, Path(c)}
<1>1. PICK p \in Seq(Symbols) : p = Path(c)
  BY PathOfUrl DEF HttpInv, Types, Path
<1>2. \A i \in 1..Len(p) : p[i] # " "
  <2>1. DOMAIN p = 1..Len(p)
    OBVIOUS
  <2>2. " " \notin ToSet(p)
    BY <1>1 DEF HasBlank
  <2>3. QED
    BY <2>1, <2>2 DEF ToSet
<1>3. PICK r \in Seq(Symbols) : r = Request(c)
  BY RequestInSeq DEF HttpInv, Types
<1>4. /\ Len(r) >= Len(p) + 2 /\ r[1] = "GET /" /\ r[Len(p) + 2] = " "
      /\ \A i \in 1..Len(p) : r[i + 1] = p[i]
  <2>1. PICK g \in Seq(Symbols), t \in Seq(Symbols) :
            g = <<"GET /">> /\ t = <<" ", "headers">>
    <3>1. "GET /" \in Symbols /\ " " \in Symbols /\ "headers" \in Symbols
      BY DEF Symbols
    <3>2. QED
      BY <3>1, SmallSeq
  <2>2. g[1] = "GET /" /\ t[1] = " "
    BY <2>1
  <2>0. Len(g) = 1 /\ Len(t) = 2
    BY <2>1
  <2>3. PICK q \in Seq(Symbols) : q = g \o p
    BY ConcatProperties
  <2>4. PICK k \in Nat : k = Len(p)
    OBVIOUS
  <2>5. /\ Len(q) = k + 1
        /\ \A i \in 1..(k + 1) : q[i] = IF i <= 1 THEN g[i] ELSE p[i - 1]
    <3>1. /\ Len(g \o p) = Len(g) + Len(p)
          /\ \A i \in 1..(Len(g) + Len(p)) :
                (g \o p)[i] = IF i <= Len(g) THEN g[i] ELSE p[i - Len(g)]
      BY ConcatProperties
    <3>2. QED
      BY <2>0, <2>3, <2>4, <3>1
  <2>6. /\ Len(r) = k + 3
        /\ \A i \in 1..(k + 3) : r[i] = IF i <= k + 1 THEN q[i] ELSE t[i - (k + 1)]
    <3>1. r = q \o t
      BY <1>1, <1>3, <2>1, <2>3 DEF Request, Path
    <3>2. k + 1 \in Nat /\ (k + 1) + 2 = k + 3
      OBVIOUS
    <3>3. /\ Len(q \o t) = Len(q) + Len(t)
          /\ \A i \in 1..(Len(q) + Len(t)) :
                (q \o t)[i] = IF i <= Len(q) THEN q[i] ELSE t[i - Len(q)]
      BY ConcatProperties
    <3>4. QED
      BY <2>0, <2>5, <3>1, <3>2, <3>3
  <2>7. r[k + 2] = " "
    <3>1. PICK j \in Nat : j = k + 2
      OBVIOUS
    <3>2. j \in 1..(k + 3) /\ ~ (j <= k + 1) /\ j - (k + 1) = 1
      BY <3>1
    <3>3. r[j] = t[j - (k + 1)]
      BY <2>6, <3>2
    <3>4. QED
      BY <2>2, <3>1, <3>2, <3>3
  <2>8. ASSUME NEW i \in 1..k PROVE r[i + 1] = p[i]
    <3>1. PICK j \in Nat : j = i + 1
      OBVIOUS
    <3>2. j \in 1..(k + 3) /\ j <= k + 1 /\ j \in 1..(k + 1) /\ ~ (j <= 1) /\ j - 1 = i
      BY <3>1
    <3>3. r[j] = q[j] /\ q[j] = p[j - 1]
      BY <2>5, <2>6, <3>2
    <3>4. QED
      BY <3>1, <3>2, <3>3
  <2>9. r[1] = "GET /"
    <3>1. 1 \in 1..(k + 3) /\ 1 <= k + 1 /\ 1 \in 1..(k + 1)
      OBVIOUS
    <3>2. r[1] = q[1] /\ q[1] = g[1]
      BY <2>5, <2>6, <3>1
    <3>3. QED
      BY <2>2, <3>2
  <2>10. Len(r) >= k + 2
    BY <2>6
  <2>11. QED
    BY <2>4, <2>7, <2>8, <2>9, <2>10
<1>5. PICK n \in 0..Len(r) : got[c] = SubSeq(r, 1, n)
  BY <1>3 DEF HttpInv, ConnectionInv, RequestInv
<1>6. PICK h \in Seq(Symbols) : h = got[c] /\ Len(h) = n /\ \A i \in 1..n : h[i] = r[i]
  BY <1>5, FirstElements
<1>7. PICK k \in 0..n :
        /\ k = Strchr(h, " ")
        /\ k # 0 => h[k] = " " /\ \A i \in 1..(k - 1) : h[i] # " "
  <2>1. /\ Strchr(h, " ") \in 0..Len(h)
        /\ Strchr(h, " ") # 0 => /\ h[Strchr(h, " ")] = " "
                                 /\ \A i \in 1..(Strchr(h, " ") - 1) : h[i] # " "
    BY FirstPlace
  <2>2. QED
    BY <1>6, <2>1
<1>8. PathGot(c) = SubSeq(h, 2, k - 1)
  BY <1>6, <1>7 DEF PathGot
<1>9. n \in Nat /\ n <= Len(r) /\ Len(p) \in Nat /\ k \in Nat
  OBVIOUS
<1>10. CASE k = 0
  <2>1. k - 1 \in Int /\ k - 1 < 2
    BY <1>10
  <2>2. QED
    BY <1>8, <2>1, SubSeqEmpty
<1>11. CASE k # 0
  <2>0. k \in 1..n
    BY <1>9, <1>11
  <2>1. h[k] = " " /\ r[k] = " "
    BY <1>6, <1>7, <1>11, <2>0
  <2>2. k # 1
    BY <1>4, <2>1
  <2>3. ~ (k \in 2..(Len(p) + 1))
    <3>1. SUFFICES ASSUME k \in 2..(Len(p) + 1) PROVE FALSE
      OBVIOUS
    <3>2. k - 1 \in 1..Len(p) /\ (k - 1) + 1 = k
      BY <1>9, <3>1
    <3>3. r[(k - 1) + 1] = p[k - 1] /\ p[k - 1] # " "
      BY <1>2, <1>4, <3>2
    <3>4. QED
      BY <2>1, <3>2, <3>3
  <2>4. ~ (k > Len(p) + 2)
    <3>1. SUFFICES ASSUME k > Len(p) + 2 PROVE FALSE
      OBVIOUS
    <3>2. Len(p) + 2 \in 1..(k - 1) /\ Len(p) + 2 \in 1..n
      BY <1>9, <2>0, <3>1
    <3>3. h[Len(p) + 2] # " " /\ h[Len(p) + 2] = r[Len(p) + 2]
      BY <1>6, <1>7, <1>11, <3>2
    <3>4. QED
      BY <1>4, <3>3
  <2>5. k = Len(p) + 2
    BY <1>9, <2>0, <2>2, <2>3, <2>4
  <2>6. k - 1 = Len(p) + 1 /\ Len(p) + 1 <= Len(h) /\ 2 <= Len(p) + 1 + 1
        /\ Len(p) + 1 \in Int /\ Len(p) + 1 - 2 + 1 = Len(p)
    BY <1>6, <1>9, <2>0, <2>5
  <2> DEFINE m == Len(p) + 1
             x == SubSeq(h, 2, m)
  <2>7. m \in Int /\ m <= Len(h) /\ 2 <= m + 1 /\ m - 2 + 1 = Len(p) /\ 2 >= 1 /\ m >= 1
    BY <1>9, <2>6
  <2> HIDE DEF m
  <2>8. /\ x \in Seq(Symbols) /\ Len(x) = m - 2 + 1
        /\ \A i \in 1..(m - 2 + 1) : x[i] = h[2 + i - 1]
    BY <2>7, PartProperties
  <2> HIDE DEF x
  <2>9. ASSUME NEW i \in 1..Len(p) PROVE x[i] = p[i]
    <3>1. 2 + i - 1 = i + 1 /\ i + 1 \in 1..n /\ i \in 1..(m - 2 + 1)
      BY <1>6, <1>9, <2>6, <2>7
    <3>2. x[i] = h[2 + i - 1]
      BY <2>8, <3>1
    <3>3. x[i] = h[i + 1]
      BY <3>1, <3>2
    <3>4. h[i + 1] = r[i + 1]
      BY <1>6, <3>1
    <3>5. QED
      BY <1>4, <3>3, <3>4
  <2>10. Len(x) = Len(p)
    BY <2>7, <2>8
  <2>11. x = p
    BY <2>8, <2>9, <2>10, SeqEqual
  <2>12. PathGot(c) = SubSeq(h, 2, m)
    BY <1>8, <2>6 DEF m
  <2>13. QED
    BY <1>1, <2>11, <2>12 DEF x
<1>12. QED
  BY <1>10, <1>11

\* A sequence is what stands before one of its elements, the element and what stands
\* behind it.
LEMMA SplitAt ==
    ASSUME NEW S, NEW s \in Seq(S), NEW k \in 1..Len(s)
    PROVE  s = (SubSeq(s, 1, k - 1) \o <<s[k]>>) \o From(s, k + 1)
<1>1. k \in 0..Len(s) /\ 1 \in 1..Len(s) /\ k \in 1..Len(s)
  OBVIOUS
<1>2. SubSeq(s, 1, k) = SubSeq(s, 1, k - 1) \o <<s[k]>>
  BY <1>1, SubSeqRecursiveSecond
<1>3. SubSeq(s, 1, k) \o From(s, k + 1) = s
  BY <1>1, SplitSeq
<1>4. QED
  BY <1>2, <1>3

\* The same of its first n elements.
LEMMA SplitPart ==
    ASSUME NEW S, NEW s \in Seq(S), NEW k \in 1..Len(s), NEW n \in k..Len(s)
    PROVE  SubSeq(s, 1, n) = SubSeq(s, 1, k - 1) \o (<<s[k]>> \o SubSeq(s, k + 1, n))
<1>1. /\ 1 \in 1..Len(s) /\ k \in 1..Len(s) /\ 1 \in 1..(Len(s) + 1)
      /\ k \in (1 - 1)..Len(s) /\ k - 1 \in 0..Len(s)
      /\ k + 1 \in Int /\ n \in Int /\ k + 1 >= 1 /\ n <= Len(s) /\ k + 1 <= n + 1
  OBVIOUS
<1>2. SubSeq(s, 1, k) = SubSeq(s, 1, k - 1) \o <<s[k]>>
  BY <1>1, SubSeqRecursiveSecond
<1>3. SubSeq(s, 1, k) \o SubSeq(s, k + 1, n) = SubSeq(s, 1, n)
  BY <1>1, ConcatAdjacentSubSeq
<1>4. s[k] \in S
  BY ElementOfSeq
<1>5. PICK h \in Seq(S), x \in Seq(S), p \in Seq(S) :
        h = SubSeq(s, 1, k - 1) /\ x = <<s[k]>> /\ p = SubSeq(s, k + 1, n)
  BY <1>1, <1>4, FirstElements, PartProperties, SmallSeq
<1>6. (h \o x) \o p = h \o (x \o p)
  BY ConcatAssociative
<1>7. QED
  BY <1>2, <1>3, <1>5, <1>6

\* A URL that leads to this server ends with the server's address, '/' and its path.
LEMMA NamedUrl ==
    ASSUME NEW u \in Seq(Symbols), Named(u)
    PROVE  \E i \in 0..Len(u) :
           \E port \in {<<":">> \o ServerPort}
                           \cup (IF ServerPort = <<"8", "0">> THEN {<<>>} ELSE {}) :
               From(u, i + 1) = ServerHost \o port \o <<"/">> \o Extract(u).path
<1> DEFINE a == Strchr(u, ":")
<1>1. PICK rest \in Seq(Symbols) : rest = From(u, a + 3)
  BY PathOfUrl
<1>2. PICK colon \in 0..Len(rest), slash \in 0..Len(rest) :
        /\ colon = Strchr(rest, ":") /\ slash = Strchr(rest, "/")
        /\ colon # 0 => rest[colon] = ":"
        /\ slash # 0 => rest[slash] = "/"
  BY FirstPlace
<1>3. /\ a # 0 /\ colon < slash
      /\ ServerHost = SubSeq(rest, 1, (IF colon = 0 THEN slash ELSE colon) - 1)
      /\ ServerPort = IF colon = 0 THEN <<"8", "0">> ELSE SubSeq(rest, colon + 1, slash - 1)
      /\ Extract(u).path = From(rest, slash + 1)
  BY <1>1, <1>2 DEF Named, Extract, PathBehind
<1>4. Len(rest) \in Nat /\ slash \in 1..Len(rest) /\ slash \in Nat /\ colon \in Nat
  BY <1>2, <1>3
<1>5. a + 2 \in 0..Len(u)
  <2>1. a \in 0..Len(u) /\ Len(u) \in Nat
    BY FirstPlace
  <2> HIDE DEF a
  <2>2. a + 3 \in Nat \ {0}
    BY <2>1
  <2>3. a + 3 > Len(u) => rest = <<>>
    BY <1>1, <2>2, FromInSeq
  <2>4. rest # <<>>
    BY <1>4, EmptySeq
  <2>5. QED
    BY <2>1, <2>3, <2>4
<1>6. From(u, (a + 2) + 1) = rest
  <2>1. (a + 2) + 1 = a + 3
    <3>1. a \in 0..Len(u)
      BY FirstPlace
    <3> HIDE DEF a
    <3>2. QED
      BY <3>1
  <2>2. QED
    BY <1>1, <2>1
<1> HIDE DEF a
<1>7. rest[slash] = "/"
  BY <1>2, <1>4
<1>8. PICK f \in Seq(Symbols), l \in Seq(Symbols) :
        f = SubSeq(rest, 1, slash - 1) /\ l = From(rest, slash + 1)
  <2>1. slash - 1 \in 0..Len(rest) /\ slash + 1 \in Nat \ {0}
    BY <1>4
  <2>2. QED
    BY <2>1, FirstElements, FromInSeq
<1>9. rest = (f \o <<"/">>) \o l
  <2>1. rest = (SubSeq(rest, 1, slash - 1) \o <<rest[slash]>>) \o From(rest, slash + 1)
    BY <1>4, SplitAt
  <2>2. QED
    BY <1>7, <1>8, <2>1
<1>10. CASE colon = 0
  <2>1. ServerHost = f /\ ServerPort = <<"8", "0">>
    BY <1>3, <1>8, <1>10
  <2>2. f \o <<>> = f
    BY ConcatEmptySeq
  <2>3. From(u, (a + 2) + 1) = ServerHost \o <<>> \o <<"/">> \o Extract(u).path
    BY <1>3, <1>6, <1>8, <1>9, <2>1, <2>2
  <2>4. <<>> \in {<<":">> \o ServerPort}
                     \cup (IF ServerPort = <<"8", "0">> THEN {<<>>} ELSE {})
    BY <2>1
  <2>5. QED
    BY <1>5, <2>3, <2>4
<1>11. CASE colon # 0
  <2>1. colon \in 1..Len(rest) /\ slash - 1 \in colon..Len(rest)
    BY <1>3, <1>4, <1>11
  <2>2. SubSeq(rest, 1, slash - 1) =
            SubSeq(rest, 1, colon - 1) \o (<<rest[colon]>> \o SubSeq(rest, colon + 1, slash - 1))
    BY <2>1, SplitPart
  <2>3. rest[colon] = ":" /\ ServerHost = SubSeq(rest, 1, colon - 1)
        /\ ServerPort = SubSeq(rest, colon + 1, slash - 1)
    BY <1>2, <1>3, <1>11
  <2>4. f = ServerHost \o (<<":">> \o ServerPort)
    BY <1>8, <2>2, <2>3
  <2>5. From(u, (a + 2) + 1) = ServerHost \o (<<":">> \o ServerPort) \o <<"/">> \o Extract(u).path
    BY <1>3, <1>6, <1>8, <1>9, <2>4
  <2>6. QED
    BY <1>5, <2>5
<1>12. QED
  BY <1>10, <1>11

\* A child looks for the file its client's URL names, whatever the URL and wherever TCP
\* cut the request.
THEOREM UrlsNameFiles == Spec => []OpensWhatTheUrlNames
<1>1. HttpInv => OpensWhatTheUrlNames
  <2> SUFFICES ASSUME HttpInv, NEW c \in Clients, PathGot(c) # <<>>, ~ HasBlank(c)
               PROVE  \E i \in 0..Len(url[c]) :
                      \E port \in {<<":">> \o ServerPort}
                                   \cup (IF ServerPort = <<"8", "0">> THEN {<<>>} ELSE {}) :
                        From(url[c], i + 1) = ServerHost \o port \o <<"/">> \o PathGot(c)
    BY DEF OpensWhatTheUrlNames
  <2>1. PathGot(c) = Extract(url[c]).path
    BY WholePath DEF Path
  <2>2. got[c] # <<>>
    <3>1. SUFFICES ASSUME got[c] = <<>> PROVE FALSE
      OBVIOUS
    <3>2. PICK h \in Seq(Symbols) : h = got[c] /\ Len(h) = 0
      BY <3>1, EmptySeq
    <3>3. PICK k \in 0..Len(h) : k = Strchr(h, " ")
      BY FirstPlace
    <3>4. k - 1 \in Int /\ k - 1 < 2
      BY <3>2
    <3>5. SubSeq(h, 2, k - 1) = <<>>
      BY <3>4, SubSeqEmpty
    <3>6. QED
      BY <3>2, <3>3, <3>5 DEF PathGot
  <2>3. url[c] \in Seq(Symbols) /\ Named(url[c])
    BY <2>2 DEF HttpInv, Types, ConnectionInv, RequestInv
  <2>4. QED
    BY <2>1, <2>3, NamedUrl
<1>2. QED
  BY <1>1, HttpInvariance, PTL

\* What a client saves after a clean start is the beginning of the file its URL names,
\* and when it ends and its path had arrived whole, all of it.
THEOREM FilesAreSaved == Spec => []SavedIsBody
<1>1. HttpInv => SavedIsBody
  <2> SUFFICES ASSUME HttpInv, NEW c \in Clients, clean[c] = "clean", ~ HasBlank(c)
               PROVE  /\ IsPrefix(output[c], Body(c))
                      /\ (cpc[c] = "done" /\ PathGot(c) = Path(c)) => output[c] = Body(c)
    BY DEF SavedIsBody
  <2>1. ConnectionInv(c) /\ child[c] \in {"none", "request", "reply", "file", "closed"}
    BY DEF HttpInv, Types
  <2>2. child[c] \in {"file", "closed"}
    BY <2>1 DEF ConnectionInv, QuietInv
  <2>3. cpc[c] \in {"body", "done", "failed"}
    BY <2>1, <2>2 DEF ConnectionInv, AnswerInv
  <2>4. PICK o \in Seq(AnyByte), s \in Seq(AnyByte), u \in Seq(AnyByte) :
            o = output[c] /\ s = stream[c] /\ u = unread[c]
    <3>1. output[c] \in Seq(Saved) /\ stream[c] \in Seq(Bytes) /\ unread[c] \in Seq(FileBytes)
      BY DEF HttpInv, Types
    <3>2. output[c] \in Seq(AnyByte) /\ stream[c] \in Seq(AnyByte) /\ unread[c] \in Seq(AnyByte)
      BY <3>1, SeqMonotonic DEF AnyByte, Bytes, Data
    <3>3. QED
      BY <3>2
  <2>5. cpc[c] \in {"body", "done"} => (o \o s) \o u = Served(c)
    BY <2>1, <2>2, <2>4 DEF ConnectionInv, AnswerInv
  <2>6. IsPrefix(output[c], Served(c))
    <3>1. CASE cpc[c] = "failed"
      BY <2>1, <2>2, <3>1 DEF ConnectionInv, AnswerInv
    <3>2. CASE cpc[c] \in {"body", "done"}
      <4>1. PICK w \in Seq(AnyByte) : w = s \o u
        BY ConcatProperties
      <4>2. (o \o s) \o u = o \o (s \o u)
        BY ConcatAssociative
      <4>3. IsPrefix(o, o \o w)
        BY PrefixOfConcat
      <4>4. QED
        BY <2>4, <2>5, <3>2, <4>1, <4>2, <4>3
    <3>3. QED
      BY <2>3, <3>1, <3>2
  <2>7. PathGot(c) = Path(c) => Served(c) = Body(c)
    BY DEF Served, Body
  <2>8. PathGot(c) = <<>> => IsPrefix(output[c], Body(c))
    <3>1. SUFFICES ASSUME PathGot(c) = <<>> PROVE IsPrefix(output[c], Body(c))
      OBVIOUS
    <3>2. Served(c) = <<>>
      BY <3>1, HttpAssumption DEF Served
    <3>3. Len(o) <= 0
      BY <2>4, <2>6, <3>2, EmptySeq DEF IsPrefix
    <3>4. o = <<>>
      BY <3>3, EmptySeq
    <3>5. PICK f \in Seq(FileBytes) : f = Body(c)
      BY HttpAssumption, EmptySeq DEF Body, FileBytes
    <3>6. <<>> \in Seq(FileBytes) /\ <<>> \o f = f
      BY EmptySeq, ConcatEmptySeq
    <3>7. IsPrefix(<<>>, f)
      BY <3>6, PrefixOfConcat
    <3>8. QED
      BY <2>4, <3>4, <3>5, <3>7
  <2>9. IsPrefix(output[c], Body(c))
    BY <2>6, <2>7, <2>8, WholePath
  <2>10. ASSUME cpc[c] = "done", PathGot(c) = Path(c) PROVE output[c] = Body(c)
    <3>1. stream[c] = <<>> /\ unread[c] = <<>>
      BY <2>1, <2>2, <2>10 DEF ConnectionInv, AnswerInv
    <3>2. (o \o <<>>) \o <<>> = Served(c)
      BY <2>4, <2>5, <2>10, <3>1
    <3>3. o \o <<>> = o
      BY ConcatEmptySeq
    <3>4. QED
      BY <2>4, <2>7, <2>10, <3>2, <3>3
  <2>11. QED
    BY <2>9, <2>10
<1>2. QED
  BY <1>1, HttpInvariance, PTL
============================================================================
