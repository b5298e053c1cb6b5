-------------------------- MODULE ConnectionIO_proofs --------------------------
(***************************************************************************)
(* What a connection of of_01.py sends and what it collects.               *)
(*                                                                         *)
(* Sending: the thread and the task that share the sockets keep every      *)
(* stream in order and without a gap, for any connections, any number of   *)
(* messages, and writes that are cut anywhere.                             *)
(*                                                                         *)
(* Collecting: statistics events are whole replies, for any requests, and  *)
(* any number and order of their parts.  While the connection is open,     *)
(* what is on the way to the controller has no gap (Channel), and what it  *)
(* collects fits in front of it (Collected); a reply that began when no    *)
(* other was under way is met by an empty _previous_stats (BegunAlone), is *)
(* not forgotten half-way (NotCut), and is what is collected               *)
(* (IsCollected).                                                          *)
(***************************************************************************)
EXTENDS DeferredSender, StatsReplies, SequenceTheorems, TLAPS

-----------------------------------------------------------------------------
(* Sending. *)


\* The value for no connection is none.
NobodyIsNone == Nobody \notin Conn

Piece == Nat \X {1, 2}

\* While the flag is not set, the thread has no data, and the task may write itself.
FlagFollowsQueue == ~sending => \A c \in Conn : queue[c] = <<>>

SenderInv ==
  /\ given \in [Conn -> Nat] /\ checked \in Conn \cup {Nobody}
  /\ wire \in [Conn -> Seq(Piece)] /\ queue \in [Conn -> Seq(Piece)]
  /\ FlagFollowsQueue /\ StreamIntact

-----------------------------------------------------------------------------
(* Pieces. *)

\* A message is two pieces, which may be cut apart.
LEMMA PiecesType ==
  ASSUME NEW k \in Nat
  PROVE  /\ Pieces(k) \in Seq(Piece) /\ Len(Pieces(k)) = 2
         /\ Pieces(k)[1] = <<k, 1>> /\ Pieces(k)[2] = <<k, 2>>
<1>1. <<k, 1>> \in Piece /\ <<k, 2>> \in Piece
  BY DEF Piece
<1> QED
  BY <1>1 DEF Pieces

\* Streams are put together in any order, and nothing adds nothing.
LEMMA Joined ==
  ASSUME NEW s \in Seq(Piece), NEW t \in Seq(Piece), NEW u \in Seq(Piece)
  PROVE  /\ s \o t \in Seq(Piece) /\ (s \o t) \o u = s \o (t \o u)
         /\ s \o <<>> = s /\ <<>> \o s = s
<1>1. s \o t \in Seq(Piece)
  BY ConcatProperties
<1>2. (s \o t) \o u = s \o (t \o u)
  BY ConcatAssociative
<1>3. s \o <<>> = s /\ <<>> \o s = s
  BY ConcatEmptySeq
<1> QED
  BY <1>1, <1>2, <1>3

\* Cutting a sequence anywhere loses nothing.
LEMMA CutAnywhere ==
  ASSUME NEW s \in Seq(Piece), NEW n \in 0..Len(s)
  PROVE  /\ SubSeq(s, 1, n) \in Seq(Piece) /\ SubSeq(s, n + 1, Len(s)) \in Seq(Piece)
         /\ SubSeq(s, 1, n) \o SubSeq(s, n + 1, Len(s)) = s
<1> DEFINE a == SubSeq(s, 1, n)
           b == SubSeq(s, n + 1, Len(s))
           r == a \o b
<1>1. Len(s) \in Nat /\ n \in Nat /\ n <= Len(s) /\ \A i \in 1..Len(s) : s[i] \in Piece
  BY LenProperties, ElementOfSeq
<1>2. /\ a \in Seq(Piece) /\ Len(a) = n
      /\ \A i \in 1..n : a[i] = s[i]
  BY <1>1, SubSeqProperties
<1>3. /\ b \in Seq(Piece) /\ Len(b) = Len(s) - n
      /\ \A i \in 1..(Len(s) - n) : b[i] = s[n + i]
  BY <1>1, SubSeqProperties
<1> HIDE DEF a, b
<1>4. /\ r \in Seq(Piece) /\ Len(r) = Len(a) + Len(b)
      /\ \A i \in 1..(Len(a) + Len(b)) : r[i] = IF i <= Len(a) THEN a[i] ELSE b[i - Len(a)]
  BY <1>2, <1>3, ConcatProperties
<1> HIDE DEF r
<1>5. Len(r) = Len(s)
  BY <1>1, <1>2, <1>3, <1>4
<1>6. ASSUME NEW i \in 1..Len(s) PROVE r[i] = s[i]
  <2>1. CASE i <= n
    BY <1>1, <1>2, <1>3, <1>4, <2>1
  <2>2. CASE ~(i <= n)
    <3>1. i - n \in 1..(Len(s) - n) /\ n + (i - n) = i
      BY <1>1, <2>2
    <3> QED
      BY <1>1, <1>2, <1>3, <1>4, <2>2, <3>1
  <2> QED
    BY <2>1, <2>2
<1>7. r = s
  BY <1>4, <1>5, <1>6, SeqEqual
<1> QED
  BY <1>2, <1>3, <1>7 DEF a, b, r

\* The k messages that send() was given, as pieces.
GivenOf(k) == [j \in 1..(2 * k) |-> <<(j + 1) \div 2, IF j % 2 = 1 THEN 1 ELSE 2>>]

\* One message more is its two pieces more.
LEMMA OneMore ==
  ASSUME NEW k \in Nat
  PROVE  /\ GivenOf(k) \in Seq(Piece)
         /\ GivenOf(k + 1) = GivenOf(k) \o Pieces(k + 1)
<1> DEFINE at(j) == <<(j + 1) \div 2, IF j % 2 = 1 THEN 1 ELSE 2>>
           g == GivenOf(k)
           h == GivenOf(k + 1)
           p == Pieces(k + 1)
           r == g \o p
<1>1. \A j \in Nat : at(j) \in Piece
  BY DEF Piece
<1>2. at(2 * k + 1) = <<k + 1, 1>> /\ at(2 * k + 2) = <<k + 1, 2>>
  <2>1. /\ ((2 * k + 1) + 1) \div 2 = k + 1 /\ (2 * k + 1) % 2 = 1
        /\ ((2 * k + 2) + 1) \div 2 = k + 1 /\ (2 * k + 2) % 2 = 0
    OBVIOUS
  <2> QED
    BY <2>1
<1> HIDE DEF at
<1>3. g = [j \in 1..(2 * k) |-> at(j)] /\ h = [j \in 1..(2 * k + 2) |-> at(j)]
  <2>1. 2 * (k + 1) = 2 * k + 2
    OBVIOUS
  <2> QED
    BY <2>1 DEF GivenOf, at
<1> HIDE DEF g, h
<1>4. /\ g \in Seq(Piece) /\ Len(g) = 2 * k /\ \A j \in 1..(2 * k) : g[j] = at(j)
      /\ h \in Seq(Piece) /\ Len(h) = 2 * k + 2 /\ \A j \in 1..(2 * k + 2) : h[j] = at(j)
  BY <1>1, <1>3
<1>5. /\ p \in Seq(Piece) /\ Len(p) = 2 /\ p[1] = <<k + 1, 1>> /\ p[2] = <<k + 1, 2>>
  BY PiecesType
<1> HIDE DEF p
<1>6. /\ r \in Seq(Piece) /\ Len(r) = 2 * k + 2
      /\ \A j \in 1..(2 * k + 2) : r[j] = IF j <= 2 * k THEN g[j] ELSE p[j - 2 * k]
  <2>1. /\ r \in Seq(Piece) /\ Len(r) = Len(g) + Len(p)
        /\ \A j \in 1..(Len(g) + Len(p)) : r[j] = IF j <= Len(g) THEN g[j] ELSE p[j - Len(g)]
    BY <1>4, <1>5, ConcatProperties
  <2> HIDE DEF r
  <2> QED
    BY <1>4, <1>5, <2>1
<1> HIDE DEF r
<1>7. ASSUME NEW j \in 1..(2 * k + 2) PROVE r[j] = h[j]
  <2>1. CASE j <= 2 * k
    BY <1>4, <1>6, <2>1
  <2>2. CASE j = 2 * k + 1
    <3>1. ~(j <= 2 * k) /\ j - 2 * k = 1 /\ h[j] = at(2 * k + 1)
      BY <1>4, <2>2
    <3>2. r[j] = p[1]
      BY <1>6, <3>1
    <3> QED
      BY <1>2, <1>5, <3>1, <3>2
  <2>3. CASE j = 2 * k + 2
    <3>1. ~(j <= 2 * k) /\ j - 2 * k = 2 /\ h[j] = at(2 * k + 2)
      BY <1>4, <2>3
    <3>2. r[j] = p[2]
      BY <1>6, <3>1
    <3> QED
      BY <1>2, <1>5, <3>1, <3>2
  <2> QED
    BY <2>1, <2>2, <2>3
<1>8. r = h
  BY <1>4, <1>6, <1>7, SeqEqual
<1> QED
  BY <1>4, <1>8 DEF g, h, p, r

-----------------------------------------------------------------------------
(* Steps. *)

\* What is on its way of a connection is a sequence of pieces.
LEMMA OnTheWay ==
  ASSUME NobodyIsNone, SenderInv, NEW c \in Conn
  PROVE  /\ wire[c] \in Seq(Piece) /\ queue[c] \in Seq(Piece) /\ given[c] \in Nat
         /\ Given(c) = GivenOf(given[c]) /\ Given(c) \in Seq(Piece)
         /\ Pieces(given[c]) \in Seq(Piece)
         /\ Held(c) \in Seq(Piece)
         /\ wire[c] \o queue[c] \in Seq(Piece)
         /\ checked = Nobody => Held(c) = <<>>
<1>1. /\ wire[c] \in Seq(Piece) /\ queue[c] \in Seq(Piece) /\ given[c] \in Nat
      /\ Given(c) = GivenOf(given[c])
  BY DEF SenderInv, Given, GivenOf
<1>2. Given(c) \in Seq(Piece) /\ Pieces(given[c]) \in Seq(Piece)
  BY <1>1, OneMore, PiecesType
<1>3. Held(c) \in Seq(Piece) /\ (checked = Nobody => Held(c) = <<>>)
  BY <1>2, EmptySeq DEF Held, NobodyIsNone
<1>4. wire[c] \o queue[c] \in Seq(Piece)
  BY <1>1, ConcatProperties
<1> QED
  BY <1>1, <1>2, <1>3, <1>4

\* send() finds the flag set: the message is behind what the thread has.
LEMMA DeferredKeeps ==
  ASSUME NobodyIsNone, SenderInv, NEW c \in Conn, SendDeferred(c)
  PROVE  SenderInv'
<1>1. /\ checked = Nobody /\ sending /\ checked' = c
      /\ given' = [given EXCEPT ![c] = @ + 1]
      /\ UNCHANGED <<wire, queue, sending, failed>>
  BY DEF SendDeferred
<1>2. /\ given' \in [Conn -> Nat] /\ given'[c] = given[c] + 1
      /\ \A d \in Conn \ {c} : given'[d] = given[d]
  BY <1>1 DEF SenderInv
<1>3. ASSUME NEW d \in Conn, ~failed[d]
      PROVE  wire'[d] \o queue'[d] \o Held(d)' = Given(d)'
  <2>1. wire[d] \o queue[d] = Given(d)
    <3>1. wire[d] \o queue[d] \o <<>> = Given(d)
      BY <1>1, <1>3, OnTheWay DEF SenderInv, StreamIntact
    <3> QED
      BY <3>1, OnTheWay, ConcatEmptySeq
  <2>2. CASE d = c
    <3>1. Held(d)' = Pieces(given[c] + 1) /\ Given(d)' = GivenOf(given[c] + 1)
      BY <1>1, <1>2, <2>2 DEF Held, Given, GivenOf
    <3>2. Given(d)' = Given(d) \o Pieces(given[c] + 1)
      BY <2>2, <3>1, OnTheWay, OneMore
    <3> QED
      BY <1>1, <2>1, <3>1, <3>2
  <2>3. CASE d # c
    <3>1. Held(d)' = <<>> /\ Given(d)' = Given(d)
      BY <1>1, <1>2, <2>3 DEF Held, Given
    <3> QED
      BY <1>1, <2>1, <3>1, OnTheWay, ConcatEmptySeq
  <2> QED
    BY <2>2, <2>3
<1>4. StreamIntact'
  BY <1>1, <1>3 DEF StreamIntact
<1> QED
  BY <1>1, <1>2, <1>4 DEF SenderInv, FlagFollowsQueue

\* The thread gets it, behind what it has.
LEMMA GiveKeeps ==
  ASSUME NobodyIsNone, SenderInv, GiveToThread
  PROVE  SenderInv'
<1> DEFINE c == checked
<1>1. /\ c \in Conn /\ checked' = Nobody /\ sending' = TRUE
      /\ queue' = [queue EXCEPT ![c] = @ \o Pieces(given[c])]
      /\ UNCHANGED <<given, wire, failed>>
  BY DEF GiveToThread, Defer, SenderInv
<1>2. /\ wire[c] \in Seq(Piece) /\ queue[c] \in Seq(Piece) /\ Pieces(given[c]) \in Seq(Piece)
      /\ queue[c] \o Pieces(given[c]) \in Seq(Piece)
  BY <1>1, OnTheWay, ConcatProperties
<1>3. /\ queue' \in [Conn -> Seq(Piece)] /\ queue'[c] = queue[c] \o Pieces(given[c])
      /\ \A d \in Conn \ {c} : queue'[d] = queue[d]
  BY <1>1, <1>2 DEF SenderInv
<1>4. ASSUME NEW d \in Conn, ~failed[d]
      PROVE  wire'[d] \o queue'[d] \o Held(d)' = Given(d)'
  <2>1. /\ wire[d] \o queue[d] \o Held(d) = Given(d)
        /\ Held(d)' = <<>> /\ Given(d)' = Given(d) /\ wire'[d] = wire[d]
    BY <1>1, <1>4 DEF SenderInv, StreamIntact, Held, Given, NobodyIsNone
  <2>2. CASE d = c
    <3>1. Held(d) = Pieces(given[c])
      BY <2>2 DEF Held
    <3>2. wire[d] \o queue[d] \o Held(d) = wire[d] \o (queue[d] \o Held(d))
      <4> DEFINE s == wire[c]
                 t == queue[c]
                 u == Pieces(given[c])
      <4>1. s \in Seq(Piece) /\ t \in Seq(Piece) /\ u \in Seq(Piece)
        BY <1>2
      <4> HIDE DEF s, t, u
      <4>2. (s \o t) \o u = s \o (t \o u)
        BY <4>1, Joined
      <4> QED
        BY <2>2, <3>1, <4>2 DEF s, t, u
    <3>3. wire'[d] \o queue'[d] = Given(d)
      BY <1>3, <2>1, <2>2, <3>1, <3>2
    <3>4. wire'[d] \o queue'[d] \o <<>> = wire'[d] \o queue'[d]
      BY <1>1, <3>3, OnTheWay, ConcatEmptySeq
    <3> QED
      BY <2>1, <3>3, <3>4
  <2>3. CASE d # c
    <3>1. Held(d) = <<>> /\ queue'[d] = queue[d]
      BY <1>3, <2>3 DEF Held
    <3> QED
      BY <2>1, <3>1
  <2> QED
    BY <2>2, <2>3
<1>5. StreamIntact'
  BY <1>1, <1>4 DEF StreamIntact
<1> QED
  BY <1>1, <1>3, <1>5 DEF SenderInv, FlagFollowsQueue

\* send() writes itself, when the thread has nothing.
LEMMA DirectlyKeeps ==
  ASSUME NobodyIsNone, SenderInv, NEW c \in Conn, SendDirectly(c)
  PROVE  SenderInv'
<1> DEFINE data == Pieces(given[c] + 1)
<1>1. /\ checked = Nobody /\ checked' = checked /\ ~sending /\ failed' = failed
      /\ given' = [given EXCEPT ![c] = @ + 1]
      /\ \A d \in Conn : queue[d] = <<>>
  BY DEF SendDirectly, SenderInv, FlagFollowsQueue
<1>2. /\ given[c] \in Nat /\ given' \in [Conn -> Nat] /\ given'[c] = given[c] + 1
      /\ \A d \in Conn \ {c} : given'[d] = given[d]
  BY <1>1 DEF SenderInv
<1>3. data \in Seq(Piece) /\ Len(data) = 2
  BY <1>2, PiecesType
<1>4. ASSUME NEW d \in Conn, ~failed[d]
      PROVE  /\ wire[d] = Given(d) /\ Given(d) \in Seq(Piece) /\ Held(d)' = <<>>
             /\ d # c => Given(d)' = Given(d)
             /\ d = c => Given(d)' = Given(d) \o data
  <2>1. wire[d] \o <<>> \o <<>> = Given(d)
    BY <1>1, <1>4, OnTheWay DEF SenderInv, StreamIntact
  <2>2. wire[d] = Given(d)
    BY <2>1, OnTheWay, ConcatEmptySeq
  <2>3. Held(d)' = <<>>
    BY <1>1 DEF Held, NobodyIsNone
  <2>4. d # c => Given(d)' = Given(d)
    BY <1>2 DEF Given
  <2>5. d = c => Given(d)' = Given(d) \o data
    <3>1. d = c => Given(d)' = GivenOf(given[c] + 1)
      BY <1>2 DEF Given, GivenOf
    <3> QED
      BY <1>2, <3>1, OnTheWay, OneMore
  <2> QED
    BY <2>2, <2>3, <2>4, <2>5, OnTheWay
<1> HIDE DEF data
<1>5. CASE failed[c]
  <2>1. UNCHANGED <<wire, queue, sending>>
    BY <1>5 DEF SendDirectly
  <2>2. ASSUME NEW d \in Conn, ~failed[d]
        PROVE  wire'[d] \o queue'[d] \o Held(d)' = Given(d)'
    <3>1. d # c
      BY <1>5, <2>2
    <3>2. wire'[d] = Given(d)' /\ queue'[d] = <<>> /\ Held(d)' = <<>>
      BY <1>1, <1>4, <2>1, <2>2, <3>1
    <3>3. wire'[d] \in Seq(Piece)
      BY <2>1 DEF SenderInv
    <3> QED
      BY <3>2, <3>3, ConcatEmptySeq
  <2>3. StreamIntact'
    BY <1>1, <2>2 DEF StreamIntact
  <2> QED
    BY <1>1, <1>2, <2>1, <2>3 DEF SenderInv, FlagFollowsQueue
<1>6. CASE ~failed[c]
  <2>1. PICK n \in 0..2 :
          /\ wire' = [wire EXCEPT ![c] = @ \o SubSeq(data, 1, n)]
          /\ IF n = 2 THEN UNCHANGED <<queue, sending>>
             ELSE Defer(c, SubSeq(data, n + 1, 2))
    BY <1>6 DEF SendDirectly, data
  <2> DEFINE a == SubSeq(data, 1, n)
             b == SubSeq(data, n + 1, 2)
  <2>2. a \in Seq(Piece) /\ b \in Seq(Piece) /\ a \o b = data
    BY <1>3, CutAnywhere
  <2>3. n = 2 => b = <<>>
    BY SubSeqEmpty
  <2>4. /\ wire' = [wire EXCEPT ![c] = @ \o a]
        /\ IF n = 2 THEN UNCHANGED <<queue, sending>>
           ELSE sending' = TRUE /\ queue' = [queue EXCEPT ![c] = @ \o b]
    BY <2>1 DEF Defer
  <2> HIDE DEF a, b
  <2>5. <<>> \o b = b /\ wire[c] \o a \in Seq(Piece)
    BY <2>2, ConcatEmptySeq, OnTheWay, ConcatProperties
  <2>6. /\ wire' \in [Conn -> Seq(Piece)] /\ queue' \in [Conn -> Seq(Piece)]
        /\ wire'[c] = wire[c] \o a /\ queue'[c] = b
        /\ \A d \in Conn \ {c} : wire'[d] = wire[d] /\ queue'[d] = <<>>
        /\ ~sending' => \A d \in Conn : queue'[d] = <<>>
    BY <1>1, <2>2, <2>3, <2>4, <2>5 DEF SenderInv
  <2>7. ASSUME NEW d \in Conn, ~failed[d]
        PROVE  wire'[d] \o queue'[d] \o Held(d)' = Given(d)'
    <3>1. wire'[d] \o queue'[d] = Given(d)'
      <4>1. CASE d = c
        <5>1. (wire[c] \o a) \o b = wire[c] \o (a \o b)
          <6> DEFINE w == wire[c]
          <6>1. w \in Seq(Piece)
            BY OnTheWay
          <6> HIDE DEF w
          <6>2. a \in Seq(Piece) /\ b \in Seq(Piece)
            BY <2>2
          <6>3. (w \o a) \o b = w \o (a \o b)
            BY <6>1, <6>2, Joined
          <6> QED
            BY <6>3 DEF w
        <5> QED
          BY <1>4, <2>2, <2>6, <2>7, <4>1, <5>1
      <4>2. CASE d # c
        <5>1. wire'[d] = Given(d)' /\ queue'[d] = <<>> /\ Given(d) \in Seq(Piece)
          BY <1>4, <2>6, <2>7, <4>2
        <5>2. Given(d)' = Given(d)
          BY <1>4, <2>7, <4>2
        <5> QED
          BY <5>1, <5>2, Joined
      <4> QED
        BY <4>1, <4>2
    <3>2. wire'[d] \o queue'[d] \in Seq(Piece)
      BY <2>6, ConcatProperties
    <3> QED
      BY <1>4, <2>7, <3>1, <3>2, ConcatEmptySeq
  <2>8. StreamIntact'
    BY <1>1, <2>7 DEF StreamIntact
  <2> QED
    BY <1>1, <1>2, <2>6, <2>8 DEF SenderInv, FlagFollowsQueue
<1> QED
  BY <1>5, <1>6

\* The thread writes what it has from the beginning, and resets the flag only when it has
\* nothing of any connection.
LEMMA WriteKeeps ==
  ASSUME NobodyIsNone, SenderInv, NEW c \in Conn, WriteSome(c)
  PROVE  SenderInv'
<1>1. PICK n \in 0..Len(queue[c]) :
        LET rest == SubSeq(queue[c], n + 1, Len(queue[c]))
            q == [queue EXCEPT ![c] = rest]
        IN /\ wire' = [wire EXCEPT ![c] = @ \o SubSeq(queue[c], 1, n)]
           /\ queue' = q
           /\ sending' = IF rest = <<>> /\ NothingLeft(q, c) THEN FALSE ELSE sending
  BY DEF WriteSome
<1> DEFINE a == SubSeq(queue[c], 1, n)
           b == SubSeq(queue[c], n + 1, Len(queue[c]))
<1>2. /\ wire[c] \in Seq(Piece) /\ queue[c] \in Seq(Piece)
      /\ a \in Seq(Piece) /\ b \in Seq(Piece) /\ a \o b = queue[c]
  BY OnTheWay, CutAnywhere
<1>3. /\ wire' = [wire EXCEPT ![c] = @ \o a] /\ queue' = [queue EXCEPT ![c] = b]
      /\ sending' = IF b = <<>> /\ NothingLeft(queue', c) THEN FALSE ELSE sending
  BY <1>1
<1>4. UNCHANGED <<given, checked, failed>>
  BY DEF WriteSome
<1> HIDE DEF a, b
<1>5. wire[c] \o a \in Seq(Piece) /\ (wire[c] \o a) \o b = wire[c] \o queue[c]
  <2>1. (wire[c] \o a) \o b = wire[c] \o (a \o b) /\ wire[c] \o a \in Seq(Piece)
    <3> DEFINE w == wire[c]
    <3>1. w \in Seq(Piece)
      BY <1>2
    <3> HIDE DEF w
    <3>2. a \in Seq(Piece) /\ b \in Seq(Piece)
      BY <1>2
    <3>3. (w \o a) \o b = w \o (a \o b)
      BY <3>1, <3>2, Joined
    <3>4. w \o a \in Seq(Piece)
      BY <3>1, <3>2, Joined
    <3> QED
      BY <3>3, <3>4 DEF w
  <2> QED
    BY <1>2, <2>1
<1>6. /\ wire' \in [Conn -> Seq(Piece)] /\ queue' \in [Conn -> Seq(Piece)]
      /\ \A d \in Conn : wire'[d] \o queue'[d] = wire[d] \o queue[d]
  BY <1>2, <1>3, <1>5 DEF SenderInv
<1>7. StreamIntact'
  BY <1>4, <1>6 DEF SenderInv, StreamIntact, Held, Given
<1>8. FlagFollowsQueue'
  <2>1. CASE sending
    BY <1>3, <2>1 DEF FlagFollowsQueue, NothingLeft
  <2>2. CASE ~sending
    <3>1. queue[c] = <<>>
      BY <2>2 DEF SenderInv, FlagFollowsQueue
    <3> QED
      BY <3>1 DEF WriteSome
  <2> QED
    BY <2>1, <2>2
<1> QED
  BY <1>4, <1>6, <1>7, <1>8 DEF SenderInv

\* The data of a broken connection goes.
LEMMA GiveUpKeeps ==
  ASSUME NobodyIsNone, SenderInv, NEW c \in Conn, GiveUp(c)
  PROVE  SenderInv'
<1>1. /\ failed[c] /\ queue' = [queue EXCEPT ![c] = <<>>]
      /\ UNCHANGED <<given, checked, wire, sending, failed>>
  BY DEF GiveUp
<1>2. /\ queue' \in [Conn -> Seq(Piece)] /\ queue'[c] = <<>>
      /\ \A d \in Conn \ {c} : queue'[d] = queue[d]
  BY <1>1, EmptySeq DEF SenderInv
<1>3. StreamIntact'
  BY <1>1, <1>2 DEF SenderInv, StreamIntact, Held, Given
<1> QED
  BY <1>1, <1>2, <1>3 DEF SenderInv, FlagFollowsQueue

\* A socket begins to give errors.
LEMMA FailKeeps ==
  ASSUME SenderInv, NEW c \in Conn, Fail(c)
  PROVE  SenderInv'
<1>1. UNCHANGED <<given, checked, wire, queue, sending>>
  BY DEF Fail
<1>2. \A d \in Conn : ~failed'[d] => ~failed[d]
  BY DEF Fail
<1>3. StreamIntact'
  BY <1>1, <1>2 DEF SenderInv, StreamIntact, Held, Given
<1> QED
  BY <1>1, <1>3 DEF SenderInv, FlagFollowsQueue

\* Nothing was sent at the start.
LEMMA InitSender == ASSUME NobodyIsNone PROVE SenderInit => SenderInv
<1> SUFFICES ASSUME SenderInit PROVE SenderInv
  OBVIOUS
<1>1. <<>> \in Seq(Piece) /\ <<>> \o <<>> = <<>>
  BY EmptySeq, ConcatEmptySeq
<1>2. ASSUME NEW c \in Conn PROVE wire[c] \o queue[c] \o Held(c) = Given(c)
  <2>1. wire[c] = <<>> /\ queue[c] = <<>> /\ Held(c) = <<>> /\ given[c] = 0
    BY DEF SenderInit, Held, NobodyIsNone
  <2>2. Given(c) = <<>>
    BY <2>1 DEF Given
  <2> QED
    BY <1>1, <2>1, <2>2
<1>3. StreamIntact
  BY <1>2 DEF StreamIntact
<1> QED
  BY <1>1, <1>3 DEF SenderInit, SenderInv, FlagFollowsQueue

\* Every step keeps the invariant.
LEMMA NextSender == ASSUME NobodyIsNone PROVE SenderInv /\ [SenderNext]_senderVars => SenderInv'
<1> SUFFICES ASSUME SenderInv, [SenderNext]_senderVars PROVE SenderInv'
  OBVIOUS
<1>1. CASE UNCHANGED <<given, checked, wire, queue, sending, failed>>
  BY <1>1 DEF SenderInv, FlagFollowsQueue, StreamIntact, Held, Given
<1>2. CASE Look \/ Again \/ UNCHANGED senderVars
  BY <1>1, <1>2 DEF Look, Again, senderVars
<1> QED
  BY <1>2, DeferredKeeps, GiveKeeps, DirectlyKeeps, WriteKeeps, GiveUpKeeps, FailKeeps
  DEF SenderNext

\* What is written to a socket, what the thread has for it and what send() is about to give
\* the thread are, one behind the other, all that send() was given (of_01.Connection.send,
\* DeferredSender.run).
THEOREM StreamCorrect == ASSUME NobodyIsNone PROVE SenderSpec => []StreamIntact
<1>1. SenderInv => StreamIntact
  BY DEF SenderInv
<1> QED
  BY <1>1, InitSender, NextSender, PTL DEF SenderSpec

-----------------------------------------------------------------------------
(* Collecting. *)


\* What is asked for is one of the statistics of the protocol.
RequestsTyped == Request \subseteq [type : Types, there : BOOLEAN]

\* All messages for x came.
Ended(x) == x \in done /\ came[x] = sent[x]
\* What makes the controller forget what it collected.
Cuts(m) == ~m.last /\ m.type \notin Lists

\* A message on the way is one the controller did not get yet.
Fits(m) ==
  /\ m.xid \in Xid /\ m.type = asked[m.xid].type
  /\ came[m.xid] < m.n /\ m.n <= sent[m.xid]
  /\ m.last <=> (m.xid \in done /\ m.n = sent[m.xid])
  /\ m.kind # "reply" => m.last /\ m.n = 1

\* Messages are on the way in the order they were sent, none is missing, and the one that
\* ends a reply says so.
Channel ==
  /\ \A x \in Xid : came[x] <= sent[x] /\ (own /\ sent[x] > 0 => x \in done)
  /\ \A i \in DOMAIN toCtl : Fits(toCtl[i])
  /\ \A i, j \in DOMAIN toCtl :
       i < j /\ toCtl[i].xid = toCtl[j].xid => toCtl[i].n < toCtl[j].n
  /\ \A x \in Xid : \A k \in Nat :
       came[x] < k /\ k <= sent[x]
         => \E i \in DOMAIN toCtl : toCtl[i].xid = x /\ toCtl[i].n = k

\* What is collected is parts of a list whose end is still to come.
Collected ==
  _previous_stats # <<>> =>
    LET p == _previous_stats
        x == p[1].xid
    IN  /\ x \in Xid /\ p[1].type = asked[x].type /\ p[1].type \in Lists
        /\ \A k \in DOMAIN p : p[k].xid = x /\ p[k].n = p[1].n + k - 1 /\ ~p[k].last
        /\ came[x] = p[Len(p)].n
        /\ ~Ended(x)
        /\ x \in undisturbed => p[1].n = 1

\* A reply that began alone: what came before its first part is ended before it.
BegunAlone ==
  \A x \in undisturbed :
    /\ sent[x] > 0
    /\ asked[x].type \notin Lists => x \in done /\ sent[x] = 1
    /\ \A i \in DOMAIN toCtl : toCtl[i].xid = x /\ toCtl[i].n = 1 =>
         \A y \in Xid \ {x} :
           \/ \E j \in 1..(i - 1) : toCtl[j].xid = y
           \/ _previous_stats # <<>> /\ _previous_stats[1].xid = y
           => \E j \in 1..(i - 1) : toCtl[j].xid = y /\ toCtl[j].last

\* What makes the controller forget comes before it or after its end.
NotCut ==
  \A x \in undisturbed : \A j \in DOMAIN toCtl :
    /\ Cuts(toCtl[j])
    /\ came[x] > 0 \/ \E i \in 1..(j - 1) : toCtl[i].xid = x /\ toCtl[i].n = 1
    => /\ x \in done
       /\ \/ came[x] = sent[x]
          \/ \E i \in 1..(j - 1) : toCtl[i].xid = x /\ toCtl[i].last

\* While it comes, it is what the controller collects.
IsCollected ==
  \A x \in undisturbed :
    came[x] > 0 /\ ~Ended(x) => _previous_stats # <<>> /\ _previous_stats[1].xid = x

\* Events are of replies that ended.
RaisedEnded ==
  \A e \in DOMAIN raised :
    raised[e] # <<>> /\ raised[e][1].xid \in Xid /\ Ended(raised[e][1].xid)

\* What is true of the messages on the way, as long as they can come.
Coming == Channel /\ Collected /\ BegunAlone /\ NotCut /\ IsCollected

WholeInv ==
  /\ TypeOK /\ (open => Coming)
  /\ RaisedEnded /\ WholeReplies /\ RepliesRaised

-----------------------------------------------------------------------------
\* Nothing was asked in the initial state.
LEMMA InitReplies == Init => WholeInv
<1>. SUFFICES ASSUME Init PROVE WholeInv
  OBVIOUS
<1>. USE DEF Init
<1>1. Xid = {}
  BY DEF Xid
<1>2. TypeOK
  BY <1>1 DEF TypeOK, Xid
<1>3. Channel /\ Collected /\ BegunAlone /\ NotCut /\ IsCollected
  BY <1>1 DEF Channel, Collected, BegunAlone, NotCut, IsCollected
<1>4. RaisedEnded /\ WholeReplies /\ RepliesRaised
  BY DEF RaisedEnded, WholeReplies, RepliesRaised
<1>. QED
  BY <1>2, <1>3, <1>4 DEF WholeInv, Coming

\* A component asks: the new request is the last, and nothing of it is on the way.
LEMMA AskKeeps == ASSUME WholeInv, Ask PROVE WholeInv'
<1>. USE DEF WholeInv, Coming
<1>o. open /\ Coming
  BY DEF Ask
<1>. DEFINE n == Len(asked) + 1
<1>1. PICK q \in Request : asked' = Append(asked, q)
  BY DEF Ask
<1>2. /\ sent' = Append(sent, 0) /\ came' = Append(came, 0)
      /\ UNCHANGED <<own, done, toCtl, open, _previous_stats, raised, undisturbed>>
  BY DEF Ask
<1>3. /\ asked \in Seq(Request) /\ Len(asked) \in Nat /\ Xid = 1..Len(asked)
      /\ sent \in Seq(Nat) /\ Len(sent) = Len(asked)
      /\ came \in Seq(Nat) /\ Len(came) = Len(asked)
  <2>1. asked \in Seq(Request) /\ Len(asked) \in Nat /\ Xid = 1..Len(asked)
    BY DEF TypeOK, Xid
  <2>2. sent \in [1..Len(asked) -> Nat] /\ came \in [1..Len(asked) -> Nat]
    BY <2>1 DEF TypeOK
  <2>. QED
    BY <2>1, <2>2
<1>4. /\ Xid' = Xid \cup {n} /\ n \notin Xid /\ asked'[n] = q /\ sent'[n] = 0 /\ came'[n] = 0
      /\ \A x \in Xid : asked'[x] = asked[x] /\ sent'[x] = sent[x] /\ came'[x] = came[x]
  BY <1>1, <1>2, <1>3 DEF Xid
<1>f. /\ own' = own /\ done' = done /\ toCtl' = toCtl /\ open' = open
      /\ _previous_stats' = _previous_stats /\ raised' = raised
      /\ undisturbed' = undisturbed
  BY <1>2
<1>5. TypeOK'
  <2>1. asked' \in Seq(Request)
    BY <1>1, <1>3
  <2>2. Xid' = 1..n /\ Len(sent') = n /\ Len(came') = n /\ sent' \in Seq(Nat) /\ came' \in Seq(Nat)
    BY <1>1, <1>2, <1>3 DEF Xid
  <2>3. sent' \in [Xid' -> Nat] /\ came' \in [Xid' -> Nat]
    BY <2>2
  <2>. QED
    BY <1>o, <1>2, <1>4, <2>1, <2>3 DEF TypeOK
<1>6. Channel'
  <2>1. \A x \in Xid' : came'[x] <= sent'[x] /\ (own' /\ sent'[x] > 0 => x \in done')
    BY <1>o, <1>f, <1>4 DEF Channel
  <2>2. \A x \in Xid' : \A k \in Nat :
          came'[x] < k /\ k <= sent'[x]
            => \E i \in DOMAIN toCtl' : toCtl'[i].xid = x /\ toCtl'[i].n = k
    BY <1>o, <1>f, <1>4 DEF Channel
  <2>3. \A i \in DOMAIN toCtl : toCtl[i].xid \in Xid
    BY <1>o DEF Channel, Fits
  <2>. QED
    BY <1>o, <1>f, <1>4, <2>1, <2>2, <2>3 DEF Channel, Fits
<1>7. Collected'
  BY <1>o, <1>f, <1>4 DEF Collected, Ended
<1>8. BegunAlone'
  <2>1. /\ \A i \in DOMAIN toCtl : toCtl[i].xid # n
        /\ _previous_stats # <<>> => _previous_stats[1].xid # n
    BY <1>o, <1>4 DEF Channel, Fits, Collected
  <2>2. undisturbed \subseteq Xid /\ toCtl \in Seq(Part)
    BY DEF TypeOK
  <2>3. \A i \in DOMAIN toCtl : 1..(i - 1) \subseteq DOMAIN toCtl
    BY <2>2
  <2>. QED
    BY <1>o, <1>f, <1>4, <2>1, <2>2, <2>3 DEF BegunAlone
<1>9. NotCut' /\ IsCollected'
  <2>1. undisturbed \subseteq Xid
    BY DEF TypeOK
  <2>2. NotCut'
    BY <1>o, <1>f, <1>4, <2>1 DEF NotCut, Cuts
  <2>3. IsCollected'
    BY <1>o, <1>f, <1>4, <2>1 DEF IsCollected, Ended
  <2>. QED
    BY <2>2, <2>3
<1>10. RaisedEnded'
  BY <1>o, <1>f, <1>4 DEF RaisedEnded, Ended
<1>11. WholeReplies' /\ RepliesRaised'
  <2>1. undisturbed \subseteq Xid
    BY DEF TypeOK
  <2>2. WholeReplies'
    BY <1>f DEF WholeReplies, OneReply
  <2>3. RepliesRaised'
    BY <1>o, <1>f, <1>4, <2>1 DEF RepliesRaised
  <2>. QED
    BY <2>2, <2>3
<1>. QED
  BY <1>5, <1>6, <1>7, <1>8, <1>9, <1>10, <1>11

\* POX's switch cannot answer: it is done with a request that has no message.
LEMMA SilenceKeeps ==
  ASSUME WholeInv, open, own, NEW x \in Xid, x \notin done, done' = done \cup {x},
         UNCHANGED <<own, asked, sent, toCtl, open, _previous_stats, raised, came, undisturbed>>
  PROVE  WholeInv'
<1>. USE DEF WholeInv, Coming
<1>1. sent[x] = 0 /\ came[x] = 0
  BY DEF Channel, TypeOK
<1>2. x \notin undisturbed
  BY <1>1 DEF BegunAlone
<1>3. \A i \in DOMAIN toCtl : toCtl[i].xid # x
  <2>1. \A i \in DOMAIN toCtl : toCtl[i] \in Part /\ Fits(toCtl[i])
    BY DEF Channel, TypeOK
  <2>. QED
    BY <1>1, <2>1 DEF Fits, Part
<1>4. _previous_stats # <<>> => _previous_stats[1].xid # x
  <2>. SUFFICES ASSUME _previous_stats # <<>>, _previous_stats[1].xid = x PROVE FALSE
    OBVIOUS
  <2>1. Len(_previous_stats) \in Nat \ {0} /\ _previous_stats \in Seq(Part)
    BY DEF TypeOK
  <2>2. _previous_stats[Len(_previous_stats)] \in Part
    BY <2>1
  <2>. QED
    BY <1>1, <2>2 DEF Collected, Part
<1>f. /\ own' = own /\ asked' = asked /\ sent' = sent /\ toCtl' = toCtl /\ open' = open
      /\ _previous_stats' = _previous_stats /\ raised' = raised /\ came' = came
      /\ undisturbed' = undisturbed /\ Xid' = Xid
  BY DEF Xid
<1>5. TypeOK'
  BY <1>f DEF TypeOK
<1>6. Channel'
  BY <1>f, <1>3 DEF Channel, Fits
<1>7. Collected'
  BY <1>f, <1>4 DEF Collected, Ended
<1>8. BegunAlone'
  BY <1>f, <1>2 DEF BegunAlone
<1>9. NotCut' /\ IsCollected'
  BY <1>f, <1>2 DEF NotCut, IsCollected, Cuts, Ended
<1>10. RaisedEnded'
  BY <1>f DEF RaisedEnded, Ended
<1>11. WholeReplies' /\ RepliesRaised'
  BY <1>f, <1>2 DEF WholeReplies, OneReply, RepliesRaised
<1>. QED
  BY <1>5, <1>6, <1>7, <1>8, <1>9, <1>10, <1>11

\* The switch sends a message for x.
LEMMA SendsKeep ==
  ASSUME RequestsTyped, WholeInv, open, NEW x \in Xid, x \notin done,
         NEW kind \in {"reply", "error", "unreadable"}, NEW last \in BOOLEAN,
         kind # "reply" => last /\ sent[x] = 0, own => last, Sends(x, kind, last),
         UNCHANGED <<own, asked, open, _previous_stats, raised, came>>
  PROVE  WholeInv'
<1>. USE DEF WholeInv, Coming
<1>. DEFINE m == Message(x, kind, last)
            L == Len(toCtl)
            cuts == ~last /\ asked[x].type \notin Lists
<1>s. /\ toCtl \in Seq(Part) /\ L \in Nat /\ DOMAIN toCtl = 1..L
      /\ sent \in [Xid -> Nat] /\ came \in [Xid -> Nat] /\ asked \in Seq(Request)
  BY DEF TypeOK
<1>t. /\ L \in Nat /\ DOMAIN toCtl = 1..L /\ \A i \in 1..L : toCtl[i] \in Part
      /\ \A y \in Xid : sent[y] \in Nat /\ came[y] \in Nat
      /\ undisturbed \subseteq Xid /\ done \subseteq Xid
  BY <1>s DEF TypeOK
<1>m. /\ m.xid = x /\ m.type = asked[x].type /\ m.kind = kind /\ m.n = sent[x] + 1
      /\ m.last = last /\ m \in Part
  <2>1. asked[x].type \in Types /\ x \in Nat \ {0}
    BY <1>s DEF Xid, RequestsTyped
  <2>. QED
    BY <1>t, <2>1 DEF Message, Part
<1>u. /\ toCtl' \in Seq(Part) /\ toCtl' = Append(toCtl, m)
      /\ sent' \in [Xid -> Nat] /\ sent' = [sent EXCEPT ![x] = @ + 1]
  BY <1>s, <1>m DEF Sends
<1>1. /\ DOMAIN toCtl' = 1..(L + 1)
      /\ toCtl'[L + 1] = m /\ \A i \in 1..L : toCtl'[i] = toCtl[i]
  BY <1>s, <1>u
<1>2. /\ sent'[x] = sent[x] + 1
      /\ \A y \in Xid : y # x => sent'[y] = sent[y]
  BY <1>s, <1>u
<1>3. /\ \A y \in Xid : y # x => (y \in done' <=> y \in done)
      /\ x \in done' <=> last
      /\ done \subseteq done'
  BY <1>t DEF Sends
<1>4. /\ \A y \in undisturbed' : y \in undisturbed \/ (y = x /\ sent[x] = 0 /\ UnderWay(x) = {})
      /\ cuts => x \notin undisturbed' /\ \A y \in undisturbed' : y \notin UnderWay(x)
      /\ sent[x] = 0 /\ UnderWay(x) = {} /\ ~cuts => x \in undisturbed'
      /\ undisturbed' \subseteq Xid
  BY <1>t DEF Sends, UnderWay
<1>f. /\ own' = own /\ asked' = asked /\ open' = open /\ _previous_stats' = _previous_stats
      /\ raised' = raised /\ came' = came /\ Xid' = Xid
  BY DEF Xid
<1>5. /\ \A y \in Xid : came[y] <= sent[y]
      /\ \A i \in 1..L : toCtl[i].xid = x => toCtl[i].n <= sent[x] /\ ~toCtl[i].last
  BY <1>t DEF Channel, Fits
<1>6. TypeOK'
  <2>1. done' \subseteq Xid
    BY <1>t DEF Sends
  <2>. QED
    BY <1>f, <1>u, <1>4, <2>1 DEF TypeOK
<1>7. Channel'
  <2>1. \A y \in Xid' : came'[y] <= sent'[y] /\ (own' /\ sent'[y] > 0 => y \in done')
    BY <1>f, <1>t, <1>2, <1>3 DEF Channel
  <2>2. ASSUME NEW i \in DOMAIN toCtl'
        PROVE  Fits(toCtl[i])'
    <3>1. CASE i = L + 1
      BY <3>1, <1>f, <1>t, <1>m, <1>1, <1>2, <1>3, <1>5 DEF Fits
    <3>2. CASE i \in 1..L /\ toCtl[i].xid = x
      <4>1. toCtl'[i] = toCtl[i] /\ toCtl[i] \in Part
        BY <3>2, <1>1, <1>t
      <4>. QED
        BY <3>2, <4>1, <1>f, <1>t, <1>2, <1>3, <1>5 DEF Channel, Fits, Part
    <3>3. CASE i \in 1..L /\ toCtl[i].xid # x
      <4>1. toCtl'[i] = toCtl[i]
        BY <3>3, <1>1
      <4>. QED
        BY <3>3, <4>1, <1>f, <1>t, <1>2, <1>3 DEF Channel, Fits
    <3>. QED
      BY <3>1, <3>2, <3>3, <1>1, <1>t
  <2>3. ASSUME NEW i \in DOMAIN toCtl', NEW j \in DOMAIN toCtl', i < j,
               toCtl'[i].xid = toCtl'[j].xid
        PROVE  toCtl'[i].n < toCtl'[j].n
    <3>1. CASE j = L + 1
      <4>1. i \in 1..L /\ toCtl'[i] = toCtl[i] /\ toCtl[i] \in Part
        BY <2>3, <3>1, <1>1, <1>t
      <4>. QED
        BY <2>3, <3>1, <4>1, <1>m, <1>1, <1>5, <1>t DEF Part
    <3>2. CASE j # L + 1
      BY <2>3, <3>2, <1>1, <1>t DEF Channel, Fits
    <3>. QED
      BY <3>1, <3>2
  <2>4. ASSUME NEW y \in Xid, NEW k \in Nat, came[y] < k, k <= sent'[y]
        PROVE  \E i \in DOMAIN toCtl' : toCtl'[i].xid = y /\ toCtl'[i].n = k
    <3>1. CASE y = x /\ k = sent[x] + 1
      BY <3>1, <1>m, <1>1, <1>t
    <3>2. CASE k <= sent[y]
      <4>1. PICK i \in 1..L : toCtl[i].xid = y /\ toCtl[i].n = k
        BY <2>4, <3>2, <1>t DEF Channel, Fits
      <4>. QED
        BY <4>1, <1>1, <1>t
    <3>. QED
      BY <2>4, <3>1, <3>2, <1>2, <1>t
  <2>. QED
    BY <1>f, <2>1, <2>2, <2>3, <2>4 DEF Channel
<1>8. Collected'
  <2>. SUFFICES ASSUME _previous_stats # <<>> PROVE Collected'
    BY <1>f DEF Collected
  <2>. DEFINE p == _previous_stats
              y == p[1].xid
  <2>1. /\ y \in Xid /\ p[1].type = asked[y].type /\ p[1].type \in Lists
        /\ \A k \in DOMAIN p : p[k].xid = y /\ p[k].n = p[1].n + k - 1 /\ ~p[k].last
        /\ came[y] = p[Len(p)].n /\ ~Ended(y) /\ (y \in undisturbed => p[1].n = 1)
    BY DEF Collected
  <2>2. came[y] > 0
    <3>1. Len(p) \in DOMAIN p /\ p \in Seq(Part)
      BY DEF TypeOK
    <3>2. p[Len(p)] \in Part
      BY <3>1
    <3>. QED
      BY <2>1, <3>2 DEF Part
  <2>3. ~Ended(y)'
    BY <2>1, <1>f, <1>t, <1>2, <1>3, <1>5 DEF Ended
  <2>4. y \in undisturbed' => p[1].n = 1
    BY <2>1, <2>2, <1>4, <1>5, <1>t
  <2>. QED
    BY <2>1, <2>3, <2>4, <1>f DEF Collected, Ended
<1>e. ASSUME NEW y \in Xid, y # x, sent[y] > 0, y \notin UnderWay(x)
      PROVE  y \in done /\ (came[y] = sent[y]
                            \/ \E k \in 1..L : toCtl[k].xid = y /\ toCtl[k].last)
  <2>1. y \in done
    BY <1>e DEF UnderWay
  <2>2. CASE came[y] # sent[y]
    <3>0. came[y] < sent[y] /\ sent[y] \in Nat
      BY <2>2, <1>5, <1>t
    <3>1. PICK k \in 1..L : toCtl[k].xid = y /\ toCtl[k].n = sent[y]
      BY <3>0, <1>t DEF Channel
    <3>. QED
      BY <2>1, <3>1, <1>t DEF Channel, Fits
  <2>. QED
    BY <2>1, <2>2
<1>9. BegunAlone'
  <2>. SUFFICES ASSUME NEW z \in undisturbed'
                PROVE  /\ sent'[z] > 0
                       /\ asked[z].type \notin Lists => z \in done' /\ sent'[z] = 1
                       /\ \A i \in DOMAIN toCtl' : toCtl'[i].xid = z /\ toCtl'[i].n = 1 =>
                            \A y \in Xid \ {z} :
                              \/ \E j \in 1..(i - 1) : toCtl'[j].xid = y
                              \/ _previous_stats # <<>> /\ _previous_stats[1].xid = y
                              => \E j \in 1..(i - 1) : toCtl'[j].xid = y /\ toCtl'[j].last
    BY <1>f DEF BegunAlone
  <2>1. sent'[z] > 0
    BY <1>2, <1>4, <1>t DEF BegunAlone
  <2>2. asked[z].type \notin Lists => z \in done' /\ sent'[z] = 1
    BY <1>2, <1>3, <1>4, <1>t DEF BegunAlone
  <2>3. ASSUME NEW i \in DOMAIN toCtl', toCtl'[i].xid = z, toCtl'[i].n = 1,
               NEW y \in Xid \ {z},
               \/ \E j \in 1..(i - 1) : toCtl'[j].xid = y
               \/ _previous_stats # <<>> /\ _previous_stats[1].xid = y
        PROVE  \E j \in 1..(i - 1) : toCtl'[j].xid = y /\ toCtl'[j].last
    <3>1. CASE i = L + 1
      <4>1. z = x /\ sent[x] = 0
        BY <2>3, <3>1, <1>m, <1>1, <1>t
      <4>2. UnderWay(x) = {}
        BY <4>1, <1>4 DEF BegunAlone
      <4>3. \/ sent[y] > 0 /\ came[y] # sent[y]
            \/ \E k \in 1..L : toCtl[k].xid = y /\ toCtl[k].last
        <5>1. CASE \E j \in 1..L : toCtl'[j].xid = y
          <6>1. PICK j \in 1..L : toCtl[j].xid = y
            BY <5>1, <1>1
          <6>2. toCtl[j] \in Part /\ came[y] < toCtl[j].n /\ toCtl[j].n <= sent[y]
            BY <6>1, <1>t DEF Channel, Fits
          <6>. QED
            BY <6>2, <1>t DEF Part
        <5>2. CASE _previous_stats # <<>> /\ _previous_stats[1].xid = y
          <6>1. Len(_previous_stats) \in Nat \ {0} /\ _previous_stats \in Seq(Part)
            BY <5>2 DEF TypeOK
          <6>2. _previous_stats[Len(_previous_stats)] \in Part
            BY <6>1
          <6>3. sent[y] > 0
            BY <5>2, <6>2, <1>5, <1>t DEF Collected, Part
          <6>. QED
            BY <4>1, <4>2, <5>2, <6>3, <1>t DEF Collected, Ended, UnderWay
        <5>. QED
          BY <2>3, <3>1, <5>1, <5>2, <1>t
      <4>4. \E k \in 1..L : toCtl[k].xid = y /\ toCtl[k].last
        BY <4>1, <4>2, <4>3, <1>e
      <4>. QED
        BY <3>1, <4>4, <1>1, <1>t
    <3>2. CASE i \in 1..L
      <4>1. toCtl'[i] = toCtl[i] /\ \A j \in 1..(i - 1) : j \in 1..L /\ toCtl'[j] = toCtl[j]
        BY <3>2, <1>1, <1>t
      <4>2. z \in undisturbed
        BY <2>3, <3>2, <4>1, <1>4, <1>5, <1>t
      <4>. QED
        BY <2>3, <3>2, <4>1, <4>2, <1>t DEF BegunAlone
    <3>. QED
      BY <3>1, <3>2, <1>1, <1>t
  <2>. QED
    BY <2>1, <2>2, <2>3
<1>10. NotCut'
  <2>. SUFFICES ASSUME NEW z \in undisturbed', NEW j \in DOMAIN toCtl', Cuts(toCtl'[j]),
                       came[z] > 0 \/ \E i \in 1..(j - 1) : toCtl'[i].xid = z /\ toCtl'[i].n = 1
                PROVE  z \in done' /\ (came[z] = sent'[z]
                          \/ \E i \in 1..(j - 1) : toCtl'[i].xid = z /\ toCtl'[i].last)
    BY <1>f DEF NotCut
  <2>1. CASE j = L + 1
    <3>1. cuts
      BY <2>1, <1>1, <1>m DEF Cuts
    <3>2. z # x /\ z \notin UnderWay(x) /\ z \in undisturbed /\ z \in Xid /\ sent[z] > 0
      BY <3>1, <1>4 DEF BegunAlone
    <3>3. z \in done /\ (came[z] = sent[z] \/ \E k \in 1..L : toCtl[k].xid = z /\ toCtl[k].last)
      BY <3>2, <1>e
    <3>. QED
      BY <2>1, <3>2, <3>3, <1>1, <1>2, <1>3, <1>t
  <2>2. CASE j \in 1..L
    <3>1. toCtl'[j] = toCtl[j] /\ \A i \in 1..(j - 1) : i \in 1..L /\ toCtl'[i] = toCtl[i]
      BY <2>2, <1>1, <1>t
    <3>2. z \in undisturbed
      <4>1. CASE z = x /\ sent[x] = 0
        BY <2>2, <3>1, <4>1, <1>5, <1>t
      <4>. QED
        BY <4>1, <1>4
    <3>3. z \in done /\ (came[z] = sent[z] \/ \E i \in 1..(j - 1) : toCtl[i].xid = z /\ toCtl[i].last)
      BY <2>2, <3>1, <3>2, <1>t DEF NotCut
    <3>. QED
      BY <3>1, <3>3, <1>2, <1>3, <1>t
  <2>. QED
    BY <2>1, <2>2, <1>1, <1>t
<1>11. IsCollected'
  BY <1>f, <1>t, <1>2, <1>3, <1>4, <1>5 DEF IsCollected, Ended
<1>12. RaisedEnded'
  BY <1>f, <1>t, <1>2, <1>3 DEF RaisedEnded, Ended
<1>13. WholeReplies'
  BY <1>f, <1>t, <1>4 DEF WholeReplies, OneReply, RaisedEnded, Ended
<1>14. RepliesRaised'
  BY <1>f, <1>t, <1>2, <1>3, <1>4, <1>5 DEF RepliesRaised
<1>. QED
  BY <1>6, <1>7, <1>8, <1>9, <1>10, <1>11, <1>12, <1>13, <1>14

\* The controller reads a message.
LEMMA ReadKeeps == ASSUME WholeInv, Read PROVE WholeInv'
<1>. USE DEF WholeInv, Coming
<1>0. PICK m, x : m = toCtl[1] /\ x = m.xid
  OBVIOUS
<1>. USE <1>0
<1>. DEFINE L == Len(toCtl)
            p == _previous_stats
<1>s. /\ toCtl \in Seq(Part) /\ L \in Nat /\ DOMAIN toCtl = 1..L /\ toCtl # <<>>
      /\ came \in [Xid -> Nat] /\ p \in Seq(Part) /\ Len(p) \in Nat /\ raised \in Seq(Seq(Part))
  BY DEF TypeOK, Read
<1>o. open /\ Coming
  BY DEF Read
<1>t. /\ L \in Nat \ {0} /\ DOMAIN toCtl = 1..L /\ \A i \in 1..L : toCtl[i] \in Part /\ Fits(toCtl[i])
      /\ \A y \in Xid : sent[y] \in Nat /\ came[y] \in Nat /\ came[y] <= sent[y]
      /\ undisturbed \subseteq Xid /\ done \subseteq Xid
  <2>1. L # 0 /\ \A i \in 1..L : toCtl[i] \in Part
    BY <1>s
  <2>2. \A i \in 1..L : Fits(toCtl[i])
    BY <1>o, <1>s DEF Channel
  <2>3. \A y \in Xid : sent[y] \in Nat /\ came[y] \in Nat /\ came[y] <= sent[y]
    BY <1>o DEF TypeOK, Channel
  <2>. QED
    BY <1>s, <2>1, <2>2, <2>3 DEF TypeOK
<1>1. /\ DOMAIN toCtl' = 1..(L - 1) /\ toCtl' \in Seq(Part)
      /\ \A i \in 1..(L - 1) : toCtl'[i] = toCtl[i + 1]
  BY <1>s DEF Read
<1>m. /\ x \in Xid /\ m \in Part /\ m.type = asked[x].type /\ came[x] < m.n /\ m.n <= sent[x]
      /\ m.last <=> (x \in done /\ m.n = sent[x])
      /\ m.kind # "reply" => m.last /\ m.n = 1
      /\ m.n \in Nat \ {0}
  BY <1>t DEF Fits, Part
<1>f. /\ own' = own /\ asked' = asked /\ sent' = sent /\ done' = done
      /\ undisturbed' = undisturbed /\ Xid' = Xid /\ open
  BY DEF Read, Xid
<1>h. toCtl # <<>> /\ Head(toCtl) = m
  BY <1>s
\* It is the next of its reply: those before it have come.
<1>n. m.n = came[x] + 1
  <2>0. \A k \in Nat : came[x] < k /\ k <= sent[x]
          => \E i \in DOMAIN toCtl : toCtl[i].xid = x /\ toCtl[i].n = k
    BY <1>f, <1>m DEF Channel
  <2>k. /\ came[x] + 1 \in Nat /\ came[x] < came[x] + 1 /\ came[x] + 1 <= sent[x]
        /\ DOMAIN toCtl = 1..L
    BY <1>m, <1>t
  <2>1. PICK i \in 1..L : toCtl[i].xid = x /\ toCtl[i].n = came[x] + 1
    BY <2>0, <2>k
  <2>2. i = 1 \/ toCtl[1].n < toCtl[i].n
    <3>1. 1 \in DOMAIN toCtl /\ (i = 1 \/ 1 < i)
      BY <1>t
    <3>. QED
      BY <2>1, <3>1, <1>o, <1>t DEF Channel
  <2>. QED
    BY <2>1, <2>2, <1>m, <1>t
<1>c. CASE m.kind = "unreadable"
  <2>1. /\ open' = FALSE /\ p' = p /\ raised' = raised /\ came' = came
    BY <1>c, <1>h DEF Read
  <2>2. TypeOK'
    BY <1>f, <1>1, <2>1 DEF TypeOK
  <2>. QED
    BY <1>f, <2>1, <2>2 DEF RaisedEnded, Ended, WholeReplies, OneReply, RepliesRaised
<1>d. CASE m.kind # "unreadable"
  <2>o. open' = open /\ came' = [came EXCEPT ![x] = m.n]
    BY <1>d, <1>h DEF Read
  <2>g. /\ came' \in [Xid -> Nat] /\ came'[x] = m.n
        /\ \A y \in Xid : y # x => came'[y] = came[y]
    BY <2>o, <1>s, <1>m
  <2>l. \A i \in 2..L : toCtl[i].xid = x => m.n < toCtl[i].n /\ ~m.last
    <3>1. ASSUME NEW i \in 2..L, toCtl[i].xid = x PROVE m.n < toCtl[i].n /\ toCtl[i].n <= sent[x]
      <4>1. 1 \in DOMAIN toCtl /\ i \in DOMAIN toCtl /\ 1 < i
        BY <1>t
      <4>2. m.n < toCtl[i].n
        BY <3>1, <4>1, <1>o DEF Channel
      <4>. QED
        BY <3>1, <4>1, <4>2, <1>t DEF Fits
    <3>. QED
      BY <3>1, <1>m, <1>t DEF Part
  \* When its reply began alone, the controller collects that reply or none.
  <2>p. ASSUME p # <<>>
        PROVE  /\ Len(p) \in DOMAIN p /\ Len(p) > 0 /\ p[1] \in Part /\ p[Len(p)].n > 0
               /\ p[1].xid \in Xid /\ p[1].type = asked[p[1].xid].type /\ p[1].type \in Lists
               /\ \A k \in DOMAIN p : p[k].xid = p[1].xid /\ p[k].n = p[1].n + k - 1 /\ ~p[k].last
               /\ came[p[1].xid] = p[Len(p)].n /\ came[p[1].xid] > 0 /\ ~Ended(p[1].xid)
               /\ p[1].xid \in undisturbed => p[1].n = 1
    <3>1. Len(p) \in DOMAIN p /\ 1 \in DOMAIN p /\ Len(p) > 0
      BY <2>p, <1>s
    <3>2. p[1] \in Part /\ p[Len(p)] \in Part
      BY <3>1, <1>s
    <3>3. /\ p[1].xid \in Xid /\ p[1].type = asked[p[1].xid].type /\ p[1].type \in Lists
          /\ \A k \in DOMAIN p : /\ p[k].xid = p[1].xid
                                 /\ p[k].n = p[1].n + k - 1 /\ ~p[k].last
          /\ came[p[1].xid] = p[Len(p)].n /\ ~Ended(p[1].xid)
          /\ p[1].xid \in undisturbed => p[1].n = 1
      BY <2>p, <1>o DEF Collected
    <3>4. p[Len(p)].n > 0
      BY <3>2 DEF Part
    <3>. QED
      BY <3>1, <3>2, <3>3, <3>4
  <2>z. x \in undisturbed =>
          /\ came[x] = 0 => p = <<>>
          /\ came[x] > 0 => p # <<>> /\ p[1].xid = x
          /\ m.type \notin Lists => m.last /\ m.n = 1
    <3>. SUFFICES ASSUME x \in undisturbed
                  PROVE  /\ came[x] = 0 => p = <<>>
                         /\ came[x] > 0 => p # <<>> /\ p[1].xid = x
                         /\ m.type \notin Lists => m.last /\ m.n = 1
      OBVIOUS
    <3>1. ASSUME came[x] = 0, p # <<>> PROVE FALSE
      <4>1. p[1].xid \in Xid \ {x}
        BY <3>1, <2>p
      <4>2. \E j \in 1..(1 - 1) : toCtl[j].xid = p[1].xid /\ toCtl[j].last
        BY <3>1, <4>1, <1>o, <1>n, <1>t DEF BegunAlone
      <4>. QED
        BY <4>2
    <3>2. came[x] > 0 => p # <<>> /\ p[1].xid = x
      BY <1>o, <1>m, <1>n, <1>t DEF IsCollected, Ended
    <3>3. m.type \notin Lists => x \in done /\ sent[x] = 1
      BY <1>o, <1>m DEF BegunAlone
    <3>4. m.type \notin Lists => m.last /\ m.n = 1
      BY <3>3, <1>m, <1>t
    <3>. QED
      BY <3>1, <3>2, <3>4
  \* What it does with the message: it keeps what it has, forgets it, or adds to it.
  <2>. DEFINE Kept == p' = p /\ (IF p = <<>> THEN m.last ELSE p[1].xid # x)
              New(v) == /\ raised' = Append(raised, v) /\ v \in Seq(Part)
                        /\ OneReply(v) /\ v[Len(v)].last /\ v[1].xid = x
                        /\ x \in undisturbed => v[1].n = 1
  <2>h. /\ \/ Kept
           \/ p' = <<>> /\ Cuts(m)
           \/ p' = <<>> /\ (p # <<>> => p[1].xid = x) /\ m.last
           \/ /\ p' = Append(p, m) /\ (p # <<>> => p[1].xid = x)
              /\ ~m.last /\ m.type \in Lists
        /\ raised' = raised \/ (m.last /\ \E v : New(v))
        /\ m.last /\ x \in undisturbed /\ m.type # "vendor" => \E v : New(v)
    <3>n. ASSUME m.last, p # <<>> => p[1].xid = x, raised' = Append(raised, Append(p, m))
          PROVE  New(Append(p, m))
      <4>. DEFINE v == Append(p, m)
      <4>1. /\ v \in Seq(Part) /\ Len(v) = Len(p) + 1 /\ DOMAIN v = 1..(Len(p) + 1)
            /\ v[Len(p) + 1] = m /\ \A k \in 1..Len(p) : v[k] = p[k]
        BY <1>s, <1>m
      <4>2. CASE p = <<>>
        <5>1. Len(v) = 1 /\ DOMAIN v = {1} /\ v[1] = m
          BY <4>1, <4>2
        <5>2. x \in undisturbed => m.n = 1
          BY <4>2, <2>z, <1>n, <1>t, <1>m
        <5>. QED
          BY <3>n, <4>1, <5>1, <5>2, <1>m DEF OneReply
      <4>3. CASE p # <<>>
        <5>1. v[1] = p[1] /\ v # <<>>
          BY <4>1, <4>3, <2>p, <1>s
        <5>2. ASSUME NEW k \in DOMAIN v
              PROVE  v[k].xid = x /\ v[k].n = v[1].n + k - 1 /\ (v[k].last => k = Len(v))
          <6>1. CASE k = Len(p) + 1
            <7>1. p[Len(p)].n = p[1].n + Len(p) - 1 /\ m.n = p[Len(p)].n + 1
              BY <3>n, <4>3, <2>p, <1>n
            <7>2. p[1].n \in Nat /\ Len(p) \in Nat
              BY <4>3, <2>p, <1>s DEF Part
            <7>. QED
              BY <6>1, <7>1, <7>2, <4>1, <5>1
          <6>2. CASE k \in 1..Len(p)
            BY <6>2, <3>n, <4>1, <4>3, <5>1, <2>p, <1>s
          <6>. QED
            BY <6>1, <6>2, <4>1, <1>s
        <5>3. x \in undisturbed => v[1].n = 1
          BY <3>n, <4>3, <5>1, <2>p
        <5>4. v[Len(v)].last /\ v[1].xid = x
          BY <3>n, <4>1, <4>3, <5>1
        <5>5. OneReply(v)
          BY <5>1, <5>2, <5>4 DEF OneReply
        <5>. QED
          BY <3>n, <4>1, <5>3, <5>4, <5>5
      <4>. QED
        BY <4>2, <4>3
    <3>e. CASE m.kind = "error"
      <4>1. p' = p /\ raised' = Append(raised, <<m>>)
        BY <3>e, <1>h DEF Read
      <4>2. p # <<>> => p[1].xid # x
        BY <3>e, <2>p, <1>m, <1>n, <1>t
      <4>3. New(<<m>>)
        BY <3>e, <4>1, <1>m DEF OneReply
      <4>. QED
        BY <3>e, <4>1, <4>2, <4>3, <1>m
    <3>r. CASE m.kind # "error"
      <4>1. _incoming_stats_reply(m)
        BY <1>d, <3>r, <1>h DEF Read
      <4>2. CASE Forget(m)
        BY <4>2, <1>m DEF Forget, Cuts
      <4>3. CASE Refuse(m)
        <5>1. p # <<>> /\ p[1].xid # x /\ p' = p /\ raised' = raised
          BY <4>3, <2>p, <1>m DEF Refuse, Continues
        <5>2. x \notin undisturbed
          BY <5>1, <2>z, <1>m, <1>n, <1>t
        <5>. QED
          BY <5>1, <5>2
      <4>4. CASE Collect(m)
        <5>1. p # <<>> => p[1].xid = x
          BY <4>4 DEF Collect, Continues
        <5>2. CASE m.last
          <6>1. p' = <<>> /\ raised' = IF m.type \in Handled THEN Append(raised, Append(p, m)) ELSE raised
            BY <4>4, <5>2 DEF Collect
          <6>2. m.type # "vendor" => m.type \in Handled
            BY <1>m DEF Part, Types
          <6>. QED
            BY <5>1, <5>2, <6>1, <6>2, <3>n
        <5>3. CASE ~m.last
          BY <4>4, <5>1, <5>3 DEF Collect
        <5>. QED
          BY <5>2, <5>3
      <4>. QED
        BY <4>1, <4>2, <4>3, <4>4 DEF _incoming_stats_reply
    <3>. QED
      BY <3>e, <3>r
  <2>q. Len(Append(p, m)) = Len(p) + 1 /\ Append(p, m) \in Seq(Part)
        /\ (p = <<>> => Append(p, m)[1] = m) /\ (p # <<>> => Append(p, m)[1] = p[1])
    BY <1>s, <1>m
  <2>w. \/ /\ DOMAIN raised' = DOMAIN raised /\ raised' = raised
        \/ /\ m.last /\ \E v : New(v) /\ DOMAIN raised' = 1..(Len(raised) + 1)
                              /\ raised'[Len(raised) + 1] = v
           /\ DOMAIN raised = 1..Len(raised) /\ Len(raised) \in Nat
           /\ \A e \in 1..Len(raised) : raised'[e] = raised[e]
    <3>1. ASSUME m.last, NEW v, New(v)
          PROVE  /\ DOMAIN raised' = 1..(Len(raised) + 1) /\ raised'[Len(raised) + 1] = v
                 /\ DOMAIN raised = 1..Len(raised) /\ Len(raised) \in Nat
                 /\ \A e \in 1..Len(raised) : raised'[e] = raised[e]
      <4>1. raised' = Append(raised, v) /\ v \in Seq(Part)
        BY <3>1
      <4>. QED
        BY <4>1, <1>s
    <3>. QED
      BY <3>1, <2>h
  <2>1. TypeOK'
    <3>1. p' \in Seq(Part)
      <4>1. p' = p \/ p' = <<>> \/ p' = Append(p, m)
        BY <2>h
      <4>2. <<>> \in Seq(Part) /\ p \in Seq(Part) /\ Append(p, m) \in Seq(Part)
        BY <2>q, <1>s
      <4>. QED
        BY <4>1, <4>2
    <3>2. raised' \in Seq(Seq(Part))
      <4>1. ASSUME NEW v, New(v) PROVE raised' \in Seq(Seq(Part))
        <5>1. raised' = Append(raised, v) /\ v \in Seq(Part)
          BY <4>1
        <5>. QED
          BY <5>1, <1>s
      <4>. QED
        BY <4>1, <2>h, <1>s
    <3>. QED
      BY <3>1, <3>2, <1>f, <1>1, <2>o, <2>g DEF TypeOK
  <2>2. Channel'
    <3>1. ASSUME NEW i \in DOMAIN toCtl' PROVE Fits(toCtl[i])'
      <4>1. i + 1 \in 2..L /\ toCtl'[i] = toCtl[i + 1] /\ Fits(toCtl[i + 1])
        BY <1>1, <1>t
      <4>. QED
        BY <4>1, <1>f, <2>g, <2>l, <1>t DEF Fits
    <3>2. ASSUME NEW i \in DOMAIN toCtl', NEW j \in DOMAIN toCtl', i < j,
                 toCtl'[i].xid = toCtl'[j].xid
          PROVE  toCtl'[i].n < toCtl'[j].n
      <4>1. i + 1 \in DOMAIN toCtl /\ j + 1 \in DOMAIN toCtl /\ i + 1 < j + 1
        BY <3>2, <1>1, <1>t
      <4>2. toCtl'[i] = toCtl[i + 1] /\ toCtl'[j] = toCtl[j + 1]
        BY <1>1
      <4>. QED
        BY <3>2, <4>1, <4>2, <1>o DEF Channel
    <3>3. ASSUME NEW y \in Xid, NEW k \in Nat, came'[y] < k, k <= sent[y]
          PROVE  \E i \in DOMAIN toCtl' : toCtl'[i].xid = y /\ toCtl'[i].n = k
      <4>1. came[y] < k
        BY <3>3, <2>g, <1>m, <1>n, <1>t
      <4>2. PICK i \in 1..L : toCtl[i].xid = y /\ toCtl[i].n = k
        BY <3>3, <4>1, <1>o, <1>t DEF Channel
      <4>3. i # 1
        BY <3>3, <4>2, <2>g, <1>m
      <4>4. i - 1 \in 1..(L - 1) /\ (i - 1) + 1 = i
        BY <4>3, <1>t
      <4>. QED
        BY <4>2, <4>4, <1>1
    <3>4. \A y \in Xid : came'[y] <= sent[y] /\ (own /\ sent[y] > 0 => y \in done)
      BY <2>g, <1>m, <1>o, <1>t DEF Channel
    <3>. QED
      BY <3>1, <3>2, <3>3, <3>4, <1>f DEF Channel
  <2>3. Collected'
    <3>1. CASE Kept
      BY <3>1, <2>p, <2>g, <1>f DEF Collected, Ended
    <3>2. CASE p' = <<>>
      BY <3>2 DEF Collected
    <3>3. CASE /\ p' = Append(p, m) /\ (p # <<>> => p[1].xid = x)
               /\ ~m.last /\ m.type \in Lists
      <4>. DEFINE v == Append(p, m)
      <4>1. /\ Len(v) = Len(p) + 1 /\ DOMAIN v = 1..(Len(p) + 1)
            /\ v[Len(p) + 1] = m /\ \A k \in 1..Len(p) : v[k] = p[k]
        BY <1>s, <1>m
      <4>2. ~Ended(x)' /\ came'[x] = v[Len(v)].n
        BY <3>3, <4>1, <1>f, <1>m, <2>g DEF Ended
      <4>3. CASE p = <<>>
        <5>1. Len(v) = 1 /\ DOMAIN v = {1} /\ v[1] = m
          BY <4>1, <4>3
        <5>2. x \in undisturbed => m.n = 1
          BY <4>3, <2>z, <1>n, <1>t, <1>m
        <5>. QED
          BY <3>3, <4>2, <5>1, <5>2, <1>f, <1>m DEF Collected
      <4>4. CASE p # <<>>
        <5>1. v[1] = p[1] /\ v # <<>>
          BY <4>1, <4>4, <2>p, <1>s
        <5>2. ASSUME NEW k \in DOMAIN v
              PROVE  v[k].xid = x /\ v[k].n = v[1].n + k - 1 /\ ~v[k].last
          <6>1. CASE k = Len(p) + 1
            <7>1. p[Len(p)].n = p[1].n + Len(p) - 1 /\ m.n = p[Len(p)].n + 1
              BY <3>3, <4>4, <2>p, <1>n
            <7>2. p[1].n \in Nat /\ Len(p) \in Nat
              BY <4>4, <2>p, <1>s DEF Part
            <7>. QED
              BY <3>3, <6>1, <7>1, <7>2, <4>1, <5>1
          <6>2. CASE k \in 1..Len(p)
            BY <6>2, <3>3, <4>1, <4>4, <5>1, <2>p, <1>s
          <6>. QED
            BY <6>1, <6>2, <4>1, <1>s
        <5>. QED
          BY <3>3, <4>2, <4>4, <5>1, <5>2, <2>p, <1>f, <1>m DEF Collected
      <4>. QED
        BY <4>3, <4>4
    <3>. QED
      BY <3>1, <3>2, <3>3, <2>h
  <2>4. BegunAlone'
    <3>. SUFFICES ASSUME NEW z \in undisturbed, NEW i \in DOMAIN toCtl', toCtl'[i].xid = z,
                         toCtl'[i].n = 1, NEW y \in Xid \ {z},
                         \/ \E j \in 1..(i - 1) : toCtl'[j].xid = y
                         \/ p' # <<>> /\ p'[1].xid = y
                  PROVE  \E j \in 1..(i - 1) : toCtl'[j].xid = y /\ toCtl'[j].last
      BY <1>f, <1>o DEF BegunAlone
    <3>1. /\ i \in Nat /\ i + 1 \in DOMAIN toCtl /\ toCtl'[i] = toCtl[i + 1]
          /\ \A j \in 1..(i - 1) : j + 1 \in 2..L /\ toCtl'[j] = toCtl[j + 1]
      BY <1>1, <1>t
    <3>2. \/ \E j \in 1..i : toCtl[j].xid = y
          \/ p # <<>> /\ p[1].xid = y
      <4>1. CASE \E j \in 1..(i - 1) : toCtl'[j].xid = y
        <5>1. PICK j \in 1..(i - 1) : toCtl'[j].xid = y
          BY <4>1
        <5>2. j + 1 \in 1..i /\ toCtl[j + 1].xid = y
          BY <5>1, <3>1
        <5>. QED
          BY <5>2
      <4>2. CASE p' # <<>> /\ p'[1].xid = y
        <5>1. (p # <<>> /\ p[1].xid = y) \/ y = x
          BY <4>2, <2>h, <2>q
        <5>2. 1 \in 1..i
          BY <1>1, <1>t
        <5>. QED
          BY <5>1, <5>2
      <4>. QED
        BY <4>1, <4>2
    <3>3. PICK j \in 1..i : toCtl[j].xid = y /\ toCtl[j].last
      <4>1. (i + 1) - 1 = i
        BY <3>1
      <4>. QED
        BY <3>1, <3>2, <4>1, <1>o DEF BegunAlone
    <3>4. j # 1
      <4>. SUFFICES ASSUME j = 1 PROVE FALSE
        OBVIOUS
      <4>1. y = x /\ m.last
        BY <3>3
      <4>2. CASE \E k \in 1..(i - 1) : toCtl'[k].xid = y
        BY <4>1, <4>2, <3>1, <2>l
      <4>3. CASE p' # <<>> /\ p'[1].xid = y
        BY <4>1, <4>3, <2>h DEF Cuts
      <4>. QED
        BY <4>2, <4>3
    <3>5. j - 1 \in 1..(i - 1) /\ (j - 1) + 1 = j
      BY <3>1, <3>4
    <3>. QED
      BY <3>1, <3>3, <3>5
  <2>5. NotCut'
    <3>. SUFFICES ASSUME NEW z \in undisturbed, NEW j \in DOMAIN toCtl', Cuts(toCtl'[j]),
                         came'[z] > 0 \/ \E i \in 1..(j - 1) : toCtl'[i].xid = z /\ toCtl'[i].n = 1
                  PROVE  z \in done /\ (came'[z] = sent[z]
                            \/ \E i \in 1..(j - 1) : toCtl'[i].xid = z /\ toCtl'[i].last)
      BY <1>f DEF NotCut
    <3>1. /\ j \in Nat /\ j + 1 \in DOMAIN toCtl /\ toCtl'[j] = toCtl[j + 1] /\ (j + 1) - 1 = j
          /\ \A i \in 1..(j - 1) : i + 1 \in 1..j /\ toCtl'[i] = toCtl[i + 1]
          /\ 1 \in 1..j /\ z \in Xid
      BY <1>1, <1>t
    <3>2. came[z] > 0 \/ \E i \in 1..j : toCtl[i].xid = z /\ toCtl[i].n = 1
      <4>1. CASE came'[z] > 0
        BY <4>1, <3>1, <2>g, <1>n, <1>t
      <4>2. CASE \E i \in 1..(j - 1) : toCtl'[i].xid = z /\ toCtl'[i].n = 1
        BY <4>2, <3>1
      <4>. QED
        BY <4>1, <4>2
    <3>3. z \in done /\ (came[z] = sent[z] \/ \E i \in 1..j : toCtl[i].xid = z /\ toCtl[i].last)
      BY <3>1, <3>2, <1>o DEF NotCut
    <3>4. CASE came[z] = sent[z]
      BY <3>3, <3>4, <3>1, <2>g, <1>m, <1>t
    <3>5. ASSUME NEW i \in 1..j, toCtl[i].xid = z, toCtl[i].last
          PROVE  came'[z] = sent[z] \/ \E k \in 1..(j - 1) : toCtl'[k].xid = z /\ toCtl'[k].last
      <4>1. CASE i = 1
        BY <3>5, <4>1, <2>g, <1>m
      <4>2. CASE i # 1
        <5>1. i - 1 \in 1..(j - 1) /\ (i - 1) + 1 = i
          BY <4>2, <3>1
        <5>. QED
          BY <3>5, <5>1, <3>1
      <4>. QED
        BY <4>1, <4>2
    <3>. QED
      BY <3>3, <3>4, <3>5
  <2>6. IsCollected'
    <3>. SUFFICES ASSUME NEW z \in undisturbed, came'[z] > 0, ~Ended(z)'
                  PROVE  p' # <<>> /\ p'[1].xid = z
      BY <1>f DEF IsCollected
    <3>1. CASE z = x
      <4>1. ~m.last /\ m.type \in Lists /\ (p # <<>> => p[1].xid = x)
        BY <3>1, <1>f, <1>m, <1>n, <1>t, <2>g, <2>z DEF Ended
      <4>2. p' = Append(p, m)
        BY <3>1, <4>1, <2>h, <2>z, <1>m, <1>n, <1>t DEF Cuts
      <4>. QED
        BY <3>1, <4>1, <4>2, <2>q
    <3>2. CASE z # x
      <4>1. z \in Xid /\ came[z] > 0 /\ ~Ended(z)
        BY <3>2, <1>f, <1>t, <2>g DEF Ended
      <4>2. p # <<>> /\ p[1].xid = z
        BY <4>1, <1>o DEF IsCollected
      <4>3. ~Cuts(m)
        <5>1. ~ \E i \in 1..(1 - 1) : toCtl[i].xid = z /\ toCtl[i].last
          OBVIOUS
        <5>. QED
          BY <4>1, <5>1, <1>o, <1>t DEF NotCut, Ended
      <4>. QED
        BY <3>2, <4>2, <4>3, <2>h
    <3>. QED
      BY <3>1, <3>2
  <2>7. \A e \in DOMAIN raised : raised[e][1].xid \in Xid /\ raised[e][1].xid # x
                                /\ raised[e][1].xid \in done
                                /\ came'[raised[e][1].xid] = sent[raised[e][1].xid]
    <3>1. \A e \in DOMAIN raised : raised[e][1].xid \in Xid /\ Ended(raised[e][1].xid)
      BY DEF RaisedEnded
    <3>2. ~Ended(x)
      BY <1>m, <1>n, <1>t DEF Ended
    <3>. QED
      BY <3>1, <3>2, <1>f, <2>g DEF Ended
  <2>8. m.last => Ended(x)'
    BY <1>f, <1>m, <2>g DEF Ended
  <2>9. RaisedEnded'
    <3>1. \A e \in DOMAIN raised : raised[e] # <<>>
      BY DEF RaisedEnded
    <3>2. CASE DOMAIN raised' = DOMAIN raised /\ raised' = raised
      BY <3>1, <3>2, <2>7, <1>f DEF RaisedEnded, Ended
    <3>3. ASSUME m.last, NEW v, New(v), DOMAIN raised' = 1..(Len(raised) + 1),
                 raised'[Len(raised) + 1] = v, DOMAIN raised = 1..Len(raised), Len(raised) \in Nat,
                 \A e \in 1..Len(raised) : raised'[e] = raised[e]
          PROVE  RaisedEnded'
      <4>1. v # <<>> /\ v[1].xid = x /\ x \in done /\ came'[x] = sent[x]
        BY <3>3, <2>8, <1>f DEF OneReply, Ended
      <4>2. \A e \in DOMAIN raised' : e \in DOMAIN raised \/ e = Len(raised) + 1
        BY <3>3
      <4>. QED
        BY <3>1, <3>3, <4>1, <4>2, <2>7, <1>f, <1>m DEF RaisedEnded, Ended
    <3>. QED
      BY <3>2, <3>3, <2>w
  <2>10. WholeReplies'
    <3>2. CASE DOMAIN raised' = DOMAIN raised /\ raised' = raised
      BY <3>2, <1>f DEF WholeReplies, OneReply
    <3>3. ASSUME m.last, NEW v, New(v), DOMAIN raised' = 1..(Len(raised) + 1),
                 raised'[Len(raised) + 1] = v, DOMAIN raised = 1..Len(raised), Len(raised) \in Nat,
                 \A e \in 1..Len(raised) : raised'[e] = raised[e]
          PROVE  WholeReplies'
      <4>1. \A e \in DOMAIN raised' : e \in DOMAIN raised \/ e = Len(raised) + 1
        BY <3>3
      <4>2. \A e \in DOMAIN raised' :
              /\ OneReply(raised'[e]) /\ raised'[e][Len(raised'[e])].last
              /\ raised'[e][1].xid \in undisturbed => raised'[e][1].n = 1
        BY <3>3, <4>1 DEF WholeReplies
      <4>3. \A d, e \in DOMAIN raised' : raised'[d][1].xid = raised'[e][1].xid => d = e
        BY <3>3, <4>1, <2>7 DEF WholeReplies
      <4>. QED
        BY <4>2, <4>3, <1>f DEF WholeReplies, OneReply
    <3>. QED
      BY <3>2, <3>3, <2>w
  <2>11. RepliesRaised'
    <3>. SUFFICES ASSUME NEW z \in undisturbed \cap done, came'[z] = sent[z], asked[z].type # "vendor"
                  PROVE  \E e \in DOMAIN raised' : raised'[e][1].xid = z
      BY <1>f DEF RepliesRaised
    <3>1. CASE z = x
      <4>1. m.last
        BY <3>1, <1>m, <2>g
      <4>2. PICK v : New(v)
        BY <3>1, <4>1, <2>h, <1>m
      <4>3. Len(raised) + 1 \in DOMAIN raised' /\ raised'[Len(raised) + 1] = v
        BY <4>2, <1>s
      <4>. QED
        BY <3>1, <4>2, <4>3
    <3>2. CASE z # x
      <4>1. PICK e \in DOMAIN raised : raised[e][1].xid = z
        BY <3>2, <2>g, <1>t DEF RepliesRaised
      <4>. QED
        BY <4>1, <2>w
    <3>. QED
      BY <3>1, <3>2
  <2>. QED
    BY <2>1, <2>2, <2>3, <2>4, <2>5, <2>6, <2>9, <2>10, <2>11
<1>. QED
  BY <1>c, <1>d

\* Every step keeps the invariant.
LEMMA NextReplies == ASSUME RequestsTyped PROVE WholeInv /\ [Next]_vars => WholeInv'
<1>. SUFFICES ASSUME WholeInv, [Next]_vars PROVE WholeInv'
  OBVIOUS
<1>1. CASE Ask
  BY <1>1, AskKeeps
<1>2. CASE Read
  BY <1>2, ReadKeeps
<1>3. ASSUME NEW x \in Xid, _rx_stats_request(x) PROVE WholeInv'
  <2>1. CASE Answer(asked[x]) = "nothing"
    BY <1>3, <2>1, SilenceKeeps DEF _rx_stats_request
  <2>2. CASE Answer(asked[x]) # "nothing"
    <3>1. Answer(asked[x]) \in {"reply", "error", "unreadable"}
      BY <2>2 DEF Answer
    <3>2. sent[x] = 0
      BY <1>3 DEF _rx_stats_request, WholeInv, Coming, Channel, TypeOK
    <3>. QED
      BY <1>3, <2>2, <3>1, <3>2, SendsKeep DEF _rx_stats_request
  <2>. QED
    BY <2>1, <2>2
<1>4. ASSUME NEW x \in Xid, OtherSends(x) PROVE WholeInv'
  BY <1>4, SendsKeep DEF OtherSends
<1>5. CASE UNCHANGED vars
  <2>1. /\ UNCHANGED <<own, asked, done, sent, toCtl, open, _previous_stats, raised, came,
                      undisturbed>>
        /\ Xid' = Xid
    BY <1>5 DEF vars, Xid
  <2>2. TypeOK' /\ RaisedEnded' /\ WholeReplies' /\ RepliesRaised'
    BY <2>1 DEF WholeInv, TypeOK, RaisedEnded, Ended, WholeReplies, OneReply, RepliesRaised
  <2>3. open => Channel' /\ Collected'
    BY <2>1 DEF WholeInv, Coming, Channel, Fits, Collected, Ended
  <2>4. open => BegunAlone' /\ NotCut' /\ IsCollected'
    BY <2>1 DEF WholeInv, Coming, BegunAlone, NotCut, Cuts, IsCollected, Ended
  <2>. QED
    BY <2>1, <2>2, <2>3, <2>4 DEF WholeInv, Coming
<1>. QED
  BY <1>1, <1>2, <1>3, <1>4, <1>5 DEF Next

\* In every behaviour, for any requests and number of parts (of_01.py,
\* _incoming_stats_reply; datapaths/switch.py, _rx_stats_request): events are whole
\* replies, and what the controller was told without disturbance it raises.
THEOREM RepliesCorrect == ASSUME RequestsTyped PROVE Spec => [](WholeReplies /\ RepliesRaised)
<1>1. WholeInv => WholeReplies /\ RepliesRaised
  BY DEF WholeInv
<1>. QED
  BY <1>1, InitReplies, NextReplies, PTL DEF Spec
=============================================================================
