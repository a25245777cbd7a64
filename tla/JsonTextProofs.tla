---------------------------- MODULE JsonTextProofs ----------------------------
(***************************************************************************)
(* Proofs about JsonText, for strings, numbers and result sets of any      *)
(* length, and buffers of any size.                                        *)
(*                                                                         *)
(* Every writer of the JsonBuffer is shown to append its text to what the  *)
(* evbuffer and the staging buffer hold together (Writes), wherever the    *)
(* staging buffer fills.  The recursive functions that say what a text     *)
(* should be (tens, decimal) and the folds are unfolded with the lemmas of *)
(* module Induction.  A numeral is put together from groups of two digits, *)
(* as fast_itoa does; a fraction is a padded group of its rounded digits   *)
(* without the zeros at its end.                                           *)
(***************************************************************************)
EXTENDS JsonText, Induction, SequenceTheorems, TLAPS

----------------------------------------------------------------------------
(* Sequences that are put together *)

\* The first n pieces.
Prefix(f, n) == [m \in 1 .. n |-> f[m]]

\* g collects the pieces of f.
Collects(S, N, f, g) ==
    /\ f \in [1 .. N -> Seq(S)] /\ g \in [0 .. N -> Seq(S)]
    /\ g[0] = <<>>
    /\ \A n \in 1 .. N : g[n] = g[n - 1] \o f[n]

\* Pieces can be collected.
LEMMA Collected ==
    ASSUME NEW S, NEW N \in Nat, NEW f \in [1 .. N -> Seq(S)]
    PROVE  \E g : Collects(S, N, f, g)
<1> DEFINE G == [n \in 1 .. N |-> [s \in Seq(S) |-> s \o f[n]]]
<1>1. \A n \in 1 .. N : \A s \in Seq(S) : s \o f[n] \in Seq(S)
  <2>1. ASSUME NEW n \in 1 .. N, NEW s \in Seq(S) PROVE s \o f[n] \in Seq(S)
    <3>1. f[n] \in Seq(S)
      BY Zenon
    <3> QED
      BY <3>1, ConcatProperties, Zenon
  <2> QED
    BY <2>1, Zenon
<1>2. G \in Steps(Seq(S), N)
  BY <1>1, Zenon DEF Steps
<1>3. <<>> \in Seq(S)
  OBVIOUS
<1> HIDE DEF G
<1>4. PICK g \in [0 .. N -> Seq(S)] : g[0] = <<>> /\ \A n \in 1 .. N : g[n] = G[n][g[n - 1]]
  <2>1. Takes(Seq(S), N, <<>>, G)
    BY <1>2, <1>3, Recursion, Zenon
  <2> QED
    BY <2>1, Zenon DEF Takes
<1> USE DEF G
<1>5. \A n \in 1 .. N : n - 1 \in 0 .. N
  OBVIOUS
<1>6. \A n \in 1 .. N : g[n] = g[n - 1] \o f[n]
  BY <1>4, <1>5, Zenon
<1> QED
  BY <1>4, <1>6, Zenon DEF Collects

\* Joined is what collects them.
LEMMA JoinedIs ==
    ASSUME NEW S, NEW N \in Nat, NEW n \in 0 .. N, NEW f, NEW g, Collects(S, N, f, g)
    PROVE  Joined(Prefix(f, n)) = g[n]
<1> DEFINE P == Prefix(f, n)
<1>1. /\ f \in [1 .. N -> Seq(S)] /\ g \in [0 .. N -> Seq(S)] /\ g[0] = <<>>
      /\ \A m \in 1 .. N : g[m] = g[m - 1] \o f[m]
  BY Zenon DEF Collects
<1>2. \A m \in 1 .. n : m \in 1 .. N
  OBVIOUS
<1>3. /\ P \in Seq(Seq(S)) /\ Len(P) = n
      /\ \A m \in 1 .. n : P[m] = f[m]
  BY <1>1, <1>2 DEF Prefix
<1> HIDE DEF P
<1> DEFINE Def(h) == h = [i \in 0 .. Len(P) |-> IF i = 0 THEN <<>> ELSE h[i - 1] \o P[i]]
           h0 == CHOOSE h : Def(h)
           k0 == [i \in 0 .. n |-> g[i]]
<1>4. n \in 0 .. n /\ \A i \in 0 .. n : i # 0 => i \in 1 .. n /\ i \in 1 .. N /\ i - 1 \in 0 .. n
  OBVIOUS
<1>5. \A i \in 0 .. n : g[i] = IF i = 0 THEN <<>> ELSE g[i - 1] \o P[i]
  BY <1>1, <1>3, <1>4, Zenon
<1>6. \A i \in 0 .. n : g[i] = IF i = 0 THEN <<>> ELSE k0[i - 1] \o P[i]
  BY <1>4, <1>5, Zenon
<1>7. k0 = [i \in 0 .. n |-> IF i = 0 THEN <<>> ELSE k0[i - 1] \o P[i]]
  BY <1>6, Zenon
<1>8. Def(k0)
  BY <1>3, <1>7, Zenon
<1> HIDE DEF Def
<1>9. Def(h0)
  BY <1>8, Zenon
<1> USE DEF Def
<1> HIDE DEF h0
<1>10. h0 = [i \in 0 .. n |-> IF i = 0 THEN <<>> ELSE h0[i - 1] \o P[i]]
  BY <1>3, <1>9, Zenon
<1>11. \A i \in 0 .. n : h0[i] = IF i = 0 THEN <<>> ELSE h0[i - 1] \o P[i]
  BY <1>10, Zenon
<1>12. {i \in 0 .. n : h0[i] # g[i]} = {}
  <2> DEFINE T == {i \in 0 .. n : h0[i] # g[i]}
  <2>1. SUFFICES ASSUME T # {} PROVE FALSE
    BY Zenon
  <2>2. T \in SUBSET Nat
    OBVIOUS
  <2>3. PICK i \in T : \A m \in T : i <= m
    BY <2>1, <2>2, Least, Zenon
  <2>4. i \in 0 .. n /\ h0[i] # g[i] /\ ~(i <= i - 1)
    BY <2>3
  <2>5. i - 1 \notin T
    BY <2>3, <2>4, Zenon
  <2> QED
    BY <1>4, <1>5, <1>11, <2>4, <2>5, Zenon
<1>13. h0[n] = g[n]
  BY <1>4, <1>12, Zenon
<1>14. Joined(P) = h0[Len(P)]
  BY Zenon DEF Joined, h0
<1> QED
  BY <1>3, <1>13, <1>14, Zenon DEF P

\* One piece more.
OneMore(S, f, n) ==
    /\ Joined(Prefix(f, n)) \in Seq(S)
    /\ n = 0 => Joined(Prefix(f, n)) = <<>>
    /\ n > 0 => Joined(Prefix(f, n)) = Joined(Prefix(f, n - 1)) \o f[n]

\* One more piece makes the whole longer by that piece.
LEMMA JoinedPrefix ==
    ASSUME NEW S, NEW N \in Nat, NEW f \in [1 .. N -> Seq(S)], NEW n \in 0 .. N
    PROVE  OneMore(S, f, n)
<1>1. PICK g : Collects(S, N, f, g)
  BY Collected, Zenon
<1>2. \A m \in 0 .. N : Joined(Prefix(f, m)) = g[m]
  BY <1>1, JoinedIs, Zenon
<1>3. /\ g \in [0 .. N -> Seq(S)] /\ g[0] = <<>>
      /\ \A m \in 1 .. N : g[m] = g[m - 1] \o f[m]
  BY <1>1, Zenon DEF Collects
<1>4. n > 0 => n \in 1 .. N /\ n - 1 \in 0 .. N
  OBVIOUS
<1> QED
  BY <1>2, <1>3, <1>4, Zenon DEF OneMore

----------------------------------------------------------------------------
(* The staging buffer *)

Digits == {"0", "1", "2", "3", "4", "5", "6", "7", "8", "9"}
Bytes == Digits \cup {"a", "q", "c", "u", "n", "l", "t", "r", "e", "k", "dot", "minus",
                      "backslash", "quote", "colon", "comma",
                      "lbrace", "rbrace", "lbracket", "rbracket"}

\* The buffers that hold no more than they can, and what has gone into one.
Buffers == {j \in [evbuf : Seq(Bytes), stack : Seq(Bytes)] : Len(j.stack) <= StackBuf}
Content(j) == j.evbuf \o j.stack

\* k is j after d was written.
Writes(j, d, k) ==
    /\ j \in Buffers /\ k \in Buffers /\ d \in Seq(Bytes)
    /\ Content(k) = Content(j) \o d

\* Texts are put together in any order of the joints.
LEMMA Associative ==
    ASSUME NEW s \in Seq(Bytes), NEW t \in Seq(Bytes), NEW u \in Seq(Bytes)
    PROVE  (s \o t) \o u = s \o (t \o u)
  BY ConcatAssociative

\* What a JsonBuffer holds is text.
LEMMA ContentType ==
    ASSUME NEW j \in Buffers
    PROVE  j.evbuf \in Seq(Bytes) /\ j.stack \in Seq(Bytes) /\ Content(j) \in Seq(Bytes)
<1>1. j.evbuf \in Seq(Bytes) /\ j.stack \in Seq(Bytes)
  BY SMT DEF Buffers
<1> QED
  BY <1>1, ConcatProperties, Zenon DEF Content

\* What is written twice is written in order.
LEMMA WritesBoth ==
    ASSUME NEW i, NEW j, NEW k, NEW d, NEW e, Writes(i, d, j), Writes(j, e, k)
    PROVE  Writes(i, d \o e, k)
<1>1. /\ i \in Buffers /\ k \in Buffers /\ d \in Seq(Bytes) /\ e \in Seq(Bytes)
      /\ Content(j) = Content(i) \o d /\ Content(k) = Content(j) \o e
  BY Zenon DEF Writes
<1>2. Content(i) \in Seq(Bytes)
  BY <1>1, ContentType, Zenon
<1>3. d \o e \in Seq(Bytes)
  BY <1>1, ConcatProperties, Zenon
<1>4. (Content(i) \o d) \o e = Content(i) \o (d \o e)
  BY <1>1, <1>2, Associative, Zenon
<1> QED
  BY <1>1, <1>3, <1>4, Zenon DEF Writes

\* A flush leaves the buffer empty and writes nothing new.
LEMMA FlushWrites ==
    ASSUME NEW j \in Buffers
    PROVE  /\ Writes(j, <<>>, jbuf_flush(j))
           /\ jbuf_flush(j).stack = <<>> /\ jbuf_flush(j).evbuf = Content(j)
<1> DEFINE f == jbuf_flush(j)
<1>1. /\ j.evbuf \in Seq(Bytes) /\ j.stack \in Seq(Bytes) /\ Content(j) \in Seq(Bytes)
      /\ <<>> \in Seq(Bytes) /\ StackBuf \in Nat
  BY ContentType, JsonTextConstants
<1>2. f = [evbuf |-> Content(j), stack |-> <<>>]
  BY Zenon DEF jbuf_flush, Content
<1> HIDE DEF f
<1>3. f.evbuf = Content(j) /\ f.stack = <<>> /\ f \in Buffers
  BY <1>1, <1>2, SMT DEF Buffers
<1>4. Content(f) = Content(j) /\ Content(j) = Content(j) \o <<>>
  BY <1>1, <1>3, ConcatEmptySeq, Zenon DEF Content
<1> QED
  BY <1>1, <1>3, <1>4, Zenon DEF f, Writes

\* To the end of the stack, or of what has left it.
LEMMA StackWrites ==
    ASSUME NEW j \in Buffers, NEW d \in Seq(Bytes), NEW k,
           \/ /\ k = [j EXCEPT !.stack = @ \o d]
              /\ Len(j.stack) + Len(d) <= StackBuf
           \/ /\ k = [j EXCEPT !.evbuf = @ \o d]
              /\ j.stack = <<>>
    PROVE  Writes(j, d, k)
<1>1. /\ j.evbuf \in Seq(Bytes) /\ j.stack \in Seq(Bytes)
      /\ j \in [evbuf : Seq(Bytes), stack : Seq(Bytes)]
  BY ContentType, Zenon DEF Buffers
<1>2. CASE /\ k = [j EXCEPT !.stack = @ \o d]
           /\ Len(j.stack) + Len(d) <= StackBuf
  <2>1. /\ j.stack \o d \in Seq(Bytes) /\ Len(j.stack \o d) <= StackBuf
    BY <1>1, <1>2, ConcatProperties
  <2> DEFINE x == j.stack \o d
  <2>2. k.evbuf = j.evbuf /\ k.stack = x /\ k \in Buffers
    <3>1. k = [j EXCEPT !.stack = x] /\ x \in Seq(Bytes) /\ Len(x) <= StackBuf
      BY <1>2, <2>1, Zenon
    <3> HIDE DEF x
    <3>2. k.evbuf = j.evbuf /\ k.stack = x /\ k \in [evbuf : Seq(Bytes), stack : Seq(Bytes)]
      BY <1>1, <3>1, Zenon
    <3> QED
      BY <3>1, <3>2, Zenon DEF Buffers
  <2>3. (j.evbuf \o j.stack) \o d = j.evbuf \o (j.stack \o d)
    BY <1>1, Associative, Zenon
  <2> QED
    BY <2>2, <2>3, Zenon DEF Writes, Content
<1>3. CASE k = [j EXCEPT !.evbuf = @ \o d] /\ j.stack = <<>>
  <2>1. j.evbuf \o d \in Seq(Bytes) /\ Len(<<>>) <= StackBuf
    BY <1>1, ConcatProperties, JsonTextConstants
  <2> DEFINE x == j.evbuf \o d
  <2>2. k.evbuf = x /\ k.stack = <<>> /\ k \in Buffers
    <3>1. k = [j EXCEPT !.evbuf = x] /\ x \in Seq(Bytes)
      BY <1>3, <2>1, Zenon
    <3> HIDE DEF x
    <3>2. k.evbuf = x /\ k.stack = j.stack /\ k \in [evbuf : Seq(Bytes), stack : Seq(Bytes)]
      BY <1>1, <3>1, Zenon
    <3> QED
      BY <1>3, <2>1, <3>1, <3>2, Zenon DEF Buffers
  <2>3. (j.evbuf \o d) \o <<>> = j.evbuf \o d /\ j.evbuf \o <<>> = j.evbuf
    BY <1>1, <2>1, ConcatEmptySeq, Zenon
  <2> QED
    BY <1>3, <2>2, <2>3, Zenon DEF Writes, Content
<1> QED
  BY <1>2, <1>3, Zenon

\* jbuf_add writes its data, whatever their length.
LEMMA AddWrites ==
    ASSUME NEW j \in Buffers, NEW d \in Seq(Bytes)
    PROVE  Writes(j, d, jbuf_add(j, d))
<1> DEFINE full == Len(j.stack) + Len(d) > StackBuf
           f == IF full THEN jbuf_flush(j) ELSE j
           k == jbuf_add(j, d)
<1>1. k = IF full /\ Len(d) >= StackBuf THEN [f EXCEPT !.evbuf = @ \o d]
          ELSE [f EXCEPT !.stack = @ \o d]
  BY Zenon DEF jbuf_add
<1>2. /\ Len(j.stack) \in Nat /\ Len(d) \in Nat /\ StackBuf \in Nat /\ <<>> \in Seq(Bytes)
      /\ Len(<<>>) = 0
  BY ContentType, LenProperties, JsonTextConstants
<1>3. f \in Buffers /\ Writes(j, <<>>, f) /\ (full => f.stack = <<>>) /\ (~full => f = j)
  <2>1. Content(j) \in Seq(Bytes)
    BY ContentType, Zenon
  <2>2. Writes(j, <<>>, j)
    BY <1>2, <2>1, ConcatEmptySeq, Zenon DEF Writes
  <2> QED
    BY <2>2, FlushWrites, Zenon DEF Writes
<1> HIDE DEF f, k
<1>4. Writes(f, d, k)
  <2>1. CASE full /\ Len(d) >= StackBuf
    BY <1>1, <1>3, <2>1, StackWrites, Zenon
  <2>2. CASE ~(full /\ Len(d) >= StackBuf)
    <3>1. Len(f.stack) + Len(d) <= StackBuf
      BY <1>2, <1>3, <2>2
    <3> QED
      BY <1>1, <1>3, <2>2, <3>1, StackWrites, Zenon
  <2> QED
    BY <2>1, <2>2, Zenon
<1>5. Writes(j, <<>> \o d, k)
  BY <1>3, <1>4, WritesBoth, Zenon
<1>6. <<>> \o d = d
  BY ConcatEmptySeq, Zenon
<1> QED
  BY <1>5, <1>6, Zenon DEF k

\* So does jbuf_add_char.
LEMMA CharWrites ==
    ASSUME NEW j \in Buffers, NEW c \in Bytes
    PROVE  Writes(j, <<c>>, jbuf_add_char(j, c))
<1> DEFINE full == Len(j.stack) + 1 > StackBuf
           f == IF full THEN jbuf_flush(j) ELSE j
           k == jbuf_add_char(j, c)
<1>1. k = [f EXCEPT !.stack = Append(@, c)]
  BY Zenon DEF jbuf_add_char
<1>2. /\ Len(j.stack) \in Nat /\ StackBuf \in Nat /\ StackBuf > 0 /\ <<>> \in Seq(Bytes)
      /\ Len(<<>>) = 0 /\ <<c>> \in Seq(Bytes) /\ Len(<<c>>) = 1
  BY ContentType, LenProperties, JsonTextConstants
<1>3. f \in Buffers /\ Writes(j, <<>>, f) /\ (full => f.stack = <<>>) /\ (~full => f = j)
  <2>1. Content(j) \in Seq(Bytes)
    BY ContentType, Zenon
  <2>2. Writes(j, <<>>, j)
    BY <1>2, <2>1, ConcatEmptySeq, Zenon DEF Writes
  <2> QED
    BY <2>2, FlushWrites, Zenon DEF Writes
<1> HIDE DEF f, k
<1>4. k = [f EXCEPT !.stack = @ \o <<c>>]
  <2>1. f.stack \in Seq(Bytes)
    BY <1>3, ContentType, Zenon
  <2>2. Append(f.stack, c) = f.stack \o <<c>>
    BY <2>1, AppendIsConcat, Zenon
  <2> QED
    BY <1>1, <2>2, Zenon
<1>5. Len(f.stack) + Len(<<c>>) <= StackBuf
  BY <1>2, <1>3
<1>6. Writes(f, <<c>>, k)
  BY <1>2, <1>3, <1>4, <1>5, StackWrites, Zenon
<1>7. Writes(j, <<>> \o <<c>>, k)
  BY <1>3, <1>6, WritesBoth, Zenon
<1>8. <<>> \o <<c>> = <<c>>
  BY <1>2, ConcatEmptySeq, Zenon
<1> QED
  BY <1>7, <1>8, Zenon DEF k

----------------------------------------------------------------------------
(* Escaped strings *)

\* A character is written with one, two or six bytes.
LEMMA EscapeType ==
    /\ Chars \subseteq Bytes
    /\ \A c \in Chars : escape[c] \in Seq(Bytes)
    /\ escape["a"] = <<"a">>
    /\ \A c \in Chars : Len(escape[c]) \in 1 .. 6 /\ (Len(escape[c]) = 6 <=> c = "c")
                          /\ (c # "c" => Len(escape[c]) <= 2)
<1>1. escape["a"] = <<"a">>
  BY DEF escape
<1>2. escape["q"] = <<"backslash", "q">>
  BY DEF escape
<1>3. escape["c"] = <<"backslash", "u", "0", "0", "0", "c">>
  BY DEF escape
<1>4. escape["a"] \in Seq(Bytes) /\ Len(escape["a"]) = 1
  BY <1>1 DEF Bytes
<1>5. escape["q"] \in Seq(Bytes) /\ Len(escape["q"]) = 2
  BY <1>2 DEF Bytes
<1>6. escape["c"] \in Seq(Bytes) /\ Len(escape["c"]) = 6
  BY <1>3 DEF Bytes, Digits
<1>7. Chars \subseteq Bytes
  BY DEF Chars, Bytes
<1>8. \A c \in Chars : c = "a" \/ c = "q" \/ c = "c"
  BY DEF Chars
<1>9. \A c \in Chars : escape[c] \in Seq(Bytes)
  BY <1>4, <1>5, <1>6, <1>8, Zenon
<1>10. \A c \in Chars : Len(escape[c]) \in 1 .. 6 /\ (Len(escape[c]) = 6 <=> c = "c")
                          /\ (c # "c" => Len(escape[c]) <= 2)
  <2>1. ASSUME NEW c \in Chars
        PROVE  Len(escape[c]) \in 1 .. 6 /\ (Len(escape[c]) = 6 <=> c = "c")
                  /\ (c # "c" => Len(escape[c]) <= 2)
    <3>1. CASE c = "a"
      <4>1. Len(escape[c]) = 1
        BY <1>4, <3>1, Zenon
      <4>2. c # "c"
        BY <3>1
      <4> QED
        BY <4>1, <4>2
    <3>2. CASE c = "q"
      <4>1. Len(escape[c]) = 2
        BY <1>5, <3>2, Zenon
      <4>2. c # "c"
        BY <3>2
      <4> QED
        BY <4>1, <4>2
    <3>3. CASE c = "c"
      <4>1. Len(escape[c]) = 6
        BY <1>6, <3>3, Zenon
      <4>2. c = "c"
        BY <3>3
      <4> QED
        BY <4>1, <4>2
    <3> QED
      BY <1>8, <3>1, <3>2, <3>3, Zenon
  <2> QED
    BY <2>1, Zenon
<1> QED
  BY <1>1, <1>7, <1>9, <1>10, Zenon

\* The characters of a source can be written as they are.
LEMMA SourceType ==
    ASSUME NEW s \in Seq(Chars)
    PROVE  /\ s \in Seq(Bytes) /\ Len(s) \in Nat
           /\ \A n \in 1 .. Len(s) : s[n] \in Chars
<1>1. s \in Seq(Bytes)
  BY EscapeType, SeqMonotonic, Zenon
<1> QED
  BY <1>1, LenProperties, ElementOfSeq, Zenon

\* The encoding of a string grows by the escape of one character.
LEMMA EncodedGrows ==
    ASSUME NEW s \in Seq(Chars), NEW n \in 0 .. Len(s)
    PROVE  /\ Encoded(SubSeq(s, 1, n)) \in Seq(Bytes)
           /\ n = 0 => Encoded(SubSeq(s, 1, n)) = <<>>
           /\ n > 0 => Encoded(SubSeq(s, 1, n)) = Encoded(SubSeq(s, 1, n - 1)) \o escape[s[n]]
<1> DEFINE N == Len(s)
           f == [m \in 1 .. N |-> escape[s[m]]]
<1>1. N \in Nat /\ \A m \in 1 .. N : s[m] \in Chars
  BY SourceType, Zenon
<1>2. f \in [1 .. N -> Seq(Bytes)]
  BY <1>1, EscapeType, Zenon
<1>3. ASSUME NEW m \in 0 .. N
      PROVE  Encoded(SubSeq(s, 1, m)) = Joined(Prefix(f, m))
  <2> DEFINE t == SubSeq(s, 1, m)
  <2>1. /\ DOMAIN t = 1 .. m
        /\ \A i \in 1 .. m : t[i] = s[i] /\ i \in 1 .. N
    BY <1>1
  <2> HIDE DEF t
  <2>2. [i \in DOMAIN t |-> escape[t[i]]] = Prefix(f, m)
    BY <2>1, Zenon DEF Prefix
  <2> QED
    BY <2>2, Zenon DEF Encoded, t
<1>4. n \in 0 .. N /\ (n > 0 => n - 1 \in 0 .. N /\ n \in 1 .. N)
  BY <1>1
<1>5. n > 0 => f[n] = escape[s[n]]
  BY <1>4, Zenon
<1> HIDE DEF f, N
<1>6. /\ Joined(Prefix(f, n)) \in Seq(Bytes)
      /\ n = 0 => Joined(Prefix(f, n)) = <<>>
      /\ n > 0 => Joined(Prefix(f, n)) = Joined(Prefix(f, n - 1)) \o f[n]
  <2>1. OneMore(Bytes, f, n)
    BY <1>1, <1>2, <1>4, JoinedPrefix, Zenon
  <2> QED
    BY <2>1, Zenon DEF OneMore
<1> QED
  BY <1>3, <1>4, <1>5, <1>6, Zenon

\* A run of clean characters, if there is one.
LEMMA CleanWrites ==
    ASSUME NEW j \in Buffers, NEW s \in Seq(Chars),
           NEW b \in 1 .. Len(s) + 1, NEW p \in 1 .. Len(s) + 1
    PROVE  Writes(j, SubSeq(s, b, p - 1), AddClean(j, s, b, p))
<1>1. s \in Seq(Bytes) /\ Len(s) \in Nat /\ \A n \in 1 .. Len(s) : s[n] \in Bytes
  BY SourceType, EscapeType, Zenon
<1>2. SubSeq(s, b, p - 1) \in Seq(Bytes)
  <2>1. \A i \in b .. (p - 1) : s[i] \in Bytes
    BY <1>1
  <2>2. b \in Int /\ p - 1 \in Int
    BY <1>1
  <2> QED
    BY <2>1, <2>2, SubSeqProperties, Zenon
<1>3. CASE p > b
  <2>1. AddClean(j, s, b, p) = jbuf_add(j, SubSeq(s, b, p - 1))
    BY <1>3, Zenon DEF AddClean
  <2> QED
    BY <1>2, <2>1, AddWrites, Zenon
<1>4. CASE ~(p > b)
  <2>1. SubSeq(s, b, p - 1) = <<>>
    <3>1. b \in Int /\ p - 1 \in Int /\ p - 1 < b
      BY <1>1, <1>4
    <3> QED
      BY <3>1, SubSeqEmpty, Zenon
  <2>2. AddClean(j, s, b, p) = j
    BY <1>4, Zenon DEF AddClean
  <2>3. Content(j) \in Seq(Bytes)
    BY ContentType, Zenon
  <2>4. Content(j) \o <<>> = Content(j)
    BY <2>3, ConcatEmptySeq, Zenon
  <2> QED
    BY <1>2, <2>1, <2>2, <2>4, Zenon DEF Writes
<1> QED
  BY <1>3, <1>4, Zenon

\* What the loop over a string has written, and what it still owes.
EscapeStep(s, l, p) ==
    IF s[p] = "a" THEN l
    ELSE [j |-> jbuf_add(AddClean(l.j, s, l.start, p), escape[s[p]]), start |-> p + 1]

Escaping(j, s, p, l) ==
    /\ l \in [j : Buffers, start : 1 .. Len(s) + 1] /\ l.start <= p + 1
    /\ \E d \in Seq(Bytes) :
          /\ Writes(j, d, l.j)
          /\ d \o SubSeq(s, l.start, p) = <<"quote">> \o Encoded(SubSeq(s, 1, p))

\* The loop of jbuf_add_escaped begins after the opening quote.
LEMMA EscapingStarts ==
    ASSUME NEW j \in Buffers, NEW s \in Seq(Chars)
    PROVE  Escaping(j, s, 0, [j |-> jbuf_add_char(j, "quote"), start |-> 1])
<1> DEFINE l == [j |-> jbuf_add_char(j, "quote"), start |-> 1]
<1>1. "quote" \in Bytes /\ <<"quote">> \in Seq(Bytes) /\ 1 <= 0 + 1
  BY DEF Bytes
<1>2. Writes(j, <<"quote">>, jbuf_add_char(j, "quote"))
  BY <1>1, CharWrites, Zenon
<1>3. Len(s) \in Nat /\ 0 \in 0 .. Len(s) /\ 1 \in 1 .. Len(s) + 1
  BY SourceType
<1>4. l.j = jbuf_add_char(j, "quote") /\ l.start = 1 /\ l \in [j : Buffers, start : 1 .. Len(s) + 1]
  BY <1>2, <1>3, Zenon DEF Writes
<1>5. SubSeq(s, 1, 0) = <<>>
  BY SubSeqEmpty
<1>6. Encoded(SubSeq(s, 1, 0)) = <<>>
  BY <1>3, EncodedGrows, Zenon
<1> QED
  BY <1>1, <1>2, <1>4, <1>5, <1>6, Zenon DEF Escaping

\* One character of the loop of jbuf_add_escaped.
LEMMA EscapingStep ==
    ASSUME NEW j \in Buffers, NEW s \in Seq(Chars), NEW p \in 1 .. Len(s), NEW l,
           Escaping(j, s, p - 1, l)
    PROVE  Escaping(j, s, p, EscapeStep(s, l, p))
<1> DEFINE b == l.start
           q == <<"quote">>
           e == escape[s[p]]
           E == Encoded(SubSeq(s, 1, p - 1))
           F == Encoded(SubSeq(s, 1, p))
           x == SubSeq(s, b, p - 1)
<1>1. PICK d \in Seq(Bytes) : Writes(j, d, l.j) /\ d \o x = q \o E
  BY Zenon DEF Escaping
<1>2. l \in [j : Buffers, start : 1 .. Len(s) + 1] /\ b <= (p - 1) + 1
  BY Zenon DEF Escaping
<1>3. Len(s) \in Nat /\ s[p] \in Chars /\ s \in Seq(Bytes)
  BY SourceType, Zenon
<1>4. /\ p \in 0 .. Len(s) /\ p > 0 /\ b \in 1 .. Len(s) + 1 /\ b \in 1 .. p /\ b \in 1 .. Len(s)
      /\ p \in 1 .. Len(s) + 1 /\ p + 1 \in 1 .. Len(s) + 1 /\ b <= p + 1 /\ p + 1 <= p + 1
      /\ p - 1 \in 0 .. Len(s) /\ p \in b .. Len(s) /\ p < p + 1 /\ p \in Int /\ p + 1 \in Int
  <2>1. b \in 1 .. Len(s) + 1
    BY <1>2, Zenon
  <2> HIDE DEF b
  <2> QED
    BY <1>2, <1>3, <2>1
<1>5. e \in Seq(Bytes) /\ q \in Seq(Bytes)
  <2>1. e \in Seq(Bytes)
    BY <1>3, EscapeType, Zenon
  <2>2. q \in Seq(Bytes)
    BY DEF Bytes
  <2> QED
    BY <2>1, <2>2, Zenon
<1>6. F = E \o e /\ E \in Seq(Bytes) /\ F \in Seq(Bytes)
  BY <1>4, EncodedGrows, Zenon
<1>7. Writes(l.j, x, AddClean(l.j, s, b, p)) /\ x \in Seq(Bytes)
  <2>1. l.j \in Buffers
    BY <1>2, Zenon
  <2> QED
    BY <1>4, <2>1, CleanWrites, Zenon DEF Writes
<1>8. SubSeq(s, b, p) = x \o <<s[p]>>
  BY <1>3, <1>4, SubSeqRecursiveSecond, Zenon
<1>9. SubSeq(s, p + 1, p) = <<>>
  BY <1>4, SubSeqEmpty, Zenon
<1> DEFINE y == SubSeq(s, b, p)
           z == AddClean(l.j, s, b, p)
           k == jbuf_add(z, e)
           m == [j |-> k, start |-> p + 1]
<1>10. EscapeStep(s, l, p) = IF s[p] = "a" THEN l ELSE m
  BY Zenon DEF EscapeStep
<1> HIDE DEF q, e, E, F, x, z, k
<1>11. (q \o E) \o e = q \o F
  BY <1>5, <1>6, Associative, Zenon
<1>12. CASE s[p] = "a"
  <2>1. <<s[p]>> = e
    BY <1>12, EscapeType, Zenon DEF e
  <2>2. d \o y = (d \o x) \o e
    <3>1. (d \o x) \o e = d \o (x \o e)
      BY <1>5, <1>7, Associative, Zenon
    <3>2. y = x \o e
      BY <1>8, <2>1, Zenon
    <3> QED
      BY <3>1, <3>2, Zenon
  <2>3. d \o y = q \o F
    BY <1>1, <1>11, <2>2, Zenon
  <2>4. d \o SubSeq(s, l.start, p) = <<"quote">> \o Encoded(SubSeq(s, 1, p))
    BY <2>3, Zenon DEF q, F
  <2> QED
    BY <1>1, <1>2, <1>4, <1>10, <1>12, <2>4, Zenon DEF Escaping
<1>13. CASE s[p] # "a"
  <2>1. Writes(z, e, k)
    BY <1>5, <1>7, AddWrites, Zenon DEF Writes, z, k
  <2>2. Writes(j, d \o x, z)
    BY <1>1, <1>7, WritesBoth, Zenon DEF z
  <2>3. Writes(j, (d \o x) \o e, k)
    BY <2>1, <2>2, WritesBoth, Zenon
  <2>4. Writes(j, q \o F, k)
    BY <1>1, <1>11, <2>3, Zenon
  <2>5. (q \o F) \o <<>> = q \o F
    <3>1. q \o F \in Seq(Bytes)
      BY <2>4, Zenon DEF Writes
    <3> QED
      BY <3>1, ConcatEmptySeq, Zenon
  <2>6. m.j = k /\ m.start = p + 1 /\ m \in [j : Buffers, start : 1 .. Len(s) + 1]
    BY <1>4, <2>4, Zenon DEF Writes
  <2>7. EscapeStep(s, l, p) = m
    BY <1>10, <1>13, Zenon
  <2> HIDE DEF m
  <2>8. (q \o F) \o SubSeq(s, m.start, p) = <<"quote">> \o Encoded(SubSeq(s, 1, p))
    BY <1>9, <2>5, <2>6, Zenon DEF q, F
  <2>9. m.start <= p + 1 /\ q \o F \in Seq(Bytes) /\ Writes(j, q \o F, m.j)
    BY <1>4, <2>4, <2>6, Zenon DEF Writes
  <2> QED
    BY <2>6, <2>7, <2>8, <2>9, Zenon DEF Escaping
<1> QED
  BY <1>12, <1>13, Zenon

\* jbuf_append_escaped_str writes the encoding of its string, in quotes.
LEMMA EscapedWrites ==
    ASSUME NEW j \in Buffers, NEW s \in Seq(Chars)
    PROVE  Writes(j, <<"quote">> \o Encoded(s) \o <<"quote">>, jbuf_append_escaped_str(j, s))
<1> DEFINE N == Len(s)
           S == [j : Buffers, start : 1 .. Len(s) + 1]
           b == [j |-> jbuf_add_char(j, "quote"), start |-> 1]
           G == [p \in 1 .. N |-> [l \in S |-> EscapeStep(s, l, p)]]
           Def(f) == f = [p \in 0 .. Len(s) |->
                            IF p = 0 THEN [j |-> jbuf_add_char(j, "quote"), start |-> 1]
                            ELSE IF s[p] = "a" THEN f[p - 1]
                                 ELSE [j |-> jbuf_add(AddClean(f[p - 1].j, s, f[p - 1].start, p),
                                                      escape[s[p]]),
                                       start |-> p + 1]]
           L == CHOOSE f : Def(f)
           end == L[Len(s)]
<1>1. jbuf_append_escaped_str(j, s) = jbuf_add_char(AddClean(end.j, s, end.start, Len(s) + 1), "quote")
  BY Zenon DEF jbuf_append_escaped_str
<1>2. N \in Nat /\ (\A p \in 1 .. N : s[p] \in Chars)
  BY SourceType, Zenon
<1>3. ASSUME NEW p \in 1 .. N, NEW l \in S
      PROVE  EscapeStep(s, l, p) \in S
  <2>1. l.j \in Buffers /\ l.start \in 1 .. Len(s) + 1 /\ s[p] \in Chars
    BY <1>2, Zenon
  <2>2. p \in 1 .. Len(s) + 1 /\ p + 1 \in 1 .. Len(s) + 1
    BY <1>2
  <2>3. AddClean(l.j, s, l.start, p) \in Buffers
    BY <2>1, <2>2, CleanWrites, Zenon DEF Writes
  <2>4. jbuf_add(AddClean(l.j, s, l.start, p), escape[s[p]]) \in Buffers
    BY <2>1, <2>3, EscapeType, AddWrites, Zenon DEF Writes
  <2> QED
    BY <2>2, <2>4, Zenon DEF EscapeStep
<1>4. b \in S
  BY EscapingStarts, Zenon DEF Escaping
<1>5. \A p \in 1 .. N : p - 1 \in 0 .. N /\ p \in 0 .. N /\ p # 0
  BY <1>2
<1>6. \A p \in 0 .. N : p # 0 => p \in 1 .. N
  BY <1>2
<1>7. \E f : Def(f)
  <2>1. G \in Steps(S, N)
    BY <1>3, Zenon DEF Steps
  <2> HIDE DEF G, S, b
  <2>2. Takes(S, N, b, G)
    BY <1>2, <1>4, <2>1, Recursion, Zenon
  <2>3. PICK f \in [0 .. N -> S] : f[0] = b /\ \A p \in 1 .. N : f[p] = G[p][f[p - 1]]
    BY <2>2, Zenon DEF Takes
  <2>4. \A p \in 1 .. N : f[p] = EscapeStep(s, f[p - 1], p)
    BY <1>5, <2>3, Zenon DEF G
  <2> USE DEF b
  <2>5. Def(f)
    BY <1>6, <2>3, <2>4, Zenon DEF EscapeStep
  <2> QED
    BY <2>5, Zenon
<1> HIDE DEF Def
<1>8. Def(L)
  BY <1>7, Zenon
<1> HIDE DEF L
<1>9. 0 \in 0 .. N
  BY <1>2
<1>10. L[0] = b /\ \A p \in 1 .. N : L[p] = EscapeStep(s, L[p - 1], p)
  <2>1. L = [p \in 0 .. Len(s) |->
               IF p = 0 THEN [j |-> jbuf_add_char(j, "quote"), start |-> 1]
               ELSE IF s[p] = "a" THEN L[p - 1]
                    ELSE [j |-> jbuf_add(AddClean(L[p - 1].j, s, L[p - 1].start, p), escape[s[p]]),
                          start |-> p + 1]]
    BY <1>8, Zenon DEF Def
  <2>2. L[0] = b
    BY <1>9, <2>1, Zenon
  <2>3. ASSUME NEW p \in 1 .. N PROVE L[p] = EscapeStep(s, L[p - 1], p)
    <3>1. p \in 0 .. Len(s) /\ p # 0
      BY <1>5, Zenon
    <3>2. L[p] = IF s[p] = "a" THEN L[p - 1]
                 ELSE [j |-> jbuf_add(AddClean(L[p - 1].j, s, L[p - 1].start, p), escape[s[p]]),
                       start |-> p + 1]
      BY <2>1, <3>1, Zenon
    <3> QED
      BY <3>2, Zenon DEF EscapeStep
  <2> QED
    BY <2>2, <2>3, Zenon
<1> HIDE DEF b, S, G
<1>11. {p \in 0 .. N : ~Escaping(j, s, p, L[p])} = {}
  <2> DEFINE T == {p \in 0 .. N : ~Escaping(j, s, p, L[p])}
  <2>1. SUFFICES ASSUME T # {} PROVE FALSE
    BY Zenon
  <2>2. T \in SUBSET Nat
    BY <1>2, SMT
  <2>3. PICK p \in T : \A m \in T : p <= m
    BY <2>1, <2>2, Least, Zenon
  <2>4. p \in 0 .. N /\ ~Escaping(j, s, p, L[p])
    BY <2>3, Zenon
  <2>5. p # 0
    BY <1>10, <2>4, EscapingStarts, Zenon DEF b
  <2>6. p \in 1 .. N /\ ~(p <= p - 1)
    BY <1>2, <2>4, <2>5
  <2>7. Escaping(j, s, p - 1, L[p - 1])
    BY <1>5, <2>3, <2>6, Zenon
  <2>8. Escaping(j, s, p, L[p])
    BY <1>10, <2>6, <2>7, EscapingStep, Zenon
  <2> QED
    BY <2>4, <2>8, Zenon
<1>12. Escaping(j, s, Len(s), end)
  <2>1. N \in 0 .. N
    BY <1>2
  <2> QED
    BY <1>11, <2>1, Zenon
<1> DEFINE x == SubSeq(s, end.start, Len(s))
           z == AddClean(end.j, s, end.start, Len(s) + 1)
           q == <<"quote">>
           E == Encoded(s)
<1> HIDE DEF end
<1>13. PICK d \in Seq(Bytes) : Writes(j, d, end.j) /\ d \o x = q \o Encoded(SubSeq(s, 1, Len(s)))
  BY <1>12, Zenon DEF Escaping
<1>14. SubSeq(s, 1, Len(s)) = s
  BY SubSeqFull, Zenon
<1>15. Writes(end.j, x, z)
  <2>1. end.j \in Buffers /\ end.start \in 1 .. Len(s) + 1
    BY <1>12, Zenon DEF Escaping
  <2>2. Len(s) + 1 \in 1 .. Len(s) + 1 /\ (Len(s) + 1) - 1 = Len(s)
    BY <1>2
  <2>3. Writes(end.j, SubSeq(s, end.start, (Len(s) + 1) - 1), z)
    BY <2>1, <2>2, CleanWrites, Zenon
  <2> QED
    BY <2>2, <2>3, Zenon
<1>16. Writes(j, d \o x, z)
  BY <1>13, <1>15, WritesBoth, Zenon
<1>17. "quote" \in Bytes
  BY DEF Bytes
<1>18. Writes(z, q, jbuf_add_char(z, "quote"))
  BY <1>15, <1>17, CharWrites, Zenon DEF Writes
<1> DEFINE k == jbuf_add_char(z, "quote")
<1> HIDE DEF x, z, q, k
<1>19. Writes(j, (d \o x) \o q, k)
  BY <1>16, <1>18, WritesBoth, Zenon DEF k
<1> QED
  BY <1>1, <1>13, <1>14, <1>19, Zenon DEF z, q, k

----------------------------------------------------------------------------
(* Powers of ten, and decimal notation *)

\* The powers of ten exist, and are what their definition says.
LEMMA TensUnfold ==
    /\ tens \in [Nat -> Nat]
    /\ tens[0] = 1
    /\ \A n \in Nat : tens[n + 1] = 10 * tens[n]
<1> DEFINE G == [n \in Nat |-> [f \in [Nat -> Nat] |-> IF n = 0 THEN 1 ELSE 10 * f[n - 1]]]
           Def(f) == f = [n \in Nat |-> IF n = 0 THEN 1 ELSE 10 * f[n - 1]]
<1>1. G \in Rules(Nat)
  <2>1. ASSUME NEW n \in Nat, NEW f \in [Nat -> Nat]
        PROVE  (IF n = 0 THEN 1 ELSE 10 * f[n - 1]) \in Nat
    <3>1. n # 0 => n - 1 \in Nat
      OBVIOUS
    <3>2. n # 0 => f[n - 1] \in Nat
      BY <3>1, Zenon
    <3> QED
      BY <3>2
  <2> QED
    BY <2>1, Zenon DEF Rules
<1>2. Local(Nat, G)
  <2>1. \A n \in Nat : n # 0 => n - 1 \in 0 .. n - 1
    OBVIOUS
  <2> QED
    BY <2>1, Zenon DEF Local, Agree
<1>3. PICK f \in [Nat -> Nat] : \A n \in Nat : f[n] = G[n][f]
  <2>1. 1 \in Nat
    OBVIOUS
  <2> HIDE DEF G
  <2>2. Obeyed(Nat, G)
    BY <1>1, <1>2, <2>1, CourseOfValues, Zenon
  <2> QED
    BY <2>2, Zenon DEF Obeyed
<1>4. \A n \in Nat : f[n] = IF n = 0 THEN 1 ELSE 10 * f[n - 1]
  BY <1>3, Zenon
<1>5. Def(f)
  BY <1>4, Zenon
<1>6. tens = CHOOSE g : Def(g)
  BY Zenon DEF tens
<1> HIDE DEF Def
<1>7. Def(tens)
  BY <1>5, <1>6, Zenon
<1>8. tens = [n \in Nat |-> IF n = 0 THEN 1 ELSE 10 * tens[n - 1]]
  BY <1>7, Zenon DEF Def
<1>9. \A n \in Nat : tens[n] = IF n = 0 THEN 1 ELSE 10 * tens[n - 1]
  BY <1>8, Zenon
<1>10. tens[0] = 1 /\ \A n \in Nat : tens[n + 1] = 10 * tens[n]
  <2>1. 0 \in Nat
    OBVIOUS
  <2>2. \A n \in Nat : n + 1 \in Nat /\ n + 1 # 0 /\ (n + 1) - 1 = n
    OBVIOUS
  <2> QED
    BY <1>9, <2>1, <2>2, Zenon
<1>11. tens \in [Nat -> Nat]
  <2> DEFINE T == {n \in Nat : tens[n] \notin Nat}
  <2>1. T = {}
    <3>1. SUFFICES ASSUME T # {} PROVE FALSE
      BY Zenon
    <3>2. T \in SUBSET Nat
      BY Zenon
    <3>3. PICK n \in T : \A m \in T : n <= m
      BY <3>1, <3>2, Least, Zenon
    <3>4. n \in Nat /\ tens[n] \notin Nat
      BY <3>3, Zenon
    <3>5. n # 0
      <4>1. 1 \in Nat
        OBVIOUS
      <4> QED
        BY <1>10, <3>4, <4>1, Zenon
    <3>6. n - 1 \in Nat /\ ~(n <= n - 1)
      BY <3>4, <3>5
    <3>7. tens[n - 1] \in Nat
      BY <3>3, <3>6, Zenon
    <3>8. 10 * tens[n - 1] \in Nat
      BY <3>7
    <3> QED
      BY <1>9, <3>4, <3>5, <3>8, Zenon
  <2>2. \A n \in Nat : tens[n] \in Nat
    BY <2>1, Zenon
  <2> QED
    BY <1>8, <2>2, Zenon
<1> QED
  BY <1>10, <1>11, Zenon

\* The powers of ten are positive and grow.
LEMMA TensGrow ==
    ASSUME NEW m \in Nat, NEW n \in Nat, m <= n
    PROVE  tens[m] \in Nat /\ 1 <= tens[m] /\ tens[m] <= tens[n]
<1>0. \A k \in Nat : tens[k] \in Nat
  BY TensUnfold, Zenon
<1>1. ASSUME NEW k \in Nat
      PROVE  tens[k] >= 1
  <2> DEFINE T == {i \in Nat : ~(tens[i] >= 1)}
  <2>1. T = {}
    <3>1. SUFFICES ASSUME T # {} PROVE FALSE
      BY Zenon
    <3>2. T \in SUBSET Nat
      BY Zenon
    <3>3. PICK i \in T : \A j \in T : i <= j
      BY <3>1, <3>2, Least, Zenon
    <3>4. i \in Nat /\ ~(tens[i] >= 1)
      BY <3>3, Zenon
    <3>5. i # 0
      BY <3>4, TensUnfold
    <3>6. i - 1 \in Nat /\ ~(i <= i - 1) /\ (i - 1) + 1 = i
      BY <3>4, <3>5
    <3>7. tens[i - 1] >= 1 /\ tens[i - 1] \in Nat
      BY <1>0, <3>3, <3>6, Zenon
    <3>8. tens[i] = 10 * tens[i - 1]
      BY <3>6, TensUnfold, Zenon
    <3> QED
      BY <3>4, <3>7, <3>8
  <2> QED
    BY <2>1, Zenon
<1>2. n \in Nat /\ m <= n
  OBVIOUS
<1> DEFINE T == {i \in Nat : m <= i /\ ~(tens[m] <= tens[i])}
<1>3. T = {}
  <2>1. SUFFICES ASSUME T # {} PROVE FALSE
    BY Zenon
  <2>2. T \in SUBSET Nat
    BY Zenon
  <2>3. PICK i \in T : \A j \in T : i <= j
    BY <2>1, <2>2, Least, Zenon
  <2>4. i \in Nat /\ m <= i /\ ~(tens[m] <= tens[i])
    BY <2>3, Zenon
  <2>5. i # m
    <3>1. tens[m] <= tens[m]
      BY <1>0
    <3> QED
      BY <2>4, <3>1, Zenon
  <2>6. i - 1 \in Nat /\ m <= i - 1 /\ ~(i <= i - 1) /\ (i - 1) + 1 = i
    BY <2>4, <2>5
  <2>7. tens[m] <= tens[i - 1]
    BY <2>3, <2>6, Zenon
  <2>8. tens[i] = 10 * tens[i - 1] /\ tens[m] \in Nat /\ tens[i - 1] \in Nat
    BY <1>0, <2>6, TensUnfold, Zenon
  <2> QED
    BY <2>4, <2>7, <2>8
<1>4. tens[m] <= tens[n]
  BY <1>2, <1>3, Zenon
<1>5. 1 <= tens[m]
  BY <1>0, <1>1
<1> QED
  BY <1>0, <1>4, <1>5, Zenon

\* Quotients and products.
LEMMA Division ==
    ASSUME NEW u \in Nat, NEW t \in Nat, t > 0
    PROVE  /\ u \div t \in Nat /\ u % t \in 0 .. t - 1
           /\ (u \div 10) \div t = u \div (10 * t)
           /\ \A n \in Nat : (n * t <= u <=> n <= u \div t) /\ (u < n * t <=> u \div t < n)
<1>1. u = (t * (u \div t)) + (u % t) /\ u \div t \in Nat /\ u % t \in 0 .. t - 1
  OBVIOUS
<1>2. (u \div 10) \div t = u \div (10 * t)
  OBVIOUS
<1> DEFINE q == u \div t
           r == u % t
<1>3. u = (t * q) + r /\ q \in Nat /\ r \in 0 .. t - 1
  BY <1>1
<1> HIDE DEF q, r
<1>4. ASSUME NEW n \in Nat
      PROVE  (n * t <= u <=> n <= q) /\ (u < n * t <=> q < n)
  <2>1. CASE n <= q
    <3>1. n * t <= q * t
      BY <1>3, <2>1
    <3> QED
      BY <1>3, <2>1, <3>1
  <2>2. CASE q + 1 <= n
    <3>1. (q * t) + t <= n * t
      BY <1>3, <2>2
    <3> QED
      BY <1>3, <2>2, <3>1
  <2> QED
    BY <1>3, <2>1, <2>2
<1> QED
  BY <1>1, <1>2, <1>4, Zenon DEF q

\* A digit, and the last one of a number.
DigitOf(n) == digits_lut[n + 1]

\* Digits are bytes, and only that of zero is the character 0.
LEMMA DigitType ==
    /\ \A d \in 0 .. 9 : DigitOf(d) \in Digits /\ (DigitOf(d) = "0" <=> d = 0)
    /\ \A n \in Nat : n % 10 \in 0 .. 9
    /\ Digits \subseteq Bytes
<1>1. ASSUME NEW d \in 0 .. 9
      PROVE  DigitOf(d) \in Digits /\ (DigitOf(d) = "0" <=> d = 0)
  BY DEF DigitOf, digits_lut, Digits
<1>2. \A n \in Nat : n % 10 \in 0 .. 9
  OBVIOUS
<1>3. Digits \subseteq Bytes
  BY Zenon DEF Bytes
<1> QED
  BY <1>1, <1>2, <1>3, Zenon

\* A digit more is again a sequence of digits.
LEMMA DigitSeqs ==
    ASSUME NEW s \in Seq(Digits)
    PROVE  /\ s \in Seq(Bytes)
           /\ \A n \in Nat : s \o <<DigitOf(n % 10)>> \in Seq(Digits)
<1>1. s \in Seq(Bytes)
  BY DigitType, SeqMonotonic, Zenon
<1>2. ASSUME NEW n \in Nat
      PROVE  s \o <<DigitOf(n % 10)>> \in Seq(Digits)
  <2> DEFINE x == DigitOf(n % 10)
  <2>1. x \in Digits
    BY DigitType, Zenon
  <2> HIDE DEF x
  <2>2. <<x>> \in Seq(Digits)
    BY <2>1
  <2>3. s \o <<x>> \in Seq(Digits)
    BY <2>2, ConcatProperties, Zenon
  <2> QED
    BY <2>3, Zenon DEF x
<1> QED
  BY <1>1, <1>2, Zenon

\* The decimal notation exists, and is what its definition says.
LEMMA DecimalUnfold ==
    /\ decimal \in [Nat -> Seq(Digits)]
    /\ \A n \in Nat : n < 10 => decimal[n] = <<DigitOf(n)>>
    /\ \A n \in Nat : ~(n < 10) => decimal[n] = decimal[n \div 10] \o <<DigitOf(n % 10)>>
<1> DEFINE S == Seq(Digits)
           Rule(n, f) == IF n < 10 THEN <<digits_lut[n + 1]>>
                         ELSE f[n \div 10] \o <<digits_lut[(n % 10) + 1]>>
           G == [n \in Nat |-> [f \in [Nat -> S] |-> Rule(n, f)]]
           Def(f) == f = [n \in Nat |-> IF n < 10 THEN <<digits_lut[n + 1]>>
                                        ELSE f[n \div 10] \o <<digits_lut[(n % 10) + 1]>>]
<1>1. \A n \in Nat : n \div 10 \in Nat /\ (~(n < 10) => n \div 10 \in 0 .. n - 1)
  OBVIOUS
<1>2. \A n \in Nat : n < 10 => <<digits_lut[n + 1]>> \in S
  <2>1. ASSUME NEW n \in Nat, n < 10
        PROVE  <<DigitOf(n)>> \in S
    <3>1. n \in 0 .. 9
      BY <2>1
    <3>2. DigitOf(n) \in Digits
      BY <3>1, DigitType, Zenon
    <3> QED
      BY <3>2
  <2> QED
    BY <2>1, Zenon DEF DigitOf
<1>3. G \in Rules(S)
  <2>1. ASSUME NEW n \in Nat, NEW f \in [Nat -> S]
        PROVE  Rule(n, f) \in S
    <3>1. f[n \div 10] \o <<DigitOf(n % 10)>> \in S
      BY <1>1, DigitSeqs, Zenon
    <3> QED
      BY <1>2, <3>1, Zenon DEF DigitOf
  <2> HIDE DEF Rule
  <2> QED
    BY <2>1, Zenon DEF Rules
<1>4. Local(S, G)
  BY <1>1, Zenon DEF Local, Agree
<1>5. PICK f \in [Nat -> S] : \A n \in Nat : f[n] = G[n][f]
  <2>1. <<>> \in S
    OBVIOUS
  <2> HIDE DEF G, S
  <2>2. Obeyed(S, G)
    BY <1>3, <1>4, <2>1, CourseOfValues, Zenon
  <2> QED
    BY <2>2, Zenon DEF Obeyed
<1>6. \A n \in Nat : f[n] = Rule(n, f)
  BY <1>5, Zenon
<1>7. Def(f)
  BY <1>6, <1>5, Zenon
<1>8. decimal = CHOOSE g : Def(g)
  BY Zenon DEF decimal
<1> HIDE DEF Def
<1>9. Def(decimal)
  BY <1>7, <1>8, Zenon
<1>10. decimal = [n \in Nat |-> IF n < 10 THEN <<digits_lut[n + 1]>>
                                ELSE decimal[n \div 10] \o <<digits_lut[(n % 10) + 1]>>]
  BY <1>9, Zenon DEF Def
<1>11. \A n \in Nat : decimal[n] = Rule(n, decimal)
  BY <1>10, Zenon
<1>12. ASSUME NEW n \in Nat
       PROVE  decimal[n] \in S
  <2> DEFINE T == {i \in Nat : decimal[i] \notin S}
  <2>1. SUFFICES ASSUME T # {} PROVE FALSE
    BY Zenon
  <2>2. T \in SUBSET Nat
    BY Zenon
  <2>3. PICK i \in T : \A m \in T : i <= m
    BY <2>1, <2>2, Least, Zenon
  <2>4. i \in Nat /\ decimal[i] \notin S
    BY <2>3, Zenon
  <2>5. ~(i < 10)
    BY <1>2, <1>11, <2>4, Zenon
  <2>6. i \div 10 \in Nat /\ ~(i <= i \div 10)
    BY <2>4, <2>5
  <2>7. decimal[i \div 10] \in S
    BY <2>3, <2>6, Zenon
  <2>8. decimal[i \div 10] \o <<DigitOf(i % 10)>> \in S
    BY <2>4, <2>7, DigitSeqs, Zenon
  <2> QED
    BY <1>11, <2>4, <2>5, <2>8, Zenon DEF DigitOf
<1>13. decimal \in [Nat -> S]
  BY <1>10, <1>12, Zenon
<1> QED
  BY <1>11, <1>13, Zenon DEF DigitOf

\* A power of ten is positive, and the next one ten times as large.
LEMMA TensType ==
    ASSUME NEW n \in Nat
    PROVE  tens[n] \in Nat /\ tens[n] > 0 /\ tens[n + 1] = 10 * tens[n]
<1>1. n <= n
  OBVIOUS
<1>2. tens[n] \in Nat /\ 1 <= tens[n] /\ tens[n + 1] = 10 * tens[n]
  BY <1>1, TensGrow, TensUnfold, Zenon
<1> QED
  BY <1>2

\* A number loses a digit.
LEMMA Shorter ==
    ASSUME NEW v \in Nat, NEW n \in Nat
    PROVE  /\ v \div 10 \in Nat
           /\ (v \div 10) \div tens[n] = v \div tens[n + 1]
           /\ v \div tens[n] \in Nat
           /\ tens[n] <= v \div 10 <=> tens[n + 1] <= v
           /\ v \div 10 < tens[n] <=> v < tens[n + 1]
<1> DEFINE t == tens[n]
           q == v \div 10
<1>1. t \in Nat /\ t > 0 /\ tens[n + 1] = 10 * t
  BY TensType, Zenon
<1> HIDE DEF t
<1>2. q \div t = v \div (10 * t) /\ v \div t \in Nat
  BY <1>1, Division, Zenon
<1>3. (t <= q <=> 10 * t <= v) /\ (q < t <=> v < 10 * t) /\ q \in Nat
  BY <1>1
<1> QED
  BY <1>1, <1>2, <1>3, Zenon DEF t

\* A group of n digits has n digits, each where it belongs.
LEMMA GroupType ==
    ASSUME NEW v \in Nat, NEW n \in Nat
    PROVE  /\ Group(v, n) \in Seq(Digits) /\ Len(Group(v, n)) = n
           /\ \A d \in 1 .. n : Group(v, n)[d] = DigitOf((v \div tens[n - d]) % 10)
<1> DEFINE g == Group(v, n)
<1>1. g = [d \in 1 .. n |-> DigitOf((v \div tens[n - d]) % 10)]
  BY Zenon DEF Group, DigitOf
<1>2. ASSUME NEW d \in 1 .. n
      PROVE  DigitOf((v \div tens[n - d]) % 10) \in Digits
  <2>1. n - d \in Nat
    OBVIOUS
  <2>2. v \div tens[n - d] \in Nat
    BY <2>1, Shorter, Zenon
  <2> QED
    BY <2>2, DigitType, Zenon
<1> HIDE DEF g
<1>3. g \in [1 .. n -> Digits] /\ \A d \in 1 .. n : g[d] = DigitOf((v \div tens[n - d]) % 10)
  BY <1>1, <1>2, Zenon
<1>4. g \in Seq(Digits) /\ Len(g) = n
  BY <1>3
<1> QED
  BY <1>3, <1>4, Zenon DEF g

\* A group ends with the last digit.
LEMMA GroupLast ==
    ASSUME NEW v \in Nat, NEW n \in Nat
    PROVE  Group(v, n + 1) = Group(v \div 10, n) \o <<DigitOf(v % 10)>>
<1> DEFINE g == Group(v, n + 1)
           q == v \div 10
           h == Group(q, n)
           x == DigitOf(v % 10)
           r == h \o <<x>>
<1>0. q \in Nat /\ n + 1 \in Nat
  BY Shorter
<1>1. /\ g \in Seq(Digits) /\ Len(g) = n + 1
      /\ \A d \in 1 .. n + 1 : g[d] = DigitOf((v \div tens[(n + 1) - d]) % 10)
  BY <1>0, GroupType, Zenon
<1>2. /\ h \in Seq(Digits) /\ Len(h) = n
      /\ \A d \in 1 .. n : h[d] = DigitOf((q \div tens[n - d]) % 10)
  <2> HIDE DEF q
  <2> QED
    BY <1>0, GroupType, Zenon
<1>3. x \in Digits
  BY DigitType, Zenon
<1>4. \A d \in 1 .. n : g[d] = h[d]
  <2>1. ASSUME NEW d \in 1 .. n
        PROVE  g[d] = h[d]
    <3>1. n - d \in Nat /\ (n - d) + 1 = (n + 1) - d /\ d \in 1 .. n + 1
      OBVIOUS
    <3>2. q \div tens[n - d] = v \div tens[(n - d) + 1]
      BY <3>1, Shorter, Zenon
    <3> HIDE DEF g, h, q
    <3> QED
      BY <1>1, <1>2, <3>1, <3>2, Zenon
  <2> QED
    BY <2>1, Zenon
<1>5. g[n + 1] = x
  <2>1. (n + 1) - (n + 1) = 0 /\ n + 1 \in 1 .. n + 1 /\ v \div 1 = v
    OBVIOUS
  <2>2. v \div tens[0] = v
    BY <2>1, TensUnfold, Zenon
  <2> HIDE DEF g
  <2> QED
    BY <1>1, <2>1, <2>2, Zenon
<1> HIDE DEF g, h, x
<1>6. r \in Seq(Digits) /\ Len(r) = n + 1
  BY <1>2, <1>3
<1>7. \A d \in 1 .. n + 1 : r[d] = IF d <= n THEN h[d] ELSE x
  BY <1>2, <1>3
<1>8. \A d \in 1 .. n + 1 : r[d] = g[d]
  <2>1. ASSUME NEW d \in 1 .. n + 1
        PROVE  r[d] = g[d]
    <3>1. (d <= n /\ d \in 1 .. n) \/ (~(d <= n) /\ d = n + 1)
      OBVIOUS
    <3> HIDE DEF r
    <3> QED
      BY <1>4, <1>5, <1>7, <3>1, Zenon
  <2> QED
    BY <2>1, Zenon
<1> HIDE DEF r
<1>9. r = g
  BY <1>1, <1>6, <1>8, SeqEqual
<1> QED
  BY <1>9, Zenon DEF r, g, h, x

\* The decimal notation of a number, but for the group of its last digits.
LEMMA DecimalGroup ==
    ASSUME NEW n \in Nat, NEW v \in Nat, tens[n] <= v
    PROVE  decimal[v] = decimal[v \div tens[n]] \o Group(v, n)
<1> DEFINE Splits(k, u) == decimal[u] = decimal[u \div tens[k]] \o Group(u, k)
           T == {k \in Nat : \E u \in Nat : tens[k] <= u /\ ~Splits(k, u)}
<1>1. SUFFICES ASSUME T # {} PROVE FALSE
  BY Zenon
<1>2. PICK k \in T : \A m \in T : k <= m
  <2>1. T \in SUBSET Nat
    BY Zenon
  <2> QED
    BY <1>1, <2>1, Least, Zenon
<1>3. k \in Nat /\ \E u \in Nat : tens[k] <= u /\ ~Splits(k, u)
  BY <1>2, Zenon
<1>4. PICK u \in Nat : tens[k] <= u /\ ~Splits(k, u)
  BY <1>3, Zenon
<1>5. decimal[u] \in Seq(Digits)
  BY DecimalUnfold, Zenon
<1>6. k # 0
  <2>1. Group(u, 0) = <<>>
    <3>1. Group(u, 0) \in Seq(Digits) /\ Len(Group(u, 0)) = 0
      <4>1. 0 \in Nat
        OBVIOUS
      <4> QED
        BY <4>1, GroupType, Zenon
    <3> QED
      BY <3>1
  <2>2. u \div 1 = u /\ tens[0] = 1
    BY TensUnfold
  <2>3. decimal[u] \o <<>> = decimal[u]
    BY <1>5, ConcatEmptySeq, Zenon
  <2>4. Splits(0, u)
    BY <2>1, <2>2, <2>3, Zenon
  <2> QED
    BY <1>4, <2>4, Zenon
<1> DEFINE m == k - 1
           q == u \div 10
           x == <<DigitOf(u % 10)>>
<1>7. m \in Nat /\ m + 1 = k /\ ~(k <= m)
  BY <1>3, <1>6
<1> HIDE DEF m
<1>8. /\ q \in Nat /\ q \div tens[m] = u \div tens[k]
      /\ q \div tens[m] \in Nat /\ tens[m] <= q
  <2>1. /\ q \in Nat /\ q \div tens[m] = u \div tens[m + 1]
        /\ tens[m] <= q <=> tens[m + 1] <= u
    BY <1>7, Shorter, Zenon
  <2> HIDE DEF q
  <2>2. q \div tens[m] \in Nat
    BY <1>7, <2>1, Shorter, Zenon
  <2> QED
    BY <1>4, <1>7, <2>1, <2>2, Zenon
<1>9. Splits(m, q)
  BY <1>2, <1>7, <1>8, Zenon
<1>10. decimal[u] = decimal[q] \o x
  <2>1. ~(u < 10)
    <3>1. tens[k] = 10 * tens[m] /\ tens[m] \in Nat /\ tens[m] > 0
      BY <1>7, TensType, Zenon
    <3> QED
      BY <1>4, <3>1
  <2> QED
    BY <2>1, DecimalUnfold, Zenon
<1>11. Group(u, k) = Group(q, m) \o x
  BY <1>7, GroupLast, Zenon
<1>12. x \in Seq(Digits)
  <2> DEFINE y == DigitOf(u % 10)
  <2>1. y \in Digits
    BY DigitType, Zenon
  <2> HIDE DEF y
  <2>2. <<y>> \in Seq(Digits)
    BY <2>1
  <2> QED
    BY <2>2, Zenon DEF y
<1> DEFINE D == decimal[q \div tens[m]]
           H == Group(q, m)
<1>13. D \in Seq(Digits) /\ H \in Seq(Digits)
  BY <1>7, <1>8, DecimalUnfold, GroupType, Zenon
<1>14. (D \o H) \o x = D \o (H \o x)
  <2> HIDE DEF D, H, x
  <2>1. D \in Seq(Bytes) /\ H \in Seq(Bytes) /\ x \in Seq(Bytes)
    BY <1>12, <1>13, DigitSeqs, Zenon
  <2> QED
    BY <2>1, Associative, Zenon
<1>15. Splits(k, u)
  BY <1>8, <1>9, <1>10, <1>11, <1>14, Zenon
<1> QED
  BY <1>4, <1>15, Zenon

\* Numbers of one and of two digits are groups of that length.
LEMMA SmallGroups ==
    /\ \A v \in Nat : v < 10 => Group(v, 1) = decimal[v]
    /\ \A v \in Nat : ~(v < 10) /\ v < 100 => Group(v, 2) = decimal[v]
<1>1. ASSUME NEW v \in Nat, v < 10
      PROVE  Group(v, 1) = decimal[v]
  <2> DEFINE H == Group(v \div 10, 0)
             x == DigitOf(v % 10)
  <2>1. Group(v, 0 + 1) = H \o <<x>> /\ 0 + 1 = 1
    <3>1. 0 + 1 = 1 /\ 0 \in Nat
      OBVIOUS
    <3>2. Group(v, 0 + 1) = Group(v \div 10, 0) \o <<DigitOf(v % 10)>>
      BY <3>1, GroupLast, Zenon
    <3> QED
      BY <3>1, <3>2, Zenon
  <2>2. v \div 10 \in Nat /\ v % 10 = v /\ 0 \in Nat
    BY <1>1
  <2>3. H \in Seq(Digits) /\ Len(H) = 0
    BY <2>2, GroupType, Zenon
  <2>4. x \in Digits
    BY DigitType, Zenon
  <2>5. decimal[v] = <<x>>
    BY <1>1, <2>2, DecimalUnfold, Zenon
  <2> HIDE DEF H, x
  <2>6. H \o <<x>> = <<x>>
    BY <2>3, <2>4
  <2> QED
    BY <2>1, <2>5, <2>6, Zenon
<1>2. ASSUME NEW v \in Nat, ~(v < 10), v < 100
      PROVE  Group(v, 2) = decimal[v]
  <2>1. Group(v, 1 + 1) = Group(v \div 10, 1) \o <<DigitOf(v % 10)>> /\ 1 + 1 = 2
    <3>1. 1 + 1 = 2 /\ 1 \in Nat
      OBVIOUS
    <3>2. Group(v, 1 + 1) = Group(v \div 10, 1) \o <<DigitOf(v % 10)>>
      BY <3>1, GroupLast, Zenon
    <3> QED
      BY <3>1, <3>2, Zenon
  <2>2. v \div 10 \in Nat /\ v \div 10 < 10
    BY <1>2
  <2>3. Group(v \div 10, 1) = decimal[v \div 10]
    BY <1>1, <2>2, Zenon
  <2>4. decimal[v] = decimal[v \div 10] \o <<DigitOf(v % 10)>>
    BY <1>2, DecimalUnfold, Zenon
  <2> QED
    BY <2>1, <2>3, <2>4, Zenon
<1> QED
  BY <1>1, <1>2, Zenon

\* The first powers of ten.
LEMMA Powers == tens[0] = 1 /\ tens[1] = 10 /\ tens[2] = 100
<1>1. tens[0] = 1 /\ tens[0 + 1] = 10 * tens[0] /\ tens[1 + 1] = 10 * tens[1]
  BY TensUnfold
<1> QED
  BY <1>1

\* What the loops write is the decimal notation.
LEMMA WrittenIsDecimal ==
    ASSUME NEW v \in Nat
    PROVE  written[v] = decimal[v]
<1> DEFINE Rule(u, f) ==
              IF u >= tens[8] THEN f[u \div tens[8]] \o Group(u, 8)
              ELSE IF u >= tens[4] THEN f[u \div tens[4]] \o Group(u, 4)
              ELSE IF u >= tens[2] THEN f[u \div tens[2]] \o Group(u, 2)
              ELSE IF u < 10 THEN Group(u, 1) ELSE Group(u, 2)
           Def(f) == f = [u \in Nat |->
              IF u >= tens[8] THEN f[u \div tens[8]] \o Group(u, 8)
              ELSE IF u >= tens[4] THEN f[u \div tens[4]] \o Group(u, 4)
              ELSE IF u >= tens[2] THEN f[u \div tens[2]] \o Group(u, 2)
              ELSE IF u < 10 THEN Group(u, 1) ELSE Group(u, 2)]
<1>1. 2 \in Nat /\ 4 \in Nat /\ 8 \in Nat /\ 2 # 0 /\ 4 # 0 /\ 8 # 0
  OBVIOUS
<1>2. ASSUME NEW n \in Nat, NEW u \in Nat
      PROVE  u >= tens[n] <=> tens[n] <= u
  <2>1. tens[n] \in Nat
    BY TensType, Zenon
  <2> QED
    BY <2>1
<1>3. \A u \in Nat : decimal[u] = Rule(u, decimal)
  <2>1. \A n \in Nat : \A u \in Nat : u >= tens[n] => decimal[u] = decimal[u \div tens[n]] \o Group(u, n)
    BY <1>2, DecimalGroup, Zenon
  <2>2. \A u \in Nat : ~(u >= tens[2]) => u < 100
    BY Powers
  <2> QED
    BY <1>1, <2>1, <2>2, SmallGroups, Zenon
<1>4. Def(decimal)
  <2>1. decimal = [u \in Nat |-> decimal[u]]
    BY DecimalUnfold, Zenon
  <2> QED
    BY <1>3, <2>1, Zenon
<1>5. written = CHOOSE g : Def(g)
  BY Zenon DEF written
<1> HIDE DEF Def
<1>6. Def(written)
  BY <1>4, <1>5, Zenon
<1>7. \A u \in Nat : written[u] = Rule(u, written)
  BY <1>6, Zenon DEF Def
<1> DEFINE T == {u \in Nat : written[u] # decimal[u]}
<1>8. SUFFICES ASSUME T # {} PROVE FALSE
  BY Zenon
<1>9. PICK u \in T : \A m \in T : u <= m
  <2>1. T \in SUBSET Nat
    BY Zenon
  <2> QED
    BY <1>8, <2>1, Least, Zenon
<1>10. u \in Nat /\ written[u] # decimal[u]
  BY <1>9, Zenon
<1>11. ASSUME NEW n \in Nat, n # 0, u >= tens[n]
       PROVE  written[u \div tens[n]] = decimal[u \div tens[n]]
  <2> DEFINE t == tens[n]
             q == u \div t
  <2>1. t \in Nat /\ t > 1
    <3>1. n - 1 \in Nat /\ (n - 1) + 1 = n
      BY <1>11
    <3>2. tens[n] = 10 * tens[n - 1] /\ tens[n - 1] \in Nat /\ tens[n - 1] > 0
      BY <3>1, TensType, Zenon
    <3> QED
      BY <3>2
  <2> HIDE DEF t
  <2>2. u >= t
    BY <1>11, Zenon DEF t
  <2>3. q \in Nat /\ ~(u <= q)
    <3>1. q \in Nat
      BY <1>10, <2>1
    <3>2. u = (t * q) + (u % t) /\ u % t \in Nat
      BY <1>10, <2>1
    <3> HIDE DEF q
    <3>3. q > 0 => t * q > q
      BY <2>1, <3>1
    <3>4. q = 0 => ~(u <= q)
      BY <1>10, <2>1, <2>2
    <3> DEFINE r == u % t
               z == t * q
    <3>5. z \in Nat
      BY <2>1, <3>1
    <3>6. u = z + r /\ r \in Nat /\ (q > 0 => z > q)
      BY <3>2, <3>3, Zenon
    <3> HIDE DEF r, z
    <3> QED
      BY <1>10, <3>1, <3>4, <3>5, <3>6
  <2> QED
    BY <1>9, <2>3, Zenon DEF t
<1>12. written[u] = decimal[u]
  <2> HIDE DEF T
  <2>1. CASE u >= tens[8]
    BY <1>1, <1>3, <1>7, <1>10, <1>11, <2>1, Zenon
  <2>2. CASE ~(u >= tens[8]) /\ u >= tens[4]
    BY <1>1, <1>3, <1>7, <1>10, <1>11, <2>2, Zenon
  <2>3. CASE ~(u >= tens[8]) /\ ~(u >= tens[4]) /\ u >= tens[2]
    BY <1>1, <1>3, <1>7, <1>10, <1>11, <2>3, Zenon
  <2>4. CASE ~(u >= tens[8]) /\ ~(u >= tens[4]) /\ ~(u >= tens[2])
    BY <1>3, <1>7, <1>10, <2>4, Zenon
  <2> QED
    BY <2>1, <2>2, <2>3, <2>4, Zenon
<1> QED
  BY <1>10, <1>12, Zenon

\* The length of the decimal notation.
LEMMA DecimalLength ==
    ASSUME NEW v \in Nat
    PROVE  /\ Len(decimal[v]) \in Nat /\ Len(decimal[v]) > 0
           /\ v < tens[Len(decimal[v])]
           /\ Len(decimal[v]) > 1 => tens[Len(decimal[v]) - 1] <= v
<1> DEFINE L(u) == Len(decimal[u])
           Fit(u) == /\ L(u) \in Nat /\ L(u) > 0 /\ u < tens[L(u)]
                     /\ L(u) > 1 => tens[L(u) - 1] <= u
           T == {u \in Nat : ~Fit(u)}
<1>1. SUFFICES ASSUME T # {} PROVE FALSE
  BY Zenon
<1>2. PICK u \in T : \A m \in T : u <= m
  <2>1. T \in SUBSET Nat
    BY Zenon
  <2> QED
    BY <1>1, <2>1, Least, Zenon
<1>3. u \in Nat /\ ~Fit(u)
  BY <1>2, Zenon
<1>4. ~(u < 10)
  <2>1. SUFFICES ASSUME u < 10 PROVE Fit(u)
    BY <1>3, Zenon
  <2>2. decimal[u] = <<DigitOf(u)>>
    BY <1>3, <2>1, DecimalUnfold, Zenon
  <2>3. L(u) = 1
    BY <2>2
  <2> QED
    BY <1>3, <2>1, <2>3, Powers
<1> DEFINE q == u \div 10
           l == L(q)
           k == L(u)
<1>5. q \in Nat /\ ~(u <= q)
  BY <1>3, <1>4
<1>6. Fit(q)
  BY <1>2, <1>5, Zenon
<1>7. decimal[u] = decimal[q] \o <<DigitOf(u % 10)>> /\ decimal[q] \in Seq(Digits)
  BY <1>3, <1>4, <1>5, DecimalUnfold, Zenon
<1>8. k = l + 1
  <2> DEFINE D == decimal[q]
             x == DigitOf(u % 10)
  <2>1. x \in Digits
    BY <1>3, DigitType, Zenon
  <2>2. decimal[u] = D \o <<x>> /\ D \in Seq(Digits)
    BY <1>7, Zenon
  <2> HIDE DEF D, x
  <2>3. Len(decimal[u]) = Len(D) + 1
    BY <2>1, <2>2
  <2> QED
    BY <2>3, Zenon DEF D
<1>9. l \in Nat /\ l > 0 /\ q < tens[l] /\ (l > 1 => tens[l - 1] <= q)
  BY <1>6, Zenon
<1> HIDE DEF l, k
<1>10. k \in Nat /\ k > 0 /\ k - 1 = l /\ l - 1 \in Nat /\ (l - 1) + 1 = l /\ (~(l > 1) => l = 1)
  BY <1>8, <1>9
<1>11. u < tens[k]
  BY <1>3, <1>8, <1>9, Shorter, Zenon
<1>12. tens[k - 1] <= u
  <2>1. CASE l > 1
    BY <1>3, <1>9, <1>10, <2>1, Shorter, Zenon
  <2>2. CASE l = 1
    BY <1>3, <1>4, <1>10, <2>2, Powers
  <2> QED
    BY <1>10, <2>1, <2>2, Zenon
<1>13. Fit(u)
  BY <1>10, <1>11, <1>12, Zenon DEF k
<1> QED
  BY <1>3, <1>13, Zenon

\* Exponents add up.
LEMMA TensAdd ==
    ASSUME NEW m \in Nat, NEW n \in Nat
    PROVE  tens[m + n] = tens[m] * tens[n]
<1> DEFINE T == {k \in Nat : tens[m + k] # tens[m] * tens[k]}
<1>1. SUFFICES ASSUME T # {} PROVE FALSE
  BY Zenon
<1>2. PICK k \in T : \A i \in T : k <= i
  <2>1. T \in SUBSET Nat
    BY Zenon
  <2> QED
    BY <1>1, <2>1, Least, Zenon
<1>3. k \in Nat /\ tens[m + k] # tens[m] * tens[k]
  BY <1>2, Zenon
<1>4. tens[m] \in Nat
  BY TensType, Zenon
<1>5. k # 0
  <2>1. m + 0 = m /\ tens[m] * 1 = tens[m]
    BY <1>4
  <2> QED
    BY <1>3, <2>1, Powers, Zenon
<1> DEFINE j == k - 1
<1>6. j \in Nat /\ j + 1 = k /\ ~(k <= j) /\ m + j \in Nat /\ (m + j) + 1 = m + k
  BY <1>3, <1>5
<1> HIDE DEF j
<1>7. tens[m + j] = tens[m] * tens[j]
  BY <1>2, <1>6, Zenon
<1>8. tens[m + k] = 10 * tens[m + j] /\ tens[k] = 10 * tens[j] /\ tens[j] \in Nat
  BY <1>6, TensType, Zenon
<1> DEFINE a == tens[m]
           b == tens[j]
<1>9. 10 * (a * b) = a * (10 * b)
  <2>1. a \in Nat /\ b \in Nat
    BY <1>4, <1>8, Zenon
  <2> HIDE DEF a, b
  <2> QED
    BY <2>1
<1> QED
  BY <1>3, <1>7, <1>8, <1>9, Zenon

\* A number that is not larger than one of twenty digits has no more.
LEMMA AtMostTwenty ==
    ASSUME NEW v \in Nat, TwentyDigits(v), NEW u \in 0 .. v
    PROVE  u \in Nat /\ u < tens[20]
<1> DEFINE t == tens[9]
           h == tens[2]
           a == v \div t
<1>1. t \in Nat /\ t > 0 /\ h \in Nat
  <2>1. 9 \in Nat /\ 2 \in Nat
    OBVIOUS
  <2> QED
    BY <2>1, TensType, Zenon
<1>2. a \div t < h
  BY Zenon DEF TwentyDigits
<1>3. tens[20] = t * (t * h)
  <2>1. 9 \in Nat /\ 2 \in Nat /\ 11 \in Nat /\ 9 + 2 = 11 /\ 9 + 11 = 20
    OBVIOUS
  <2>2. tens[9 + 2] = t * h
    BY <2>1, TensAdd, Zenon
  <2>3. tens[9 + 11] = t * tens[11]
    BY <2>1, TensAdd, Zenon
  <2>4. tens[11] = t * h
    BY <2>1, <2>2
  <2>5. tens[20] = t * tens[11]
    BY <2>1, <2>3
  <2> QED
    BY <2>4, <2>5, Zenon
<1> HIDE DEF t, h
<1>4. a \in Nat
  BY <1>1, Division, Zenon
<1> HIDE DEF a
<1>5. a < h * t
  BY <1>1, <1>2, <1>4, Division, Zenon
<1>6. h * t \in Nat
  BY <1>1
<1>7. v < (h * t) * t
  BY <1>1, <1>5, <1>6, Division, Zenon DEF a
<1>8. (h * t) * t = t * (t * h)
  BY <1>1
<1>9. v < tens[20]
  BY <1>3, <1>7, <1>8, Zenon
<1>10. tens[20] \in Nat
  BY TensType
<1> QED
  BY <1>9, <1>10

\* count_digits returns the length of the decimal notation.
LEMMA CountDigits ==
    ASSUME NEW v \in Nat, v < tens[20]
    PROVE  count_digits(v) = Len(decimal[v]) /\ Len(decimal[v]) <= 20
<1> DEFINE L == Len(decimal[v])
           Is(n) == v < tens[n] /\ (n > 1 => v >= tens[n - 1])
<1>1. L \in Nat /\ L > 0 /\ v < tens[L] /\ (L > 1 => tens[L - 1] <= v)
  BY DecimalLength, Zenon
<1> HIDE DEF L
<1>2. ASSUME NEW n \in Nat, NEW k \in Nat, v < tens[n], k > 1, tens[k - 1] <= v
      PROVE  k <= n
  <2>1. SUFFICES ASSUME ~(k <= n) PROVE FALSE
    BY Zenon
  <2>2. k - 1 \in Nat /\ n <= k - 1
    BY <1>2, <2>1
  <2>3. tens[n] <= tens[k - 1] /\ tens[n] \in Nat /\ tens[k - 1] \in Nat
    BY <2>2, TensGrow, TensType, Zenon
  <2> QED
    BY <1>2, <2>3
<1>3. L <= 20
  <2>1. 20 \in Nat
    OBVIOUS
  <2>2. L > 1 => L <= 20
    BY <1>1, <1>2, <2>1, Zenon
  <2> QED
    BY <1>1, <2>2
<1>4. \A n \in Nat : n > 1 => (v >= tens[n - 1] <=> tens[n - 1] <= v)
  <2>1. ASSUME NEW n \in Nat, n > 1 PROVE v >= tens[n - 1] <=> tens[n - 1] <= v
    <3>1. n - 1 \in Nat
      BY <2>1
    <3>2. tens[n - 1] \in Nat
      BY <3>1, TensType, Zenon
    <3> QED
      BY <3>2
  <2> QED
    BY <2>1, Zenon
<1>5. L \in 1 .. 20 /\ Is(L)
  <2>1. L \in 1 .. 20
    BY <1>1, <1>3
  <2> QED
    BY <1>1, <1>4, <2>1, Zenon
<1>6. ASSUME NEW n \in 1 .. 20, Is(n)
      PROVE  n = L
  <2>1. n \in Nat
    OBVIOUS
  <2>2. (n > 1 => n <= L) /\ (L > 1 => L <= n)
    BY <1>1, <1>2, <1>4, <1>6, <2>1, Zenon
  <2> QED
    BY <1>1, <2>1, <2>2
<1>7. count_digits(v) = CHOOSE n \in 1 .. 20 : Is(n)
  BY Zenon DEF count_digits
<1> HIDE DEF Is
<1>8. count_digits(v) = L
  BY <1>5, <1>6, <1>7, Zenon
<1> QED
  BY <1>3, <1>8, Zenon DEF L

\* The sign and the digits of a number: no cell between them is left out.
LEMMA InPlaceIs ==
    ASSUME NEW neg \in BOOLEAN, NEW u \in Nat, u < tens[20]
    PROVE  /\ InPlace(neg, u) = Sign(neg) \o decimal[u]
           /\ InPlace(neg, u) \in Seq(Bytes) /\ Len(InPlace(neg, u)) \in 1 .. 21
           /\ Len(InPlace(neg, u)) = Len(decimal[u]) + (IF neg THEN 1 ELSE 0)
<1> DEFINE D == decimal[u]
           s == Sign(neg)
           pad == [n \in 1 .. (count_digits(u) - Len(written[u])) |-> "unset"]
<1>1. count_digits(u) = Len(D) /\ Len(D) <= 20 /\ written[u] = D
  BY CountDigits, WrittenIsDecimal, Zenon
<1>2. D \in Seq(Digits) /\ D \in Seq(Bytes) /\ Len(D) \in Nat /\ Len(D) > 0
  BY DecimalUnfold, DigitSeqs, DecimalLength, Zenon
<1>3. pad = <<>>
  <2>1. count_digits(u) - Len(written[u]) = 0
    BY <1>1, <1>2
  <2>2. [n \in 1 .. 0 |-> "unset"] = <<>>
    OBVIOUS
  <2> QED
    BY <2>1, <2>2, Zenon
<1> DEFINE c == IF neg THEN 1 ELSE 0
<1>4. s \in Seq(Bytes) /\ Len(s) = c /\ c \in 0 .. 1
  <2>1. <<"minus">> \in Seq(Bytes) /\ Len(<<"minus">>) = 1 /\ 1 \in 0 .. 1
    BY DEF Bytes
  <2>2. <<>> \in Seq(Bytes) /\ Len(<<>>) = 0 /\ 0 \in 0 .. 1
    OBVIOUS
  <2>3. CASE neg
    <3>1. s = <<"minus">> /\ c = 1
      BY <2>3, Zenon DEF Sign
    <3> QED
      BY <2>1, <3>1, Zenon
  <2>4. CASE ~neg
    <3>1. s = <<>> /\ c = 0
      BY <2>4, Zenon DEF Sign
    <3> QED
      BY <2>2, <3>1, Zenon
  <2> QED
    BY <2>3, <2>4, Zenon
<1>5. InPlace(neg, u) = (s \o pad) \o D
  BY <1>1, Zenon DEF InPlace
<1> HIDE DEF pad, s, D, c
<1>6. s \o pad = s
  BY <1>3, <1>4, ConcatEmptySeq, Zenon
<1>7. InPlace(neg, u) = s \o D
  BY <1>5, <1>6, Zenon
<1>8. s \o D \in Seq(Bytes) /\ Len(s \o D) = Len(s) + Len(D)
  BY <1>2, <1>4, ConcatProperties, Zenon
<1>9. Len(s \o D) = Len(D) + c /\ Len(s \o D) \in 1 .. 21
  <2> DEFINE l == Len(D)
             y == Len(s \o D)
  <2>1. l \in Nat /\ l > 0 /\ l <= 20 /\ c \in 0 .. 1 /\ y = c + l
    BY <1>1, <1>2, <1>4, <1>8, Zenon
  <2> HIDE DEF l, y
  <2>2. y = l + c /\ y \in 1 .. 21
    BY <2>1
  <2> QED
    BY <2>2, Zenon DEF l, y
<1> QED
  BY <1>7, <1>8, <1>9, Zenon DEF s, D, c

\* The unsigned negation of fast_itoa and fast_ltoa is the absolute value, that
\* of the least number included.
LEMMA MagnitudeIs ==
    ASSUME NEW span \in Nat, NEW v \in Signed(span)
    PROVE  /\ v \in Int
           /\ magnitude(v, span) = IF v < 0 THEN -v ELSE v
           /\ (IF v < 0 THEN -v ELSE v) \in 0 .. span
<1>1. v \in Int /\ -(span \div 2) <= v /\ v <= (span \div 2) - 1
  BY DEF Signed
<1>2. v < 0 => -span < v /\ span > 0
  BY <1>1
<1>3. v < 0 => (0 - (v % span)) % span = -v
  BY <1>1, <1>2
<1>4. (IF v < 0 THEN -v ELSE v) \in 0 .. span
  BY <1>1
<1> QED
  BY <1>1, <1>3, <1>4, Zenon DEF magnitude

\* fast_itoa and fast_ltoa write the numeral, if there is room for it.
LEMMA ToaExact ==
    ASSUME NEW span \in Nat, TwentyDigits(span), NEW v \in Signed(span), NEW size \in Nat
    PROVE  /\ Numeral(v) \in Seq(Bytes) /\ Len(Numeral(v)) \in 1 .. 21
           /\ fast_toa(v, span, size) =
                 IF size < 2 \/ Len(Numeral(v)) + 1 > size THEN <<>> ELSE Numeral(v)
           /\ Len(Numeral(v)) = IF v < 0 THEN Len(decimal[-v]) + 1 ELSE Len(decimal[v])
<1> DEFINE u == IF v < 0 THEN -v ELSE v
           neg == v < 0
<1>1. magnitude(v, span) = u /\ u \in 0 .. span /\ v \in Int
  BY MagnitudeIs, Zenon
<1>2. u \in Nat /\ u < tens[20] /\ neg \in BOOLEAN
  <2>1. neg \in BOOLEAN
    BY <1>1
  <2> HIDE DEF u, neg
  <2> QED
    BY <1>1, <2>1, AtMostTwenty, Zenon
<1>3. /\ InPlace(neg, u) = Sign(neg) \o decimal[u]
      /\ InPlace(neg, u) \in Seq(Bytes) /\ Len(InPlace(neg, u)) \in 1 .. 21
      /\ Len(InPlace(neg, u)) = Len(decimal[u]) + (IF neg THEN 1 ELSE 0)
  <2> HIDE DEF u, neg
  <2> QED
    BY <1>2, InPlaceIs, Zenon
<1>4. Numeral(v) = Sign(neg) \o decimal[u]
  <2>1. decimal[u] \in Seq(Digits)
    BY <1>2, DecimalUnfold, Zenon
  <2>2. CASE v < 0
    BY <2>2, Zenon DEF Numeral, Sign
  <2>3. CASE ~(v < 0)
    <3>1. <<>> \o decimal[u] = decimal[u]
      BY <2>1, ConcatEmptySeq, Zenon
    <3> QED
      BY <2>3, <3>1, Zenon DEF Numeral, Sign
  <2> QED
    BY <2>2, <2>3, Zenon
<1>5. fast_toa(v, span, size) = IF size < 2 \/ Len(InPlace(neg, u)) + 1 > size THEN <<>>
                                ELSE InPlace(neg, u)
  BY <1>1, Zenon DEF fast_toa
<1>6. InPlace(neg, u) = Numeral(v)
  BY <1>3, <1>4, Zenon
<1>7. Len(Numeral(v)) = IF v < 0 THEN Len(decimal[-v]) + 1 ELSE Len(decimal[v])
  <2>1. Len(decimal[u]) \in Nat
    BY <1>2, DecimalLength, Zenon
  <2>2. Len(Numeral(v)) = Len(decimal[u]) + (IF neg THEN 1 ELSE 0)
    BY <1>3, <1>6, Zenon
  <2>3. CASE v < 0
    BY <2>2, <2>3, Zenon
  <2>4. CASE ~(v < 0)
    <3>1. Len(decimal[u]) + 0 = Len(decimal[u])
      BY <2>1
    <3> QED
      BY <2>2, <2>4, <3>1, Zenon
  <2> QED
    BY <2>3, <2>4, Zenon
<1> HIDE DEF u, neg
<1> QED
  BY <1>3, <1>5, <1>6, <1>7, Zenon

----------------------------------------------------------------------------
(* Columns and rows *)

\* The literals of the writer are text.
LEMMA Words ==
    /\ null \in Seq(Bytes) /\ <<"t", "r", "u", "e">> \in Seq(Bytes)
    /\ precomputed_key \in Seq(Bytes) /\ DecimalChars \subseteq Bytes
<1>1. null \in Seq(Bytes)
  BY DEF null, Bytes
<1>2. <<"t", "r", "u", "e">> \in Seq(Bytes)
  BY DEF Bytes
<1>3. precomputed_key \in Seq(Bytes)
  BY DEF precomputed_key, Bytes
<1>4. DecimalChars \subseteq Bytes
  BY DEF DecimalChars, Bytes, Digits
<1> QED
  BY <1>1, <1>2, <1>3, <1>4, Zenon

\* A value of characters that is cut to the room of its column.
LEMMA CutIs ==
    ASSUME NEW s \in Seq(Chars)
    PROVE  /\ (IF Len(s) >= Alloc THEN SubSeq(s, 1, Alloc - 1) ELSE s)
                 = SubSeq(s, 1, Min({Len(s), Alloc - 1}))
           /\ SubSeq(s, 1, Min({Len(s), Alloc - 1})) \in Seq(Chars)
<1> DEFINE m == Min({Len(s), Alloc - 1})
           a == Alloc - 1
           l == Len(s)
<1>1. l \in Nat /\ Alloc \in Nat /\ a \in Nat /\ Alloc > 0
  BY SourceType, JsonTextConstants
<1>2. m = IF l >= Alloc THEN a ELSE l
  <2> DEFINE x == IF l >= Alloc THEN a ELSE l
  <2>1. x \in {l, a} /\ \A y \in {l, a} : x <= y
    BY <1>1
  <2>2. \A z \in {l, a} : (\A y \in {l, a} : z <= y) => z = x
    BY <1>1
  <2>3. m = CHOOSE z \in {l, a} : \A y \in {l, a} : z <= y
    BY Zenon DEF Min
  <2> HIDE DEF x, m, l, a
  <2>4. m = x
    BY <2>1, <2>2, <2>3, Zenon
  <2> QED
    BY <2>4, Zenon DEF x
<1>3. SubSeq(s, 1, l) = s
  BY SubSeqFull, Zenon
<1>4. l >= Alloc => SubSeq(s, 1, a) \in Seq(Chars)
  <2>1. ASSUME l >= Alloc
        PROVE  SubSeq(s, 1, a) \in Seq(Chars)
    <3>1. 1 \in Int /\ a \in Int /\ \A i \in 1 .. a : i \in 1 .. Len(s)
      BY <1>1, <2>1
    <3>2. \A i \in 1 .. a : s[i] \in Chars
      BY <3>1, SourceType, Zenon
    <3> QED
      BY <3>1, <3>2, SubSeqProperties, Zenon
  <2> QED
    BY <2>1, Zenon
<1> QED
  BY <1>2, <1>3, <1>4, Zenon

\* Every column writes its text.
LEMMA ColumnWrites ==
    ASSUME NEW j \in Buffers, NEW v \in Columns
    PROVE  Writes(j, ColumnText(v), append_col_value(j, v))
<1>1. CASE v \in [t : {"null", "bit"}]
  <2>1. v.t = "null" \/ v.t = "bit"
    BY <1>1, Zenon
  <2>2. CASE v.t = "null"
    <3>1. ColumnText(v) = null /\ append_col_value(j, v) = jbuf_add(j, null)
      BY <2>2 DEF ColumnText, append_col_value
    <3> QED
      BY <3>1, Words, AddWrites, Zenon
  <2>3. CASE v.t = "bit"
    <3>1. /\ ColumnText(v) = <<"t", "r", "u", "e">>
          /\ append_col_value(j, v) = jbuf_add(j, <<"t", "r", "u", "e">>)
      BY <2>3 DEF ColumnText, append_col_value
    <3> QED
      BY <3>1, Words, AddWrites, Zenon
  <2> QED
    BY <2>1, <2>2, <2>3, Zenon
<1>2. CASE v \in [t : {"slong"}, v : IntValues]
  <2>1. v.t = "slong" /\ v.v \in IntValues
    BY <1>2, Zenon
  <2> DEFINE N == Numeral(v.v)
             w == fast_toa(v.v, IntSpan, 64)
  <2>2. ColumnText(v) = N /\ append_col_value(j, v) = jbuf_add(j, w)
    BY <2>1 DEF ColumnText, append_col_value
  <2>3. w = N /\ N \in Seq(Bytes)
    <3>1. IntSpan \in Nat /\ TwentyDigits(IntSpan) /\ v.v \in Signed(IntSpan) /\ 64 \in Nat
      BY <2>1, JsonTextConstants, SMT
    <3>2. /\ N \in Seq(Bytes) /\ Len(N) \in 1 .. 21
          /\ w = IF 64 < 2 \/ Len(N) + 1 > 64 THEN <<>> ELSE N
      BY <3>1, ToaExact, SMT
    <3> HIDE DEF N, w
    <3>3. \A l \in 1 .. 21 : ~(64 < 2 \/ l + 1 > 64)
      OBVIOUS
    <3>4. Len(N) \in 1 .. 21
      BY <3>2
    <3>5. ~(64 < 2 \/ Len(N) + 1 > 64)
      BY <3>3, <3>4, Zenon
    <3> QED
      BY <3>2, <3>5
  <2> HIDE DEF N, w
  <2> QED
    BY <2>2, <2>3, AddWrites, Zenon
<1>3. CASE v \in [t : {"decimal"}, s : DecimalValues]
  <2>1. v.t = "decimal" /\ v.s \in DecimalValues
    BY <1>3, Zenon
  <2> DEFINE d == IF v.s = <<>> THEN null ELSE v.s
  <2>2. ColumnText(v) = d /\ append_col_value(j, v) = jbuf_add(j, d)
    BY <2>1 DEF ColumnText, append_col_value
  <2>3. v.s \in Seq(Bytes)
    BY <2>1, Words, SeqMonotonic, JsonTextConstants, Zenon
  <2>4. d \in Seq(Bytes)
    BY <2>3, Words, Zenon
  <2> HIDE DEF d
  <2> QED
    BY <2>2, <2>4, AddWrites, Zenon
<1>4. CASE v \in [t : {"char"}, s : CharValues]
  <2>1. v.t = "char" /\ v.s \in CharValues
    BY <1>4, Zenon
  <2> DEFINE c == IF Len(v.s) >= Alloc THEN SubSeq(v.s, 1, Alloc - 1) ELSE v.s
             e == SubSeq(v.s, 1, Min({Len(v.s), Alloc - 1}))
  <2>2. append_col_value(j, v) = jbuf_append_escaped_str(j, c)
    BY <2>1 DEF append_col_value
  <2>3. ColumnText(v) = <<"quote">> \o Encoded(e) \o <<"quote">>
    BY <2>1 DEF ColumnText
  <2>4. v.s \in Seq(Chars)
    BY <2>1, JsonTextConstants, Zenon
  <2>5. c = e /\ e \in Seq(Chars)
    BY <2>4, CutIs, Zenon
  <2> HIDE DEF c, e
  <2> QED
    BY <2>2, <2>3, <2>5, EscapedWrites, Zenon
<1> QED
  BY <1>1, <1>2, <1>3, <1>4, Zenon DEF Columns

\* One column of a row.
RowStep(row, b, n) ==
    IF n < Len(row) THEN jbuf_add_char(append_col_value(jbuf_add(b, precomputed_key), row[n]), "comma")
    ELSE append_col_value(jbuf_add(b, precomputed_key), row[n])

Comma(yes) == IF yes THEN <<"comma">> ELSE <<>>
Pieces(row) == [n \in DOMAIN row |-> Comma(n > 1) \o precomputed_key \o ColumnText(row[n])]

\* A comma, or none, is text.
LEMMA CommaType == \A yes : Comma(yes) \in Seq(Bytes)
<1>1. <<"comma">> \in Seq(Bytes) /\ <<>> \in Seq(Bytes)
  BY DEF Bytes
<1>2. ASSUME NEW yes PROVE Comma(yes) \in Seq(Bytes)
  <2>1. CASE yes
    BY <1>1, <2>1, Zenon DEF Comma
  <2>2. CASE ~yes
    BY <1>1, <2>2, Zenon DEF Comma
  <2> QED
    BY <2>1, <2>2, Zenon
<1> QED
  BY <1>2, Zenon

\* A column is text.
LEMMA ColumnTextType ==
    ASSUME NEW v \in Columns
    PROVE  ColumnText(v) \in Seq(Bytes)
<1> DEFINE j == Empty
<1>1. j \in Buffers
  BY JsonTextConstants DEF Empty, Buffers
<1> HIDE DEF j
<1> QED
  BY <1>1, ColumnWrites, Zenon DEF Writes

\* A row has a piece for each column.
LEMMA PiecesType ==
    ASSUME NEW N \in Nat, NEW row \in [1 .. N -> Columns]
    PROVE  Pieces(row) \in [1 .. N -> Seq(Bytes)] /\ DOMAIN row = 1 .. N /\ Len(row) = N
<1>1. DOMAIN row = 1 .. N /\ Len(row) = N
  OBVIOUS
<1>2. ASSUME NEW n \in 1 .. N
      PROVE  Comma(n > 1) \o precomputed_key \o ColumnText(row[n]) \in Seq(Bytes)
  <2> DEFINE c == Comma(n > 1)
             k == precomputed_key
             t == ColumnText(row[n])
  <2>1. c \in Seq(Bytes) /\ k \in Seq(Bytes) /\ t \in Seq(Bytes)
    BY CommaType, Words, ColumnTextType, Zenon
  <2> HIDE DEF c, k, t
  <2>2. c \o k \in Seq(Bytes)
    BY <2>1, ConcatProperties, Zenon
  <2>3. (c \o k) \o t \in Seq(Bytes)
    BY <2>1, <2>2, ConcatProperties, Zenon
  <2> QED
    BY <2>3, Zenon DEF c, k, t
<1> QED
  BY <1>1, <1>2, Zenon DEF Pieces

\* What the loop over the columns has written after n of them.
Rowing(j, row, n, b) ==
    Writes(j, (<<"lbrace">> \o Joined(Prefix(Pieces(row), n))) \o Comma(0 < n /\ n < Len(row)), b)

\* A row begins with its brace.
LEMMA RowingStarts ==
    ASSUME NEW j \in Buffers, NEW N \in Nat, NEW row \in [1 .. N -> Columns]
    PROVE  Rowing(j, row, 0, jbuf_add_char(j, "lbrace"))
<1> DEFINE q == <<"lbrace">>
<1>1. "lbrace" \in Bytes /\ q \in Seq(Bytes) /\ 0 \in 0 .. N /\ ~(0 < 0)
  BY DEF Bytes
<1>2. Writes(j, q, jbuf_add_char(j, "lbrace"))
  BY <1>1, CharWrites, Zenon
<1> DEFINE f == Pieces(row)
<1>3. Joined(Prefix(f, 0)) = <<>>
  <2>1. f \in [1 .. N -> Seq(Bytes)]
    BY PiecesType, Zenon
  <2> HIDE DEF f
  <2>2. OneMore(Bytes, f, 0)
    BY <1>1, <2>1, JoinedPrefix, Zenon
  <2> QED
    BY <2>2, Zenon DEF OneMore
<1>4. Comma(0 < 0 /\ 0 < Len(row)) = <<>>
  BY <1>1, Zenon DEF Comma
<1> HIDE DEF q
<1>5. (q \o <<>>) \o <<>> = q
  BY <1>1, ConcatEmptySeq, Zenon
<1> QED
  BY <1>2, <1>3, <1>4, <1>5, Zenon DEF Rowing, q

\* One column of a row.
LEMMA RowingStep ==
    ASSUME NEW j \in Buffers, NEW N \in Nat, NEW row \in [1 .. N -> Columns], NEW n \in 1 .. N,
           NEW b, Rowing(j, row, n - 1, b)
    PROVE  Rowing(j, row, n, RowStep(row, b, n))
<1> DEFINE f == Pieces(row)
           q == <<"lbrace">>
           E == Joined(Prefix(f, n - 1))
           F == Joined(Prefix(f, n))
           p == Comma(n > 1)
           k == precomputed_key
           t == ColumnText(row[n])
           s == Comma(0 < n /\ n < Len(row))
           x == jbuf_add(b, k)
           y == append_col_value(x, row[n])
           z == RowStep(row, b, n)
<1>1. f \in [1 .. N -> Seq(Bytes)] /\ DOMAIN row = 1 .. N /\ Len(row) = N
  BY PiecesType, Zenon
<1>2. n \in 0 .. N /\ n > 0 /\ n - 1 \in 0 .. N /\ ((0 < n - 1 /\ n - 1 < N) <=> n > 1) /\ 0 < n
  OBVIOUS
<1>3. q \in Seq(Bytes) /\ "comma" \in Bytes
  BY DEF Bytes
<1>4. p \in Seq(Bytes) /\ k \in Seq(Bytes) /\ t \in Seq(Bytes) /\ row[n] \in Columns
  BY CommaType, Words, ColumnTextType, Zenon
<1>5. f[n] = (p \o k) \o t
  BY <1>1, Zenon DEF Pieces
<1> HIDE DEF f
<1>6. E \in Seq(Bytes) /\ F = E \o f[n]
  <2>1. OneMore(Bytes, f, n) /\ OneMore(Bytes, f, n - 1)
    BY <1>1, <1>2, JoinedPrefix, Zenon
  <2> QED
    BY <1>2, <2>1, Zenon DEF OneMore
<1>7. Writes(j, (q \o E) \o p, b)
  <2>1. Comma(0 < n - 1 /\ n - 1 < Len(row)) = p
    BY <1>1, <1>2, Zenon DEF Comma
  <2> QED
    BY <2>1, Zenon DEF Rowing, f
<1>8. z = IF n < Len(row) THEN jbuf_add_char(y, "comma") ELSE y
  BY Zenon DEF RowStep
<1>9. Writes(b, k, x) /\ x \in Buffers
  BY <1>4, <1>7, AddWrites, Zenon DEF Writes
<1>10. Writes(x, t, y) /\ y \in Buffers
  BY <1>4, <1>9, ColumnWrites, Zenon DEF Writes
<1> HIDE DEF q, E, F, p, k, t, x, y, z
<1> DEFINE A == q \o E
<1>11. A \in Seq(Bytes) /\ p \o k \in Seq(Bytes)
  BY <1>3, <1>4, <1>6, ConcatProperties, Zenon
<1> HIDE DEF A
<1>12. Writes(j, ((A \o p) \o k) \o t, y)
  <2>1. Writes(j, A \o p, b)
    BY <1>7, Zenon DEF A
  <2>2. Writes(j, (A \o p) \o k, x)
    BY <1>9, <2>1, WritesBoth, Zenon
  <2> QED
    BY <1>10, <2>2, WritesBoth, Zenon
<1>13. ((A \o p) \o k) \o t = q \o F
  <2>1. (A \o p) \o k = A \o (p \o k)
    BY <1>4, <1>11, Associative, ZenonT(30)
  <2>2. (A \o (p \o k)) \o t = A \o f[n]
    <3> DEFINE g == p \o k
    <3>1. A \in Seq(Bytes) /\ g \in Seq(Bytes) /\ t \in Seq(Bytes)
      BY <1>4, <1>11, Zenon
    <3> HIDE DEF g
    <3>2. (A \o g) \o t = A \o (g \o t)
      BY <3>1, Associative, Zenon
    <3> QED
      BY <1>5, <3>2, Zenon DEF g
  <2>3. f[n] \in Seq(Bytes)
    BY <1>1, Zenon
  <2>4. (q \o E) \o f[n] = q \o (E \o f[n])
    BY <1>3, <1>6, <2>3, Associative, Zenon
  <2> QED
    BY <1>6, <2>1, <2>2, <2>4, Zenon DEF A
<1>14. Writes(y, s, z)
  <2>1. CASE n < Len(row)
    <3>1. s = <<"comma">> /\ z = jbuf_add_char(y, "comma")
      BY <1>2, <1>8, <2>1, Zenon DEF Comma
    <3> QED
      BY <1>3, <1>10, <3>1, CharWrites, Zenon
  <2>2. CASE ~(n < Len(row))
    <3>1. s = <<>> /\ z = y
      BY <1>8, <2>2, Zenon DEF Comma
    <3>2. Content(y) \in Seq(Bytes) /\ <<>> \in Seq(Bytes)
      BY <1>10, ContentType
    <3>3. Content(y) \o <<>> = Content(y)
      BY <3>2, ConcatEmptySeq, Zenon
    <3> QED
      BY <1>10, <3>1, <3>2, <3>3, Zenon DEF Writes
  <2> QED
    BY <2>1, <2>2, Zenon
<1> HIDE DEF s
<1>15. Writes(j, (q \o F) \o s, z)
  BY <1>12, <1>13, <1>14, WritesBoth, Zenon
<1> QED
  BY <1>15, Zenon DEF Rowing, q, F, s, z, f

\* jbuf_append_row_object writes the text of its row.
LEMMA RowWrites ==
    ASSUME NEW j \in Buffers, NEW N \in Nat, N > 0, NEW row \in [1 .. N -> Columns]
    PROVE  Writes(j, RowText(row), jbuf_append_row_object(j, row))
<1> DEFINE b == jbuf_add_char(j, "lbrace")
           G == [n \in 1 .. N |-> [c \in Buffers |-> RowStep(row, c, n)]]
           Def(f) == f = [n \in 0 .. Len(row) |->
                            IF n = 0 THEN jbuf_add_char(j, "lbrace")
                            ELSE IF n < Len(row)
                                 THEN jbuf_add_char(append_col_value(jbuf_add(f[n - 1], precomputed_key),
                                                                     row[n]), "comma")
                                 ELSE append_col_value(jbuf_add(f[n - 1], precomputed_key), row[n])]
           L == CHOOSE f : Def(f)
<1>1. jbuf_append_row_object(j, row) = jbuf_add_char(L[Len(row)], "rbrace")
  BY Zenon DEF jbuf_append_row_object
<1>2. Pieces(row) \in [1 .. N -> Seq(Bytes)] /\ DOMAIN row = 1 .. N /\ Len(row) = N
  BY PiecesType, Zenon
<1>3. "lbrace" \in Bytes /\ "rbrace" \in Bytes /\ "comma" \in Bytes
  BY DEF Bytes
<1>4. b \in Buffers
  BY <1>3, CharWrites, Zenon DEF Writes
<1>5. ASSUME NEW n \in 1 .. N, NEW c \in Buffers
      PROVE  RowStep(row, c, n) \in Buffers
  <2>1. jbuf_add(c, precomputed_key) \in Buffers /\ row[n] \in Columns
    BY Words, AddWrites, Zenon DEF Writes
  <2>2. append_col_value(jbuf_add(c, precomputed_key), row[n]) \in Buffers
    BY <2>1, ColumnWrites, Zenon DEF Writes
  <2>3. jbuf_add_char(append_col_value(jbuf_add(c, precomputed_key), row[n]), "comma") \in Buffers
    BY <1>3, <2>2, CharWrites, Zenon DEF Writes
  <2> QED
    BY <2>2, <2>3, Zenon DEF RowStep
<1>6. \A n \in 1 .. N : n - 1 \in 0 .. N /\ n \in 0 .. N /\ n # 0
  OBVIOUS
<1>7. \A n \in 0 .. N : n # 0 => n \in 1 .. N
  OBVIOUS
<1>8. \E f : Def(f)
  <2>1. G \in Steps(Buffers, N)
    BY <1>5, Zenon DEF Steps
  <2> HIDE DEF G, b
  <2>2. Takes(Buffers, N, b, G)
    BY <1>4, <2>1, Recursion, Zenon
  <2>3. PICK f \in [0 .. N -> Buffers] : f[0] = b /\ \A n \in 1 .. N : f[n] = G[n][f[n - 1]]
    BY <2>2, Zenon DEF Takes
  <2>4. \A n \in 1 .. N : f[n] = RowStep(row, f[n - 1], n)
    BY <1>6, <2>3, Zenon DEF G
  <2>5. f = [n \in 0 .. N |-> f[n]]
    BY <2>3, Zenon
  <2>6. ASSUME NEW n \in 0 .. N
        PROVE  f[n] = IF n = 0 THEN jbuf_add_char(j, "lbrace") ELSE RowStep(row, f[n - 1], n)
    BY <1>7, <2>3, <2>4, Zenon DEF b
  <2>7. f = [n \in 0 .. N |-> IF n = 0 THEN jbuf_add_char(j, "lbrace") ELSE RowStep(row, f[n - 1], n)]
    BY <2>5, <2>6, Zenon
  <2>8. Def(f)
    BY <1>2, <2>7, Zenon DEF RowStep
  <2> QED
    BY <2>8, Zenon
<1> HIDE DEF Def
<1>9. Def(L)
  BY <1>8, Zenon
<1> HIDE DEF L
<1>10. L[0] = b /\ \A n \in 1 .. N : L[n] = RowStep(row, L[n - 1], n)
  <2>1. L = [n \in 0 .. N |-> IF n = 0 THEN jbuf_add_char(j, "lbrace") ELSE RowStep(row, L[n - 1], n)]
    BY <1>2, <1>9, Zenon DEF Def, RowStep
  <2>2. 0 \in 0 .. N
    OBVIOUS
  <2>3. L[0] = b
    BY <2>1, <2>2, Zenon
  <2>4. ASSUME NEW n \in 1 .. N PROVE L[n] = RowStep(row, L[n - 1], n)
    <3>1. n \in 0 .. N /\ n # 0
      BY <1>6, Zenon
    <3> QED
      BY <2>1, <3>1, Zenon
  <2> QED
    BY <2>3, <2>4, Zenon
<1>11. {n \in 0 .. N : ~Rowing(j, row, n, L[n])} = {}
  <2> DEFINE T == {n \in 0 .. N : ~Rowing(j, row, n, L[n])}
  <2>1. SUFFICES ASSUME T # {} PROVE FALSE
    BY Zenon
  <2>2. T \in SUBSET Nat
    BY SMT
  <2>3. PICK n \in T : \A m \in T : n <= m
    BY <2>1, <2>2, Least, Zenon
  <2>4. n \in 0 .. N /\ ~Rowing(j, row, n, L[n])
    BY <2>3, Zenon
  <2>5. n # 0
    BY <1>10, <2>4, RowingStarts, Zenon
  <2>6. n \in 1 .. N /\ ~(n <= n - 1)
    BY <2>4, <2>5
  <2>7. Rowing(j, row, n - 1, L[n - 1])
    BY <1>6, <2>3, <2>6, Zenon
  <2>8. Rowing(j, row, n, L[n])
    BY <1>10, <2>6, <2>7, RowingStep, Zenon
  <2> QED
    BY <2>4, <2>8, Zenon
<1>12. N \in 0 .. N /\ ~(N < N)
  OBVIOUS
<1> DEFINE q == <<"lbrace">>
           r == <<"rbrace">>
           F == Joined(Prefix(Pieces(row), N))
<1>13. Writes(j, q \o F, L[N])
  <2>1. Rowing(j, row, N, L[N])
    BY <1>11, <1>12, Zenon
  <2>2. Comma(0 < N /\ N < Len(row)) = <<>>
    BY <1>2, <1>12, Zenon DEF Comma
  <2>3. F \in Seq(Bytes) /\ q \in Seq(Bytes)
    <3>1. q \in Seq(Bytes)
      BY DEF Bytes
    <3> DEFINE f == Pieces(row)
    <3> HIDE DEF f
    <3>2. f \in [1 .. N -> Seq(Bytes)]
      BY <1>2, Zenon DEF f
    <3>3. OneMore(Bytes, f, N)
      BY <1>12, <3>2, JoinedPrefix, Zenon
    <3> QED
      BY <3>1, <3>3, Zenon DEF OneMore, f
  <2>4. Writes(j, (q \o F) \o <<>>, L[N])
    BY <2>1, <2>2, Zenon DEF Rowing
  <2> HIDE DEF q, F
  <2>5. q \o F \in Seq(Bytes)
    BY <2>3, ConcatProperties, Zenon
  <2>6. (q \o F) \o <<>> = q \o F
    BY <2>5, ConcatEmptySeq, Zenon
  <2> QED
    BY <2>4, <2>6, Zenon
<1>14. RowText(row) = (q \o F) \o r
  <2>1. Pieces(row) = Prefix(Pieces(row), N)
    <3> DEFINE f == Pieces(row)
    <3> HIDE DEF f
    <3>1. f \in [1 .. N -> Seq(Bytes)]
      BY <1>2, Zenon DEF f
    <3>2. f = Prefix(f, N)
      BY <3>1, Zenon DEF Prefix
    <3> QED
      BY <3>2, Zenon DEF f
  <2>2. RowText(row) = (q \o Joined(Pieces(row))) \o r
    BY Zenon DEF RowText, Pieces, Comma
  <2> QED
    BY <2>1, <2>2, Zenon
<1>15. Writes(L[N], r, jbuf_add_char(L[N], "rbrace"))
  BY <1>3, <1>13, CharWrites, Zenon DEF Writes
<1> DEFINE k == jbuf_add_char(L[N], "rbrace")
<1> HIDE DEF q, r, F, k
<1>16. Writes(j, (q \o F) \o r, k)
  BY <1>13, <1>15, WritesBoth, Zenon DEF k
<1> QED
  BY <1>1, <1>2, <1>14, <1>16, Zenon DEF k

----------------------------------------------------------------------------
(* json_encode_string *)

\* All the first n characters take six bytes.
AllSix(src, n) == \A m \in 1 .. n : src[m] = "c"

StringOk(src, size, p, d, ret) ==
    /\ src \in Seq(Chars) /\ size \in Nat /\ p \in 1 .. Len(src) + 1
    /\ d = Encoded(SubSeq(src, 1, p - 1))
    /\ Len(d) = 0 \/ Len(d) < size
    /\ AllSix(src, p - 1) => Len(d) = 6 * (p - 1)
    /\ ~AllSix(src, p - 1) => Len(d) <= (6 * (p - 1)) - 4
    /\ size = (6 * Len(src)) + 1 /\ AllSix(src, Len(src) - 1) /\ Len(src) > 0 => p <= Len(src)
    /\ ret # "running" => p > Len(src) \/ ~has_room(Len(d), size)

\* json_encode_string begins with an empty text.
LEMMA StringStarts ==
    ASSUME NEW src \in Seq(Chars), NEW size \in Nat
    PROVE  StringOk(src, size, 1, <<>>, "running")
<1>1. Len(src) \in Nat /\ 0 \in 0 .. Len(src) /\ 1 \in 1 .. Len(src) + 1 /\ 1 - 1 = 0
  BY SourceType
<1>2. Encoded(SubSeq(src, 1, 0)) = <<>>
  BY <1>1, EncodedGrows, Zenon
<1>3. AllSix(src, 0)
  BY DEF AllSix
<1>4. Len(<<>>) = 0 /\ 6 * 0 = 0 /\ (Len(src) > 0 => 1 <= Len(src))
  BY <1>1
<1> QED
  BY <1>1, <1>2, <1>3, <1>4, Zenon DEF StringOk

\* The loop writes the escape of one character.
LEMMA StringAdvances ==
    ASSUME NEW src, NEW size, NEW p, NEW d, StringOk(src, size, p, d, "running"),
           p <= Len(src), has_room(Len(d), size)
    PROVE  StringOk(src, size, p + 1, d \o escape[src[p]], "running")
<1> DEFINE N == Len(src)
           x == src[p]
           e == escape[x]
           l == Len(d)
           k == Len(e)
           n == Len(d \o e)
<1>1. /\ src \in Seq(Chars) /\ size \in Nat /\ p \in 1 .. N + 1
      /\ d = Encoded(SubSeq(src, 1, p - 1))
      /\ AllSix(src, p - 1) => l = 6 * (p - 1)
      /\ ~AllSix(src, p - 1) => l <= (6 * (p - 1)) - 4
  BY Zenon DEF StringOk
<1>2. N \in Nat /\ \A m \in 1 .. N : src[m] \in Chars
  BY <1>1, SourceType, Zenon
<1>3. /\ p \in 1 .. N /\ p \in 0 .. N /\ p > 0 /\ p - 1 \in 0 .. N /\ p + 1 \in 1 .. N + 1
      /\ (p + 1) - 1 = p /\ p \in 1 .. p
      /\ \A m \in 1 .. p : m = p \/ m \in 1 .. p - 1
      /\ \A m \in 1 .. p - 1 : m \in 1 .. p
  BY <1>1, <1>2
<1>4. x \in Chars
  BY <1>2, <1>3, Zenon
<1>5. k \in 1 .. 6 /\ (k = 6 <=> x = "c") /\ (x # "c" => k <= 2) /\ e \in Seq(Bytes)
  BY <1>4, EscapeType, Zenon
<1>6. d \o e = Encoded(SubSeq(src, 1, p)) /\ d \in Seq(Bytes)
  BY <1>1, <1>3, EncodedGrows, Zenon
<1>7. n = l + k /\ l \in Nat
  <2>1. e \in Seq(Bytes) /\ d \in Seq(Bytes)
    BY <1>5, <1>6, Zenon
  <2> HIDE DEF e
  <2> QED
    BY <2>1
<1>8. AllSix(src, p) <=> AllSix(src, p - 1) /\ x = "c"
  BY <1>3, Zenon DEF AllSix
<1> HIDE DEF l, k, n
<1>9. l + 7 < size
  BY Zenon DEF has_room, l
<1>10. n < size
  BY <1>1, <1>5, <1>7, <1>9
<1>11. AllSix(src, p) => n = 6 * p
  <2>1. ASSUME AllSix(src, p) PROVE n = 6 * p
    <3>1. l = 6 * (p - 1) /\ k = 6
      BY <1>1, <1>5, <1>8, <2>1, Zenon
    <3> QED
      BY <1>3, <1>7, <3>1
  <2> QED
    BY <2>1, Zenon
<1>12. ~AllSix(src, p) => n <= (6 * p) - 4
  <2>1. ASSUME ~AllSix(src, p) PROVE n <= (6 * p) - 4
    <3>1. CASE AllSix(src, p - 1)
      <4>1. l = 6 * (p - 1) /\ k <= 2
        BY <1>1, <1>5, <1>8, <2>1, <3>1, Zenon
      <4> QED
        BY <1>3, <1>5, <1>7, <4>1
    <3>2. CASE ~AllSix(src, p - 1)
      <4>1. l <= (6 * (p - 1)) - 4
        BY <1>1, <3>2, Zenon
      <4> QED
        BY <1>3, <1>5, <1>7, <4>1
    <3> QED
      BY <3>1, <3>2, Zenon
  <2> QED
    BY <2>1, Zenon
<1>13. ASSUME size = (6 * N) + 1, AllSix(src, N - 1), N > 0
       PROVE  p + 1 <= N
  <2>1. \A m \in 1 .. p - 1 : m \in 1 .. N - 1
    BY <1>2, <1>3
  <2>2. AllSix(src, p - 1)
    BY <1>13, <2>1, Zenon DEF AllSix
  <2>3. l = 6 * (p - 1)
    BY <1>1, <2>2, Zenon
  <2> QED
    BY <1>2, <1>3, <1>9, <1>13, <2>3
<1> QED
  BY <1>1, <1>3, <1>6, <1>10, <1>11, <1>12, <1>13, Zenon DEF StringOk, n

\* And stops.
LEMMA StringStops ==
    ASSUME NEW src, NEW size, NEW p, NEW d, NEW ret, StringOk(src, size, p, d, ret)
    PROVE  /\ d = Encoded(SubSeq(src, 1, p - 1))
           /\ d # <<>> => Len(d) < size
           /\ ret = "true" /\ size = (6 * Len(src)) + 1 /\ Len(src) > 0 =>
                 IF \A m \in 1 .. (Len(src) - 1) : src[m] = "c" THEN p = Len(src) ELSE p = Len(src) + 1
<1> DEFINE N == Len(src)
           l == Len(d)
<1>1. /\ src \in Seq(Chars) /\ size \in Nat /\ p \in 1 .. N + 1
      /\ d = Encoded(SubSeq(src, 1, p - 1))
      /\ l = 0 \/ l < size
      /\ AllSix(src, p - 1) => l = 6 * (p - 1)
      /\ ~AllSix(src, p - 1) => l <= (6 * (p - 1)) - 4
      /\ size = (6 * N) + 1 /\ AllSix(src, N - 1) /\ N > 0 => p <= N
      /\ ret # "running" => p > N \/ ~has_room(l, size)
  BY Zenon DEF StringOk
<1>2. N \in Nat
  BY <1>1, SourceType, Zenon
<1>3. d \in Seq(Bytes) /\ l \in Nat
  <2>1. p - 1 \in 0 .. N
    BY <1>1, <1>2
  <2> QED
    BY <1>1, <2>1, EncodedGrows, LenProperties, Zenon
<1>4. d # <<>> => l < size
  BY <1>1, <1>3, EmptySeq
<1>5. ASSUME ret = "true", size = (6 * N) + 1, N > 0
      PROVE  IF AllSix(src, N - 1) THEN p = N ELSE p = N + 1
  <2> HIDE DEF l, N
  <2>1. p > N \/ ~(l + 7 < size)
    <3>1. ret # "running"
      BY <1>5
    <3> QED
      BY <1>1, <3>1, Zenon DEF has_room
  <2>2. CASE AllSix(src, N - 1)
    <3>1. p <= N
      BY <1>1, <1>5, <2>2, Zenon
    <3>2. \A m \in 1 .. p - 1 : m \in 1 .. N - 1
      BY <1>1, <1>2, <3>1
    <3>3. AllSix(src, p - 1)
      BY <2>2, <3>2, Zenon DEF AllSix
    <3>4. l = 6 * (p - 1)
      BY <1>1, <3>3, Zenon
    <3>5. p = N
      BY <1>1, <1>2, <1>5, <2>1, <3>1, <3>4
    <3> QED
      BY <2>2, <3>5, Zenon
  <2>3. CASE ~AllSix(src, N - 1)
    <3>1. SUFFICES ASSUME ~(p = N + 1) PROVE FALSE
      BY <2>3, Zenon
    <3>2. p <= N /\ p - 1 \in Nat
      BY <1>1, <1>2, <3>1
    <3>3. l <= 6 * (p - 1)
      <4>1. CASE AllSix(src, p - 1)
        <5>1. l = 6 * (p - 1)
          BY <1>1, <4>1, Zenon
        <5> QED
          BY <3>2, <5>1
      <4>2. CASE ~AllSix(src, p - 1)
        <5>1. l <= (6 * (p - 1)) - 4
          BY <1>1, <4>2, Zenon
        <5> QED
          BY <1>3, <3>2, <5>1
      <4> QED
        BY <4>1, <4>2, Zenon
    <3>4. p = N
      BY <1>1, <1>2, <1>3, <1>5, <2>1, <3>2, <3>3
    <3>5. l <= (6 * (p - 1)) - 4
      BY <1>1, <2>3, <3>4, Zenon
    <3> QED
      BY <1>1, <1>2, <1>3, <1>5, <2>1, <3>2, <3>5, <3>4
  <2> QED
    BY <2>2, <2>3, Zenon
<1> QED
  BY <1>1, <1>4, <1>5, Zenon DEF AllSix

----------------------------------------------------------------------------
(* fetch_resultset_array *)

RowPieces(r) == [n \in DOMAIN r |-> Comma(n > 1) \o RowText(r[n])]
RowsOf(r) == Joined(RowPieces(r))

\* A row is text.
LEMMA RowTextType ==
    ASSUME NEW N \in Nat, N > 0, NEW row \in [1 .. N -> Columns]
    PROVE  RowText(row) \in Seq(Bytes)
<1> DEFINE j == Empty
<1>1. j \in Buffers
  BY JsonTextConstants DEF Empty, Buffers
<1> HIDE DEF j
<1> QED
  BY <1>1, RowWrites, Zenon DEF Writes

\* One row more.
LEMMA RowsGrow ==
    ASSUME NEW N \in Nat, N > 0, NEW r \in Seq([1 .. N -> Columns]), NEW row \in [1 .. N -> Columns]
    PROVE  /\ RowsOf(r) \in Seq(Bytes)
           /\ RowsOf(Append(r, row)) = RowsOf(r) \o (Comma(r # <<>>) \o RowText(row))
<1> DEFINE S == [1 .. N -> Columns]
           R == Append(r, row)
           M == Len(r)
           f == RowPieces(R)
<1>1. \A x \in S : RowText(x) \in Seq(Bytes)
  BY RowTextType, Zenon
<1> HIDE DEF S
<1>2. r \in Seq(S) /\ row \in S
  BY Zenon DEF S
<1>3. /\ M \in Nat /\ DOMAIN r = 1 .. M /\ DOMAIN R = 1 .. (M + 1)
      /\ \A n \in 1 .. M : R[n] = r[n] /\ r[n] \in S
      /\ R[M + 1] = row /\ (M + 1 > 1 <=> r # <<>>)
  BY <1>2
<1>4. \A n \in 1 .. (M + 1) : n \in 1 .. M \/ n = M + 1
  BY <1>3
<1>5. M + 1 \in 1 .. (M + 1) /\ M + 1 \in Nat /\ M + 1 \in 0 .. M + 1 /\ M \in 0 .. M + 1 /\ M + 1 > 0
      /\ (M + 1) - 1 = M /\ \A n \in 1 .. M : n \in 1 .. (M + 1)
  BY <1>3
<1>6. ASSUME NEW n \in 1 .. (M + 1)
      PROVE  Comma(n > 1) \o RowText(R[n]) \in Seq(Bytes)
  <2> DEFINE c == Comma(n > 1)
             t == RowText(R[n])
  <2>1. R[n] \in S
    BY <1>2, <1>3, <1>4, Zenon
  <2>2. c \in Seq(Bytes) /\ t \in Seq(Bytes)
    BY <1>1, <2>1, CommaType, Zenon
  <2> HIDE DEF c, t
  <2>3. c \o t \in Seq(Bytes)
    BY <2>2, ConcatProperties, Zenon
  <2> QED
    BY <2>3, Zenon DEF c, t
<1> HIDE DEF M, R
<1>7. /\ f \in [1 .. M + 1 -> Seq(Bytes)]
      /\ f[M + 1] = Comma(M + 1 > 1) \o RowText(row)
      /\ f = Prefix(f, M + 1)
  <2>1. f = [n \in 1 .. (M + 1) |-> Comma(n > 1) \o RowText(R[n])]
    BY <1>3, Zenon DEF RowPieces
  <2> HIDE DEF f
  <2>2. f \in [1 .. M + 1 -> Seq(Bytes)] /\ f[M + 1] = Comma(M + 1 > 1) \o RowText(row)
    BY <1>3, <1>5, <1>6, <2>1, Zenon
  <2>3. f = Prefix(f, M + 1)
    BY <2>2, Zenon DEF Prefix
  <2> QED
    BY <2>2, <2>3, Zenon
<1>8. RowPieces(r) = Prefix(f, M)
  <2>1. \A n \in 1 .. M : f[n] = Comma(n > 1) \o RowText(r[n])
    BY <1>3, <1>5, Zenon DEF RowPieces
  <2>2. RowPieces(r) = [n \in 1 .. M |-> Comma(n > 1) \o RowText(r[n])]
    BY <1>3, Zenon DEF RowPieces
  <2> HIDE DEF f
  <2> QED
    BY <2>1, <2>2, Zenon DEF Prefix
<1> HIDE DEF f
<1>9. OneMore(Bytes, f, M + 1) /\ OneMore(Bytes, f, M)
  BY <1>5, <1>7, JoinedPrefix, Zenon
<1>10. Joined(Prefix(f, M + 1)) = Joined(Prefix(f, M)) \o f[M + 1]
  BY <1>5, <1>9, Zenon DEF OneMore
<1>11. Joined(Prefix(f, M)) \in Seq(Bytes)
  BY <1>9, Zenon DEF OneMore
<1>12. RowsOf(R) = Joined(Prefix(f, M + 1)) /\ RowsOf(r) = Joined(Prefix(f, M))
  BY <1>7, <1>8, Zenon DEF RowsOf, f
<1>13. Comma(M + 1 > 1) = Comma(r # <<>>)
  BY <1>3, Zenon DEF Comma
<1> QED
  BY <1>7, <1>10, <1>11, <1>12, <1>13, Zenon DEF R

\* No rows, no text.
LEMMA NoRows == RowsOf(<<>>) = <<>>
<1>1. DOMAIN <<>> = 1 .. 0 /\ 0 \in Nat /\ 0 \in 0 .. 0
  OBVIOUS
<1> DEFINE f == RowPieces(<<>>)
<1>2. f = [n \in 1 .. 0 |-> Comma(n > 1) \o RowText(<<>>[n])]
  BY <1>1, Zenon DEF RowPieces
<1> HIDE DEF f
<1>3. \A n \in 1 .. 0 : FALSE
  OBVIOUS
<1>4. f \in [1 .. 0 -> Seq(Bytes)]
  BY <1>2, <1>3, Zenon
<1>5. OneMore(Bytes, f, 0)
  BY <1>1, <1>4, JoinedPrefix, Zenon
<1>6. f = Prefix(f, 0)
  BY <1>4, Zenon DEF Prefix
<1> QED
  BY <1>5, <1>6, Zenon DEF OneMore, RowsOf, f

\* Rows are text.
LEMMA RowsType ==
    ASSUME NEW N \in Nat, NEW r \in Seq([1 .. N -> Columns]), N > 0 \/ r = <<>>
    PROVE  RowsOf(r) \in Seq(Bytes)
<1>1. CASE N > 0
  <2>1. \E row : row \in [1 .. N -> Columns]
    <3>1. [t |-> "null"] \in Columns
      BY DEF Columns
    <3>2. [n \in 1 .. N |-> [t |-> "null"]] \in [1 .. N -> Columns]
      BY <3>1, Zenon
    <3> QED
      BY <3>2, Zenon
  <2> QED
    BY <1>1, <2>1, RowsGrow, Zenon
<1>2. CASE r = <<>>
  <2>1. <<>> \in Seq(Bytes)
    OBVIOUS
  <2> QED
    BY <1>2, <2>1, NoRows, Zenon
<1> QED
  BY <1>1, <1>2, Zenon

Opening(yes) == IF yes THEN <<"lbracket">> ELSE <<>>
Closing(yes) == IF yes THEN <<"rbracket">> ELSE <<>>

\* The buffer j holds the document of the rows r, as far as it is written.
RowsOk(b, count, r, j, ret) ==
    /\ b \in BOOLEAN /\ count \in Nat /\ j \in Buffers /\ r \in Seq([1 .. count -> Columns])
    /\ count > 0 \/ (r = <<>> /\ b)
    /\ Content(j) = (Opening(b /\ (r # <<>> \/ ret # "running")) \o RowsOf(r))
                       \o Closing(ret = "true" /\ b)
    /\ ret # "running" => j.stack = <<>>

\* The brackets, where there are some, are text.
LEMMA Brackets ==
    /\ \A yes : Opening(yes) \in Seq(Bytes) /\ Closing(yes) \in Seq(Bytes)
    /\ \A s \in Seq(Bytes) : s \o <<>> = s /\ <<>> \o s = s
    /\ <<>> \in Seq(Bytes) /\ <<"lbracket">> \in Seq(Bytes) /\ <<"rbracket">> \in Seq(Bytes)
    /\ "comma" \in Bytes /\ "rbracket" \in Bytes
    /\ <<"lbracket", "rbracket">> = (<<"lbracket">> \o <<>>) \o <<"rbracket">>
<1>1. <<"lbracket">> \in Seq(Bytes) /\ <<"rbracket">> \in Seq(Bytes) /\ <<>> \in Seq(Bytes)
  BY DEF Bytes
<1>2. "comma" \in Bytes /\ "rbracket" \in Bytes
  BY DEF Bytes
<1>3. \A s \in Seq(Bytes) : s \o <<>> = s /\ <<>> \o s = s
  BY ConcatEmptySeq, Zenon
<1>4. \A yes : Opening(yes) \in Seq(Bytes) /\ Closing(yes) \in Seq(Bytes)
  <2> TAKE yes
  <2>1. CASE yes
    BY <1>1, <2>1, Zenon DEF Opening, Closing
  <2>2. CASE ~yes
    BY <1>1, <2>2, Zenon DEF Opening, Closing
  <2> QED
    BY <2>1, <2>2, Zenon
<1>5. <<"lbracket", "rbracket">> = (<<"lbracket">> \o <<>>) \o <<"rbracket">>
  <2>1. <<"lbracket">> \o <<>> = <<"lbracket">>
    BY <1>1, <1>3, Zenon
  <2>2. ASSUME NEW x, NEW y PROVE <<x>> \o <<y>> = <<x, y>>
    <3> DEFINE s == <<x>> \o <<y>>
               t == <<x, y>>
    <3>1. s \in Seq({x, y}) /\ t \in Seq({x, y})
      OBVIOUS
    <3>2. Len(s) = 2 /\ Len(t) = 2 /\ s[1] = x /\ s[2] = y /\ t[1] = x /\ t[2] = y
      OBVIOUS
    <3>3. \A n \in 1 .. 2 : n = 1 \/ n = 2
      OBVIOUS
    <3> HIDE DEF s, t
    <3>4. s = t
      BY <3>1, <3>2, <3>3, SeqEqual, Zenon
    <3> QED
      BY <3>4, Zenon DEF s, t
  <2> QED
    BY <2>1, <2>2, Zenon
<1> QED
  BY <1>1, <1>2, <1>3, <1>4, <1>5, Zenon

\* Nothing is written by doing nothing.
LEMMA Nothing == ASSUME NEW j \in Buffers PROVE Writes(j, <<>>, j)
  BY ContentType, Brackets, Zenon DEF Writes

\* Before the first fetch nothing is written.
LEMMA RowsStart ==
    ASSUME NEW b \in BOOLEAN, NEW count \in Nat, count > 0 \/ b
    PROVE  RowsOk(b, count, <<>>, Empty, "running")
<1>1. Empty \in Buffers /\ Content(Empty) = <<>>
  BY JsonTextConstants DEF Empty, Buffers, Content
<1>2. <<>> \in Seq([1 .. count -> Columns])
  OBVIOUS
<1>3. "running" # "true" /\ <<>> \o <<>> = <<>>
  OBVIOUS
<1>4. (Opening(b /\ (<<>> # <<>> \/ "running" # "running")) \o RowsOf(<<>>))
                       \o Closing("running" = "true" /\ b) = <<>>
  BY <1>3, NoRows, Zenon DEF Opening, Closing
<1> QED
  BY <1>1, <1>2, <1>4, Zenon DEF RowsOk

\* What the buffer holds while the loop runs.
LEMMA Running ==
    ASSUME NEW b, NEW count, NEW r, NEW j, RowsOk(b, count, r, j, "running")
    PROVE  /\ b \in BOOLEAN /\ count \in Nat /\ j \in Buffers /\ r \in Seq([1 .. count -> Columns])
           /\ count > 0 \/ (r = <<>> /\ b)
           /\ RowsOf(r) \in Seq(Bytes)
           /\ Content(j) = Opening(b /\ r # <<>>) \o RowsOf(r)
<1>1. /\ b \in BOOLEAN /\ count \in Nat /\ j \in Buffers /\ r \in Seq([1 .. count -> Columns])
      /\ count > 0 \/ (r = <<>> /\ b)
      /\ Content(j) = (Opening(b /\ (r # <<>> \/ "running" # "running")) \o RowsOf(r))
                       \o Closing("running" = "true" /\ b)
  BY Zenon DEF RowsOk
<1>2. RowsOf(r) \in Seq(Bytes)
  BY <1>1, RowsType, Zenon
<1> DEFINE o == Opening(b /\ r # <<>>)
           t == RowsOf(r)
<1>3. "running" # "true"
  OBVIOUS
<1>4. Content(j) = (o \o t) \o <<>>
  BY <1>1, <1>3, Zenon DEF Closing, Opening
<1>5. o \in Seq(Bytes) /\ t \in Seq(Bytes)
  BY <1>2, Brackets, Zenon
<1> HIDE DEF o, t
<1>6. Content(j) = o \o t
  <2>1. o \o t \in Seq(Bytes)
    BY <1>5, ConcatProperties, Zenon
  <2> QED
    BY <1>4, <2>1, Brackets, Zenon
<1> QED
  BY <1>1, <1>2, <1>6, Zenon DEF o, t

OpenedOf(b, r, j) == IF b /\ r = <<>> THEN jbuf_add(j, <<"lbracket">>) ELSE j

\* The bracket is written before the first row, and once.
LEMMA OpenedIs ==
    ASSUME NEW b, NEW count, NEW r, NEW j, RowsOk(b, count, r, j, "running")
    PROVE  /\ OpenedOf(b, r, j) \in Buffers
           /\ Content(OpenedOf(b, r, j)) = Opening(b) \o RowsOf(r)
<1>1. j \in Buffers /\ Content(j) = Opening(b /\ r # <<>>) \o RowsOf(r) /\ RowsOf(r) \in Seq(Bytes)
  BY Running, Zenon
<1>2. CASE b /\ r = <<>>
  <2> DEFINE k == jbuf_add(j, <<"lbracket">>)
  <2>1. Writes(j, <<"lbracket">>, k)
    BY <1>1, AddWrites, Brackets, Zenon
  <2>2. Content(j) = <<>> \o <<>>
    BY <1>1, <1>2, NoRows, Zenon DEF Opening
  <2>3. Opening(b) \o RowsOf(r) = <<"lbracket">> \o <<>>
    BY <1>2, NoRows, Zenon DEF Opening
  <2>4. (<<>> \o <<>>) \o <<"lbracket">> = <<"lbracket">> \o <<>>
    OBVIOUS
  <2>5. OpenedOf(b, r, j) = k
    BY <1>2, Zenon DEF OpenedOf
  <2> HIDE DEF k
  <2>6. k \in Buffers /\ Content(k) = Content(j) \o <<"lbracket">>
    BY <2>1, Zenon DEF Writes
  <2> QED
    BY <2>2, <2>3, <2>4, <2>5, <2>6, Zenon
<1>3. CASE ~(b /\ r = <<>>)
  <2>1. OpenedOf(b, r, j) = j
    BY <1>3, Zenon DEF OpenedOf
  <2>2. Opening(b /\ r # <<>>) = Opening(b)
    BY <1>3, Zenon DEF Opening
  <2> QED
    BY <1>1, <2>1, <2>2, Zenon
<1> QED
  BY <1>2, <1>3, Zenon

\* No columns: an empty array.
LEMMA RowsNone ==
    ASSUME NEW b, NEW r, NEW j, RowsOk(b, 0, r, j, "running")
    PROVE  RowsOk(b, 0, r, jbuf_flush(jbuf_add(j, <<"lbracket", "rbracket">>)), "true")
<1> DEFINE w == <<"lbracket", "rbracket">>
           k == jbuf_add(j, w)
           f == jbuf_flush(k)
<1>1. /\ b \in BOOLEAN /\ j \in Buffers /\ r \in Seq([1 .. 0 -> Columns]) /\ 0 \in Nat
      /\ 0 > 0 \/ (r = <<>> /\ b)
      /\ Content(j) = Opening(b /\ r # <<>>) \o RowsOf(r)
  BY Running, Zenon
<1>2. r = <<>> /\ b
  BY <1>1
<1>3. w \in Seq(Bytes)
  BY DEF Bytes
<1>4. (Opening(b /\ (r # <<>> \/ "true" # "running")) \o RowsOf(r)) \o Closing("true" = "true" /\ b) = w
  <2>1. "true" # "running"
    OBVIOUS
  <2> QED
    BY <1>2, <2>1, NoRows, Brackets, Zenon DEF Opening, Closing
<1>5. Content(j) = <<>>
  BY <1>1, <1>2, NoRows, Brackets, Zenon DEF Opening
<1>6. Writes(j, w, k)
  BY <1>1, <1>3, AddWrites, Zenon
<1> HIDE DEF w, k
<1>7. Content(k) = w /\ k \in Buffers
  BY <1>3, <1>5, <1>6, Brackets, Zenon DEF Writes
<1>8. Writes(k, <<>>, f) /\ f.stack = <<>>
  BY <1>7, FlushWrites, Zenon
<1> HIDE DEF f
<1>9. Content(f) = w /\ f \in Buffers
  BY <1>3, <1>7, <1>8, Brackets, Zenon DEF Writes
<1>10. RowsOk(b, 0, r, f, "true")
  BY <1>1, <1>2, <1>4, <1>8, <1>9, Zenon DEF RowsOk
<1> QED
  BY <1>10, Zenon DEF f, k, w

\* A row is added.
LEMMA RowsMore ==
    ASSUME NEW b, NEW count, NEW r, NEW j, RowsOk(b, count, r, j, "running"), count > 0,
           NEW row \in [1 .. count -> Columns]
    PROVE  RowsOk(b, count, Append(r, row),
                  jbuf_append_row_object(IF r = <<>> THEN OpenedOf(b, r, j)
                                         ELSE jbuf_add_char(j, "comma"), row), "running")
<1> DEFINE c == Comma(r # <<>>)
           i == IF r = <<>> THEN OpenedOf(b, r, j) ELSE jbuf_add_char(j, "comma")
           x == RowText(row)
           k == jbuf_append_row_object(i, row)
           o == Opening(b)
           t == RowsOf(r)
           R == Append(r, row)
           S == [1 .. count -> Columns]
<1>1. /\ b \in BOOLEAN /\ count \in Nat /\ j \in Buffers /\ r \in Seq(S)
      /\ t \in Seq(Bytes)
      /\ Content(j) = Opening(b /\ r # <<>>) \o t
  BY Running, Zenon
<1>2. o \in Seq(Bytes) /\ c \in Seq(Bytes) /\ x \in Seq(Bytes)
  BY <1>1, Brackets, CommaType, RowTextType, Zenon
<1>3. RowsOf(R) = t \o (c \o x)
  BY <1>1, RowsGrow, Zenon
<1>4. i \in Buffers /\ Content(i) = (o \o t) \o c
  <2>1. CASE r = <<>>
    <3>1. i = OpenedOf(b, r, j)
      BY <2>1, Zenon
    <3>2. i \in Buffers /\ Content(i) = o \o t
      BY <3>1, OpenedIs, Zenon
    <3>3. c = <<>>
      BY <2>1, Zenon DEF Comma
    <3> HIDE DEF i, o, t, c
    <3>4. o \o t \in Seq(Bytes)
      BY <1>1, <1>2, ConcatProperties, Zenon
    <3> QED
      BY <3>2, <3>3, <3>4, Brackets, Zenon
  <2>2. CASE r # <<>>
    <3>1. i = jbuf_add_char(j, "comma") /\ c = <<"comma">>
      BY <2>2, Zenon DEF Comma
    <3>2. Content(j) = o \o t
      BY <1>1, <2>2, Zenon DEF Opening
    <3>3. Writes(j, c, i)
      BY <1>1, <3>1, CharWrites, Brackets, Zenon
    <3> HIDE DEF i, o, t, c
    <3> QED
      BY <3>2, <3>3, Zenon DEF Writes
  <2> QED
    BY <2>1, <2>2, Zenon
<1> HIDE DEF i
<1>5. Writes(i, x, k)
  BY <1>1, <1>4, RowWrites, Zenon
<1> HIDE DEF k, o, t, c, x
<1>6. k \in Buffers /\ Content(k) = ((o \o t) \o c) \o x
  BY <1>4, <1>5, Zenon DEF Writes
<1>7. ((o \o t) \o c) \o x = o \o (t \o (c \o x))
  <2>1. o \o t \in Seq(Bytes)
    BY <1>1, <1>2, ConcatProperties, Zenon
  <2>2. c \o x \in Seq(Bytes)
    BY <1>1, <1>2, ConcatProperties, Zenon
  <2>3. ((o \o t) \o c) \o x = (o \o t) \o (c \o x)
    BY <1>2, <2>1, Associative, Zenon
  <2>4. (o \o t) \o (c \o x) = o \o (t \o (c \o x))
    BY <1>1, <1>2, <2>2, Associative, Zenon
  <2> QED
    BY <2>3, <2>4, Zenon
<1>8. R \in Seq(S) /\ R # <<>>
  <2>1. r \in Seq(S) /\ row \in S
    BY <1>1, Zenon
  <2> HIDE DEF S
  <2>2. R \in Seq(S) /\ Len(R) = Len(r) + 1 /\ Len(r) \in Nat
    BY <2>1
  <2>3. R # <<>>
    BY <2>2
  <2> QED
    BY <2>2, <2>3, Zenon
<1>9. (Opening(b /\ (R # <<>> \/ "running" # "running")) \o RowsOf(R)) \o Closing("running" = "true" /\ b)
        = Content(k)
  <2> HIDE DEF R
  <2>1. "running" # "true"
    OBVIOUS
  <2>2. (Opening(b /\ (R # <<>> \/ "running" # "running")) \o RowsOf(R)) \o Closing("running" = "true" /\ b)
          = (o \o (t \o (c \o x))) \o <<>>
    BY <1>3, <1>8, <2>1, Zenon DEF Opening, Closing, o
  <2>3. Content(k) \in Seq(Bytes)
    BY <1>6, ContentType, Zenon
  <2> QED
    BY <1>6, <1>7, <2>2, <2>3, Brackets, Zenon
<1> HIDE DEF R
<1>10. RowsOk(b, count, R, k, "running")
  BY <1>1, <1>6, <1>8, <1>9, Zenon DEF RowsOk
<1> QED
  BY <1>10, Zenon DEF k, i, R

\* The last rows: the array is closed and all of it is in the evbuffer.
LEMMA RowsEnd ==
    ASSUME NEW b, NEW count, NEW r, NEW j, RowsOk(b, count, r, j, "running"), count > 0
    PROVE  RowsOk(b, count, r,
                  jbuf_flush(IF b THEN jbuf_add_char(OpenedOf(b, r, j), "rbracket") ELSE j), "true")
<1> DEFINE o == Opening(b)
           t == RowsOf(r)
           e == Closing(b)
           k == IF b THEN jbuf_add_char(OpenedOf(b, r, j), "rbracket") ELSE j
           f == jbuf_flush(k)
<1>1. /\ b \in BOOLEAN /\ count \in Nat /\ j \in Buffers /\ r \in Seq([1 .. count -> Columns])
      /\ t \in Seq(Bytes)
      /\ Content(j) = Opening(b /\ r # <<>>) \o t
  BY Running, Zenon
<1>2. o \in Seq(Bytes) /\ e \in Seq(Bytes)
  BY Brackets, Zenon
<1>3. k \in Buffers /\ Content(k) = (o \o t) \o e
  <2>1. CASE b
    <3> DEFINE i == OpenedOf(b, r, j)
    <3>1. i \in Buffers /\ Content(i) = o \o t
      BY OpenedIs, Zenon
    <3>2. k = jbuf_add_char(i, "rbracket") /\ e = <<"rbracket">>
      BY <2>1, Zenon DEF Closing
    <3> HIDE DEF i, k, o, t, e
    <3>3. Writes(i, e, k)
      BY <3>1, <3>2, CharWrites, Brackets, Zenon
    <3> QED
      BY <3>1, <3>3, Zenon DEF Writes
  <2>2. CASE ~b
    <3>1. k = j /\ e = <<>> /\ Content(j) = o \o t
      BY <1>1, <2>2, Zenon DEF Closing, Opening
    <3> HIDE DEF k, o, t, e
    <3>2. o \o t \in Seq(Bytes)
      BY <1>1, <1>2, ConcatProperties, Zenon
    <3> QED
      BY <1>1, <3>1, <3>2, Brackets, Zenon
  <2> QED
    BY <2>1, <2>2, Zenon
<1> HIDE DEF k
<1>4. Writes(k, <<>>, f) /\ f.stack = <<>>
  BY <1>3, FlushWrites, Zenon
<1> HIDE DEF f
<1>5. Content(f) = (o \o t) \o e /\ f \in Buffers
  <2>1. Content(k) \in Seq(Bytes)
    BY <1>3, ContentType, Zenon
  <2> HIDE DEF o, t, e
  <2> QED
    BY <1>3, <1>4, <2>1, Brackets, Zenon DEF Writes
<1>6. (Opening(b /\ (r # <<>> \/ "true" # "running")) \o RowsOf(r)) \o Closing("true" = "true" /\ b)
        = (o \o t) \o e
  <2>1. "true" # "running"
    OBVIOUS
  <2> QED
    BY <2>1, Zenon DEF Opening, Closing
<1> HIDE DEF o, t, e
<1>7. RowsOk(b, count, r, f, "true")
  BY <1>1, <1>4, <1>5, <1>6, Zenon DEF RowsOk
<1> QED
  BY <1>7, Zenon DEF f, k

\* A fetch fails: what is written stays, and it is all in the evbuffer.
LEMMA RowsFail ==
    ASSUME NEW b, NEW count, NEW r, NEW j, RowsOk(b, count, r, j, "running"), count > 0
    PROVE  RowsOk(b, count, r, jbuf_flush(OpenedOf(b, r, j)), "false")
<1> DEFINE o == Opening(b)
           t == RowsOf(r)
           k == OpenedOf(b, r, j)
           f == jbuf_flush(k)
<1>1. /\ b \in BOOLEAN /\ count \in Nat /\ r \in Seq([1 .. count -> Columns])
      /\ t \in Seq(Bytes)
  BY Running, Zenon
<1>2. k \in Buffers /\ Content(k) = o \o t
  BY OpenedIs, Zenon
<1> HIDE DEF k
<1>3. Writes(k, <<>>, f) /\ f.stack = <<>>
  BY <1>2, FlushWrites, Zenon
<1>4. Content(k) \in Seq(Bytes)
  BY <1>2, ContentType, Zenon
<1>5. (Opening(b /\ (r # <<>> \/ "false" # "running")) \o RowsOf(r)) \o Closing("false" = "true" /\ b)
        = (o \o t) \o <<>>
  <2>1. "false" # "running" /\ "false" # "true"
    OBVIOUS
  <2> QED
    BY <2>1, Zenon DEF Opening, Closing
<1> HIDE DEF f, o, t
<1>6. Content(f) = (o \o t) \o <<>> /\ f \in Buffers
  BY <1>2, <1>3, <1>4, Zenon DEF Writes
<1>7. RowsOk(b, count, r, f, "false")
  BY <1>1, <1>3, <1>5, <1>6, Zenon DEF RowsOk
<1> QED
  BY <1>7, Zenon DEF f, k

----------------------------------------------------------------------------
(* The invariant of the three writers *)

Jobs == StringJobs \cup NumberJobs \cup RowsJobs

WritingInv ==
    /\ job \in Jobs
    /\ returned \in {"running", "true", "false"}
    /\ job.t = "string" => StringOk(job.src, job.size, pos, dest, returned)
    /\ job.t = "rows" => RowsOk(job.write_brackets, job.count, rows, jb, returned)

\* The three kinds of work.
LEMMA JobKinds ==
    /\ \A x \in StringJobs : x.t = "string" /\ x.src \in Seq(Chars) /\ x.size \in Nat
    /\ \A x \in NumberJobs : x.t \in {"int", "long", "double", "nan", "huge"}
    /\ \A x \in RowsJobs : /\ x.t = "rows" /\ x.write_brackets \in BOOLEAN
                           /\ x.count \in Nat /\ (x.count > 0 \/ x.write_brackets)
<1>1. ASSUME NEW x \in StringJobs PROVE x.t = "string" /\ x.src \in Seq(Chars) /\ x.size \in Nat
  <2>1. x.t = "string" /\ x.src \in Sources(MaxLen) /\ x.size \in 0 .. ((6 * MaxLen) + 2)
    BY DEF StringJobs
  <2>2. PICK m \in 0 .. MaxLen : x.src \in [1 .. m -> Chars]
    BY <2>1, Zenon DEF Sources
  <2>3. MaxLen \in Nat
    BY JsonTextConstants
  <2>4. m \in Nat
    BY <2>3
  <2>5. x.src \in Seq(Chars)
    BY <2>2, <2>4
  <2>6. x.size \in Nat
    BY <2>1, <2>3
  <2> QED
    BY <2>1, <2>5, <2>6, Zenon
<1>2. ASSUME NEW x \in NumberJobs PROVE x.t \in {"int", "long", "double", "nan", "huge"}
  BY DEF NumberJobs
<1>3. ASSUME NEW x \in RowsJobs
      PROVE  /\ x.t = "rows" /\ x.write_brackets \in BOOLEAN
             /\ x.count \in Nat /\ (x.count > 0 \/ x.write_brackets)
  <2>1. CASE x \in [t : {"rows"}, write_brackets : BOOLEAN, count : 1 .. MaxColumns]
    <3>1. x.t = "rows" /\ x.count \in 1 .. MaxColumns
      BY <2>1
    <3>2. x.write_brackets \in BOOLEAN
      BY <2>1, Zenon
    <3>3. x.count \in Nat /\ x.count > 0
      BY <3>1, JsonTextConstants
    <3> QED
      BY <3>1, <3>2, <3>3, Zenon
  <2>2. CASE x \in [t : {"rows"}, write_brackets : {TRUE}, count : {0}]
    <3>1. x.t = "rows" /\ x.count \in {0}
      BY <2>2
    <3>2. x.write_brackets \in {TRUE}
      BY <2>2, Zenon
    <3>3. 0 \in Nat
      OBVIOUS
    <3> QED
      BY <3>1, <3>2, <3>3, Zenon
  <2> QED
    BY <2>1, <2>2, Zenon DEF RowsJobs
<1> QED
  BY <1>1, <1>2, <1>3, Zenon

\* The invariant holds at first.
LEMMA WritingStarts == TextInit => WritingInv
<1> SUFFICES ASSUME TextInit PROVE WritingInv
  OBVIOUS
<1>1. job \in Jobs /\ pos = 1 /\ dest = <<>> /\ rows = <<>> /\ jb = Empty /\ returned = "running"
  BY Zenon DEF TextInit, Jobs
<1>2. "string" # "rows" /\ \A k \in {"int", "long", "double", "nan", "huge"} : k # "string" /\ k # "rows"
  OBVIOUS
<1>3. job.t = "string" => StringOk(job.src, job.size, pos, dest, returned)
  BY <1>1, <1>2, JobKinds, StringStarts, Zenon DEF Jobs
<1>4. job.t = "rows" => RowsOk(job.write_brackets, job.count, rows, jb, returned)
  BY <1>1, <1>2, JobKinds, RowsStart, Zenon DEF Jobs
<1> QED
  BY <1>1, <1>3, <1>4, Zenon DEF WritingInv

\* A step of json_encode_string keeps the invariant.
LEMMA EncoderStep == WritingInv /\ json_encode_string => WritingInv'
<1> SUFFICES ASSUME WritingInv, json_encode_string PROVE WritingInv'
  OBVIOUS
<1>1. /\ job.t = "string" /\ returned = "running" /\ job' = job
      /\ \/ /\ pos <= Len(job.src) /\ has_room(Len(dest), job.size)
            /\ dest' = dest \o escape[job.src[pos]] /\ pos' = pos + 1
            /\ returned' = returned
         \/ /\ pos > Len(job.src) \/ ~has_room(Len(dest), job.size)
            /\ returned' = "true"
            /\ pos' = pos /\ dest' = dest
  BY Zenon DEF json_encode_string
<1>2. job \in Jobs /\ StringOk(job.src, job.size, pos, dest, "running")
  BY <1>1, Zenon DEF WritingInv
<1>3. "string" # "rows" /\ "true" # "running"
  OBVIOUS
<1>4. StringOk(job.src, job.size, pos', dest', returned')
  <2>1. CASE /\ pos <= Len(job.src) /\ has_room(Len(dest), job.size)
             /\ dest' = dest \o escape[job.src[pos]] /\ pos' = pos + 1
             /\ returned' = returned
    BY <1>1, <1>2, <2>1, StringAdvances, Zenon
  <2>2. CASE /\ pos > Len(job.src) \/ ~has_room(Len(dest), job.size)
             /\ returned' = "true"
             /\ pos' = pos /\ dest' = dest
    BY <1>2, <1>3, <2>2, Zenon DEF StringOk
  <2> QED
    BY <1>1, <2>1, <2>2, Zenon
<1>5. returned' \in {"running", "true", "false"}
  BY <1>1, Zenon
<1> QED
  BY <1>1, <1>2, <1>3, <1>4, <1>5, Zenon DEF WritingInv

\* A step of fetch_resultset_array keeps the invariant.
LEMMA RowsStepped == WritingInv /\ fetch_resultset_array => WritingInv'
<1> SUFFICES ASSUME WritingInv, fetch_resultset_array PROVE WritingInv'
  OBVIOUS
<1> DEFINE b == job.write_brackets
           n == job.count
<1>1. job.t = "rows" /\ returned = "running" /\ job' = job
  BY Zenon DEF fetch_resultset_array
<1>2. job \in Jobs /\ RowsOk(b, n, rows, jb, "running")
  BY <1>1, Zenon DEF WritingInv
<1>3. Opened = OpenedOf(b, rows, jb)
  BY Zenon DEF Opened, OpenedOf
<1>4. \/ /\ n = 0
         /\ jb' = jbuf_flush(jbuf_add(jb, <<"lbracket", "rbracket">>))
         /\ returned' = "true" /\ rows' = rows
      \/ /\ n > 0
         /\ \E row \in [1 .. n -> Columns] :
               /\ jb' = jbuf_append_row_object(IF rows = <<>> THEN Opened
                                               ELSE jbuf_add_char(jb, "comma"), row)
               /\ rows' = Append(rows, row)
         /\ returned' = "running"
      \/ /\ n > 0
         /\ jb' = jbuf_flush(IF b THEN jbuf_add_char(Opened, "rbracket") ELSE jb)
         /\ returned' = "true" /\ rows' = rows
      \/ /\ n > 0
         /\ jb' = jbuf_flush(Opened)
         /\ returned' = "false" /\ rows' = rows
  BY <1>1, Zenon DEF fetch_resultset_array
<1>5. RowsOk(b, n, rows', jb', returned')
  <2>1. CASE /\ n = 0
             /\ jb' = jbuf_flush(jbuf_add(jb, <<"lbracket", "rbracket">>))
             /\ returned' = "true" /\ rows' = rows
    BY <1>2, <2>1, RowsNone, Zenon
  <2>2. CASE /\ n > 0
             /\ \E row \in [1 .. n -> Columns] :
                   /\ jb' = jbuf_append_row_object(IF rows = <<>> THEN Opened
                                                   ELSE jbuf_add_char(jb, "comma"), row)
                   /\ rows' = Append(rows, row)
             /\ returned' = "running"
    BY <1>2, <1>3, <2>2, RowsMore, Zenon
  <2>3. CASE /\ n > 0
             /\ jb' = jbuf_flush(IF b THEN jbuf_add_char(Opened, "rbracket") ELSE jb)
             /\ returned' = "true" /\ rows' = rows
    BY <1>2, <1>3, <2>3, RowsEnd, Zenon
  <2>4. CASE n > 0 /\ jb' = jbuf_flush(Opened) /\ returned' = "false" /\ rows' = rows
    BY <1>2, <1>3, <2>4, RowsFail, Zenon
  <2> QED
    BY <1>4, <2>1, <2>2, <2>3, <2>4, Zenon
<1>6. returned' \in {"running", "true", "false"} /\ "rows" # "string"
  <2>1. "rows" # "string"
    OBVIOUS
  <2> QED
    BY <1>4, <2>1, Zenon
<1> QED
  BY <1>1, <1>2, <1>5, <1>6, Zenon DEF WritingInv

\* Every step keeps the invariant.
LEMMA WritingStep == WritingInv /\ [TextNext]_text_vars => WritingInv'
<1> SUFFICES ASSUME WritingInv, [TextNext]_text_vars PROVE WritingInv'
  OBVIOUS
<1>1. CASE json_encode_string
  BY <1>1, EncoderStep, Zenon
<1>2. CASE fetch_resultset_array
  BY <1>2, RowsStepped, Zenon
<1>3. CASE format_number
  <2>1. job.t \in {"int", "long", "double", "nan", "huge"} /\ returned' = "true" /\ job' = job
    BY <1>3, Zenon DEF format_number
  <2>2. \A k \in {"int", "long", "double", "nan", "huge"} : k # "string" /\ k # "rows"
    OBVIOUS
  <2> QED
    BY <2>1, <2>2, Zenon DEF WritingInv
<1>4. CASE UNCHANGED text_vars
  BY <1>4, Zenon DEF text_vars, WritingInv
<1> QED
  BY <1>1, <1>2, <1>3, <1>4, Zenon DEF TextNext

\* The invariant gives the property.
LEMMA WritingTexts == WritingInv => TextsInv
<1> SUFFICES ASSUME WritingInv PROVE TextsInv
  OBVIOUS
<1>1. PrefixIsEncoded
  <2>1. CASE job.t = "string"
    <3>1. StringOk(job.src, job.size, pos, dest, returned)
      BY <2>1, Zenon DEF WritingInv
    <3> QED
      BY <3>1, StringStops, Zenon DEF PrefixIsEncoded
  <2> QED
    BY <2>1, Zenon DEF PrefixIsEncoded
<1>2. RowsInOrder
  <2>1. CASE job.t = "rows"
    <3> DEFINE b == job.write_brackets
               yes == b /\ (rows # <<>> \/ returned # "running")
               end == returned = "true" /\ b
               t == RowsOf(rows)
    <3>1. RowsOk(b, job.count, rows, jb, returned)
      BY <2>1, Zenon DEF WritingInv
    <3>2. /\ jb \in Buffers /\ Content(jb) = (Opening(yes) \o t) \o Closing(end)
          /\ returned # "running" => jb.stack = <<>>
          /\ t \in Seq(Bytes)
      BY <3>1, RowsType, Zenon DEF RowsOk
    <3>3. Len(jb.stack) <= StackBuf
      BY <3>2, Zenon DEF Buffers
    <3>4. RowsText = t
      BY Zenon DEF RowsText, RowsOf, RowPieces, Comma
    <3>5. OpenText = IF yes THEN <<"lbracket">> \o t ELSE t
      BY <3>4, Zenon DEF OpenText
    <3>6. OpenText = Opening(yes) \o t /\ OpenText \in Seq(Bytes)
      <4> HIDE DEF t, yes
      <4>1. CASE yes
        <5>1. OpenText = <<"lbracket">> \o t /\ Opening(yes) = <<"lbracket">>
          BY <3>5, <4>1, Zenon DEF Opening
        <5> QED
          BY <3>2, <5>1, Brackets, ConcatProperties, Zenon
      <4>2. CASE ~yes
        BY <3>2, <3>5, <4>2, Brackets, Zenon DEF Opening
      <4> QED
        BY <4>1, <4>2, Zenon
    <3>7. Content(jb) = IF end THEN OpenText \o <<"rbracket">> ELSE OpenText
      <4> HIDE DEF t, yes, end
      <4>1. CASE end
        BY <3>2, <3>6, <4>1, Zenon DEF Closing
      <4>2. CASE ~end
        BY <3>2, <3>6, <4>2, Brackets, Zenon DEF Closing
      <4> QED
        BY <4>1, <4>2, Zenon
    <3> QED
      BY <3>2, <3>3, <3>7, Zenon DEF RowsInOrder, Content
  <2> QED
    BY <2>1, Zenon DEF RowsInOrder
<1> QED
  BY <1>1, <1>2, Zenon DEF TextsInv

\* Strings and result sets are written as their values are, for every size of
\* buffer: json_encode_string writes whole escapes and stays in its buffer, and
\* what goes through the staging buffer of dbapi.c is the document, in order
\* and complete.
THEOREM TextsAreWhole == TextSpec => []TextsInv
<1>1. TextInit => WritingInv
  BY WritingStarts
<1>2. WritingInv /\ [TextNext]_text_vars => WritingInv'
  BY WritingStep
<1>3. WritingInv => TextsInv
  BY WritingTexts
<1> QED
  BY <1>1, <1>2, <1>3, PTL DEF TextSpec

----------------------------------------------------------------------------
(* fast_itoa and fast_ltoa *)

\* What does not fit is at least a power of ten.
LEMMA TooLong ==
    ASSUME NEW v \in Int, NEW size \in Nat, size >= 2,
           (IF v < 0 THEN Len(decimal[-v]) + 1 ELSE Len(decimal[v])) + 1 > size
    PROVE  v >= tens[size - 1] \/ -v >= tens[size - 2]
<1>1. CASE v < 0
  <2> DEFINE u == -v
             l == Len(decimal[u])
  <2>1. u \in Nat /\ u > 0
    BY <1>1
  <2> HIDE DEF u
  <2>2. l \in Nat /\ l > 0 /\ (l > 1 => tens[l - 1] <= u)
    BY <2>1, DecimalLength, Zenon
  <2>3. (l + 1) + 1 > size
    BY <1>1, Zenon DEF u
  <2> HIDE DEF l
  <2>4. size - 2 \in Nat /\ l - 1 \in Nat /\ size - 2 <= l - 1 /\ (~(l > 1) => size - 2 = 0)
    BY <2>2, <2>3
  <2>5. tens[size - 2] <= tens[l - 1] /\ tens[size - 2] \in Nat
    BY <2>4, TensGrow, Zenon
  <2>6. tens[l - 1] \in Nat
    BY <2>4, TensType, Zenon
  <2>7. u >= tens[size - 2]
    <3>1. CASE l > 1
      <4>1. tens[l - 1] <= u
        BY <2>2, <3>1, Zenon
      <4> QED
        BY <2>1, <2>5, <2>6, <4>1
    <3>2. CASE ~(l > 1)
      <4>1. tens[size - 2] = 1
        BY <2>4, <3>2, Powers, Zenon
      <4> QED
        BY <2>1, <4>1
    <3> QED
      BY <3>1, <3>2, Zenon
  <2> QED
    BY <2>7, Zenon DEF u
<1>2. CASE ~(v < 0)
  <2> DEFINE l == Len(decimal[v])
  <2>1. v \in Nat
    BY <1>2
  <2>2. l \in Nat /\ l > 0 /\ (l > 1 => tens[l - 1] <= v)
    BY <2>1, DecimalLength, Zenon
  <2>3. l + 1 > size
    BY <1>2, Zenon
  <2> HIDE DEF l
  <2>4. size - 1 \in Nat /\ l - 1 \in Nat /\ size - 1 <= l - 1 /\ l > 1
    BY <2>2, <2>3
  <2>5. tens[size - 1] <= tens[l - 1] /\ tens[size - 1] \in Nat
    BY <2>4, TensGrow, Zenon
  <2>6. tens[l - 1] \in Nat
    BY <2>4, TensType, Zenon
  <2>7. tens[l - 1] <= v
    BY <2>2, <2>4, Zenon
  <2>8. v >= tens[size - 1]
    BY <2>1, <2>5, <2>6, <2>7
  <2> QED
    BY <2>8, Zenon
<1> QED
  BY <1>1, <1>2, Zenon

\* fast_itoa and fast_ltoa write the numeral, or nothing where it does not fit.
LEMMA IntegerWritten ==
    ASSUME NEW span \in Nat, TwentyDigits(span), NEW v \in Signed(span), NEW size \in Nat
    PROVE  LET d == fast_toa(v, span, size)
           IN \/ /\ d = <<>>
                 /\ size < 2 \/ v >= tens[size - 1] \/ -v >= tens[size - 2]
              \/ d = Numeral(v) /\ Len(d) < size
<1> DEFINE d == fast_toa(v, span, size)
           l == Len(Numeral(v))
<1>1. /\ l \in 1 .. 21
      /\ d = IF size < 2 \/ l + 1 > size THEN <<>> ELSE Numeral(v)
      /\ l = IF v < 0 THEN Len(decimal[-v]) + 1 ELSE Len(decimal[v])
  BY ToaExact, Zenon
<1>2. v \in Int
  BY MagnitudeIs, Zenon
<1> HIDE DEF d
<1>3. CASE size < 2
  BY <1>1, <1>3, Zenon DEF d
<1>4. CASE ~(size < 2) /\ l + 1 > size
  <2>1. size >= 2
    BY <1>4
  <2>2. (IF v < 0 THEN Len(decimal[-v]) + 1 ELSE Len(decimal[v])) + 1 > size
    BY <1>1, <1>4, Zenon
  <2>3. v >= tens[size - 1] \/ -v >= tens[size - 2]
    BY <1>2, <2>1, <2>2, TooLong, Zenon
  <2> QED
    BY <1>1, <1>4, <2>3, Zenon DEF d
<1>5. CASE ~(size < 2) /\ ~(l + 1 > size)
  <2>1. d = Numeral(v)
    BY <1>1, <1>5, Zenon
  <2> HIDE DEF l
  <2>2. l < size
    BY <1>1, <1>5
  <2> QED
    BY <2>1, <2>2, Zenon DEF d, l
<1> QED
  BY <1>3, <1>4, <1>5, Zenon

----------------------------------------------------------------------------
(* fast_dtoa *)

\* A run of zeros.
LEMMA ZerosType ==
    ASSUME NEW n \in Nat
    PROVE  /\ Zeros(n) \in Seq(Digits) /\ Len(Zeros(n)) = n
           /\ \A d \in 1 .. n : Zeros(n)[d] = "0"
           /\ Zeros(n + 1) = Zeros(n) \o <<"0">>
           /\ Zeros(0) = <<>>
<1>1. ASSUME NEW k \in Nat
      PROVE  Zeros(k) \in Seq(Digits) /\ Len(Zeros(k)) = k /\ \A d \in 1 .. k : Zeros(k)[d] = "0"
  <2> DEFINE z == Zeros(k)
  <2>1. "0" \in Digits
    BY DEF Digits
  <2>2. z = [d \in 1 .. k |-> "0"]
    BY Zenon DEF Zeros
  <2> HIDE DEF z
  <2>3. z \in [1 .. k -> Digits] /\ \A d \in 1 .. k : z[d] = "0"
    BY <2>1, <2>2, Zenon
  <2>4. z \in Seq(Digits) /\ Len(z) = k
    <3> HIDE DEF z
    <3> QED
      BY <2>3
  <2> QED
    BY <2>3, <2>4, Zenon DEF z
<1> DEFINE y == Zeros(n)
           z == Zeros(n + 1)
           o == "0"
           s == y \o <<o>>
<1>2. n + 1 \in Nat /\ 0 \in Nat
  OBVIOUS
<1>3. y \in Seq(Digits) /\ Len(y) = n /\ \A d \in 1 .. n : y[d] = o
  BY <1>1, Zenon
<1>4. z \in Seq(Digits) /\ Len(z) = n + 1 /\ \A d \in 1 .. n + 1 : z[d] = o
  BY <1>1, <1>2, Zenon
<1>5. o \in Digits
  BY DEF Digits
<1> HIDE DEF o, y, z
<1>6. s \in Seq(Digits) /\ Len(s) = n + 1
  BY <1>3, <1>5
<1>7. \A d \in 1 .. n + 1 : s[d] = IF d <= n THEN y[d] ELSE o
  BY <1>3, <1>5
<1>8. \A d \in 1 .. n + 1 : d <= n => d \in 1 .. n
  OBVIOUS
<1> HIDE DEF s
<1>9. \A d \in 1 .. n + 1 : s[d] = z[d]
  BY <1>3, <1>4, <1>7, <1>8, Zenon
<1>10. s = z
  BY <1>4, <1>6, <1>9, SeqEqual, Zenon
<1>11. Zeros(0) = <<>>
  <2>1. Zeros(0) \in Seq(Digits) /\ Len(Zeros(0)) = 0
    BY <1>1, <1>2, Zenon
  <2> QED
    BY <2>1, EmptySeq, Zenon
<1> QED
  BY <1>1, <1>10, <1>11, Zenon DEF s, y, z, o

\* A group of n digits is the decimal notation with zeros before it.
LEMMA GroupPadded ==
    ASSUME NEW n \in Nat, n > 0, NEW q \in Nat, q < tens[n]
    PROVE  /\ Len(decimal[q]) \in 1 .. n
           /\ Group(q, n) = Zeros(n - Len(decimal[q])) \o decimal[q]
<1> DEFINE Padded(k, u) == /\ Len(decimal[u]) \in 1 .. k
                           /\ Group(u, k) = Zeros(k - Len(decimal[u])) \o decimal[u]
           T == {k \in Nat : k > 0 /\ \E u \in Nat : u < tens[k] /\ ~Padded(k, u)}
<1>1. SUFFICES T = {}
  BY Zenon
<1>2. SUFFICES ASSUME T # {} PROVE FALSE
  BY Zenon
<1>3. T \in SUBSET Nat
  BY Zenon
<1>4. PICK k \in T : \A m \in T : k <= m
  BY <1>2, <1>3, Least, Zenon
<1>5. k \in Nat /\ k > 0
  BY <1>4, Zenon
<1>6. PICK u \in Nat : u < tens[k] /\ ~Padded(k, u)
  BY <1>4, Zenon
<1> DEFINE D == decimal[u]
           h == k - 1
           w == u \div 10
           x == DigitOf(u % 10)
<1>7. D \in Seq(Digits) /\ Len(D) \in Nat /\ Len(D) > 0
  BY DecimalUnfold, DecimalLength, Zenon
<1>8. h \in Nat /\ h + 1 = k /\ ~(k <= h)
  BY <1>5
<1>9. ASSUME u < 10 PROVE Len(D) = 1 /\ D = <<x>>
  <2>1. u % 10 = u
    BY <1>9
  <2>2. D = <<DigitOf(u)>>
    BY <1>9, DecimalUnfold, Zenon
  <2>3. \A y : Len(<<y>>) = 1
    OBVIOUS
  <2> QED
    BY <2>1, <2>2, <2>3, Zenon
<1>10. \A s \in Seq(Digits) : Zeros(0) \o s = s
  <2>1. Zeros(0) = <<>>
    BY <1>5, ZerosType, Zenon
  <2> QED
    BY <2>1, ConcatEmptySeq, Zenon
<1>11. CASE k = 1
  <2>1. u < 10
    BY <1>6, <1>11, Powers, Zenon
  <2>2. Group(u, 1) = D
    BY <2>1, SmallGroups, Zenon
  <2>3. 1 - 1 = 0 /\ 1 \in 1 .. 1
    OBVIOUS
  <2> QED
    BY <1>6, <1>7, <1>9, <1>10, <1>11, <2>1, <2>2, <2>3, Zenon
<1>12. CASE k # 1
  <2>1. h > 0 /\ w \in Nat
    BY <1>5, <1>12, Shorter
  <2>2. \A a \in Nat : a < tens[h] => Padded(h, a)
    BY <1>4, <1>8, <2>1, Zenon
  <2>3. Group(u, k) = Group(w, h) \o <<x>>
    BY <1>8, GroupLast, Zenon
  <2>4. x \in Digits
    BY DigitType, Zenon
  <2>5. CASE u < 10
    <3>1. w = 0 /\ 0 \in Nat /\ 0 < 10
      BY <2>5
    <3>2. 0 < tens[h]
      BY <1>8, TensType, Zenon
    <3>3. Padded(h, 0)
      BY <2>2, <3>1, <3>2, Zenon
    <3>4. decimal[0] = <<"0">>
      <4>1. DigitOf(0) = "0"
        BY DEF DigitOf, digits_lut
      <4> QED
        BY <3>1, <4>1, DecimalUnfold, Zenon
    <3>5. Len(decimal[0]) = 1
      BY <3>4
    <3>6. Group(w, h) = Zeros(h - 1) \o <<"0">>
      BY <3>1, <3>3, <3>4, <3>5, Zenon
    <3>7. h - 1 \in Nat /\ (h - 1) + 1 = h /\ k - 1 = h /\ 1 \in 1 .. k
      BY <1>8, <2>1
    <3>8. Zeros(h) = Zeros(h - 1) \o <<"0">>
      BY <3>7, ZerosType, Zenon
    <3>9. Group(u, k) = Zeros(k - Len(D)) \o D
      BY <1>9, <2>3, <2>5, <3>6, <3>7, <3>8, Zenon
    <3>10. Len(D) \in 1 .. k
      BY <1>9, <2>5, <3>7, Zenon
    <3> QED
      BY <1>6, <3>9, <3>10, Zenon
  <2>6. CASE ~(u < 10)
    <3> DEFINE E == decimal[w]
               z == Zeros(h - Len(E))
    <3>1. w < tens[h]
      BY <1>6, <1>8, Shorter, Zenon
    <3>2. Len(E) \in 1 .. h /\ Group(w, h) = z \o E
      BY <2>1, <2>2, <3>1, Zenon
    <3>3. D = E \o <<x>> /\ E \in Seq(Digits)
      BY <2>1, <2>6, DecimalUnfold, Zenon
    <3>4. Len(D) = Len(E) + 1
      <4> HIDE DEF E, D, x
      <4> QED
        BY <2>4, <3>3
    <3>5. h - Len(E) \in Nat /\ h - Len(E) = k - Len(D) /\ Len(D) \in 1 .. k
      <4> HIDE DEF E, D, z
      <4> QED
        BY <1>8, <3>2, <3>4
    <3>6. z \in Seq(Digits)
      BY <3>5, ZerosType, Zenon
    <3>7. z = Zeros(k - Len(D))
      BY <3>5, Zenon
    <3> HIDE DEF z, E, D, x
    <3>8. z \in Seq(Bytes) /\ E \in Seq(Bytes) /\ <<x>> \in Seq(Bytes)
      <4>1. <<x>> \in Seq(Digits)
        BY <2>4
      <4> QED
        BY <3>3, <3>6, <4>1, DigitSeqs, Zenon
    <3>9. (z \o E) \o <<x>> = z \o (E \o <<x>>)
      BY <3>8, Associative, Zenon
    <3>10. Group(u, k) = Zeros(k - Len(D)) \o D
      BY <2>3, <3>2, <3>3, <3>7, <3>9, Zenon
    <3> QED
      BY <1>6, <3>5, <3>10, Zenon DEF D
  <2> QED
    BY <2>5, <2>6, Zenon
<1> QED
  BY <1>11, <1>12, Zenon

\* Only the group of nothing has no other digits than zeros.
LEMMA GroupZero ==
    ASSUME NEW n \in Nat, NEW q \in Nat, q < tens[n], \A d \in 1 .. n : Group(q, n)[d] = "0"
    PROVE  q = 0
<1> DEFINE Bad(k, u) == u < tens[k] /\ (\A d \in 1 .. k : Group(u, k)[d] = "0") /\ u # 0
           T == {k \in Nat : \E u \in Nat : Bad(k, u)}
<1>1. SUFFICES T = {}
  BY Zenon
<1>2. SUFFICES ASSUME T # {} PROVE FALSE
  BY Zenon
<1>3. T \in SUBSET Nat
  BY Zenon
<1>4. PICK k \in T : \A m \in T : k <= m
  BY <1>2, <1>3, Least, Zenon
<1>5. k \in Nat
  BY <1>4, Zenon
<1>6. PICK u \in Nat : Bad(k, u)
  BY <1>4, Zenon
<1>7. k # 0
  <2>1. SUFFICES ASSUME k = 0 PROVE FALSE
    BY Zenon
  <2>2. u < 1 /\ u # 0
    BY <1>6, <2>1, Powers, Zenon
  <2> QED
    BY <2>2
<1> DEFINE h == k - 1
           w == u \div 10
           x == DigitOf(u % 10)
           g == Group(w, h)
           s == g \o <<x>>
<1>8. h \in Nat /\ h + 1 = k /\ ~(k <= h)
  BY <1>5, <1>7
<1>9. w \in Nat /\ w < tens[h]
  BY <1>6, <1>8, Shorter, Zenon
<1>10. Group(u, k) = s
  BY <1>8, GroupLast, Zenon
<1>11. g \in Seq(Digits) /\ Len(g) = h
  <2> HIDE DEF w
  <2> QED
    BY <1>8, <1>9, GroupType, Zenon
<1>12. \A d \in 1 .. k : s[d] = "0"
  BY <1>6, <1>10, Zenon
<1> HIDE DEF g, x
<1>13. (\A d \in 1 .. h : s[d] = g[d]) /\ s[h + 1] = x
  BY <1>8, <1>11
<1>14. \A d \in 1 .. h : d \in 1 .. k
  BY <1>8
<1>15. k \in 1 .. k
  BY <1>5, <1>7
<1> HIDE DEF s
<1>16. \A d \in 1 .. h : g[d] = "0"
  BY <1>12, <1>13, <1>14, Zenon
<1>17. x = "0"
  BY <1>8, <1>12, <1>13, <1>15, Zenon
<1>18. w = 0
  BY <1>4, <1>8, <1>9, <1>16, Zenon DEF g
<1>19. u % 10 = 0
  BY <1>17, DigitType, Zenon DEF x
<1>20. u = 0
  BY <1>18, <1>19
<1> QED
  BY <1>6, <1>20, Zenon

\* The rounding, where the unit is the twentieth part of the last of p parts.
Rounds(p, fr, q) ==
    /\ q \in Nat
    /\ fr + 10 >= 20 * p => q = p
    /\ ~(fr + 10 >= 20 * p) => q \in 0 .. (p - 1) /\ (20 * q) - fr \in -10 .. 10
    /\ fr <= 1 => q = 0

\* The integer arithmetic of the rounding finds the nearest number of decimals,
\* and reaches the unit where the fraction is that close to it.
LEMMA Rounding ==
    ASSUME NEW p \in Nat, p > 0, NEW fr \in 0 .. ((20 * p) - 1)
    PROVE  Rounds(p, fr, ((fr * p) + ((20 * p) \div 2)) \div (20 * p))
<1> DEFINE a == fr + 10
           u == a \div 20
           q == ((fr * p) + ((20 * p) \div 2)) \div (20 * p)
<1>1. (20 * p) \div 2 = 10 * p
  OBVIOUS
<1>2. a \in Nat /\ u \in Nat /\ 20 * u <= a /\ a < (20 * u) + 20
  OBVIOUS
<1>3. (fr * p) + (10 * p) = a * p
  OBVIOUS
<1> HIDE DEF a, u
<1>4. (20 * u) * p <= a * p /\ a * p < ((20 * u) + 20) * p
  BY <1>2
<1>5. (20 * u) * p = u * (20 * p) /\ ((20 * u) + 20) * p = (u + 1) * (20 * p)
  BY <1>2
<1>6. (a * p) \div (20 * p) = u
  <2> DEFINE t == 20 * p
             b == a * p
  <2>1. t \in Nat /\ t > 0 /\ b \in Nat
    BY <1>2
  <2>2. u * t <= b /\ b < (u + 1) * t /\ u + 1 \in Nat
    BY <1>2, <1>4, <1>5
  <2> HIDE DEF t, b
  <2>3. u <= b \div t /\ b \div t < u + 1 /\ b \div t \in Nat
    BY <1>2, <2>1, <2>2, Division, Zenon
  <2>4. b \div t = u
    BY <1>2, <2>3
  <2> QED
    BY <2>4, Zenon DEF t, b
<1>7. q = u
  BY <1>1, <1>3, <1>6, Zenon
<1>8. a = fr + 10
  BY DEF a
<1> HIDE DEF q
<1>9. Rounds(p, fr, q)
  BY <1>2, <1>7, <1>8 DEF Rounds
<1> QED
  BY <1>9, Zenon DEF q

\* The group of a power of ten that has one digit more is zeros.
LEMMA CarryLost ==
    ASSUME NEW n \in Nat, NEW d \in 1 .. n
    PROVE  Group(tens[n], n)[d] = "0"
<1> DEFINE v == tens[n]
           a == tens[d - 1]
           t == tens[n - d]
<1>1. /\ d - 1 \in Nat /\ n - d \in Nat /\ d \in Nat /\ (d - 1) + 1 = d /\ d + (n - d) = n
      /\ n \in Nat
  OBVIOUS
<1>2. v \in Nat /\ a \in Nat /\ t \in Nat /\ t > 0 /\ tens[d] = 10 * a
  BY <1>1, TensType, Zenon
<1>3. v = tens[d] * t
  BY <1>1, TensAdd, Zenon
<1>4. Group(v, n)[d] = DigitOf((v \div t) % 10)
  <2> HIDE DEF v
  <2> QED
    BY <1>2, GroupType, Zenon
<1> HIDE DEF v, a, t
<1>5. v = (10 * a) * t
  BY <1>2, <1>3, Zenon
<1>6. v \div t = 10 * a
  BY <1>2, <1>5
<1>7. (10 * a) % 10 = 0
  BY <1>2
<1>8. DigitOf(0) = "0"
  BY DEF DigitOf, digits_lut
<1>9. Group(v, n)[d] = "0"
  BY <1>4, <1>6, <1>7, <1>8, Zenon
<1> QED
  BY <1>9, Zenon DEF v

\* The digits of zero.
LEMMA NoFraction ==
    ASSUME NEW n \in Nat, NEW d \in 1 .. n
    PROVE  Group(0, n)[d] = "0"
<1> DEFINE t == tens[n - d]
<1>1. 0 \in Nat /\ n - d \in Nat
  OBVIOUS
<1>2. Group(0, n)[d] = DigitOf((0 \div t) % 10)
  BY <1>1, GroupType, Zenon
<1>3. t \in Nat /\ t > 0
  BY <1>1, TensType, Zenon
<1> HIDE DEF t
<1>4. (0 \div t) % 10 = 0
  BY <1>3
<1>5. DigitOf(0) = "0"
  BY DEF DigitOf, digits_lut
<1> QED
  BY <1>2, <1>4, <1>5, Zenon

\* Max is the greatest.
LEMMA Greatest ==
    ASSUME NEW n \in Nat, NEW K \in SUBSET (1 .. n), K # {}
    PROVE  Max(K) \in K /\ \A k \in K : k <= Max(K)
<1> DEFINE T == {n - k : k \in K}
<1>1. \A k \in K : n - k \in Nat /\ k \in Int
  OBVIOUS
<1>2. T \in SUBSET Nat /\ T # {}
  BY <1>1, Zenon
<1>3. PICK t \in T : \A u \in T : t <= u
  BY <1>2, Least, Zenon
<1>4. PICK m \in K : t = n - m
  BY <1>3, Zenon
<1>5. \A k \in K : n - m <= n - k
  BY <1>3, <1>4, Zenon
<1>6. \A k \in K : m >= k
  BY <1>1, <1>4, <1>5
<1>7. Max(K) \in K /\ \A k \in K : Max(K) >= k
  BY <1>4, <1>6, Zenon DEF Max
<1> QED
  BY <1>1, <1>7

\* Without its trailing zeros, and with them.
LEMMA Trimmed ==
    ASSUME NEW s \in Seq(Digits), NEW m \in 1 .. Len(s),
           s[m] # "0", \A n \in 1 .. Len(s) : n > m => s[n] = "0"
    PROVE  /\ SubSeq(s, 1, m) \in Seq(Digits) /\ Len(SubSeq(s, 1, m)) = m
           /\ SubSeq(s, 1, m)[m] # "0"
           /\ s = SubSeq(s, 1, m) \o Zeros(Len(s) - m)
<1> DEFINE l == Len(s)
           k == l - m
           b == SubSeq(s, 1, m)
           z == Zeros(k)
           r == b \o z
<1>1. l \in Nat /\ k \in Nat /\ m \in Nat /\ m > 0 /\ m <= l /\ m + k = l /\ m \in 1 .. m
  OBVIOUS
<1>2. b \in Seq(Digits) /\ Len(b) = m /\ \A n \in 1 .. m : b[n] = s[n]
  BY <1>1
<1>3. z \in Seq(Digits) /\ Len(z) = k /\ \A n \in 1 .. k : z[n] = "0"
  BY <1>1, ZerosType, Zenon
<1> HIDE DEF b, z, k, l
<1>4. r \in Seq(Digits) /\ Len(r) = m + k
  BY <1>2, <1>3, ConcatProperties, Zenon
<1>5. \A n \in 1 .. m + k : r[n] = IF n <= m THEN b[n] ELSE z[n - m]
  BY <1>1, <1>2, <1>3
<1>6. ASSUME NEW n \in 1 .. l PROVE r[n] = s[n]
  <2>1. CASE n <= m
    <3>1. n \in 1 .. m
      BY <1>1, <2>1
    <3> HIDE DEF r
    <3> QED
      BY <1>1, <1>2, <1>5, <2>1, <3>1, Zenon
  <2>2. CASE ~(n <= m)
    <3>1. n - m \in 1 .. k /\ n > m
      BY <1>1, <2>2
    <3> HIDE DEF r
    <3>2. r[n] = "0"
      BY <1>1, <1>3, <1>5, <2>2, <3>1, Zenon
    <3>3. s[n] = "0"
      BY <3>1, Zenon DEF l
    <3> QED
      BY <3>2, <3>3, Zenon
  <2> QED
    BY <2>1, <2>2, Zenon
<1> HIDE DEF r
<1>7. s = r
  <2>1. Len(r) = Len(s) /\ \A n \in 1 .. Len(r) : r[n] = s[n]
    BY <1>1, <1>4, <1>6, Zenon DEF l
  <2> QED
    BY <1>4, <2>1, SeqEqual, Zenon
<1>8. b[m] # "0"
  BY <1>1, <1>2, Zenon
<1> QED
  BY <1>2, <1>7, <1>8, Zenon DEF r, b, z, k, l

\* f is the text of a fraction that is nearest to q units of the last digit.
FracOk(f, q) ==
    \/ q = 0 /\ f = <<>>
    \/ /\ q > 0
       /\ \E b \in Seq(Digits) : /\ f = <<"dot">> \o b /\ Len(b) \in 1 .. FracDigits
                                 /\ b[Len(b)] # "0"
                                 /\ Fraction(q) = b \o Zeros(FracDigits - Len(b))

\* format_frac_part writes the nearest fraction, but none where the carry is lost.
LEMMA FracWritten ==
    ASSUME NEW fr \in 0 .. (FracUnit - 1), NEW len \in 1 .. 21, NEW size \in Nat, size >= 32
    PROVE  LET f == format_frac_part(fr, len, size)
           IN /\ fr + 10 >= FracUnit => f = <<>>
              /\ ~(fr + 10 >= FracUnit) => \E q \in 0 .. (tens[FracDigits] - 1) :
                                              (20 * q) - fr \in -10 .. 10 /\ FracOk(f, q)
<1> DEFINE F == FracDigits
           p == tens[F]
           q == ((fr * tens[F]) + (FracUnit \div 2)) \div FracUnit
           text == Group(q, F)
           kept == {n \in 1 .. F : text[n] # "0"}
           none == fr <= 1 \/ len + F + 2 >= size \/ kept = {}
           f == format_frac_part(fr, len, size)
<1>1. F \in Nat /\ F > 0 /\ F <= 8
  BY JsonTextConstants
<1>2. p \in Nat /\ p > 0
  BY <1>1, TensType, Zenon
<1>3. FracUnit = 20 * p
  BY Zenon DEF FracUnit
<1>4. /\ q \in Nat
      /\ fr + 10 >= 20 * p => q = p
      /\ ~(fr + 10 >= 20 * p) => q \in 0 .. (p - 1) /\ (20 * q) - fr \in -10 .. 10
      /\ fr <= 1 => q = 0
  <2>1. fr \in 0 .. ((20 * p) - 1) /\ q = ((fr * p) + ((20 * p) \div 2)) \div (20 * p)
    BY <1>3, Zenon
  <2>2. Rounds(p, fr, q)
    <3> HIDE DEF p, q
    <3> QED
      BY <1>2, <2>1, Rounding, Zenon
  <2> HIDE DEF p, q
  <2> QED
    BY <2>2, Zenon DEF Rounds
<1>5. f = IF none THEN <<>> ELSE <<"dot">> \o SubSeq(text, 1, Max(kept))
  BY Zenon DEF format_frac_part
<1>6. ~(len + F + 2 >= size)
  BY <1>1
<1> HIDE DEF q, f
<1>7. text \in Seq(Digits) /\ Len(text) = F
  BY <1>1, <1>4, GroupType, Zenon
<1>8. ASSUME fr + 10 >= FracUnit PROVE f = <<>>
  <2>1. q = p
    BY <1>3, <1>4, <1>8, Zenon
  <2>2. \A n \in 1 .. F : text[n] = "0"
    BY <1>1, <2>1, CarryLost, Zenon
  <2>3. kept = {}
    BY <2>2, Zenon
  <2> QED
    BY <1>5, <2>3, Zenon
<1>9. ASSUME ~(fr + 10 >= FracUnit)
      PROVE  q \in 0 .. (p - 1) /\ (20 * q) - fr \in -10 .. 10 /\ FracOk(f, q)
  <2>1. q \in 0 .. (p - 1) /\ (20 * q) - fr \in -10 .. 10
    BY <1>3, <1>4, <1>9, Zenon
  <2>2. q < p /\ (q = 0 \/ q > 0)
    <3> HIDE DEF p
    <3> QED
      BY <1>2, <2>1
  <2>3. CASE q = 0
    <3>1. \A n \in 1 .. F : text[n] = "0"
      BY <1>1, <2>3, NoFraction, Zenon
    <3>2. kept = {}
      BY <3>1, Zenon
    <3> QED
      BY <1>5, <2>1, <2>3, <3>2, Zenon DEF FracOk
  <2>4. CASE q > 0
    <3>0. q # 0
      BY <1>4, <2>4
    <3>1. kept # {}
      <4>1. SUFFICES ASSUME kept = {} PROVE FALSE
        BY Zenon
      <4>2. \A n \in 1 .. F : text[n] = "0"
        BY <4>1, Zenon
      <4>3. q = 0
        BY <1>1, <1>4, <2>2, <4>2, GroupZero, Zenon
      <4> QED
        BY <3>0, <4>3, Zenon
    <3> DEFINE m == Max(kept)
               b == SubSeq(text, 1, m)
    <3>2. kept \in SUBSET (1 .. F)
      BY Zenon
    <3>3. m \in kept /\ \A k \in kept : k <= m
      <4> HIDE DEF kept
      <4> QED
        BY <1>1, <3>1, <3>2, Greatest, Zenon
    <3>4. m \in 1 .. F /\ text[m] # "0"
      BY <3>3, Zenon
    <3>5. \A n \in 1 .. F : n > m => ~(n <= m)
      BY <1>1, <3>4
    <3>6. \A n \in 1 .. F : n > m => text[n] = "0"
      BY <3>3, <3>5, Zenon
    <3>7. f = <<"dot">> \o b
      <4>1. ~(fr <= 1)
        BY <1>4, <3>0, Zenon
      <4> QED
        BY <1>5, <1>6, <3>1, <4>1, Zenon
    <3> HIDE DEF kept, m
    <3>8. /\ b \in Seq(Digits) /\ Len(b) = m /\ b[m] # "0"
          /\ text = b \o Zeros(F - m)
      <4> HIDE DEF text
      <4> QED
        BY <1>7, <3>4, <3>6, Trimmed, Zenon
    <3>9. Fraction(q) = text
      BY <1>1, <1>4, <2>2, GroupPadded, Zenon DEF Fraction
    <3> HIDE DEF b, text
    <3>10. FracOk(f, q)
      BY <2>4, <3>4, <3>7, <3>8, <3>9, Zenon DEF FracOk
    <3> QED
      BY <2>1, <3>10, Zenon
  <2> QED
    BY <2>2, <2>3, <2>4, Zenon
<1> QED
  BY <1>8, <1>9, Zenon DEF f

Parts(d, w, x, b) ==
    /\ d = (w \o <<x>>) \o b
    /\ Len(d) = Len(w) + 1 + Len(b)
    /\ SubSeq(d, Len(w) + 2, Len(d)) = b

\* A text with a dot in it is what is before the dot and what is after it.
LEMMA AfterDot ==
    ASSUME NEW w \in Seq(Bytes), NEW b \in Seq(Bytes), NEW x \in Bytes
    PROVE  Parts(w \o (<<x>> \o b), w, x, b)
<1> DEFINE o == <<x>>
           v == w \o o
           d == v \o b
           l == Len(w) + 2
           r == SubSeq(d, l, Len(d))
<1>1. o \in Seq(Bytes) /\ Len(o) = 1
  OBVIOUS
<1> HIDE DEF o
<1>2. w \o (o \o b) = d
  BY <1>1, Associative, Zenon
<1>3. v \in Seq(Bytes) /\ Len(v) = Len(w) + 1 /\ Len(w) \in Nat /\ Len(b) \in Nat
  <2>1. v \in Seq(Bytes) /\ Len(v) = Len(w) + Len(o)
    BY <1>1, ConcatProperties, Zenon
  <2>2. Len(w) \in Nat /\ Len(b) \in Nat
    BY LenProperties, Zenon
  <2> QED
    BY <1>1, <2>1, <2>2, Zenon
<1> HIDE DEF v
<1>4. /\ d \in Seq(Bytes) /\ Len(d) = Len(w) + 1 + Len(b)
      /\ \A n \in 1 .. Len(b) : d[(Len(w) + 1) + n] = b[n]
  BY <1>3
<1> HIDE DEF d
<1>5. r \in Seq(Bytes) /\ Len(r) = Len(b) /\ \A n \in 1 .. Len(b) : r[n] = d[(l + n) - 1]
  BY <1>3, <1>4
<1>6. \A n \in 1 .. Len(b) : (l + n) - 1 = (Len(w) + 1) + n
  BY <1>3
<1> HIDE DEF r, l
<1>7. \A n \in 1 .. Len(r) : r[n] = b[n]
  BY <1>4, <1>5, <1>6, Zenon
<1>8. r = b
  BY <1>5, <1>7, SeqEqual, Zenon
<1> QED
  BY <1>2, <1>4, <1>8, Zenon DEF Parts, r, l, d, v, o

Nearest(neg, ip, fr, size, d) ==
    LET whole == Sign(neg) \o decimal[ip]
        frac == SubSeq(d, Len(whole) + 2, Len(d))
        carries == fr + 10 >= FracUnit
    IN /\ Len(d) < size
       /\ carries => d = whole
       /\ ~carries => \E q \in 0 .. (tens[FracDigits] - 1) :
             /\ (20 * q) - fr \in -10 .. 10
             /\ \/ q = 0 /\ d = whole
                \/ /\ q > 0 /\ d = whole \o <<"dot">> \o frac
                   /\ frac[Len(frac)] # "0"
                   /\ Fraction(q) = frac \o Zeros(FracDigits - Len(frac))

\* What fast_dtoa writes into a buffer of 32 bytes or more.
LEMMA DoubleWritten ==
    ASSUME NEW neg \in BOOLEAN, NEW ip \in IntParts, NEW fr \in 0 .. (FracUnit - 1),
           NEW size \in Nat, size >= 32, NEW d,
           d = InPlace(neg, ip) \o format_frac_part(fr, Len(InPlace(neg, ip)), size)
    PROVE  Nearest(neg, ip, fr, size, d)
<1> DEFINE w == Sign(neg) \o decimal[ip]
           l == Len(w)
           f == format_frac_part(fr, l, size)
           carries == fr + 10 >= FracUnit
           frac == SubSeq(d, l + 2, Len(d))
<1>1. ip \in Nat /\ TwentyDigits(ip)
  BY JsonTextConstants, Zenon
<1>2. ip < tens[20]
  <2>1. ip \in 0 .. ip
    BY <1>1
  <2> QED
    BY <1>1, <2>1, AtMostTwenty, Zenon
<1>3. InPlace(neg, ip) = w /\ w \in Seq(Bytes) /\ l \in 1 .. 21
  BY <1>1, <1>2, InPlaceIs, Zenon
<1>4. d = w \o f
  BY <1>3, Zenon
<1>5. /\ carries => f = <<>>
      /\ ~carries => \E q \in 0 .. (tens[FracDigits] - 1) :
                        (20 * q) - fr \in -10 .. 10 /\ FracOk(f, q)
  <2> HIDE DEF l
  <2> QED
    BY <1>3, FracWritten, Zenon
<1>6. FracDigits \in Nat /\ FracDigits <= 8
  BY JsonTextConstants
<1> HIDE DEF w, f
<1>7. ASSUME f = <<>> PROVE d = w /\ Len(d) < size
  <2>1. d = w
    BY <1>3, <1>4, <1>7, Brackets, Zenon
  <2> HIDE DEF l
  <2>2. l < size
    BY <1>3
  <2> QED
    BY <2>1, <2>2, Zenon DEF l
<1>8. ASSUME NEW b \in Seq(Digits), f = <<"dot">> \o b, Len(b) \in 1 .. FracDigits
      PROVE  d = (w \o <<"dot">>) \o b /\ frac = b /\ Len(d) < size
  <2>1. b \in Seq(Bytes) /\ "dot" \in Bytes
    <3>1. "dot" \in Bytes
      BY DEF Bytes
    <3> QED
      BY <3>1, DigitSeqs, Zenon
  <2>2. d = (w \o <<"dot">>) \o b /\ Len(d) = l + 1 + Len(b) /\ frac = b
    <3>1. Parts(w \o (<<"dot">> \o b), w, "dot", b)
      BY <1>3, <2>1, AfterDot, Zenon
    <3>2. Parts(d, w, "dot", b)
      BY <1>4, <1>8, <3>1, Zenon
    <3> QED
      BY <3>2, Zenon DEF Parts
  <2> DEFINE n == Len(b)
             m == Len(d)
  <2>3. m = l + 1 + n /\ n \in 1 .. FracDigits
    BY <1>8, <2>2, Zenon
  <2> HIDE DEF n, m, l
  <2>4. m < size
    BY <1>3, <1>6, <2>3
  <2> QED
    BY <2>2, <2>4, Zenon DEF m
<1>9. CASE carries
  BY <1>5, <1>7, <1>9, Zenon DEF Nearest, w
<1>10. CASE ~carries
  <2>1. PICK q \in 0 .. (tens[FracDigits] - 1) : (20 * q) - fr \in -10 .. 10 /\ FracOk(f, q)
    BY <1>5, <1>10, Zenon
  <2>2. CASE q = 0 /\ f = <<>>
    BY <1>7, <1>10, <2>1, <2>2, Zenon DEF Nearest, w
  <2>3. CASE /\ q > 0
             /\ \E b \in Seq(Digits) : /\ f = <<"dot">> \o b /\ Len(b) \in 1 .. FracDigits
                                       /\ b[Len(b)] # "0"
                                       /\ Fraction(q) = b \o Zeros(FracDigits - Len(b))
    <3>1. PICK b \in Seq(Digits) : /\ f = <<"dot">> \o b /\ Len(b) \in 1 .. FracDigits
                                   /\ b[Len(b)] # "0"
                                   /\ Fraction(q) = b \o Zeros(FracDigits - Len(b))
      BY <2>3, Zenon
    <3>2. d = (w \o <<"dot">>) \o b /\ frac = b /\ Len(d) < size
      BY <1>8, <3>1, Zenon
    <3> HIDE DEF frac
    <3>3. /\ q > 0 /\ d = (w \o <<"dot">>) \o frac
          /\ frac[Len(frac)] # "0"
          /\ Fraction(q) = frac \o Zeros(FracDigits - Len(frac))
      BY <2>3, <3>1, <3>2, Zenon
    <3> QED
      BY <1>10, <2>1, <3>2, <3>3, Zenon DEF Nearest, frac, w
  <2> QED
    BY <2>1, <2>2, <2>3, Zenon DEF FracOk
<1> QED
  BY <1>9, <1>10, Zenon

NumberInv == WritingInv /\ NumbersInv

\* What is written by the number formatters.
LEMMA NumberJob ==
    ASSUME job \in Jobs
    PROVE  /\ job.t \in {"int", "long"} =>
                 /\ job.size \in Nat
                 /\ \E span \in Nat : /\ TwentyDigits(span) /\ job.v \in Signed(span)
                                      /\ (job.t = "int" => span = IntSpan)
                                      /\ (job.t = "long" => span = LongSpan)
           /\ job.t = "double" =>
                 /\ job.neg \in BOOLEAN /\ job.ip \in IntParts
                 /\ job.fr \in 0 .. (FracUnit - 1) /\ job.size \in Nat
<1> DEFINE I == [t : {"int"}, v : Signed(IntSpan), size : Sizes]
           L == [t : {"long"}, v : Longs, size : Sizes]
           D == [t : {"double"}, neg : BOOLEAN, ip : IntParts, fr : 0 .. (FracUnit - 1), size : Sizes]
           O == [t : {"nan", "huge"}, size : Sizes]
<1>1. /\ IntSpan \in Nat /\ LongSpan \in Nat /\ TwentyDigits(IntSpan) /\ TwentyDigits(LongSpan)
      /\ Longs \subseteq Signed(LongSpan) /\ Sizes \subseteq Nat
  BY JsonTextConstants, Zenon
<1>2. job \in StringJobs \cup RowsJobs => job.t \in {"string", "rows"}
  BY JobKinds, Zenon
<1>3. \A k \in {"string", "rows"} : k \notin {"int", "long", "double"}
  OBVIOUS
<1>4. CASE job \in I
  <2>1. job.t = "int" /\ job.v \in Signed(IntSpan) /\ job.size \in Sizes
    BY <1>4
  <2>2. "int" # "long" /\ "int" # "double"
    OBVIOUS
  <2> QED
    BY <1>1, <2>1, <2>2, Zenon
<1>5. CASE job \in L
  <2>1. job.t = "long" /\ job.v \in Longs /\ job.size \in Sizes
    BY <1>5
  <2>2. "int" # "long" /\ "long" # "double"
    OBVIOUS
  <2> QED
    BY <1>1, <2>1, <2>2, Zenon
<1>6. CASE job \in D
  <2>1. job.t = "double" /\ job.ip \in IntParts /\ job.fr \in 0 .. (FracUnit - 1) /\ job.size \in Sizes
    BY <1>6
  <2>2. job.neg \in BOOLEAN
    BY <1>6, Zenon
  <2>3. "double" \notin {"int", "long"}
    OBVIOUS
  <2> QED
    BY <1>1, <2>1, <2>2, <2>3, Zenon
<1>7. CASE job \in O
  <2>1. job.t \in {"nan", "huge"}
    BY <1>7
  <2>2. \A k \in {"nan", "huge"} : k \notin {"int", "long", "double"}
    OBVIOUS
  <2> QED
    BY <2>1, <2>2, Zenon
<1>8. job \in StringJobs \cup RowsJobs \/ job \in I \/ job \in L \/ job \in D \/ job \in O
  BY Zenon DEF Jobs, NumberJobs
<1> QED
  BY <1>2, <1>3, <1>4, <1>5, <1>6, <1>7, <1>8, Zenon

\* A number is written exactly, or as the nearest one.
LEMMA NumberStep == WritingInv /\ format_number => NumbersInv'
<1> SUFFICES ASSUME WritingInv, format_number PROVE NumbersInv'
  OBVIOUS
<1>1. /\ job' = job /\ job \in Jobs
      /\ dest' = CASE job.t = "int" -> fast_toa(job.v, IntSpan, job.size)
                   [] job.t = "long" -> fast_toa(job.v, LongSpan, job.size)
                   [] OTHER -> fast_dtoa(job)
  BY Zenon DEF WritingInv, format_number
<1>2. "int" # "long" /\ "int" # "double" /\ "long" # "double" /\ "double" # "nan" /\ "double" # "huge"
  OBVIOUS
<1>3. ASSUME job.t \in {"int", "long"}
      PROVE  \/ /\ dest' = <<>>
                /\ job.size < 2 \/ job.v >= tens[job.size - 1] \/ -job.v >= tens[job.size - 2]
             \/ dest' = Numeral(job.v) /\ Len(dest') < job.size
  <2>1. PICK span \in Nat : /\ TwentyDigits(span) /\ job.v \in Signed(span)
                            /\ (job.t = "int" => span = IntSpan)
                            /\ (job.t = "long" => span = LongSpan)
    BY <1>1, <1>3, NumberJob, Zenon
  <2>2. job.size \in Nat
    BY <1>1, <1>3, NumberJob, Zenon
  <2>3. dest' = fast_toa(job.v, span, job.size)
    <3>1. CASE job.t = "int"
      BY <1>1, <2>1, <3>1
    <3>2. CASE job.t = "long"
      BY <1>1, <2>1, <3>2
    <3> QED
      BY <1>3, <3>1, <3>2, Zenon
  <2> QED
    BY <2>1, <2>2, <2>3, IntegerWritten, Zenon
<1>4. IntegersExact'
  BY <1>1, <1>3, Zenon DEF IntegersExact
<1>5. ASSUME job.t = "double", job.size >= 32
      PROVE  dest' = InPlace(job.neg, job.ip)
                       \o format_frac_part(job.fr, Len(InPlace(job.neg, job.ip)), job.size)
  <2> DEFINE w == InPlace(job.neg, job.ip)
  <2>1. dest' = fast_dtoa(job)
    BY <1>1, <1>5
  <2>2. job.size \in Nat /\ job.neg \in BOOLEAN /\ job.ip \in IntParts
    BY <1>1, <1>5, NumberJob, Zenon
  <2>3. job.ip \in Nat /\ TwentyDigits(job.ip)
    BY <2>2, JsonTextConstants, Zenon
  <2>4. job.ip \in 0 .. job.ip
    BY <2>3
  <2>5. job.ip < tens[20]
    BY <2>3, <2>4, AtMostTwenty, Zenon
  <2>6. Len(w) \in 1 .. 21
    BY <2>2, <2>3, <2>5, InPlaceIs, Zenon
  <2> HIDE DEF w
  <2>7. ~(job.size < 2) /\ ~(Len(w) + 1 > job.size)
    <3> DEFINE l == Len(w)
               n == job.size
    <3>1. l \in 1 .. 21 /\ n \in Nat /\ n >= 32
      BY <1>5, <2>2, <2>6, Zenon
    <3> HIDE DEF l, n
    <3>2. ~(n < 2) /\ ~(l + 1 > n)
      BY <3>1
    <3> QED
      BY <3>2, Zenon DEF l, n
  <2> QED
    BY <1>2, <1>5, <2>1, <2>7, Zenon DEF fast_dtoa, w
<1>6. DoublesNearest'
  <2>1. CASE job.t = "double" /\ job.size >= 32
    <3>1. /\ job.neg \in BOOLEAN /\ job.ip \in IntParts
          /\ job.fr \in 0 .. (FracUnit - 1) /\ job.size \in Nat
      BY <1>1, <2>1, NumberJob, Zenon
    <3>2. Nearest(job.neg, job.ip, job.fr, job.size, dest')
      BY <1>5, <2>1, <3>1, DoubleWritten, Zenon
    <3> QED
      BY <1>1, <3>2, Zenon DEF DoublesNearest, Nearest
  <2>2. CASE ~(job.t = "double" /\ job.size >= 32)
    BY <1>1, <2>2, Zenon DEF DoublesNearest
  <2> QED
    BY <2>1, <2>2, Zenon
<1> QED
  BY <1>4, <1>6, Zenon DEF NumbersInv

\* Every step keeps the invariant of the numbers.
LEMMA NumbersKept == NumberInv /\ [TextNext]_text_vars => NumberInv'
<1> SUFFICES ASSUME WritingInv, NumbersInv, [TextNext]_text_vars PROVE NumbersInv' /\ WritingInv'
  BY Zenon DEF NumberInv
<1>0. WritingInv'
  BY WritingStep, Zenon
<1>1. CASE json_encode_string \/ fetch_resultset_array
  <2>1. job' = job /\ job.t \in {"string", "rows"}
    BY <1>1, Zenon DEF json_encode_string, fetch_resultset_array
  <2>2. \A k \in {"string", "rows"} : k \notin {"int", "long"} /\ k # "double"
    OBVIOUS
  <2> QED
    BY <1>0, <2>1, <2>2, Zenon DEF NumbersInv, IntegersExact, DoublesNearest
<1>2. CASE format_number
  BY <1>0, <1>2, NumberStep, Zenon
<1>3. CASE UNCHANGED text_vars
  BY <1>0, <1>3, Zenon DEF text_vars, NumbersInv, IntegersExact, DoublesNearest
<1> QED
  BY <1>1, <1>2, <1>3, Zenon DEF TextNext

\* The numbers are written as their values are, for integers of every width up
\* to 64 bits and for every fraction: fast_itoa and fast_ltoa give the decimal
\* notation or nothing, and fast_dtoa the nearest number of its decimals, except
\* where the rounding carries into the integer part.
THEOREM NumbersAreExact == TextSpec => []NumbersInv
<1>1. TextInit => NumberInv
  <2> SUFFICES ASSUME TextInit PROVE NumbersInv /\ WritingInv
    BY Zenon DEF NumberInv
  <2>1. returned = "running" /\ "running" # "true"
    BY DEF TextInit
  <2> QED
    BY <2>1, WritingStarts, Zenon DEF NumbersInv, IntegersExact, DoublesNearest
<1>2. NumberInv /\ [TextNext]_text_vars => NumberInv'
  BY NumbersKept
<1>3. NumberInv => NumbersInv
  BY DEF NumberInv
<1> QED
  BY <1>1, <1>2, <1>3, PTL DEF TextSpec
=============================================================================
