-------------------------- MODULE AlgorithmsProofs --------------------------
(***************************************************************************)
(* What is promised of an answer's text, whatever the recogniser gave and  *)
(* however long it is, and of datasets and evaluations, for any log of     *)
(* feedback and any queries.                                               *)
(*                                                                         *)
(* Text and metrics are computed by recursion.  For a set, SetInduction is *)
(* induction over the naturals; Recursion shows that a function defined by *)
(* recursion exists, which is all a CHOOSE needs.  The lemmas about what   *)
(* the functions compute are by induction with these two.                  *)
(***************************************************************************)
EXTENDS TranscriptText, Datasets, FiniteSetTheorems, SequenceTheorems, WellFoundedInduction, TLAPS

-----------------------------------------------------------------------------
(* Induction and recursion.                                                *)

\* Induction over the naturals, for a set.
LEMMA SetInduction ==
  ASSUME NEW S, 0 \in S, \A n \in S \intersect Nat : n + 1 \in S
  PROVE  Nat \subseteq S
<1> SUFFICES ASSUME NEW m \in Nat, m \notin S PROVE FALSE OBVIOUS
<1> DEFINE T == Nat \ S
<1>1. PICK n \in T : \A k \in T : ~(<<k, n>> \in OpToRel(<, Nat))
  BY WFMin, NatLessThanWellFounded
<1>2. n # 0 /\ n \in Nat /\ n - 1 \in Nat OBVIOUS
<1>3. n - 1 \in S
  <2> SUFFICES ASSUME n - 1 \in T PROVE FALSE BY <1>2
  <2>1. <<n - 1, n>> \in OpToRel(<, Nat) BY <1>2 DEF OpToRel
  <2> QED BY <1>1, <2>1
<1>4. (n - 1) + 1 \in S BY <1>2, <1>3
<1> QED BY <1>2, <1>4

\* A function that is defined by recursion over 0..N exists.
Recursive(g, N, T, base, next) ==
  g \in [0..N -> T] /\ g[0] = base /\ \A n \in 1..N : g[n] = next[n][g[n - 1]]

\* Such a function exists: one up to n is one up to n + 1 with a value more.
LEMMA Recursion ==
  ASSUME NEW N \in Nat, NEW T, NEW base \in T, NEW next \in [1..N -> [T -> T]]
  PROVE  \E g : Recursive(g, N, T, base, next)
<1> DEFINE G(n) == {g \in [0..n -> T] : g[0] = base /\ \A k \in 1..n : g[k] = next[k][g[k - 1]]}
           S == {n \in Nat : n <= N => G(n) # {}}
<1>1. 0 \in S
  <2>1. [k \in 0..0 |-> base] \in G(0) OBVIOUS
  <2> QED BY <2>1
<1>2. ASSUME NEW n \in S \intersect Nat PROVE n + 1 \in S
  <2> SUFFICES ASSUME n + 1 <= N PROVE G(n + 1) # {} OBVIOUS
  <2>1. PICK g : g \in G(n) OBVIOUS
  <2> DEFINE h == [k \in 0..(n + 1) |-> IF k = n + 1 THEN next[n + 1][g[n]] ELSE g[k]]
  <2>2. g[n] \in T /\ n + 1 \in 1..N BY <2>1
  <2>3. next[n + 1][g[n]] \in T BY <2>2
  <2>4. h \in [0..(n + 1) -> T] BY <2>1, <2>3
  <2>5. ASSUME NEW k \in 1..(n + 1) PROVE h[k] = next[k][h[k - 1]]
    <3>1. CASE k = n + 1
      <4>1. k - 1 \in 0..(n + 1) /\ k - 1 # n + 1 /\ k - 1 = n BY <3>1
      <4>2. h[k - 1] = g[n] /\ h[k] = next[n + 1][g[n]] BY <4>1, <3>1
      <4> QED BY <4>2, <3>1
    <3>2. CASE k # n + 1
      <4>1. k \in 1..n /\ k - 1 \in 0..(n + 1) /\ k - 1 # n + 1 /\ k \in 0..(n + 1) BY <3>2
      <4>2. h[k - 1] = g[k - 1] /\ h[k] = g[k] BY <4>1
      <4>3. g[k] = next[k][g[k - 1]] BY <2>1, <4>1
      <4> QED BY <4>2, <4>3
    <3> QED BY <3>1, <3>2
  <2>6. h[0] = base BY <2>1
  <2>7. h \in G(n + 1) BY <2>4, <2>5, <2>6
  <2> QED BY <2>7
<1>3. N \in S 
  <2> HIDE DEF S
  <2> QED BY <1>1, <1>2, SetInduction
<1> QED BY <1>3 DEF Recursive


-----------------------------------------------------------------------------
(* Sequences of sequences.                                                 *)

\* FlattenSeq is defined by a recursive function; this is one from 0 on.
LEMMA Flattened ==
  ASSUME NEW T, NEW s \in Seq(Seq(T))
  PROVE  \E f \in [0..Len(s) -> Seq(T)] :
           f[0] = <<>> /\ (\A n \in 1..Len(s) : f[n] = f[n - 1] \o s[n]) /\ FlattenSeq(s) = f[Len(s)]
<1> DEFINE N == Len(s)
           next == [n \in 1..N |-> [x \in Seq(T) |-> x \o s[n]]]
           Flat(f) == f = [i \in 1..N |-> IF i = 1 THEN s[i] ELSE f[i - 1] \o s[i]]
           flat == CHOOSE f : Flat(f)
<1>1. N \in Nat /\ <<>> \in Seq(T) OBVIOUS
<1>2. \A n \in 1..N : s[n] \in Seq(T) OBVIOUS
<1>3. next \in [1..N -> [Seq(T) -> Seq(T)]]
  <2>1. \A n \in 1..N : \A x \in Seq(T) : x \o s[n] \in Seq(T) BY <1>2
  <2> QED BY <2>1
<1>4. PICK g : Recursive(g, N, Seq(T), <<>>, next)
  <2> HIDE DEF next, N
  <2> QED BY <1>1, <1>3, Recursion
<1>5. ASSUME NEW n \in 1..N PROVE g[n] = g[n - 1] \o s[n] /\ g[n - 1] \in Seq(T)
  <2>1. n - 1 \in 0..N OBVIOUS
  <2>2. g[n - 1] \in Seq(T) BY <1>4, <2>1 DEF Recursive
  <2> QED BY <1>4, <2>2 DEF Recursive
<1>8. 1 \in 1..N => g[1] = s[1]
  <2> SUFFICES ASSUME 1 \in 1..N PROVE g[1] = s[1] OBVIOUS
  <2>1. g[1] = g[0] \o s[1]
    <3>1. 1 - 1 = 0 OBVIOUS
    <3> QED BY <1>5, <3>1
  <2>2. g[0] = <<>> BY <1>4 DEF Recursive
  <2>3. s[1] \in Seq(T) BY <1>2
  <2> QED BY <2>1, <2>2, <2>3, ConcatEmptySeq
<1>6. CASE N = 0
  <2>1. FlattenSeq(s) = <<>> BY <1>6 DEF FlattenSeq
  <2> QED BY <1>4, <1>5, <1>6, <2>1 DEF Recursive
<1>7. CASE N # 0
  <2> DEFINE h == [i \in 1..N |-> g[i]]
  <2>1. Flat(h)
    <3>1. ASSUME NEW i \in 1..N PROVE h[i] = IF i = 1 THEN s[i] ELSE h[i - 1] \o s[i]
      <4>1. CASE i = 1
        <5> QED BY <1>8, <4>1
      <4>2. CASE i # 1
        <5>1. i - 1 \in 1..N BY <4>2
        <5> QED BY <1>5, <4>2, <5>1
      <4> QED BY <4>1, <4>2
    <3> QED BY <3>1
  <2>2. Flat(flat)
    <3> HIDE DEF Flat
    <3> QED BY <2>1, Zenon
  <2>3. FlattenSeq(s) = flat[N] BY <1>7, Zenon DEF FlattenSeq
  <2> HIDE DEF flat
  <2>i. \A i \in 1..N : flat[i] = IF i = 1 THEN s[i] ELSE flat[i - 1] \o s[i]
    <3> HIDE DEF N
    <3> QED BY <2>2
  <2>4. flat[1] = s[1] /\ \A n \in 2..N : flat[n] = flat[n - 1] \o s[n]
    <3>1. 1 \in 1..N /\ \A n \in 2..N : n \in 1..N /\ n # 1 BY <1>7
    <3> HIDE DEF N
    <3> QED BY <2>i, <3>1
  <2>5. \A n \in 1..N : flat[n] = g[n]
    <3> DEFINE S == {n \in Nat : n \in 1..N => flat[n] = g[n]}
    <3>1. 0 \in S OBVIOUS
    <3>2. ASSUME NEW n \in S \intersect Nat PROVE n + 1 \in S
      <4> SUFFICES ASSUME n + 1 \in 1..N PROVE flat[n + 1] = g[n + 1] OBVIOUS
      <4>1. CASE n = 0
        <5> QED BY <1>8, <2>4, <4>1
      <4>2. CASE n # 0
        <5>1. n \in 1..N /\ n + 1 \in 2..N /\ (n + 1) - 1 = n BY <4>2
        <5>2. flat[n] = g[n] BY <5>1
        <5> QED BY <1>5, <2>4, <5>1, <5>2
      <4> QED BY <4>1, <4>2
    <3>3. Nat \subseteq S
      <4> HIDE DEF S
      <4> QED BY <3>1, <3>2, SetInduction
    <3> QED BY <3>3
  <2>6. FlattenSeq(s) = g[N] BY <1>7, <2>3, <2>5
  <2>7. g \in [0..N -> Seq(T)] /\ g[0] = <<>> BY <1>4 DEF Recursive
  <2> QED BY <1>5, <2>6, <2>7
<1> QED BY <1>6, <1>7

\* A piece more is its elements more.
LEMMA FlattenAppend ==
  ASSUME NEW T, NEW s \in Seq(Seq(T)), NEW e \in Seq(T)
  PROVE  /\ FlattenSeq(s) \in Seq(T)
         /\ FlattenSeq(Append(s, e)) = FlattenSeq(s) \o e
<1> DEFINE N == Len(s)
           t == Append(s, e)
<1>1. t \in Seq(Seq(T)) /\ Len(t) = N + 1 /\ t[N + 1] = e /\ \A n \in 1..N : t[n] = s[n] /\ N \in Nat
  OBVIOUS
<1>2. PICK f \in [0..N -> Seq(T)] :
        f[0] = <<>> /\ (\A n \in 1..N : f[n] = f[n - 1] \o s[n]) /\ FlattenSeq(s) = f[N]
  BY Flattened
<1>3. PICK g \in [0..Len(t) -> Seq(T)] :
        g[0] = <<>> /\ (\A n \in 1..Len(t) : g[n] = g[n - 1] \o t[n]) /\ FlattenSeq(t) = g[Len(t)]
  <2> HIDE DEF t
  <2> QED BY <1>1, Flattened
<1> DEFINE S == {n \in Nat : n \in 0..N => f[n] = g[n]}
<1>4. 0 \in S BY <1>2, <1>3
<1>5. ASSUME NEW n \in S \intersect Nat PROVE n + 1 \in S
  <2> SUFFICES ASSUME n + 1 \in 0..N PROVE f[n + 1] = g[n + 1] OBVIOUS
  <2>1. n + 1 \in 1..N /\ (n + 1) - 1 = n /\ n \in 0..N OBVIOUS
  <2>2. n + 1 \in 1..Len(t) BY <1>1, <2>1
  <2>3. f[n] = g[n] /\ t[n + 1] = s[n + 1] BY <1>1, <2>1
  <2>4. f[n + 1] = f[n] \o s[n + 1] BY <1>2, <2>1
  <2>5. g[n + 1] = g[n] \o t[n + 1] BY <1>3, <2>1, <2>2
  <2> QED BY <2>3, <2>4, <2>5
<1>6. f[N] = g[N]
  <2>1. N \in Nat OBVIOUS
  <2> HIDE DEF S
  <2>2. N \in S BY <1>4, <1>5, <2>1, SetInduction
  <2> QED BY <2>1, <2>2 DEF S
<1>7. g[N + 1] = g[N] \o e
  <2>1. N + 1 \in 1..Len(t) /\ (N + 1) - 1 = N BY <1>1
  <2> QED BY <1>1, <1>3, <2>1
<1> QED BY <1>1, <1>2, <1>3, <1>6, <1>7

LEMMA FlattenEmpty == FlattenSeq(<<>>) = <<>>
BY DEF FlattenSeq

\* What Append gives, in the terms the provers need it.
LEMMA Appended ==
  ASSUME NEW T, NEW s \in Seq(T), NEW e \in T
  PROVE  /\ Append(s, e) \in Seq(T) /\ Len(Append(s, e)) = Len(s) + 1 /\ Append(s, e) # <<>>
         /\ DOMAIN Append(s, e) = 1..(Len(s) + 1) /\ DOMAIN s = 1..Len(s) /\ Len(s) \in Nat
         /\ \A i \in 1..Len(s) : Append(s, e)[i] = s[i]
         /\ Append(s, e)[Len(s) + 1] = e /\ Last(Append(s, e)) = e
         /\ Append(s, e) = s \o <<e>>
         /\ s = <<>> => Append(s, e)[1] = e
         /\ s # <<>> => Append(s, e)[1] = s[1] /\ s[1] \in T /\ Last(s) \in T /\ Len(s) >= 1
<1> DEFINE a == Append(s, e)
<1>1. /\ a \in Seq(T) /\ Len(a) = Len(s) + 1 /\ DOMAIN a = 1..(Len(s) + 1) /\ DOMAIN s = 1..Len(s)
      /\ Len(s) \in Nat /\ (\A i \in 1..Len(s) : a[i] = s[i]) /\ a[Len(s) + 1] = e
  OBVIOUS
<1>2. a # <<>> BY <1>1
<1>3. a = s \o <<e>> BY AppendIsConcat
<1>4. s = <<>> => Len(s) = 0 OBVIOUS
<1>5. s # <<>> => Len(s) >= 1 /\ s[1] \in T /\ s[Len(s)] \in T OBVIOUS
<1>6. Last(a) = e /\ (s # <<>> => Last(s) \in T) BY <1>1, <1>5 DEF Last
<1> HIDE DEF a
<1>7. s = <<>> => a[1] = e BY <1>1, <1>4
<1>8. s # <<>> => a[1] = s[1] BY <1>1, <1>5
<1> QED BY <1>1, <1>2, <1>3, <1>5, <1>6, <1>7, <1>8 DEF a

-----------------------------------------------------------------------------
(* Segments and sentences.                                                 *)

Cuts == [closed : Seq(Seq(Words)), open : Seq(Words)]

LEMMA AddWordType ==
  ASSUME NEW acc \in Cuts, NEW word \in Words, NEW longest
  PROVE  AddWord(acc, word, longest) \in Cuts
<1>1. acc.closed \in Seq(Seq(Words)) /\ acc.open \in Seq(Words) BY DEF Cuts
<1>2. Append(acc.open, word) \in Seq(Words) BY <1>1
<1>3. Append(acc.closed, Append(acc.open, word)) \in Seq(Seq(Words)) BY <1>1, <1>2
<1> QED BY <1>1, <1>2, <1>3 DEF AddWord, Cuts

\* The function that cuts a text is what its recursion says.
LEMMA PiecesAre ==
  ASSUME NEW ws \in Seq(Words), NEW longest
  PROVE  \E acc \in [0..Len(ws) -> Cuts] :
           /\ acc[0] = Nothing /\ \A n \in 1..Len(ws) : acc[n] = AddWord(acc[n - 1], ws[n], longest)
           /\ Pieces(ws, longest) = Close(acc[Len(ws)])
<1> DEFINE N == Len(ws)
           next == [n \in 1..N |-> [x \in Cuts |-> AddWord(x, ws[n], longest)]]
           Cut(s) == s = [i \in 0..N |-> IF i = 0 THEN Nothing ELSE AddWord(s[i - 1], ws[i], longest)]
           acc == CHOOSE s : Cut(s)
<1>1. N \in Nat /\ Nothing \in Cuts BY DEF Nothing, Cuts
<1>2. next \in [1..N -> [Cuts -> Cuts]]
  <2>1. \A n \in 1..N : \A x \in Cuts : AddWord(x, ws[n], longest) \in Cuts BY AddWordType
  <2> QED BY <2>1
<1>3. PICK g : Recursive(g, N, Cuts, Nothing, next)
  <2> HIDE DEF next, N
  <2> QED BY <1>1, <1>2, Recursion
<1>4. ASSUME NEW n \in 1..N PROVE g[n] = AddWord(g[n - 1], ws[n], longest)
  <2>1. n - 1 \in 0..N OBVIOUS
  <2>2. g[n - 1] \in Cuts BY <1>3, <2>1 DEF Recursive
  <2> QED BY <1>3, <2>2 DEF Recursive
<1>5. Cut(g) BY <1>3, <1>4 DEF Recursive
<1>6. Cut(acc)
  <2> HIDE DEF Cut
  <2> QED BY <1>5, Zenon
<1>7. Pieces(ws, longest) = Close(acc[N]) BY Zenon DEF Pieces
<1> HIDE DEF acc
<1>8. acc[0] = Nothing /\ \A n \in 1..N : acc[n] = AddWord(acc[n - 1], ws[n], longest) BY <1>6
<1>9. acc \in [0..N -> Cuts]
  <2> DEFINE S == {n \in Nat : n \in 0..N => acc[n] \in Cuts}
  <2>1. 0 \in S BY <1>1, <1>8
  <2>2. ASSUME NEW n \in S \intersect Nat PROVE n + 1 \in S
    <3> SUFFICES ASSUME n + 1 \in 0..N PROVE acc[n + 1] \in Cuts OBVIOUS
    <3>1. n + 1 \in 1..N /\ (n + 1) - 1 = n /\ n \in 0..N OBVIOUS
    <3>2. acc[n] \in Cuts /\ ws[n + 1] \in Words BY <3>1
    <3>3. acc[n + 1] = AddWord(acc[n], ws[n + 1], longest) BY <1>8, <3>1
    <3> QED BY <3>2, <3>3, AddWordType
  <2>3. Nat \subseteq S
    <3> HIDE DEF S
    <3> QED BY <2>1, <2>2, SetInduction
  <2>4. \A n \in 0..N : acc[n] \in Cuts BY <2>3
  <2> QED BY <2>4, <1>6
<1> QED BY <1>7, <1>8, <1>9

\* x is in s, and y as well and not before it, both among the first n.
Among(s, n, x, y) == \E k \in 1..n : \E m \in k..n : x = s[k] /\ y = s[m]

CutsInv(acc, ws, n) ==
  /\ FlattenSeq(acc.closed) \o acc.open = SubSeq(ws, 1, n)
  /\ \A a \in DOMAIN acc.closed :
       /\ acc.closed[a] # <<>>
       /\ Among(ws, n, acc.closed[a][1], Last(acc.closed[a]))
       /\ \A b \in DOMAIN acc.closed : a <= b => Among(ws, n, acc.closed[a][1], acc.closed[b][1])
       /\ acc.open # <<>> => Among(ws, n, acc.closed[a][1], acc.open[1])
  /\ acc.open # <<>> => Among(ws, n, acc.open[1], Last(acc.open))

LEMMA AmongGrows ==
  ASSUME NEW s, NEW n \in Nat, NEW x, NEW y, Among(s, n, x, y)
  PROVE  /\ Among(s, n + 1, x, y) /\ Among(s, n + 1, x, s[n + 1]) /\ Among(s, n + 1, x, x)
         /\ Among(s, n + 1, y, s[n + 1])
BY DEF Among

\* Closing what is open keeps all of it.
LEMMA Closing ==
  ASSUME NEW ws \in Seq(Words), NEW n \in Nat, NEW acc \in Cuts, CutsInv(acc, ws, n), acc.open # <<>>
  PROVE  CutsInv([closed |-> Append(acc.closed, acc.open), open |-> <<>>], ws, n)
<1> DEFINE c == Append(acc.closed, acc.open)
<1>1. acc.closed \in Seq(Seq(Words)) /\ acc.open \in Seq(Words) BY DEF Cuts
<1>2. /\ c \in Seq(Seq(Words)) /\ DOMAIN c = 1..(Len(acc.closed) + 1) /\ Len(acc.closed) \in Nat
      /\ DOMAIN acc.closed = 1..Len(acc.closed)
      /\ c[Len(acc.closed) + 1] = acc.open /\ \A a \in DOMAIN acc.closed : c[a] = acc.closed[a]
  BY <1>1, Appended
<1>3. FlattenSeq(c) = FlattenSeq(acc.closed) \o acc.open /\ FlattenSeq(c) \in Seq(Words)
  BY <1>1, <1>2, FlattenAppend
<1>4. FlattenSeq(c) \o <<>> = SubSeq(ws, 1, n)
  BY <1>3, ConcatEmptySeq DEF CutsInv
<1> HIDE DEF c
<1>5. ASSUME NEW x, NEW y, Among(ws, n, x, y) PROVE Among(ws, n, x, x) /\ Among(ws, n, y, y)
  BY <1>5 DEF Among
<1>6. ASSUME NEW a \in DOMAIN c, NEW b \in DOMAIN c, a <= b
      PROVE  /\ c[a] # <<>> /\ Among(ws, n, c[a][1], Last(c[a]))
             /\ Among(ws, n, c[a][1], c[b][1])
  <2>1. CASE a \in DOMAIN acc.closed /\ b \in DOMAIN acc.closed BY <1>2, <1>6, <2>1 DEF CutsInv
  <2>2. CASE a \in DOMAIN acc.closed /\ b = Len(acc.closed) + 1 BY <1>2, <1>6, <2>2 DEF CutsInv
  <2>3. CASE a = Len(acc.closed) + 1 /\ b = Len(acc.closed) + 1
    <3>1. Among(ws, n, acc.open[1], Last(acc.open)) BY DEF CutsInv
    <3> QED BY <1>2, <1>5, <2>3, <3>1
  <2> QED BY <1>2, <1>6, <2>1, <2>2, <2>3
<1> QED BY <1>4, <1>6 DEF CutsInv, c

\* A word more keeps the pieces whole and in the order of the text.
LEMMA AddWordKeeps ==
  ASSUME NEW ws \in Seq(Words), NEW n \in Nat, n + 1 <= Len(ws), NEW acc \in Cuts, NEW longest,
         CutsInv(acc, ws, n)
  PROVE  CutsInv(AddWord(acc, ws[n + 1], longest), ws, n + 1)
<1> DEFINE w == ws[n + 1]
           open == Append(acc.open, w)
           more == [acc EXCEPT !.open = open]
<1>1. acc.closed \in Seq(Seq(Words)) /\ acc.open \in Seq(Words) /\ w \in Words BY DEF Cuts
<1>2. /\ open \in Seq(Words) /\ open # <<>> /\ Last(open) = w /\ open = acc.open \o <<w>>
      /\ acc.open = <<>> => open[1] = w
      /\ acc.open # <<>> => open[1] = acc.open[1]
  BY <1>1, Appended
<1>3. more.open = open /\ more.closed = acc.closed /\ more \in Cuts BY <1>1, <1>2 DEF Cuts
<1>4. FlattenSeq(acc.closed) \o open = SubSeq(ws, 1, n + 1)
  <2>1. FlattenSeq(acc.closed) \in Seq(Words) BY <1>1, FlattenAppend
  <2>2. (FlattenSeq(acc.closed) \o acc.open) \o <<w>> = FlattenSeq(acc.closed) \o open
    <3> DEFINE x == FlattenSeq(acc.closed)
               y == acc.open
               z == <<w>>
    <3>1. x \in Seq(Words) /\ y \in Seq(Words) /\ z \in Seq(Words) BY <1>1, <2>1
    <3>2. open = y \o z BY <1>2
    <3> HIDE DEF x, y, z, open
    <3>3. (x \o y) \o z = x \o (y \o z) BY <3>1, ConcatAssociative
    <3> QED BY <3>2, <3>3 DEF x, y, z
  <2>3. SubSeq(ws, 1, n + 1) = SubSeq(ws, 1, n) \o <<w>>
    <3>1. 1 \in 1..Len(ws) /\ n + 1 \in 1..Len(ws) /\ (n + 1) - 1 = n OBVIOUS
    <3> QED BY <3>1, SubSeqRecursiveSecond
  <2> QED BY <2>2, <2>3 DEF CutsInv
<1>5. Among(ws, n + 1, w, w) BY DEF Among
<1>6. Among(ws, n + 1, open[1], Last(open))
  <2>1. CASE acc.open = <<>> BY <1>2, <1>5, <2>1
  <2>2. CASE acc.open # <<>>
    <3>1. Among(ws, n, acc.open[1], Last(acc.open)) BY <2>2 DEF CutsInv
    <3> QED BY <1>2, <2>2, <3>1, AmongGrows
  <2> QED BY <2>1, <2>2
<1>7. ASSUME NEW a \in DOMAIN acc.closed
      PROVE  /\ acc.closed[a] # <<>>
             /\ Among(ws, n + 1, acc.closed[a][1], Last(acc.closed[a]))
             /\ \A b \in DOMAIN acc.closed : a <= b => Among(ws, n + 1, acc.closed[a][1], acc.closed[b][1])
             /\ Among(ws, n + 1, acc.closed[a][1], open[1])
  <2>1. /\ acc.closed[a] # <<>>
        /\ Among(ws, n, acc.closed[a][1], Last(acc.closed[a]))
        /\ \A b \in DOMAIN acc.closed : a <= b => Among(ws, n, acc.closed[a][1], acc.closed[b][1])
        /\ acc.open # <<>> => Among(ws, n, acc.closed[a][1], acc.open[1])
    BY DEF CutsInv
  <2> HIDE DEF w, open
  <2>2. Among(ws, n + 1, acc.closed[a][1], Last(acc.closed[a])) /\ Among(ws, n + 1, acc.closed[a][1], w)
    BY <2>1, AmongGrows DEF w
  <2>3. \A b \in DOMAIN acc.closed : a <= b => Among(ws, n + 1, acc.closed[a][1], acc.closed[b][1])
    BY <2>1, AmongGrows
  <2>4. Among(ws, n + 1, acc.closed[a][1], open[1])
    BY <1>2, <2>1, <2>2, AmongGrows
  <2> QED BY <2>1, <2>2, <2>3, <2>4
<1> HIDE DEF w, open
<1>8. CutsInv(more, ws, n + 1)
  <2> HIDE DEF more
  <2> QED BY <1>3, <1>4, <1>6, <1>7 DEF CutsInv
<1>9. AddWord(acc, w, longest) \in {more, [closed |-> Append(acc.closed, open), open |-> <<>>]}
  BY DEF AddWord, open
<1>10. CutsInv([closed |-> Append(acc.closed, open), open |-> <<>>], ws, n + 1)
  <2>1. more.open # <<>> /\ n + 1 \in Nat BY <1>2, <1>3
  <2> HIDE DEF more
  <2>2. CutsInv([closed |-> Append(more.closed, more.open), open |-> <<>>], ws, n + 1)
    BY <1>3, <1>8, <2>1, Closing
  <2> QED BY <1>3, <2>2
<1> QED BY <1>8, <1>9, <1>10 DEF w

\* Cut into pieces a text stays whole and in its order.
LEMMA PiecesOf ==
  ASSUME NEW ws \in Seq(Words), NEW longest
  PROVE  LET ps == Pieces(ws, longest)
         IN  /\ ps \in Seq(Seq(Words)) /\ FlattenSeq(ps) = ws
             /\ \A a \in DOMAIN ps :
                  /\ ps[a] # <<>> /\ Among(ws, Len(ws), ps[a][1], Last(ps[a]))
                  /\ \A b \in DOMAIN ps : a <= b => Among(ws, Len(ws), ps[a][1], ps[b][1])
<1> DEFINE N == Len(ws)
<1>1. PICK acc \in [0..N -> Cuts] :
        /\ acc[0] = Nothing /\ \A n \in 1..N : acc[n] = AddWord(acc[n - 1], ws[n], longest)
        /\ Pieces(ws, longest) = Close(acc[N])
  BY PiecesAre
<1> DEFINE S == {n \in Nat : n \in 0..N => CutsInv(acc[n], ws, n)}
<1>2. 0 \in S
  <2>1. SubSeq(ws, 1, 0) = <<>> BY SubSeqEmpty
  <2>2. FlattenSeq(Nothing.closed) \o Nothing.open = <<>> BY FlattenEmpty DEF Nothing
  <2>3. DOMAIN Nothing.closed = {} /\ Nothing.open = <<>> BY DEF Nothing
  <2>4. CutsInv(Nothing, ws, 0) BY <2>1, <2>2, <2>3 DEF CutsInv
  <2> QED BY <1>1, <2>4
<1>3. ASSUME NEW n \in S \intersect Nat PROVE n + 1 \in S
  <2> SUFFICES ASSUME n + 1 \in 0..N PROVE CutsInv(acc[n + 1], ws, n + 1) OBVIOUS
  <2>1. n + 1 \in 1..N /\ (n + 1) - 1 = n /\ n \in 0..N /\ n + 1 <= Len(ws) OBVIOUS
  <2>2. CutsInv(acc[n], ws, n) /\ acc[n] \in Cuts BY <2>1
  <2>3. acc[n + 1] = AddWord(acc[n], ws[n + 1], longest) BY <1>1, <2>1
  <2> QED BY <2>1, <2>2, <2>3, AddWordKeeps
<1>4. CutsInv(acc[N], ws, N)
  <2>1. N \in Nat OBVIOUS
  <2> HIDE DEF S
  <2>2. N \in S BY <1>2, <1>3, <2>1, SetInduction
  <2> QED BY <2>1, <2>2 DEF S
<1> DEFINE end == acc[N]
<1>5. end \in Cuts /\ N \in Nat BY <1>1
<1>6. PICK done \in Cuts : done.open = <<>> /\ CutsInv(done, ws, N) /\ Close(end) = done.closed
  <2>1. CASE end.open = <<>> BY <1>4, <1>5, <2>1 DEF Close
  <2>2. CASE end.open # <<>>
    <3> DEFINE d == [closed |-> Append(end.closed, end.open), open |-> <<>>]
    <3>1. d \in Cuts BY <1>5 DEF Cuts
    <3>2. CutsInv(d, ws, N) BY <1>4, <1>5, <2>2, Closing
    <3>3. Close(end) = d.closed /\ d.open = <<>> BY <2>2 DEF Close
    <3> QED BY <3>1, <3>2, <3>3
  <2> QED BY <2>1, <2>2
<1>7. done.closed \in Seq(Seq(Words)) BY DEF Cuts
<1>8. FlattenSeq(done.closed) = ws
  <2>1. FlattenSeq(done.closed) \in Seq(Words) BY <1>7, FlattenAppend
  <2>2. SubSeq(ws, 1, N) = ws BY SubSeqFull
  <2>3. FlattenSeq(done.closed) \o <<>> = FlattenSeq(done.closed) BY <2>1, ConcatEmptySeq
  <2> QED BY <1>6, <2>2, <2>3 DEF CutsInv
<1>9. Pieces(ws, longest) = done.closed BY <1>1, <1>6
<1> QED BY <1>6, <1>7, <1>8, <1>9 DEF CutsInv

-----------------------------------------------------------------------------
(* What the fragments of the segments say.                                 *)

\* Induction over sequences, for a set of them.
LEMMA SequenceInduction ==
  ASSUME NEW T, NEW P, <<>> \in P, \A s \in P \intersect Seq(T) : \A e \in T : Append(s, e) \in P
  PROVE  Seq(T) \subseteq P
<1> SUFFICES ASSUME NEW s \in Seq(T) PROVE s \in P OBVIOUS
<1> DEFINE N == Len(s)
           S == {n \in Nat : n \in 0..N => SubSeq(s, 1, n) \in P}
<1>1. 0 \in S
  <2>1. SubSeq(s, 1, 0) = <<>> BY SubSeqEmpty
  <2> QED BY <2>1
<1>2. ASSUME NEW n \in S \intersect Nat PROVE n + 1 \in S
  <2> SUFFICES ASSUME n + 1 \in 0..N PROVE SubSeq(s, 1, n + 1) \in P OBVIOUS
  <2>1. SubSeq(s, 1, n) \in P OBVIOUS
  <2>2. SubSeq(s, 1, n) \in Seq(T) /\ s[n + 1] \in T OBVIOUS
  <2>3. SubSeq(s, 1, n + 1) = Append(SubSeq(s, 1, n), s[n + 1]) OBVIOUS
  <2> QED BY <2>1, <2>2, <2>3
<1>3. Len(s) \in Nat OBVIOUS
<1>4. Len(s) \in S
  <2> HIDE DEF S
  <2> QED BY <1>1, <1>2, <1>3, SetInduction
<1>5. SubSeq(s, 1, Len(s)) = s BY SubSeqFull
<1>6. SubSeq(s, 1, Len(s)) \in P
  <2>1. N \in 0..N /\ N \in S BY <1>3, <1>4
  <2> HIDE DEF N
  <2>2. SubSeq(s, 1, N) \in P BY <2>1 
  <2> QED BY <2>2 DEF N
<1> QED BY <1>5, <1>6

LEMMA ConcatAppend ==
  ASSUME NEW T, NEW s \in Seq(T), NEW t \in Seq(T), NEW e \in T
  PROVE  s \o Append(t, e) = Append(s \o t, e)
<1>1. <<e>> \in Seq(T) /\ s \o t \in Seq(T) OBVIOUS
<1>2. Append(t, e) = t \o <<e>> /\ Append(s \o t, e) = (s \o t) \o <<e>> BY <1>1, AppendIsConcat
<1> QED BY <1>1, <1>2, ConcatAssociative

LEMMA FlattenConcat ==
  ASSUME NEW T, NEW s \in Seq(Seq(T)), NEW t \in Seq(Seq(T))
  PROVE  FlattenSeq(s \o t) = FlattenSeq(s) \o FlattenSeq(t)
<1> DEFINE P == {u \in Seq(Seq(T)) : FlattenSeq(s \o u) = FlattenSeq(s) \o FlattenSeq(u)}
<1>0. \A u \in Seq(Seq(T)) : FlattenSeq(u) \in Seq(T)
  <2>1. <<>> \in Seq(T) OBVIOUS
  <2> QED BY <2>1, FlattenAppend
<1>1. <<>> \in P
  <2>1. s \o <<>> = s /\ <<>> \in Seq(Seq(T)) BY ConcatEmptySeq
  <2>2. FlattenSeq(s) \o <<>> = FlattenSeq(s) BY <1>0, ConcatEmptySeq
  <2> QED BY <2>1, <2>2, FlattenEmpty
<1>2. ASSUME NEW u \in P \intersect Seq(Seq(T)), NEW e \in Seq(T) PROVE Append(u, e) \in P
  <2>1. s \o Append(u, e) = Append(s \o u, e) BY ConcatAppend
  <2>2. s \o u \in Seq(Seq(T)) /\ Append(u, e) \in Seq(Seq(T)) OBVIOUS
  <2>3. FlattenSeq(Append(s \o u, e)) = FlattenSeq(s \o u) \o e BY <2>2, FlattenAppend
  <2>4. FlattenSeq(Append(u, e)) = FlattenSeq(u) \o e BY FlattenAppend
  <2> DEFINE x == FlattenSeq(s)
             y == FlattenSeq(u)
  <2>5. x \in Seq(T) /\ y \in Seq(T) BY <1>0
  <2>6. FlattenSeq(s \o u) = x \o y OBVIOUS
  <2> HIDE DEF x, y
  <2>7. (x \o y) \o e = x \o (y \o e) BY <2>5, ConcatAssociative
  <2> QED BY <2>1, <2>2, <2>3, <2>4, <2>6, <2>7 DEF x, y
<1> HIDE DEF P
<1>3. Seq(Seq(T)) \subseteq P BY <1>1, <1>2, SequenceInduction
<1> QED BY <1>3 DEF P

Spans == [start : Int, end : Int]
Sentences == [words : Seq(Words), span : Spans]

LEMMA SaidSteps ==
  ASSUME NEW fs \in Seq(Sentences), NEW f \in Sentences
  PROVE  /\ Said(fs) \in Seq(Words) /\ f.words \in Seq(Words)
         /\ Said(Append(fs, f)) = Said(fs) \o f.words
<1> DEFINE W(s) == [i \in 1..Len(s) |-> s[i].words]
<1>1. f.words \in Seq(Words) BY DEF Sentences
<1>2. \A i \in 1..Len(fs) : fs[i] \in Sentences /\ fs[i].words \in Seq(Words)
  <2>1. \A i \in 1..Len(fs) : fs[i] \in Sentences OBVIOUS
  <2>2. \A x \in Sentences : x.words \in Seq(Words) BY DEF Sentences
  <2> QED BY <2>1, <2>2
<1>3. Len(fs) \in Nat /\ W(fs) \in [1..Len(fs) -> Seq(Words)] BY <1>2
<1>4. W(fs) \in Seq(Seq(Words))
  <2> HIDE DEF W
  <2> QED BY <1>3
<1>5. W(Append(fs, f)) = Append(W(fs), f.words)
  <2> DEFINE g == Append(fs, f)
             h == Append(W(fs), f.words)
  <2>1. Len(g) = Len(fs) + 1 /\ g[Len(fs) + 1] = f /\ \A i \in 1..Len(fs) : g[i] = fs[i]
    BY Appended
  <2>2. Len(W(fs)) = Len(fs) /\ \A i \in 1..Len(fs) : W(fs)[i] = fs[i].words BY <1>3
  <2>3. /\ h \in Seq(Seq(Words)) /\ DOMAIN h = 1..(Len(fs) + 1) /\ h[Len(fs) + 1] = f.words
        /\ \A i \in 1..Len(fs) : h[i] = fs[i].words
    <3> HIDE DEF W
    <3> QED BY <1>1, <1>4, <2>2, Appended
  <2> HIDE DEF h, g
  <2>4. ASSUME NEW i \in 1..(Len(fs) + 1) PROVE g[i].words = h[i]
    <3>1. CASE i = Len(fs) + 1 BY <2>1, <2>3, <3>1
    <3>2. CASE i # Len(fs) + 1
      <4>1. i \in 1..Len(fs) BY <1>3, <3>2
      <4> QED BY <2>1, <2>3, <4>1
    <3> QED BY <3>1, <3>2
  <2>5. W(g) = [i \in 1..(Len(fs) + 1) |-> h[i]] BY <2>1, <2>4
  <2>6. h = [i \in 1..(Len(fs) + 1) |-> h[i]] BY <2>3
  <2> QED BY <2>5, <2>6 DEF g, h
<1> HIDE DEF W
<1>6. FlattenSeq(W(fs)) \in Seq(Words) /\ FlattenSeq(Append(W(fs), f.words)) = FlattenSeq(W(fs)) \o f.words
  BY <1>1, <1>4, FlattenAppend
<1> QED BY <1>1, <1>5, <1>6 DEF Said, W

LEMMA SaidNothing == Said(<<>>) = <<>>
<1>1. [i \in 1..Len(<<>>) |-> <<>>[i].words] = <<>> OBVIOUS
<1> QED BY <1>1, FlattenEmpty DEF Said

LEMMA SaidConcat ==
  ASSUME NEW fs \in Seq(Sentences), NEW gs \in Seq(Sentences)
  PROVE  Said(fs \o gs) = Said(fs) \o Said(gs)
<1> DEFINE P == {u \in Seq(Sentences) : Said(fs \o u) = Said(fs) \o Said(u)}
<1>0. \A u \in Seq(Sentences) : Said(u) \in Seq(Words)
  <2>1. ASSUME NEW u \in Seq(Sentences) PROVE Said(u) \in Seq(Words)
    <3>1. [words |-> <<>>, span |-> [start |-> 0, end |-> 0]] \in Sentences BY DEF Sentences, Spans
    <3> QED BY <3>1, SaidSteps
  <2> QED BY <2>1
<1>1. <<>> \in P
  <2>1. fs \o <<>> = fs /\ <<>> \in Seq(Sentences) BY ConcatEmptySeq
  <2>2. Said(fs) \o <<>> = Said(fs) BY <1>0, ConcatEmptySeq
  <2> QED BY <2>1, <2>2, SaidNothing
<1>2. ASSUME NEW u \in P \intersect Seq(Sentences), NEW e \in Sentences PROVE Append(u, e) \in P
  <2>1. fs \o Append(u, e) = Append(fs \o u, e) BY ConcatAppend
  <2>2. fs \o u \in Seq(Sentences) /\ Append(u, e) \in Seq(Sentences) OBVIOUS
  <2>3. Said(Append(fs \o u, e)) = Said(fs \o u) \o e.words BY <2>2, SaidSteps
  <2>4. Said(Append(u, e)) = Said(u) \o e.words BY SaidSteps
  <2> DEFINE x == Said(fs)
             y == Said(u)
             z == e.words
  <2>5. x \in Seq(Words) /\ y \in Seq(Words) /\ z \in Seq(Words) BY <1>0 DEF Sentences
  <2>6. Said(fs \o u) = x \o y OBVIOUS
  <2> HIDE DEF x, y, z
  <2>7. (x \o y) \o z = x \o (y \o z) BY <2>5, ConcatAssociative
  <2> QED BY <2>1, <2>2, <2>3, <2>4, <2>6, <2>7 DEF x, y, z
<1> HIDE DEF P
<1>3. Seq(Sentences) \subseteq P BY <1>1, <1>2, SequenceInduction
<1> QED BY <1>3 DEF P

LEMMA MapAppend ==
  ASSUME NEW T, NEW n \in Nat, NEW g, \A i \in 1..(n + 1) : g[i] \in T
  PROVE  /\ [i \in 1..n |-> g[i]] \in Seq(T)
         /\ [i \in 1..(n + 1) |-> g[i]] = Append([i \in 1..n |-> g[i]], g[n + 1])
<1> DEFINE f == [i \in 1..n |-> g[i]]
           h == [i \in 1..(n + 1) |-> g[i]]
<1>1. f \in [1..n -> T] /\ h \in [1..(n + 1) -> T] OBVIOUS
<1>2. f \in Seq(T) /\ h \in Seq(T) /\ Len(f) = n /\ Len(h) = n + 1
  <2> HIDE DEF f, h
  <2> QED BY <1>1
<1>3. (\A i \in 1..n : f[i] = g[i]) /\ \A i \in 1..(n + 1) : h[i] = g[i] OBVIOUS
<1> HIDE DEF f, h
<1>4. /\ Append(f, g[n + 1]) \in Seq(T) /\ Len(Append(f, g[n + 1])) = n + 1
      /\ \A i \in 1..(n + 1) : Append(f, g[n + 1])[i] = g[i]
  <2>1. n + 1 \in 1..(n + 1) OBVIOUS
  <2>2. g[n + 1] \in T BY <2>1
  <2>3. /\ Append(f, g[n + 1]) \in Seq(T) /\ Len(Append(f, g[n + 1])) = n + 1
        /\ Append(f, g[n + 1])[n + 1] = g[n + 1] /\ \A i \in 1..n : Append(f, g[n + 1])[i] = f[i]
    BY <1>2, <2>2, Appended
  <2>4. \A i \in 1..(n + 1) : i = n + 1 \/ i \in 1..n OBVIOUS
  <2> QED BY <1>3, <2>3, <2>4
<1>5. h = Append(f, g[n + 1]) BY <1>2, <1>3, <1>4, SeqEqual
<1> QED BY <1>2, <1>5 DEF f, h

\* What the sentences of some fragments say together is what each says.
LEMMA SaidFlatten ==
  ASSUME NEW ss \in Seq(Seq(Sentences))
  PROVE  /\ FlattenSeq(ss) \in Seq(Sentences)
         /\ Said(FlattenSeq(ss)) = FlattenSeq([i \in 1..Len(ss) |-> Said(ss[i])])
<1> DEFINE S(u) == [i \in 1..Len(u) |-> Said(u[i])]
           P == {u \in Seq(Seq(Sentences)) : Said(FlattenSeq(u)) = FlattenSeq(S(u))}
<1>0. \A u \in Seq(Sentences) : Said(u) \in Seq(Words)
  <2>1. ASSUME NEW u \in Seq(Sentences) PROVE Said(u) \in Seq(Words)
    <3>1. [words |-> <<>>, span |-> [start |-> 0, end |-> 0]] \in Sentences BY DEF Sentences, Spans
    <3> QED BY <3>1, SaidSteps
  <2> QED BY <2>1
<1>1. <<>> \in P
  <2>1. S(<<>>) = <<>> OBVIOUS
  <2> QED BY <2>1, FlattenEmpty, SaidNothing
<1>2. ASSUME NEW u \in P \intersect Seq(Seq(Sentences)), NEW e \in Seq(Sentences)
      PROVE  Append(u, e) \in P
  <2> DEFINE v == Append(u, e)
             n == Len(u)
             g == [i \in 1..(n + 1) |-> Said(v[i])]
  <2>1. /\ v \in Seq(Seq(Sentences)) /\ Len(v) = n + 1 /\ v[n + 1] = e /\ n \in Nat
        /\ \A i \in 1..n : v[i] = u[i] /\ u[i] \in Seq(Sentences)
    OBVIOUS
  <2>2. \A i \in 1..(n + 1) : v[i] \in Seq(Sentences) BY <2>1
  <2>3. \A i \in 1..(n + 1) : g[i] \in Seq(Words) BY <1>0, <2>2
  <2>4. S(v) = [i \in 1..(n + 1) |-> g[i]] BY <2>1
  <2>5. S(u) = [i \in 1..n |-> g[i]] BY <2>1
  <2>6. g[n + 1] = Said(e) BY <2>1
  <2> HIDE DEF v, n, g, S
  <2>7. S(u) \in Seq(Seq(Words)) /\ S(v) = Append(S(u), Said(e))
    BY <2>1, <2>3, <2>4, <2>5, <2>6, MapAppend
  <2>8. FlattenSeq(S(v)) = FlattenSeq(S(u)) \o Said(e) BY <1>0, <2>7, FlattenAppend
  <2>9. FlattenSeq(v) = FlattenSeq(u) \o e /\ FlattenSeq(u) \in Seq(Sentences)
    BY FlattenAppend DEF v
  <2>10. Said(FlattenSeq(v)) = Said(FlattenSeq(u)) \o Said(e) BY <2>9, SaidConcat
  <2>11. Said(FlattenSeq(u)) = FlattenSeq(S(u)) OBVIOUS
  <2> QED BY <2>1, <2>8, <2>10, <2>11 DEF v
<1>3. Seq(Seq(Sentences)) \subseteq P
  <2> HIDE DEF P
  <2> QED BY <1>1, <1>2, SequenceInduction
<1>4. FlattenSeq(ss) \in Seq(Sentences)
  <2>1. <<>> \in Seq(Sentences) OBVIOUS
  <2> QED BY <2>1, FlattenAppend
<1> QED BY <1>3, <1>4

Segments == {s \in Seq(Words) : s # <<>>}

LEMMA FragmentsOf ==
  ASSUME NEW segment \in Segments
  PROVE  /\ Fragments(segment) \in Seq(Sentences) /\ Said(Fragments(segment)) = segment
         /\ \A i \in 1..Len(Fragments(segment)) : Fragments(segment)[i].span = Span(segment)
<1> DEFINE ps == Pieces(segment, Len(segment) + 1)
           fs == Fragments(segment)
<1>1. segment \in Seq(Words) /\ segment # <<>> BY DEF Segments
<1>2. ps \in Seq(Seq(Words)) /\ FlattenSeq(ps) = segment BY <1>1, PiecesOf
<1>3. Span(segment) \in Spans
  <2>1. segment[1] \in Words /\ Last(segment) \in Words
    <3>1. Len(segment) \in Nat /\ Len(segment) # 0 BY <1>1, EmptySeq
    <3> QED BY <1>1, <3>1 DEF Last
  <2>2. \A w \in Words : w.start \in Int /\ w.end \in Int BY DEF Words
  <2> QED BY <2>1, <2>2 DEF Span, Spans
<1>4. fs = [i \in 1..Len(ps) |-> [words |-> ps[i], span |-> Span(segment)]] BY DEF Fragments
<1> HIDE DEF ps, fs
<1>5. Len(ps) \in Nat /\ \A i \in 1..Len(ps) : ps[i] \in Seq(Words) BY <1>2
<1>6. \A i \in 1..Len(ps) : [words |-> ps[i], span |-> Span(segment)] \in Sentences
  BY <1>3, <1>5 DEF Sentences
<1>7. fs \in [1..Len(ps) -> Sentences] BY <1>4, <1>6
<1>8. fs \in Seq(Sentences) /\ Len(fs) = Len(ps) BY <1>5, <1>7
<1>9. \A i \in 1..Len(fs) : fs[i].words = ps[i] /\ fs[i].span = Span(segment) BY <1>4, <1>8
<1>10. [i \in 1..Len(fs) |-> fs[i].words] = ps
  <2>1. [i \in 1..Len(fs) |-> fs[i].words] = [i \in 1..Len(ps) |-> ps[i]] BY <1>8, <1>9
  <2>2. ps = [i \in 1..Len(ps) |-> ps[i]] BY <1>2
  <2> QED BY <2>1, <2>2
<1>11. Said(fs) = segment BY <1>2, <1>10 DEF Said
<1> QED BY <1>8, <1>9, <1>11 DEF fs

\* x is the span of a segment, and y of that or a later one.
Spanned(segs, x, y) == \E k \in 1..Len(segs) : \E m \in k..Len(segs) : x = Span(segs[k]) /\ y = Span(segs[m])
SpansInOrder(fs, segs) ==
  \A i, j \in 1..Len(fs) : i <= j => Spanned(segs, fs[i].span, fs[j].span)

\* The fragments of some segments say what those do, and have their spans in their order.
LEMMA AllFragmentsOf ==
  ASSUME NEW segs \in Seq(Segments)
  PROVE  /\ AllFragments(segs) \in Seq(Sentences) /\ Said(AllFragments(segs)) = FlattenSeq(segs)
         /\ SpansInOrder(AllFragments(segs), segs)
<1> DEFINE P == {u \in Seq(Segments) : /\ AllFragments(u) \in Seq(Sentences)
                                       /\ Said(AllFragments(u)) = FlattenSeq(u)
                                       /\ SpansInOrder(AllFragments(u), u)}
<1>0. \A x \in Segments : x \in Seq(Words) /\ Fragments(x) \in Seq(Sentences) BY FragmentsOf DEF Segments
<1>i. AllFragments(<<>>) = <<>>
  <2>1. [i \in 1..Len(<<>>) |-> Fragments(<<>>[i])] = <<>> OBVIOUS
  <2> QED BY <2>1, FlattenEmpty DEF AllFragments
<1>1. <<>> \in P
  <2>1. SpansInOrder(<<>>, <<>>) BY DEF SpansInOrder
  <2>2. <<>> \in Seq(Segments) /\ <<>> \in Seq(Sentences) OBVIOUS
  <2>3. /\ AllFragments(<<>>) \in Seq(Sentences) /\ Said(AllFragments(<<>>)) = FlattenSeq(<<>>)
        /\ SpansInOrder(AllFragments(<<>>), <<>>)
    BY <1>i, <2>1, <2>2, FlattenEmpty, SaidNothing, Zenon
  <2> QED BY <2>2, <2>3
<1>2. ASSUME NEW u \in P \intersect Seq(Segments), NEW e \in Segments PROVE Append(u, e) \in P
  <2> DEFINE v == Append(u, e)
             n == Len(u)
             g == [i \in 1..(n + 1) |-> Fragments(v[i])]
             fs == AllFragments(u)
             es == Fragments(e)
  <2>1. /\ v \in Seq(Segments) /\ Len(v) = n + 1 /\ v[n + 1] = e /\ n \in Nat
        /\ \A i \in 1..n : v[i] = u[i] /\ u[i] \in Segments
    OBVIOUS
  <2>2. \A i \in 1..(n + 1) : v[i] \in Segments BY <2>1
  <2>3. \A i \in 1..(n + 1) : g[i] \in Seq(Sentences) BY <1>0, <2>2
  <2>4. AllFragments(v) = FlattenSeq([i \in 1..(n + 1) |-> g[i]])
    <3>1. [i \in 1..Len(v) |-> Fragments(v[i])] = [i \in 1..(n + 1) |-> g[i]] BY <2>1
    <3> QED BY <3>1 DEF AllFragments
  <2>5. fs = FlattenSeq([i \in 1..n |-> g[i]])
    <3>1. [i \in 1..Len(u) |-> Fragments(u[i])] = [i \in 1..n |-> g[i]] BY <2>1
    <3> QED BY <3>1 DEF AllFragments
  <2>6. g[n + 1] = es BY <2>1
  <2>7. es \in Seq(Sentences) /\ Said(es) = e /\ \A i \in 1..Len(es) : es[i].span = Span(e)
    BY FragmentsOf
  <2>8. fs \in Seq(Sentences) /\ Said(fs) = FlattenSeq(u) /\ SpansInOrder(fs, u) OBVIOUS
  <2> HIDE DEF g, v, n, fs, es
  <2>9. AllFragments(v) = fs \o es
    <3>1. /\ [i \in 1..n |-> g[i]] \in Seq(Seq(Sentences))
          /\ [i \in 1..(n + 1) |-> g[i]] = Append([i \in 1..n |-> g[i]], es)
      BY <2>1, <2>3, <2>6, MapAppend
    <3> QED BY <2>4, <2>5, <2>7, <3>1, FlattenAppend
  <2>10. Said(AllFragments(v)) = FlattenSeq(v)
    <3>1. Said(fs \o es) = Said(fs) \o Said(es) BY <2>7, <2>8, SaidConcat
    <3>2. u \in Seq(Seq(Words)) /\ e \in Seq(Words)
      <4>1. Segments \subseteq Seq(Words) BY DEF Segments
      <4> QED BY <4>1, SeqMonotonic
    <3>3. FlattenSeq(v) = FlattenSeq(u) \o e BY <3>2, FlattenAppend DEF v
    <3> QED BY <2>7, <2>8, <2>9, <3>1, <3>3
  <2>11. SpansInOrder(AllFragments(v), v)
    <3> DEFINE all == fs \o es
               m == Len(fs)
    <3>1. /\ m \in Nat /\ Len(es) \in Nat /\ Len(all) = m + Len(es)
          /\ \A i \in 1..m : all[i] = fs[i]
          /\ \A i \in (m + 1)..Len(all) : all[i] = es[i - m] /\ i - m \in 1..Len(es)
      BY <2>7, <2>8
    <3>2. \A i \in (m + 1)..Len(all) : all[i].span = Span(v[n + 1]) BY <2>1, <2>7, <3>1
    <3>3. \A i, j \in 1..m : i <= j => Spanned(u, all[i].span, all[j].span)
      BY <2>8, <3>1 DEF SpansInOrder
    <3> HIDE DEF all, m
    <3>4. \A x, y : Spanned(u, x, y) => Spanned(v, x, y) /\ Spanned(v, x, Span(v[n + 1]))
      <4> SUFFICES ASSUME NEW x, NEW y, Spanned(u, x, y)
                   PROVE  Spanned(v, x, y) /\ Spanned(v, x, Span(v[n + 1]))
        OBVIOUS
      <4>1. PICK k \in 1..n : \E l \in k..n : x = Span(u[k]) /\ y = Span(u[l]) BY DEF Spanned, n
      <4>2. PICK l \in k..n : x = Span(u[k]) /\ y = Span(u[l]) BY <4>1
      <4>3. k \in 1..(n + 1) /\ l \in k..(n + 1) /\ n + 1 \in k..(n + 1) /\ l \in 1..n BY <2>1, <4>1, <4>2
      <4>4. x = Span(v[k]) /\ y = Span(v[l]) BY <2>1, <4>2, <4>3
      <4> QED BY <2>1, <4>3, <4>4 DEF Spanned
    <3>5. Spanned(v, Span(v[n + 1]), Span(v[n + 1]))
      <4>1. n + 1 \in 1..(n + 1) /\ n + 1 \in (n + 1)..(n + 1) BY <2>1
      <4> QED BY <2>1, <4>1 DEF Spanned
    <3>6. ASSUME NEW i \in 1..Len(all), NEW j \in 1..Len(all), i <= j
          PROVE  Spanned(v, all[i].span, all[j].span)
      <4>1. CASE j <= m
        <5>1. i \in 1..m /\ j \in 1..m BY <3>1, <3>6, <4>1
        <5> QED BY <3>3, <3>4, <3>6, <5>1
      <4>2. CASE j > m /\ i <= m
        <5>1. i \in 1..m /\ j \in (m + 1)..Len(all) BY <3>1, <3>6, <4>2
        <5>2. Spanned(u, all[i].span, all[i].span) BY <3>3, <5>1
        <5> QED BY <3>2, <3>4, <5>1, <5>2
      <4>3. CASE j > m /\ i > m
        <5>1. i \in (m + 1)..Len(all) /\ j \in (m + 1)..Len(all) BY <3>1, <3>6, <4>3
        <5> QED BY <3>2, <3>5, <5>1
      <4> QED BY <3>1, <4>1, <4>2, <4>3
    <3> QED BY <2>9, <3>6 DEF SpansInOrder, all
  <2>12. AllFragments(v) \in Seq(Sentences) BY <2>7, <2>8, <2>9
  <2> QED BY <2>1, <2>10, <2>11, <2>12 DEF v
<1>3. Seq(Segments) \subseteq P
  <2> HIDE DEF P
  <2> QED BY <1>1, <1>2, SequenceInduction
<1> QED BY <1>3

-----------------------------------------------------------------------------
(* Chunks.                                                                 *)

Packs == [closed : Seq(Seq(Sentences)), open : Seq(Sentences)]

\* What a chunk shares with the next are its last sentences.
LEMMA SharedIs ==
  ASSUME NEW fs \in Seq(Sentences), NEW count \in Nat
  PROVE  /\ Shared(fs, count) \in Seq(Sentences) /\ Len(Shared(fs, count)) <= count
         /\ \A i \in 1..Len(Shared(fs, count)) : \E m \in 1..Len(fs) : Shared(fs, count)[i] = fs[m]
<1>1. CASE count > Len(fs)
  <2>1. Shared(fs, count) = fs BY <1>1 DEF Shared
  <2>2. Len(fs) \in Nat /\ Len(fs) <= count BY <1>1
  <2>3. \A i \in 1..Len(fs) : \E m \in 1..Len(fs) : fs[i] = fs[m] BY Zenon
  <2> QED BY <2>1, <2>2, <2>3
<1>2. CASE ~(count > Len(fs))
  <2> DEFINE from == Len(fs) - count + 1
             t == SubSeq(fs, from, Len(fs))
  <2>1. Shared(fs, count) = t BY <1>2 DEF Shared
  <2>2. Len(fs) \in Nat /\ from \in 1..(Len(fs) + 1) BY <1>2
  <2>3. t \in Seq(Sentences) /\ Len(t) = count /\ \A i \in 1..count : t[i] = fs[from + i - 1]
    BY <1>2, <2>2
  <2>4. ASSUME NEW i \in 1..count PROVE from + i - 1 \in 1..Len(fs) BY <1>2, <2>2
  <2> HIDE DEF t, from
  <2>5. \A i \in 1..Len(t) : \E m \in 1..Len(fs) : t[i] = fs[m]
    <3> SUFFICES ASSUME NEW i \in 1..count PROVE \E m \in 1..Len(fs) : t[i] = fs[m] BY <2>3
    <3>1. from + i - 1 \in 1..Len(fs) BY <2>4
    <3>2. t[i] = fs[from + i - 1] BY <2>3
    <3> QED BY <3>1, <3>2
  <2>6. t \in Seq(Sentences) /\ Len(t) <= count BY <2>3
  <2> QED BY <2>1, <2>5, <2>6
<1> QED BY <1>1, <1>2

LEMMA AddFragmentType ==
  ASSUME NEW acc \in Packs, NEW f \in Sentences, NEW count \in Nat
  PROVE  AddFragment(acc, f, count) \in Packs
<1>1. acc.closed \in Seq(Seq(Sentences)) /\ acc.open \in Seq(Sentences) BY DEF Packs
<1>2. Append(acc.open, f) \in Seq(Sentences) BY <1>1
<1>3. Append(acc.closed, acc.open) \in Seq(Seq(Sentences)) BY <1>1
<1>4. Shared(acc.open, count) \in Seq(Sentences) BY <1>1, SharedIs
<1>5. Append(Shared(acc.open, count), f) \in Seq(Sentences) BY <1>4
<1>6. \/ AddFragment(acc, f, count) = [acc EXCEPT !.open = Append(acc.open, f)]
      \/ AddFragment(acc, f, count)
           = [closed |-> Append(acc.closed, acc.open), open |-> Append(Shared(acc.open, count), f)]
  BY DEF AddFragment
<1>7. [closed |-> Append(acc.closed, acc.open), open |-> Append(Shared(acc.open, count), f)] \in Packs
  BY <1>3, <1>5 DEF Packs
<1>8. [acc EXCEPT !.open = Append(acc.open, f)] \in Packs BY <1>2 DEF Packs
<1> QED BY <1>6, <1>7, <1>8, Zenon

\* The function that packs fragments is what its recursion says.
LEMMA PackedIs ==
  ASSUME NEW fs \in Seq(Sentences), NEW count \in Nat
  PROVE  \E acc \in [0..Len(fs) -> Packs] :
           /\ acc[0] = Nothing /\ \A n \in 1..Len(fs) : acc[n] = AddFragment(acc[n - 1], fs[n], count)
           /\ Packed(fs, count) = Close(acc[Len(fs)])
<1> DEFINE N == Len(fs)
           next == [n \in 1..N |-> [x \in Packs |-> AddFragment(x, fs[n], count)]]
           Pack(s) == s = [i \in 0..N |-> IF i = 0 THEN Nothing ELSE AddFragment(s[i - 1], fs[i], count)]
           acc == CHOOSE s : Pack(s)
<1>1. N \in Nat /\ Nothing \in Packs BY DEF Nothing, Packs
<1>2. next \in [1..N -> [Packs -> Packs]]
  <2>1. \A n \in 1..N : \A x \in Packs : AddFragment(x, fs[n], count) \in Packs BY AddFragmentType
  <2> QED BY <2>1
<1>3. PICK g : Recursive(g, N, Packs, Nothing, next)
  <2> HIDE DEF next, N
  <2> QED BY <1>1, <1>2, Recursion
<1>4. ASSUME NEW n \in 1..N PROVE g[n] = AddFragment(g[n - 1], fs[n], count)
  <2>1. n - 1 \in 0..N OBVIOUS
  <2>2. g[n - 1] \in Packs BY <1>3, <2>1 DEF Recursive
  <2> QED BY <1>3, <2>2 DEF Recursive
<1>5. Pack(g) BY <1>3, <1>4 DEF Recursive
<1>6. Pack(acc)
  <2> HIDE DEF Pack
  <2> QED BY <1>5, Zenon
<1>7. Packed(fs, count) = Close(acc[N]) BY Zenon DEF Packed
<1> HIDE DEF acc
<1>8. acc[0] = Nothing /\ \A n \in 1..N : acc[n] = AddFragment(acc[n - 1], fs[n], count) BY <1>6
<1>9. acc \in [0..N -> Packs]
  <2> DEFINE S == {n \in Nat : n \in 0..N => acc[n] \in Packs}
  <2>1. 0 \in S BY <1>1, <1>8
  <2>2. ASSUME NEW n \in S \intersect Nat PROVE n + 1 \in S
    <3> SUFFICES ASSUME n + 1 \in 0..N PROVE acc[n + 1] \in Packs OBVIOUS
    <3>1. n + 1 \in 1..N /\ (n + 1) - 1 = n /\ n \in 0..N OBVIOUS
    <3>2. acc[n] \in Packs /\ fs[n + 1] \in Sentences BY <3>1
    <3>3. acc[n + 1] = AddFragment(acc[n], fs[n + 1], count) BY <1>8, <3>1
    <3> QED BY <3>2, <3>3, AddFragmentType
  <2>3. Nat \subseteq S
    <3> HIDE DEF S
    <3> QED BY <2>1, <2>2, SetInduction
  <2>4. \A n \in 0..N : acc[n] \in Packs BY <2>3
  <2> QED BY <2>4, <1>6
<1> QED BY <1>7, <1>8, <1>9

\* What each chunk adds to the one before it.
News(cs, count) ==
  [i \in 1..Len(cs) |->
     IF i = 1 THEN cs[1] ELSE SubSeq(cs[i], Len(Shared(cs[i - 1], count)) + 1, Len(cs[i]))]
Kept(cs, count) == IF cs = <<>> THEN <<>> ELSE Shared(Last(cs), count)
Fits(c, count) == Tokens(c) > MaxTokens => Len(c) <= count + 1

ClosedInv(cs, fs, n, count) ==
  \A a \in DOMAIN cs :
    /\ cs[a] # <<>> /\ Fits(cs[a], count) /\ Among(fs, n, cs[a][1], Last(cs[a]))
    /\ a > 1 => IsPrefix(Shared(cs[a - 1], count), cs[a])

OpenInv(cs, open, fs, n, count) ==
  /\ IsPrefix(Kept(cs, count), open) /\ Fits(open, count)
  /\ \A i \in 1..Len(open) : Among(fs, n, open[i], Last(open))
  /\ FlattenSeq(News(cs, count)) \o SubSeq(open, Len(Kept(cs, count)) + 1, Len(open)) = SubSeq(fs, 1, n)

\* The next chunk begins with a sequence of sentences, an empty one for the first.
LEMMA KeptIs ==
  ASSUME NEW cs \in Seq(Seq(Sentences)), NEW count \in Nat
  PROVE  Kept(cs, count) \in Seq(Sentences) /\ Len(Kept(cs, count)) \in Nat
<1>1. CASE cs = <<>> BY <1>1 DEF Kept
<1>2. CASE cs # <<>>
  <2>1. Len(cs) \in 1..Len(cs) BY <1>2, EmptySeq
  <2>2. Last(cs) \in Seq(Sentences) BY <2>1 DEF Last
  <2>3. Kept(cs, count) \in Seq(Sentences) BY <1>2, <2>2, SharedIs DEF Kept
  <2> QED BY <2>3, LenProperties
<1> QED BY <1>1, <1>2

\* A chunk more is news more: what it does not share with the one before.
LEMMA NewsAppend ==
  ASSUME NEW cs \in Seq(Seq(Sentences)), NEW c \in Seq(Sentences), NEW count \in Nat
  PROVE  /\ News(cs, count) \in Seq(Seq(Sentences))
         /\ SubSeq(c, Len(Kept(cs, count)) + 1, Len(c)) \in Seq(Sentences)
         /\ News(Append(cs, c), count)
              = Append(News(cs, count), SubSeq(c, Len(Kept(cs, count)) + 1, Len(c)))
<1> DEFINE n == Len(cs)
           d == Append(cs, c)
           N(x) == News(x, count)
           g == [i \in 1..(n + 1) |->
                   IF i = 1 THEN d[1] ELSE SubSeq(d[i], Len(Shared(d[i - 1], count)) + 1, Len(d[i]))]
           rest == SubSeq(c, Len(Kept(cs, count)) + 1, Len(c))
<1>1. /\ n \in Nat /\ d \in Seq(Seq(Sentences)) /\ Len(d) = n + 1 /\ d[n + 1] = c
      /\ \A i \in 1..n : d[i] = cs[i] /\ cs[i] \in Seq(Sentences)
  OBVIOUS
<1>2. \A i \in 1..(n + 1) : d[i] \in Seq(Sentences) BY <1>1
<1>3. \A s, t \in Seq(Sentences) : SubSeq(s, Len(Shared(t, count)) + 1, Len(s)) \in Seq(Sentences)
  <2> SUFFICES ASSUME NEW s \in Seq(Sentences), NEW t \in Seq(Sentences)
               PROVE  SubSeq(s, Len(Shared(t, count)) + 1, Len(s)) \in Seq(Sentences)
    OBVIOUS
  <2>1. Len(Shared(t, count)) \in Nat BY SharedIs, LenProperties
  <2>2. Len(Shared(t, count)) + 1 \in Int /\ Len(s) \in Int /\ Len(Shared(t, count)) + 1 >= 1 BY <2>1
  <2> QED BY <2>2, SubSeqProperties
<1>4. \A i \in 1..(n + 1) : g[i] \in Seq(Sentences)
  <2> SUFFICES ASSUME NEW i \in 1..(n + 1) PROVE g[i] \in Seq(Sentences) OBVIOUS
  <2>1. CASE i = 1 BY <1>2, <2>1
  <2>2. CASE i # 1
    <3>1. i - 1 \in 1..(n + 1) BY <1>1, <2>2
    <3> QED BY <1>2, <1>3, <2>2, <3>1
  <2> QED BY <2>1, <2>2
<1>5. N(d) = [i \in 1..(n + 1) |-> g[i]] BY <1>1 DEF News
<1>6. N(cs) = [i \in 1..n |-> g[i]]
  <2>1. ASSUME NEW i \in 1..n
        PROVE  g[i] = IF i = 1 THEN cs[1] ELSE SubSeq(cs[i], Len(Shared(cs[i - 1], count)) + 1, Len(cs[i]))
    <3>1. CASE i = 1 BY <1>1, <3>1
    <3>2. CASE i # 1
      <4>1. i - 1 \in 1..n /\ i \in 1..(n + 1) BY <1>1, <3>2
      <4>2. d[i] = cs[i] /\ d[i - 1] = cs[i - 1] BY <1>1, <4>1
      <4> QED BY <3>2, <4>1, <4>2
    <3> QED BY <3>1, <3>2
  <2> HIDE DEF g
  <2> QED BY <2>1 DEF News
<1>7. g[n + 1] = rest
  <2>1. CASE n = 0
    <3>1. cs = <<>> BY <2>1
    <3>2. Len(Kept(cs, count)) = 0 BY <3>1 DEF Kept
    <3>3. SubSeq(c, 1, Len(c)) = c BY SubSeqFull
    <3> QED BY <1>1, <2>1, <3>2, <3>3
  <2>2. CASE n # 0
    <3>1. cs # <<>> /\ n \in 1..n BY <1>1, <2>2
    <3>2. Kept(cs, count) = Shared(cs[n], count) BY <3>1 DEF Kept, Last
    <3>3. g[n + 1] = SubSeq(d[n + 1], Len(Shared(d[n], count)) + 1, Len(d[n + 1]))
      <4>1. n + 1 \in 1..(n + 1) /\ n + 1 # 1 /\ (n + 1) - 1 = n BY <1>1, <2>2
      <4> QED BY <4>1
    <3>4. d[n + 1] = c /\ d[n] = cs[n] BY <1>1, <3>1
    <3> QED BY <3>2, <3>3, <3>4
  <2> QED BY <2>1, <2>2
<1> HIDE DEF n, d, N, g, rest
<1>8. N(cs) \in Seq(Seq(Sentences)) /\ N(d) = Append(N(cs), rest)
  BY <1>1, <1>4, <1>5, <1>6, <1>7, MapAppend
<1>9. rest \in Seq(Sentences)
  <2>1. n + 1 \in 1..(n + 1) BY <1>1
  <2> QED BY <1>4, <1>7, <2>1
<1> QED BY <1>8, <1>9 DEF N, d, rest

\* a goes on from the prefix s as t does, and ends with e.
Goes(T, s, t, e, a) ==
  /\ IsPrefix(s, a) /\ SubSeq(t, Len(s) + 1, Len(t)) \in Seq(T)
  /\ SubSeq(a, Len(s) + 1, Len(a)) = SubSeq(t, Len(s) + 1, Len(t)) \o <<e>>

LEMMA PrefixGrows ==
  ASSUME NEW T, NEW s \in Seq(T), NEW t \in Seq(T), NEW e \in T, NEW a, a = t \o <<e>>,
         IsPrefix(s, t)
  PROVE  Goes(T, s, t, e, a)
<1> DEFINE k == Len(s)
           n == Len(t)
<1>1. k \in Nat /\ n \in Nat /\ k <= n /\ SubSeq(s, 1, k) = SubSeq(t, 1, k) BY DEF IsPrefix
<1>2. a \in Seq(T) /\ Len(a) = n + 1 /\ a[n + 1] = e /\ \A i \in 1..n : a[i] = t[i]
  <2>1. /\ Append(t, e) \in Seq(T) /\ Len(Append(t, e)) = n + 1 /\ Append(t, e)[n + 1] = e
        /\ \A i \in 1..n : Append(t, e)[i] = t[i]
    BY Appended
  <2>2. Append(t, e) = t \o <<e>> BY AppendIsConcat
  <2> QED BY <2>1, <2>2
<1>3. SubSeq(a, 1, k) = SubSeq(t, 1, k)
  <2>1. /\ SubSeq(a, 1, k) \in Seq(T) /\ Len(SubSeq(a, 1, k)) = k
        /\ \A i \in 1..k : SubSeq(a, 1, k)[i] = a[i]
    BY <1>1, <1>2
  <2>2. /\ SubSeq(t, 1, k) \in Seq(T) /\ Len(SubSeq(t, 1, k)) = k
        /\ \A i \in 1..k : SubSeq(t, 1, k)[i] = t[i]
    BY <1>1
  <2>3. \A i \in 1..k : i \in 1..n BY <1>1
  <2> QED BY <1>2, <2>1, <2>2, <2>3, SeqEqual
<1>4. SubSeq(t, k + 1, n) \in Seq(T) /\ Len(SubSeq(t, k + 1, n)) = n - k
      /\ \A i \in 1..(n - k) : SubSeq(t, k + 1, n)[i] = t[k + i]
  BY <1>1
<1> DEFINE r == SubSeq(t, k + 1, n)
           q == SubSeq(a, k + 1, n + 1)
<1>5. q \in Seq(T) /\ Len(q) = n + 1 - k /\ \A i \in 1..(n + 1 - k) : q[i] = a[k + i]
  BY <1>1, <1>2
<1> HIDE DEF k, n, r, q
<1>6. q = Append(r, e)
  <2>1. /\ Append(r, e) \in Seq(T) /\ Len(Append(r, e)) = n - k + 1 /\ Append(r, e)[n - k + 1] = e
        /\ \A i \in 1..(n - k) : Append(r, e)[i] = r[i]
    BY <1>4, Appended DEF r
  <2>2. ASSUME NEW i \in 1..(n - k + 1) PROVE Append(r, e)[i] = q[i]
    <3>1. CASE i = n - k + 1
      <4>1. k + i = n + 1 BY <1>1, <3>1
      <4>2. Append(r, e)[i] = e BY <2>1, <3>1
      <4>3. i \in 1..(n + 1 - k) BY <1>1, <3>1
      <4>4. q[i] = a[k + i] BY <1>5, <4>3
      <4>5. a[k + i] = e BY <1>2, <4>1
      <4> QED BY <4>2, <4>4, <4>5, Zenon
    <3>2. CASE i # n - k + 1
      <4>1. i \in 1..(n - k) /\ i \in 1..(n + 1 - k) /\ k + i \in 1..n BY <1>1, <3>2
      <4>2. r[i] = t[k + i] BY <1>4, <4>1 DEF r
      <4>3. Append(r, e)[i] = r[i] BY <2>1, <4>1
      <4>4. q[i] = a[k + i] BY <1>5, <4>1
      <4>5. a[k + i] = t[k + i] BY <1>2, <4>1
      <4> QED BY <4>2, <4>3, <4>4, <4>5, Zenon
    <3> QED BY <3>1, <3>2
  <2>3. n - k + 1 = n + 1 - k BY <1>1
  <2> QED BY <1>5, <2>1, <2>2, <2>3, SeqEqual
<1>7. IsPrefix(s, a)
  <2>1. k <= n + 1 BY <1>1
  <2> QED BY <1>1, <1>2, <1>3, <2>1 DEF IsPrefix, k
<1>8. q = r \o <<e>>
  <2>1. r \in Seq(T) BY <1>4 DEF r
  <2>2. Append(r, e) = r \o <<e>> BY <2>1, AppendIsConcat
  <2> QED BY <1>6, <2>2
<1> QED BY <1>2, <1>4, <1>7, <1>8 DEF Goes, k, n, r, q

LEMMA PrefixItself ==
  ASSUME NEW T, NEW s \in Seq(T)
  PROVE  IsPrefix(s, s) /\ SubSeq(s, Len(s) + 1, Len(s)) = <<>>
BY SubSeqEmpty DEF IsPrefix

\* A chunk that is closed is whole, and the next goes on where it ends.
LEMMA ClosingChunk ==
  ASSUME NEW fs \in Seq(Sentences), NEW n \in Nat, NEW cs \in Seq(Seq(Sentences)),
         NEW open \in Seq(Sentences), open # <<>>, NEW count \in Nat,
         ClosedInv(cs, fs, n, count), OpenInv(cs, open, fs, n, count)
  PROVE  /\ ClosedInv(Append(cs, open), fs, n, count)
         /\ FlattenSeq(News(Append(cs, open), count)) = SubSeq(fs, 1, n)
         /\ Kept(Append(cs, open), count) = Shared(open, count)
<1> DEFINE d == Append(cs, open)
           rest == SubSeq(open, Len(Kept(cs, count)) + 1, Len(open))
<1>1. /\ d \in Seq(Seq(Sentences)) /\ d # <<>> /\ DOMAIN d = 1..(Len(cs) + 1) /\ DOMAIN cs = 1..Len(cs)
      /\ Len(cs) \in Nat /\ (\A i \in 1..Len(cs) : d[i] = cs[i]) /\ d[Len(cs) + 1] = open /\ Last(d) = open
      /\ d = cs \o <<open>>
  BY Appended
<1>2. FlattenSeq(News(d, count)) = FlattenSeq(News(cs, count)) \o rest
  <2>1. News(cs, count) \in Seq(Seq(Sentences)) /\ rest \in Seq(Sentences)
        /\ News(d, count) = Append(News(cs, count), rest)
    BY NewsAppend
  <2> HIDE DEF d, rest
  <2> QED BY <2>1, FlattenAppend
<1> HIDE DEF d
<1>3. ASSUME NEW a \in DOMAIN d
      PROVE  /\ d[a] # <<>> /\ Fits(d[a], count) /\ Among(fs, n, d[a][1], Last(d[a]))
             /\ a > 1 => IsPrefix(Shared(d[a - 1], count), d[a])
  <2>1. CASE a \in 1..Len(cs)
    <3>1. a > 1 => a - 1 \in 1..Len(cs) BY <1>1, <2>1
    <3> QED BY <1>1, <2>1, <3>1 DEF ClosedInv
  <2>2. CASE a = Len(cs) + 1
    <3>1. 1 \in 1..Len(open) BY EmptySeq
    <3>2. Among(fs, n, open[1], Last(open)) BY <3>1 DEF OpenInv
    <3>3. a > 1 => IsPrefix(Shared(d[a - 1], count), open)
      <4> SUFFICES ASSUME a > 1 PROVE IsPrefix(Shared(d[a - 1], count), open) OBVIOUS
      <4>1. a - 1 = Len(cs) /\ Len(cs) \in 1..Len(cs) BY <1>1, <2>2
      <4>2. d[a - 1] = cs[Len(cs)] /\ cs # <<>> BY <1>1, <4>1
      <4>3. Kept(cs, count) = Shared(d[a - 1], count) BY <4>2 DEF Kept, Last
      <4> QED BY <4>3 DEF OpenInv
    <3> QED BY <1>1, <2>2, <3>2, <3>3 DEF OpenInv
  <2> QED BY <1>1, <2>1, <2>2
<1>4. ClosedInv(d, fs, n, count) BY <1>3 DEF ClosedInv
<1>5. Kept(d, count) = Shared(open, count) BY <1>1 DEF Kept
<1>6. FlattenSeq(News(d, count)) = SubSeq(fs, 1, n) BY <1>2 DEF OpenInv
<1> QED BY <1>4, <1>5, <1>6 DEF d

PackInv(acc, fs, n, count) ==
  ClosedInv(acc.closed, fs, n, count) /\ OpenInv(acc.closed, acc.open, fs, n, count)

\* What is closed stays so when more is read.
LEMMA ClosedGrows ==
  ASSUME NEW fs, NEW n \in Nat, NEW cs, NEW count, ClosedInv(cs, fs, n, count)
  PROVE  ClosedInv(cs, fs, n + 1, count)
BY AmongGrows DEF ClosedInv

\* A fragment more keeps every chunk within its size, and none is lost or said twice.
LEMMA AddFragmentKeeps ==
  ASSUME NEW fs \in Seq(Sentences), NEW n \in Nat, n + 1 <= Len(fs), NEW acc \in Packs,
         NEW count \in Nat, PackInv(acc, fs, n, count)
  PROVE  PackInv(AddFragment(acc, fs[n + 1], count), fs, n + 1, count)
<1> DEFINE f == fs[n + 1]
           cs == acc.closed
           open == acc.open
           more == Append(open, f)
           K == Kept(cs, count)
<1>1. cs \in Seq(Seq(Sentences)) /\ open \in Seq(Sentences) /\ f \in Sentences BY DEF Packs
<1>2. SubSeq(fs, 1, n + 1) = Append(SubSeq(fs, 1, n), f)
  BY DEF f
<1>3. ClosedInv(cs, fs, n, count) /\ OpenInv(cs, open, fs, n, count) BY DEF PackInv
<1>4. Among(fs, n + 1, f, f) BY DEF Among
<1> HIDE DEF f, cs, open
<1>5. CASE open # <<>> /\ Tokens(more) > MaxTokens
  <2> DEFINE d == Append(cs, open)
             S == Shared(open, count)
             new == Append(S, f)
  <2>1. AddFragment(acc, f, count) = [closed |-> d, open |-> new] BY <1>5 DEF AddFragment, cs, open
  <2>2. /\ ClosedInv(d, fs, n, count) /\ FlattenSeq(News(d, count)) = SubSeq(fs, 1, n)
        /\ Kept(d, count) = S
    BY <1>1, <1>3, <1>5, ClosingChunk
  <2>3. /\ S \in Seq(Sentences) /\ Len(S) \in Nat /\ Len(S) <= count
        /\ \A i \in 1..Len(S) : \E m \in 1..Len(open) : S[i] = open[m]
    BY <1>1, SharedIs, LenProperties
  <2> HIDE DEF d, S
  <2>4. new \in Seq(Sentences) /\ Len(new) = Len(S) + 1 /\ Last(new) = f /\ new[Len(S) + 1] = f
        /\ (\A i \in 1..Len(S) : new[i] = S[i]) /\ new = S \o <<f>>
    BY <1>1, <2>3, Appended
  <2>5. IsPrefix(S, new) /\ SubSeq(new, Len(S) + 1, Len(new)) = <<f>>
    <3>1. IsPrefix(S, S) /\ SubSeq(S, Len(S) + 1, Len(S)) = <<>> BY <2>3, PrefixItself
    <3> HIDE DEF new
    <3>2. Goes(Sentences, S, S, f, new) BY <1>1, <2>3, <2>4, <3>1, PrefixGrows
    <3>3. <<>> \o <<f>> = <<f>> OBVIOUS
    <3> QED BY <3>1, <3>2, <3>3 DEF Goes
  <2>6. Fits(new, count) BY <2>3, <2>4 DEF Fits
  <2> HIDE DEF new
  <2>7. ASSUME NEW i \in 1..Len(new) PROVE Among(fs, n + 1, new[i], Last(new))
    <3>1. CASE i = Len(S) + 1 BY <1>4, <2>4, <3>1
    <3>2. CASE i # Len(S) + 1
      <4>1. i \in 1..Len(S) BY <2>3, <2>4, <3>2
      <4>2. PICK m \in 1..Len(open) : S[i] = open[m] BY <2>3, <4>1
      <4>3. Among(fs, n, open[m], Last(open)) BY <1>3, <4>2 DEF OpenInv
      <4>4. Among(fs, n + 1, open[m], f) BY <4>3, AmongGrows DEF f
      <4> QED BY <2>4, <4>1, <4>2, <4>4
    <3> QED BY <3>1, <3>2
  <2>8. FlattenSeq(News(d, count)) \o SubSeq(new, Len(S) + 1, Len(new)) = SubSeq(fs, 1, n + 1)
    <3>1. SubSeq(fs, 1, n) \in Seq(Sentences) OBVIOUS
    <3>2. Append(SubSeq(fs, 1, n), f) = SubSeq(fs, 1, n) \o <<f>> BY <1>1, <3>1, AppendIsConcat
    <3> QED BY <1>2, <2>2, <2>5, <3>2
  <2>9. OpenInv(d, new, fs, n + 1, count) BY <2>2, <2>5, <2>6, <2>7, <2>8 DEF OpenInv
  <2>10. ClosedInv(d, fs, n + 1, count) BY <2>2, ClosedGrows
  <2> QED BY <2>1, <2>9, <2>10 DEF PackInv, f
<1>6. CASE ~(open # <<>> /\ Tokens(more) > MaxTokens)
  <2>1. AddFragment(acc, f, count) = [acc EXCEPT !.open = more] BY <1>6 DEF AddFragment, open
  <2>2. /\ more \in Seq(Sentences) /\ Len(more) = Len(open) + 1 /\ Last(more) = f
        /\ more[Len(open) + 1] = f /\ Len(open) \in Nat
        /\ (\A i \in 1..Len(open) : more[i] = open[i]) /\ more = open \o <<f>>
    BY <1>1, Appended
  <2>3. K \in Seq(Sentences) /\ IsPrefix(K, open) /\ Len(K) \in Nat BY <1>1, <1>3, KeptIs DEF OpenInv
  <2> HIDE DEF K
  <2>4. /\ IsPrefix(K, more) /\ SubSeq(open, Len(K) + 1, Len(open)) \in Seq(Sentences)
        /\ SubSeq(more, Len(K) + 1, Len(more)) = SubSeq(open, Len(K) + 1, Len(open)) \o <<f>>
    <3> HIDE DEF more
    <3>1. Goes(Sentences, K, open, f, more) BY <1>1, <2>2, <2>3, PrefixGrows
    <3> QED BY <3>1 DEF Goes
  <2>5. Fits(more, count)
    <3>1. CASE open = <<>>
      <4>1. Len(open) = 0 BY <3>1
      <4> QED BY <2>2, <4>1 DEF Fits
    <3>2. CASE open # <<>> BY <1>6, <3>2 DEF Fits
    <3> QED BY <3>1, <3>2
  <2> HIDE DEF more
  <2>6. ASSUME NEW i \in 1..Len(more) PROVE Among(fs, n + 1, more[i], Last(more))
    <3>1. CASE i = Len(open) + 1 BY <1>4, <2>2, <3>1
    <3>2. CASE i # Len(open) + 1
      <4>1. i \in 1..Len(open) BY <2>2, <3>2
      <4>3. Among(fs, n, open[i], Last(open)) BY <1>3, <4>1 DEF OpenInv
      <4>4. Among(fs, n + 1, open[i], f) BY <4>3, AmongGrows DEF f
      <4> QED BY <2>2, <4>1, <4>4
    <3> QED BY <3>1, <3>2
  <2>7. FlattenSeq(News(cs, count)) \o SubSeq(more, Len(K) + 1, Len(more)) = SubSeq(fs, 1, n + 1)
    <3> DEFINE x == FlattenSeq(News(cs, count))
               y == SubSeq(open, Len(K) + 1, Len(open))
    <3>1. News(cs, count) \in Seq(Seq(Sentences)) BY <1>1, NewsAppend
    <3>2. x \in Seq(Sentences) BY <1>1, <3>1, FlattenAppend
    <3>3. x \o y = SubSeq(fs, 1, n) BY <1>3 DEF OpenInv, K
    <3>4. y \in Seq(Sentences) BY <2>4
    <3> HIDE DEF x, y
    <3>5. x \o Append(y, f) = Append(x \o y, f) BY <1>1, <3>2, <3>4, ConcatAppend
    <3>6. Append(y, f) = y \o <<f>> BY <1>1, <3>4, AppendIsConcat
    <3>7. x \o (y \o <<f>>) = SubSeq(fs, 1, n + 1) BY <1>2, <3>3, <3>5, <3>6
    <3> QED BY <2>4, <3>7 DEF x, y
  <2>8. OpenInv(cs, more, fs, n + 1, count) BY <2>4, <2>5, <2>6, <2>7 DEF OpenInv, K
  <2>9. ClosedInv(cs, fs, n + 1, count) BY <1>3, ClosedGrows
  <2>10. AddFragment(acc, f, count).closed = cs /\ AddFragment(acc, f, count).open = more
    <3>1. acc = [closed |-> acc.closed, open |-> acc.open] BY DEF Packs
    <3> QED BY <2>1, <3>1 DEF cs
  <2> QED BY <2>8, <2>9, <2>10 DEF PackInv, f
<1> QED BY <1>5, <1>6

\* Whatever is packed, the chunks are whole, in order, within their size, and joined by
\* what they share.
LEMMA PackedOf ==
  ASSUME NEW fs \in Seq(Sentences), NEW count \in Nat
  PROVE  LET cs == Packed(fs, count)
         IN  /\ cs \in Seq(Seq(Sentences)) /\ ClosedInv(cs, fs, Len(fs), count)
             /\ News(cs, count) \in Seq(Seq(Sentences)) /\ FlattenSeq(News(cs, count)) = fs
<1> DEFINE N == Len(fs)
<1>1. PICK acc \in [0..N -> Packs] :
        /\ acc[0] = Nothing /\ \A n \in 1..N : acc[n] = AddFragment(acc[n - 1], fs[n], count)
        /\ Packed(fs, count) = Close(acc[N])
  BY PackedIs
<1> DEFINE S == {n \in Nat : n \in 0..N => PackInv(acc[n], fs, n, count)}
<1>2. 0 \in S
  <2>1. SubSeq(fs, 1, 0) = <<>> BY SubSeqEmpty
  <2>2. Nothing.closed = <<>> /\ Nothing.open = <<>> BY DEF Nothing
  <2>3. ClosedInv(<<>>, fs, 0, count) BY DEF ClosedInv
  <2>4. OpenInv(<<>>, <<>>, fs, 0, count)
    <3>1. Kept(<<>>, count) = <<>> BY DEF Kept
    <3>2. News(<<>>, count) = <<>> BY DEF News
    <3>3. <<>> \in Seq(Sentences) /\ Len(<<>>) = 0 /\ 1..Len(<<>>) = {} OBVIOUS
    <3>4. IsPrefix(<<>>, <<>>) /\ SubSeq(<<>>, Len(<<>>) + 1, Len(<<>>)) = <<>> BY <3>3, PrefixItself
    <3>5. FlattenSeq(<<>>) \o <<>> = <<>> BY FlattenEmpty
    <3>6. Fits(<<>>, count) BY DEF Fits
    <3> QED BY <2>1, <3>1, <3>2, <3>3, <3>4, <3>5, <3>6 DEF OpenInv
  <2> QED BY <1>1, <2>2, <2>3, <2>4 DEF PackInv
<1>3. ASSUME NEW n \in S \intersect Nat PROVE n + 1 \in S
  <2> SUFFICES ASSUME n + 1 \in 0..N PROVE PackInv(acc[n + 1], fs, n + 1, count) OBVIOUS
  <2>1. n + 1 \in 1..N /\ (n + 1) - 1 = n /\ n \in 0..N /\ n + 1 <= Len(fs) OBVIOUS
  <2>2. PackInv(acc[n], fs, n, count) /\ acc[n] \in Packs BY <2>1
  <2>3. acc[n + 1] = AddFragment(acc[n], fs[n + 1], count) BY <1>1, <2>1
  <2> QED BY <2>1, <2>2, <2>3, AddFragmentKeeps
<1>4. N \in Nat OBVIOUS
<1>5. PackInv(acc[N], fs, N, count) /\ acc[N] \in Packs
  <2> HIDE DEF S
  <2>1. N \in S BY <1>2, <1>3, <1>4, SetInduction
  <2> QED BY <1>1, <1>4, <2>1 DEF S
<1>6. SubSeq(fs, 1, N) = fs BY SubSeqFull
<1> DEFINE cs == acc[N].closed
           open == acc[N].open
<1>7. cs \in Seq(Seq(Sentences)) /\ open \in Seq(Sentences) BY <1>5 DEF Packs
<1>8. ClosedInv(cs, fs, N, count) /\ OpenInv(cs, open, fs, N, count) BY <1>5 DEF PackInv
<1>9. Packed(fs, count) = IF open = <<>> THEN cs ELSE Append(cs, open) BY <1>1 DEF Close
<1> HIDE DEF cs, open
<1>10. CASE open = <<>>
  <2>1. FlattenSeq(News(cs, count)) = fs
    <3>1. News(cs, count) \in Seq(Seq(Sentences)) BY <1>7, NewsAppend
    <3>2. FlattenSeq(News(cs, count)) \in Seq(Sentences) BY <1>7, <3>1, FlattenAppend
    <3>3. Len(Kept(cs, count)) \in Nat BY <1>7, KeptIs
    <3>4. SubSeq(open, Len(Kept(cs, count)) + 1, Len(open)) = <<>>
      <4>1. Len(open) = 0 BY <1>10
      <4> QED BY <3>3, <4>1, SubSeqEmpty
    <3>5. FlattenSeq(News(cs, count)) \o <<>> = FlattenSeq(News(cs, count)) BY <3>2, ConcatEmptySeq
    <3> QED BY <1>6, <1>8, <3>4, <3>5 DEF OpenInv
  <2>2. News(cs, count) \in Seq(Seq(Sentences)) BY <1>7, NewsAppend
  <2> QED BY <1>7, <1>8, <1>9, <1>10, <2>1, <2>2
<1>11. CASE open # <<>>
  <2> DEFINE d == Append(cs, open)
  <2>1. d \in Seq(Seq(Sentences)) BY <1>7
  <2>2. ClosedInv(d, fs, N, count) /\ FlattenSeq(News(d, count)) = SubSeq(fs, 1, N)
    <3> HIDE DEF N
    <3> QED BY <1>4, <1>7, <1>8, <1>11, ClosingChunk
  <2> HIDE DEF d
  <2>3. News(d, count) \in Seq(Seq(Sentences)) BY <1>7, <2>1, NewsAppend
  <2> QED BY <1>6, <1>9, <1>11, <2>1, <2>2, <2>3 DEF d
<1> QED BY <1>10, <1>11
-----------------------------------------------------------------------------
(* Words.                                                                  *)

\* Whatever the recogniser gave, the words of an answer that is not refused are those it
\* gave, none is reversed, and none starts before one that stands before it.
Parsed(w, a) ==
  /\ w \in Seq(Words) /\ Len(w) = Len(a) /\ {w[i].n : i \in DOMAIN w} = DOMAIN a
  /\ \A i \in DOMAIN w : ~Reversed(w[i])
  /\ \A i, j \in DOMAIN w : i <= j => w[i].start <= w[j].start
Refused(a) == \E i \in DOMAIN a : Reversed(a[i]) /\ ~Repairable(a, i)

\* Repair leaves no word reversed, and every word its place in the answer.
LEMMA RepairedIs ==
  ASSUME NEW a \in Answers, ~Refused(a)
  PROVE  /\ Repaired(a) \in Seq(Words) /\ Len(Repaired(a)) = Len(a) /\ DOMAIN Repaired(a) = 1..Len(a)
         /\ \A i \in 1..Len(a) : Repaired(a)[i].n = i /\ ~Reversed(Repaired(a)[i])
<1>1. a \in Seq(Words) /\ (\A i \in DOMAIN a : a[i].n = i) /\ DOMAIN a = 1..Len(a) /\ Len(a) \in Nat
  BY TextAssumption
<1> DEFINE r == Repaired(a)
           fixed(i) == IF Reversed(a[i]) THEN Corrected(a[i], a[i - 1].end, a[i + 1].start) ELSE a[i]
<1>2. ASSUME NEW i \in 1..Len(a) PROVE fixed(i) \in Words /\ fixed(i).n = i /\ ~Reversed(fixed(i))
  <2>1. a[i] \in Words /\ a[i].n = i BY <1>1
  <2>2. CASE ~Reversed(a[i]) BY <2>1, <2>2
  <2>3. CASE Reversed(a[i])
    <3>1. Repairable(a, i) BY <1>1, <2>3 DEF Refused
    <3>2. i - 1 \in 1..Len(a) /\ i + 1 \in 1..Len(a) /\ a[i - 1].end <= a[i + 1].start
      BY <1>1, <3>1 DEF Repairable
    <3> DEFINE low == a[i - 1].end
               high == a[i + 1].start
    <3>3. a[i - 1] \in Words /\ a[i + 1] \in Words BY <1>1, <3>2
    <3>4. low \in Int /\ high \in Int BY <3>3 DEF Words
    <3>5. low <= high BY <3>2
    <3> DEFINE x == a[i]
    <3>6. x \in Words /\ x.n = i BY <2>1
    <3> HIDE DEF low, high, x
    <3>7. x = [n |-> x.n, start |-> x.start, end |-> x.end, mark |-> x.mark]
          /\ x.n \in Nat /\ x.start \in Int /\ x.end \in Int /\ x.mark \in BOOLEAN
      BY <3>6 DEF Words
    <3> DEFINE usable(t) == low <= t /\ t <= high
               s == IF usable(x.start) /\ ~usable(x.end) THEN x.start ELSE low
               e == IF usable(x.end) /\ ~usable(x.start) THEN x.end ELSE high
    <3>8. s \in Int /\ e \in Int /\ s <= e BY <3>4, <3>5, <3>7
    <3>9. Corrected(x, low, high) = [n |-> x.n, start |-> s, end |-> e, mark |-> x.mark]
      <4>1. Corrected(x, low, high) = [x EXCEPT !.start = s, !.end = e] BY DEF Corrected
      <4> HIDE DEF s, e
      <4> QED BY <3>7, <4>1
    <3> HIDE DEF s, e
    <3>10. Corrected(x, low, high) \in Words BY <3>7, <3>8, <3>9 DEF Words
    <3>11. Corrected(x, low, high).n = i BY <3>6, <3>9
    <3>12. ~Reversed(Corrected(x, low, high)) BY <3>8, <3>9 DEF Reversed
    <3>13. fixed(i) = Corrected(x, low, high) BY <2>3 DEF x, low, high
    <3> HIDE DEF fixed
    <3> QED BY <3>10, <3>11, <3>12, <3>13
  <2> QED BY <2>2, <2>3
<1>3. r = [i \in 1..Len(a) |-> fixed(i)] BY <1>1 DEF Repaired
<1> HIDE DEF r, fixed
<1>4. r \in [1..Len(a) -> Words] BY <1>2, <1>3
<1>5. r \in Seq(Words) /\ Len(r) = Len(a) /\ DOMAIN r = 1..Len(a) BY <1>1, <1>4
<1>6. \A i \in 1..Len(a) : r[i] = fixed(i) BY <1>3
<1> QED BY <1>2, <1>5, <1>6 DEF r

\* Words that are in order have a spot for another.
LEMMA SpotIs ==
  ASSUME NEW ws \in Seq(Words), NEW word \in Words,
         \A i, j \in 1..Len(ws) : i <= j => ws[i].start <= ws[j].start
  PROVE  /\ Spot(ws, word) \in 0..Len(ws)
         /\ \A i \in 1..Spot(ws, word) : ws[i].start <= word.start
         /\ \A i \in (Spot(ws, word) + 1)..Len(ws) : word.start < ws[i].start
<1> DEFINE N == Len(ws)
           Fit(k) == /\ \A i \in 1..k : ws[i].start <= word.start
                     /\ \A i \in (k + 1)..N : word.start < ws[i].start
           T == {k \in 0..N : \A i \in (k + 1)..N : word.start < ws[i].start}
<1>1. N \in Nat /\ word.start \in Int /\ \A i \in 1..N : ws[i].start \in Int
  <2>1. \A i \in 1..N : ws[i] \in Words OBVIOUS
  <2>2. \A x \in Words : x.start \in Int BY DEF Words
  <2> QED BY <2>1, <2>2
<1>2. N \in T BY <1>1
<1>3. PICK k \in T : \A m \in T : ~(<<m, k>> \in OpToRel(<, Nat))
  <2>1. T \subseteq Nat BY <1>1
  <2> HIDE DEF T
  <2> QED BY <1>2, <2>1, WFMin, NatLessThanWellFounded
<1>4. ASSUME NEW i \in 1..k PROVE ws[i].start <= word.start
  <2>0. k \in 0..N /\ i \in 1..k BY <1>3
  <2>1. k \in 1..N /\ k - 1 \in 0..N /\ i <= k /\ i \in 1..N
    <3> HIDE DEF T, N
    <3> QED BY <1>1, <2>0
  <2>2. k - 1 \notin T
    <3>1. <<k - 1, k>> \in OpToRel(<, Nat) BY <2>1 DEF OpToRel
    <3> QED BY <1>3, <3>1
  <2>3. PICK m \in ((k - 1) + 1)..N : ~(word.start < ws[m].start) BY <2>1, <2>2
  <2>4. m = k
    <3>1. \A l \in (k + 1)..N : word.start < ws[l].start BY <1>3
    <3> QED BY <2>1, <2>3, <3>1
  <2>5. ws[i].start <= ws[k].start BY <2>1
  <2> QED BY <1>1, <2>1, <2>3, <2>4, <2>5
<1>5. k \in 0..N /\ Fit(k) BY <1>3, <1>4
<1>6. Spot(ws, word) \in 0..N /\ Fit(Spot(ws, word))
  <2>1. Spot(ws, word) = CHOOSE m \in 0..N : Fit(m) BY Zenon DEF Spot
  <2> HIDE DEF Fit, N
  <2> QED BY <1>5, <2>1, Zenon
<1> QED BY <1>6

\* The first n words are in order, and all of them are there.
Ordered(w, n) ==
  /\ w \in Seq(Words) /\ Len(w) = n /\ {w[i].n : i \in 1..n} = 1..n
  /\ \A i \in 1..n : ~Reversed(w[i])
  /\ \A i, j \in 1..n : i <= j => w[i].start <= w[j].start

\* A word that is put at its spot keeps the words in order and all there.
LEMMA InsertedKeeps ==
  ASSUME NEW n \in Nat, NEW ws, Ordered(ws, n), NEW word \in Words, ~Reversed(word), word.n = n + 1
  PROVE  Ordered(Inserted(ws, word), n + 1)
<1> DEFINE k == Spot(ws, word)
           new == Inserted(ws, word)
<1>1. /\ ws \in Seq(Words) /\ Len(ws) = n /\ {ws[i].n : i \in 1..n} = 1..n
      /\ \A i \in 1..n : ~Reversed(ws[i])
      /\ \A i, j \in 1..n : i <= j => ws[i].start <= ws[j].start
  BY DEF Ordered
<1>2. /\ k \in 0..n /\ \A i \in 1..k : ws[i].start <= word.start
      /\ \A i \in (k + 1)..n : word.start < ws[i].start
  BY <1>1, SpotIs
<1>3. new = (SubSeq(ws, 1, k) \o <<word>>) \o SubSeq(ws, k + 1, n)
  <2>1. (k + 1) - 1 = k BY <1>2
  <2> HIDE DEF k
  <2> QED BY <1>1, <2>1 DEF Inserted, InsertAt, k
<1> HIDE DEF k, new
<1>4. /\ SubSeq(ws, 1, k) \in Seq(Words) /\ Len(SubSeq(ws, 1, k)) = k
      /\ \A i \in 1..k : SubSeq(ws, 1, k)[i] = ws[i]
  BY <1>1, <1>2
<1>5. /\ SubSeq(ws, k + 1, n) \in Seq(Words) /\ Len(SubSeq(ws, k + 1, n)) = n - k
      /\ \A i \in 1..(n - k) : SubSeq(ws, k + 1, n)[i] = ws[k + i]
  BY <1>1, <1>2
<1> DEFINE x == SubSeq(ws, 1, k)
           y == SubSeq(ws, k + 1, n)
           xw == x \o <<word>>
<1> HIDE DEF x, y
<1>6. /\ xw \in Seq(Words) /\ Len(xw) = k + 1 /\ xw[k + 1] = word /\ \A i \in 1..k : xw[i] = ws[i]
  BY <1>2, <1>4 DEF x
<1> HIDE DEF xw
<1>y. y \in Seq(Words) /\ Len(y) = n - k /\ \A i \in 1..(n - k) : y[i] = ws[k + i] BY <1>5 DEF y
<1>n. new = xw \o y BY <1>3 DEF xw, x, y
<1>7. new \in Seq(Words) /\ Len(new) = n + 1 BY <1>2, <1>6, <1>y, <1>n
<1>8. \A i \in 1..(k + 1) : new[i] = xw[i] BY <1>2, <1>6, <1>y, <1>n
<1>9. \A i \in (k + 2)..(n + 1) : new[i] = y[i - (k + 1)] BY <1>2, <1>6, <1>y, <1>n
<1>10. \A i \in 1..k : new[i] = ws[i] BY <1>2, <1>6, <1>8
<1>11. new[k + 1] = word BY <1>2, <1>6, <1>8
<1>12. ASSUME NEW i \in (k + 2)..(n + 1) PROVE new[i] = ws[i - 1] /\ i - 1 \in (k + 1)..n
  <2>1. i - (k + 1) \in 1..(n - k) /\ k + (i - (k + 1)) = i - 1 /\ i - 1 \in (k + 1)..n BY <1>2
  <2>2. y[i - (k + 1)] = ws[k + (i - (k + 1))] BY <1>y, <2>1
  <2> QED BY <1>9, <2>1, <2>2
<1>13. \A i \in 1..(n + 1) : i \in 1..k \/ i = k + 1 \/ i \in (k + 2)..(n + 1) BY <1>2
<1>14. \A i \in 1..(n + 1) : ~Reversed(new[i])
  <2> SUFFICES ASSUME NEW i \in 1..(n + 1) PROVE ~Reversed(new[i]) OBVIOUS
  <2>1. CASE i \in 1..k
    <3>1. i \in 1..n BY <1>2, <2>1
    <3> QED BY <1>1, <1>10, <2>1, <3>1
  <2>2. CASE i = k + 1 BY <1>11, <2>2
  <2>3. CASE i \in (k + 2)..(n + 1)
    <3>1. i - 1 \in 1..n BY <1>2, <2>3
    <3> QED BY <1>1, <1>12, <2>3, <3>1
  <2> QED BY <1>13, <2>1, <2>2, <2>3
<1>15. {new[i].n : i \in 1..(n + 1)} = 1..(n + 1)
  <2>1. ASSUME NEW i \in 1..(n + 1) PROVE new[i].n \in 1..(n + 1)
    <3>1. \A j \in 1..n : ws[j].n \in 1..n BY <1>1
    <3>2. CASE i \in 1..k
      <4>1. i \in 1..n BY <1>2, <3>2
      <4>2. ws[i].n \in 1..n BY <3>1, <4>1
      <4> QED BY <1>10, <3>2, <4>2
    <3>3. CASE i = k + 1 BY <1>11, <3>3
    <3>4. CASE i \in (k + 2)..(n + 1)
      <4>1. i - 1 \in 1..n BY <1>2, <3>4
      <4>2. ws[i - 1].n \in 1..n BY <3>1, <4>1
      <4> QED BY <1>12, <3>4, <4>2
    <3> QED BY <1>13, <3>2, <3>3, <3>4
  <2>2. ASSUME NEW m \in 1..(n + 1) PROVE \E i \in 1..(n + 1) : new[i].n = m
    <3>1. CASE m = n + 1
      <4>1. k + 1 \in 1..(n + 1) BY <1>2
      <4> QED BY <1>11, <3>1, <4>1
    <3>2. CASE m # n + 1
      <4>0. m \in 1..n BY <3>2
      <4>1. m \in {ws[i].n : i \in 1..n} BY <1>1, <4>0, Zenon
      <4>2. PICK i \in 1..n : ws[i].n = m BY <4>1
      <4>3. CASE i <= k
        <5>1. i \in 1..k /\ i \in 1..(n + 1) BY <1>2, <4>3
        <5> QED BY <1>10, <4>2, <5>1
      <4>4. CASE i > k
        <5>1. i + 1 \in (k + 2)..(n + 1) /\ (i + 1) - 1 = i /\ i + 1 \in 1..(n + 1) BY <1>2, <4>4
        <5>2. new[i + 1] = ws[i] BY <1>12, <5>1
        <5> QED BY <4>2, <5>1, <5>2
      <4>5. i \in Int /\ k \in Int BY <1>2
      <4> QED BY <4>3, <4>4, <4>5
    <3> QED BY <3>1, <3>2
  <2> QED BY <2>1, <2>2
<1>16. ASSUME NEW i \in 1..(n + 1), NEW j \in 1..(n + 1), i <= j PROVE new[i].start <= new[j].start
  <2>1. \A l \in 1..n : ws[l].start \in Int
    <3>1. \A l \in 1..n : ws[l] \in Words BY <1>1
    <3>2. \A w \in Words : w.start \in Int BY DEF Words
    <3> QED BY <3>1, <3>2
  <2>2. word.start \in Int BY DEF Words
  <2>3. CASE i \in 1..k /\ j \in 1..k
    <3>1. i \in 1..n /\ j \in 1..n BY <1>2, <2>3
    <3> QED BY <1>1, <1>10, <1>16, <2>3, <3>1
  <2>4. CASE i \in 1..k /\ j = k + 1 BY <1>2, <1>10, <1>11, <2>4
  <2>5. CASE i \in 1..k /\ j \in (k + 2)..(n + 1)
    <3>1. i \in 1..n /\ j - 1 \in 1..n /\ i <= j - 1 BY <1>2, <2>5
    <3>2. new[i] = ws[i] /\ new[j] = ws[j - 1] BY <1>10, <1>12, <2>5
    <3> QED BY <1>1, <3>1, <3>2
  <2>6. CASE i = k + 1 /\ j = k + 1 BY <1>11, <2>2, <2>6
  <2>7. CASE i = k + 1 /\ j \in (k + 2)..(n + 1)
    <3>1. new[j] = ws[j - 1] /\ j - 1 \in (k + 1)..n /\ j - 1 \in 1..n BY <1>2, <1>12, <2>7
    <3>2. word.start < ws[j - 1].start /\ ws[j - 1].start \in Int BY <1>2, <2>1, <3>1
    <3> QED BY <1>11, <2>2, <2>7, <3>1, <3>2
  <2>8. CASE i \in (k + 2)..(n + 1) /\ j \in (k + 2)..(n + 1)
    <3>1. i - 1 \in 1..n /\ j - 1 \in 1..n /\ i - 1 <= j - 1 BY <1>2, <1>16, <2>8
    <3>2. new[i] = ws[i - 1] /\ new[j] = ws[j - 1] BY <1>12, <2>8
    <3> QED BY <1>1, <3>1, <3>2
  <2>9. (i \in (k + 2)..(n + 1) => j \in (k + 2)..(n + 1)) /\ (i = k + 1 => j \notin 1..k)
    BY <1>2, <1>16
  <2> QED BY <1>13, <2>3, <2>4, <2>5, <2>6, <2>7, <2>8, <2>9
<1> QED BY <1>7, <1>14, <1>15, <1>16 DEF Ordered, new

\* What is in order after an answer was parsed is all of it.
LEMMA InOrderParsed ==
  ASSUME NEW a \in Answers, ~Refused(a)
  PROVE  Parsed(InOrder(Repaired(a)), a)
<1> DEFINE r == Repaired(a)
           N == Len(r)
           W == Seq(Words)
           next == [n \in 1..N |-> [x \in W |-> IF Ordered(x, n - 1) THEN Inserted(x, r[n]) ELSE x]]
           Sort(s) == s = [i \in 0..N |-> IF i = 0 THEN <<>> ELSE Inserted(s[i - 1], r[i])]
           acc == CHOOSE s : Sort(s)
<1>1. /\ r \in W /\ N = Len(a)
      /\ \A i \in 1..N : r[i].n = i /\ ~Reversed(r[i]) /\ r[i] \in Words
  BY RepairedIs
<1>2. a \in Seq(Words) /\ N \in Nat /\ DOMAIN a = 1..N BY <1>1, TextAssumption
<1>3. InOrder(r) = acc[N] BY Zenon DEF InOrder
<1> HIDE DEF r, N
<1>4. ASSUME NEW n \in 1..N, NEW x, Ordered(x, n - 1) PROVE Ordered(Inserted(x, r[n]), n)
  <2>1. n - 1 \in Nat /\ (n - 1) + 1 = n BY <1>2
  <2>2. r[n] \in Words /\ ~Reversed(r[n]) /\ r[n].n = (n - 1) + 1 BY <1>1, <2>1
  <2>3. Ordered(Inserted(x, r[n]), (n - 1) + 1) BY <1>4, <2>1, <2>2, InsertedKeeps
  <2> QED BY <2>1, <2>3
<1>5. next \in [1..N -> [W -> W]]
  <2>1. ASSUME NEW n \in 1..N, NEW x \in W PROVE (IF Ordered(x, n - 1) THEN Inserted(x, r[n]) ELSE x) \in W
    <3>1. CASE Ordered(x, n - 1)
      <4>1. Ordered(Inserted(x, r[n]), n) BY <1>4, <3>1
      <4> QED BY <3>1, <4>1 DEF Ordered
    <3>2. CASE ~Ordered(x, n - 1) BY <3>2
    <3> QED BY <3>1, <3>2
  <2> HIDE DEF W
  <2> QED BY <2>1
<1>6. PICK g : Recursive(g, N, W, <<>>, next)
  <2>1. <<>> \in W OBVIOUS
  <2> HIDE DEF next, W
  <2> QED BY <1>2, <1>5, <2>1, Recursion
<1>7. Ordered(<<>>, 0)
  <2>1. <<>> \in Seq(Words) /\ Len(<<>>) = 0 OBVIOUS
  <2>2. 1..0 = {} OBVIOUS
  <2> QED BY <2>1, <2>2 DEF Ordered
<1>8. \A n \in 0..N : Ordered(g[n], n)
  <2> DEFINE S == {n \in Nat : n \in 0..N => Ordered(g[n], n)}
  <2>1. 0 \in S BY <1>6, <1>7 DEF Recursive
  <2>2. ASSUME NEW n \in S \intersect Nat PROVE n + 1 \in S
    <3> SUFFICES ASSUME n + 1 \in 0..N PROVE Ordered(g[n + 1], n + 1) OBVIOUS
    <3>1. n + 1 \in 1..N /\ (n + 1) - 1 = n /\ n \in 0..N BY <1>2
    <3>2. Ordered(g[n], n) /\ g[n] \in W BY <3>1 DEF Ordered
    <3>3. g[n + 1] = next[n + 1][g[n]]
      <4> HIDE DEF next
      <4> QED BY <1>6, <3>1 DEF Recursive
    <3>4. g[n + 1] = Inserted(g[n], r[n + 1]) BY <3>1, <3>2, <3>3
    <3>5. Ordered(Inserted(g[n], r[n + 1]), n + 1) BY <1>4, <3>1, <3>2
    <3> QED BY <3>4, <3>5
  <2>3. Nat \subseteq S
    <3> HIDE DEF S
    <3> QED BY <2>1, <2>2, SetInduction
  <2> QED BY <2>3, <1>2
<1>9. Sort(g)
  <2>1. g \in [0..N -> W] /\ g[0] = <<>> BY <1>6 DEF Recursive
  <2>2. ASSUME NEW n \in 1..N PROVE g[n] = Inserted(g[n - 1], r[n])
    <3>1. n - 1 \in 0..N BY <1>2
    <3>2. Ordered(g[n - 1], n - 1) /\ g[n - 1] \in W BY <1>8, <3>1 DEF Ordered
    <3>3. g[n] = next[n][g[n - 1]]
      <4> HIDE DEF next
      <4> QED BY <1>6 DEF Recursive
    <3> QED BY <3>2, <3>3
  <2> HIDE DEF W
  <2> QED BY <1>2, <2>1, <2>2
<1>10. Sort(acc)
  <2> HIDE DEF Sort
  <2> QED BY <1>9, Zenon
<1> HIDE DEF acc
<1>11. acc[0] = <<>> /\ \A n \in 1..N : acc[n] = Inserted(acc[n - 1], r[n]) BY <1>2, <1>10
<1>12. Ordered(acc[N], N)
  <2> DEFINE S == {n \in Nat : n \in 0..N => Ordered(acc[n], n)}
  <2>1. 0 \in S BY <1>7, <1>11
  <2>2. ASSUME NEW n \in S \intersect Nat PROVE n + 1 \in S
    <3> SUFFICES ASSUME n + 1 \in 0..N PROVE Ordered(acc[n + 1], n + 1) OBVIOUS
    <3>1. n + 1 \in 1..N /\ (n + 1) - 1 = n /\ n \in 0..N BY <1>2
    <3>2. Ordered(acc[n], n) BY <3>1
    <3>3. acc[n + 1] = Inserted(acc[n], r[n + 1]) BY <1>11, <3>1
    <3>4. Ordered(Inserted(acc[n], r[n + 1]), n + 1) BY <1>4, <3>1, <3>2
    <3> QED BY <3>3, <3>4
  <2>3. Nat \subseteq S
    <3> HIDE DEF S
    <3> QED BY <2>1, <2>2, SetInduction
  <2>4. N \in S BY <1>2, <2>3
  <2> QED BY <1>2, <2>4
<1> DEFINE w == InOrder(r)
<1>13. Ordered(w, N) BY <1>3, <1>12
<1> HIDE DEF w
<1>14. DOMAIN w = 1..N BY <1>13 DEF Ordered
<1>15. Parsed(w, a) BY <1>1, <1>2, <1>13, <1>14 DEF Parsed, Ordered, N
<1> QED BY <1>15 DEF w, r

-----------------------------------------------------------------------------
(* The invariant: what each step has made is what the text says it makes.  *)

TextInv ==
  /\ stage \in {"answered", "parsed", "segmented", "chunked", "invalid"}
  /\ answer \in Answers /\ overlap \in Overlaps
  /\ stage \in {"parsed", "segmented", "chunked"} => ~Refused(answer) /\ words = InOrder(Repaired(answer))
  /\ stage \in {"answered", "invalid"} => words = <<>>
  /\ stage \in {"segmented", "chunked"} => segments = Pieces(words, SegmentWords)
  /\ stage \in {"answered", "parsed", "invalid"} => segments = <<>>
  /\ stage = "chunked" => chunks = Packed(AllFragments(segments), overlap)
  /\ stage # "chunked" => chunks = <<>>

LEMMA TextInvInit == TextInit => TextInv
BY DEF TextInit, TextInv

LEMMA TextInvNext == TextInv /\ [TextNext]_wvars => TextInv'
<1> SUFFICES ASSUME TextInv, [TextNext]_wvars PROVE TextInv' OBVIOUS
<1> USE DEF TextInv
<1>1. CASE Parse
  <2>1. CASE Refused(answer) BY <1>1, <2>1, Zenon DEF Parse, Refused
  <2>2. CASE ~Refused(answer) BY <1>1, <2>2, Zenon DEF Parse, Refused
  <2> QED BY <2>1, <2>2
<1>2. CASE Segment BY <1>2, Zenon DEF Segment
<1>3. CASE Chunk BY <1>3, Zenon DEF Chunk
<1>4. CASE UNCHANGED wvars BY <1>4, Zenon DEF wvars
<1> QED BY <1>1, <1>2, <1>3, <1>4 DEF TextNext

\* A span from the start of a word to the end of that or a later one is not reversed.
LEMMA ForwardSpan ==
  ASSUME NEW a, NEW w, Parsed(w, a), NEW x, NEW y, Among(w, Len(w), x, y)
  PROVE  x.start <= y.end
<1>1. PICK k \in 1..Len(w) : \E m \in k..Len(w) : x = w[k] /\ y = w[m] BY DEF Among
<1>2. PICK m \in k..Len(w) : x = w[k] /\ y = w[m] BY <1>1
<1>3. w \in Seq(Words) /\ DOMAIN w = 1..Len(w) /\ Len(w) \in Nat BY DEF Parsed
<1>4. k \in DOMAIN w /\ m \in DOMAIN w /\ k <= m BY <1>2, <1>3
<1>5. w[k].start <= w[m].start /\ ~(w[m].end < w[m].start) BY <1>4 DEF Parsed, Reversed
<1>6. w[k] \in Words /\ w[m] \in Words BY <1>3, <1>4
<1>7. w[k].start \in Int /\ w[m].start \in Int /\ w[m].end \in Int BY <1>6 DEF Words
<1> QED BY <1>2, <1>5, <1>7

\* Segments of words that are in order are in order, and none is reversed.
LEMMA SegmentsForward ==
  ASSUME NEW a, NEW w, Parsed(w, a), NEW segs, segs = Pieces(w, SegmentWords)
  PROVE  /\ segs \in Seq(Segments) /\ FlattenSeq(segs) = w
         /\ \A i, j \in 1..Len(segs) : i <= j => Span(segs[i]).start <= Span(segs[j]).end
<1>1. w \in Seq(Words) BY DEF Parsed
<1>2. /\ segs \in Seq(Seq(Words)) /\ FlattenSeq(segs) = w
      /\ \A i \in DOMAIN segs :
           /\ segs[i] # <<>> /\ Among(w, Len(w), segs[i][1], Last(segs[i]))
           /\ \A j \in DOMAIN segs : i <= j => Among(w, Len(w), segs[i][1], segs[j][1])
  BY <1>1, PiecesOf
<1>3. DOMAIN segs = 1..Len(segs) /\ Len(segs) \in Nat BY <1>2
<1>4. \A i \in 1..Len(segs) : segs[i] \in Segments BY <1>2, <1>3 DEF Segments
<1>5. segs \in [1..Len(segs) -> Segments] BY <1>2, <1>3, <1>4
<1>6. segs \in Seq(Segments) BY <1>3, <1>5
<1>7. ASSUME NEW i \in 1..Len(segs), NEW j \in 1..Len(segs), i <= j
      PROVE  segs[i][1].start <= Last(segs[j]).end
  <2>1. Among(w, Len(w), segs[i][1], segs[j][1]) /\ Among(w, Len(w), segs[j][1], Last(segs[j]))
    BY <1>2, <1>3, <1>7
  <2>2. segs[j][1].start <= Last(segs[j]).end BY <2>1, ForwardSpan
  <2>3. segs[i][1].start <= segs[j][1].start
    <3>1. PICK k \in 1..Len(w) : \E m \in k..Len(w) : segs[i][1] = w[k] /\ segs[j][1] = w[m]
      BY <2>1 DEF Among
    <3>2. PICK m \in k..Len(w) : segs[i][1] = w[k] /\ segs[j][1] = w[m] BY <3>1
    <3>3. k \in DOMAIN w /\ m \in DOMAIN w /\ k <= m BY <1>1, <3>2
    <3>4. w[k].start <= w[m].start BY <3>3 DEF Parsed
    <3> QED BY <3>2, <3>4
  <2>4. segs[i][1] \in Words /\ segs[j][1] \in Words /\ Last(segs[j]) \in Words
    <3>1. \A l \in 1..Len(segs) : segs[l] \in Seq(Words) /\ segs[l] # <<>> BY <1>2, <1>3
    <3>2. \A s \in Seq(Words) : s # <<>> => s[1] \in Words /\ s[Len(s)] \in Words OBVIOUS
    <3> QED BY <3>1, <3>2 DEF Last
  <2>5. segs[i][1].start \in Int /\ segs[j][1].start \in Int /\ Last(segs[j]).end \in Int
    BY <2>4 DEF Words
  <2> QED BY <2>2, <2>3, <2>5
<1>8. \A i, j \in 1..Len(segs) : i <= j => Span(segs[i]).start <= Span(segs[j]).end
  BY <1>7 DEF Span
<1> QED BY <1>2, <1>6, <1>8

\* The invariant is enough for what is promised.
LEMMA FaithfulText == TextInv => TextIsFaithful
<1> SUFFICES ASSUME TextInv PROVE TextIsFaithful OBVIOUS
<1>1. answer \in Answers /\ overlap \in Nat BY TextAssumption DEF TextInv
<1>2. CASE stage \in {"answered", "invalid"}
  <2>1. words = <<>> /\ segments = <<>> /\ chunks = <<>> /\ stage \notin {"parsed", "segmented", "chunked"}
    BY <1>2 DEF TextInv
  <2>2. DOMAIN words = {} /\ DOMAIN segments = {} /\ DOMAIN chunks = {} BY <2>1
  <2>3. TextRunsForward BY <2>2 DEF TextRunsForward
  <2>4. TextIsWhole BY <2>1 DEF TextIsWhole
  <2>5. ChunksFit BY <2>2 DEF ChunksFit
  <2> QED BY <2>3, <2>4, <2>5 DEF TextIsFaithful
<1>3. CASE stage \in {"parsed", "segmented", "chunked"}
  <2>1. Parsed(words, answer)
    <3>1. ~Refused(answer) /\ words = InOrder(Repaired(answer)) BY <1>3 DEF TextInv
    <3> QED BY <1>1, <3>1, InOrderParsed
  <2>2. /\ \A i \in DOMAIN words : ~Reversed(words[i])
        /\ Len(words) = Len(answer) /\ {words[i].n : i \in DOMAIN words} = DOMAIN answer
    BY <2>1 DEF Parsed
  <2>3. CASE stage = "parsed"
    <3>1. segments = <<>> /\ chunks = <<>> /\ stage \notin {"segmented", "chunked"} /\ stage # "chunked"
      BY <2>3 DEF TextInv
    <3>2. DOMAIN segments = {} /\ DOMAIN chunks = {} BY <3>1
    <3>3. TextRunsForward BY <2>2, <3>2 DEF TextRunsForward
    <3>4. TextIsWhole BY <2>2, <3>1 DEF TextIsWhole
    <3>5. ChunksFit BY <3>2 DEF ChunksFit
    <3> QED BY <3>3, <3>4, <3>5 DEF TextIsFaithful
  <2>4. CASE stage \in {"segmented", "chunked"}
    <3>1. segments = Pieces(words, SegmentWords) BY <2>4 DEF TextInv
    <3>2. /\ segments \in Seq(Segments) /\ FlattenSeq(segments) = words
          /\ \A i, j \in 1..Len(segments) : i <= j => Span(segments[i]).start <= Span(segments[j]).end
      BY <2>1, <3>1, SegmentsForward
    <3>3. DOMAIN segments = 1..Len(segments) /\ Len(segments) \in Nat BY <3>2
    <3>4. \A s \in Segments : Span(s).start \in Int /\ Span(s).end \in Int
      <4> SUFFICES ASSUME NEW s \in Segments PROVE Span(s).start \in Int /\ Span(s).end \in Int
        OBVIOUS
      <4>1. s \in Seq(Words) /\ s # <<>> BY DEF Segments
      <4>2. s[1] \in Words /\ s[Len(s)] \in Words BY <4>1
      <4> QED BY <4>2 DEF Span, Last, Words
    <3>5. \A i \in DOMAIN segments : ~Reversed(Span(segments[i]))
      <4> SUFFICES ASSUME NEW i \in 1..Len(segments) PROVE ~Reversed(Span(segments[i]))
        BY <3>3
      <4>1. segments[i] \in Segments BY <3>2
      <4>2. i <= i BY <3>3
      <4> QED BY <3>2, <3>4, <4>1, <4>2 DEF Reversed
    <3>6. CASE stage = "segmented"
      <4>1. chunks = <<>> /\ stage # "chunked" BY <3>6 DEF TextInv
      <4>2. DOMAIN chunks = {} BY <4>1
      <4>3. TextRunsForward BY <2>2, <3>5, <4>2 DEF TextRunsForward
      <4>4. TextIsWhole BY <2>2, <3>2, <4>1 DEF TextIsWhole
      <4>5. ChunksFit BY <4>2 DEF ChunksFit
      <4> QED BY <4>3, <4>4, <4>5 DEF TextIsFaithful
    <3>7. CASE stage = "chunked"
      <4> DEFINE fs == AllFragments(segments)
      <4>1. chunks = Packed(fs, overlap) BY <3>7 DEF TextInv
      <4>2. fs \in Seq(Sentences) /\ Said(fs) = words /\ SpansInOrder(fs, segments)
        BY <3>2, AllFragmentsOf
      <4> HIDE DEF fs
      <4>3. /\ chunks \in Seq(Seq(Sentences)) /\ ClosedInv(chunks, fs, Len(fs), overlap)
            /\ News(chunks, overlap) \in Seq(Seq(Sentences)) /\ FlattenSeq(News(chunks, overlap)) = fs
        BY <1>1, <4>1, <4>2, PackedOf
      <4>4. ASSUME NEW i \in DOMAIN chunks
            PROVE  ~Reversed([start |-> chunks[i][1].span.start, end |-> Last(chunks[i]).span.end])
        <5>1. Among(fs, Len(fs), chunks[i][1], Last(chunks[i])) BY <4>3 DEF ClosedInv
        <5>2. PICK k \in 1..Len(fs) : \E m \in k..Len(fs) : chunks[i][1] = fs[k] /\ Last(chunks[i]) = fs[m]
          BY <5>1 DEF Among
        <5>3. PICK m \in k..Len(fs) : chunks[i][1] = fs[k] /\ Last(chunks[i]) = fs[m] BY <5>2
        <5>4. Len(fs) \in Nat BY <4>2
        <5>5. k \in 1..Len(fs) /\ m \in 1..Len(fs) /\ k <= m BY <5>3, <5>4
        <5>6. Spanned(segments, fs[k].span, fs[m].span) BY <4>2, <5>5 DEF SpansInOrder
        <5>7. PICK u \in 1..Len(segments) : \E v \in u..Len(segments) :
                fs[k].span = Span(segments[u]) /\ fs[m].span = Span(segments[v])
          BY <5>6 DEF Spanned
        <5>8. PICK v \in u..Len(segments) :
                fs[k].span = Span(segments[u]) /\ fs[m].span = Span(segments[v])
          BY <5>7
        <5>9. u \in 1..Len(segments) /\ v \in 1..Len(segments) /\ u <= v BY <3>3, <5>8
        <5>10. segments[u] \in Segments /\ segments[v] \in Segments BY <3>2, <5>9
        <5>11. Span(segments[u]).start <= Span(segments[v]).end BY <3>2, <5>9
        <5>12. Span(segments[u]).start \in Int /\ Span(segments[v]).end \in Int BY <3>4, <5>10
        <5> QED BY <5>3, <5>8, <5>11, <5>12 DEF Reversed
      <4>5. TextRunsForward BY <2>2, <3>5, <4>4 DEF TextRunsForward
      <4>6. \A i \in DOMAIN chunks : i > 1 => IsPrefix(Shared(chunks[i - 1], overlap), chunks[i])
        BY <4>3 DEF ClosedInv
      <4>7. FlattenSeq([i \in 1..Len(chunks) |-> Said(New(i))]) = words
        <5> DEFINE ns == News(chunks, overlap)
        <5>1. Len(chunks) \in Nat /\ ns = [i \in 1..Len(chunks) |-> New(i)] BY <4>3 DEF News, New
        <5> HIDE DEF ns
        <5>2. Len(ns) = Len(chunks) /\ \A i \in 1..Len(chunks) : ns[i] = New(i) BY <4>3, <5>1 DEF ns
        <5>3. [i \in 1..Len(ns) |-> Said(ns[i])] = [i \in 1..Len(chunks) |-> Said(New(i))] BY <5>2
        <5>4. Said(FlattenSeq(ns)) = FlattenSeq([i \in 1..Len(ns) |-> Said(ns[i])])
          BY <4>3, SaidFlatten DEF ns
        <5> QED BY <4>2, <4>3, <5>3, <5>4 DEF ns
      <4>8. TextIsWhole BY <2>2, <3>2, <4>6, <4>7 DEF TextIsWhole
      <4>9. ChunksFit BY <4>3 DEF ChunksFit, ClosedInv, Fits
      <4> QED BY <4>5, <4>8, <4>9 DEF TextIsFaithful
    <3> QED BY <2>4, <3>6, <3>7
  <2> QED BY <1>3, <2>3, <2>4
<1> QED BY <1>2, <1>3 DEF TextInv

\* Whatever offsets the recogniser gave and however long its answer is: the text of a video
\* runs forward, is what was said in its order, and is cut into chunks that fit.
THEOREM TextStaysFaithful == TextSpec => []TextIsFaithful
<1>1. TextSpec => []TextInv BY TextInvInit, TextInvNext, PTL DEF TextSpec
<1> QED BY <1>1, FaithfulText, PTL

-----------------------------------------------------------------------------
(* Datasets.                                                               *)

\* The log is as it was read, nothing that was shown to its users is in the pool, and there are
\* no groups before the end.
MakingInv ==
  /\ DOMAIN log \subseteq Nat /\ \A i \in DOMAIN log : log[i].at \in Int
  /\ step \in {"pooled", "done"} => \A c \in pool : \A i \in DOMAIN log : c \notin Shown(log[i])
  /\ step # "done" => groups = {}

\* Two latest copies of an event are one.
LEMMA OneIsLatest ==
  ASSUME MakingInv, NEW i \in DOMAIN log, NEW j \in DOMAIN log,
         Latest(i), Latest(j), Id(log[i]) = Id(log[j])
  PROVE  i = j
<1>1. i \in Nat /\ j \in Nat /\ log[i].at \in Int /\ log[j].at \in Int BY DEF MakingInv
<1>2. log[j].at < log[i].at \/ (log[j].at = log[i].at /\ j <= i) BY DEF Latest
<1>3. log[i].at < log[j].at \/ (log[i].at = log[j].at /\ i <= j) BY DEF Latest
<1> QED BY <1>1, <1>2, <1>3

LEMMA LatestIsLast ==
  ASSUME MakingInv, NEW i \in DOMAIN log, NEW j \in DOMAIN log,
         Latest(i), Id(log[j]) = Id(log[i])
  PROVE  log[j].at <= log[i].at
<1>1. log[i].at \in Int /\ log[j].at \in Int BY DEF MakingInv
<1> QED BY <1>1 DEF Latest

\* What is offered was shown to nobody who gave feedback.
LEMMA OffersWereNotShown ==
  ASSUME NEW project, NEW offer \in Offers(project), NEW c \in offer, NEW i \in DOMAIN log
  PROVE  c \notin Shown(log[i])
<1>1. c \notin Excluded(ToSet(log)) BY DEF Offers, kSubset
<1>2. log[i] \in ToSet(log) BY DEF ToSet
<1> QED BY <1>1, <1>2 DEF Excluded, Referenced

LEMMA MaterializeTeaches ==
  ASSUME MakingInv, Materialize PROVE GroupsTeach'
<1> DEFINE kept == {log[i] : i \in {j \in DOMAIN log : Latest(j)}}
<1>1. PICK random \in [kept -> SUBSET pool] :
        /\ \A e \in kept : random[e] \in RandomNegatives(e)
        /\ groups' = {g \in {Group(e, random[e]) : e \in {f \in kept : f.like}} :
                        g.positives # {} /\ g.negatives # {}}
  BY DEF Materialize
<1>2. log' = log /\ step = "pooled" BY DEF Materialize
<1>3. ASSUME NEW g \in groups'
      PROVE  \E i \in DOMAIN log :
               /\ Latest(i) /\ log[i] \in kept /\ g = Group(log[i], random[log[i]])
               /\ g.event = log[i] /\ g.positives # {} /\ g.negatives # {}
  <2>1. PICK e \in kept : g = Group(e, random[e]) BY <1>1, <1>3
  <2>2. g.event = e BY <2>1 DEF Group
  <2>3. g.positives # {} /\ g.negatives # {} BY <1>1, <1>3
  <2> QED BY <2>1, <2>2, <2>3
<1>4. LatestIsTrained'
  <2>1. ASSUME NEW g \in groups', NEW i \in DOMAIN log, Id(log[i]) = Id(g.event)
        PROVE  log[i].at <= g.event.at
    <3>1. PICK k \in DOMAIN log : Latest(k) /\ g.event = log[k] BY <1>3
    <3> QED BY <2>1, <3>1, LatestIsLast
  <2>2. ASSUME NEW g \in groups', NEW h \in groups', Id(h.event) = Id(g.event) PROVE h = g
    <3>1. PICK k \in DOMAIN log :
            Latest(k) /\ g.event = log[k] /\ g = Group(log[k], random[log[k]]) BY <1>3
    <3>2. PICK l \in DOMAIN log :
            Latest(l) /\ h.event = log[l] /\ h = Group(log[l], random[log[l]]) BY <1>3
    <3>3. k = l BY <2>2, <3>1, <3>2, OneIsLatest
    <3> QED BY <3>1, <3>2, <3>3
  <2> QED BY <1>2, <2>1, <2>2 DEF LatestIsTrained
<1>5. ASSUME NEW g \in groups'
      PROVE  /\ g.positives \intersect g.negatives = {}
             /\ g.positives # {} /\ g.negatives # {}
             /\ \A c \in g.random :
                  /\ ProjectOf[c] = g.event.project
                  /\ \A i \in DOMAIN log : c \notin Shown(log[i])
  <2>1. PICK k \in DOMAIN log :
          /\ log[k] \in kept /\ g = Group(log[k], random[log[k]])
          /\ g.positives # {} /\ g.negatives # {}
    BY <1>3
  <2> DEFINE e == log[k]
  <2>2. random[e] \in RandomNegatives(e) /\ random[e] \subseteq pool BY <1>1, <2>1
  <2>3. \A c \in random[e] : ProjectOf[c] = e.project /\ c \notin Shown(e)
    BY <2>2 DEF RandomNegatives, kSubset
  <2>4. /\ g.event = e /\ g.random = random[e] /\ g.positives = e.used \intersect texts
        /\ g.negatives = ((e.topk \ e.used) \intersect texts) \union random[e]
    BY <2>1 DEF Group, Positives, Unused
  <2>5. g.positives \intersect g.negatives = {} BY <2>3, <2>4 DEF Shown
  <2>6. \A c \in pool : \A i \in DOMAIN log : c \notin Shown(log[i]) BY <1>2 DEF MakingInv
  <2> QED BY <2>1, <2>2, <2>3, <2>4, <2>5, <2>6
<1> QED BY <1>2, <1>4, <1>5 DEF GroupsTeach, GroupsTellApart, RandomWasNotShown

LEMMA MakingStep ==
  ASSUME MakingInv, GroupsTeach, [DatasetsNext]_dvars PROVE MakingInv' /\ GroupsTeach'
<1>1. CASE ReadPool
  <2>1. PICK offer \in [{ProjectOf[c] : c \in Chunks} -> SUBSET shown] :
          /\ \A project \in DOMAIN offer : offer[project] \in Offers(project)
          /\ pool' = UNION {offer[project] : project \in DOMAIN offer}
    BY <1>1 DEF ReadPool
  <2>2. \A c \in pool' : \A i \in DOMAIN log : c \notin Shown(log[i]) BY <2>1, OffersWereNotShown
  <2>3. step' = "pooled" /\ step # "done" /\ UNCHANGED <<log, groups>> BY <1>1 DEF ReadPool
  <2> QED BY <2>2, <2>3 DEF MakingInv, GroupsTeach, LatestIsTrained, GroupsTellApart, RandomWasNotShown
<1>2. CASE Materialize
  <2>1. step' = "done" /\ step = "pooled" /\ UNCHANGED <<log, pool>> BY <1>2 DEF Materialize
  <2> QED BY <1>2, <2>1, MaterializeTeaches DEF MakingInv
<1>3. ASSUME UNCHANGED <<log, pool, groups>>,
             \/ step' = step
             \/ step \in {"start", "read", "judge"} /\ step' \in {"read", "text", "judged"}
      PROVE  MakingInv' /\ GroupsTeach'
  BY <1>3 DEF MakingInv, GroupsTeach, LatestIsTrained, GroupsTellApart, RandomWasNotShown
<1>4. ASSUME NEW c \in Chunks, Delete(c) \/ Hide(ProjectOf[c]) PROVE MakingInv' /\ GroupsTeach'
  BY <1>3, <1>4 DEF Delete, Hide
<1>5. CASE ReadLog \/ ReadTexts BY <1>3, <1>5 DEF ReadLog, ReadTexts
<1>6. CASE Judge
  <2>1. /\ UNCHANGED <<log, pool, groups>>
        /\ step = "judge" /\ step' = "judged"
    BY <1>6 DEF Judge
  <2> QED BY <1>3, <2>1
<1>7. CASE UNCHANGED dvars BY <1>3, <1>7 DEF dvars
<1> QED BY <1>1, <1>2, <1>4, <1>5, <1>6, <1>7 DEF DatasetsNext

\* Whatever the log holds, in whatever order and however often its events were delivered, and
\* whatever is deleted or hidden while the dataset is made: every group is of an event's last
\* copy, the only one of its event, it tells positives from negatives, and its random negatives
\* were shown to none of the users in the log.
THEOREM GroupsAlwaysTeach == DatasetsSpec => []GroupsTeach
<1>1. DatasetsInit => MakingInv /\ GroupsTeach
  <2>1. ASSUME DatasetsInit PROVE DOMAIN log \subseteq Nat /\ \A i \in DOMAIN log : log[i].at \in Int
    <3>1. CASE log \in Logs BY <3>1, LogsAssumption
    <3>2. CASE log = <<>> BY <3>2
    <3> QED BY <2>1, <3>1, <3>2 DEF DatasetsInit
  <2> QED BY <2>1 DEF DatasetsInit, MakingInv, GroupsTeach, LatestIsTrained, GroupsTellApart,
                      RandomWasNotShown
<1> QED BY <1>1, MakingStep, PTL DEF DatasetsSpec

-----------------------------------------------------------------------------
(* Metrics: rankings, what they gain, and the decision.                    *)

Ranking(ranked) == ranked \in Seq(Chunks) /\ IsInjective(ranked)
ZeroOne == [1..5 -> {0, 1}]

LEMMA HitsType ==
  ASSUME NEW ranked, NEW relevant PROVE Hits(ranked, relevant) \in ZeroOne /\ IdealHits(relevant) \in ZeroOne
BY DEF Hits, IdealHits, ZeroOne

LEMMA Places ==
  ASSUME NEW ranked, Ranking(ranked), NEW c
  PROVE  /\ Place(ranked, c) \in 1..(TopK + 1)
         /\ \A k \in 1..TopK : Place(ranked, c) = k <=> k \in DOMAIN ranked /\ ranked[k] = c
<1>1. TopK \in 1..5 /\ DOMAIN ranked = 1..Len(ranked) /\ Len(ranked) \in Nat
  BY EvaluationsAssumption DEF Ranking
<1>2. \A i, j \in DOMAIN ranked : ranked[i] = ranked[j] => i = j BY DEF Ranking, IsInjective
<1>3. CASE c \in ToSet(ranked)
  <2>1. PICK i \in DOMAIN ranked : ranked[i] = c BY <1>3 DEF ToSet
  <2>2. Rank(ranked, c) \in DOMAIN ranked /\ ranked[Rank(ranked, c)] = c BY <2>1 DEF Rank
  <2> HIDE DEF Rank
  <2>3. Place(ranked, c) = IF Rank(ranked, c) <= TopK THEN Rank(ranked, c) ELSE TopK + 1
    BY <1>3 DEF Place
  <2> QED BY <1>1, <1>2, <2>2, <2>3
<1>4. CASE c \notin ToSet(ranked)
  <2>1. \A k \in DOMAIN ranked : ranked[k] # c BY <1>4 DEF ToSet
  <2> QED BY <1>1, <1>4, <2>1 DEF Place
<1> QED BY <1>3, <1>4

Placed(ranked, relevant, k) == {c \in relevant : Place(ranked, c) <= TopK /\ Place(ranked, c) <= k}

LEMMA PlacedIsCounted ==
  ASSUME NEW ranked, Ranking(ranked), NEW relevant, IsFiniteSet(relevant)
  PROVE  /\ \A k \in 0..5 : IsFiniteSet(Placed(ranked, relevant, k)) /\ Cardinality(Placed(ranked, relevant, k)) \in Nat
         /\ Cardinality(Placed(ranked, relevant, 0)) = 0
         /\ \A k \in 1..5 :
              Cardinality(Placed(ranked, relevant, k))
              = Cardinality(Placed(ranked, relevant, k - 1)) + Hits(ranked, relevant)[k]
<1> DEFINE C(k) == Placed(ranked, relevant, k)
<1>1. TopK \in 1..5 BY EvaluationsAssumption
<1>2. \A k : IsFiniteSet(C(k)) /\ Cardinality(C(k)) \in Nat
  <2> SUFFICES ASSUME NEW k PROVE IsFiniteSet(C(k)) /\ Cardinality(C(k)) \in Nat OBVIOUS
  <2>1. C(k) \subseteq relevant BY DEF Placed
  <2> HIDE DEF C
  <2> QED BY <2>1, FS_Subset, FS_CardinalityType
<1>3. C(0) = {}
  <2> SUFFICES ASSUME NEW c \in C(0) PROVE FALSE OBVIOUS
  <2>1. Place(ranked, c) \in 1..(TopK + 1) BY Places
  <2>2. Place(ranked, c) <= 0 BY DEF Placed
  <2> QED BY <1>1, <2>1, <2>2
<1>4. ASSUME NEW k \in 1..5
      PROVE  Cardinality(C(k)) = Cardinality(C(k - 1)) + Hits(ranked, relevant)[k]
  <2>1. ASSUME NEW c \in relevant
        PROVE  c \in C(k) <=> c \in C(k - 1) \/ (k <= TopK /\ k \in DOMAIN ranked /\ ranked[k] = c)
    <3>1. /\ Place(ranked, c) \in 1..(TopK + 1)
          /\ k <= TopK => (Place(ranked, c) = k <=> k \in DOMAIN ranked /\ ranked[k] = c)
      BY <1>1, Places
    <3> HIDE DEF Place
    <3>2. c \in C(k) <=> Place(ranked, c) <= TopK /\ Place(ranked, c) <= k BY DEF Placed
    <3>3. c \in C(k - 1) <=> Place(ranked, c) <= TopK /\ Place(ranked, c) <= k - 1 BY DEF Placed
    <3> HIDE DEF C
    <3> QED BY <1>1, <3>1, <3>2, <3>3
  <2>2. C(k) \subseteq relevant /\ C(k - 1) \subseteq relevant BY DEF Placed
  <2>3. CASE k <= TopK /\ k \in DOMAIN ranked /\ ranked[k] \in relevant
    <3>1. ranked[k] \notin C(k - 1)
      <4>1. Place(ranked, ranked[k]) = k BY <1>1, <2>3, Places
      <4> QED BY <1>1, <4>1 DEF Placed
    <3> HIDE DEF C
    <3>2. C(k) = C(k - 1) \union {ranked[k]} BY <2>1, <2>2, <2>3
    <3>3. Cardinality(C(k)) = Cardinality(C(k - 1)) + 1 BY <1>2, <3>1, <3>2, FS_AddElement
    <3>4. Hits(ranked, relevant)[k] = 1 BY <2>3 DEF Hits
    <3> QED BY <3>3, <3>4
  <2>4. CASE ~(k <= TopK /\ k \in DOMAIN ranked /\ ranked[k] \in relevant)
    <3> HIDE DEF C
    <3>1. C(k) = C(k - 1) BY <2>1, <2>2, <2>4
    <3>2. Hits(ranked, relevant)[k] = 0 BY <2>4 DEF Hits
    <3>3. Cardinality(C(k - 1)) \in Nat BY <1>2
    <3> QED BY <3>1, <3>2, <3>3
  <2> QED BY <2>3, <2>4
<1>5. Cardinality(C(0)) = 0 BY <1>3, FS_EmptySet
<1> QED BY <1>2, <1>4, <1>5

\* Hits of one are as early as those of other.
Earlier(one, other) ==
  /\ one[1] >= other[1]
  /\ one[1] + one[2] >= other[1] + other[2]
  /\ one[1] + one[2] + one[3] >= other[1] + other[2] + other[3]
  /\ one[1] + one[2] + one[3] + one[4] >= other[1] + other[2] + other[3] + other[4]
  /\ Count(one) >= Count(other)

Higher(one, other, relevant) == \A c \in relevant : Place(one, c) <= Place(other, c)

LEMMA HigherIsEarlier ==
  ASSUME NEW one, Ranking(one), NEW other, Ranking(other), NEW relevant, IsFiniteSet(relevant),
         Higher(one, other, relevant)
  PROVE  /\ Earlier(Hits(one, relevant), Hits(other, relevant))
         /\ Hits(one, relevant) = Hits(other, relevant) => Higher(other, one, relevant)
<1> DEFINE A(k) == Placed(one, relevant, k)
           B(k) == Placed(other, relevant, k)
           a == Hits(one, relevant)
           b == Hits(other, relevant)
<1>0. TopK \in 1..5 BY EvaluationsAssumption
<1>1. \A k \in 0..5 : B(k) \subseteq A(k)
  <2> SUFFICES ASSUME NEW k \in 0..5, NEW c \in B(k) PROVE c \in A(k) OBVIOUS
  <2>1. Place(one, c) \in 1..(TopK + 1) /\ Place(other, c) \in 1..(TopK + 1) BY Places
  <2>2. c \in relevant /\ Place(one, c) <= Place(other, c) BY DEF Higher, Placed
  <2> HIDE DEF Place
  <2> QED BY <1>0, <2>1, <2>2 DEF Placed
<1>2. /\ \A k \in 0..5 : IsFiniteSet(A(k)) /\ Cardinality(A(k)) \in Nat
      /\ Cardinality(A(0)) = 0 /\ \A k \in 1..5 : Cardinality(A(k)) = Cardinality(A(k - 1)) + a[k]
  BY PlacedIsCounted
<1>3. /\ \A k \in 0..5 : IsFiniteSet(B(k)) /\ Cardinality(B(k)) \in Nat
      /\ Cardinality(B(0)) = 0 /\ \A k \in 1..5 : Cardinality(B(k)) = Cardinality(B(k - 1)) + b[k]
  BY PlacedIsCounted
<1>4. a \in ZeroOne /\ b \in ZeroOne BY HitsType
<1> HIDE DEF A, B, a, b
<1>5. \A k \in 0..5 : Cardinality(B(k)) <= Cardinality(A(k)) BY <1>1, <1>2, FS_Subset
<1> DEFINE m(k) == Cardinality(A(k))
           n(k) == Cardinality(B(k))
<1>6. /\ m(0) = 0 /\ m(1) = m(0) + a[1] /\ m(2) = m(1) + a[2] /\ m(3) = m(2) + a[3]
      /\ m(4) = m(3) + a[4] /\ m(5) = m(4) + a[5]
  <2> HIDE DEF m
  <2>1. m(0) = 0 /\ \A k \in 1..5 : m(k) = m(k - 1) + a[k] BY <1>2 DEF m
  <2> QED BY <2>1
<1>7. /\ n(0) = 0 /\ n(1) = n(0) + b[1] /\ n(2) = n(1) + b[2] /\ n(3) = n(2) + b[3]
      /\ n(4) = n(3) + b[4] /\ n(5) = n(4) + b[5]
  <2> HIDE DEF n
  <2>1. n(0) = 0 /\ \A k \in 1..5 : n(k) = n(k - 1) + b[k] BY <1>3 DEF n
  <2> QED BY <2>1
<1>8. \A k \in 0..5 : n(k) <= m(k) /\ n(k) \in Nat /\ m(k) \in Nat BY <1>2, <1>3, <1>5
<1>9. \A k \in 1..5 : a[k] \in {0, 1} /\ b[k] \in {0, 1} BY <1>4 DEF ZeroOne
<1>10. Earlier(a, b)
  <2> HIDE DEF m, n
  <2>1. /\ n(1) <= m(1) /\ n(2) <= m(2) /\ n(3) <= m(3) /\ n(4) <= m(4) /\ n(5) <= m(5) BY <1>8
  <2>2. /\ a[1] \in {0, 1} /\ a[2] \in {0, 1} /\ a[3] \in {0, 1} /\ a[4] \in {0, 1} /\ a[5] \in {0, 1}
        /\ b[1] \in {0, 1} /\ b[2] \in {0, 1} /\ b[3] \in {0, 1} /\ b[4] \in {0, 1} /\ b[5] \in {0, 1}
    BY <1>9
  <2> QED BY <1>6, <1>7, <2>1, <2>2 DEF Earlier, Count
<1>11. ASSUME a = b PROVE Higher(other, one, relevant)
  <2>1. \A k \in 0..5 : m(k) = n(k)
    <3> HIDE DEF m, n
    <3>1. m(0) = n(0) /\ m(1) = n(1) /\ m(2) = n(2) /\ m(3) = n(3) /\ m(4) = n(4) /\ m(5) = n(5)
      BY <1>6, <1>7, <1>11
    <3> QED BY <3>1
  <2>2. \A k \in 0..5 : A(k) = B(k)
    <3> SUFFICES ASSUME NEW k \in 0..5 PROVE A(k) = B(k) OBVIOUS
    <3>1. B(k) \subseteq A(k) /\ IsFiniteSet(A(k)) /\ Cardinality(A(k)) = Cardinality(B(k))
      BY <1>1, <1>2, <2>1
    <3> QED BY <3>1, FS_Subset
  <2> SUFFICES ASSUME NEW c \in relevant PROVE Place(other, c) <= Place(one, c) BY DEF Higher
  <2>3. Place(one, c) \in 1..(TopK + 1) /\ Place(other, c) \in 1..(TopK + 1) BY Places
  <2> HIDE DEF Place
  <2>4. CASE Place(one, c) <= TopK
    <3> DEFINE k == Place(one, c)
    <3>1. k \in 0..5 /\ c \in A(k) BY <1>0, <2>3, <2>4 DEF A, Placed
    <3>2. c \in B(k) BY <2>2, <3>1
    <3> QED BY <3>2 DEF B, Placed
  <2>5. CASE Place(one, c) > TopK BY <1>0, <2>3, <2>5
  <2> QED BY <1>0, <2>3, <2>4, <2>5
<1> QED BY <1>10, <1>11 DEF a, b

\* Division rounds down, and so keeps an order; it tells apart what differs by the divisor.
LEMMA Quotient ==
  ASSUME NEW x \in Nat, NEW d \in Nat, d # 0
  PROVE  x \div d \in Nat /\ d * (x \div d) <= x /\ x < d * (x \div d) + d
OBVIOUS

LEMMA QuotientOrder ==
  ASSUME NEW x \in Nat, NEW y \in Nat, NEW d \in Nat, d # 0
  PROVE  /\ x <= y => x \div d <= y \div d
         /\ x + d <= y => x \div d < y \div d
<1> DEFINE m == x \div d
           n == y \div d
<1>1. m \in Nat /\ d * m <= x /\ x < d * m + d BY Quotient
<1>2. n \in Nat /\ d * n <= y /\ y < d * n + d BY Quotient
<1> HIDE DEF m, n
<1>3. ASSUME x <= y, n < m PROVE FALSE
  <2>1. PICK e \in Nat : m = n + 1 + e BY <1>1, <1>2, <1>3
  <2>2. d * m = d * n + d + d * e /\ d * e \in Nat BY <2>1, <1>2
  <2> QED BY <1>1, <1>2, <1>3, <2>2
<1>4. ASSUME x + d <= y, n <= m PROVE FALSE
  <2>1. PICK e \in Nat : m = n + e BY <1>1, <1>2, <1>4
  <2>2. d * m = d * n + d * e /\ d * e \in Nat BY <2>1, <1>2
  <2> QED BY <1>1, <1>2, <1>4, <2>2
<1> QED BY <1>1, <1>2, <1>3, <1>4 DEF m, n

\* What hits are worth, and what it is worth to have them earlier.
LEMMA GainsRange ==
  ASSUME NEW a1 \in Int, NEW a2 \in Int, NEW a3 \in Int, NEW a4 \in Int, NEW a5 \in Int,
         0 <= a1, a1 <= 1, 0 <= a2, a2 <= 1, 0 <= a3, a3 <= 1, 0 <= a4, a4 <= 1, 0 <= a5, a5 <= 1,
         NEW x, x = 10000 * a1 + 6309 * a2 + 5000 * a3 + 4307 * a4 + 3869 * a5
  PROVE  x \in Int /\ 0 <= x /\ x <= 29485
OBVIOUS

LEMMA GainsDifference ==
  ASSUME NEW a1 \in Int, NEW a2 \in Int, NEW a3 \in Int, NEW a4 \in Int, NEW a5 \in Int,
         NEW b1 \in Int, NEW b2 \in Int, NEW b3 \in Int, NEW b4 \in Int, NEW b5 \in Int
  PROVE  10000 * a1 + 6309 * a2 + 5000 * a3 + 4307 * a4 + 3869 * a5
           - (10000 * b1 + 6309 * b2 + 5000 * b3 + 4307 * b4 + 3869 * b5)
         = 3691 * (a1 - b1) + 1309 * (a1 + a2 - b1 - b2) + 693 * (a1 + a2 + a3 - b1 - b2 - b3)
           + 438 * (a1 + a2 + a3 + a4 - b1 - b2 - b3 - b4)
           + 3869 * (a1 + a2 + a3 + a4 + a5 - b1 - b2 - b3 - b4 - b5)
OBVIOUS

LEMMA SmallestDifference ==
  ASSUME NEW d1 \in Nat, NEW d2 \in Nat, NEW d3 \in Nat, NEW d4 \in Nat, NEW d5 \in Nat, NEW s \in Int,
         s = 3691 * d1 + 1309 * d2 + 693 * d3 + 438 * d4 + 3869 * d5
  PROVE  s >= 0 /\ (s >= 438 \/ (d1 = 0 /\ d2 = 0 /\ d3 = 0 /\ d4 = 0 /\ d5 = 0))
OBVIOUS

LEMMA Scaled ==
  ASSUME NEW x \in Int, NEW y \in Int, 0 <= y, y <= x
  PROVE  y * SCALE \in Nat /\ x * SCALE \in Nat /\ y * SCALE <= x * SCALE
BY DEF SCALE

LEMMA ScaledApart ==
  ASSUME NEW x \in Int, NEW y \in Int, NEW d \in Int, d <= 29485, y + 438 <= x
  PROVE  y * SCALE + d <= x * SCALE
BY DEF SCALE

LEMMA Bits ==
  ASSUME NEW hits \in ZeroOne
  PROVE  /\ \A k \in 1..5 : hits[k] \in Int /\ 0 <= hits[k] /\ hits[k] <= 1
         /\ Count(hits) \in Int /\ 0 <= Count(hits)
<1>1. \A k \in 1..5 : hits[k] \in {0, 1} BY DEF ZeroOne
<1>2. \A k \in 1..5 : hits[k] \in Int /\ 0 <= hits[k] /\ hits[k] <= 1 BY <1>1
<1>3. /\ hits[1] \in Nat /\ hits[2] \in Nat /\ hits[3] \in Nat /\ hits[4] \in Nat /\ hits[5] \in Nat BY <1>2
<1>4. Count(hits) \in Int /\ 0 <= Count(hits) BY <1>3 DEF Count
<1> QED BY <1>2, <1>4

LEMMA DcgOrder ==
  ASSUME NEW one \in ZeroOne, NEW other \in ZeroOne, Earlier(one, other)
  PROVE  /\ Dcg(one) \in Int /\ Dcg(other) \in Int /\ 0 <= Dcg(other)
         /\ Dcg(other) <= Dcg(one)
         /\ one # other => Dcg(other) + 438 <= Dcg(one)
<1> DEFINE x == Dcg(one)
           y == Dcg(other)
           d1 == one[1] - other[1]
           d2 == one[1] + one[2] - other[1] - other[2]
           d3 == one[1] + one[2] + one[3] - other[1] - other[2] - other[3]
           d4 == one[1] + one[2] + one[3] + one[4] - other[1] - other[2] - other[3] - other[4]
           d5 == one[1] + one[2] + one[3] + one[4] + one[5]
                 - other[1] - other[2] - other[3] - other[4] - other[5]
<1>1. /\ one[1] \in Int /\ one[2] \in Int /\ one[3] \in Int /\ one[4] \in Int /\ one[5] \in Int
      /\ other[1] \in Int /\ other[2] \in Int /\ other[3] \in Int /\ other[4] \in Int
      /\ other[5] \in Int
  BY Bits
<1>2. x \in Int /\ y \in Int /\ 0 <= y
  <2>1. /\ 0 <= other[1] /\ other[1] <= 1 /\ 0 <= other[2] /\ other[2] <= 1 /\ 0 <= other[3]
        /\ other[3] <= 1 /\ 0 <= other[4] /\ other[4] <= 1 /\ 0 <= other[5] /\ other[5] <= 1
    BY Bits
  <2>2. y = 10000 * other[1] + 6309 * other[2] + 5000 * other[3] + 4307 * other[4] + 3869 * other[5]
    BY DEF Dcg
  <2>3. y \in Int /\ 0 <= y
    <3> HIDE DEF y
    <3> QED BY <1>1, <2>1, <2>2, GainsRange
  <2>4. x \in Int BY <1>1 DEF Dcg
  <2> QED BY <2>3, <2>4
<1>3. x - y = 3691 * d1 + 1309 * d2 + 693 * d3 + 438 * d4 + 3869 * d5
  BY <1>1, GainsDifference DEF Dcg
<1>4. d1 \in Nat BY <1>1 DEF Earlier
<1>5. d2 \in Nat BY <1>1 DEF Earlier
<1>6. d3 \in Nat BY <1>1 DEF Earlier
<1>7. d4 \in Nat BY <1>1 DEF Earlier
<1>8. d5 \in Nat BY <1>1 DEF Earlier, Count
<1>e. /\ one[1] = other[1] + d1 /\ one[2] = other[2] + (d2 - d1) /\ one[3] = other[3] + (d3 - d2)
      /\ one[4] = other[4] + (d4 - d3) /\ one[5] = other[5] + (d5 - d4)
  BY <1>1
<1>9. (d1 = 0 /\ d2 = 0 /\ d3 = 0 /\ d4 = 0 /\ d5 = 0) => one = other
  <2> HIDE DEF d1, d2, d3, d4, d5
  <2> SUFFICES ASSUME d1 = 0 /\ d2 = 0 /\ d3 = 0 /\ d4 = 0 /\ d5 = 0 PROVE one = other OBVIOUS
  <2>1. one[1] = other[1] /\ one[2] = other[2] /\ one[3] = other[3] /\ one[4] = other[4] /\ one[5] = other[5]
    BY <1>1, <1>e
  <2>2. \A k \in 1..5 : one[k] = other[k] BY <2>1
  <2> QED BY <2>2 DEF ZeroOne
<1> HIDE DEF x, y, d1, d2, d3, d4, d5
<1>10. x - y \in Int BY <1>2
<1>11. x - y >= 0 /\ (x - y >= 438 \/ (d1 = 0 /\ d2 = 0 /\ d3 = 0 /\ d4 = 0 /\ d5 = 0))
  BY <1>3, <1>4, <1>5, <1>6, <1>7, <1>8, <1>10, SmallestDifference
<1>12. y <= x /\ (one # other => y + 438 <= x) BY <1>2, <1>9, <1>11
<1> QED BY <1>2, <1>12 DEF x, y

LEMMA MetricsOrder ==
  ASSUME NEW a, NEW b, NEW relevant, IsFiniteSet(relevant),
         Earlier(Hits(a, relevant), Hits(b, relevant)), NEW key \in {"recall", "mrr", "ndcg"}
  PROVE  /\ Metrics(a, relevant)[key] \in Nat /\ Metrics(b, relevant)[key] \in Nat
         /\ Metrics(b, relevant)[key] <= Metrics(a, relevant)[key]
<1> DEFINE one == Hits(a, relevant)
           other == Hits(b, relevant)
           ranks(hits) == {rank \in 1..5 : hits[rank] = 1}
<1>1. one \in ZeroOne /\ other \in ZeroOne /\ IdealHits(relevant) \in ZeroOne
  BY DEF Hits, IdealHits, ZeroOne
<1>2. CASE relevant = {} BY <1>2 DEF Metrics
<1>3. CASE relevant # {}
  <2>0. Cardinality(relevant) \in Nat /\ Cardinality(relevant) # 0
    BY <1>3, FS_CardinalityType, FS_EmptySet
  <2>1. Metrics(a, relevant) =
          [recall |-> (Count(one) * SCALE) \div Cardinality(relevant),
           mrr |-> IF ranks(one) = {} THEN 0 ELSE SCALE \div Min(ranks(one)),
           ndcg |-> (Dcg(one) * SCALE) \div Dcg(IdealHits(relevant))]
    BY <1>3 DEF Metrics
  <2>2. Metrics(b, relevant) =
          [recall |-> (Count(other) * SCALE) \div Cardinality(relevant),
           mrr |-> IF ranks(other) = {} THEN 0 ELSE SCALE \div Min(ranks(other)),
           ndcg |-> (Dcg(other) * SCALE) \div Dcg(IdealHits(relevant))]
    BY <1>3 DEF Metrics
  <2>3. Earlier(one, other) OBVIOUS
  <2> HIDE DEF one, other
  <2>4. /\ one[1] \in {0, 1} /\ one[2] \in {0, 1} /\ one[3] \in {0, 1} /\ one[4] \in {0, 1} /\ one[5] \in {0, 1}
        /\ other[1] \in {0, 1} /\ other[2] \in {0, 1} /\ other[3] \in {0, 1} /\ other[4] \in {0, 1}
        /\ other[5] \in {0, 1}
    BY <1>1 DEF ZeroOne
  <2>5. CASE key = "recall"
    <3>1. /\ Count(one) * SCALE \in Nat /\ Count(other) * SCALE \in Nat
          /\ Count(other) * SCALE <= Count(one) * SCALE
      <4>1. Count(one) \in Int /\ Count(other) \in Int /\ 0 <= Count(other) BY <1>1, Bits
      <4>2. Count(other) <= Count(one) BY <2>3, <4>1 DEF Earlier
      <4> QED BY <4>1, <4>2, Scaled
    <3> QED BY <2>0, <2>1, <2>2, <2>5, <3>1, Quotient, QuotientOrder
  <2>6. CASE key = "mrr"
    <3>1. /\ \A hits : ranks(hits) \subseteq 1..5
          /\ \A hits : ranks(hits) # {} =>
               Min(ranks(hits)) \in ranks(hits) /\ \A r \in ranks(hits) : Min(ranks(hits)) <= r
      <4> SUFFICES ASSUME NEW hits, ranks(hits) # {} 
                   PROVE  Min(ranks(hits)) \in ranks(hits) /\ \A r \in ranks(hits) : Min(ranks(hits)) <= r
        OBVIOUS
      <4>1. \E x \in ranks(hits) : \A y \in ranks(hits) : x <= y
         <5>1. ranks(hits) \subseteq 1..5 OBVIOUS
         <5> HIDE DEF ranks
         <5> QED BY <5>1
      <4> HIDE DEF ranks
      <4> QED BY <4>1 DEF Min
    <3>2. CASE ranks(other) = {}
      <4>1. Metrics(b, relevant)[key] = 0 BY <2>2, <2>6, <3>2
      <4>2. Metrics(a, relevant)[key] = IF ranks(one) = {} THEN 0 ELSE SCALE \div Min(ranks(one))
        BY <2>1, <2>6
      <4>3. ranks(one) # {} => Min(ranks(one)) \in Nat /\ Min(ranks(one)) # 0 BY <3>1
      <4> HIDE DEF ranks
      <4> QED BY <4>1, <4>2, <4>3, Quotient DEF SCALE
    <3>3. CASE ranks(other) # {}
      <4> DEFINE n == Min(ranks(other))
                 m == Min(ranks(one))
      <4>1. n \in 1..5 /\ other[n] = 1 BY <3>1, <3>3
      <4>2. \E r \in 1..5 : r <= n /\ one[r] = 1
        <5> HIDE DEF n
        <5>1. CASE n = 1 BY <2>3, <2>4, <4>1, <5>1 DEF Earlier
        <5>2. CASE n = 2 BY <2>3, <2>4, <4>1, <5>2 DEF Earlier
        <5>3. CASE n = 3 BY <2>3, <2>4, <4>1, <5>3 DEF Earlier
        <5>4. CASE n = 4 BY <2>3, <2>4, <4>1, <5>4 DEF Earlier
        <5>5. CASE n = 5 BY <2>3, <2>4, <4>1, <5>5 DEF Earlier, Count
        <5> QED BY <4>1, <5>1, <5>2, <5>3, <5>4, <5>5
      <4>3. m \in 1..5 /\ m <= n /\ ranks(one) # {} BY <3>1, <4>1, <4>2
      <4>4. Metrics(a, relevant)[key] = SCALE \div m /\ Metrics(b, relevant)[key] = SCALE \div n
        BY <2>1, <2>2, <2>6, <3>3, <4>3
      <4> HIDE DEF m, n
      <4>5. (m = 1 \/ m = 2 \/ m = 3 \/ m = 4 \/ m = 5) /\ (n = 1 \/ n = 2 \/ n = 3 \/ n = 4 \/ n = 5)
        BY <4>1, <4>3
      <4> QED BY <4>3, <4>4, <4>5 DEF SCALE
    <3> QED BY <3>2, <3>3
  <2>7. CASE key = "ndcg"
    <3> DEFINE d == Dcg(IdealHits(relevant))
    <3>1. d \in Nat /\ d # 0
      <4>1. TopK \in 1..5 BY EvaluationsAssumption
      <4>2. IdealHits(relevant)[1] = 1 BY <2>0, <4>1 DEF IdealHits
      <4> DEFINE i == IdealHits(relevant)
      <4> HIDE DEF i
      <4>3. i[1] = 1 /\ i[2] \in {0, 1} /\ i[3] \in {0, 1} /\ i[4] \in {0, 1} /\ i[5] \in {0, 1}
        BY <4>2, <1>1 DEF i, ZeroOne
      <4>4. Dcg(i) \in Nat /\ Dcg(i) # 0 BY <4>3 DEF Dcg
      <4> QED BY <4>4 DEF i
    <3>2. /\ Dcg(one) * SCALE \in Nat /\ Dcg(other) * SCALE \in Nat
          /\ Dcg(other) * SCALE <= Dcg(one) * SCALE
      <4>1. Dcg(one) \in Int /\ Dcg(other) \in Int /\ 0 <= Dcg(other) /\ Dcg(other) <= Dcg(one)
        BY <1>1, <2>3, DcgOrder
      <4> QED BY <4>1, Scaled
    <3> HIDE DEF d
    <3>3. Metrics(a, relevant)[key] = (Dcg(one) * SCALE) \div d
      BY <2>1, <2>7 DEF d
    <3>4. Metrics(b, relevant)[key] = (Dcg(other) * SCALE) \div d
      BY <2>2, <2>7 DEF d
    <3> QED BY <3>1, <3>2, <3>3, <3>4, Quotient, QuotientOrder
  <2> QED BY <2>5, <2>6, <2>7
<1> QED BY <1>2, <1>3

\* The metrics are fine enough: other hits have another ndcg.
LEMMA NdcgTells ==
  ASSUME NEW a, NEW b, NEW relevant, IsFiniteSet(relevant), relevant # {},
         Earlier(Hits(a, relevant), Hits(b, relevant)),
         Metrics(a, relevant).ndcg <= Metrics(b, relevant).ndcg
  PROVE  Hits(a, relevant) = Hits(b, relevant)
<1> DEFINE one == Hits(a, relevant)
           other == Hits(b, relevant)
           i == IdealHits(relevant)
           d == Dcg(i)
<1>1. one \in ZeroOne /\ other \in ZeroOne /\ i \in ZeroOne BY DEF Hits, IdealHits, ZeroOne
<1>2. /\ Metrics(a, relevant).ndcg = (Dcg(one) * SCALE) \div d
      /\ Metrics(b, relevant).ndcg = (Dcg(other) * SCALE) \div d
  BY DEF Metrics
<1>3. Earlier(one, other) OBVIOUS
<1>4. i[1] = 1
  <2>1. Cardinality(relevant) \in Nat /\ Cardinality(relevant) # 0
    BY FS_CardinalityType, FS_EmptySet
  <2> QED BY <2>1, EvaluationsAssumption DEF IdealHits
<1>5. d \in Nat /\ d # 0 /\ d <= 29485
  <2> HIDE DEF i
  <2>1. i[1] = 1 /\ \A k \in 1..5 : i[k] \in Int /\ 0 <= i[k] /\ i[k] <= 1 BY <1>1, <1>4, Bits
  <2>2. /\ i[2] \in Int /\ 0 <= i[2] /\ i[2] <= 1 /\ i[3] \in Int /\ 0 <= i[3] /\ i[3] <= 1
        /\ i[4] \in Int /\ 0 <= i[4] /\ i[4] <= 1 /\ i[5] \in Int /\ 0 <= i[5] /\ i[5] <= 1
    BY <2>1
  <2>3. d = 10000 + 6309 * i[2] + 5000 * i[3] + 4307 * i[4] + 3869 * i[5] BY <2>1 DEF Dcg
  <2> HIDE DEF d
  <2>4. d \in Int /\ 10000 <= d /\ d <= 29485 BY <2>2, <2>3
  <2> QED BY <2>4
<1> SUFFICES ASSUME one # other PROVE FALSE OBVIOUS
<1> HIDE DEF one, other, i
<1>6. Dcg(one) \in Int /\ Dcg(other) \in Int /\ 0 <= Dcg(other) /\ Dcg(other) + 438 <= Dcg(one)
  BY <1>1, <1>3, DcgOrder
<1>7. /\ Dcg(one) * SCALE \in Nat /\ Dcg(other) * SCALE \in Nat
      /\ Dcg(other) * SCALE + d <= Dcg(one) * SCALE
  <2> HIDE DEF d
  <2>1. Dcg(other) <= Dcg(one) /\ d \in Int BY <1>5, <1>6
  <2> QED BY <1>5, <1>6, <2>1, Scaled, ScaledApart
<1>8. (Dcg(other) * SCALE) \div d < (Dcg(one) * SCALE) \div d BY <1>5, <1>7, QuotientOrder
<1>9. (Dcg(other) * SCALE) \div d \in Nat /\ (Dcg(one) * SCALE) \div d \in Nat
  BY <1>5, <1>7, Quotient
<1> QED BY <1>2, <1>8, <1>9

\* What the sum over the queries computes.
LEMMA Totals ==
  ASSUME NEW f \in Seq(Nat)
  PROVE  \E s \in [0..Len(f) -> Nat] :
           s[0] = 0 /\ (\A n \in 1..Len(f) : s[n] = s[n - 1] + f[n]) /\ Total(f) = s[Len(f)]
<1> DEFINE N == Len(f)
           next == [n \in 1..N |-> [x \in Nat |-> x + f[n]]]
           Sums(s) == s = [n \in 0..N |-> IF n = 0 THEN 0 ELSE s[n - 1] + f[n]]
           sum == CHOOSE s : Sums(s)
<1>1. N \in Nat /\ 0 \in Nat OBVIOUS
<1>2. next \in [1..N -> [Nat -> Nat]]
  <2>1. \A n \in 1..N : \A x \in Nat : x + f[n] \in Nat OBVIOUS
  <2> QED BY <2>1
<1>3. PICK g : Recursive(g, N, Nat, 0, next)
  <2> HIDE DEF next, N
  <2> QED BY <1>1, <1>2, Recursion
<1>4. ASSUME NEW n \in 1..N PROVE g[n] = g[n - 1] + f[n]
  <2>1. n - 1 \in 0..N OBVIOUS
  <2>2. g[n - 1] \in Nat BY <1>3, <2>1 DEF Recursive
  <2> QED BY <1>3, <2>2 DEF Recursive
<1>5. Sums(g) BY <1>3, <1>4 DEF Recursive
<1>6. Sums(sum)
  <2> HIDE DEF Sums
  <2> QED BY <1>5, Zenon
<1>7. Total(f) = sum[N] BY Zenon DEF Total
<1> HIDE DEF sum
<1>8. sum[0] = 0 /\ \A n \in 1..N : sum[n] = sum[n - 1] + f[n] BY <1>6
<1>9. sum \in [0..N -> Nat]
  <2> DEFINE S == {n \in Nat : n \in 0..N => sum[n] \in Nat}
  <2>1. 0 \in S BY <1>8
  <2>2. ASSUME NEW n \in S \intersect Nat PROVE n + 1 \in S
    <3> SUFFICES ASSUME n + 1 \in 0..N PROVE sum[n + 1] \in Nat OBVIOUS
    <3>1. n + 1 \in 1..N /\ (n + 1) - 1 = n /\ n \in 0..N OBVIOUS
    <3>2. sum[n] \in Nat /\ f[n + 1] \in Nat BY <3>1
    <3> HIDE DEF N
    <3> QED BY <3>1, <3>2, <1>8
  <2>3. Nat \subseteq S
    <3> HIDE DEF S
    <3> QED BY <2>1, <2>2, SetInduction
  <2>4. \A n \in 0..N : sum[n] \in Nat BY <2>3
  <2> QED BY <2>4, <1>6
<1> QED BY <1>7, <1>8, <1>9

\* Smaller terms have a smaller sum, and equal ones where the sum is equal.
LEMMA TotalsOrder ==
  ASSUME NEW f \in Seq(Nat), NEW g \in Seq(Nat), Len(f) = Len(g), \A i \in 1..Len(f) : f[i] <= g[i]
  PROVE  /\ Total(f) \in Nat /\ Total(g) \in Nat /\ Total(f) <= Total(g)
         /\ Total(g) <= Total(f) => \A i \in 1..Len(f) : f[i] = g[i]
<1> DEFINE N == Len(f)
<1>0. \A i \in 1..N : f[i] \in Nat /\ g[i] \in Nat /\ f[i] <= g[i] OBVIOUS
<1>1. PICK s \in [0..N -> Nat] :
        s[0] = 0 /\ (\A n \in 1..N : s[n] = s[n - 1] + f[n]) /\ Total(f) = s[N]
  BY Totals
<1>2. PICK t \in [0..N -> Nat] :
        t[0] = 0 /\ (\A n \in 1..N : t[n] = t[n - 1] + g[n]) /\ Total(g) = t[N]
  BY Totals
<1> DEFINE S == {n \in Nat : n \in 0..N => s[n] <= t[n] /\ (t[n] <= s[n] => \A i \in 1..n : f[i] = g[i])}
<1>3. 0 \in S BY <1>1, <1>2
<1>4. ASSUME NEW n \in S \intersect Nat PROVE n + 1 \in S
  <2> SUFFICES ASSUME n + 1 \in 0..N
               PROVE  /\ s[n + 1] <= t[n + 1]
                      /\ t[n + 1] <= s[n + 1] => \A i \in 1..(n + 1) : f[i] = g[i]
    OBVIOUS
  <2>1. n + 1 \in 1..N /\ (n + 1) - 1 = n /\ n \in 0..N OBVIOUS
  <2>2. s[n] \in Nat /\ t[n] \in Nat /\ f[n + 1] \in Nat /\ g[n + 1] \in Nat /\ f[n + 1] <= g[n + 1]
    <3>1. s[n] \in Nat /\ t[n] \in Nat BY <1>1, <1>2, <2>1
    <3> QED BY <1>0, <2>1, <3>1
  <2>3. s[n] <= t[n] /\ (t[n] <= s[n] => \A i \in 1..n : f[i] = g[i]) BY <2>1
  <2>4. s[n + 1] = s[n] + f[n + 1] /\ t[n + 1] = t[n] + g[n + 1] BY <1>1, <1>2, <2>1
  <2>5. s[n + 1] <= t[n + 1] BY <2>2, <2>3, <2>4
  <2>6. ASSUME t[n + 1] <= s[n + 1], NEW i \in 1..(n + 1) PROVE f[i] = g[i]
    <3>1. t[n] <= s[n] /\ f[n + 1] = g[n + 1] BY <2>2, <2>3, <2>4, <2>6
    <3>2. CASE i = n + 1 BY <3>1, <3>2
    <3>3. CASE i # n + 1
      <4>1. i \in 1..n BY <3>3
      <4> QED BY <2>3, <3>1, <4>1
    <3> QED BY <3>2, <3>3
  <2> QED BY <2>5, <2>6
<1>5. N \in S
  <2>1. N \in Nat OBVIOUS
  <2> HIDE DEF S
  <2> QED BY <1>3, <1>4, <2>1, SetInduction
<1> QED BY <1>1, <1>2, <1>5

Query == [relevant : SUBSET Chunks, baseline : Seq(Chunks), candidate : Seq(Chunks)]
QueriesOk ==
  /\ queries \in Seq(Query)
  /\ \A i \in DOMAIN queries :
       /\ IsFiniteSet(queries[i].relevant)
       /\ IsInjective(queries[i].baseline) /\ IsInjective(queries[i].candidate)

\* Of two models, one of which places no relevant chunk lower: its sums are no less, and where
\* its ndcg is no more the other places none lower either.
LEMMA NoWorseOrder ==
  ASSUME QueriesOk, NEW one \in {"candidate", "baseline"}, NEW other \in {"candidate", "baseline"},
         NoWorse(one, other)
  PROVE  /\ \A key \in {"recall", "mrr", "ndcg"} : SumOver(one, key) >= SumOver(other, key)
         /\ SumOver(other, "ndcg") >= SumOver(one, "ndcg") => NoWorse(other, one)
<1> DEFINE a(i) == queries[i][one]
           b(i) == queries[i][other]
           r(i) == queries[i].relevant
           N == Len(queries)
           M(model, key) == [i \in 1..N |-> Metrics(queries[i][model], queries[i].relevant)[key]]
<1>0. N \in Nat /\ DOMAIN queries = 1..N BY DEF QueriesOk
<1>1. ASSUME NEW i \in 1..N
      PROVE  /\ Ranking(a(i)) /\ Ranking(b(i)) /\ IsFiniteSet(r(i))
             /\ Higher(a(i), b(i), r(i))
  <2>1. queries[i] \in Query BY <1>0 DEF QueriesOk
  <2>2. IsFiniteSet(r(i)) /\ IsInjective(queries[i].baseline) /\ IsInjective(queries[i].candidate)
    BY <1>0 DEF QueriesOk
  <2>3. Ranking(queries[i].baseline) /\ Ranking(queries[i].candidate) BY <2>1, <2>2 DEF Ranking, Query
  <2>4. \A c \in r(i) : Place(a(i), c) <= Place(b(i), c) BY <1>0 DEF NoWorse
  <2> QED BY <2>2, <2>3, <2>4 DEF Higher
<1>2. ASSUME NEW i \in 1..N
      PROVE  /\ Earlier(Hits(a(i), r(i)), Hits(b(i), r(i)))
             /\ Hits(a(i), r(i)) = Hits(b(i), r(i)) => Higher(b(i), a(i), r(i))
  <2> HIDE DEF a, b, r
  <2> QED BY <1>1, HigherIsEarlier
<1>3. ASSUME NEW key \in {"recall", "mrr", "ndcg"}
      PROVE  /\ M(one, key) \in Seq(Nat) /\ M(other, key) \in Seq(Nat)
             /\ Len(M(one, key)) = N /\ Len(M(other, key)) = N
             /\ \A i \in 1..N : M(other, key)[i] <= M(one, key)[i]
  <2>1. ASSUME NEW i \in 1..N
        PROVE  /\ Metrics(a(i), r(i))[key] \in Nat /\ Metrics(b(i), r(i))[key] \in Nat
               /\ Metrics(b(i), r(i))[key] <= Metrics(a(i), r(i))[key]
    <3> HIDE DEF a, b, r
    <3> QED BY <1>1, <1>2, MetricsOrder
  <2>2. \A i \in 1..N : M(one, key)[i] \in Nat /\ M(other, key)[i] \in Nat /\ M(other, key)[i] <= M(one, key)[i]
    BY <2>1
  <2>3. M(one, key) \in [1..N -> Nat] /\ M(other, key) \in [1..N -> Nat] BY <2>1
  <2> HIDE DEF M, N
  <2> QED BY <1>0, <2>2, <2>3
<1>4. \A key \in {"recall", "mrr", "ndcg"} : \A model : SumOver(model, key) = Total(M(model, key))
  BY DEF SumOver
<1>5. ASSUME NEW key \in {"recall", "mrr", "ndcg"}
      PROVE  /\ SumOver(one, key) >= SumOver(other, key)
             /\ SumOver(other, key) >= SumOver(one, key)
                  => \A i \in 1..N : M(other, key)[i] = M(one, key)[i]
  <2> HIDE DEF M
  <2>1. /\ Total(M(other, key)) \in Nat /\ Total(M(one, key)) \in Nat
        /\ Total(M(other, key)) <= Total(M(one, key))
        /\ Total(M(one, key)) <= Total(M(other, key)) => \A i \in 1..N : M(other, key)[i] = M(one, key)[i]
    <3> DEFINE f == M(other, key)
               g == M(one, key)
    <3>1. f \in Seq(Nat) /\ g \in Seq(Nat) /\ Len(f) = N /\ Len(g) = N /\ \A i \in 1..N : f[i] <= g[i]
      BY <1>3
    <3> HIDE DEF f, g, N
    <3>2. /\ Total(f) \in Nat /\ Total(g) \in Nat /\ Total(f) <= Total(g)
          /\ Total(g) <= Total(f) => \A i \in 1..N : f[i] = g[i]
      BY <3>1, TotalsOrder
    <3> QED BY <3>2 DEF f, g
  <2> QED BY <1>4, <2>1
<1>6. ASSUME SumOver(other, "ndcg") >= SumOver(one, "ndcg") PROVE NoWorse(other, one)
  <2>1. \A i \in 1..N : M(other, "ndcg")[i] = M(one, "ndcg")[i]
    <3> HIDE DEF M
    <3> QED BY <1>5, <1>6
  <2>2. ASSUME NEW i \in 1..N PROVE Higher(b(i), a(i), r(i))
    <3>1. CASE r(i) = {} BY <3>1 DEF Higher
    <3>2. CASE r(i) # {}
      <4>1. Metrics(b(i), r(i)).ndcg = Metrics(a(i), r(i)).ndcg BY <2>1
      <4>2. Metrics(b(i), r(i))["ndcg"] \in Nat
        <5> HIDE DEF a, b, r
        <5> QED BY <1>1, <1>2, MetricsOrder
      <4>3. Metrics(a(i), r(i)).ndcg <= Metrics(b(i), r(i)).ndcg
        <5> HIDE DEF a, b, r
        <5> QED BY <4>1, <4>2
      <4> HIDE DEF a, b, r
      <4>4. Hits(a(i), r(i)) = Hits(b(i), r(i)) BY <1>1, <1>2, <3>2, <4>3, NdcgTells
      <4> QED BY <1>2, <4>4
    <3> QED BY <3>1, <3>2
  <2> QED BY <1>0, <2>2 DEF NoWorse, Higher
<1> QED BY <1>5, <1>6

JudgingInv == QueriesOk /\ DecisionFollowsRanks

LEMMA JudgingStep == ASSUME JudgingInv, [DatasetsNext]_dvars PROVE JudgingInv'
<1>1. CASE Judge
  <2>1. queries' = queries /\ decision' = IF MeetsBaseline THEN "PASS" ELSE "FAIL" BY <1>1 DEF Judge
  <2>2. NoWorse("candidate", "baseline") => MeetsBaseline
    BY NoWorseOrder DEF MeetsBaseline, JudgingInv
  <2>3. MeetsBaseline /\ NoWorse("baseline", "candidate") => NoWorse("candidate", "baseline")
    BY NoWorseOrder DEF MeetsBaseline, JudgingInv
  <2>4. QueriesOk' BY <2>1 DEF JudgingInv, QueriesOk
  <2>5. /\ NoWorse("candidate", "baseline")' <=> NoWorse("candidate", "baseline")
        /\ NoWorse("baseline", "candidate")' <=> NoWorse("baseline", "candidate")
    BY <2>1 DEF NoWorse
  <2> QED BY <2>1, <2>2, <2>3, <2>4, <2>5 DEF JudgingInv, DecisionFollowsRanks
<1>2. ASSUME UNCHANGED <<queries, decision>> PROVE JudgingInv'
  BY <1>2 DEF JudgingInv, QueriesOk, DecisionFollowsRanks, NoWorse
<1>3. ASSUME NEW c \in Chunks, Delete(c) \/ Hide(ProjectOf[c]) PROVE JudgingInv'
  BY <1>2, <1>3 DEF Delete, Hide
<1>4. CASE ReadLog \/ ReadTexts BY <1>2, <1>4 DEF ReadLog, ReadTexts
<1>5. CASE ReadPool \/ Materialize BY <1>2, <1>5 DEF ReadPool, Materialize
<1>6. CASE UNCHANGED dvars BY <1>2, <1>6 DEF dvars
<1> QED BY <1>1, <1>3, <1>4, <1>5, <1>6 DEF DatasetsNext

\* For any evaluation set, with any number of queries, of relevant chunks and of ranked ones: a
\* candidate that places every relevant chunk as high as the active model passes, and one that
\* places none higher and some lower fails, whatever the averages and the rounding of the metrics.
THEOREM DecisionsFollowRanks == DatasetsSpec => []DecisionFollowsRanks
<1>1. DatasetsInit => JudgingInv
  <2>1. ASSUME DatasetsInit PROVE QueriesOk
    <3>1. CASE queries \in Evaluations BY <3>1, EvaluationsAssumption DEF QueriesOk, Query, Chunks
    <3>2. CASE queries = <<>> BY <3>2 DEF QueriesOk
    <3> QED BY <2>1, <3>1, <3>2 DEF DatasetsInit
  <2> QED BY <2>1 DEF DatasetsInit, JudgingInv, DecisionFollowsRanks
<1>2. JudgingInv => DecisionFollowsRanks BY DEF JudgingInv
<1> QED BY <1>1, <1>2, JudgingStep, PTL DEF DatasetsSpec
=============================================================================
