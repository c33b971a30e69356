---------------------- MODULE EmbeddingEndpointProofs ----------------------
(***************************************************************************)
(* Theorems about EmbeddingEndpoint, for any number of callers, slots,     *)
(* retries and models and any limits.                                      *)
(***************************************************************************)
EXTENDS EmbeddingEndpoint, TLAPS, FiniteSetTheorems, SequenceTheorems

-----------------------------------------------------------------------------
(* Requests and queues, apart from the variables: the grants work on       *)
(* values between two states.                                              *)

States == {"none", "waiting", "granted", "starting", "encoding"}
Holding == {"granted", "starting", "encoding"}
HoldersIn(s) == {r \in Requests : s[r] \in Holding}
AdmittedIn(s, l) == {r \in Requests : Lane(r) = l /\ s[r] \in {"waiting"} \union Holding}

Elements(q) == {q[i] : i \in DOMAIN q}
NoRepeat(q) == \A i, j \in DOMAIN q : q[i] = q[j] => i = j

LaneOK(q, s, l) ==
  NoRepeat(q) /\ Elements(q) = {r \in Requests : Lane(r) = l /\ s[r] = "waiting"}
Queues(q, s) ==
  /\ q \in [Managed -> Seq(Requests)] /\ s \in [Requests -> States]
  /\ \A l \in Managed : LaneOK(q[l], s, l)
  /\ \A r \in Requests : s[r] = "waiting" => Lane(r) \in Managed

\* `n` slots are in use, and they are the holders'.
SlotsOf(n, q, s) ==
  Queues(q, s) /\ n \in Nat /\ n = Cardinality(HoldersIn(s)) /\ n <= MaxConcurrency
LanesOf(a, s) ==
  /\ a \in [Managed -> Nat]
  /\ \A l \in Managed : a[l] = Cardinality(AdmittedIn(s, l)) /\ a[l] <= RequestLimit[l]

LEMMA RequestsFinite == IsFiniteSet(Requests)
<1>1. /\ MaxRetries["search"] \in Nat /\ MaxRetries["video_preprocess"] \in Nat
      /\ IsFiniteSet(Callers)
  BY SlotsAssumption DEF Managed
<1>2. Attempts = (1..(1 + MaxRetries["search"])) \union (1..(1 + MaxRetries["video_preprocess"]))
  BY DEF Attempts, Managed
<1>3. \A n \in Nat : IsFiniteSet(1..(1 + n))
  <2> SUFFICES ASSUME NEW n \in Nat PROVE IsFiniteSet(1..(1 + n)) OBVIOUS
  <2>1. 1 \in Int /\ 1 + n \in Int OBVIOUS
  <2> QED BY <2>1, FS_Interval
<1>4. IsFiniteSet(Attempts) BY <1>1, <1>2, <1>3, FS_Union
<1> QED BY <1>1, <1>4, FS_Product DEF Requests

LEMMA HoldersFinite ==
  ASSUME NEW s
  PROVE  /\ IsFiniteSet(HoldersIn(s)) /\ Cardinality(HoldersIn(s)) \in Nat
         /\ \A l : IsFiniteSet(AdmittedIn(s, l)) /\ Cardinality(AdmittedIn(s, l)) \in Nat
<1>1. HoldersIn(s) \subseteq Requests BY DEF HoldersIn
<1>2. \A l : AdmittedIn(s, l) \subseteq Requests BY DEF AdmittedIn
<1>3. IsFiniteSet(HoldersIn(s)) BY <1>1, RequestsFinite, FS_Subset
<1>4. \A l : IsFiniteSet(AdmittedIn(s, l)) BY <1>2, RequestsFinite, FS_Subset
<1> QED BY <1>3, <1>4, FS_CardinalityType

\* As many requests as places at the front of a queue.
LEMMA FrontCount ==
  ASSUME NEW q \in Seq(Requests), NoRepeat(q), NEW k \in 0..Len(q)
  PROVE  LET front == {q[i] : i \in 1..k}
         IN  IsFiniteSet(front) /\ Cardinality(front) = k /\ front \subseteq Elements(q)
<1> DEFINE front == {q[i] : i \in 1..k}
           f == [i \in 1..k |-> q[i]]
<1>1. DOMAIN q = 1..Len(q) /\ Len(q) \in Nat /\ k \in Nat BY LenProperties
<1>2. 1..k \subseteq DOMAIN q BY <1>1
<1>3. f \in Injection(1..k, front)
  BY <1>2 DEF NoRepeat, Injection, IsInjective
<1>4. f \in Surjection(1..k, front) BY DEF Surjection
<1>5. ExistsBijection(1..k, front) BY <1>3, <1>4 DEF Bijection, ExistsBijection
<1>6. Cardinality(front) = k
  <2> HIDE DEF front
  <2> QED BY <1>1, <1>5, FS_CountingElements
<1>7. IsFiniteSet(front)
  <2> HIDE DEF front
  <2> QED BY <1>1, <1>5, FS_NatBijection
<1>8. front \subseteq Elements(q) BY <1>2 DEF Elements
<1> QED BY <1>6, <1>7, <1>8

LEMMA AtEnd == \A a, b \in Nat : a <= b /\ ~(a + 1 <= b) => a = b
OBVIOUS

LEMMA Suffix ==
  ASSUME NEW q \in Seq(Requests), NoRepeat(q), NEW k \in 0..Len(q)
  PROVE  LET rest == SubSeq(q, k + 1, Len(q))
         IN  /\ rest \in Seq(Requests) /\ NoRepeat(rest)
             /\ Elements(rest) = Elements(q) \ {q[i] : i \in 1..k}
             /\ Len(rest) = Len(q) - k
             /\ k = Len(q) => rest = <<>>
<1> DEFINE rest == SubSeq(q, k + 1, Len(q))
<1>1. DOMAIN q = 1..Len(q) /\ Len(q) \in Nat /\ k \in Nat BY LenProperties
<1>2. \A i \in (k + 1)..Len(q) : q[i] \in Requests BY <1>1
<1>3. /\ rest \in Seq(Requests)
      /\ Len(rest) = IF k + 1 <= Len(q) THEN Len(q) - (k + 1) + 1 ELSE 0
      /\ \A i \in 1..(Len(q) - (k + 1) + 1) : rest[i] = q[k + 1 + i - 1]
  BY <1>1, <1>2, SubSeqProperties
<1>4. Len(rest) = Len(q) - k
  <2> HIDE DEF rest
  <2>1. CASE k + 1 <= Len(q)
    <3>1. Len(rest) = Len(q) - (k + 1) + 1 BY <1>3, <2>1
    <3> QED BY <1>1, <3>1
  <2>2. CASE ~(k + 1 <= Len(q))
    <3>1. Len(rest) = 0 BY <1>3, <2>2
    <3>2. k <= Len(q) BY <1>1
    <3>3. Len(q) \in Nat /\ k \in Nat BY <1>1
    <3>4. k = Len(q) BY <3>2, <3>3, <2>2, AtEnd, Zenon
    <3> QED BY <3>1, <3>3, <3>4
  <2> QED BY <2>1, <2>2
<1>5. DOMAIN rest = 1..(Len(q) - k) BY <1>3, <1>4, LenProperties
<1>6. \A i \in 1..(Len(q) - k) : rest[i] = q[k + i] /\ k + i \in DOMAIN q BY <1>1, <1>3
<1> HIDE DEF rest
<1>7. NoRepeat(rest)
  <2> SUFFICES ASSUME NEW i \in DOMAIN rest, NEW j \in DOMAIN rest, rest[i] = rest[j] PROVE i = j
    BY DEF NoRepeat
  <2>1. q[k + i] = q[k + j] /\ k + i \in DOMAIN q /\ k + j \in DOMAIN q BY <1>5, <1>6
  <2>2. k + i = k + j BY <2>1 DEF NoRepeat
  <2> QED BY <1>1, <1>5, <2>2
<1>8. Elements(rest) = Elements(q) \ {q[i] : i \in 1..k}
  <2>1. ASSUME NEW i \in DOMAIN rest PROVE rest[i] \in Elements(q) \ {q[j] : j \in 1..k}
    <3>1. rest[i] = q[k + i] /\ k + i \in DOMAIN q /\ k + i > k BY <1>1, <1>5, <1>6
    <3>2. \A j \in 1..k : j \in DOMAIN q /\ j # k + i BY <1>1, <3>1
    <3> QED BY <3>1, <3>2 DEF Elements, NoRepeat
  <2>2. ASSUME NEW j \in DOMAIN q, q[j] \notin {q[i] : i \in 1..k} PROVE q[j] \in Elements(rest)
    <3>1. j > k /\ j <= Len(q) /\ j \in Nat BY <1>1, <2>2
    <3>2. j - k \in DOMAIN rest /\ k + (j - k) = j BY <1>1, <1>5, <3>1
    <3> QED BY <1>5, <1>6, <3>2 DEF Elements
  <2> QED BY <2>1, <2>2 DEF Elements
<1>9. k = Len(q) => rest = <<>> BY <1>1, <1>3, <1>4, EmptySeq, SeqEqual
<1> QED BY <1>3, <1>4, <1>7, <1>8, <1>9 DEF rest

LEMMA Taken ==
  ASSUME NEW q \in Seq(Requests), NoRepeat(q), NEW r \in Elements(q)
  PROVE  LET left == WithoutRequest(q, r)
         IN  left \in Seq(Requests) /\ NoRepeat(left) /\ Elements(left) = Elements(q) \ {r}
<1> DEFINE k == CHOOSE k \in DOMAIN q : q[k] = r
           a == SubSeq(q, 1, k - 1)
           b == SubSeq(q, k + 1, Len(q))
           left == WithoutRequest(q, r)
<1>1. DOMAIN q = 1..Len(q) /\ Len(q) \in Nat BY LenProperties
<1>2. k \in DOMAIN q /\ q[k] = r BY DEF Elements
<1> HIDE DEF k
<1>3. k \in 1..Len(q) /\ k \in Nat BY <1>1, <1>2
<1>4. /\ a \in Seq(Requests) /\ Len(a) = k - 1
      /\ \A i \in 1..(k - 1) : a[i] = q[i]
  <2>1. \A i \in 1..(k - 1) : q[i] \in Requests BY <1>1, <1>3
  <2>2. /\ a \in Seq(Requests)
        /\ Len(a) = IF 1 <= k - 1 THEN (k - 1) - 1 + 1 ELSE 0
        /\ \A i \in 1..((k - 1) - 1 + 1) : a[i] = q[1 + i - 1]
    BY <1>3, <2>1, SubSeqProperties
  <2>3. \A i \in 1..(k - 1) : i \in 1..((k - 1) - 1 + 1) /\ 1 + i - 1 = i BY <1>3
  <2>4. \A i \in 1..(k - 1) : a[i] = q[i] BY <2>2, <2>3
  <2>5. Len(a) = k - 1 BY <1>3, <2>2
  <2> QED BY <2>2, <2>4, <2>5
<1>5. /\ b \in Seq(Requests) /\ Len(b) = Len(q) - k
      /\ \A i \in 1..(Len(q) - k) : b[i] = q[k + i]
  <2>1. \A i \in (k + 1)..Len(q) : q[i] \in Requests BY <1>1, <1>3
  <2>2. /\ b \in Seq(Requests)
        /\ Len(b) = IF k + 1 <= Len(q) THEN Len(q) - (k + 1) + 1 ELSE 0
        /\ \A i \in 1..(Len(q) - (k + 1) + 1) : b[i] = q[k + 1 + i - 1]
    BY <1>1, <1>3, <2>1, SubSeqProperties
  <2>3. \A i \in 1..(Len(q) - k) : i \in 1..(Len(q) - (k + 1) + 1) /\ k + 1 + i - 1 = k + i
    BY <1>1, <1>3
  <2>4. \A i \in 1..(Len(q) - k) : b[i] = q[k + i] BY <2>2, <2>3
  <2>5. Len(b) = Len(q) - k
    <3> HIDE DEF b
    <3>1. CASE k + 1 <= Len(q)
      <4>1. Len(b) = Len(q) - (k + 1) + 1 BY <2>2, <3>1
      <4> QED BY <1>1, <1>3, <4>1
    <3>2. CASE ~(k + 1 <= Len(q))
      <4>1. Len(b) = 0 BY <2>2, <3>2
      <4>2. k <= Len(q) /\ Len(q) \in Nat /\ k \in Nat BY <1>1, <1>3
      <4>3. k = Len(q) BY <4>2, <3>2, AtEnd, Zenon
      <4> QED BY <4>1, <4>2, <4>3
    <3> QED BY <3>1, <3>2
  <2> QED BY <2>2, <2>4, <2>5
<1>6. left = a \o b BY DEF WithoutRequest, k
<1> HIDE DEF a, b, left
<1>7. /\ left \in Seq(Requests) /\ Len(left) = Len(q) - 1
      /\ \A i \in 1..(Len(q) - 1) : left[i] = IF i <= k - 1 THEN q[i] ELSE q[i + 1]
  <2>1. /\ left \in Seq(Requests) /\ Len(left) = (k - 1) + (Len(q) - k)
        /\ \A i \in 1..((k - 1) + (Len(q) - k)) :
             left[i] = IF i <= k - 1 THEN a[i] ELSE b[i - (k - 1)]
    <3>1. Len(a) + Len(b) = (k - 1) + (Len(q) - k) BY <1>4, <1>5
    <3>2. /\ a \o b \in Seq(Requests) /\ Len(a \o b) = Len(a) + Len(b)
          /\ \A i \in 1..(Len(a) + Len(b)) :
               (a \o b)[i] = IF i <= Len(a) THEN a[i] ELSE b[i - Len(a)]
      BY <1>4, <1>5, ConcatProperties
    <3> QED BY <1>4, <1>6, <3>1, <3>2
  <2>2. (k - 1) + (Len(q) - k) = Len(q) - 1 BY <1>1, <1>3
  <2>3. ASSUME NEW i \in 1..(Len(q) - 1)
        PROVE  left[i] = IF i <= k - 1 THEN q[i] ELSE q[i + 1]
    <3>1. CASE i <= k - 1 BY <1>3, <1>4, <2>1, <2>2, <3>1
    <3>2. CASE ~(i <= k - 1)
      <4>1. i - (k - 1) \in 1..(Len(q) - k) /\ k + (i - (k - 1)) = i + 1 BY <1>1, <1>3, <3>2
      <4> QED BY <1>5, <2>1, <2>2, <3>2, <4>1
    <3> QED BY <3>1, <3>2
  <2> QED BY <2>1, <2>2, <2>3
<1>8. DOMAIN left = 1..(Len(q) - 1) BY <1>7, LenProperties
<1> DEFINE at(i) == IF i <= k - 1 THEN i ELSE i + 1
<1>9. \A i \in DOMAIN left : at(i) \in DOMAIN q /\ at(i) # k /\ left[i] = q[at(i)]
  BY <1>1, <1>3, <1>7, <1>8
<1>10. NoRepeat(left)
  <2> SUFFICES ASSUME NEW i \in DOMAIN left, NEW j \in DOMAIN left, left[i] = left[j] PROVE i = j
    BY DEF NoRepeat
  <2>1. at(i) = at(j) BY <1>9 DEF NoRepeat
  <2> QED BY <1>1, <1>3, <1>8, <2>1
<1>11. Elements(left) = Elements(q) \ {r}
  <2>1. ASSUME NEW i \in DOMAIN left PROVE left[i] \in Elements(q) \ {r}
    <3>1. q[at(i)] # q[k] BY <1>2, <1>9 DEF NoRepeat
    <3> QED BY <1>2, <1>9, <3>1 DEF Elements
  <2>2. ASSUME NEW j \in DOMAIN q, q[j] # r PROVE q[j] \in Elements(left)
    <3>1. j # k /\ j \in 1..Len(q) BY <1>1, <1>2, <2>2
    <3>2. CASE j <= k - 1
      <4>1. j \in DOMAIN left /\ at(j) = j BY <1>1, <1>3, <1>8, <3>1, <3>2
      <4>2. left[j] = q[j] BY <1>9, <4>1
      <4> QED BY <4>1, <4>2 DEF Elements
    <3>3. CASE ~(j <= k - 1)
      <4>1. j - 1 \in DOMAIN left /\ at(j - 1) = j BY <1>1, <1>3, <1>8, <3>1, <3>3
      <4>2. left[j - 1] = q[j] BY <1>9, <4>1
      <4> QED BY <4>1, <4>2 DEF Elements
    <3> QED BY <3>2, <3>3
  <2> QED BY <2>1, <2>2 DEF Elements
<1> QED BY <1>7, <1>10, <1>11 DEF left

LEMMA Appended ==
  ASSUME NEW q \in Seq(Requests), NoRepeat(q), NEW r \in Requests, r \notin Elements(q)
  PROVE  /\ Append(q, r) \in Seq(Requests) /\ NoRepeat(Append(q, r))
         /\ Elements(Append(q, r)) = Elements(q) \union {r}
<1> DEFINE a == Append(q, r)
<1>1. DOMAIN q = 1..Len(q) /\ Len(q) \in Nat BY LenProperties
<1>2. /\ a \in Seq(Requests) /\ Len(a) = Len(q) + 1 /\ a[Len(q) + 1] = r
      /\ \A i \in 1..Len(q) : a[i] = q[i]
  BY AppendProperties
<1>3. DOMAIN a = DOMAIN q \union {Len(q) + 1}
  <2>1. DOMAIN a = 1..(Len(q) + 1) BY <1>2, LenProperties
  <2> QED BY <1>1, <2>1
<1> HIDE DEF a
<1>4. \A i \in DOMAIN q : a[i] = q[i] /\ a[i] # r /\ i # Len(q) + 1 BY <1>1, <1>2 DEF Elements
<1>5. NoRepeat(a) BY <1>2, <1>3, <1>4 DEF NoRepeat
<1>6. Elements(a) = Elements(q) \union {r} BY <1>2, <1>3, <1>4 DEF Elements
<1> QED BY <1>2, <1>5, <1>6 DEF a

-----------------------------------------------------------------------------
(* The loop that grants slots.                                             *)

\* Who gets a slot from the loop is at the front of its lane, and the search lane is empty
\* before the other gets one.
Orderly(q, s) ==
  \A r \in Requests : r \notin HoldersIn(s) /\ r \in HoldersIn(st') =>
    \E l \in Managed : \E i \in DOMAIN q[l] :
      /\ r = q[l][i] /\ Lane(r) = l
      /\ \A j \in 1..i : q[l][j] \in HoldersIn(st')
      /\ l # "search" => queue'["search"] = <<>>

LEMMA GrantNumbers ==
  ASSUME NEW n, NEW q, NEW s, SlotsOf(n, q, s)
  PROVE  /\ \A l \in Managed :
              Granted(n, q, l) \in Nat /\ Granted(n, q, l) <= Len(q[l]) /\ Len(q[l]) \in Nat
         /\ n + Granted(n, q, "search") + Granted(n, q, "video_preprocess") <= MaxConcurrency
         /\ Granted(n, q, "video_preprocess") > 0 => Granted(n, q, "search") = Len(q["search"])
         /\ \/ n + Granted(n, q, "search") + Granted(n, q, "video_preprocess") = MaxConcurrency
            \/ \A l \in Managed : Granted(n, q, l) = Len(q[l])
         /\ n >= MaxConcurrency => \A l \in Managed : Granted(n, q, l) = 0
<1> DEFINE c == MaxConcurrency
           a == Len(q["search"])
           b == Len(q["video_preprocess"])
           m == c - n
           g == Granted(n, q, "search")
           h == Granted(n, q, "video_preprocess")
<1>1. /\ n \in Nat /\ n <= c /\ c \in Nat
      /\ q["search"] \in Seq(Requests) /\ q["video_preprocess"] \in Seq(Requests)
  BY SlotsAssumption DEF SlotsOf, Queues, Managed
<1>2. a \in Nat /\ b \in Nat BY <1>1, LenProperties
<1>3. g = Least(m, a) /\ h = Least(m - g, b) BY DEF Granted
<1> HIDE DEF a, b, c, g, h
<1>4. m \in Nat /\ c = n + m BY <1>1
<1> HIDE DEF m
<1>5. /\ g \in Nat /\ g <= a /\ h \in Nat /\ h <= b
      /\ n + g + h <= c
      /\ h > 0 => g = a
      /\ n + g + h = c \/ (g = a /\ h = b)
      /\ n >= c => g = 0 /\ h = 0
  <2>1. CASE m < a
    <3>1. g = m BY <1>3, <2>1 DEF Least
    <3>2. h = 0 BY <1>2, <1>3, <1>4, <3>1 DEF Least
    <3> QED BY <1>1, <1>2, <1>4, <2>1, <3>1, <3>2
  <2>2. CASE ~(m < a)
    <3>1. g = a /\ a <= m /\ m - a \in Nat BY <1>2, <1>3, <1>4, <2>2 DEF Least
    <3>2. CASE m - a < b
      <4>1. h = m - a BY <1>3, <3>1, <3>2 DEF Least
      <4>2. h \in Nat /\ h <= b /\ n + g + h = c BY <1>1, <1>2, <1>4, <3>1, <3>2, <4>1
      <4>3. n >= c => g = 0 /\ h = 0 BY <1>1, <1>2, <1>4, <3>1, <4>1
      <4> QED BY <1>1, <1>2, <3>1, <4>2, <4>3
    <3>3. CASE ~(m - a < b)
      <4>1. h = b /\ b <= m - a BY <1>2, <1>3, <1>4, <3>1, <3>3 DEF Least
      <4>2. n + g + h <= c BY <1>1, <1>2, <1>4, <3>1, <4>1
      <4>3. n >= c => g = 0 /\ h = 0 BY <1>1, <1>2, <1>4, <3>1, <4>1
      <4> QED BY <1>2, <3>1, <4>1, <4>2, <4>3
    <3> QED BY <3>2, <3>3
  <2> QED BY <2>1, <2>2
<1> QED BY <1>2, <1>5 DEF a, b, c, g, h, Managed

LEMMA LoopGrants ==
  ASSUME NEW n, NEW q, NEW s, SlotsOf(n, q, s), GrantWaiters(n, q, s)
  PROVE  /\ SlotsOf(running', queue', st') /\ NoIdleSlot' /\ Orderly(q, s)
         /\ \A l \in Managed : AdmittedIn(st', l) = AdmittedIn(s, l)
         /\ n >= MaxConcurrency => st' = s
<1> DEFINE take(l) == Granted(n, q, l)
           front(l) == {q[l][i] : i \in 1..take(l)}
           chosen == front("search") \union front("video_preprocess")
<1>1. /\ running' = n + take("search") + take("video_preprocess")
      /\ queue' = [l \in Managed |-> SubSeq(q[l], take(l) + 1, Len(q[l]))]
      /\ st' = [r \in Requests |-> IF r \in chosen THEN "granted" ELSE s[r]]
  <2>1. UNION {{q[l][i] : i \in 1..take(l)} : l \in Managed} = chosen BY DEF Managed
  <2> QED BY <2>1 DEF GrantWaiters
<1>2. /\ \A l \in Managed : take(l) \in Nat /\ take(l) <= Len(q[l]) /\ Len(q[l]) \in Nat
      /\ n + take("search") + take("video_preprocess") <= MaxConcurrency
      /\ take("video_preprocess") > 0 => take("search") = Len(q["search"])
      /\ \/ n + take("search") + take("video_preprocess") = MaxConcurrency
         \/ \A l \in Managed : take(l) = Len(q[l])
      /\ n >= MaxConcurrency => \A l \in Managed : take(l) = 0
  BY GrantNumbers
<1> HIDE DEF take
<1>3. ASSUME NEW l \in Managed
      PROVE  /\ q[l] \in Seq(Requests) /\ NoRepeat(q[l])
             /\ Elements(q[l]) = {r \in Requests : Lane(r) = l /\ s[r] = "waiting"}
  BY DEF SlotsOf, Queues, LaneOK
<1>4. ASSUME NEW l \in Managed
      PROVE  /\ IsFiniteSet(front(l)) /\ Cardinality(front(l)) = take(l)
             /\ front(l) \subseteq Elements(q[l])
  <2>1. take(l) \in 0..Len(q[l]) BY <1>2
  <2> QED BY <1>3, <2>1, FrontCount
<1>5. ASSUME NEW l \in Managed
      PROVE  /\ queue'[l] \in Seq(Requests) /\ NoRepeat(queue'[l])
             /\ Elements(queue'[l]) = Elements(q[l]) \ front(l)
             /\ take(l) = Len(q[l]) => queue'[l] = <<>>
  <2>1. queue'[l] = SubSeq(q[l], take(l) + 1, Len(q[l])) BY <1>1
  <2>2. take(l) \in 0..Len(q[l]) BY <1>2
  <2> QED BY <1>3, <2>1, <2>2, Suffix
<1>6. /\ front("search") \subseteq {r \in Requests : Lane(r) = "search" /\ s[r] = "waiting"}
      /\ front("video_preprocess") \subseteq
           {r \in Requests : Lane(r) = "video_preprocess" /\ s[r] = "waiting"}
  <2>1. "search" \in Managed /\ "video_preprocess" \in Managed BY DEF Managed
  <2> QED BY <1>3, <1>4, <2>1
<1> HIDE DEF front
<1>7. /\ IsFiniteSet(chosen) /\ Cardinality(chosen) = take("search") + take("video_preprocess")
      /\ \A r \in chosen : r \in Requests /\ s[r] = "waiting"
  <2>1. "search" \in Managed /\ "video_preprocess" \in Managed BY DEF Managed
  <2>2. front("search") \intersect front("video_preprocess") = {} BY <1>6
  <2>3. Cardinality(front("search") \intersect front("video_preprocess")) = 0 BY <2>2, FS_EmptySet
  <2>4. /\ IsFiniteSet(front("search") \union front("video_preprocess"))
        /\ Cardinality(front("search") \union front("video_preprocess")) =
             Cardinality(front("search")) + Cardinality(front("video_preprocess"))
               - Cardinality(front("search") \intersect front("video_preprocess"))
    BY <1>4, <2>1, FS_Union
  <2>5. take("search") \in Nat /\ take("video_preprocess") \in Nat BY <1>2, <2>1
  <2> QED BY <1>4, <1>6, <2>1, <2>3, <2>4, <2>5
<1> HIDE DEF chosen
<1>8. HoldersIn(st') = HoldersIn(s) \union chosen /\ HoldersIn(s) \intersect chosen = {}
  BY <1>1, <1>7 DEF HoldersIn, Holding
<1>9. running' \in Nat /\ running' = Cardinality(HoldersIn(st')) /\ running' <= MaxConcurrency
  <2>1. /\ Cardinality(HoldersIn(st')) = Cardinality(HoldersIn(s)) + Cardinality(chosen)
             - Cardinality(HoldersIn(s) \intersect chosen)
    BY <1>7, <1>8, HoldersFinite, FS_Union
  <2>2. Cardinality(HoldersIn(s) \intersect chosen) = 0 BY <1>8, FS_EmptySet
  <2>3. n \in Nat /\ n = Cardinality(HoldersIn(s)) BY DEF SlotsOf
  <2>4. take("search") \in Nat /\ take("video_preprocess") \in Nat BY <1>2 DEF Managed
  <2> QED BY <1>1, <1>2, <1>7, <2>1, <2>2, <2>3, <2>4
<1>10. st' \in [Requests -> States] BY <1>1 DEF SlotsOf, Queues, States
<1>11. ASSUME NEW l \in Managed
       PROVE  Elements(queue'[l]) = {r \in Requests : Lane(r) = l /\ st'[r] = "waiting"}
  <2>1. {r \in Requests : Lane(r) = l /\ st'[r] = "waiting"}
          = {r \in Requests : Lane(r) = l /\ s[r] = "waiting"} \ chosen
    BY <1>1
  <2>2. {r \in Requests : Lane(r) = l /\ s[r] = "waiting"} \ chosen
          = {r \in Requests : Lane(r) = l /\ s[r] = "waiting"} \ front(l)
    BY <1>6 DEF Managed, chosen
  <2> QED BY <1>3, <1>5, <2>1, <2>2
<1>12. Queues(queue', st')
  <2>1. queue' \in [Managed -> Seq(Requests)] BY <1>1, <1>5
  <2>2. \A r \in Requests : st'[r] = "waiting" => Lane(r) \in Managed
    BY <1>1 DEF SlotsOf, Queues
  <2> QED BY <1>5, <1>10, <1>11, <2>1, <2>2 DEF Queues, LaneOK
<1>13. NoIdleSlot'
  <2>1. CASE n + take("search") + take("video_preprocess") = MaxConcurrency
    BY <1>1, <2>1 DEF NoIdleSlot
  <2>2. CASE \A l \in Managed : take(l) = Len(q[l])
    BY <1>5, <2>2 DEF NoIdleSlot, HasWaiters
  <2> QED BY <1>2, <2>1, <2>2
<1>14. Orderly(q, s)
  <2> SUFFICES ASSUME NEW r \in Requests, r \notin HoldersIn(s), r \in HoldersIn(st')
               PROVE  \E l \in Managed : \E i \in DOMAIN q[l] :
                        /\ r = q[l][i] /\ Lane(r) = l
                        /\ \A j \in 1..i : q[l][j] \in HoldersIn(st')
                        /\ l # "search" => queue'["search"] = <<>>
    BY DEF Orderly
  <2>1. r \in chosen BY <1>8
  <2>2. PICK l \in Managed : r \in front(l) BY <2>1 DEF chosen, Managed
  <2>3. PICK i \in 1..take(l) : r = q[l][i] BY <2>2 DEF front
  <2>4. DOMAIN q[l] = 1..Len(q[l]) /\ take(l) \in Nat /\ take(l) <= Len(q[l]) /\ Len(q[l]) \in Nat
    BY <1>2, <1>3, LenProperties
  <2>5. i \in DOMAIN q[l] BY <2>4
  <2>6. Lane(r) = l BY <1>3, <1>4, <2>2
  <2>7. \A j \in 1..i : q[l][j] \in HoldersIn(st')
    <3> SUFFICES ASSUME NEW j \in 1..i PROVE q[l][j] \in HoldersIn(st') OBVIOUS
    <3>1. j \in 1..take(l) BY <2>4
    <3>2. q[l][j] \in chosen BY <3>1 DEF front, chosen, Managed
    <3> QED BY <1>8, <3>2
  <2>8. l # "search" => queue'["search"] = <<>>
    <3> SUFFICES ASSUME l # "search" PROVE queue'["search"] = <<>> OBVIOUS
    <3>1. l = "video_preprocess" /\ "search" \in Managed BY DEF Managed
    <3>2. take("video_preprocess") > 0 BY <2>4, <3>1
    <3> QED BY <1>2, <1>5, <3>1, <3>2
  <2> QED BY <2>3, <2>5, <2>6, <2>7, <2>8
<1>15. \A l \in Managed : AdmittedIn(st', l) = AdmittedIn(s, l)
  BY <1>1, <1>7 DEF AdmittedIn, Holding
<1>16. n >= MaxConcurrency => st' = s
  <2> SUFFICES ASSUME n >= MaxConcurrency PROVE st' = s OBVIOUS
  <2>1. take("search") = 0 /\ take("video_preprocess") = 0 BY <1>2 DEF Managed
  <2>2. chosen = {} BY <2>1 DEF chosen, front
  <2>3. s \in [Requests -> States] BY DEF SlotsOf, Queues
  <2> QED BY <1>1, <2>2, <2>3
<1> QED BY <1>9, <1>12, <1>13, <1>14, <1>15, <1>16 DEF SlotsOf

-----------------------------------------------------------------------------
(* What the steps of a request do to slots, lanes and queues.              *)

SlotInv == SlotsOf(running, queue, st) /\ LanesOf(admitted, st) /\ NoIdleSlot

\* What ServesInOrder says of a step.
Serves ==
  \A r \in Requests :
    r \notin Holders /\ r \in Holders' =>
      /\ Lane(r) # "search" => queue'["search"] = <<>>
      /\ Lane(r) = "legacy" => ~HasWaiters
      /\ \A l \in Managed : \A i \in DOMAIN queue[l] :
           r = queue[l][i] => \A j \in 1..(i - 1) : queue[l][j] \in Holders'

LEMMA HoldersAre == Holders = HoldersIn(st) /\ Holders' = HoldersIn(st')
BY DEF Holders, HoldersIn, Holding

LEMMA QueuesTyped ==
  ASSUME SlotInv
  PROVE  /\ st \in [Requests -> States] /\ running \in Nat /\ running <= MaxConcurrency
         /\ MaxConcurrency \in Nat /\ queue \in [Managed -> Seq(Requests)]
         /\ \A l \in Managed :
              /\ queue[l] \in Seq(Requests) /\ NoRepeat(queue[l])
              /\ DOMAIN queue[l] = 1..Len(queue[l]) /\ Len(queue[l]) \in Nat
              /\ Elements(queue[l]) = {r \in Requests : Lane(r) = l /\ st[r] = "waiting"}
<1>1. \A l \in Managed : queue[l] \in Seq(Requests) BY DEF SlotInv, SlotsOf, Queues
<1>2. \A l \in Managed : DOMAIN queue[l] = 1..Len(queue[l]) /\ Len(queue[l]) \in Nat
  BY <1>1, LenProperties
<1> QED BY <1>1, <1>2, SlotsAssumption DEF SlotInv, SlotsOf, Queues, LaneOK

\* The order of a loop over the queues as they are is the order that is promised.
LEMMA OrderlyServes ==
  ASSUME SlotInv, NEW s, HoldersIn(s) \subseteq HoldersIn(st), Orderly(queue, s)
  PROVE  Serves
<1> SUFFICES ASSUME NEW r \in Requests, r \notin HoldersIn(st), r \in HoldersIn(st')
             PROVE  /\ Lane(r) # "search" => queue'["search"] = <<>>
                    /\ Lane(r) = "legacy" => ~HasWaiters
                    /\ \A l \in Managed : \A i \in DOMAIN queue[l] :
                         r = queue[l][i] => \A j \in 1..(i - 1) : queue[l][j] \in HoldersIn(st')
  BY HoldersAre DEF Serves
<1>1. PICK l \in Managed : \E i \in DOMAIN queue[l] :
        /\ r = queue[l][i] /\ Lane(r) = l
        /\ \A j \in 1..i : queue[l][j] \in HoldersIn(st')
        /\ l # "search" => queue'["search"] = <<>>
  BY DEF Orderly
<1>2. PICK i \in DOMAIN queue[l] :
        /\ r = queue[l][i] /\ Lane(r) = l
        /\ \A j \in 1..i : queue[l][j] \in HoldersIn(st')
        /\ l # "search" => queue'["search"] = <<>>
  BY <1>1
<1>3. Lane(r) # "legacy" BY <1>2 DEF Managed
<1>4. ASSUME NEW k \in Managed, NEW n \in DOMAIN queue[k], r = queue[k][n], NEW j \in 1..(n - 1)
      PROVE  queue[k][j] \in HoldersIn(st')
  <2>1. r \in Elements(queue[k]) BY <1>4 DEF Elements
  <2>2. k = l BY <1>2, <2>1, QueuesTyped
  <2>3. n = i BY <1>2, <1>4, <2>2, QueuesTyped DEF NoRepeat
  <2>4. i \in Nat BY QueuesTyped
  <2>5. j \in 1..i BY <1>4, <2>3, <2>4
  <2> QED BY <1>2, <2>2, <2>5
<1> QED BY <1>2, <1>3, <1>4

\* Nobody new holds a slot.
LEMMA NobodyServed ==
  ASSUME HoldersIn(st') \subseteq HoldersIn(st) PROVE Serves
BY HoldersAre DEF Serves

LEMMA Leaving ==
  ASSUME LanesOf(admitted, st), st \in [Requests -> States], NEW r \in Requests, st[r] # "none",
         LeaveLane(r)
  PROVE  LanesOf(admitted', [st EXCEPT ![r] = "none"])
<1> DEFINE s == [st EXCEPT ![r] = "none"]
<1>1. \A l \in Managed : AdmittedIn(s, l) = AdmittedIn(st, l) \ {r}
  BY DEF AdmittedIn, Holding
<1>2. \A l \in Managed : r \in AdmittedIn(st, l) <=> Lane(r) = l
  BY DEF AdmittedIn, Holding, States
<1>3. \A l : IsFiniteSet(AdmittedIn(st, l)) BY HoldersFinite
<1>4. ASSUME NEW l \in Managed
      PROVE  Cardinality(AdmittedIn(s, l)) =
               IF Lane(r) = l THEN Cardinality(AdmittedIn(st, l)) - 1 ELSE Cardinality(AdmittedIn(st, l))
  <2>1. Cardinality(AdmittedIn(st, l) \ {r}) =
          IF r \in AdmittedIn(st, l) THEN Cardinality(AdmittedIn(st, l)) - 1
          ELSE Cardinality(AdmittedIn(st, l))
    BY <1>3, FS_RemoveElement
  <2> QED BY <1>1, <1>2, <2>1
<1>5. \A l \in Managed : Cardinality(AdmittedIn(s, l)) \in Nat BY HoldersFinite
<1> HIDE DEF s
<1>6. \A l \in Managed : /\ admitted[l] \in Nat /\ admitted[l] = Cardinality(AdmittedIn(st, l))
                         /\ admitted[l] <= RequestLimit[l] /\ RequestLimit[l] \in Nat
  BY SlotsAssumption DEF LanesOf
<1>7. \A l \in Managed : admitted'[l] = IF Lane(r) = l THEN admitted[l] - 1 ELSE admitted[l]
  BY DEF LeaveLane, LanesOf
<1>8. \A l \in Managed : /\ admitted'[l] = Cardinality(AdmittedIn(s, l))
                         /\ admitted'[l] <= RequestLimit[l]
  BY <1>4, <1>6, <1>7
<1>9. admitted' \in [Managed -> Nat]
  <2>1. DOMAIN admitted' = Managed /\ admitted' = [l \in Managed |-> admitted'[l]]
    BY DEF LeaveLane, LanesOf
  <2>2. \A l \in Managed : admitted'[l] \in Nat BY <1>5, <1>8
  <2> QED BY <2>1, <2>2
<1> QED BY <1>8, <1>9 DEF LanesOf, s

LEMMA Entering ==
  ASSUME LanesOf(admitted, st), st \in [Requests -> States], NEW r \in Requests, st[r] = "none",
         NEW x \in {"waiting", "starting"}, Lane(r) \in Managed,
         ~(admitted[Lane(r)] >= RequestLimit[Lane(r)]),
         admitted' = [admitted EXCEPT ![Lane(r)] = @ + 1]
  PROVE  LanesOf(admitted', [st EXCEPT ![r] = x])
<1> DEFINE s == [st EXCEPT ![r] = x]
<1>1. \A l \in Managed : AdmittedIn(s, l) = IF Lane(r) = l THEN AdmittedIn(st, l) \union {r}
                                            ELSE AdmittedIn(st, l)
  BY DEF AdmittedIn, Holding
<1>2. \A l \in Managed : r \notin AdmittedIn(st, l) BY DEF AdmittedIn, Holding
<1>3. \A l : IsFiniteSet(AdmittedIn(st, l)) BY HoldersFinite
<1>4. \A l \in Managed : Cardinality(AdmittedIn(st, l) \union {r}) = Cardinality(AdmittedIn(st, l)) + 1
  BY <1>2, <1>3, FS_AddElement
<1> HIDE DEF s
<1>5. \A l \in Managed : Cardinality(AdmittedIn(s, l)) =
        IF Lane(r) = l THEN Cardinality(AdmittedIn(st, l)) + 1 ELSE Cardinality(AdmittedIn(st, l))
  BY <1>1, <1>4
<1>6. \A l \in Managed : /\ admitted[l] \in Nat /\ admitted[l] = Cardinality(AdmittedIn(st, l))
                         /\ admitted[l] <= RequestLimit[l] /\ RequestLimit[l] \in Nat
  BY SlotsAssumption DEF LanesOf
<1>7. \A l \in Managed : admitted'[l] = IF Lane(r) = l THEN admitted[l] + 1 ELSE admitted[l]
  BY DEF LanesOf
<1>8. \A l \in Managed : /\ admitted'[l] \in Nat /\ admitted'[l] = Cardinality(AdmittedIn(s, l))
                         /\ admitted'[l] <= RequestLimit[l]
  BY <1>5, <1>6, <1>7
<1>9. admitted' \in [Managed -> Nat]
  <2>1. admitted' = [l \in Managed |-> admitted'[l]] BY DEF LanesOf
  <2> QED BY <1>8, <2>1
<1> QED BY <1>8, <1>9 DEF LanesOf, s

\* A slot is given back and the loop runs.
LEMMA Freeing ==
  ASSUME SlotInv, NEW r \in Requests, st[r] \in Holding, FreeSlot(r), LeaveLane(r)
  PROVE  SlotInv' /\ Serves
<1> DEFINE s == [st EXCEPT ![r] = "none"]
<1>1. st \in [Requests -> States] /\ running \in Nat BY QueuesTyped
<1>2. HoldersIn(s) = HoldersIn(st) \ {r} /\ r \in HoldersIn(st)
  BY <1>1 DEF HoldersIn, Holding
<1>3. Cardinality(HoldersIn(s)) = running - 1
  <2>1. Cardinality(HoldersIn(st) \ {r}) = Cardinality(HoldersIn(st)) - 1
    BY <1>2, HoldersFinite, FS_RemoveElement
  <2> QED BY <1>2, <2>1 DEF SlotInv, SlotsOf
<1>4. s \in [Requests -> States] BY <1>1 DEF States
<1>5. \A l \in Managed : {x \in Requests : Lane(x) = l /\ s[x] = "waiting"}
                           = {x \in Requests : Lane(x) = l /\ st[x] = "waiting"}
  BY <1>1 DEF Holding
<1>6. Queues(queue, s)
  <2>1. \A x \in Requests : s[x] = "waiting" => Lane(x) \in Managed
    BY <1>1 DEF SlotInv, SlotsOf, Queues
  <2> QED BY <1>4, <1>5, <2>1 DEF SlotInv, SlotsOf, Queues, LaneOK
<1>7. SlotsOf(running - 1, queue, s)
  <2>1. Cardinality(HoldersIn(s)) \in Nat BY HoldersFinite
  <2>2. running <= MaxConcurrency /\ MaxConcurrency \in Nat BY QueuesTyped
  <2> QED BY <1>1, <1>3, <1>6, <2>1, <2>2 DEF SlotsOf
<1>8. GrantWaiters(running - 1, queue, s) BY DEF FreeSlot
<1>9. st[r] # "none" BY DEF Holding
<1>10. LanesOf(admitted', s) BY <1>1, <1>9, Leaving DEF SlotInv
<1> HIDE DEF s
<1>11. /\ SlotsOf(running', queue', st') /\ NoIdleSlot' /\ Orderly(queue, s)
       /\ \A l \in Managed : AdmittedIn(st', l) = AdmittedIn(s, l)
  BY <1>7, <1>8, LoopGrants
<1>12. LanesOf(admitted', st') BY <1>10, <1>11 DEF LanesOf
<1>13. Serves BY <1>2, <1>11, OrderlyServes
<1> QED BY <1>11, <1>12, <1>13 DEF SlotInv

\* A slot is free and nobody waits.
LEMMA StartingNow ==
  ASSUME SlotInv, NEW r \in Requests, st[r] = "none", CanGrantImmediately,
         running' = running + 1, st' = [st EXCEPT ![r] = "starting"], queue' = queue
  PROVE  SlotsOf(running', queue', st') /\ NoIdleSlot' /\ Serves
<1>1. st \in [Requests -> States] /\ running \in Nat BY QueuesTyped
<1>2. HoldersIn(st') = HoldersIn(st) \union {r} /\ r \notin HoldersIn(st)
  BY <1>1 DEF HoldersIn, Holding
<1>3. Cardinality(HoldersIn(st')) = running + 1
  <2>1. Cardinality(HoldersIn(st) \union {r}) = Cardinality(HoldersIn(st)) + 1
    BY <1>2, HoldersFinite, FS_AddElement
  <2> QED BY <1>2, <2>1 DEF SlotInv, SlotsOf
<1>4. st' \in [Requests -> States] BY <1>1 DEF States
<1>5. \A l \in Managed : {x \in Requests : Lane(x) = l /\ st'[x] = "waiting"}
                           = {x \in Requests : Lane(x) = l /\ st[x] = "waiting"}
  BY <1>1
<1>6. Queues(queue', st')
  <2>1. \A x \in Requests : st'[x] = "waiting" => Lane(x) \in Managed
    BY <1>1 DEF SlotInv, SlotsOf, Queues
  <2> QED BY <1>4, <1>5, <2>1 DEF SlotInv, SlotsOf, Queues, LaneOK
<1>7. running' \in Nat /\ running' <= MaxConcurrency
  BY <1>1, QueuesTyped DEF CanGrantImmediately
<1>8. \A l \in Managed : queue[l] = <<>> BY DEF CanGrantImmediately, HasWaiters
<1>9. NoIdleSlot' BY <1>8 DEF NoIdleSlot, HasWaiters
<1>10. Serves
  <2>1. ~HasWaiters /\ queue'["search"] = <<>> BY <1>8 DEF HasWaiters, Managed
  <2>2. \A l \in Managed : DOMAIN queue[l] = {} BY <1>8
  <2> QED BY <2>1, <2>2 DEF Serves
<1> QED BY <1>3, <1>6, <1>7, <1>9, <1>10 DEF SlotsOf

\* No slot is free, or somebody waits: the loop has nothing to hand out.
LEMMA Queueing ==
  ASSUME SlotInv, NEW r \in Requests, st[r] = "none", Lane(r) \in Managed, ~CanGrantImmediately,
         GrantWaiters(running, [queue EXCEPT ![Lane(r)] = Append(@, r)], [st EXCEPT ![r] = "waiting"])
  PROVE  /\ SlotsOf(running', queue', st') /\ NoIdleSlot' /\ Serves
         /\ st' = [st EXCEPT ![r] = "waiting"]
<1> DEFINE s == [st EXCEPT ![r] = "waiting"]
           q == [queue EXCEPT ![Lane(r)] = Append(@, r)]
<1>1. st \in [Requests -> States] /\ running \in Nat BY QueuesTyped
<1>2. HoldersIn(s) = HoldersIn(st) BY <1>1 DEF HoldersIn, Holding
<1>3. s \in [Requests -> States] BY <1>1 DEF States
<1>4. \A x \in Requests : s[x] = "waiting" => Lane(x) \in Managed
  BY <1>1 DEF SlotInv, SlotsOf, Queues
<1>5. \A l \in Managed : {x \in Requests : Lane(x) = l /\ s[x] = "waiting"}
        = IF l = Lane(r) THEN {x \in Requests : Lane(x) = l /\ st[x] = "waiting"} \union {r}
          ELSE {x \in Requests : Lane(x) = l /\ st[x] = "waiting"}
  BY <1>1
<1>6. r \notin Elements(queue[Lane(r)]) BY QueuesTyped
<1>7. /\ Append(queue[Lane(r)], r) \in Seq(Requests) /\ NoRepeat(Append(queue[Lane(r)], r))
      /\ Elements(Append(queue[Lane(r)], r)) = Elements(queue[Lane(r)]) \union {r}
  BY <1>6, QueuesTyped, Appended
<1>8. q \in [Managed -> Seq(Requests)] /\ q[Lane(r)] = Append(queue[Lane(r)], r)
      /\ \A l \in Managed : l # Lane(r) => q[l] = queue[l]
  BY <1>7, QueuesTyped
<1> HIDE DEF s, q
<1>9. \A l \in Managed : LaneOK(q[l], s, l)
  BY <1>5, <1>7, <1>8, QueuesTyped DEF LaneOK
<1>10. SlotsOf(running, q, s)
  BY <1>1, <1>2, <1>3, <1>4, <1>8, <1>9 DEF SlotInv, SlotsOf, Queues
<1>11. running >= MaxConcurrency
  BY <1>1, QueuesTyped DEF CanGrantImmediately, SlotInv, NoIdleSlot
<1>12. GrantWaiters(running, q, s) BY DEF q, s
<1>13. SlotsOf(running', queue', st') /\ NoIdleSlot' /\ st' = s
  BY <1>10, <1>11, <1>12, LoopGrants
<1>14. Serves BY <1>2, <1>13, NobodyServed
<1> QED BY <1>13, <1>14 DEF s

\* A waiter leaves its queue.
LEMMA LeavingQueue ==
  ASSUME SlotInv, NEW r \in Requests, st[r] = "waiting",
         queue' = [queue EXCEPT ![Lane(r)] = WithoutRequest(@, r)],
         st' = [st EXCEPT ![r] = "none"], running' = running, LeaveLane(r)
  PROVE  SlotInv' /\ Serves
<1>1. st \in [Requests -> States] /\ Lane(r) \in Managed
  BY QueuesTyped DEF SlotInv, SlotsOf, Queues
<1>2. HoldersIn(st') = HoldersIn(st) BY <1>1 DEF HoldersIn, Holding
<1>3. st' \in [Requests -> States] BY <1>1 DEF States
<1>4. \A x \in Requests : st'[x] = "waiting" => Lane(x) \in Managed
  BY <1>1 DEF SlotInv, SlotsOf, Queues
<1>5. \A l \in Managed : {x \in Requests : Lane(x) = l /\ st'[x] = "waiting"}
        = IF l = Lane(r) THEN {x \in Requests : Lane(x) = l /\ st[x] = "waiting"} \ {r}
          ELSE {x \in Requests : Lane(x) = l /\ st[x] = "waiting"}
  BY <1>1
<1>6. r \in Elements(queue[Lane(r)]) BY <1>1, QueuesTyped
<1>7. LET left == WithoutRequest(queue[Lane(r)], r)
      IN  /\ left \in Seq(Requests) /\ NoRepeat(left)
          /\ Elements(left) = Elements(queue[Lane(r)]) \ {r}
  BY <1>1, <1>6, QueuesTyped, Taken
<1>8. /\ queue' \in [Managed -> Seq(Requests)]
      /\ queue'[Lane(r)] = WithoutRequest(queue[Lane(r)], r)
      /\ \A l \in Managed : l # Lane(r) => queue'[l] = queue[l]
  BY <1>1, <1>7, QueuesTyped
<1>9. \A l \in Managed : LaneOK(queue'[l], st', l)
  BY <1>5, <1>7, <1>8, QueuesTyped DEF LaneOK
<1>10. SlotsOf(running', queue', st')
  BY <1>2, <1>3, <1>4, <1>8, <1>9 DEF SlotInv, SlotsOf, Queues
<1>11. NoIdleSlot'
  <2>1. queue[Lane(r)] # <<>> BY <1>6 DEF Elements
  <2> QED BY <1>1, <2>1 DEF SlotInv, NoIdleSlot, HasWaiters
<1>12. LanesOf(admitted', st') BY <1>1, Leaving DEF SlotInv
<1>13. Serves BY <1>2, NobodyServed
<1> QED BY <1>10, <1>11, <1>12, <1>13 DEF SlotInv

\* A holder goes on.
LEMMA GoingOn ==
  ASSUME SlotInv, NEW r \in Requests, st[r] \in Holding, NEW x \in Holding,
         st' = [st EXCEPT ![r] = x], UNCHANGED <<running, admitted, queue>>
  PROVE  SlotInv' /\ Serves
<1>1. st \in [Requests -> States] BY QueuesTyped
<1>2. HoldersIn(st') = HoldersIn(st) BY <1>1 DEF HoldersIn
<1>3. st' \in [Requests -> States] BY <1>1 DEF States, Holding
<1>4. \A y \in Requests : st'[y] = "waiting" <=> st[y] = "waiting" BY <1>1 DEF Holding
<1>5. \A l \in Managed : AdmittedIn(st', l) = AdmittedIn(st, l) BY <1>1 DEF AdmittedIn
<1>6. SlotsOf(running', queue', st')
  <2>1. \A l \in Managed : {y \in Requests : Lane(y) = l /\ st'[y] = "waiting"}
                           = {y \in Requests : Lane(y) = l /\ st[y] = "waiting"}
    BY <1>4
  <2> QED BY <1>2, <1>3, <1>4, <2>1 DEF SlotInv, SlotsOf, Queues, LaneOK
<1>7. LanesOf(admitted', st') BY <1>5 DEF SlotInv, LanesOf
<1>8. NoIdleSlot' BY DEF SlotInv, NoIdleSlot, HasWaiters
<1>9. Serves BY <1>2, NobodyServed
<1> QED BY <1>6, <1>7, <1>8, <1>9 DEF SlotInv

-----------------------------------------------------------------------------
(* The steps.                                                              *)

LEMMA NewCall ==
  ASSUME NEW c \in Callers, NEW call \in Calls(c)
  PROVE  <<c, call.attempt>> \in Requests /\ st[<<c, call.attempt>>] = "none"
BY DEF Calls, Requests

LEMMA LaneOfCaller ==
  ASSUME NEW c \in Callers, NEW a
  PROVE  Lane(<<c, a>>) \in Managed <=> c \notin LegacyCallers
BY LanesAssumption DEF Lane, Managed, Callers

LEMMA SlotsStay ==
  ASSUME SlotInv, UNCHANGED <<running, admitted, queue, st>>
  PROVE  SlotInv' /\ Serves
<1>1. SlotInv' BY DEF SlotInv, NoIdleSlot, HasWaiters
<1> QED BY <1>1, NobodyServed

LEMMA LegacyStarts ==
  ASSUME SlotInv, NEW c \in Callers, SendLegacy(c)
  PROVE  SlotInv' /\ Serves
<1>1. PICK call \in Calls(c) :
        IF CanGrantImmediately
        THEN running' = running + 1 /\ st' = [st EXCEPT ![<<c, call.attempt>>] = "starting"]
        ELSE UNCHANGED <<running, st>>
  BY DEF SendLegacy
<1>2. UNCHANGED <<admitted, queue>> /\ c \in LegacyCallers BY DEF SendLegacy
<1>3. CASE CanGrantImmediately
  <2> DEFINE r == <<c, call.attempt>>
  <2>1. r \in Requests /\ st[r] = "none" BY NewCall
  <2>2. Lane(r) \notin Managed BY <1>2, LaneOfCaller
  <2> HIDE DEF r
  <2>3. running' = running + 1 /\ st' = [st EXCEPT ![r] = "starting"] BY <1>1, <1>3 DEF r
  <2>4. SlotsOf(running', queue', st') /\ NoIdleSlot' /\ Serves
    BY <1>2, <1>3, <2>1, <2>3, StartingNow
  <2>5. st \in [Requests -> States] BY QueuesTyped
  <2>6. \A l \in Managed : AdmittedIn(st', l) = AdmittedIn(st, l)
    BY <2>2, <2>3, <2>5 DEF AdmittedIn
  <2>7. LanesOf(admitted', st') BY <1>2, <2>6 DEF SlotInv, LanesOf
  <2> QED BY <2>4, <2>7 DEF SlotInv
<1>4. CASE ~CanGrantImmediately BY <1>1, <1>2, <1>4, SlotsStay
<1> QED BY <1>3, <1>4

LEMMA ManagedEnters ==
  ASSUME SlotInv, NEW c \in Callers, SendManaged(c)
  PROVE  SlotInv' /\ Serves
<1>1. c \notin LegacyCallers BY DEF SendManaged
<1>2. PICK call \in Calls(c) :
        IF admitted[Lane(<<c, call.attempt>>)] >= RequestLimit[Lane(<<c, call.attempt>>)]
        THEN UNCHANGED <<running, admitted, queue, st>>
        ELSE /\ admitted' = [admitted EXCEPT ![Lane(<<c, call.attempt>>)] = @ + 1]
             /\ AcquireSlot(<<c, call.attempt>>)
  BY DEF SendManaged
<1> DEFINE r == <<c, call.attempt>>
<1>3. r \in Requests /\ st[r] = "none" BY NewCall
<1>4. Lane(r) \in Managed BY <1>1, LaneOfCaller
<1>5. IF admitted[Lane(r)] >= RequestLimit[Lane(r)]
      THEN UNCHANGED <<running, admitted, queue, st>>
      ELSE admitted' = [admitted EXCEPT ![Lane(r)] = @ + 1] /\ AcquireSlot(r)
  BY <1>2
<1> HIDE DEF r
<1>6. st \in [Requests -> States] BY QueuesTyped
<1>7. CASE admitted[Lane(r)] >= RequestLimit[Lane(r)] BY <1>5, <1>7, SlotsStay
<1>8. CASE ~(admitted[Lane(r)] >= RequestLimit[Lane(r)])
  <2>1. admitted' = [admitted EXCEPT ![Lane(r)] = @ + 1] /\ AcquireSlot(r) BY <1>5, <1>8
  <2>2. ASSUME NEW x \in {"waiting", "starting"} PROVE LanesOf(admitted', [st EXCEPT ![r] = x])
    BY <1>3, <1>4, <1>6, <1>8, <2>1, Entering DEF SlotInv
  <2>3. CASE CanGrantImmediately
    <3>1. /\ running' = running + 1 /\ st' = [st EXCEPT ![r] = "starting"] /\ queue' = queue
      BY <2>1, <2>3 DEF AcquireSlot
    <3>2. SlotsOf(running', queue', st') /\ NoIdleSlot' /\ Serves BY <1>3, <2>3, <3>1, StartingNow
    <3>3. LanesOf(admitted', st') BY <2>2, <3>1
    <3> QED BY <3>2, <3>3 DEF SlotInv
  <2>4. CASE ~CanGrantImmediately
    <3>1. GrantWaiters(running, [queue EXCEPT ![Lane(r)] = Append(@, r)],
                       [st EXCEPT ![r] = "waiting"])
      BY <2>1, <2>4 DEF AcquireSlot
    <3>2. /\ SlotsOf(running', queue', st') /\ NoIdleSlot' /\ Serves
          /\ st' = [st EXCEPT ![r] = "waiting"]
      BY <1>3, <1>4, <2>4, <3>1, Queueing
    <3>3. LanesOf(admitted', st') BY <2>2, <3>2
    <3> QED BY <3>2, <3>3 DEF SlotInv
  <2> QED BY <2>3, <2>4
<1> QED BY <1>7, <1>8

LEMMA NothingHeld ==
  ASSUME NEW n, NEW a, NEW q, NEW s,
         n = 0, a = [l \in Managed |-> 0], q = [l \in Managed |-> <<>>],
         s = [r \in Requests |-> "none"]
  PROVE  SlotsOf(n, q, s) /\ LanesOf(a, s) /\ \A l \in Managed : q[l] = <<>>
<1>1. HoldersIn(s) = {} BY DEF HoldersIn, Holding
<1>2. \A l : AdmittedIn(s, l) = {} BY DEF AdmittedIn, Holding
<1>3. Cardinality(HoldersIn(s)) = 0 BY <1>1, FS_EmptySet
<1>4. \A l : Cardinality(AdmittedIn(s, l)) = 0 BY <1>2, FS_EmptySet
<1>5. \A l \in Managed : q[l] = <<>> OBVIOUS
<1>6. q \in [Managed -> Seq(Requests)] /\ s \in [Requests -> States] BY DEF States
<1>7. \A l \in Managed : LaneOK(q[l], s, l) BY <1>5 DEF LaneOK, NoRepeat, Elements
<1>8. Queues(q, s) BY <1>6, <1>7 DEF Queues
<1>9. SlotsOf(n, q, s)
  <2>1. MaxConcurrency \in Nat BY SlotsAssumption
  <2> QED BY <1>3, <1>8, <2>1 DEF SlotsOf
<1>10. LanesOf(a, s)
  <2>1. \A l \in Managed : a[l] = 0 /\ RequestLimit[l] \in Nat BY SlotsAssumption
  <2> QED BY <1>4, <2>1 DEF LanesOf
<1> QED BY <1>5, <1>9, <1>10

LEMMA SlotsStart == Init => SlotInv
<1> SUFFICES ASSUME Init PROVE SlotInv OBVIOUS
<1>1. /\ running = 0 /\ admitted = [l \in Managed |-> 0] /\ queue = [l \in Managed |-> <<>>]
      /\ st = [r \in Requests |-> "none"]
  BY DEF Init
<1>2. SlotsOf(running, queue, st) /\ LanesOf(admitted, st) /\ \A l \in Managed : queue[l] = <<>>
  BY <1>1, NothingHeld
<1> QED BY <1>2 DEF SlotInv, NoIdleSlot, HasWaiters

LEMMA RestartClears == ASSUME Restart PROVE SlotInv' /\ Serves
<1>1. /\ running' = 0 /\ admitted' = [l \in Managed |-> 0] /\ queue' = [l \in Managed |-> <<>>]
      /\ st' = [r \in Requests |-> "none"]
  BY DEF Restart
<1>2. /\ SlotsOf(running', queue', st') /\ LanesOf(admitted', st')
      /\ \A l \in Managed : queue'[l] = <<>>
  BY <1>1, NothingHeld
<1>3. NoIdleSlot' BY <1>2 DEF NoIdleSlot, HasWaiters
<1>4. HoldersIn(st') = {} BY <1>1 DEF HoldersIn, Holding
<1>5. Serves BY <1>4, NobodyServed
<1> QED BY <1>2, <1>3, <1>5 DEF SlotInv

LEMMA RequestSteps ==
  ASSUME SlotInv, NEW r \in Requests,
         Resume(r) \/ Withdraw(r) \/ CancelInference(r) \/ LookUp(r) \/ Encode(r)
  PROVE  SlotInv' /\ Serves
<1>1. CASE Resume(r)
  <2>1. /\ st[r] \in Holding /\ st' = [st EXCEPT ![r] = "starting"]
        /\ UNCHANGED <<running, admitted, queue>>
    BY <1>1 DEF Resume, Holding
  <2>2. "starting" \in Holding BY DEF Holding
  <2> QED BY <2>1, <2>2, GoingOn
<1>2. CASE Withdraw(r)
  <2>1. CASE st[r] = "waiting"
    <3>1. /\ queue' = [queue EXCEPT ![Lane(r)] = WithoutRequest(@, r)]
          /\ st' = [st EXCEPT ![r] = "none"] /\ running' = running /\ LeaveLane(r)
      BY <1>2, <2>1 DEF Withdraw
    <3> QED BY <2>1, <3>1, LeavingQueue
  <2>2. CASE st[r] # "waiting"
    <3>1. st[r] \in Holding /\ FreeSlot(r) /\ LeaveLane(r)
      BY <1>2, <2>2 DEF Withdraw, Holding
    <3> QED BY <3>1, Freeing
  <2> QED BY <2>1, <2>2
<1>3. CASE CancelInference(r) BY <1>3, SlotsStay DEF CancelInference
<1>4. CASE LookUp(r)
  <2>1. st[r] \in Holding BY <1>4 DEF LookUp, Holding
  <2>2. CASE st' = [st EXCEPT ![r] = "encoding"] /\ UNCHANGED <<running, admitted, queue>>
    <3>1. "encoding" \in Holding BY DEF Holding
    <3> QED BY <2>1, <2>2, <3>1, GoingOn
  <2>3. CASE FreeSlot(r) /\ LeaveLane(r) BY <2>1, <2>3, Freeing
  <2> QED BY <1>4, <2>2, <2>3 DEF LookUp, Finish
<1>5. CASE Encode(r)
  <2>1. st[r] \in Holding /\ FreeSlot(r) /\ LeaveLane(r) BY <1>5 DEF Encode, Finish, Holding
  <2> QED BY <2>1, Freeing
<1> QED BY <1>1, <1>2, <1>3, <1>4, <1>5

LEMMA SlotsStep == SlotInv /\ [Next]_vars => SlotInv' /\ Serves
<1> SUFFICES ASSUME SlotInv, [Next]_vars PROVE SlotInv' /\ Serves OBVIOUS
<1>1. CASE \E c \in Callers : Refuse(c) \/ ClientTimeout(c)
  <2>1. UNCHANGED <<running, admitted, queue, st>> BY <1>1 DEF Refuse, ClientTimeout, slots
  <2> QED BY <2>1, SlotsStay
<1>2. CASE \E c \in Callers : SendLegacy(c) BY <1>2, LegacyStarts
<1>3. CASE \E c \in Callers : SendManaged(c) BY <1>3, ManagedEnters
<1>4. CASE \E r \in Requests :
             Resume(r) \/ Withdraw(r) \/ CancelInference(r) \/ LookUp(r) \/ Encode(r)
  BY <1>4, RequestSteps
<1>5. CASE Boot \/ ReloadRead \/ ReloadReplace \/ ReloadFails \/ ReleaseMoves
  <2>1. UNCHANGED <<running, admitted, queue, st>>
    BY <1>5 DEF Boot, ReloadRead, ReloadReplace, ReloadFails, ReleaseMoves, slots
  <2> QED BY <2>1, SlotsStay
<1>6. CASE Restart BY <1>6, RestartClears
<1>7. CASE UNCHANGED vars
  <2>1. UNCHANGED <<running, admitted, queue, st>> BY <1>7 DEF vars
  <2> QED BY <2>1, SlotsStay
<1> QED BY <1>1, <1>2, <1>3, <1>4, <1>5, <1>6, <1>7 DEF Next

-----------------------------------------------------------------------------
(* The clients' and the reload's state.                                    *)

CallRecords == [phase : Phases, attempt : Attempts, model : Models \union {NoModel}]
Reloads == [by : {"none", "bootstrap", "startup", "startup read", "request read"}, row : Rows]

OthersTyped ==
  /\ gone \subseteq Requests
  /\ caller \in [Callers -> CallRecords]
  /\ up \in BOOLEAN
  /\ loaded \subseteq Models
  /\ synced \in BOOLEAN
  /\ row \in Rows
  /\ reload \in Reloads

LEMMA NoCallTyped == NoCall \in CallRecords
<1>1. /\ MaxRetries["search"] \in Nat /\ "search" \in Managed BY SlotsAssumption DEF Managed
<1>2. 1 \in 1..(1 + MaxRetries["search"]) BY <1>1
<1>3. 1 \in Attempts BY <1>1, <1>2 DEF Attempts
<1> QED BY <1>3 DEF NoCall, CallRecords, Phases

LEMMA AfterTyped ==
  ASSUME NEW c, NEW call \in CallRecords, NEW answer
  PROVE  After(c, call, answer) \in CallRecords
<1>1. [call EXCEPT !.phase = "backoff"] \in CallRecords BY DEF CallRecords, Phases
<1> QED BY <1>1, NoCallTyped DEF After

LEMMA CallTyped ==
  ASSUME NEW c \in Callers, NEW call \in Calls(c) PROVE call \in CallRecords
BY DEF Calls, CallRecords, Phases

LEMMA CallIsTyped ==
  ASSUME OthersTyped, NEW c \in Callers, NEW call \in CallRecords, CallIs(c, call)
  PROVE  caller' \in [Callers -> CallRecords]
BY DEF OthersTyped, CallIs

LEMMA AnswerTyped ==
  ASSUME OthersTyped, NEW r \in Requests, NEW answer, Answer(r, answer)
  PROVE  caller' \in [Callers -> CallRecords]
<1>1. r[1] \in Callers /\ caller[r[1]] \in CallRecords BY DEF Requests, OthersTyped
<1>2. After(r[1], caller[r[1]], answer) \in CallRecords BY <1>1, AfterTyped
<1>3. caller' = caller \/ caller' = [caller EXCEPT ![r[1]] = After(r[1], caller[r[1]], answer)]
  BY DEF Answer
<1> QED BY <1>2, <1>3 DEF OthersTyped

LEMMA NoRowTyped == NoRow \in Rows /\ FirstRow \in Rows
BY ModelsAssumption DEF NoRow, FirstRow, Rows

LEMMA ClientSteps ==
  ASSUME OthersTyped, NEW c \in Callers,
         Refuse(c) \/ SendLegacy(c) \/ SendManaged(c) \/ ClientTimeout(c)
  PROVE  caller' \in [Callers -> CallRecords] /\ UNCHANGED <<gone, models>>
<1>1. caller[c] \in CallRecords BY DEF OthersTyped
<1>2. CASE Refuse(c)
  <2>1. PICK call \in Calls(c) : \E answer : CallIs(c, After(c, call, answer))
    BY <1>2 DEF Refuse
  <2>2. PICK answer : CallIs(c, After(c, call, answer)) BY <2>1
  <2>3. After(c, call, answer) \in CallRecords BY CallTyped, AfterTyped
  <2>4. UNCHANGED <<gone, models>> BY <1>2 DEF Refuse, slots
  <2> QED BY <2>2, <2>3, <2>4, CallIsTyped
<1>3. CASE SendLegacy(c) \/ SendManaged(c)
  <2>1. PICK call \in Calls(c) : CallIs(c, call) \/ CallIs(c, After(c, call, "503"))
    BY <1>3 DEF SendLegacy, SendManaged
  <2>2. call \in CallRecords /\ After(c, call, "503") \in CallRecords BY CallTyped, AfterTyped
  <2>3. UNCHANGED <<gone, models>> BY <1>3 DEF SendLegacy, SendManaged
  <2> QED BY <2>1, <2>2, <2>3, CallIsTyped
<1>4. CASE ClientTimeout(c)
  <2>1. CallIs(c, After(c, caller[c], "timeout")) /\ UNCHANGED <<gone, models>>
    BY <1>4 DEF ClientTimeout, slots
  <2>2. After(c, caller[c], "timeout") \in CallRecords BY <1>1, AfterTyped
  <2> QED BY <2>1, <2>2, CallIsTyped
<1> QED BY <1>2, <1>3, <1>4

LEMMA RequestAnswers ==
  ASSUME OthersTyped, NEW r \in Requests,
         Resume(r) \/ Withdraw(r) \/ CancelInference(r) \/ LookUp(r) \/ Encode(r)
  PROVE  caller' \in [Callers -> CallRecords] /\ gone' \subseteq Requests /\ UNCHANGED models
<1>1. ASSUME NEW answer, Finish(r, answer)
      PROVE  caller' \in [Callers -> CallRecords] /\ gone' \subseteq Requests /\ UNCHANGED models
  <2>1. Answer(r, IF r \in gone THEN "connection error" ELSE answer) BY <1>1 DEF Finish
  <2>2. caller' \in [Callers -> CallRecords] BY <2>1, AnswerTyped
  <2> QED BY <1>1, <2>2 DEF Finish, OthersTyped
<1>2. CASE Resume(r) \/ CancelInference(r)
  BY <1>2 DEF Resume, CancelInference, OthersTyped
<1>3. CASE Withdraw(r)
  <2>1. \E answer : Answer(r, answer) BY <1>3 DEF Withdraw
  <2>2. caller' \in [Callers -> CallRecords] BY <2>1, AnswerTyped
  <2> QED BY <1>3, <2>2 DEF Withdraw, OthersTyped
<1>4. CASE LookUp(r)
  <2>1. CASE UNCHANGED <<running, admitted, queue, gone, caller, models>>
    BY <2>1 DEF OthersTyped
  <2>2. CASE Finish(r, "503") BY <1>1, <2>2
  <2> QED BY <1>4, <2>1, <2>2 DEF LookUp
<1>5. CASE Encode(r)
  <2>1. \E answer : Finish(r, answer) BY <1>5 DEF Encode
  <2> QED BY <1>1, <2>1
<1> QED BY <1>2, <1>3, <1>4, <1>5

LEMMA RestartTyped ==
  ASSUME OthersTyped, Restart PROVE caller' \in [Callers -> CallRecords]
<1>1. caller' = [c \in Callers |-> IF caller[c].phase = "calling" THEN NoCall ELSE caller[c]]
  BY DEF Restart
<1>2. \A c \in Callers : caller[c] \in CallRecords BY DEF OthersTyped
<1> QED BY <1>1, <1>2, NoCallTyped

LEMMA TargetsAreModels ==
  ASSUME NEW r \in Rows PROVE Targets(r) \subseteq Models
BY ModelsAssumption DEF Rows, Targets, Named

LEMMA OthersStart == Init => OthersTyped
<1> SUFFICES ASSUME Init PROVE OthersTyped OBVIOUS
<1>1. caller \in [Callers -> CallRecords] BY NoCallTyped DEF Init
<1>2. row \in Rows BY NoRowTyped DEF Init
<1>3. reload \in Reloads BY NoRowTyped DEF Init, NoReload, Reloads
<1> QED BY <1>1, <1>2, <1>3 DEF Init, OthersTyped

LEMMA ReloadFields ==
  \A b, r, x : x = [by |-> b, row |-> r] =>
    /\ x.by = b /\ x.row = r
    /\ \A B, R : b \in B /\ r \in R => x \in [by : B, row : R]
OBVIOUS

LEMMA ModelSteps ==
  ASSUME OthersTyped, Boot \/ ReloadRead \/ ReloadReplace \/ ReloadFails \/ Restart \/ ReleaseMoves
  PROVE  OthersTyped'
<1>1. row \in Rows /\ reload \in Reloads BY DEF OthersTyped
<1>2. NoReload \in Reloads BY NoRowTyped DEF NoReload, Reloads
<1>3. reload.row \in Rows BY <1>1 DEF Reloads
<1>4. CASE Boot
  <2>1. loaded' \subseteq Models BY <1>4, ModelsAssumption DEF Boot
  <2>2. reload' \in Reloads BY <1>1, <1>4 DEF Boot, Reloads
  <2> QED BY <1>4, <2>1, <2>2 DEF Boot, OthersTyped, slots
<1>5. CASE ReloadRead
  <2>1. \/ reload' = [by |-> "startup read", row |-> row]
        \/ reload' = [by |-> "request read", row |-> row]
    BY <1>5, Zenon DEF ReloadRead
  <2>2. reload' \in Reloads
    <3>1. PICK b : b \in {"startup read", "request read"} /\ reload' = [by |-> b, row |-> row]
      BY <2>1, Zenon
    <3> QED BY <1>1, <3>1, ReloadFields, Zenon DEF Reloads
  <2> QED BY <1>5, <2>2 DEF ReloadRead, OthersTyped, slots
<1>6. CASE ReloadReplace
  <2>1. loaded' \subseteq Models BY <1>3, <1>6, TargetsAreModels DEF ReloadReplace
  <2> QED BY <1>2, <1>6, <2>1 DEF ReloadReplace, ReloadEnds, OthersTyped, slots
<1>7. CASE ReloadFails BY <1>2, <1>7 DEF ReloadFails, ReloadEnds, OthersTyped, slots
<1>8. CASE Restart
  <2>1. [NoReload EXCEPT !.by = "bootstrap"] \in Reloads BY <1>2 DEF Reloads
  <2>2. caller' \in [Callers -> CallRecords] BY <1>8, RestartTyped
  <2> QED BY <1>8, <2>1, <2>2 DEF Restart, OthersTyped
<1>9. CASE ReleaseMoves
  <2>1. row' \in Rows
    <3>1. ASSUME NEW m \in Models PROVE [row EXCEPT !.candidate = m] \in Rows BY <1>1 DEF Rows
    <3>2. [active |-> row.candidate, previous |-> row.active, candidate |-> NoModel] \in Rows
      BY <1>1 DEF Rows
    <3>3. [NoRow EXCEPT !.active = row.previous] \in Rows BY <1>1, NoRowTyped DEF Rows
    <3> QED BY <1>9, <3>1, <3>2, <3>3 DEF ReleaseMoves
  <2> QED BY <1>9, <2>1 DEF ReleaseMoves, OthersTyped, slots
<1> QED BY <1>4, <1>5, <1>6, <1>7, <1>8, <1>9

LEMMA OthersStep == OthersTyped /\ [Next]_vars => OthersTyped'
<1> SUFFICES ASSUME OthersTyped, [Next]_vars PROVE OthersTyped' OBVIOUS
<1>1. CASE \E c \in Callers : Refuse(c) \/ SendLegacy(c) \/ SendManaged(c) \/ ClientTimeout(c)
  <2>1. caller' \in [Callers -> CallRecords] /\ UNCHANGED <<gone, models>> BY <1>1, ClientSteps
  <2> QED BY <2>1 DEF OthersTyped, models
<1>2. CASE \E r \in Requests :
             Resume(r) \/ Withdraw(r) \/ CancelInference(r) \/ LookUp(r) \/ Encode(r)
  <2>1. caller' \in [Callers -> CallRecords] /\ gone' \subseteq Requests /\ UNCHANGED models
    BY <1>2, RequestAnswers
  <2> QED BY <2>1 DEF OthersTyped, models
<1>3. CASE Boot \/ ReloadRead \/ ReloadReplace \/ ReloadFails \/ Restart \/ ReleaseMoves
  BY <1>3, ModelSteps
<1>4. CASE UNCHANGED vars BY <1>4 DEF vars, OthersTyped
<1> QED BY <1>1, <1>2, <1>3, <1>4 DEF Next

-----------------------------------------------------------------------------
(* Slots and order.                                                        *)

LEMMA SlotsAreConservedNow == SlotInv /\ OthersTyped => SlotsConserved
<1> SUFFICES ASSUME SlotInv, OthersTyped PROVE SlotsConserved OBVIOUS
<1>1. TypeOK
  BY DEF TypeOK, SlotInv, SlotsOf, LanesOf, Queues, States, OthersTyped, CallRecords, Reloads
<1>2. SlotsAccounted BY HoldersAre DEF SlotsAccounted, SlotInv, SlotsOf
<1>3. LanesAccounted
  <2>1. \A l \in Managed : Admitted(l) = AdmittedIn(st, l) BY DEF Admitted, AdmittedIn, Holding
  <2> QED BY <2>1 DEF LanesAccounted, SlotInv, LanesOf
<1>4. QueuesAreWaiting
  <2>1. \A l \in Managed : Waiting(l) = Elements(queue[l]) BY DEF Waiting, Elements
  <2> QED BY <2>1, QueuesTyped DEF QueuesAreWaiting, NoRepeat
<1> QED BY <1>1, <1>2, <1>3, <1>4 DEF SlotsConserved, SlotInv

\* Admission control conserves what it hands out: in every state, slots in use and places in
\* the lanes are exactly those of the requests that hold them, the queues hold exactly the
\* waiters, each once, and no slot is idle while somebody waits.
THEOREM SlotsAreConserved == Spec => []SlotsConserved
<1>1. Init => SlotInv /\ OthersTyped BY SlotsStart, OthersStart
<1>2. (SlotInv /\ OthersTyped) /\ [Next]_vars => (SlotInv /\ OthersTyped)'
  BY SlotsStep, OthersStep
<1> QED BY <1>1, <1>2, SlotsAreConservedNow, PTL DEF Spec

\* No step serves a video or legacy request past a waiting search request, a legacy request
\* past any waiter, or anybody past an earlier one of its lane.
THEOREM OrderIsKept == Spec => ServesInOrder
<1>1. SlotInv /\ [Next]_vars =>
        [\A r \in Requests :
           r \notin Holders /\ r \in Holders' =>
             /\ Lane(r) # "search" => queue'["search"] = <<>>
             /\ Lane(r) = "legacy" => ~HasWaiters
             /\ \A l \in Managed : \A i \in DOMAIN queue[l] :
                  r = queue[l][i] => \A j \in 1..(i - 1) : queue[l][j] \in Holders']_vars
  BY SlotsStep DEF Serves
<1>2. SlotInv /\ [Next]_vars => SlotInv' BY SlotsStep
<1> QED BY <1>1, <1>2, SlotsStart, PTL DEF Spec, ServesInOrder

-----------------------------------------------------------------------------
(* The model that is served.                                               *)

Reading == reload.by \in {"startup read", "request read"}

\* Since the reload in progress read the row, the row has at most gone back to the release
\* before, whose model was loaded: the reload keeps it.
ReadIsFresh ==
  Reading =>
    /\ (row = NoRow) = (reload.row = NoRow)
    /\ row.previous \in {reload.row.previous, NoModel}
    /\ \/ Active(row) = Active(reload.row)
       \/ Active(row) \in loaded \intersect Targets(reload.row)

ServingInv ==
  /\ OthersTyped
  /\ row = NoRow \/ row.active \in Models
  /\ ~up => ~synced
  /\ reload.by \in {"bootstrap", "startup", "startup read"} => ~up
  /\ reload.by = "request read" => up
  /\ ReadIsFresh
  /\ ActiveIsServed

LEMMA ServingStart == Init => ServingInv
<1> SUFFICES ASSUME Init PROVE ServingInv OBVIOUS
<1>1. row = NoRow \/ row.active \in Models
  BY ModelsAssumption DEF Init, FirstRow, NoRow
<1>2. reload.by = "bootstrap" BY DEF Init, NoReload
<1> QED BY <1>1, <1>2, OthersStart DEF Init, ServingInv, ReadIsFresh, Reading, ActiveIsServed

LEMMA ServingStay == ASSUME ServingInv, OthersTyped', UNCHANGED models PROVE ServingInv'
BY DEF ServingInv, ReadIsFresh, Reading, ActiveIsServed, Active, models

LEMMA ReplaceServes == ASSUME ServingInv, OthersTyped', ReloadReplace PROVE ServingInv'
<1>1. Reading /\ row' = row /\ up' = TRUE /\ reload' = NoReload
  BY DEF ReloadReplace, ReloadEnds, Reading
<1>2. PICK new \in SUBSET Targets(reload.row) : CanReplace(new) /\ loaded' = new
  BY DEF ReloadReplace
<1>3. Active(row) \in loaded'
  <2>1. CASE Active(row) = Active(reload.row) BY <1>2, <2>1 DEF CanReplace
  <2>2. CASE Active(row) \in loaded \intersect Targets(reload.row) BY <1>2, <2>2 DEF CanReplace
  <2> QED BY <1>1, <2>1, <2>2 DEF ServingInv, ReadIsFresh
<1>4. ActiveIsServed' BY <1>1, <1>3 DEF ActiveIsServed, Active
<1>5. reload'.by = "none" BY <1>1 DEF NoReload
<1>6. ReadIsFresh' BY <1>5 DEF ReadIsFresh, Reading
<1> QED BY <1>1, <1>4, <1>5, <1>6 DEF ServingInv

LEMMA MoveServes == ASSUME ServingInv, OthersTyped', ReleaseMoves PROVE ServingInv'
<1>1. /\ row # NoRow /\ up /\ row.active \in Models /\ row \in Rows /\ loaded \subseteq Models
      /\ up' = up /\ loaded' = loaded /\ synced' = synced /\ reload' = reload
  BY DEF ReleaseMoves, ServingInv, OthersTyped
<1>2. NoModel \notin Models BY ModelsAssumption
<1>3. NoRow.active = NoModel BY DEF NoRow
<1>4. Active(row) = row.active BY <1>1 DEF Active
<1>5. CASE \E m \in Models \ Named(row) : row' = [row EXCEPT !.candidate = m]
  <2>1. row'.active = row.active /\ row'.previous = row.previous BY <1>1, <1>5 DEF Rows
  <2>2. row' # NoRow BY <1>1, <1>2, <1>3, <2>1
  <2>3. Active(row)' = Active(row) BY <1>4, <2>1, <2>2 DEF Active
  <2>4. ReadIsFresh'
    BY <1>1, <2>1, <2>2, <2>3 DEF ServingInv, ReadIsFresh, Reading, Active
  <2>5. ActiveIsServed' BY <1>1, <2>3 DEF ServingInv, ActiveIsServed
  <2> QED BY <1>1, <2>1, <2>4, <2>5 DEF ServingInv
<1>6. CASE /\ row.candidate \in loaded /\ reload = NoReload
           /\ row' = [active |-> row.candidate, previous |-> row.active, candidate |-> NoModel]
  <2>1. row'.active \in loaded /\ row'.active \in Models BY <1>1, <1>6
  <2>2. row' # NoRow BY <1>2, <1>3, <2>1
  <2>3. ActiveIsServed' BY <1>1, <2>1, <2>2 DEF ActiveIsServed, Active
  <2>4. reload'.by = "none" BY <1>1, <1>6 DEF NoReload
  <2>5. ReadIsFresh' BY <2>4 DEF ReadIsFresh, Reading
  <2> QED BY <1>1, <2>1, <2>3, <2>5 DEF ServingInv
<1>7. CASE row.previous \in loaded /\ row' = [NoRow EXCEPT !.active = row.previous]
  <2>1. row'.active = row.previous /\ row'.previous = NoModel BY <1>7 DEF NoRow
  <2>2. row'.active \in loaded /\ row'.active \in Models BY <1>1, <1>7, <2>1
  <2>3. row' # NoRow BY <1>2, <1>3, <2>2
  <2>4. Active(row)' = row.previous BY <2>1, <2>3 DEF Active
  <2>5. ActiveIsServed' BY <1>1, <1>7, <2>4 DEF ActiveIsServed
  <2>6. ReadIsFresh'
    <3> SUFFICES ASSUME Reading
                 PROVE  /\ reload.row # NoRow
                        /\ row.previous \in loaded \intersect Targets(reload.row)
      BY <1>1, <2>1, <2>3, <2>4 DEF ReadIsFresh, Reading, Targets
    <3>1. reload.row # NoRow /\ row.previous \in {reload.row.previous, NoModel}
      BY <1>1 DEF ServingInv, ReadIsFresh
    <3>2. row.previous = reload.row.previous /\ row.previous # NoModel BY <1>2, <2>1, <2>2, <3>1
    <3> QED BY <1>7, <3>1, <3>2 DEF Targets, Named
  <2> QED BY <1>1, <2>2, <2>5, <2>6 DEF ServingInv
<1> QED BY <1>5, <1>6, <1>7 DEF ReleaseMoves

LEMMA ServingStep == ServingInv /\ [Next]_vars => ServingInv'
<1> SUFFICES ASSUME ServingInv, [Next]_vars PROVE ServingInv' OBVIOUS
<1>1. OthersTyped /\ OthersTyped' BY OthersStep DEF ServingInv
<1>2. CASE \E c \in Callers : Refuse(c) \/ SendLegacy(c) \/ SendManaged(c) \/ ClientTimeout(c)
  <2>1. UNCHANGED models BY <1>1, <1>2, ClientSteps
  <2> QED BY <1>1, <2>1, ServingStay
<1>3. CASE \E r \in Requests :
             Resume(r) \/ Withdraw(r) \/ CancelInference(r) \/ LookUp(r) \/ Encode(r)
  <2>1. UNCHANGED models BY <1>1, <1>3, RequestAnswers
  <2> QED BY <1>1, <2>1, ServingStay
<1>4. CASE Boot
  <2>1. /\ ~up /\ up' = up /\ synced' = synced /\ row' = row BY <1>4 DEF Boot, ServingInv
  <2>2. reload'.by = "startup" BY <1>1, <1>4 DEF Boot, OthersTyped, Reloads
  <2> QED BY <1>1, <2>1, <2>2 DEF ServingInv, ReadIsFresh, Reading, ActiveIsServed
<1>5. CASE ReloadRead
  <2>0. \/ reload.by = "startup" /\ reload' = [by |-> "startup read", row |-> row]
        \/ up /\ reload' = [by |-> "request read", row |-> row]
    BY <1>5, Zenon DEF ReloadRead
  <2>1. up' = up /\ synced' = synced /\ row' = row /\ loaded' = loaded /\ reload'.row = row
    <3>1. up' = up /\ synced' = synced /\ row' = row /\ loaded' = loaded
      BY <1>5, Zenon DEF ReloadRead
    <3>2. reload'.row = row BY <2>0, ReloadFields, Zenon
    <3> QED BY <3>1, <3>2
  <2>2. \/ reload'.by = "startup read" /\ ~up
        \/ reload'.by = "request read" /\ up
    <3>1. reload.by = "startup" => ~up BY DEF ServingInv
    <3>2. CASE reload.by = "startup" /\ reload' = [by |-> "startup read", row |-> row]
      <4>1. reload'.by = "startup read" BY <3>2, ReloadFields, Zenon
      <4> QED BY <3>1, <3>2, <4>1, Zenon
    <3>3. CASE up /\ reload' = [by |-> "request read", row |-> row]
      <4>1. reload'.by = "request read" BY <3>3, ReloadFields, Zenon
      <4> QED BY <3>3, <4>1, Zenon
    <3> QED BY <2>0, <3>2, <3>3
  <2>3. ReadIsFresh' BY <2>1 DEF ReadIsFresh, Active
  <2>4. ActiveIsServed' BY <2>1 DEF ServingInv, ActiveIsServed, Active
  <2> QED BY <1>1, <2>1, <2>2, <2>3, <2>4 DEF ServingInv
<1>6. CASE ReloadReplace BY <1>1, <1>6, ReplaceServes
<1>7. CASE ReloadFails
  <2>1. /\ Reading /\ up' = TRUE /\ synced' = synced /\ row' = row /\ loaded' = loaded
        /\ reload' = NoReload
    BY <1>7 DEF ReloadFails, ReloadEnds, Reading
  <2>2. reload'.by = "none" BY <2>1 DEF NoReload
  <2>3. ActiveIsServed'
    BY <2>1 DEF ServingInv, ActiveIsServed, Active, Reading
  <2> QED BY <1>1, <2>1, <2>2, <2>3 DEF ServingInv, ReadIsFresh, Reading
<1>8. CASE Restart
  <2>1. up' = FALSE /\ synced' = FALSE /\ row' = row BY <1>8 DEF Restart
  <2>2. reload'.by = "bootstrap" BY <1>8 DEF Restart, NoReload
  <2> QED BY <1>1, <2>1, <2>2 DEF ServingInv, ReadIsFresh, Reading, ActiveIsServed
<1>9. CASE ReleaseMoves BY <1>1, <1>9, MoveServes
<1>10. CASE UNCHANGED vars
  <2>1. UNCHANGED models BY <1>10 DEF vars, models
  <2> QED BY <1>1, <2>1, ServingStay
<1> QED BY <1>2, <1>3, <1>4, <1>5, <1>6, <1>7, <1>8, <1>9, <1>10 DEF Next

\* Once a reload has succeeded, the endpoint always holds the active model, whatever moves
\* the row between the read of a reload and the replacement of the registry.
THEOREM ActiveStaysServed == Spec => []ActiveIsServed
<1>1. ServingInv => ActiveIsServed BY DEF ServingInv
<1> QED BY <1>1, ServingStart, ServingStep, PTL DEF Spec
=============================================================================
