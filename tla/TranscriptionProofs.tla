------------------------ MODULE TranscriptionProofs ------------------------
(***************************************************************************)
(* Theorems about Transcription, for audios, parts and overlaps of any     *)
(* length, and any number of failures and crashes.                         *)
(***************************************************************************)
EXTENDS Transcription, TLAPS

-----------------------------------------------------------------------------
(* The plan.                                                               *)

\* A multiple of a part's length grows with its factor.
LEMMA Multiples ==
  ASSUME NEW i \in Nat, NEW j \in Nat, NEW d \in Nat, i <= j
  PROVE  i * d <= j * d /\ (d > 0 => i <= i * d)
<1>1. PICK k \in Nat : j = i + k
  <2>1. j - i \in Nat OBVIOUS
  <2> QED BY <2>1
<1>2. j * d = i * d + k * d BY <1>1
<1>3. k * d >= 0 /\ i * d \in Nat OBVIOUS
<1>4. d > 0 => i <= i * d
  <2> SUFFICES ASSUME d > 0 PROVE i <= i * d OBVIOUS
  <2>1. i * d = i + i * (d - 1) OBVIOUS
  <2>2. i * (d - 1) >= 0 OBVIOUS
  <2> QED BY <2>1, <2>2
<1> QED BY <1>2, <1>3, <1>4

\* The lengths a plan may have.
Lengths(d, o, t) == d \in Nat /\ o \in Nat /\ t \in Nat \ {0} /\ o < d

LEMMA PlanDomain ==
  ASSUME NEW d, NEW o, NEW t, Lengths(d, o, t), NEW i \in Nat
  PROVE  /\ i \in DOMAIN Plan(d, o, t) <=> i >= 1 /\ (i - 1) * d < t
         /\ i >= 1 => (i + 1 \in DOMAIN Plan(d, o, t) <=> i * d < t)
<1>1. DOMAIN Plan(d, o, t) = {j \in 1..t : IsPart(j, d, t)} BY DEF Plan
<1>2. ASSUME NEW j \in Nat, j >= 1, (j - 1) * d < t PROVE j \in 1..t
  <2>1. j - 1 <= (j - 1) * d
    <3>1. j - 1 \in Nat BY <1>2
    <3> QED BY <3>1, Multiples DEF Lengths
  <2>2. (j - 1) * d \in Nat BY <1>2 DEF Lengths
  <2> QED BY <1>2, <2>1, <2>2 DEF Lengths
<1>3. ASSUME NEW j \in Nat
      PROVE  j \in DOMAIN Plan(d, o, t) <=> j >= 1 /\ (j - 1) * d < t
  BY <1>1, <1>2 DEF IsPart
<1>4. i >= 1 => (i + 1 \in DOMAIN Plan(d, o, t) <=> i * d < t)
  <2>1. i + 1 \in Nat /\ i + 1 >= 1 /\ (i + 1) - 1 = i OBVIOUS
  <2> QED BY <1>3, <2>1
<1> QED BY <1>3, <1>4

\* The parts before a part are parts too.
LEMMA PlanIsDownward ==
  ASSUME NEW d, NEW o, NEW t, Lengths(d, o, t),
         NEW i \in Nat, NEW j \in Nat, 1 <= i, i <= j, j \in DOMAIN Plan(d, o, t)
  PROVE  i \in DOMAIN Plan(d, o, t)
<1>1. (j - 1) * d < t BY PlanDomain
<1>2. i - 1 \in Nat /\ j - 1 \in Nat /\ i - 1 <= j - 1 OBVIOUS
<1>3. (i - 1) * d <= (j - 1) * d BY <1>2, Multiples DEF Lengths
<1>4. (i - 1) * d \in Nat /\ (j - 1) * d \in Nat BY <1>2 DEF Lengths
<1>5. (i - 1) * d < t BY <1>1, <1>3, <1>4 DEF Lengths
<1> QED BY <1>5, PlanDomain

\* A part is as long as its setting and overlaps with the one before; only the last is shorter.
LEMMA PlanBounds ==
  ASSUME NEW d, NEW o, NEW t, Lengths(d, o, t), NEW i \in Nat, i \in DOMAIN Plan(d, o, t)
  PROVE  /\ Plan(d, o, t)[i].start = IF i = 1 THEN 0 ELSE (i - 1) * d - o
         /\ Plan(d, o, t)[i].end = IF i + 1 \in DOMAIN Plan(d, o, t) THEN i * d ELSE t
         /\ i >= 1 /\ (i > 1 => (i - 1) * d >= d)
<1>1. Plan(d, o, t)[i] = Part(i, d, o, t) /\ i >= 1 BY PlanDomain DEF Plan
<1>2. i + 1 \in DOMAIN Plan(d, o, t) <=> i * d < t BY <1>1, PlanDomain
<1>3. i * d \in Nat /\ (i - 1) * d \in Nat
  <2>1. i - 1 \in Nat BY <1>1
  <2> QED BY <2>1 DEF Lengths
<1>4. i > 1 => (i - 1) * d >= d
  <2> SUFFICES ASSUME i > 1 PROVE (i - 1) * d >= d OBVIOUS
  <2>1. i - 1 \in Nat /\ 1 <= i - 1 OBVIOUS
  <2>2. 1 * d <= (i - 1) * d BY <2>1, Multiples DEF Lengths
  <2> QED BY <2>2 DEF Lengths
<1>5. Plan(d, o, t)[i].start = IF i = 1 THEN 0 ELSE (i - 1) * d - o
  BY <1>1, <1>3, <1>4 DEF Part, Most, Lengths
<1>6. Plan(d, o, t)[i].end = IF i + 1 \in DOMAIN Plan(d, o, t) THEN i * d ELSE t
  BY <1>1, <1>2, <1>3 DEF Part, Least, Lengths
<1> QED BY <1>1, <1>4, <1>5, <1>6

-----------------------------------------------------------------------------
(* Ownership.                                                              *)

\* The bounds of what a part owns, twice.
LEMMA OwnershipBounds ==
  ASSUME NEW d, NEW o, NEW t, Lengths(d, o, t), NEW i \in Nat, i \in DOMAIN Plan(d, o, t)
  PROVE  /\ Lower(Plan(d, o, t), i) = IF i = 1 THEN 0 ELSE 2 * ((i - 1) * d) - o
         /\ Upper(Plan(d, o, t), i) = IF i + 1 \in DOMAIN Plan(d, o, t) THEN 2 * (i * d) - o ELSE 2 * t
<1> DEFINE P == Plan(d, o, t)
<1>1. i >= 1 /\ i * d \in Nat /\ (i - 1) * d \in Nat
  <2>1. i >= 1 BY PlanBounds
  <2>2. i - 1 \in Nat BY <2>1
  <2> QED BY <2>1, <2>2 DEF Lengths
<1>2. Lower(P, i) = IF i = 1 THEN 0 ELSE 2 * ((i - 1) * d) - o
  <2>1. CASE i = 1 BY <2>1 DEF Lower
  <2>2. CASE i # 1
    <3>1. i - 1 \in Nat /\ 1 <= i - 1 /\ i - 1 <= i /\ (i - 1) + 1 = i BY <1>1, <2>2
    <3>2. i - 1 \in DOMAIN P BY <3>1, PlanIsDownward
    <3>3. P[i - 1].end = (i - 1) * d BY <3>1, <3>2, PlanBounds
    <3>4. P[i].start = (i - 1) * d - o BY <2>2, PlanBounds
    <3> HIDE DEF P
    <3> QED BY <1>1, <2>2, <3>3, <3>4 DEF Lower, Lengths
  <2> QED BY <2>1, <2>2
<1>3. Upper(P, i) = IF i + 1 \in DOMAIN P THEN 2 * (i * d) - o ELSE 2 * t
  <2>1. CASE i + 1 \in DOMAIN P
    <3>1. i + 1 \in Nat /\ i + 1 # 1 /\ (i + 1) - 1 = i BY <1>1
    <3>2. P[i + 1].start = i * d - o BY <2>1, <3>1, PlanBounds
    <3>3. P[i].end = i * d BY <2>1, PlanBounds
    <3> HIDE DEF P
    <3> QED BY <1>1, <2>1, <3>2, <3>3 DEF Upper, Lengths
  <2>2. CASE i + 1 \notin DOMAIN P
    <3>1. P[i].end = t BY <2>2, PlanBounds
    <3> HIDE DEF P
    <3> QED BY <2>2, <3>1 DEF Upper
  <2> QED BY <2>1, <2>2
<1> QED BY <1>2, <1>3

\* A word of an audio of length t that is not longer than the overlap o.
WordIn(w, o, t) ==
  w.start \in Nat /\ w.end \in Nat /\ w.start < w.end /\ w.end <= t /\ w.end - w.start <= o

\* The part that owns a word contains it.
LEMMA OwnerContains ==
  ASSUME NEW d, NEW o, NEW t, Lengths(d, o, t), NEW i \in Nat, i \in DOMAIN Plan(d, o, t),
         NEW w, WordIn(w, o, t), Owns(Plan(d, o, t), i, w)
  PROVE  Plan(d, o, t)[i].start <= w.start /\ w.end <= Plan(d, o, t)[i].end
<1> DEFINE P == Plan(d, o, t)
<1>1. i >= 1 /\ i * d \in Nat /\ (i - 1) * d \in Nat /\ (i > 1 => (i - 1) * d >= d)
  <2>1. i >= 1 /\ (i > 1 => (i - 1) * d >= d) BY PlanBounds
  <2>2. i - 1 \in Nat BY <2>1
  <2> QED BY <2>1, <2>2 DEF Lengths
<1>2. Lower(P, i) <= w.start + w.end /\ w.start + w.end < Upper(P, i) BY DEF Owns
<1>3. P[i].start <= w.start
  <2>1. P[i].start = IF i = 1 THEN 0 ELSE (i - 1) * d - o BY PlanBounds
  <2>2. Lower(P, i) = IF i = 1 THEN 0 ELSE 2 * ((i - 1) * d) - o BY OwnershipBounds
  <2> HIDE DEF P
  <2> QED BY <1>1, <1>2, <2>1, <2>2 DEF WordIn, Lengths
<1>4. w.end <= P[i].end
  <2>1. P[i].end = IF i + 1 \in DOMAIN P THEN i * d ELSE t BY PlanBounds
  <2>2. Upper(P, i) = IF i + 1 \in DOMAIN P THEN 2 * (i * d) - o ELSE 2 * t BY OwnershipBounds
  <2> HIDE DEF P
  <2> QED BY <1>1, <1>2, <2>1, <2>2 DEF WordIn, Lengths
<1> QED BY <1>3, <1>4

\* Two parts do not own the same word.
LEMMA OwnerIsUnique ==
  ASSUME NEW d, NEW o, NEW t, Lengths(d, o, t), NEW w, WordIn(w, o, t),
         NEW i \in Nat, i \in DOMAIN Plan(d, o, t), Owns(Plan(d, o, t), i, w),
         NEW j \in Nat, j \in DOMAIN Plan(d, o, t), Owns(Plan(d, o, t), j, w)
  PROVE  i = j
<1>1. ASSUME NEW k \in Nat, k \in DOMAIN Plan(d, o, t), Owns(Plan(d, o, t), k, w),
             NEW l \in Nat, l \in DOMAIN Plan(d, o, t), Owns(Plan(d, o, t), l, w), k < l
      PROVE  FALSE
  <2>1. k >= 1 /\ l >= 1 BY <1>1, PlanBounds
  <2>2. k + 1 \in Nat /\ 1 <= k + 1 /\ k + 1 <= l BY <1>1, <2>1
  <2>3. k + 1 \in DOMAIN Plan(d, o, t) BY <1>1, <2>2, PlanIsDownward
  <2>4. Upper(Plan(d, o, t), k) = 2 * (k * d) - o BY <1>1, <2>3, OwnershipBounds
  <2>5. Lower(Plan(d, o, t), l) = 2 * ((l - 1) * d) - o BY <1>1, <2>1, OwnershipBounds
  <2>6. l - 1 \in Nat /\ k <= l - 1 BY <1>1, <2>1
  <2>7. k * d <= (l - 1) * d BY <2>6, Multiples DEF Lengths
  <2>8. k * d \in Nat /\ (l - 1) * d \in Nat BY <2>6 DEF Lengths
  <2>9. w.start + w.end < Upper(Plan(d, o, t), k) /\ Lower(Plan(d, o, t), l) <= w.start + w.end
    BY <1>1 DEF Owns
  <2> QED BY <2>4, <2>5, <2>7, <2>8, <2>9 DEF WordIn, Lengths
<1> QED BY <1>1

\* Division with a remainder.
LEMMA Division ==
  ASSUME NEW x \in Nat, NEW c \in Nat \ {0}
  PROVE  \E q \in Nat : q * c <= x /\ x < (q + 1) * c
<1>1. x = c * (x \div c) + (x % c) /\ x % c \in 0..(c - 1) /\ x \div c \in Int OBVIOUS
<1> DEFINE q == x \div c
<1> HIDE DEF q
<1>2. q \in Int /\ q * c <= x /\ x < q * c + c BY <1>1 DEF q
<1>3. (q + 1) * c = q * c + c BY <1>2
<1>4. q \in Nat
  <2> SUFFICES ASSUME q <= -1 PROVE FALSE BY <1>2
  <2>1. -1 - q \in Nat BY <1>2
  <2>2. (-1 - q) * c \in Nat BY <2>1
  <2>3. (-1 - q) * c = - (q * c + c) BY <1>2
  <2>4. q * c \in Int BY <1>2
  <2> QED BY <1>2, <2>2, <2>3, <2>4
<1> QED BY <1>2, <1>3, <1>4

\* A part owns every word.
LEMMA OwnerExists ==
  ASSUME NEW d, NEW o, NEW t, Lengths(d, o, t), NEW w, WordIn(w, o, t)
  PROVE  \E i \in DOMAIN Plan(d, o, t) : Owns(Plan(d, o, t), i, w)
<1> DEFINE P == Plan(d, o, t)
           m == w.start + w.end + o
<1>1. m \in Nat /\ 2 * d \in Nat \ {0} BY DEF WordIn, Lengths
<1> HIDE DEF P, m
<1>2. PICK q \in Nat : q * (2 * d) <= m /\ m < (q + 1) * (2 * d) BY <1>1, Division
<1> USE DEF m
<1>3. q * (2 * d) = 2 * (q * d) /\ (q + 1) * (2 * d) = 2 * ((q + 1) * d) BY <1>2 DEF Lengths
<1>4. q * d \in Nat /\ (q + 1) * d = q * d + d BY <1>2 DEF Lengths
<1>5. 2 * (q * d) <= m /\ m < 2 * (q * d) + 2 * d BY <1>2, <1>3, <1>4 DEF Lengths
<1> USE DEF P
<1>6. CASE q * d < t
  <2>1. q + 1 \in Nat /\ q + 1 >= 1 /\ (q + 1) - 1 = q BY <1>2
  <2>2. q + 1 \in DOMAIN P BY <1>6, <2>1, PlanDomain
  <2>3. /\ Lower(P, q + 1) = IF q + 1 = 1 THEN 0 ELSE 2 * (q * d) - o
        /\ Upper(P, q + 1) = IF (q + 1) + 1 \in DOMAIN P THEN 2 * ((q + 1) * d) - o ELSE 2 * t
    BY <2>1, <2>2, OwnershipBounds
  <2>4. Lower(P, q + 1) <= w.start + w.end BY <1>4, <1>5, <2>3 DEF WordIn, Lengths
  <2>5. w.start + w.end < Upper(P, q + 1) BY <1>4, <1>5, <2>3 DEF WordIn, Lengths
  <2> QED BY <2>2, <2>4, <2>5 DEF Owns
<1>7. CASE ~(q * d < t)
  <2>1. q >= 1
    <3>1. q = 0 => q * d = 0 BY DEF Lengths
    <3> QED BY <1>2, <1>7, <3>1 DEF Lengths
  <2>2. q - 1 \in Nat /\ q * d = (q - 1) * d + d /\ (q - 1) * d \in Nat BY <1>2, <2>1 DEF Lengths
  <2>3. (q - 1) * d < t BY <1>5, <2>2 DEF WordIn, Lengths
  <2>4. q \in DOMAIN P BY <1>2, <2>1, <2>3, PlanDomain
  <2>5. q + 1 \notin DOMAIN P BY <1>2, <1>7, <2>1, PlanDomain
  <2>6. /\ Lower(P, q) = IF q = 1 THEN 0 ELSE 2 * ((q - 1) * d) - o
        /\ Upper(P, q) = 2 * t
    BY <1>2, <2>4, <2>5, OwnershipBounds
  <2>7. Lower(P, q) <= w.start + w.end BY <1>5, <2>2, <2>6 DEF WordIn, Lengths
  <2>8. w.start + w.end < Upper(P, q) BY <2>6 DEF WordIn, Lengths
  <2> QED BY <2>4, <2>7, <2>8 DEF Owns
<1> QED BY <1>6, <1>7

-----------------------------------------------------------------------------
(* Words that are heard.                                                   *)

LEMMA AudioWords == ASSUME NEW w \in Audio PROVE WordIn(w, Overlap, Length)
BY TranscriptionAssumption DEF Audio, WordIn

LEMMA SettingsFit == ASSUME NEW d \in PartLengths PROVE Lengths(d, Overlap, Length)
BY TranscriptionAssumption DEF Lengths

\* A part has bounds within the audio.
LEMMA PartIsInside ==
  ASSUME NEW d \in PartLengths, NEW i \in DOMAIN Plan(d, Overlap, Length)
  PROVE  /\ i \in Nat
         /\ Plan(d, Overlap, Length)[i].start \in Nat /\ Plan(d, Overlap, Length)[i].end \in Nat
         /\ Plan(d, Overlap, Length)[i].start < Plan(d, Overlap, Length)[i].end
         /\ Plan(d, Overlap, Length)[i].end <= Length
<1> DEFINE P == Plan(d, Overlap, Length)
<1>1. Lengths(d, Overlap, Length) BY SettingsFit
<1>2. i \in Nat BY DEF Plan
<1>3. i >= 1 /\ (i > 1 => (i - 1) * d >= d) /\ (i - 1) * d < Length BY <1>1, <1>2, PlanBounds, PlanDomain
<1>4. /\ P[i].start = IF i = 1 THEN 0 ELSE (i - 1) * d - Overlap
      /\ P[i].end = IF i + 1 \in DOMAIN P THEN i * d ELSE Length
  BY <1>1, <1>2, PlanBounds
<1>5. i + 1 \in DOMAIN P => i * d < Length BY <1>1, <1>2, <1>3, PlanDomain
<1>6. i * d = (i - 1) * d + d /\ (i - 1) * d \in Nat
  <2>1. i - 1 \in Nat /\ i = (i - 1) + 1 BY <1>2, <1>3
  <2> QED BY <1>1, <2>1 DEF Lengths
<1> HIDE DEF P
<1>7. P[i].start \in Nat /\ P[i].end \in Nat /\ P[i].start < P[i].end /\ P[i].end <= Length
  <2>1. CASE i = 1 BY <1>1, <1>2, <1>4, <1>5, <1>6, <2>1 DEF Lengths
  <2>2. CASE i # 1 BY <1>1, <1>2, <1>3, <1>4, <1>5, <1>6, <2>2 DEF Lengths
  <2> QED BY <2>1, <2>2
<1> QED BY <1>2, <1>7 DEF P

\* What a part gives of a word is the word cut by its bounds.
LEMMA GlobalIsClipped ==
  ASSUME NEW d \in PartLengths, NEW i \in DOMAIN Plan(d, Overlap, Length), NEW w \in Audio,
         Hears(Plan(d, Overlap, Length)[i], w)
  PROVE  Global(Plan(d, Overlap, Length)[i], Heard(Plan(d, Overlap, Length)[i], w)) =
           [start |-> Most(w.start, Plan(d, Overlap, Length)[i].start),
            end |-> Least(w.end, Plan(d, Overlap, Length)[i].end)]
<1> DEFINE p == Plan(d, Overlap, Length)[i]
<1>1. p.start \in Nat /\ p.end \in Nat /\ p.start < p.end /\ p.end <= Length BY PartIsInside
<1>2. WordIn(w, Overlap, Length) BY AudioWords
<1>3. w.start < p.end /\ p.start < w.end BY DEF Hears
<1> HIDE DEF p
<1>4. /\ Heard(p, w).start = Most(w.start, p.start) - p.start
      /\ Heard(p, w).end = Least(w.end, p.end) - p.start
  BY DEF Heard
<1>5. Least(Most(Heard(p, w).start + p.start, 0), Length) = Most(w.start, p.start)
  BY <1>1, <1>2, <1>3, <1>4, TranscriptionAssumption DEF Most, Least, WordIn
<1>6. Least(Most(Heard(p, w).end + p.start, Most(w.start, p.start)), Length) = Least(w.end, p.end)
  BY <1>1, <1>2, <1>3, <1>4, TranscriptionAssumption DEF Most, Least, WordIn
<1>7. Global(p, Heard(p, w)) = [start |-> Most(w.start, p.start), end |-> Least(w.end, p.end)]
  BY <1>5, <1>6 DEF Global
<1> QED BY <1>7 DEF p

\* A word that is cut is not owned by the part that cut it.
LEMMA OwnedIsWhole ==
  ASSUME NEW d \in PartLengths, NEW i \in DOMAIN Plan(d, Overlap, Length), NEW w \in Audio,
         Hears(Plan(d, Overlap, Length)[i], w),
         Owns(Plan(d, Overlap, Length), i,
              [start |-> Most(w.start, Plan(d, Overlap, Length)[i].start),
               end |-> Least(w.end, Plan(d, Overlap, Length)[i].end)])
  PROVE  Plan(d, Overlap, Length)[i].start <= w.start /\ w.end <= Plan(d, Overlap, Length)[i].end
<1> DEFINE P == Plan(d, Overlap, Length)
<1>1. P[i].start \in Nat /\ P[i].end \in Nat /\ P[i].start < P[i].end /\ P[i].end <= Length /\ i \in Nat
  BY PartIsInside
<1>2. WordIn(w, Overlap, Length) /\ Lengths(d, Overlap, Length) BY AudioWords, SettingsFit
<1>3. /\ Lower(P, i) <= Most(w.start, P[i].start) + Least(w.end, P[i].end)
      /\ Most(w.start, P[i].start) + Least(w.end, P[i].end) < Upper(P, i)
  BY DEF Owns
<1>4. /\ P[i].start = IF i = 1 THEN 0 ELSE (i - 1) * d - Overlap
      /\ P[i].end = IF i + 1 \in DOMAIN P THEN i * d ELSE Length
      /\ i >= 1
  BY <1>1, <1>2, PlanBounds
<1>5. /\ Lower(P, i) = IF i = 1 THEN 0 ELSE 2 * ((i - 1) * d) - Overlap
      /\ Upper(P, i) = IF i + 1 \in DOMAIN P THEN 2 * (i * d) - Overlap ELSE 2 * Length
  BY <1>1, <1>2, OwnershipBounds
<1>6. i * d \in Nat /\ (i - 1) * d \in Nat
  <2>1. i - 1 \in Nat BY <1>1, <1>4
  <2> QED BY <1>1, <1>2, <2>1 DEF Lengths
<1>7. w.start < P[i].end /\ P[i].start < w.end BY DEF Hears
<1> HIDE DEF P
<1>8. P[i].start <= w.start
  <2> SUFFICES ASSUME w.start < P[i].start PROVE FALSE BY <1>1, <1>2 DEF WordIn
  <2>1. i # 1 BY <1>2, <1>4 DEF WordIn
  <2>2. Most(w.start, P[i].start) = P[i].start BY <1>1, <1>2 DEF Most, WordIn
  <2>3. Least(w.end, P[i].end) <= w.end /\ Least(w.end, P[i].end) \in Nat BY <1>1, <1>2 DEF Least, WordIn
  <2>4. Lower(P, i) = 2 * ((i - 1) * d) - Overlap BY <1>5, <2>1
  <2>5. P[i].start = (i - 1) * d - Overlap BY <1>4, <2>1
  <2>6. 2 * ((i - 1) * d) - Overlap <= P[i].start + Least(w.end, P[i].end) BY <1>3, <2>2, <2>4
  <2> DEFINE X == (i - 1) * d
             E == Least(w.end, P[i].end)
  <2>7. X \in Nat /\ 2 * X - Overlap <= P[i].start + E /\ P[i].start = X - Overlap BY <1>6, <2>5, <2>6
  <2>8. E <= w.end /\ E \in Nat /\ w.start < P[i].start BY <2>3
  <2> HIDE DEF X, E
  <2> QED BY <1>2, <2>7, <2>8 DEF WordIn, Lengths
<1>9. w.end <= P[i].end
  <2> SUFFICES ASSUME P[i].end < w.end PROVE FALSE BY <1>1, <1>2 DEF WordIn
  <2>1. i + 1 \in DOMAIN P
    <3> SUFFICES ASSUME i + 1 \notin DOMAIN P PROVE FALSE OBVIOUS
    <3>1. P[i].end = Length BY <1>4
    <3> QED BY <1>2, <3>1 DEF WordIn, Lengths
  <2>2. Least(w.end, P[i].end) = P[i].end BY <1>1, <1>2 DEF Least, WordIn
  <2>3. Most(w.start, P[i].start) = w.start BY <1>1, <1>2, <1>8 DEF Most, WordIn
  <2>4. Upper(P, i) = 2 * (i * d) - Overlap /\ P[i].end = i * d BY <1>4, <1>5, <2>1
  <2>5. w.start + P[i].end < 2 * (i * d) - Overlap BY <1>3, <2>2, <2>3, <2>4
  <2> QED BY <1>2, <1>6, <2>4, <2>5 DEF WordIn, Lengths
<1> QED BY <1>8, <1>9 DEF P

\* A part gives of a word it contains the word.
LEMMA WholeIsItself ==
  ASSUME NEW d \in PartLengths, NEW i \in DOMAIN Plan(d, Overlap, Length), NEW w \in Audio,
         Hears(Plan(d, Overlap, Length)[i], w),
         Plan(d, Overlap, Length)[i].start <= w.start, w.end <= Plan(d, Overlap, Length)[i].end
  PROVE  Global(Plan(d, Overlap, Length)[i], Heard(Plan(d, Overlap, Length)[i], w)) = w
<1> DEFINE p == Plan(d, Overlap, Length)[i]
<1>1. p.start \in Nat /\ p.end \in Nat BY PartIsInside
<1>2. w.start \in Nat /\ w.end \in Nat /\ w = [start |-> w.start, end |-> w.end]
  BY TranscriptionAssumption DEF Audio
<1>3. Most(w.start, p.start) = w.start /\ Least(w.end, p.end) = w.end
  BY <1>1, <1>2 DEF Most, Least
<1> QED BY <1>2, <1>3, GlobalIsClipped

\* The parts of an audio give each of its words once, whole.
THEOREM PartsGiveTheAudio ==
  ASSUME NEW d \in PartLengths
  PROVE  /\ {m.word : m \in Merged(Plan(d, Overlap, Length))} = Audio
         /\ \A m, n \in Merged(Plan(d, Overlap, Length)) : m.word = n.word => m = n
<1> DEFINE P == Plan(d, Overlap, Length)
           Triples == [part : DOMAIN P, of : Audio, word : [start : 0..Length, end : 0..Length]]
<1>1. Lengths(d, Overlap, Length) BY SettingsFit
<1>2. ASSUME NEW m \in Merged(P)
      PROVE  m \in Triples /\ m.word = m.of /\ Owns(P, m.part, m.of)
  <2>1. /\ m \in Triples /\ Hears(P[m.part], m.of) /\ Owns(P, m.part, m.word)
        /\ m.word = Global(P[m.part], Heard(P[m.part], m.of))
    BY <1>2 DEF Merged
  <2>2. m.part \in DOMAIN P /\ m.of \in Audio BY <2>1
  <2>3. m.word = [start |-> Most(m.of.start, P[m.part].start), end |-> Least(m.of.end, P[m.part].end)]
    BY <2>1, <2>2, GlobalIsClipped
  <2>4. P[m.part].start <= m.of.start /\ m.of.end <= P[m.part].end
    BY <2>1, <2>2, <2>3, OwnedIsWhole
  <2>5. m.word = m.of BY <2>1, <2>2, <2>4, WholeIsItself
  <2> QED BY <2>1, <2>5
<1>3. ASSUME NEW w \in Audio
      PROVE  \E m \in Merged(P) : m.word = w
  <2>1. WordIn(w, Overlap, Length) BY AudioWords
  <2>2. PICK i \in DOMAIN P : Owns(P, i, w) BY <1>1, <2>1, OwnerExists
  <2>3. i \in Nat /\ P[i].start \in Nat /\ P[i].end \in Nat BY PartIsInside
  <2>4. P[i].start <= w.start /\ w.end <= P[i].end BY <1>1, <2>1, <2>2, <2>3, OwnerContains
  <2>5. Hears(P[i], w)
    <3>1. w.start < P[i].end /\ P[i].start < w.end
      <4> HIDE DEF P
      <4> QED BY <2>1, <2>3, <2>4 DEF WordIn
    <3> QED BY <3>1 DEF Hears
  <2>6. Global(P[i], Heard(P[i], w)) = w BY <2>4, <2>5, WholeIsItself
  <2> DEFINE m == [part |-> i, of |-> w, word |-> w]
  <2>7. w \in [start : 0..Length, end : 0..Length] BY DEF Audio
  <2>8. m \in Triples BY <2>7
  <2>9. m \in Merged(P) BY <2>2, <2>5, <2>6, <2>8 DEF Merged
  <2> QED BY <2>9
<1>4. ASSUME NEW m \in Merged(P), NEW n \in Merged(P), m.word = n.word
      PROVE  m = n
  <2>1. m \in Triples /\ m.word = m.of /\ Owns(P, m.part, m.of) BY <1>2
  <2>2. n \in Triples /\ n.word = n.of /\ Owns(P, n.part, n.of) BY <1>2
  <2>3. m.part \in DOMAIN P /\ m.part \in Nat /\ n.part \in DOMAIN P /\ n.part \in Nat
    BY <2>1, <2>2, PartIsInside
  <2>4. WordIn(m.of, Overlap, Length) /\ m.of = n.of BY <1>4, <2>1, <2>2, AudioWords
  <2>5. m.part = n.part BY <1>1, <2>1, <2>2, <2>3, <2>4, OwnerIsUnique
  <2> HIDE DEF P
  <2> QED BY <1>4, <2>1, <2>2, <2>4, <2>5
<1>5. \A m \in Merged(P) : m.word \in Audio BY <1>2
<1> HIDE DEF P, Triples
<1>6. {m.word : m \in Merged(P)} = Audio BY <1>3, <1>5
<1> QED BY <1>4, <1>6 DEF P

-----------------------------------------------------------------------------
(* The inductive invariant: the parts an attempt will remove are all that   *)
(* is registered when it removes the rows, except for the loose ones.       *)

Cut(d) == Plan(d, Overlap, Length)
Plans == {Cut(d) : d \in PartLengths}
AllParts == UNION {PartsOf(Cut(d)) : d \in PartLengths}

Steps == {"idle", "lookup", "sweep", "sweepRows", "check", "extract", "registered",
          "upload", "uploaded", "group", "calling", "final", "finalRows"}

\* An attempt knows all parts of one plan, and will remove all of them.
RunFits ==
  /\ run \in [step : Steps, parts : Plans \union {<<>>}, sweep : SUBSET AllParts, next : Nat,
              failed : BOOLEAN, wrong : BOOLEAN]
  /\ run.step = "idle" => run = Idle
  /\ run.step # "idle" => run.parts \in Plans /\ PartsOf(run.parts) \subseteq run.sweep
  /\ video \in {"kept", "deleting", "emptied", "gone"}

\* What is stored is registered or loose, and rows go after their objects.
StoredFits ==
  /\ objects \subseteq assets \union loose /\ assets \subseteq AllParts /\ loose \subseteq AllParts
  /\ run.step \notin {"idle", "lookup"} => assets \subseteq run.sweep \union loose
  /\ run.step \in {"sweepRows", "finalRows"} => objects \subseteq loose

\* An attempt that a deletion overtook has only loose parts, and no other one follows.
DeletionFits ==
  video \in {"emptied", "gone"} =>
    objects \subseteq loose /\ PartsOf(run.parts) \subseteq loose

\* The parts are stored in their order, and all of them before the first call.
ProgressFits ==
  /\ run.step \in {"lookup", "sweep", "sweepRows", "check"} => run.next = 1
  /\ run.step \in {"extract", "registered", "upload", "uploaded"} => run.next \in DOMAIN run.parts
  /\ run.step \in {"registered", "upload", "uploaded"} => run.parts[run.next] \in assets \union loose
  /\ run.step \in {"extract", "registered", "upload"} =>
       \A j \in DOMAIN run.parts : j < run.next => run.parts[j] \in objects \union loose
  /\ run.step = "uploaded" =>
       \A j \in DOMAIN run.parts : j <= run.next => run.parts[j] \in objects \union loose
  /\ run.step \in {"group", "calling"} =>
       \A j \in DOMAIN run.parts : run.parts[j] \in objects \union loose

CallsFit == DOMAIN calls \subseteq DOMAIN run.parts /\ (run.step # "calling" => DOMAIN calls = {})

TranscriptFits ==
  transcript # {} =>
    /\ \E d \in PartLengths : transcript = Merged(Cut(d))
    /\ run = Idle /\ objects \subseteq loose /\ assets = {}

TInv == RunFits /\ StoredFits /\ DeletionFits /\ ProgressFits /\ CallsFit /\ TranscriptFits

\* The indexes of the parts are positive, start with 1 and have no gap.
LEMMA CutFits ==
  ASSUME NEW P \in Plans
  PROVE  /\ 1 \in DOMAIN P /\ DOMAIN P \subseteq Nat
         /\ \A j \in DOMAIN P : j >= 1
         /\ \A i, j \in DOMAIN P : i + 1 \notin DOMAIN P => j <= i
         /\ \A i \in DOMAIN P : P[i] \in PartsOf(P)
         /\ PartsOf(P) \subseteq AllParts
<1>0. PICK d \in PartLengths : P = Cut(d) BY DEF Plans
<1>1. Lengths(d, Overlap, Length) BY SettingsFit
<1>2. 1 \in DOMAIN P
  <2>1. (1 - 1) * d = 0 /\ 0 < Length BY <1>1 DEF Lengths
  <2> QED BY <1>0, <1>1, <2>1, PlanDomain DEF Cut
<1>3. DOMAIN P \subseteq Nat BY <1>0 DEF Cut, Plan
<1>4. ASSUME NEW i \in DOMAIN P, NEW j \in DOMAIN P, i < j PROVE i + 1 \in DOMAIN P
  <2>1. i \in Nat /\ j \in Nat /\ i + 1 \in Nat /\ i + 1 <= j BY <1>3, <1>4
  <2>2. 1 <= i + 1 BY <2>1
  <2> QED BY <1>0, <1>1, <1>4, <2>1, <2>2, PlanIsDownward DEF Cut
<1>5. \A i, j \in DOMAIN P : i + 1 \notin DOMAIN P => j <= i BY <1>3, <1>4
<1>6. \A j \in DOMAIN P : j >= 1 BY <1>0, <1>1, <1>3, PlanDomain DEF Cut
<1>7. PartsOf(P) \subseteq AllParts BY <1>0 DEF AllParts
<1> QED BY <1>2, <1>3, <1>5, <1>6, <1>7 DEF PartsOf

\* Before its first attempt a video has no parts.
LEMMA IdleFits == DOMAIN Idle.parts = {} /\ PartsOf(Idle.parts) = {} /\ Idle.step = "idle" /\ DOMAIN <<>> = {}
BY DEF Idle, PartsOf

LEMMA TInvInit == TranscriptionInit => TInv
<1> SUFFICES ASSUME TranscriptionInit PROVE TInv OBVIOUS
<1>1. run = Idle /\ DOMAIN calls = {} /\ objects = {} /\ assets = {} /\ loose = {}
      /\ video = "kept" /\ transcript = {}
  BY DEF TranscriptionInit
<1>2. RunFits BY <1>1 DEF RunFits, Idle, Steps
<1> QED BY <1>1, <1>2, IdleFits DEF TInv, StoredFits, DeletionFits, ProgressFits, CallsFit, TranscriptFits

\* The first attempt's parts, and those it will remove, are those of its plan.
LEMMA BeginKeeps == TInv /\ (\E d \in PartLengths : Begin(d)) => TInv'
<1> SUFFICES ASSUME TInv, NEW d \in PartLengths, Begin(d) PROVE TInv' OBVIOUS
<1> USE DEF TInv
<1> DEFINE P == Cut(d)
<1>1. /\ run.step = "idle" /\ video = "kept" /\ transcript = {}
      /\ run' = [Idle EXCEPT !.step = "lookup", !.parts = P, !.sweep = PartsOf(P)]
      /\ UNCHANGED <<objects, assets, calls, transcript, video, loose>>
  BY DEF Begin, Works, At, Quiet, storage, Cut
<1>2. P \in Plans /\ PartsOf(P) \subseteq AllParts BY CutFits DEF Plans
<1> HIDE DEF P
<1>3. run' = [step |-> "lookup", parts |-> P, sweep |-> PartsOf(P), next |-> 1, failed |-> FALSE, wrong |-> FALSE]
  BY <1>1 DEF Idle
<1>4. run'.step = "lookup" /\ run'.parts = P /\ run'.sweep = PartsOf(P) /\ run'.next = 1 BY <1>3
<1>5. RunFits'
  <2>1. PartsOf(P) \in SUBSET AllParts /\ P \in Plans \union {<<>>} BY <1>2
  <2> HIDE DEF TInv
  <2>2. run' \in [step : Steps, parts : Plans \union {<<>>}, sweep : SUBSET AllParts, next : Nat,
                  failed : BOOLEAN, wrong : BOOLEAN]
    BY <1>3, <2>1 DEF Steps
  <2> QED BY <1>1, <1>2, <1>4, <2>2 DEF RunFits
<1>6. StoredFits' BY <1>1, <1>4 DEF StoredFits
<1>7. DeletionFits' /\ TranscriptFits' BY <1>1 DEF DeletionFits, TranscriptFits
<1>8. ProgressFits' BY <1>4 DEF ProgressFits
<1>9. CallsFit' BY <1>1, <1>4 DEF CallsFit
<1> QED BY <1>5, <1>6, <1>7, <1>8, <1>9

\* What a step of an attempt that goes on, changes nothing stored and only its step
\* and its next part has to show.
LEMMA GoesOn ==
  ASSUME TInv, run.step # "idle", NEW step \in Steps \ {"idle", "lookup", "sweepRows", "finalRows"},
         NEW next \in Nat, NEW failed \in BOOLEAN, NEW wrong \in BOOLEAN, run.step # "lookup",
         run' = [run EXCEPT !.step = step, !.next = next, !.failed = failed, !.wrong = wrong],
         UNCHANGED <<objects, assets, transcript, video, loose>>
  PROVE  RunFits' /\ StoredFits' /\ DeletionFits' /\ TranscriptFits'
<1> USE DEF TInv
<1>1. /\ run'.step = step /\ run'.parts = run.parts /\ run'.sweep = run.sweep /\ run'.next = next
  BY DEF RunFits
<1>2. RunFits' BY <1>1 DEF RunFits
<1>3. StoredFits' BY <1>1 DEF StoredFits
<1>4. DeletionFits' BY <1>1 DEF DeletionFits
<1>5. TranscriptFits' BY DEF TranscriptFits, Idle
<1> QED BY <1>2, <1>3, <1>4, <1>5

\* The same for a failure, whatever it left of the objects.
LEMMA FailKeeps ==
  ASSUME TInv, run.step \notin {"idle", "calling"}, Fail, UNCHANGED <<assets, calls, transcript, video>>,
         loose \subseteq loose', loose' \subseteq AllParts, objects' \subseteq assets \union loose',
         run.step = "lookup" => assets \subseteq run.sweep \union loose',
         video \in {"emptied", "gone"} => objects' \subseteq loose'
  PROVE  TInv'
<1> USE DEF TInv
<1>1. run'.step = "final" /\ run'.parts = run.parts /\ run'.sweep = run.sweep
  BY DEF Fail, RunFits
<1>2. RunFits' BY DEF Fail, RunFits, Steps
<1>3. StoredFits' BY <1>1 DEF StoredFits
<1>4. DeletionFits' BY <1>1 DEF DeletionFits
<1>5. TranscriptFits' BY DEF TranscriptFits, Idle
<1>6. ProgressFits' /\ CallsFit' BY <1>1 DEF ProgressFits, CallsFit
<1> QED BY <1>2, <1>3, <1>4, <1>5, <1>6

\* An attempt that ends leaves what is registered or loose.
LEMMA EndKeeps ==
  ASSUME TInv, run.step # "idle", run' = Idle, DOMAIN calls' = {}, UNCHANGED <<transcript, video, loose>>,
         objects' \subseteq objects, objects' \subseteq assets' \union loose, assets' \subseteq assets
  PROVE  TInv'
<1> USE DEF TInv
<1>1. RunFits' BY IdleFits DEF RunFits, Idle, Steps
<1>2. StoredFits' BY IdleFits DEF StoredFits
<1>3. DeletionFits' BY IdleFits DEF DeletionFits
<1>4. TranscriptFits' BY DEF TranscriptFits, Idle
<1>5. ProgressFits' /\ CallsFit' BY IdleFits DEF ProgressFits, CallsFit
<1> QED BY <1>1, <1>2, <1>3, <1>4, <1>5

LEMMA SweepKeeps == TInv /\ (Lookup \/ SweepObjects \/ SweepRows \/ SweepFails) => TInv'
<1> SUFFICES ASSUME TInv, Lookup \/ SweepObjects \/ SweepRows \/ SweepFails PROVE TInv' OBVIOUS
<1> USE DEF TInv
<1>1. CASE Lookup
  <2>1. /\ run' = [run EXCEPT !.step = "sweep", !.sweep = run.sweep \union assets] /\ run.step = "lookup"
        /\ UNCHANGED <<calls, objects, assets, video, transcript, loose>>
    BY <1>1 DEF Lookup, Works, At, Quiet, storage
  <2>2. run.sweep \union assets \in SUBSET AllParts BY DEF RunFits, StoredFits
  <2>3. /\ run'.step = "sweep" /\ run'.next = run.next /\ run'.parts = run.parts
        /\ run'.sweep = run.sweep \union assets
    BY <2>1 DEF RunFits
  <2>4. RunFits' BY <2>1, <2>2, <2>3 DEF RunFits, Steps
  <2>5. StoredFits' /\ DeletionFits' /\ ProgressFits' /\ CallsFit'
    BY <2>1, <2>3 DEF StoredFits, DeletionFits, ProgressFits, CallsFit
  <2>6. TranscriptFits' BY <2>1 DEF TranscriptFits, Idle
  <2> QED BY <2>4, <2>5, <2>6
<1>2. CASE SweepObjects
  <2> DEFINE step == IF run.step = "sweep" THEN "sweepRows" ELSE "finalRows"
  <2>1. /\ run.step \in {"sweep", "final"} /\ run' = [run EXCEPT !.step = step]
        /\ objects' = objects \ run.sweep /\ UNCHANGED <<calls, assets, video, transcript, loose>>
    BY <1>2 DEF SweepObjects, Works, At, Goto, Quiet
  <2>2. /\ run'.step = step /\ run'.next = run.next /\ run'.parts = run.parts /\ run'.sweep = run.sweep
    BY <2>1 DEF RunFits
  <2>3. RunFits' BY <2>1, <2>2 DEF RunFits, Steps
  <2>4. StoredFits'
    <3>1. objects' \subseteq loose BY <2>1 DEF StoredFits
    <3> QED BY <2>1, <2>2, <3>1 DEF StoredFits
  <2>5. DeletionFits' /\ ProgressFits' /\ CallsFit'
    BY <2>1, <2>2 DEF DeletionFits, ProgressFits, CallsFit
  <2>6. TranscriptFits' BY <2>1 DEF TranscriptFits, Idle
  <2> QED BY <2>3, <2>4, <2>5, <2>6
<1>3. CASE SweepRows
  <2>1. /\ run.step = "sweepRows" /\ run' = [run EXCEPT !.step = "check"]
        /\ assets' = {} /\ UNCHANGED <<calls, objects, video, transcript, loose>>
    BY <1>3 DEF SweepRows, Works, At, Goto, Quiet
  <2>2. /\ run'.step = "check" /\ run'.next = run.next /\ run'.parts = run.parts /\ run'.sweep = run.sweep
    BY <2>1 DEF RunFits
  <2>3. RunFits' BY <2>1, <2>2 DEF RunFits, Steps
  <2>4. StoredFits' /\ DeletionFits' /\ ProgressFits' /\ CallsFit'
    BY <2>1, <2>2 DEF StoredFits, DeletionFits, ProgressFits, CallsFit
  <2>6. TranscriptFits' BY <2>1 DEF TranscriptFits, Idle
  <2> QED BY <2>3, <2>4, <2>6
<1>4. CASE SweepFails
  <2>1. /\ run.step \in {"sweep", "sweepRows", "final", "finalRows"}
        /\ objects' \subseteq objects /\ UNCHANGED <<assets, calls, transcript, video, loose>>
    BY <1>4 DEF SweepFails, Works, At
  <2>2. CASE run.step \in {"sweep", "sweepRows"}
    <3>1. Fail BY <1>4, <2>2 DEF SweepFails
    <3> QED BY <2>1, <2>2, <3>1, FailKeeps DEF StoredFits, DeletionFits
  <2>3. CASE run.step \notin {"sweep", "sweepRows"}
    <3>1. run' = Idle BY <1>4, <2>3 DEF SweepFails
    <3>2. DOMAIN calls' = {} BY <2>1 DEF CallsFit
    <3> QED BY <2>1, <3>1, <3>2, EndKeeps DEF StoredFits
  <2> QED BY <2>2, <2>3
<1> QED BY <1>1, <1>2, <1>3, <1>4

LEMMA StepFailsKeeps == TInv /\ StepFails => TInv'
<1> SUFFICES ASSUME TInv, StepFails PROVE TInv' OBVIOUS
<1> USE DEF TInv
<1>1. /\ run.step \in {"lookup", "extract", "upload"} /\ UNCHANGED <<assets, calls, transcript, video>> /\ Fail
      /\ loose' = IF run.step = "lookup" THEN loose \union (assets \ run.sweep) ELSE loose
  BY DEF StepFails, At
<1>2. objects' \subseteq assets \union loose' /\ (video \in {"emptied", "gone"} => objects' \subseteq loose')
  <2>1. CASE run.step = "upload"
    <3>1. run.parts[run.next] \in assets \union loose /\ run.next \in DOMAIN run.parts
      BY <2>1 DEF ProgressFits
    <3>2. objects' \subseteq objects \union {run.parts[run.next]} BY <2>1 DEF StepFails
    <3>3. run.parts[run.next] \in PartsOf(run.parts) BY <3>1 DEF PartsOf
    <3> QED BY <1>1, <2>1, <3>1, <3>2, <3>3 DEF StoredFits, DeletionFits
  <2>2. CASE run.step # "upload"
    <3>1. objects' = objects BY <2>2 DEF StepFails
    <3> QED BY <1>1, <3>1 DEF StoredFits, DeletionFits
  <2> QED BY <2>1, <2>2
<1>3. loose \subseteq loose' /\ loose' \subseteq AllParts BY <1>1 DEF StoredFits
<1> QED BY <1>1, <1>2, <1>3, FailKeeps

LEMMA CheckKeeps == TInv /\ CheckDeleting => TInv'
<1> SUFFICES ASSUME TInv, CheckDeleting PROVE TInv' OBVIOUS
<1> USE DEF TInv
<1>1. /\ run.step \in {"check", "registered", "uploaded"}
      /\ UNCHANGED <<objects, assets, calls, transcript, video, loose>>
  BY DEF CheckDeleting, Works, At, Quiet, storage
<1>2. /\ run.parts \in Plans /\ run.next \in Nat /\ run.failed \in BOOLEAN /\ run.wrong \in BOOLEAN
      /\ DOMAIN calls = {}
  BY <1>1 DEF RunFits, CallsFit
<1>3. CASE Fail
  BY <1>1, <1>3, FailKeeps DEF StoredFits, DeletionFits
<1>4. CASE run.step = "check" /\ run' = [run EXCEPT !.step = "extract"]
  <2>1. run' = [run EXCEPT !.step = "extract", !.next = run.next, !.failed = run.failed, !.wrong = run.wrong]
    BY <1>4 DEF RunFits
  <2>2. RunFits' /\ StoredFits' /\ DeletionFits' /\ TranscriptFits'
    BY <1>1, <1>2, <2>1, GoesOn DEF Steps
  <2>3. run'.step = "extract" /\ run'.next = 1 /\ run'.parts = run.parts
    BY <1>4 DEF RunFits, ProgressFits
  <2>4. 1 \in DOMAIN run.parts /\ \A j \in DOMAIN run.parts : ~(j < 1) BY <1>2, CutFits
  <2> QED BY <1>1, <1>2, <2>2, <2>3, <2>4 DEF ProgressFits, CallsFit
<1>5. CASE run.step = "registered" /\ run' = [run EXCEPT !.step = "upload"]
  <2>1. run' = [run EXCEPT !.step = "upload", !.next = run.next, !.failed = run.failed, !.wrong = run.wrong]
    BY <1>5 DEF RunFits
  <2>2. RunFits' /\ StoredFits' /\ DeletionFits' /\ TranscriptFits'
    BY <1>1, <1>2, <2>1, GoesOn DEF Steps
  <2>3. run'.step = "upload" /\ run'.next = run.next /\ run'.parts = run.parts
    BY <1>5 DEF RunFits
  <2> QED BY <1>1, <1>2, <1>5, <2>2, <2>3 DEF ProgressFits, CallsFit
<1>6. CASE /\ run.step = "uploaded" /\ run.next + 1 \in DOMAIN run.parts
           /\ run' = [run EXCEPT !.step = "extract", !.next = run.next + 1]
  <2>1. run' = [run EXCEPT !.step = "extract", !.next = run.next + 1, !.failed = run.failed, !.wrong = run.wrong]
    BY <1>6 DEF RunFits
  <2>2. RunFits' /\ StoredFits' /\ DeletionFits' /\ TranscriptFits'
    <3>1. run.next + 1 \in Nat /\ run.step \notin {"idle", "lookup"} BY <1>1, <1>2
    <3>2. "extract" \in Steps \ {"idle", "lookup", "sweepRows", "finalRows"} BY DEF Steps
    <3> HIDE DEF TInv
    <3> QED BY <1>1, <1>2, <2>1, <3>1, <3>2, GoesOn
  <2>3. run'.step = "extract" /\ run'.next = run.next + 1 /\ run'.parts = run.parts
    BY <1>6 DEF RunFits
  <2>4. \A j \in DOMAIN run.parts : j < run.next + 1 => run.parts[j] \in objects \union loose
    <3>1. \A j \in DOMAIN run.parts : j < run.next + 1 => j <= run.next BY <1>2, CutFits
    <3> QED BY <1>6, <3>1 DEF ProgressFits
  <2> QED BY <1>1, <1>2, <1>6, <2>2, <2>3, <2>4 DEF ProgressFits, CallsFit
<1>7. CASE /\ run.step = "uploaded" /\ run.next + 1 \notin DOMAIN run.parts
           /\ run' = [run EXCEPT !.step = "group", !.next = 1]
  <2>1. run' = [run EXCEPT !.step = "group", !.next = 1, !.failed = run.failed, !.wrong = run.wrong]
    BY <1>7 DEF RunFits
  <2>2. RunFits' /\ StoredFits' /\ DeletionFits' /\ TranscriptFits'
    BY <1>1, <1>2, <2>1, GoesOn DEF Steps
  <2>3. run'.step = "group" /\ run'.parts = run.parts BY <1>7 DEF RunFits
  <2>4. \A j \in DOMAIN run.parts : run.parts[j] \in objects \union loose
    <3>1. run.next \in DOMAIN run.parts BY <1>7 DEF ProgressFits
    <3>2. \A j \in DOMAIN run.parts : j <= run.next BY <1>2, <1>7, <3>1, CutFits
    <3> QED BY <1>7, <3>2 DEF ProgressFits
  <2> QED BY <1>1, <1>2, <2>2, <2>3, <2>4 DEF ProgressFits, CallsFit
<1>8. run.step = "uploaded" => run.next \in DOMAIN run.parts BY DEF ProgressFits
<1> QED BY <1>1, <1>3, <1>4, <1>5, <1>6, <1>7, <1>8 DEF CheckDeleting, Goto

LEMMA StoreKeeps == TInv /\ (Register \/ Upload) => TInv'
<1> SUFFICES ASSUME TInv, Register \/ Upload PROVE TInv' OBVIOUS
<1> USE DEF TInv
<1> DEFINE part == run.parts[run.next]
<1>0. run.step \in {"extract", "upload"} => part \in PartsOf(run.parts) /\ part \in run.sweep /\ part \in AllParts
  <2> SUFFICES ASSUME run.step \in {"extract", "upload"}
               PROVE  part \in PartsOf(run.parts) /\ part \in run.sweep /\ part \in AllParts OBVIOUS
  <2>1. run.next \in DOMAIN run.parts BY DEF ProgressFits
  <2>2. part \in PartsOf(run.parts) BY <2>1 DEF PartsOf
  <2> QED BY <2>2 DEF RunFits
<1>1. CASE Register /\ video = "gone"
  <2>1. run.step = "extract" /\ Fail /\ UNCHANGED <<objects, assets, calls, transcript, video, loose>>
    BY <1>1 DEF Register, Works, At, Quiet
  <2> QED BY <2>1, FailKeeps DEF StoredFits, DeletionFits
<1>2. CASE Register /\ video # "gone"
  <2>1. /\ run.step = "extract" /\ run' = [run EXCEPT !.step = "registered"]
        /\ assets' = assets \union {part} /\ UNCHANGED <<objects, calls, transcript, video, loose>>
    BY <1>2 DEF Register, Works, At, Quiet, Goto
  <2>2. /\ run'.step = "registered" /\ run'.next = run.next /\ run'.parts = run.parts /\ run'.sweep = run.sweep
    BY <2>1 DEF RunFits
  <2>3. RunFits' BY <2>1, <2>2 DEF RunFits, Steps
  <2> HIDE DEF part
  <2>4. StoredFits' BY <1>0, <2>1, <2>2 DEF StoredFits
  <2>5. DeletionFits' BY <2>1, <2>2 DEF DeletionFits
  <2>6. TranscriptFits' BY <2>1 DEF TranscriptFits, Idle
  <2>7. ProgressFits' BY <2>1, <2>2 DEF ProgressFits, part
  <2>8. CallsFit' BY <2>1, <2>2 DEF CallsFit
  <2> QED BY <2>3, <2>4, <2>5, <2>6, <2>7, <2>8
<1>3. CASE Upload
  <2>1. /\ run.step = "upload" /\ run' = [run EXCEPT !.step = "uploaded"]
        /\ objects' = objects \union {part} /\ UNCHANGED <<assets, calls, transcript, video, loose>>
    BY <1>3 DEF Upload, Works, At, Quiet, Goto
  <2>2. /\ run'.step = "uploaded" /\ run'.next = run.next /\ run'.parts = run.parts /\ run'.sweep = run.sweep
    BY <2>1 DEF RunFits
  <2>3. RunFits' BY <2>1, <2>2 DEF RunFits, Steps
  <2>9. part \in assets \union loose BY <2>1 DEF ProgressFits
  <2> HIDE DEF part
  <2>4. StoredFits' BY <2>1, <2>2, <2>9 DEF StoredFits
  <2>5. DeletionFits' BY <1>0, <2>1, <2>2 DEF DeletionFits
  <2>6. TranscriptFits' BY <2>1 DEF TranscriptFits, Idle
  <2>7. ProgressFits'
    <3>1. run.parts \in Plans /\ run.next \in Nat BY <2>1 DEF RunFits
    <3>2. \A j \in DOMAIN run.parts : j <= run.next => j < run.next \/ j = run.next BY <3>1, CutFits
    <3>3. \A j \in DOMAIN run.parts : j <= run.next => run.parts[j] \in objects' \union loose
      BY <2>1, <3>2 DEF ProgressFits, part
    <3> QED BY <2>1, <2>2, <2>9, <3>3 DEF ProgressFits, part
  <2>8. CallsFit' BY <2>1, <2>2 DEF CallsFit
  <2> QED BY <2>3, <2>4, <2>5, <2>6, <2>7, <2>8
<1> QED BY <1>1, <1>2, <1>3

LEMMA GroupKeeps ==
  TInv /\ (BeginGroup \/ EndGroup \/ \E i \in DOMAIN calls : Recognised(i) \/ CallFails(i)) => TInv'
<1> USE DEF TInv
<1>1. ASSUME TInv, BeginGroup PROVE TInv'
  <2>1. /\ run.step = "group" /\ UNCHANGED <<objects, assets, transcript, video, loose>>
        /\ run.next \in Nat /\ run.failed \in BOOLEAN /\ run.wrong \in BOOLEAN
    BY <1>1 DEF BeginGroup, Works, At, storage, RunFits
  <2>2. CASE run.next \notin DOMAIN run.parts
    <3>1. run' = [run EXCEPT !.step = "final"] /\ calls' = calls BY <1>1, <2>2 DEF BeginGroup, Goto
    <3>2. run' = [run EXCEPT !.step = "final", !.next = run.next, !.failed = run.failed, !.wrong = run.wrong]
      BY <1>1, <3>1 DEF RunFits
    <3>3. RunFits' /\ StoredFits' /\ DeletionFits' /\ TranscriptFits'
      BY <1>1, <2>1, <3>2, GoesOn DEF Steps
    <3>4. run'.step = "final" /\ run'.parts = run.parts BY <1>1, <3>1 DEF RunFits
    <3> QED BY <1>1, <2>1, <3>1, <3>3, <3>4 DEF ProgressFits, CallsFit
  <2>3. CASE run.next \in DOMAIN run.parts
    <3>1. run' = [run EXCEPT !.step = "calling"] /\ DOMAIN calls' \subseteq DOMAIN run.parts
      BY <1>1, <2>3 DEF BeginGroup, Goto
    <3>2. run' = [run EXCEPT !.step = "calling", !.next = run.next, !.failed = run.failed, !.wrong = run.wrong]
      BY <1>1, <3>1 DEF RunFits
    <3>3. RunFits' /\ StoredFits' /\ DeletionFits' /\ TranscriptFits'
      BY <1>1, <2>1, <3>2, GoesOn DEF Steps
    <3>4. run'.step = "calling" /\ run'.parts = run.parts BY <1>1, <3>1 DEF RunFits
    <3> QED BY <1>1, <2>1, <3>1, <3>3, <3>4 DEF ProgressFits, CallsFit
  <2> QED BY <2>2, <2>3
<1>2. ASSUME TInv, EndGroup PROVE TInv'
  <2>1. /\ run.step = "calling" /\ DOMAIN calls = {}
        /\ UNCHANGED <<objects, assets, calls, transcript, video, loose>>
        /\ run.next \in Nat /\ run.failed \in BOOLEAN /\ run.wrong \in BOOLEAN
    BY <1>2 DEF EndGroup, Works, At, storage, Quiet, RunFits
  <2>2. CASE Fail
    <3>1. run' = [run EXCEPT !.step = "final", !.next = run.next, !.failed = TRUE, !.wrong = run.wrong]
      BY <1>2, <2>2 DEF Fail, RunFits
    <3>2. RunFits' /\ StoredFits' /\ DeletionFits' /\ TranscriptFits'
      BY <1>2, <2>1, <3>1, GoesOn DEF Steps
    <3>3. run'.step = "final" /\ run'.parts = run.parts BY <1>2, <2>2 DEF Fail, RunFits
    <3> QED BY <2>1, <3>2, <3>3 DEF ProgressFits, CallsFit
  <2>3. CASE run' = [run EXCEPT !.step = "group", !.next = run.next + Concurrency]
    <3>0. run.next + Concurrency \in Nat BY <2>1, TranscriptionAssumption
    <3>1. run' = [run EXCEPT !.step = "group", !.next = run.next + Concurrency, !.failed = run.failed,
                             !.wrong = run.wrong]
      BY <1>2, <2>3 DEF RunFits
    <3>2. RunFits' /\ StoredFits' /\ DeletionFits' /\ TranscriptFits'
      BY <1>2, <2>1, <3>0, <3>1, GoesOn DEF Steps
    <3>3. run'.step = "group" /\ run'.parts = run.parts BY <1>2, <2>3 DEF RunFits
    <3> QED BY <1>2, <2>1, <3>2, <3>3 DEF ProgressFits, CallsFit
  <2> QED BY <1>2, <2>2, <2>3 DEF EndGroup
<1>3. ASSUME TInv, NEW i \in DOMAIN calls, Recognised(i) \/ CallFails(i) PROVE TInv'
  <2>1. /\ run.step = "calling" /\ DOMAIN calls' \subseteq DOMAIN calls
        /\ UNCHANGED <<objects, assets, transcript, video, loose>>
        /\ run' = run \/ run' = [run EXCEPT !.wrong = TRUE]
    BY <1>3 DEF Recognised, CallFails, Without, Works, At, storage
  <2>2. PICK wrong \in BOOLEAN : run' = [run EXCEPT !.step = "calling", !.next = run.next,
                                                   !.failed = run.failed, !.wrong = wrong]
    BY <1>3, <2>1 DEF RunFits
  <2>3. run.next \in Nat /\ run.failed \in BOOLEAN BY <1>3 DEF RunFits
  <2>4. RunFits' /\ StoredFits' /\ DeletionFits' /\ TranscriptFits'
    BY <1>3, <2>1, <2>2, <2>3, GoesOn DEF Steps
  <2>5. run'.step = "calling" /\ run'.parts = run.parts BY <1>3, <2>2 DEF RunFits
  <2> QED BY <1>3, <2>1, <2>4, <2>5 DEF ProgressFits, CallsFit
<1> QED BY <1>1, <1>2, <1>3

LEMMA EndingKeeps == TInv /\ (Finish \/ Crash) => TInv'
<1> SUFFICES ASSUME TInv, Finish \/ Crash PROVE TInv' OBVIOUS
<1> USE DEF TInv
<1>1. CASE Finish
  <2>1. /\ run.step = "finalRows" /\ run' = Idle /\ assets' = {} /\ UNCHANGED <<objects, calls, video, loose>>
        /\ transcript' = IF run.failed THEN {} ELSE Merged(run.parts)
    BY <1>1 DEF Finish, Works, At
  <2>2. objects \subseteq loose BY <2>1 DEF StoredFits
  <2>3. RunFits' BY <2>1, IdleFits DEF RunFits, Idle, Steps
  <2>4. StoredFits' BY <2>1, <2>2, IdleFits DEF StoredFits
  <2>5. DeletionFits' BY <2>1, <2>2, IdleFits DEF DeletionFits
  <2>6. ProgressFits' /\ CallsFit' BY <2>1, IdleFits DEF ProgressFits, CallsFit
  <2>7. \E d \in PartLengths : run.parts = Cut(d) BY <2>1 DEF RunFits, Plans
  <2>8. TranscriptFits' BY <2>1, <2>2, <2>7 DEF TranscriptFits
  <2> QED BY <2>3, <2>4, <2>5, <2>6, <2>8
<1>2. CASE Crash
  <2>1. /\ run.step # "idle" /\ run' = Idle /\ calls' = <<>>
        /\ UNCHANGED <<objects, assets, transcript, video, loose>>
    BY <1>2 DEF Crash, storage
  <2> QED BY <2>1, IdleFits, EndKeeps DEF StoredFits
<1> QED BY <1>1, <1>2

\* A deletion makes loose what the attempt that it overtakes has stored or may store.
LEMMA DeletionKeeps == TInv /\ (AskDelete \/ DeleteObjects \/ DeleteRows) => TInv'
<1> SUFFICES ASSUME TInv, AskDelete \/ DeleteObjects \/ DeleteRows PROVE TInv' OBVIOUS
<1> USE DEF TInv
<1>1. CASE AskDelete
  BY <1>1 DEF AskDelete, storage, RunFits, StoredFits, DeletionFits, ProgressFits, CallsFit, TranscriptFits
<1>2. CASE DeleteObjects
  <2>1. /\ video = "deleting" /\ video' = "emptied" /\ objects' = objects \ assets
        /\ UNCHANGED <<run, calls, assets, transcript>>
    BY <1>2 DEF DeleteObjects
  <2>2. loose' = IF run.step = "idle" THEN loose ELSE loose \union PartsOf(run.parts)
    BY <1>2 DEF DeleteObjects
  <2>3. /\ loose \subseteq loose' /\ loose' \subseteq AllParts /\ PartsOf(run.parts) \subseteq loose'
    <3>1. CASE run.step = "idle"
      <4>1. PartsOf(run.parts) = {} BY <3>1, IdleFits DEF RunFits
      <4> QED BY <2>2, <3>1, <4>1 DEF StoredFits
    <3>2. CASE run.step # "idle"
      <4>1. PartsOf(run.parts) \subseteq AllParts BY <3>2 DEF RunFits
      <4> QED BY <2>2, <3>2, <4>1 DEF StoredFits
    <3> QED BY <3>1, <3>2
  <2>4. objects' \subseteq loose BY <2>1 DEF StoredFits
  <2>5. RunFits' BY <2>1 DEF RunFits
  <2>6. StoredFits' BY <2>1, <2>3, <2>4 DEF StoredFits
  <2>7. DeletionFits' BY <2>1, <2>3, <2>4 DEF DeletionFits
  <2>8. CallsFit' BY <2>1 DEF CallsFit
  <2>9. TranscriptFits' BY <2>1, <2>3, <2>4 DEF TranscriptFits
  <2>10. ProgressFits'
    <3>1. \A j \in DOMAIN run.parts : run.parts[j] \in loose' BY <2>3 DEF PartsOf
    <3> QED BY <2>1, <2>3, <3>1 DEF ProgressFits
  <2> QED BY <2>5, <2>6, <2>7, <2>8, <2>9, <2>10
<1>3. CASE DeleteRows
  <2>1. /\ video = "emptied" /\ video' = "gone" /\ assets' = {}
        /\ UNCHANGED <<run, calls, objects, transcript, loose>>
    BY <1>3 DEF DeleteRows
  <2>2. objects \subseteq loose /\ PartsOf(run.parts) \subseteq loose BY <2>1 DEF DeletionFits
  <2>3. \A j \in DOMAIN run.parts : run.parts[j] \in loose BY <2>2 DEF PartsOf
  <2>4. RunFits' /\ StoredFits' /\ DeletionFits' /\ CallsFit'
    BY <2>1, <2>2 DEF RunFits, StoredFits, DeletionFits, CallsFit
  <2>5. ProgressFits' BY <2>1, <2>3 DEF ProgressFits
  <2>6. TranscriptFits' BY <2>1 DEF TranscriptFits
  <2> QED BY <2>4, <2>5, <2>6
<1> QED BY <1>1, <1>2, <1>3

LEMMA TInvStep == TInv /\ [TranscriptionNext]_tvars => TInv'
<1>1. TInv /\ UNCHANGED tvars => TInv'
  BY DEF tvars, TInv, RunFits, StoredFits, DeletionFits, ProgressFits, CallsFit, TranscriptFits
<1> QED BY <1>1, BeginKeeps, SweepKeeps, StepFailsKeeps, CheckKeeps, StoreKeeps, GroupKeeps, EndingKeeps,
           DeletionKeeps DEF TranscriptionNext

LEMMA TInvAlways == TranscriptionSpec => []TInv
BY TInvInit, TInvStep, PTL DEF TranscriptionSpec

\* Parts stay for as long as they are needed and can be found for as long as they stay,
\* whatever fails and however often, with settings that change from one attempt to the
\* next: only what could not be looked up, or was overtaken by a deletion, is left behind.
THEOREM PartsStayAlways == TranscriptionSpec => []PartsStay
<1>1. TInv => PartsStay
  <2> SUFFICES ASSUME TInv PROVE PartsStay OBVIOUS
  <2> USE DEF TInv
  <2>1. PartsAreTracked BY DEF StoredFits, PartsAreTracked
  <2>2. PartsOutliveCalls
    <3> SUFFICES ASSUME NEW i \in DOMAIN calls PROVE run.parts[i] \in objects \union loose
      BY DEF PartsOutliveCalls
    <3>1. run.step = "calling" /\ i \in DOMAIN run.parts BY DEF CallsFit
    <3> QED BY <3>1 DEF ProgressFits
  <2>3. TranscriptionTypeOK
    <3>1. objects \union assets \union run.sweep \union loose \subseteq AllParts
      BY DEF RunFits, StoredFits
    <3>2. AllParts = UNION {PartsOf(Plan(l, Overlap, Length)) : l \in PartLengths}
      BY DEF AllParts, Cut
    <3>3. DOMAIN calls \subseteq DOMAIN run.parts BY DEF CallsFit
    <3> QED BY <3>1, <3>2, <3>3 DEF TranscriptionTypeOK, RunFits, Steps
  <2> QED BY <2>1, <2>2, <2>3 DEF PartsStay
<1> QED BY <1>1, TInvAlways, PTL

\* A transcript has every word of the audio once and whole, and no part is left that
\* its attempt or one before it could find.
THEOREM TranscriptIsTheAudioAlways == TranscriptionSpec => []TranscriptIsTheAudio
<1>1. TInv => TranscriptIsTheAudio
  <2> SUFFICES ASSUME TInv, transcript # {}
               PROVE  /\ {m.word : m \in transcript} = Audio
                      /\ \A m, n \in transcript : m.word = n.word => m = n
                      /\ run.step = "idle" /\ assets = {} /\ objects \subseteq loose
    BY DEF TranscriptIsTheAudio
  <2>1. /\ \E d \in PartLengths : transcript = Merged(Cut(d))
        /\ run = Idle /\ objects \subseteq loose /\ assets = {}
    BY DEF TInv, TranscriptFits
  <2>2. run.step = "idle" BY <2>1 DEF Idle
  <2>3. PICK d \in PartLengths : transcript = Merged(Cut(d)) BY <2>1
  <2>4. /\ {m.word : m \in Merged(Cut(d))} = Audio
        /\ \A m, n \in Merged(Cut(d)) : m.word = n.word => m = n
    BY PartsGiveTheAudio DEF Cut
  <2> QED BY <2>1, <2>2, <2>3, <2>4
<1> QED BY <1>1, TInvAlways, PTL
=============================================================================
