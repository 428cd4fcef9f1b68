--------------------------- MODULE OutputCutProofs ---------------------------
(***************************************************************************)
(* How a reply is cut into chunks does not matter: whatever has been       *)
(* streamed, two chunks leave the filter in the state in which the two     *)
(* taken together leave it, and what is sent for them is the same text.    *)
(***************************************************************************)
EXTENDS OutputFilterProofs

-----------------------------------------------------------------------------
(* Parts of texts, one after the other.                                     *)

LEMMA TextIs ==
  ASSUME NEW t \in Texts
  PROVE  Len(t) \in Nat /\ DOMAIN t = 1 .. Len(t) /\ \A i \in 1 .. Len(t) : t[i] \in Pieces
BY DEF Texts

LEMMA FromPieces ==
  ASSUME NEW t \in Texts, NEW k \in 1 .. Len(t) + 1
  PROVE  /\ From(t, k) \in Texts /\ Len(From(t, k)) = Len(t) - k + 1
         /\ \A i \in 1 .. Len(t) - k + 1 : From(t, k)[i] = t[i + k - 1]
<1>1. Len(t) \in Nat
  BY TextIs
<1>2. \A i \in 1 .. Len(t) - k + 1 : SubSeq(t, k, Len(t))[i] = t[k + i - 1]
  BY <1>1, SubSeqProperties DEF Texts
<1> QED BY <1>1, <1>2, FromIs DEF From

LEMMA JoinIs ==
  ASSUME NEW s \in Texts, NEW t \in Texts, NEW y, y = s \o t,
         NEW n, n = Len(s), NEW m, m = Len(t)
  PROVE  /\ y \in Texts /\ Len(y) = n + m
         /\ \A i \in 1 .. n : y[i] = s[i]
         /\ \A i \in n + 1 .. n + m : y[i] = t[i - n]
BY TwoTexts

LEMMA JoinedFrom ==
  ASSUME NEW s \in Texts, NEW b \in Texts, NEW k \in 1 .. Len(s) + 1
  PROVE  From(s, k) \o b = From(s \o b, k)
<1>1. PICK n \in Nat, m \in Nat : n = Len(s) /\ m = Len(b)
  BY TextIs
<1>2. k \in Int /\ 1 <= k /\ k <= n + 1
  BY <1>1
<1>3. PICK z \in Texts : z = s \o b
  BY TwoTexts
<1>4. /\ Len(z) = n + m /\ k \in 1 .. (n + m) + 1
      /\ \A i \in 1 .. n : z[i] = s[i]
      /\ \A i \in n + 1 .. n + m : z[i] = b[i - n]
  BY <1>1, <1>2, <1>3, JoinIs
<1>5. PICK t \in Texts : t = From(s, k)
  BY FromPieces
<1>6. Len(t) = n - k + 1 /\ \A i \in 1 .. n - k + 1 : t[i] = s[i + k - 1]
  BY <1>1, <1>5, FromPieces
<1>7. PICK u : u = From(z, k)
  OBVIOUS
<1>8. u \in Texts /\ Len(u) = (n + m) - k + 1 /\ \A i \in 1 .. (n + m) - k + 1 : u[i] = z[i + k - 1]
  <2>1. n + m = Len(z) /\ k \in 1 .. Len(z) + 1
    BY <1>4
  <2>2. u \in Texts /\ Len(u) = Len(z) - k + 1 /\ \A i \in 1 .. Len(z) - k + 1 : u[i] = z[i + k - 1]
    BY <1>7, <2>1, FromPieces
  <2> QED BY <2>1, <2>2, Zenon
<1>9. PICK l \in Nat : l = n - k + 1
  BY <1>2
<1>10. PICK y \in Texts : y = t \o b
  BY TwoTexts
<1>11. /\ Len(y) = l + m
       /\ \A i \in 1 .. l : y[i] = t[i]
       /\ \A i \in l + 1 .. l + m : y[i] = b[i - l]
  <2>1. l = Len(t)
    BY <1>6, <1>9
  <2> QED BY <1>1, <1>10, <2>1, JoinIs
<1>12. \A i \in 1 .. l + m : y[i] = z[i + k - 1]
  <2> SUFFICES ASSUME NEW i \in 1 .. l + m PROVE y[i] = z[i + k - 1]
    OBVIOUS
  <2>1. CASE i <= l
    <3>1. i \in 1 .. l /\ i \in 1 .. n - k + 1 /\ i + k - 1 \in 1 .. n
      BY <1>2, <1>9, <2>1
    <3>2. y[i] = t[i] /\ t[i] = s[i + k - 1] /\ z[i + k - 1] = s[i + k - 1]
      BY <1>4, <1>6, <1>11, <3>1
    <3> QED BY <3>2
  <2>2. CASE ~(i <= l)
    <3>1. i \in l + 1 .. l + m /\ i + k - 1 \in n + 1 .. n + m /\ i - l = i + k - 1 - n
      BY <1>2, <1>9, <2>2
    <3>2. y[i] = b[i - l] /\ z[i + k - 1] = b[i + k - 1 - n]
      BY <1>4, <1>11, <3>1
    <3> QED BY <3>1, <3>2
  <2> QED BY <2>1, <2>2
<1>13. l + m = (n + m) - k + 1
  BY <1>2, <1>9
<1>14. y = u
  BY <1>8, <1>11, <1>12, <1>13, SameText
<1> QED BY <1>3, <1>5, <1>7, <1>10, <1>14

LEMMA JoinedUpto ==
  ASSUME NEW s \in Texts, NEW b \in Texts, NEW n \in 0 .. Len(s)
  PROVE  Upto(s \o b, n) = Upto(s, n)
<1>1. Len(s) \in Nat /\ Len(b) \in Nat
  BY TextIs
<1>2. s \o b \in Texts /\ n \in 0 .. Len(s \o b)
  BY <1>1, TwoTexts
<1>3. PICK t \in Texts : t = Upto(s, n)
  BY UptoIs
<1>4. PICK u \in Texts : u = Upto(s \o b, n)
  BY <1>2, UptoIs
<1>5. Len(t) = n /\ Len(u) = n /\ \A i \in 1 .. n : t[i] = s[i] /\ u[i] = (s \o b)[i]
  BY <1>2, <1>3, <1>4, UptoIs
<1>6. \A i \in 1 .. n : i \in 1 .. Len(s)
  BY <1>1
<1>7. \A i \in 1 .. n : t[i] = u[i]
  <2>1. \A i \in 1 .. Len(s) : (s \o b)[i] = s[i]
    BY TwoTexts, Zenon
  <2> QED BY <1>5, <1>6, <2>1
<1> QED BY <1>3, <1>4, <1>5, <1>7, SameText

LEMMA FromFrom ==
  ASSUME NEW t \in Texts, NEW k \in 1 .. Len(t) + 1, NEW j \in 1 .. Len(t) - k + 2
  PROVE  From(From(t, k), j) = From(t, k + j - 1)
<1>1. Len(t) \in Nat
  BY TextIs
<1>2. PICK u \in Texts : /\ u = From(t, k) /\ Len(u) = Len(t) - k + 1
                         /\ \A i \in 1 .. Len(u) : u[i] = t[i + k - 1]
  BY FromPieces
<1>3. j \in 1 .. Len(u) + 1
  BY <1>1, <1>2
<1>4. PICK v \in Texts : /\ v = From(u, j) /\ Len(v) = Len(u) - j + 1
                         /\ \A i \in 1 .. Len(v) : v[i] = u[i + j - 1]
  BY <1>3, FromPieces
<1>5. k + j - 1 \in 1 .. Len(t) + 1
  BY <1>1
<1>6. PICK w \in Texts : /\ w = From(t, k + j - 1) /\ Len(w) = Len(t) - (k + j - 1) + 1
                         /\ \A i \in 1 .. Len(w) : w[i] = t[i + (k + j - 1) - 1]
  BY <1>5, FromPieces, Zenon
<1>7. Len(v) = Len(w)
  BY <1>1, <1>2, <1>4, <1>6
<1>8. ASSUME NEW i \in 1 .. Len(v) PROVE v[i] = w[i]
  <2>1. i + j - 1 \in 1 .. Len(u) /\ (i + j - 1) + k - 1 = i + (k + j - 1) - 1
    BY <1>1, <1>2, <1>3, <1>4
  <2> QED BY <1>2, <1>4, <1>6, <1>7, <2>1
<1> QED BY <1>2, <1>4, <1>6, <1>7, <1>8, SameText

\* What stands before j is what stands before k, and from there to j.
LEMMA UptoUpto ==
  ASSUME NEW t \in Texts, NEW k \in 1 .. Len(t) + 1, NEW j \in k .. Len(t) + 1
  PROVE  Upto(t, k - 1) \o Upto(From(t, k), j - k) = Upto(t, j - 1)
<1>1. PICK n \in Nat : n = Len(t)
  BY TextIs
<1>2. k \in Int /\ j \in Int /\ 1 <= k /\ k <= j /\ j <= n + 1
  BY <1>1
<1>3. PICK u \in Texts : u = From(t, k)
  BY FromPieces
<1>4. Len(u) = n - k + 1 /\ \A i \in 1 .. n - k + 1 : u[i] = t[i + k - 1]
  BY <1>1, <1>3, FromPieces
<1>5. k - 1 \in 0 .. n /\ j - 1 \in 0 .. n /\ j - k \in 0 .. n - k + 1
  BY <1>2
<1>6. PICK v \in Texts : v = Upto(t, k - 1) /\ Len(v) = k - 1 /\ \A i \in 1 .. k - 1 : v[i] = t[i]
  BY <1>1, <1>5, UptoIs
<1>7. PICK w \in Texts : w = Upto(u, j - k) /\ Len(w) = j - k /\ \A i \in 1 .. j - k : w[i] = u[i]
  BY <1>4, <1>5, UptoIs
<1>8. PICK x \in Texts : x = Upto(t, j - 1) /\ Len(x) = j - 1 /\ \A i \in 1 .. j - 1 : x[i] = t[i]
  BY <1>1, <1>5, UptoIs
<1>9. PICK l \in Nat, m \in Nat : l = k - 1 /\ m = j - k
  BY <1>2
<1>10. PICK y \in Texts : y = v \o w
  BY TwoTexts
<1>11. /\ Len(y) = l + m
       /\ \A i \in 1 .. l : y[i] = v[i]
       /\ \A i \in l + 1 .. l + m : y[i] = w[i - l]
  <2>1. l = Len(v) /\ m = Len(w)
    BY <1>6, <1>7, <1>9
  <2> QED BY <1>10, <2>1, JoinIs
<1>12. \A i \in 1 .. l + m : y[i] = t[i]
  <2> SUFFICES ASSUME NEW i \in 1 .. l + m PROVE y[i] = t[i]
    OBVIOUS
  <2>1. CASE i <= l
    <3>1. i \in 1 .. l /\ i \in 1 .. k - 1
      BY <1>9, <2>1
    <3> QED BY <1>6, <1>11, <3>1
  <2>2. CASE ~(i <= l)
    <3>1. /\ i \in l + 1 .. l + m /\ i - l \in 1 .. j - k /\ i - l \in 1 .. n - k + 1
          /\ (i - l) + k - 1 = i
      BY <1>2, <1>9, <2>2
    <3>2. y[i] = w[i - l] /\ w[i - l] = u[i - l] /\ u[i - l] = t[(i - l) + k - 1]
      BY <1>4, <1>7, <1>11, <3>1
    <3> QED BY <3>1, <3>2
  <2> QED BY <2>1, <2>2
<1>13. l + m = j - 1
  BY <1>2, <1>9
<1>14. y = x
  BY <1>8, <1>11, <1>12, <1>13, SameText
<1> QED BY <1>3, <1>6, <1>7, <1>8, <1>10, <1>14

LEMMA WholeText ==
  ASSUME NEW t \in Texts
  PROVE  Upto(t, 0) = <<>> /\ Upto(t, Len(t)) = t /\ From(t, 1) = t /\ From(t, Len(t) + 1) = <<>>
<1>1. Len(t) \in Nat
  BY TextIs
<1>2. Upto(t, 0) = <<>> /\ From(t, Len(t) + 1) = <<>>
  BY <1>1, SubSeqEmpty DEF Upto, From
<1> QED BY <1>2, SubSeqFull DEF Upto, From, Texts

LEMMA ThreeTexts ==
  ASSUME NEW s \in Texts, NEW t \in Texts, NEW u \in Texts
  PROVE  (s \o t) \o u = s \o (t \o u) /\ s \o <<>> = s /\ <<>> \o s = s
BY ConcatAssociative, ConcatEmptySeq DEF Texts

\* One text after another, by a name that hides what a text is made of.
Glued(s, t) == s \o t

LEMMA ThreeGlued ==
  ASSUME NEW s \in Texts, NEW t \in Texts, NEW u \in Texts
  PROVE  Glued(Glued(s, t), u) = Glued(s, Glued(t, u))
BY ThreeTexts DEF Glued

-----------------------------------------------------------------------------
(* Places, in a text that goes on and in what is left of one.               *)

\* The pieces of markers.
MarkWords ==
  {"[", "Call", "/Call", "ToolCalls", "/ToolCalls", "]", "<", "|im_start|>", "|im_end|>", ">",
   "Generate", "/Generate", "Widget", "Widget>", "Follow", "Up"}

\* m, wherever it stands in t.
Matching(m, t, i) == \A k \in 1 .. Len(m) : t[i + k - 1] = m[k]

LEMMA PlaceIs ==
  ASSUME NEW t \in Texts, NEW m \in Seq(MarkWords), Len(m) > 0, NEW i
  PROVE  i \in Places(m, t) <=> i \in Int /\ 1 <= i /\ i + Len(m) - 1 <= Len(t) /\ Matching(m, t, i)
<1>1. PICK l \in Nat, n \in Nat : l = Len(t) /\ n = Len(m) /\ n > 0
  BY TextIs
<1>2. i \in 1 .. l - n + 1 <=> i \in Int /\ 1 <= i /\ i + n - 1 <= l
  BY <1>1
<1>3. ASSUME i \in 1 .. l - n + 1
      PROVE  SubSeq(t, i, i + n - 1) = m <=> Matching(m, t, i)
  <2>1. i \in Int /\ i + n - 1 \in Int /\ i <= i + n - 1 /\ (i + n - 1) - i + 1 = n
    BY <1>1, <1>3
  <2>2. \A k \in i .. i + n - 1 : k \in 1 .. l
    BY <1>3
  <2>3. \A k \in i .. i + n - 1 : t[k] \in Pieces
    BY <1>1, <2>2, TextIs
  <2>4. PICK u : u = SubSeq(t, i, i + n - 1)
    OBVIOUS
  <2>5. u \in Seq(Pieces) /\ Len(u) = n
    BY <2>1, <2>3, <2>4, SubSeqProperties
  <2>6. \A k \in 1 .. (i + n - 1) - i + 1 : u[k] = t[i + k - 1]
    BY <2>1, <2>3, <2>4, SubSeqProperties
  <2>7. \A k \in 1 .. n : u[k] = t[i + k - 1]
    BY <2>1, <2>6, Zenon
  <2>8. u = m <=> \A k \in 1 .. n : u[k] = m[k]
    BY <1>1, <2>5
  <2> QED BY <1>1, <2>4, <2>7, <2>8 DEF Matching
<1> QED BY <1>1, <1>2, <1>3 DEF Places

LEMMA PlacesFrom ==
  ASSUME NEW t \in Texts, NEW k \in 1 .. Len(t) + 1,
         NEW m \in Seq(MarkWords), Len(m) > 0, NEW i \in Int
  PROVE  i \in Places(m, From(t, k)) <=> 1 <= i /\ i + k - 1 \in Places(m, t)
<1>1. PICK l \in Nat, n \in Nat : l = Len(t) /\ n = Len(m) /\ n > 0
  BY TextIs
<1>2. k \in Int /\ 1 <= k /\ k <= l + 1
  BY <1>1
<1>3. PICK u \in Texts : u = From(t, k)
  BY FromPieces
<1>4. Len(u) = l - k + 1 /\ \A j \in 1 .. l - k + 1 : u[j] = t[j + k - 1]
  BY <1>1, <1>3, FromPieces
<1>5. i \in Places(m, u) <=> 1 <= i /\ i + Len(m) - 1 <= Len(u) /\ Matching(m, u, i)
  BY <1>1, PlaceIs
<1>6. PICK o \in Int : o = i + k - 1
  BY <1>2
<1>7. o \in Places(m, t) <=> 1 <= o /\ o + Len(m) - 1 <= Len(t) /\ Matching(m, t, o)
  BY <1>1, PlaceIs
<1>8. i + n - 1 <= l - k + 1 <=> o + n - 1 <= l
  BY <1>2, <1>6
<1>9. ASSUME 1 <= i, i + n - 1 <= l - k + 1
      PROVE  Matching(m, u, i) <=> Matching(m, t, o)
  <2>1. ASSUME NEW j \in 1 .. n PROVE u[i + j - 1] = t[o + j - 1]
    <3>1. i + j - 1 \in 1 .. l - k + 1 /\ (i + j - 1) + k - 1 = o + j - 1
      BY <1>2, <1>6, <1>9
    <3> QED BY <1>4, <3>1
  <2> QED BY <1>1, <2>1 DEF Matching
<1>10. 1 <= i => 1 <= o
  BY <1>2, <1>6
<1> QED BY <1>1, <1>3, <1>4, <1>5, <1>6, <1>7, <1>8, <1>9, <1>10

LEMMA PlacesJoined ==
  ASSUME NEW s \in Texts, NEW b \in Texts, NEW m \in Seq(MarkWords), Len(m) > 0, NEW i
  PROVE  i \in Places(m, s) <=> i \in Places(m, s \o b) /\ i + Len(m) - 1 <= Len(s)
<1>1. PICK l \in Nat, n \in Nat, lb \in Nat : l = Len(s) /\ n = Len(m) /\ n > 0 /\ lb = Len(b)
  BY TextIs
<1>2. PICK z \in Texts : z = s \o b
  BY TwoTexts
<1>3. Len(z) = l + lb /\ \A j \in 1 .. l : z[j] = s[j]
  BY <1>1, <1>2, JoinIs
<1>4. i \in Places(m, s) <=> i \in Int /\ 1 <= i /\ i + Len(m) - 1 <= Len(s) /\ Matching(m, s, i)
  BY PlaceIs
<1>5. i \in Places(m, z) <=> i \in Int /\ 1 <= i /\ i + Len(m) - 1 <= Len(z) /\ Matching(m, z, i)
  BY PlaceIs
<1>6. ASSUME i \in Int, 1 <= i, i + n - 1 <= l
      PROVE  i + n - 1 <= l + lb /\ (Matching(m, s, i) <=> Matching(m, z, i))
  <2>1. ASSUME NEW j \in 1 .. n PROVE z[i + j - 1] = s[i + j - 1]
    <3>1. i + j - 1 \in 1 .. l
      BY <1>6
    <3> QED BY <1>3, <3>1
  <2>2. i + n - 1 <= l + lb
    BY <1>6
  <2> QED BY <1>1, <2>1, <2>2 DEF Matching
<1> QED BY <1>1, <1>2, <1>3, <1>4, <1>5, <1>6

-----------------------------------------------------------------------------
(* Loops.                                                                   *)

\* What a loop is given later it may as well be given at once, if that is so of a
\* single step.
LEMMA LoopCut ==
  ASSUME NEW S, NEW step \in [S -> S], NEW size \in [S -> Nat],
         \A x \in S : step[x] # x => size[step[x]] < size[x],
         NEW more \in [S -> S],
         \A x \in S : Drained(step, more[step[x]]) = Drained(step, more[x]),
         NEW x \in S
  PROVE  Drained(step, more[Drained(step, x)]) = Drained(step, more[x])
<1> DEFINE Holds(y) == Drained(step, more[Drained(step, y)]) = Drained(step, more[y])
           bad == {k \in Nat : \E y \in S : size[y] = k /\ ~Holds(y)}
<1>1. ASSUME NEW y \in S
      PROVE  /\ step[y] = y => Drained(step, y) = y
             /\ Drained(step, y) = Drained(step, step[y])
             /\ step[y] \in S /\ size[y] \in Nat
  BY DrainedEnds
<1>2. bad = {}
  <2> SUFFICES ASSUME bad # {} PROVE FALSE
    OBVIOUS
  <2>1. PICK k \in bad : \A j \in bad : k <= j
    BY Least
  <2>2. PICK y \in S : size[y] = k /\ ~Holds(y)
    BY <2>1
  <2>3. step[y] # y
    <3>1. step[y] = y => Drained(step, y) = y
      BY <1>1
    <3> QED BY <2>2, <3>1, Zenon
  <2>4. step[y] \in S /\ size[step[y]] \in Nat /\ size[step[y]] < k /\ k \in Nat
    BY <1>1, <2>2, <2>3
  <2>5. Holds(step[y])
    <3> HIDE DEF Holds
    <3> QED BY <2>1, <2>4
  <2>6. Drained(step, more[step[y]]) = Drained(step, more[y]) /\ Drained(step, y) = Drained(step, step[y])
    BY <1>1
  <2> QED BY <2>2, <2>5, <2>6, Zenon
<1>3. Holds(x)
  <2> HIDE DEF Holds
  <2> QED BY <1>1, <1>2
<1> QED BY <1>3

\* A loop that does not look at something leaves it what it is.
LEMMA LoopPut ==
  ASSUME NEW S, NEW step \in [S -> S], NEW size \in [S -> Nat],
         \A x \in S : step[x] # x => size[step[x]] < size[x],
         NEW put \in [S -> S],
         \A x \in S : step[put[x]] = put[step[x]],
         NEW x \in S
  PROVE  Drained(step, put[x]) = put[Drained(step, x)]
<1> DEFINE Holds(y) == Drained(step, put[y]) = put[Drained(step, y)]
           bad == {k \in Nat : \E y \in S : size[y] = k /\ ~Holds(y)}
<1>1. ASSUME NEW y \in S
      PROVE  /\ step[y] = y => Drained(step, y) = y
             /\ Drained(step, y) = Drained(step, step[y])
             /\ step[y] \in S /\ put[y] \in S /\ size[y] \in Nat
  BY DrainedEnds
<1>2. bad = {}
  <2> SUFFICES ASSUME bad # {} PROVE FALSE
    OBVIOUS
  <2>1. PICK k \in bad : \A j \in bad : k <= j
    BY Least
  <2>2. PICK y \in S : size[y] = k /\ ~Holds(y)
    BY <2>1
  <2>3. step[y] # y
    <3>1. step[y] = y => Drained(step, y) = y
      BY <1>1
    <3>2. step[put[y]] = put[y] => Drained(step, put[y]) = put[y]
      BY <1>1
    <3>3. step[put[y]] = put[step[y]]
      OBVIOUS
    <3> QED BY <2>2, <3>1, <3>2, <3>3, Zenon
  <2>4. step[y] \in S /\ size[step[y]] \in Nat /\ size[step[y]] < k /\ k \in Nat
    BY <1>1, <2>2, <2>3
  <2>5. Holds(step[y])
    <3> HIDE DEF Holds
    <3> QED BY <2>1, <2>4
  <2>6. Drained(step, y) = Drained(step, step[y]) /\ Drained(step, put[y]) = Drained(step, step[put[y]])
    BY <1>1
  <2>7. step[put[y]] = put[step[y]]
    OBVIOUS
  <2> QED BY <2>2, <2>5, <2>6, <2>7, Zenon
<1>3. Holds(x)
  <2> HIDE DEF Holds
  <2> QED BY <1>1, <1>2
<1> QED BY <1>3

-----------------------------------------------------------------------------
(* The first stage: what may still grow into a marker.                      *)

LEMMA PairIs ==
  ASSUME NEW a, NEW b, NEW W, a \in W, b \in W, NEW m, m = <<a, b>>
  PROVE  m \in Seq(W) /\ Len(m) = 2 /\ m[1] = a /\ m[2] = b
OBVIOUS

LEMMA Marks ==
  /\ \A m \in Starts \cup Exits : m \in Seq(MarkWords) /\ Len(m) \in {2, 3}
  /\ \A m \in Starts \cup Exits : Len(m) = 2 => m[1] = "<"
  /\ \A m \in Starts \cup Exits : Len(m) = 3 => m[1] = "[" /\ m[2] # "]"
  /\ \A m, n \in Starts \cup Exits : m[2] = n[2] => m = n
<1>1. /\ CallStart \in Seq(MarkWords) /\ Len(CallStart) = 3 /\ CallStart[1] = "[" /\ CallStart[2] = "Call"
      /\ CallEnd \in Seq(MarkWords) /\ Len(CallEnd) = 3 /\ CallEnd[1] = "[" /\ CallEnd[2] = "/Call"
  BY DEF MarkWords, CallStart, CallEnd
<1>2. /\ ToolStart \in Seq(MarkWords) /\ Len(ToolStart) = 3 /\ ToolStart[1] = "[" /\ ToolStart[2] = "ToolCalls"
      /\ ToolEnd \in Seq(MarkWords) /\ Len(ToolEnd) = 3 /\ ToolEnd[1] = "[" /\ ToolEnd[2] = "/ToolCalls"
  BY DEF MarkWords, ToolStart, ToolEnd
<1>3. /\ TagStart \in Seq(MarkWords) /\ Len(TagStart) = 2 /\ TagStart[1] = "<" /\ TagStart[2] = "|im_start|>"
      /\ TagEnd \in Seq(MarkWords) /\ Len(TagEnd) = 2 /\ TagEnd[1] = "<" /\ TagEnd[2] = "|im_end|>"
  BY DEF MarkWords, TagStart, TagEnd
<1>4. \A m : m \in Starts \cup Exits <=>
              m \in {CallStart, CallEnd, ToolStart, ToolEnd, TagStart, TagEnd}
  BY Zenon DEF Starts, Exits
<1>5. /\ \A m \in Starts \cup Exits : m \in Seq(MarkWords) /\ Len(m) \in {2, 3}
      /\ \A m \in Starts \cup Exits : Len(m) = 2 => m[1] = "<"
      /\ \A m \in Starts \cup Exits : Len(m) = 3 => m[1] = "["
  <2>1. 2 # 3
    OBVIOUS
  <2> QED BY <1>1, <1>2, <1>3, <1>4, <2>1, Zenon
<1>6. \A m \in Starts \cup Exits : m[2] # "]"
  BY <1>1, <1>2, <1>3, <1>4, Zenon
<1>7. \A m, n \in Starts \cup Exits : m[2] = n[2] => m = n
  <2> SUFFICES ASSUME NEW m \in Starts \cup Exits, NEW n \in Starts \cup Exits, m[2] = n[2]
               PROVE  m = n
    OBVIOUS
  <2>1. m = CallStart \/ m = CallEnd => m = n
    BY <1>1, <1>2, <1>3, <1>4, Zenon
  <2>2. m = ToolStart \/ m = ToolEnd => m = n
    BY <1>1, <1>2, <1>3, <1>4, Zenon
  <2>3. m = TagStart \/ m = TagEnd => m = n
    BY <1>1, <1>2, <1>3, <1>4, Zenon
  <2> QED BY <1>4, <2>1, <2>2, <2>3, Zenon
<1> QED BY <1>5, <1>6, <1>7

\* At i in s something begins that what follows s may complete.
Grows(s, i) ==
  \/ s[i] = "[" /\ \A j \in i + 1 .. Len(s) : s[j] # "]"
  \/ s[i] = "<" /\ i = Len(s)
  \/ s[i] = "<" /\ i = Len(s) - 1 /\ s[i + 1] = ">"

LEMMA TailAtIs ==
  ASSUME NEW s \in Texts
  PROVE  /\ TailAt(s) \in 1 .. Len(s) + 1
         /\ TailAt(s) # Len(s) + 1 => Grows(s, TailAt(s))
         /\ \A i \in 1 .. Len(s) : Grows(s, i) => TailAt(s) <= i
<1> DEFINE open == {i \in Where({"["}, s) : \A j \in Where({"]"}, s) : j < i}
           last == IF s # <<>> /\ s[Len(s)] = "<" THEN {Len(s)} ELSE {}
           none == {i \in Places(<<"<", ">">>, s) : i = Len(s) - 1}
           all == open \cup last \cup none
<1>1. PICK n \in Nat : n = Len(s) /\ DOMAIN s = 1 .. n /\ (s # <<>> <=> n > 0)
  <2>1. Len(s) \in Nat /\ DOMAIN s = 1 .. Len(s)
    BY TextIs
  <2>2. s # <<>> <=> Len(s) > 0
    BY <2>1, EmptySeq DEF Texts
  <2> QED BY <2>1, <2>2
<1>2. \A i : i \in open <=> i \in 1 .. n /\ s[i] = "[" /\ \A j \in i + 1 .. n : s[j] # "]"
  <2>1. ASSUME NEW i PROVE i \in Where({"["}, s) <=> i \in 1 .. n /\ s[i] = "["
    BY <1>1 DEF Where
  <2>2. ASSUME NEW j PROVE j \in Where({"]"}, s) <=> j \in 1 .. n /\ s[j] = "]"
    BY <1>1 DEF Where
  <2>3. ASSUME NEW i \in 1 .. n, s[i] = "["
        PROVE  (\A j \in Where({"]"}, s) : j < i) <=> \A j \in i + 1 .. n : s[j] # "]"
    <3>1. ASSUME \A j \in Where({"]"}, s) : j < i, NEW j \in i + 1 .. n PROVE s[j] # "]"
      <4>1. j \in 1 .. n /\ ~(j < i)
        OBVIOUS
      <4> QED BY <2>2, <3>1, <4>1
    <3>2. ASSUME \A j \in i + 1 .. n : s[j] # "]", NEW j \in Where({"]"}, s) PROVE j < i
      <4>1. j \in 1 .. n /\ s[j] = "]" /\ j # i
        BY <2>2, <2>3
      <4>2. ~(j \in i + 1 .. n)
        BY <3>2, <4>1
      <4> QED BY <4>1, <4>2
    <3> QED BY <3>1, <3>2
  <2> QED BY <2>1, <2>3
<1>3. \A i : i \in last <=> i \in 1 .. n /\ s[i] = "<" /\ i = n
  BY <1>1
<1>4. \A i : i \in none <=> i \in 1 .. n /\ s[i] = "<" /\ i = n - 1 /\ s[i + 1] = ">"
  <2>1. PICK m \in Seq(MarkWords) : m = <<"<", ">">> /\ Len(m) = 2 /\ m[1] = "<" /\ m[2] = ">"
    <3>1. PICK m : m = <<"<", ">">>
      OBVIOUS
    <3>2. "<" \in MarkWords /\ ">" \in MarkWords
      BY Zenon DEF MarkWords
    <3>3. m \in Seq(MarkWords) /\ Len(m) = 2 /\ m[1] = "<" /\ m[2] = ">"
      BY <3>1, <3>2, PairIs
    <3> QED BY <3>1, <3>3, Zenon
  <2> SUFFICES ASSUME NEW i
               PROVE  i \in none <=> i \in 1 .. n /\ s[i] = "<" /\ i = n - 1 /\ s[i + 1] = ">"
    OBVIOUS
  <2>2. i \in Places(m, s) <=> i \in Int /\ 1 <= i /\ i + Len(m) - 1 <= Len(s) /\ Matching(m, s, i)
    <3>1. m \in Seq(MarkWords) /\ Len(m) > 0
      BY <2>1
    <3> QED BY <3>1, PlaceIs
  <2>3. i \in Int => (Matching(m, s, i) <=> s[i] = "<" /\ s[i + 1] = ">")
    <3>1. i \in Int => i + 1 - 1 = i /\ i + 2 - 1 = i + 1
      OBVIOUS
    <3>2. Matching(m, s, i) <=> s[i + 1 - 1] = m[1] /\ s[i + 2 - 1] = m[2]
      BY <2>1 DEF Matching
    <3> QED BY <2>1, <3>1, <3>2
  <2>4. i \in none <=> i \in Places(m, s) /\ i = n - 1
    BY <1>1, <2>1
  <2>5. i = n - 1 => (i \in Int /\ 1 <= i /\ i + 2 - 1 <= n <=> i \in 1 .. n)
    OBVIOUS
  <2> QED BY <1>1, <2>1, <2>2, <2>3, <2>4, <2>5
<1>5. \A i : i \in all <=> i \in 1 .. n /\ Grows(s, i)
  BY <1>1, <1>2, <1>3, <1>4 DEF Grows
<1>6. TailAt(s) = IF all = {} THEN n + 1 ELSE First(all)
  BY <1>1 DEF TailAt
<1> HIDE DEF all
<1>7. CASE all = {}
  BY <1>1, <1>5, <1>6, <1>7
<1>8. CASE all # {}
  <2>1. all \in SUBSET Nat
    BY <1>5
  <2>2. First(all) \in all /\ \A j \in all : First(all) <= j
    BY <1>8, <2>1, FirstIs
  <2>3. PICK f : f = First(all)
    OBVIOUS
  <2>4. f \in 1 .. n /\ Grows(s, f) /\ \A j \in 1 .. n : Grows(s, j) => f <= j
    BY <1>5, <2>2, <2>3
  <2>5. TailAt(s) = f
    BY <1>6, <1>8, <2>3
  <2>6. f \in 1 .. n + 1
    BY <2>4
  <2> QED BY <1>1, <2>4, <2>5, <2>6
<1> QED BY <1>7, <1>8

\* What is kept of a text is kept of the text from k on, when it begins no sooner.
LEMMA TailFrom ==
  ASSUME NEW t \in Texts, NEW k \in 1 .. Len(t) + 1, k <= TailAt(t)
  PROVE  TailAt(From(t, k)) = TailAt(t) - k + 1
<1>1. PICK n \in Nat : n = Len(t)
  BY TextIs
<1>2. PICK e \in 1 .. n + 1 : e = TailAt(t)
  BY <1>1, TailAtIs
<1>3. (e # n + 1 => Grows(t, e)) /\ \A i \in 1 .. n : Grows(t, i) => e <= i
  <2>1. TailAt(t) # Len(t) + 1 => Grows(t, TailAt(t))
    BY TailAtIs
  <2>2. \A i \in 1 .. Len(t) : Grows(t, i) => TailAt(t) <= i
    BY TailAtIs
  <2> QED BY <1>1, <1>2, <2>1, <2>2
<1>4. PICK u \in Texts : u = From(t, k)
  BY FromPieces
<1>5. PICK l \in Nat : l = n - k + 1 /\ l = Len(u) /\ \A i \in 1 .. l : u[i] = t[i + k - 1]
  <2>1. Len(u) = n - k + 1 /\ \A i \in 1 .. n - k + 1 : u[i] = t[i + k - 1]
    BY <1>1, <1>4, FromPieces
  <2>2. n - k + 1 \in Nat
    BY <1>1
  <2> QED BY <2>1, <2>2
<1>6. PICK d \in 1 .. l + 1 : d = TailAt(u)
  BY <1>5, TailAtIs
<1>7. (d # l + 1 => Grows(u, d)) /\ \A i \in 1 .. l : Grows(u, i) => d <= i
  <2>1. TailAt(u) # Len(u) + 1 => Grows(u, TailAt(u))
    BY TailAtIs
  <2>2. \A i \in 1 .. Len(u) : Grows(u, i) => TailAt(u) <= i
    BY TailAtIs
  <2> QED BY <1>5, <1>6, <2>1, <2>2
<1>8. ASSUME NEW i \in 1 .. l PROVE Grows(u, i) <=> Grows(t, i + k - 1)
  <2>1. PICK o \in Int : o = i + k - 1 /\ o \in 1 .. n
    BY <1>1, <1>5
  <2>2. u[i] = t[o]
    BY <1>5, <2>1
  <2>3. i = l <=> o = n
    BY <1>1, <1>5, <2>1
  <2>4. i = l - 1 <=> o = n - 1
    <3>1. l = n - k + 1 /\ o = i + k - 1 /\ k \in Int
      BY <1>1, <1>5, <2>1
    <3> QED BY <3>1
  <2>5. i = l - 1 => u[i + 1] = t[o + 1]
    <3>1. i = l - 1 => i + 1 \in 1 .. l /\ i + 1 + k - 1 = o + 1
      BY <1>1, <2>1
    <3> QED BY <1>5, <3>1
  <2>6. (\A j \in i + 1 .. l : u[j] # "]") <=> \A j \in o + 1 .. n : t[j] # "]"
    <3>1. ASSUME \A j \in i + 1 .. l : u[j] # "]", NEW j \in o + 1 .. n PROVE t[j] # "]"
      <4>1. j - k + 1 \in i + 1 .. l /\ j - k + 1 \in 1 .. l /\ (j - k + 1) + k - 1 = j
        BY <1>1, <1>5, <2>1
      <4> QED BY <1>5, <3>1, <4>1
    <3>2. ASSUME \A j \in o + 1 .. n : t[j] # "]", NEW j \in i + 1 .. l PROVE u[j] # "]"
      <4>1. j + k - 1 \in o + 1 .. n /\ j \in 1 .. l
        BY <1>1, <1>5, <2>1
      <4> QED BY <1>5, <3>2, <4>1
    <3> QED BY <3>1, <3>2
  <2> QED BY <1>1, <1>5, <2>1, <2>2, <2>3, <2>4, <2>5, <2>6 DEF Grows
<1>9. k \in Int /\ 1 <= k /\ k <= e /\ k <= n + 1
  BY <1>1, <1>2
<1>10. d <= e - k + 1
  <2>1. CASE e = n + 1
    BY <1>5, <1>6, <1>9, <2>1
  <2>2. CASE e # n + 1
    <3>1. PICK i \in 1 .. l : i = e - k + 1 /\ i + k - 1 = e
      BY <1>2, <1>5, <1>9, <2>2
    <3>2. Grows(u, i)
      BY <1>3, <1>8, <2>2, <3>1
    <3> QED BY <1>7, <3>1, <3>2
  <2> QED BY <2>1, <2>2
<1>11. e - k + 1 <= d
  <2>1. CASE d = l + 1
    BY <1>2, <1>5, <1>9, <2>1
  <2>2. CASE d # l + 1
    <3>1. d \in 1 .. l /\ d + k - 1 \in 1 .. n
      BY <1>5, <1>6, <1>9, <2>2
    <3>2. Grows(t, d + k - 1)
      BY <1>7, <1>8, <2>2, <3>1
    <3>3. e <= d + k - 1
      BY <1>3, <3>1, <3>2
    <3> QED BY <1>2, <1>9, <3>1, <3>3
  <2> QED BY <2>1, <2>2
<1>12. d = e - k + 1
  BY <1>2, <1>6, <1>9, <1>10, <1>11
<1> QED BY <1>2, <1>4, <1>6, <1>12

\* What goes on is kept from no sooner.
LEMMA TailJoined ==
  ASSUME NEW s \in Texts, NEW b \in Texts
  PROVE  TailAt(s) <= TailAt(s \o b)
<1>1. PICK n \in Nat, m \in Nat : n = Len(s) /\ m = Len(b)
  BY TextIs
<1>2. PICK t \in Texts : t = s \o b
  BY TwoTexts
<1>3. Len(t) = n + m /\ \A i \in 1 .. n : t[i] = s[i]
  BY <1>1, <1>2, JoinIs
<1>4. PICK k \in 1 .. n + 1 : k = TailAt(s)
  BY <1>1, TailAtIs
<1>5. \A i \in 1 .. n : Grows(s, i) => k <= i
  <2>1. \A i \in 1 .. Len(s) : Grows(s, i) => TailAt(s) <= i
    BY TailAtIs
  <2> QED BY <1>1, <1>4, <2>1
<1>6. PICK e \in 1 .. n + m + 1 : e = TailAt(t) /\ (e # n + m + 1 => Grows(t, e))
  <2>1. TailAt(t) # Len(t) + 1 => Grows(t, TailAt(t))
    BY TailAtIs
  <2>2. TailAt(t) \in 1 .. Len(t) + 1
    BY TailAtIs
  <2> QED BY <1>3, <2>1, <2>2
<1>7. SUFFICES ASSUME e < k PROVE FALSE
  BY <1>2, <1>4, <1>6
<1>8. e \in 1 .. n /\ e # n + m + 1
  BY <1>4, <1>6, <1>7
<1>9. Grows(t, e) /\ t[e] = s[e]
  BY <1>3, <1>6, <1>8
<1>10. Grows(s, e)
  <2>1. CASE t[e] = "[" /\ \A j \in e + 1 .. Len(t) : t[j] # "]"
    <3>1. \A j \in e + 1 .. n : j \in e + 1 .. Len(t) /\ j \in 1 .. n
      BY <1>3, <1>8
    <3>2. \A j \in e + 1 .. n : s[j] # "]"
      BY <1>3, <2>1, <3>1
    <3> QED BY <1>1, <1>9, <2>1, <3>2 DEF Grows
  <2>2. CASE t[e] = "<" /\ e = Len(t)
    <3>1. e = n
      BY <1>3, <1>8, <2>2
    <3> QED BY <1>1, <1>9, <2>2, <3>1 DEF Grows
  <2>3. CASE t[e] = "<" /\ e = Len(t) - 1 /\ t[e + 1] = ">"
    <3>1. e = n \/ (e = n - 1 /\ e + 1 \in 1 .. n)
      BY <1>3, <1>8, <2>3
    <3>2. e = n - 1 /\ e + 1 \in 1 .. n => s[e + 1] = ">"
      BY <1>3, <2>3
    <3> QED BY <1>1, <1>9, <2>3, <3>1, <3>2 DEF Grows
  <2> QED BY <1>9, <2>1, <2>2, <2>3 DEF Grows
<1> QED BY <1>4, <1>5, <1>7, <1>8, <1>10

\* A marker that only what follows completes begins where the text is kept.
LEMMA MarkerJoined ==
  ASSUME NEW s \in Texts, NEW b \in Texts, NEW m \in Starts \cup Exits,
         NEW i \in Places(m, s \o b), i \notin Places(m, s)
  PROVE  TailAt(s) <= i /\ Len(s) - 1 <= i /\ i \in Int /\ i + Len(m) - 1 > Len(s)
<1>1. PICK n \in Nat, l \in Nat : n = Len(s) /\ l = Len(b)
  BY TextIs
<1>2. PICK t \in Texts : t = s \o b
  BY TwoTexts
<1>3. Len(t) = n + l /\ \A j \in 1 .. n : t[j] = s[j]
  BY <1>1, <1>2, JoinIs
<1>4. m \in Seq(MarkWords) /\ Len(m) \in {2, 3}
  BY Marks
<1>5. i \in Int /\ 1 <= i /\ Matching(m, t, i)
  <2>1. m \in Seq(MarkWords) /\ (Len(m) = 2 \/ Len(m) = 3)
    BY <1>4, Zenon
  <2>2. Len(m) > 0
    BY <2>1
  <2>3. i \in Places(m, t)
    BY <1>2
  <2> QED BY <2>1, <2>2, <2>3, PlaceIs
<1>6. i + Len(m) - 1 > n
  <2>1. ~(i + Len(m) - 1 <= Len(s))
    BY <1>4, PlacesJoined
  <2> QED BY <1>1, <1>4, <1>5, <2>1
<1>7. TailAt(s) \in 1 .. n + 1 /\ \A j \in 1 .. n : Grows(s, j) => TailAt(s) <= j
  BY <1>1, TailAtIs
<1>8. CASE i > n
  BY <1>1, <1>4, <1>5, <1>6, <1>7, <1>8
<1>9. CASE i <= n
  <2>1. i \in 1 .. n /\ n - 1 <= i
    <3>1. Len(m) = 2 \/ Len(m) = 3
      BY <1>4
    <3>2. n \in Nat /\ i \in Int /\ 1 <= i /\ i <= n
      BY <1>5, <1>9
    <3>3. CASE Len(m) = 2
      BY <1>6, <3>2, <3>3
    <3>4. CASE Len(m) = 3
      BY <1>6, <3>2, <3>4
    <3> QED BY <3>1, <3>3, <3>4
  <2>2. t[i] = m[1]
    <3>1. 1 \in 1 .. Len(m)
      <4>1. Len(m) = 2 \/ Len(m) = 3
        BY <1>4, Zenon
      <4> QED BY <4>1
    <3>2. i + 1 - 1 = i
      BY <2>1
    <3>3. t[i + 1 - 1] = m[1]
      BY <1>5, <3>1 DEF Matching
    <3> QED BY <3>2, <3>3
  <2>3. CASE Len(m) = 2
    <3>1. i = n
      BY <1>6, <1>9, <2>1, <2>3
    <3>2. s[i] = "<"
      BY <1>3, <2>1, <2>2, <2>3, Marks
    <3>3. Grows(s, i)
      BY <1>1, <3>1, <3>2 DEF Grows
    <3> QED BY <1>1, <1>4, <1>5, <1>6, <1>7, <2>1, <3>3
  <2>4. CASE Len(m) = 3
    <3>1. s[i] = "["
      BY <1>3, <2>1, <2>2, <2>4, Marks
    <3>2. t[i + 1] = m[2] /\ m[2] # "]"
      <4>1. 2 \in 1 .. Len(m) /\ i + 2 - 1 = i + 1
        BY <2>1, <2>4
      <4>2. t[i + 2 - 1] = m[2]
        BY <1>5, <4>1 DEF Matching
      <4> QED BY <2>4, <4>1, <4>2, Marks
    <3>3. ASSUME NEW j \in i + 1 .. n PROVE s[j] # "]"
      <4>1. j = i + 1 /\ j \in 1 .. n
        BY <2>1
      <4> QED BY <1>3, <3>2, <4>1
    <3>4. Grows(s, i)
      BY <1>1, <3>1, <3>3 DEF Grows
    <3> QED BY <1>1, <1>4, <1>5, <1>6, <1>7, <2>1, <3>4
  <2> QED BY <1>4, <2>3, <2>4
<1> QED BY <1>1, <1>5, <1>8, <1>9

-----------------------------------------------------------------------------
(* The first stage: its steps.                                              *)

\* The filter with b more to look at, and the filter as it goes on from d: what d
\* gave out is before what it gives out, and the later stages are in d's state.
Fuller(f, b) == [f EXCEPT !.buffer = @ \o b]
Ahead(f, d) == [f EXCEPT !.out = d.out \o @, !.widget = d.widget,
                         !.inWidget = d.inWidget, !.followUp = d.followUp]

\* The same state of the first stage, and of the later ones.
Steered(f, g) == f.stack = g.stack /\ f.role = g.role
Aside(f, g) == f.widget = g.widget /\ f.inWidget = g.inWidget /\ f.followUp = g.followUp

\* All but the buffer and what is given out.
SameStage(f, g) ==
  /\ f.stack = g.stack /\ f.role = g.role
  /\ f.widget = g.widget /\ f.inWidget = g.inWidget /\ f.followUp = g.followUp

LEMMA SameFilter ==
  ASSUME NEW f \in Filters, NEW g \in Filters, SameStage(f, g), f.buffer = g.buffer, f.out = g.out
  PROVE  f = g
<1> DEFINE Parts(h) == [buffer |-> h.buffer, stack |-> h.stack, role |-> h.role, out |-> h.out,
                        widget |-> h.widget, inWidget |-> h.inWidget, followUp |-> h.followUp]
<1>1. f = Parts(f) /\ g = Parts(g)
  BY DEF Filters
<1>2. Parts(f) = Parts(g)
  BY DEF SameStage
<1> QED BY <1>1, <1>2, Zenon

LEMMA SteeredIs ==
  ASSUME NEW f, NEW g, Steered(f, g)
  PROVE  /\ State(f) = State(g) /\ (Outputting(f) <=> Outputting(g))
         /\ \A v : Goto(f, v) = Goto(g, v)
         /\ \A m : Enter(f, m) = Enter(g, m) /\ Leave(f, m) = Leave(g, m)
         /\ \A s : f.out = g.out => Emit(f, s) = Emit(g, s)
BY DEF Steered, State, Outputting, Goto, Enter, Leave, Emit

LEMMA AlikeIs ==
  ASSUME NEW f, NEW g, SameStage(f, g)
  PROVE  /\ State(f) = State(g) /\ (Outputting(f) <=> Outputting(g))
         /\ \A v : Goto(f, v) = Goto(g, v)
         /\ \A m : Enter(f, m) = Enter(g, m) /\ Leave(f, m) = Leave(g, m)
         /\ \A s : f.out = g.out => Emit(f, s) = Emit(g, s)
BY DEF SameStage, State, Outputting, Goto, Enter, Leave, Emit

LEMMA MoreIs ==
  ASSUME NEW f \in Filters, NEW b \in Texts
  PROVE  /\ Fuller(f, b) \in Filters /\ SameStage(Fuller(f, b), f)
         /\ Fuller(f, b).buffer = f.buffer \o b /\ Fuller(f, b).out = f.out
<1>1. PICK s \in Texts : s = f.buffer \o b
  BY FilterParts, TwoTexts
<1>2. PICK g : g = [f EXCEPT !.buffer = s]
  OBVIOUS
<1>3. g \in Filters /\ SameStage(g, f) /\ g.buffer = s /\ g.out = f.out
  BY <1>2 DEF Filters, SameStage
<1>4. Fuller(f, b) = g
  BY <1>1, <1>2 DEF Fuller
<1> QED BY <1>1, <1>3, <1>4

LEMMA AheadIs ==
  ASSUME NEW f \in Filters, NEW d \in Filters
  PROVE  /\ Ahead(f, d) \in Filters /\ Steered(Ahead(f, d), f) /\ Aside(Ahead(f, d), d)
         /\ Ahead(f, d).buffer = f.buffer /\ Ahead(f, d).out = d.out \o f.out
<1>1. PICK s \in Texts : s = d.out \o f.out
  BY FilterParts, TwoTexts
<1>2. PICK a \in Texts, b \in BOOLEAN, c \in Texts : a = d.widget /\ b = d.inWidget /\ c = d.followUp
  BY FilterParts
<1>3. PICK g : g = [f EXCEPT !.out = s, !.widget = a, !.inWidget = b, !.followUp = c]
  OBVIOUS
<1>4. /\ g \in Filters /\ Steered(g, f) /\ g.buffer = f.buffer /\ g.out = s
      /\ g.widget = a /\ g.inWidget = b /\ g.followUp = c
  BY <1>3 DEF Filters, Steered
<1>5. Ahead(f, d) = g
  BY <1>1, <1>2, <1>3 DEF Ahead
<1> QED BY <1>1, <1>2, <1>4, <1>5 DEF Aside

IsFirst(t, i, m) ==
  /\ m \in Starts \cup Exits /\ i \in Places(m, t)
  /\ \A n \in Starts \cup Exits : \A j \in Places(n, t) : i <= j

LEMMA MarkPlaces ==
  ASSUME NEW t \in Texts, NEW m \in Starts \cup Exits, NEW i \in Places(m, t)
  PROVE  /\ i \in 1 .. Len(t) /\ i + Len(m) - 1 <= Len(t) /\ i + Len(m) \in 1 .. Len(t) + 1
         /\ t[i + 1] = m[2]
<1>1. Len(m) = 2 \/ Len(m) = 3
  BY Marks
<1>2. m \in Seq(MarkWords) /\ Len(m) > 0 /\ 2 \in 1 .. Len(m)
  BY <1>1, Marks
<1>3. i \in Int /\ 1 <= i /\ i + Len(m) - 1 <= Len(t) /\ Matching(m, t, i)
  BY <1>2, PlaceIs
<1>4. Len(t) \in Nat
  BY TextIs
<1>5. t[i + 2 - 1] = m[2]
  BY <1>2, <1>3 DEF Matching
<1>6. i + 2 - 1 = i + 1
  BY <1>3
<1>7. CASE Len(m) = 2
  BY <1>3, <1>4, <1>5, <1>6, <1>7
<1>8. CASE Len(m) = 3
  BY <1>3, <1>4, <1>5, <1>6, <1>8
<1> QED BY <1>1, <1>7, <1>8

LEMMA FirstMarker ==
  ASSUME NEW t \in Texts
  PROVE  NoMarker(t) \/ \E i, m : IsFirst(t, i, m)
<1> DEFINE places == {i \in 1 .. Len(t) : \E m \in Starts \cup Exits : i \in Places(m, t)}
<1>1. Len(t) \in Nat
  BY TextIs
<1>2. ASSUME NEW m \in Starts \cup Exits, NEW i \in Places(m, t) PROVE i \in places
  BY <1>2, MarkPlaces
<1>3. CASE places = {}
  BY <1>2, <1>3 DEF NoMarker
<1>4. CASE places # {}
  <2>1. places \in SUBSET Nat
    BY <1>1
  <2>2. PICK i \in places : \A j \in places : i <= j
    BY <1>4, <2>1, Least
  <2>3. PICK m \in Starts \cup Exits : i \in Places(m, t)
    BY <2>2
  <2>4. IsFirst(t, i, m)
    BY <1>2, <2>2, <2>3 DEF IsFirst
  <2> QED BY <2>4
<1> QED BY <1>3, <1>4

\* What a step does, by the state and the first marker.
LEMMA AdvanceIs ==
  ASSUME NEW f \in Filters
  PROVE  /\ State(f) = "header" => Advance(f) = Header(f)
         /\ State(f) = "post" => Advance(f) = AfterBlock(f)
         /\ State(f) \notin {"header", "post"} /\ NoMarker(f.buffer) => Advance(f) = Text(f)
         /\ State(f) \notin {"header", "post"} =>
              \A i, m : IsFirst(f.buffer, i, m) => Advance(f) = Marker(f, i, m)
<1> DEFINE found == UNION {Places(m, f.buffer) \X {m} : m \in Starts \cup Exits}
           next == CHOOSE h \in found : \A g \in found : h[1] <= g[1]
<1>1. State(f) = "header" => Advance(f) = Header(f)
  BY DEF Advance
<1>2. State(f) = "post" => Advance(f) = AfterBlock(f)
  BY DEF Advance
<1>3. State(f) \notin {"header", "post"} /\ NoMarker(f.buffer) => Advance(f) = Text(f)
  <2>1. NoMarker(f.buffer) => found = {}
    BY DEF NoMarker
  <2> HIDE DEF next
  <2> QED BY <2>1 DEF Advance
<1>4. ASSUME State(f) \notin {"header", "post"}, NEW i, NEW m, IsFirst(f.buffer, i, m)
      PROVE  Advance(f) = Marker(f, i, m)
  <2>1. PICK t \in Texts : t = f.buffer
    BY FilterParts
  <2>2. \A h : h \in found <=> \E n \in Starts \cup Exits : \E j \in Places(n, t) : h = <<j, n>>
    BY <2>1
  <2> DEFINE Leads(h) == \A g \in found : h[1] <= g[1]
  <2>3. <<i, m>> \in found /\ Leads(<<i, m>>)
    BY <1>4, <2>1, <2>2 DEF IsFirst
  <2>4. ASSUME NEW h \in found, Leads(h) PROVE h = <<i, m>>
    <3>1. PICK n \in Starts \cup Exits : \E j \in Places(n, t) : h = <<j, n>>
      BY <2>2
    <3>7. PICK j \in Places(n, t) : h = <<j, n>>
      BY <3>1
    <3>2. m \in Starts \cup Exits /\ i \in Places(m, t) /\ i <= j
      BY <1>4, <2>1 DEF IsFirst
    <3>3. j <= i
      BY <2>3, <2>4, <3>7
    <3>4. i \in 1 .. Len(t) /\ j \in 1 .. Len(t) /\ t[i + 1] = m[2] /\ t[j + 1] = n[2]
      BY <3>2, MarkPlaces
    <3>5. i = j
      BY <3>2, <3>3, <3>4, TextIs
    <3>6. m = n
      BY <3>2, <3>4, <3>5, Marks
    <3> QED BY <3>5, <3>6, <3>7
  <2>5. next = CHOOSE h : h \in found /\ Leads(h)
    OBVIOUS
  <2> HIDE DEF Leads
  <2>6. next = <<i, m>>
    BY <2>3, <2>4, <2>5
  <2>7. found # {}
    BY <2>3
  <2>8. Advance(f) = Marker(f, next[1], next[2])
    <3> HIDE DEF next
    <3>1. Advance(f) = LET a == next IN Marker(f, a[1], a[2])
      BY <1>4, <2>7 DEF Advance, next
    <3> QED BY <3>1
  <2>9. PICK h : h = next
    OBVIOUS
  <2>10. h = <<i, m>> /\ Advance(f) = Marker(f, h[1], h[2])
    BY <2>6, <2>8, <2>9, Zenon
  <2>11. h[1] = i /\ h[2] = m
    BY <2>10
  <2> QED BY <2>10, <2>11, Zenon
<1> QED BY <1>1, <1>2, <1>3, <1>4

StackAfter(f, m) == IF m \in Starts THEN Enter(f, m) ELSE Leave(f, m)
RoleAfter(f, m) ==
  IF m \in Exits /\ StackAfter(f, m)[Len(StackAfter(f, m))] \in {"normal", "post"} THEN "" ELSE f.role

LEMMA MarkerIs ==
  ASSUME NEW f \in Filters, NEW m \in Starts \cup Exits, NEW i \in Places(m, f.buffer),
         NEW g, g = Marker(f, i, m)
  PROVE  /\ g \in Filters /\ Aside(g, f)
         /\ g.out = Emit(f, Upto(f.buffer, i - 1)) /\ g.buffer = From(f.buffer, i + Len(m))
         /\ g.stack = StackAfter(f, m) /\ g.role = RoleAfter(f, m)
<1>1. g \in Filters
  BY MarkerAdvances DEF Advances
<1>2. g = [f EXCEPT !.out = Emit(f, Upto(f.buffer, i - 1)), !.buffer = From(f.buffer, i + Len(m)),
                    !.stack = StackAfter(f, m), !.role = RoleAfter(f, m)]
  BY DEF Marker, StackAfter, RoleAfter
<1>3. PICK a, c, d, e : /\ a = Emit(f, Upto(f.buffer, i - 1)) /\ c = From(f.buffer, i + Len(m))
                        /\ d = StackAfter(f, m) /\ e = RoleAfter(f, m)
  OBVIOUS
<1>4. g = [f EXCEPT !.out = a, !.buffer = c, !.stack = d, !.role = e]
  BY <1>2, <1>3
<1>5. g.out = a /\ g.buffer = c /\ g.stack = d /\ g.role = e /\ Aside(g, f)
  BY <1>4 DEF Filters, Aside
<1> QED BY <1>1, <1>3, <1>5

LEMMA TextGives ==
  ASSUME NEW f \in Filters, NEW g, g = Text(f)
  PROVE  /\ g \in Filters /\ SameStage(g, f)
         /\ g.out = Emit(f, Upto(f.buffer, TailAt(f.buffer) - 1))
         /\ g.buffer = From(f.buffer, TailAt(f.buffer))
<1>1. g \in Filters
  BY TextAdvances DEF Advances
<1>2. PICK a, c : /\ a = Emit(f, Upto(f.buffer, TailAt(f.buffer) - 1))
                  /\ c = From(f.buffer, TailAt(f.buffer))
  OBVIOUS
<1>3. g = [f EXCEPT !.out = a, !.buffer = c]
  BY <1>2 DEF Text
<1>4. g.out = a /\ g.buffer = c /\ SameStage(g, f)
  BY <1>3 DEF Filters, SameStage
<1> QED BY <1>1, <1>2, <1>4

\* What is emitted in two parts is emitted in one.
LEMMA EmitTwo ==
  ASSUME NEW f \in Filters, NEW g \in Filters, SameStage(g, f),
         NEW t \in Texts, NEW k \in 1 .. Len(t) + 1, NEW j \in k .. Len(t) + 1,
         g.out = Emit(f, Upto(t, k - 1))
  PROVE  Emit(g, Upto(From(t, k), j - k)) = Emit(f, Upto(t, j - 1))
<1>1. Outputting(g) <=> Outputting(f)
  BY AlikeIs
<1>2. PICK n \in Nat : n = Len(t)
  BY TextIs
<1>3. PICK a \in Texts, c \in Texts, o \in Texts :
        a = Upto(t, k - 1) /\ c = Upto(From(t, k), j - k) /\ o = f.out
  <2>1. k - 1 \in 0 .. Len(t)
    BY <1>2
  <2>2. From(t, k) \in Texts /\ Len(From(t, k)) = Len(t) - k + 1
    BY FromPieces
  <2>3. j - k \in 0 .. Len(From(t, k))
    BY <1>2, <2>2
  <2> QED BY <2>1, <2>2, <2>3, UptoIs, FilterParts
<1>4. a \o c = Upto(t, j - 1)
  BY <1>3, UptoUpto
<1>5. (o \o a) \o c = o \o (a \o c)
  <2>1. Glued(Glued(o, a), c) = Glued(o, Glued(a, c))
    BY ThreeGlued
  <2> QED BY <2>1, Zenon DEF Glued
<1>6. CASE Outputting(f)
  <2>1. Emit(g, c) = g.out \o c /\ g.out = o \o a
    BY <1>1, <1>3, <1>6 DEF Emit
  <2>2. Emit(f, Upto(t, j - 1)) = o \o Upto(t, j - 1)
    BY <1>3, <1>6 DEF Emit
  <2> QED BY <1>3, <1>4, <1>5, <2>1, <2>2, Zenon
<1>7. CASE ~Outputting(f)
  BY <1>1, <1>3, <1>7 DEF Emit
<1> QED BY <1>6, <1>7

\* A step from where the text is given out up to k is a step from its beginning.
LEMMA Skipped ==
  ASSUME NEW f \in Filters, State(f) \notin {"header", "post"},
         NEW k \in 1 .. Len(f.buffer) + 1, k <= TailAt(f.buffer),
         \A m \in Starts \cup Exits : \A j \in Places(m, f.buffer) : k <= j,
         NEW g \in Filters, SameStage(g, f),
         g.buffer = From(f.buffer, k), g.out = Emit(f, Upto(f.buffer, k - 1))
  PROVE  Advance(g) = Advance(f)
<1>1. PICK t \in Texts : t = f.buffer
  BY FilterParts
<1>2. PICK n \in Nat : n = Len(t)
  BY TextIs
<1>3. k \in Int /\ 1 <= k /\ k <= n + 1 /\ k \in 1 .. Len(t) + 1
  BY <1>1, <1>2
<1>4. PICK u \in Texts : u = From(t, k) /\ u = g.buffer /\ Len(u) = n - k + 1
  BY <1>1, <1>2, <1>3, FromPieces
<1>5. State(g) \notin {"header", "post"}
  BY AlikeIs
<1>6. \A m \in Starts \cup Exits : m \in Seq(MarkWords) /\ Len(m) > 0
  BY Marks
<1>7. ASSUME NEW m \in Starts \cup Exits, NEW i \in Int
      PROVE  i \in Places(m, u) <=> 1 <= i /\ i + k - 1 \in Places(m, t)
  BY <1>3, <1>4, <1>6, PlacesFrom
<1>8. CASE NoMarker(t)
  <2>1. NoMarker(u)
    <3> SUFFICES ASSUME NEW m \in Starts \cup Exits, NEW i \in Places(m, u) PROVE FALSE
      BY DEF NoMarker
    <3>1. i \in Int
      BY MarkPlaces
    <3>2. i + k - 1 \in Places(m, t)
      BY <1>7, <3>1
    <3> QED BY <1>8, <3>2 DEF NoMarker
  <2>2. Advance(f) = Text(f) /\ Advance(g) = Text(g)
    BY <1>1, <1>4, <1>5, <1>8, <2>1, AdvanceIs
  <2>3. PICK e \in 1 .. n + 1 : e = TailAt(t) /\ k <= e
    BY <1>1, <1>2, TailAtIs
  <2>4. TailAt(u) = e - k + 1
    BY <1>3, <1>4, <2>3, TailFrom
  <2>5. PICK x \in Filters : x = Text(f)
    BY TextGives
  <2>6. PICK y \in Filters : y = Text(g)
    BY TextGives
  <2>7. SameStage(x, f) /\ x.out = Emit(f, Upto(t, e - 1)) /\ x.buffer = From(t, e)
    BY <1>1, <2>3, <2>5, TextGives
  <2>8. SameStage(y, g) /\ y.out = Emit(g, Upto(u, e - k + 1 - 1)) /\ y.buffer = From(u, e - k + 1)
    BY <1>4, <2>4, <2>6, TextGives
  <2>9. e - k + 1 - 1 = e - k /\ k + (e - k + 1) - 1 = e /\ e \in k .. Len(t) + 1
        /\ e - k + 1 \in 1 .. Len(t) - k + 2
    BY <1>2, <1>3, <2>3
  <2>10. y.buffer = x.buffer
    <3>1. From(u, e - k + 1) = From(t, k + (e - k + 1) - 1)
      BY <1>3, <1>4, <2>9, FromFrom
    <3> QED BY <2>7, <2>8, <2>9, <3>1
  <2>11. y.out = x.out
    <3>1. Emit(g, Upto(From(t, k), e - k)) = Emit(f, Upto(t, e - 1))
      BY <1>1, <1>3, <2>9, EmitTwo
    <3> QED BY <1>4, <2>7, <2>8, <2>9, <3>1
  <2>12. SameStage(y, x)
    BY <2>7, <2>8 DEF SameStage
  <2> QED BY <2>2, <2>5, <2>6, <2>10, <2>11, <2>12, SameFilter
<1>9. CASE ~NoMarker(t)
  <2>1. PICK i, m : IsFirst(t, i, m)
    BY <1>9, FirstMarker
  <2>2. m \in Starts \cup Exits /\ i \in Places(m, t) /\ k <= i
    BY <1>1, <2>1 DEF IsFirst
  <2>3. i \in 1 .. n /\ i + Len(m) \in 1 .. n + 1 /\ (Len(m) = 2 \/ Len(m) = 3)
    BY <1>2, <2>2, MarkPlaces, Marks
  <2>4. PICK d \in Int : d = i - k + 1 /\ 1 <= d /\ d + k - 1 = i
    BY <1>3, <2>2, <2>3
  <2>5. IsFirst(u, d, m)
    <3>1. d \in Places(m, u)
      BY <1>7, <2>2, <2>4
    <3>2. ASSUME NEW o \in Starts \cup Exits, NEW j \in Places(o, u) PROVE d <= j
      <4>1. j \in Int
        BY MarkPlaces
      <4>2. j + k - 1 \in Places(o, t)
        BY <1>7, <4>1
      <4>3. i <= j + k - 1
        BY <2>1, <4>2 DEF IsFirst
      <4> QED BY <1>3, <2>3, <2>4, <4>1, <4>3
    <3> QED BY <2>2, <3>1, <3>2 DEF IsFirst
  <2>6. Advance(f) = Marker(f, i, m) /\ Advance(g) = Marker(g, d, m)
    BY <1>1, <1>4, <1>5, <2>1, <2>5, AdvanceIs
  <2>7. PICK x : x = Marker(f, i, m)
    OBVIOUS
  <2>8. PICK y : y = Marker(g, d, m)
    OBVIOUS
  <2>9. /\ x \in Filters /\ Aside(x, f)
        /\ x.out = Emit(f, Upto(t, i - 1)) /\ x.buffer = From(t, i + Len(m))
        /\ x.stack = StackAfter(f, m) /\ x.role = RoleAfter(f, m)
    BY <1>1, <2>2, <2>7, MarkerIs
  <2>10. /\ y \in Filters /\ Aside(y, g)
         /\ y.out = Emit(g, Upto(u, d - 1)) /\ y.buffer = From(u, d + Len(m))
         /\ y.stack = StackAfter(g, m) /\ y.role = RoleAfter(g, m)
    <3>1. d \in Places(m, g.buffer)
      BY <1>4, <2>5 DEF IsFirst
    <3> QED BY <1>4, <2>2, <2>8, <3>1, MarkerIs
  <2>11. /\ d - 1 = i - k /\ k + (d + Len(m)) - 1 = i + Len(m) /\ i \in k .. Len(t) + 1
         /\ d + Len(m) \in 1 .. Len(t) - k + 2
    BY <1>2, <1>3, <2>2, <2>3, <2>4
  <2>12. y.buffer = x.buffer
    <3>1. From(u, d + Len(m)) = From(t, k + (d + Len(m)) - 1)
      BY <1>3, <1>4, <2>11, FromFrom
    <3> QED BY <2>9, <2>10, <2>11, <3>1
  <2>13. y.out = x.out
    <3>1. Emit(g, Upto(From(t, k), i - k)) = Emit(f, Upto(t, i - 1))
      BY <1>1, <1>3, <2>11, EmitTwo
    <3> QED BY <1>4, <2>9, <2>10, <2>11, <3>1
  <2>14. StackAfter(g, m) = StackAfter(f, m)
    BY AlikeIs DEF StackAfter
  <2>15. RoleAfter(g, m) = RoleAfter(f, m)
    BY <2>14 DEF RoleAfter, SameStage
  <2>16. SameStage(y, x)
    BY <2>9, <2>10, <2>14, <2>15 DEF SameStage, Aside
  <2> QED BY <2>6, <2>7, <2>8, <2>9, <2>10, <2>12, <2>13, <2>16, SameFilter
<1> QED BY <1>8, <1>9

-----------------------------------------------------------------------------
(* The first stage: a chunk cut in two.                                     *)

LEMMA FirstOnly ==
  ASSUME NEW S \in SUBSET Nat, NEW i \in S, \A j \in S : i <= j
  PROVE  First(S) = i
<1>1. PICK f \in S : f = First(S) /\ f <= i
  BY FirstIs
<1>2. i <= f /\ i \in Nat /\ f \in Nat
  OBVIOUS
<1> QED BY <1>1, <1>2

\* The first of some pieces stays the first in a text that goes on.
LEMMA FirstJoined ==
  ASSUME NEW s \in Texts, NEW b \in Texts, NEW P, Where(P, s) # {}
  PROVE  /\ First(Where(P, s)) \in 1 .. Len(s)
         /\ Where(P, s \o b) # {} /\ First(Where(P, s \o b)) = First(Where(P, s))
<1>1. PICK n \in Nat, m \in Nat : n = Len(s) /\ m = Len(b) /\ DOMAIN s = 1 .. n
  BY TextIs
<1>2. PICK z \in Texts : z = s \o b
  BY TwoTexts
<1>3. Len(z) = n + m /\ \A i \in 1 .. n : z[i] = s[i]
  BY <1>1, <1>2, JoinIs
<1>4. DOMAIN z = 1 .. n + m
  BY <1>3, TextIs
<1>5. Where(P, s) \in SUBSET Nat /\ Where(P, s) \subseteq 1 .. n
  BY <1>1 DEF Where
<1>6. PICK i \in 1 .. n : i = First(Where(P, s)) /\ i \in Where(P, s) /\ \A j \in Where(P, s) : i <= j
  BY <1>5, FirstIs
<1>7. i \in Where(P, z)
  <2>1. i \in 1 .. n + m /\ s[i] \in P
    BY <1>6 DEF Where
  <2> QED BY <1>3, <1>4, <2>1 DEF Where
<1>8. ASSUME NEW j \in Where(P, z) PROVE i <= j /\ j \in Nat
  <2>1. j \in 1 .. n + m /\ z[j] \in P
    BY <1>4 DEF Where
  <2>2. CASE j <= n
    <3>1. j \in 1 .. n
      BY <2>1, <2>2
    <3>2. j \in Where(P, s)
      BY <1>1, <1>3, <2>1, <3>1 DEF Where
    <3> QED BY <1>6, <3>1, <3>2
  <2>3. CASE ~(j <= n)
    BY <2>1, <2>3
  <2> QED BY <2>2, <2>3
<1>9. Where(P, z) \in SUBSET Nat
  BY <1>8
<1>10. First(Where(P, z)) = i
  BY <1>7, <1>8, <1>9, FirstOnly
<1> QED BY <1>1, <1>2, <1>6, <1>7, <1>10

LEMMA StripJoined ==
  ASSUME NEW s \in Texts, NEW b \in Texts, LStrip(s) # <<>>
  PROVE  LStrip(s \o b) = LStrip(s) \o b /\ LStrip(s \o b) # <<>> /\ LStrip(s) \in Texts
<1> DEFINE P == {s[i] : i \in DOMAIN s} \cup {(s \o b)[i] : i \in DOMAIN (s \o b)}
           Q == P \ Blanks
<1>1. DOMAIN s \ Where(Blanks, s) = Where(Q, s)
  BY DEF Where
<1>2. DOMAIN (s \o b) \ Where(Blanks, s \o b) = Where(Q, s \o b)
  BY DEF Where
<1> HIDE DEF P
<1>3. LStrip(s) = From(s, First(Where(Q, s))) /\ Where(Q, s) # {}
  BY <1>1 DEF LStrip
<1>4. PICK i \in 1 .. Len(s) : /\ i = First(Where(Q, s))
                               /\ Where(Q, s \o b) # {} /\ i = First(Where(Q, s \o b))
  BY <1>3, FirstJoined
<1>5. LStrip(s \o b) = From(s \o b, i)
  BY <1>2, <1>4 DEF LStrip
<1>6. i \in 1 .. Len(s) + 1 /\ Len(s) \in Nat /\ Len(b) \in Nat
  BY TextIs
<1>7. From(s, i) \o b = From(s \o b, i)
  BY <1>6, JoinedFrom
<1>8. PICK u \in Texts : u = From(s, i) /\ Len(u) > 0
  <2>1. From(s, i) \in Texts /\ Len(From(s, i)) = Len(s) - i + 1
    BY <1>6, FromPieces
  <2> QED BY <1>4, <1>6, <2>1
<1>9. u \o b # <<>>
  <2>1. Len(u \o b) = Len(u) + Len(b)
    BY TwoTexts
  <2>2. Len(u \o b) > 0
    BY <1>6, <1>8, <2>1, TextIs
  <2> QED BY <2>2, Empty
<1> QED BY <1>3, <1>4, <1>5, <1>7, <1>8, <1>9

\* In two steps that commute: the step of the longer buffer is the longer one of the step.
Commutes(f, b) == Advance(Fuller(f, b)) = Fuller(Advance(f), b)

LEMMA HeaderMore ==
  ASSUME NEW f \in Filters, NEW b \in Texts, State(f) = "header", Advance(f) # f
  PROVE  Commutes(f, b)
<1>1. PICK s \in Texts : s = f.buffer
  BY FilterParts
<1>2. Advance(f) = Header(f)
  BY AdvanceIs
<1>3. PICK g \in Filters : g = Fuller(f, b) /\ SameStage(g, f) /\ g.buffer = s \o b /\ g.out = f.out
  BY <1>1, MoreIs
<1>4. State(g) = "header"
  BY <1>3, AlikeIs
<1>5. Advance(g) = Header(g)
  BY <1>4, AdvanceIs
<1>6. Where({"\n"}, s) # {}
  BY <1>1, <1>2 DEF Header
<1>7. PICK i \in 1 .. Len(s) : /\ i = First(Where({"\n"}, s))
                               /\ Where({"\n"}, s \o b) # {} /\ i = First(Where({"\n"}, s \o b))
  BY <1>6, FirstJoined
<1>8. PICK n \in Nat : n = Len(s)
  BY TextIs
<1>9. PICK r : r = IF i = 1 THEN "" ELSE s[1]
  OBVIOUS
<1>10. r = IF i = 1 THEN "" ELSE (s \o b)[1]
  <2>1. 1 \in 1 .. Len(s)
    BY <1>8
  <2>2. (s \o b)[1] = s[1]
    BY <2>1, TwoTexts
  <2> QED BY <1>9, <2>2
<1>11. PICK u \in Texts : u = From(s, i + 1) /\ u \o b = From(s \o b, i + 1)
  <2>1. i + 1 \in 1 .. Len(s) + 1
    BY <1>8
  <2> QED BY <2>1, FromPieces, JoinedFrom
<1>12. PICK stack : stack = Goto(f, "tag") /\ stack = Goto(g, "tag")
  BY <1>3, AlikeIs
<1>13. Header(f) = [f EXCEPT !.role = r, !.buffer = u, !.stack = stack]
  BY <1>1, <1>6, <1>7, <1>9, <1>11, <1>12 DEF Header
<1>14. Header(g) = [g EXCEPT !.role = r, !.buffer = u \o b, !.stack = stack]
  BY <1>3, <1>7, <1>10, <1>11, <1>12 DEF Header
<1>15. PICK x \in Filters : x = Header(f)
  BY HeaderAdvances DEF Advances
<1>16. PICK y \in Filters : y = Header(g)
  BY HeaderAdvances DEF Advances
<1>17. x.role = r /\ x.buffer = u /\ x.stack = stack /\ x.out = f.out /\ Aside(x, f)
  BY <1>13, <1>15 DEF Filters, Aside
<1>18. y.role = r /\ y.buffer = u \o b /\ y.stack = stack /\ y.out = g.out /\ Aside(y, g)
  BY <1>14, <1>16 DEF Filters, Aside
<1>19. PICK v \in Filters : v = Fuller(x, b) /\ SameStage(v, x) /\ v.buffer = u \o b /\ v.out = x.out
  BY <1>17, MoreIs
<1>20. SameStage(y, v)
  BY <1>3, <1>17, <1>18, <1>19 DEF SameStage, Aside
<1>21. y = v
  BY <1>3, <1>17, <1>18, <1>19, <1>20, SameFilter
<1> QED BY <1>2, <1>3, <1>5, <1>15, <1>16, <1>19, <1>21 DEF Commutes

LEMMA AfterBlockMore ==
  ASSUME NEW f \in Filters, NEW b \in Texts, State(f) = "post", Advance(f) # f
  PROVE  Commutes(f, b)
<1>1. PICK s \in Texts : s = f.buffer
  BY FilterParts
<1>2. Advance(f) = AfterBlock(f)
  BY AdvanceIs
<1>3. PICK g \in Filters : g = Fuller(f, b) /\ SameStage(g, f) /\ g.buffer = s \o b /\ g.out = f.out
  BY <1>1, MoreIs
<1>4. State(g) = "post"
  BY <1>3, AlikeIs
<1>5. Advance(g) = AfterBlock(g)
  BY <1>4, AdvanceIs
<1>6. LStrip(s) # <<>>
  BY <1>1, <1>2 DEF AfterBlock
<1>7. PICK u \in Texts : u = LStrip(s) /\ u \o b = LStrip(s \o b) /\ u \o b # <<>>
  BY <1>6, StripJoined
<1>8. PICK stack : stack = Goto(f, "normal") /\ stack = Goto(g, "normal")
  BY <1>3, AlikeIs
<1>9. AfterBlock(f) = [f EXCEPT !.buffer = u, !.stack = stack]
  BY <1>1, <1>6, <1>7, <1>8 DEF AfterBlock
<1>10. AfterBlock(g) = [g EXCEPT !.buffer = u \o b, !.stack = stack]
  BY <1>3, <1>7, <1>8 DEF AfterBlock
<1>11. PICK x \in Filters : x = AfterBlock(f)
  BY AfterBlockAdvances DEF Advances
<1>12. PICK y \in Filters : y = AfterBlock(g)
  BY <1>4, AfterBlockAdvances DEF Advances
<1>13. x.role = f.role /\ x.buffer = u /\ x.stack = stack /\ x.out = f.out /\ Aside(x, f)
  BY <1>9, <1>11 DEF Filters, Aside
<1>14. y.role = g.role /\ y.buffer = u \o b /\ y.stack = stack /\ y.out = g.out /\ Aside(y, g)
  BY <1>10, <1>12 DEF Filters, Aside
<1>15. PICK v \in Filters : v = Fuller(x, b) /\ SameStage(v, x) /\ v.buffer = u \o b /\ v.out = x.out
  BY <1>13, MoreIs
<1>16. SameStage(y, v)
  BY <1>3, <1>13, <1>14, <1>15 DEF SameStage, Aside
<1>17. y = v
  BY <1>3, <1>13, <1>14, <1>15, <1>16, SameFilter
<1> QED BY <1>2, <1>3, <1>5, <1>11, <1>12, <1>15, <1>17 DEF Commutes

\* A marker that is there stays the first one: one that what follows completes
\* does not begin before it.
LEMMA MarkerMore ==
  ASSUME NEW f \in Filters, NEW b \in Texts, State(f) \notin {"header", "post"},
         NEW i, NEW m, IsFirst(f.buffer, i, m)
  PROVE  Commutes(f, b)
<1>1. PICK s \in Texts : s = f.buffer
  BY FilterParts
<1>2. PICK n \in Nat : n = Len(s)
  BY TextIs
<1>3. m \in Starts \cup Exits /\ i \in Places(m, s) /\ (Len(m) = 2 \/ Len(m) = 3)
  BY <1>1, Marks DEF IsFirst
<1>4. i \in 1 .. n /\ i + Len(m) - 1 <= n /\ i + Len(m) \in 1 .. n + 1
  BY <1>2, <1>3, MarkPlaces
<1>5. PICK g \in Filters : g = Fuller(f, b) /\ SameStage(g, f) /\ g.buffer = s \o b /\ g.out = f.out
  BY <1>1, MoreIs
<1>6. State(g) \notin {"header", "post"}
  BY <1>5, AlikeIs
<1>7. \A o \in Starts \cup Exits : o \in Seq(MarkWords) /\ Len(o) > 0
  BY Marks
<1>8. i \in Places(m, s \o b)
  BY <1>3, <1>7, PlacesJoined
<1>9. IsFirst(s \o b, i, m)
  <2>1. ASSUME NEW o \in Starts \cup Exits, NEW j \in Places(o, s \o b) PROVE i <= j
    <3>1. CASE j \in Places(o, s)
      BY <1>1, <3>1 DEF IsFirst
    <3>2. CASE j \notin Places(o, s)
      <4>1. n - 1 <= j /\ j \in Int
        BY <1>2, <3>2, MarkerJoined
      <4>2. i <= n - 1
        <5>1. CASE Len(m) = 2
          BY <1>4, <5>1
        <5>2. CASE Len(m) = 3
          BY <1>4, <5>2
        <5> QED BY <1>3, <5>1, <5>2
      <4> QED BY <1>4, <4>1, <4>2
    <3> QED BY <3>1, <3>2
  <2> QED BY <1>3, <1>8, <2>1 DEF IsFirst
<1>10. Advance(f) = Marker(f, i, m) /\ Advance(g) = Marker(g, i, m)
  BY <1>5, <1>6, <1>9, AdvanceIs
<1>11. PICK x : x = Marker(f, i, m)
  OBVIOUS
<1>12. PICK y : y = Marker(g, i, m)
  OBVIOUS
<1>13. /\ x \in Filters /\ Aside(x, f)
       /\ x.out = Emit(f, Upto(s, i - 1)) /\ x.buffer = From(s, i + Len(m))
       /\ x.stack = StackAfter(f, m) /\ x.role = RoleAfter(f, m)
  BY <1>1, <1>3, <1>11, MarkerIs
<1>14. /\ y \in Filters /\ Aside(y, g)
       /\ y.out = Emit(g, Upto(s \o b, i - 1)) /\ y.buffer = From(s \o b, i + Len(m))
       /\ y.stack = StackAfter(g, m) /\ y.role = RoleAfter(g, m)
  <2>1. PICK z : z = s \o b
    OBVIOUS
  <2>2. i \in Places(m, g.buffer) /\ g.buffer = z
    BY <1>5, <1>8, <2>1, Zenon
  <2>3. /\ y \in Filters /\ Aside(y, g)
        /\ y.out = Emit(g, Upto(g.buffer, i - 1)) /\ y.buffer = From(g.buffer, i + Len(m))
        /\ y.stack = StackAfter(g, m) /\ y.role = RoleAfter(g, m)
    BY <1>3, <1>12, <2>2, MarkerIs
  <2> QED BY <2>1, <2>2, <2>3, Zenon
<1>15. From(s, i + Len(m)) \o b = From(s \o b, i + Len(m))
  BY <1>2, <1>4, JoinedFrom
<1>16. Upto(s \o b, i - 1) = Upto(s, i - 1)
  <2>1. i - 1 \in 0 .. Len(s)
    BY <1>2, <1>4
  <2> QED BY <2>1, JoinedUpto
<1>17. StackAfter(g, m) = StackAfter(f, m)
  BY <1>5, AlikeIs DEF StackAfter
<1>18. RoleAfter(g, m) = RoleAfter(f, m)
  BY <1>5, <1>17 DEF RoleAfter, SameStage
<1>19. Emit(g, Upto(s, i - 1)) = Emit(f, Upto(s, i - 1))
  BY <1>5, AlikeIs
<1>20. PICK v \in Filters : v = Fuller(x, b) /\ SameStage(v, x) /\ v.buffer = x.buffer \o b /\ v.out = x.out
  BY <1>13, MoreIs
<1>21. SameStage(y, v)
  BY <1>5, <1>13, <1>14, <1>17, <1>18, <1>20 DEF SameStage, Aside
<1>22. y.buffer = v.buffer /\ y.out = v.out
  BY <1>13, <1>14, <1>15, <1>16, <1>19, <1>20
<1>23. y = v
  BY <1>14, <1>20, <1>21, <1>22, SameFilter
<1> QED BY <1>5, <1>10, <1>11, <1>12, <1>20, <1>23 DEF Commutes

LEMMA SuppressStep ==
  ASSUME NEW f \in Filters
  PROVE  Suppress(f) = Suppress(Advance(f)) /\ Advance(f) \in Filters
<1> DEFINE step == [g \in Filters |-> Advance(g)]
           size == [g \in Filters |-> Size(g)]
<1>1. step \in [Filters -> Filters] /\ size \in [Filters -> Nat]
  BY StepAdvances, FilterParts DEF Advances
<1>2. \A g \in Filters : step[g] # g => size[step[g]] < size[g]
  BY StepAdvances DEF Advances
<1>3. \A g \in Filters : step[g] = Advance(g) /\ Suppress(g) = Drained(step, g)
  BY DEF Suppress
<1> HIDE DEF step, size
<1>4. Drained(step, f) = Drained(step, step[f])
  BY <1>1, <1>2, DrainedEnds
<1> QED BY <1>1, <1>3, <1>4

\* A step that gives out text leaves what the text and what follows it need.
LEMMA TextMore ==
  ASSUME NEW f \in Filters, NEW b \in Texts, State(f) \notin {"header", "post"},
         NoMarker(f.buffer)
  PROVE  Suppress(Fuller(Text(f), b)) = Suppress(Fuller(f, b))
<1>1. PICK s \in Texts : s = f.buffer
  BY FilterParts
<1>2. PICK n \in Nat, l \in Nat : n = Len(s) /\ l = Len(b)
  BY TextIs
<1>3. PICK k \in 1 .. n + 1 : k = TailAt(s)
  BY <1>2, TailAtIs
<1>4. PICK z \in Texts : z = s \o b /\ Len(z) = n + l
  BY <1>2, TwoTexts
<1>5. PICK h \in Filters : h = Fuller(f, b) /\ SameStage(h, f) /\ h.buffer = z /\ h.out = f.out
  BY <1>1, <1>4, MoreIs
<1>6. PICK x : x = Text(f)
  OBVIOUS
<1>7. x \in Filters /\ SameStage(x, f) /\ x.out = Emit(f, Upto(s, k - 1)) /\ x.buffer = From(s, k)
  BY <1>1, <1>3, <1>6, TextGives
<1>8. PICK g \in Filters : g = Fuller(x, b) /\ SameStage(g, x) /\ g.buffer = x.buffer \o b /\ g.out = x.out
  BY <1>7, MoreIs
<1>9. k \in 1 .. Len(z) + 1 /\ k <= TailAt(z) /\ k \in 1 .. Len(s) + 1 /\ k - 1 \in 0 .. Len(s)
  <2>1. k <= TailAt(z)
    BY <1>3, <1>4, TailJoined
  <2> QED BY <1>2, <1>4, <2>1
<1>10. ASSUME NEW m \in Starts \cup Exits, NEW j \in Places(m, z) PROVE k <= j
  <2>1. j \notin Places(m, s)
    BY <1>1 DEF NoMarker
  <2>2. j \in Places(m, s \o b)
    BY <1>4
  <2> QED BY <1>3, <2>1, <2>2, MarkerJoined
<1>11. g.buffer = From(z, k)
  <2>1. From(s, k) \o b = From(s \o b, k)
    BY <1>9, JoinedFrom
  <2> QED BY <1>4, <1>7, <1>8, <2>1, Zenon
<1>12. g.out = Emit(h, Upto(z, k - 1))
  <2>1. Upto(s \o b, k - 1) = Upto(s, k - 1)
    BY <1>9, JoinedUpto
  <2>2. \A t : Emit(h, t) = Emit(f, t)
    BY <1>5, AlikeIs
  <2> QED BY <1>4, <1>7, <1>8, <2>1, <2>2, Zenon
<1>13. SameStage(g, h) /\ State(h) \notin {"header", "post"}
  <2>1. State(h) = State(f)
    BY <1>5, AlikeIs
  <2> QED BY <1>5, <1>7, <1>8, <2>1 DEF SameStage
<1>14. Advance(g) = Advance(h)
  BY <1>5, <1>9, <1>10, <1>11, <1>12, <1>13, Skipped
<1>15. Suppress(g) = Suppress(h)
  BY <1>14, SuppressStep
<1> QED BY <1>5, <1>6, <1>8, <1>15

LEMMA Early ==
  ASSUME NEW f \in Filters, NEW b \in Texts
  PROVE  Suppress(Fuller(Advance(f), b)) = Suppress(Fuller(f, b))
<1>1. Commutes(f, b) => Suppress(Fuller(Advance(f), b)) = Suppress(Fuller(f, b))
  <2>1. Suppress(Fuller(f, b)) = Suppress(Advance(Fuller(f, b)))
    BY MoreIs, SuppressStep
  <2> QED BY <2>1 DEF Commutes
<1>2. CASE Advance(f) = f
  BY <1>2
<1>3. CASE Advance(f) # f /\ State(f) \in {"header", "post"}
  BY <1>1, <1>3, HeaderMore, AfterBlockMore
<1>4. CASE State(f) \notin {"header", "post"} /\ NoMarker(f.buffer)
  <2>1. Advance(f) = Text(f)
    BY <1>4, AdvanceIs
  <2> QED BY <1>4, <2>1, TextMore
<1>5. CASE State(f) \notin {"header", "post"} /\ ~NoMarker(f.buffer)
  <2>1. PICK i, m : IsFirst(f.buffer, i, m)
    BY <1>5, FilterParts, FirstMarker
  <2> QED BY <1>1, <1>5, <2>1, MarkerMore
<1> QED BY <1>2, <1>3, <1>4, <1>5

\* What the first stage is given in two chunks it may as well be given in one.
LEMMA SuppressCut ==
  ASSUME NEW f \in Filters, NEW b \in Texts
  PROVE  Suppress(Fuller(Suppress(f), b)) = Suppress(Fuller(f, b))
<1> DEFINE step == [g \in Filters |-> Advance(g)]
           size == [g \in Filters |-> Size(g)]
           more == [g \in Filters |-> Fuller(g, b)]
<1>1. step \in [Filters -> Filters] /\ size \in [Filters -> Nat] /\ more \in [Filters -> Filters]
  BY StepAdvances, FilterParts, MoreIs DEF Advances
<1>2. \A g \in Filters : step[g] # g => size[step[g]] < size[g]
  BY StepAdvances DEF Advances
<1>3. \A g \in Filters : /\ step[g] = Advance(g) /\ Suppress(g) = Drained(step, g)
                         /\ more[g] = Fuller(g, b) /\ more[g] \in Filters
  BY <1>1 DEF Suppress
<1> HIDE DEF step, size, more
<1>4. ASSUME NEW g \in Filters PROVE Drained(step, more[step[g]]) = Drained(step, more[g])
  <2>1. Advance(g) \in Filters
    BY SuppressStep
  <2>2. Suppress(Fuller(Advance(g), b)) = Suppress(Fuller(g, b))
    BY Early
  <2> QED BY <1>3, <2>1, <2>2
<1>5. Drained(step, more[Drained(step, f)]) = Drained(step, more[f])
  BY <1>1, <1>2, <1>4, LoopCut
<1>6. Suppress(f) \in Filters
  BY SuppressEnds
<1> QED BY <1>3, <1>5, <1>6

LEMMA AdvanceAhead ==
  ASSUME NEW f \in Filters, NEW d \in Filters
  PROVE  Advance(Ahead(f, d)) = Ahead(Advance(f), d)
<1>1. PICK t \in Texts, o \in Texts : t = f.buffer /\ o = f.out
  BY FilterParts
<1>2. PICK g \in Filters : /\ g = Ahead(f, d) /\ Steered(g, f) /\ Aside(g, d)
                         /\ g.buffer = t /\ g.out = d.out \o o
  BY <1>1, AheadIs
<1>3. PICK x \in Filters : x = Advance(f)
  BY SuppressStep
<1>4. PICK y \in Filters : y = Advance(g)
  BY SuppressStep
<1>5. PICK v \in Filters : /\ v = Ahead(x, d) /\ Steered(v, x) /\ Aside(v, d)
                         /\ v.buffer = x.buffer /\ v.out = d.out \o x.out
  BY AheadIs
<1>6. SUFFICES Steered(y, x) /\ Aside(y, g) /\ y.buffer = x.buffer /\ y.out = d.out \o x.out
  <2>1. SameStage(y, v)
    BY <1>2, <1>5, <1>6 DEF SameStage, Steered, Aside
  <2>2. y = v
    BY <1>5, <1>6, <2>1, SameFilter
  <2> QED BY <1>2, <1>3, <1>4, <1>5, <2>2
<1>7. State(g) = State(f) /\ (Outputting(g) <=> Outputting(f)) /\ \A v2 : Goto(g, v2) = Goto(f, v2)
  BY <1>2, SteeredIs
<1>8. ASSUME NEW s \in Texts PROVE Emit(g, s) = d.out \o Emit(f, s)
  <2>0. d.out \in Texts
    BY FilterParts
  <2>1. (d.out \o o) \o s = d.out \o (o \o s)
    BY <2>0, ThreeTexts
  <2>2. CASE Outputting(f)
    BY <1>1, <1>2, <1>7, <2>1, <2>2 DEF Emit
  <2>3. CASE ~Outputting(f)
    BY <1>1, <1>2, <1>7, <2>3 DEF Emit
  <2> QED BY <2>2, <2>3
<1>9. CASE State(f) = "header"
  <2>1. x = Header(f) /\ y = Header(g)
    BY <1>3, <1>4, <1>7, <1>9, AdvanceIs
  <2>2. CASE Where({"\n"}, t) = {}
    BY <1>1, <1>2, <2>1, <2>2 DEF Header, Aside
  <2>3. CASE Where({"\n"}, t) # {}
    <3>1. PICK i, r, c, stack : /\ i = First(Where({"\n"}, t)) /\ r = IF i = 1 THEN "" ELSE t[1]
                                /\ c = From(t, i + 1) /\ stack = Goto(f, "tag")
      OBVIOUS
    <3>2. x = [f EXCEPT !.role = r, !.buffer = c, !.stack = stack]
      BY <1>1, <2>1, <2>3, <3>1 DEF Header
    <3>3. y = [g EXCEPT !.role = r, !.buffer = c, !.stack = stack]
      BY <1>2, <1>7, <2>1, <2>3, <3>1 DEF Header
    <3>4. x.role = r /\ x.buffer = c /\ x.stack = stack /\ x.out = f.out /\ Aside(x, f)
      BY <3>2 DEF Filters, Aside
    <3>5. y.role = r /\ y.buffer = c /\ y.stack = stack /\ y.out = g.out /\ Aside(y, g)
      BY <3>3 DEF Filters, Aside
    <3> QED BY <1>1, <1>2, <3>4, <3>5 DEF Steered
  <2> QED BY <2>2, <2>3
<1>10. CASE State(f) = "post"
  <2>1. x = AfterBlock(f) /\ y = AfterBlock(g)
    BY <1>3, <1>4, <1>7, <1>10, AdvanceIs
  <2>2. CASE LStrip(t) = <<>>
    BY <1>1, <1>2, <2>1, <2>2 DEF AfterBlock, Aside
  <2>3. CASE LStrip(t) # <<>>
    <3>1. PICK c, stack : c = LStrip(t) /\ stack = Goto(f, "normal")
      OBVIOUS
    <3>2. x = [f EXCEPT !.buffer = c, !.stack = stack]
      BY <1>1, <2>1, <2>3, <3>1 DEF AfterBlock
    <3>3. y = [g EXCEPT !.buffer = c, !.stack = stack]
      BY <1>2, <1>7, <2>1, <2>3, <3>1 DEF AfterBlock
    <3>4. x.role = f.role /\ x.buffer = c /\ x.stack = stack /\ x.out = f.out /\ Aside(x, f)
      BY <3>2 DEF Filters, Aside
    <3>5. y.role = g.role /\ y.buffer = c /\ y.stack = stack /\ y.out = g.out /\ Aside(y, g)
      BY <3>3 DEF Filters, Aside
    <3> QED BY <1>1, <1>2, <3>4, <3>5 DEF Steered
  <2> QED BY <2>2, <2>3
<1>11. CASE State(f) \notin {"header", "post"} /\ NoMarker(t)
  <2>1. x = Text(f) /\ y = Text(g)
    BY <1>1, <1>2, <1>3, <1>4, <1>7, <1>11, AdvanceIs
  <2>2. PICK k : k = TailAt(t)
    OBVIOUS
  <2>3. SameStage(x, f) /\ x.out = Emit(f, Upto(t, k - 1)) /\ x.buffer = From(t, k)
    BY <1>1, <2>1, <2>2, TextGives
  <2>4. SameStage(y, g) /\ y.out = Emit(g, Upto(t, k - 1)) /\ y.buffer = From(t, k)
    BY <1>2, <2>1, <2>2, TextGives
  <2>5. Upto(t, k - 1) \in Texts
    <3>1. k - 1 \in 0 .. Len(t)
      BY <2>2, TailAtIs, TextIs
    <3> QED BY <3>1, UptoIs
  <2>6. Steered(y, x) /\ Aside(y, g)
    BY <1>2, <2>3, <2>4 DEF SameStage, Steered, Aside
  <2> QED BY <1>8, <2>3, <2>4, <2>5, <2>6
<1>12. CASE State(f) \notin {"header", "post"} /\ ~NoMarker(t)
  <2>1. PICK i, m : IsFirst(t, i, m)
    BY <1>12, FirstMarker
  <2>2. m \in Starts \cup Exits /\ i \in Places(m, t)
    BY <2>1 DEF IsFirst
  <2>3. x = Marker(f, i, m) /\ y = Marker(g, i, m)
    BY <1>1, <1>2, <1>3, <1>4, <1>7, <1>12, <2>1, AdvanceIs
  <2>4. /\ Aside(x, f)
        /\ x.out = Emit(f, Upto(t, i - 1)) /\ x.buffer = From(t, i + Len(m))
        /\ x.stack = StackAfter(f, m) /\ x.role = RoleAfter(f, m)
    BY <1>1, <2>2, <2>3, MarkerIs
  <2>5. /\ Aside(y, g)
        /\ y.out = Emit(g, Upto(t, i - 1)) /\ y.buffer = From(t, i + Len(m))
        /\ y.stack = StackAfter(g, m) /\ y.role = RoleAfter(g, m)
    BY <1>2, <2>2, <2>3, MarkerIs
  <2>6. Upto(t, i - 1) \in Texts
    <3>1. i - 1 \in 0 .. Len(t)
      BY <2>2, MarkPlaces, TextIs
    <3> QED BY <3>1, UptoIs
  <2>7. StackAfter(g, m) = StackAfter(f, m)
    BY <1>2, SteeredIs DEF StackAfter
  <2>8. RoleAfter(g, m) = RoleAfter(f, m)
    BY <1>2, <2>7 DEF RoleAfter, Steered
  <2>9. Steered(y, x) /\ Aside(y, g)
    BY <1>2, <2>4, <2>5, <2>7, <2>8 DEF Steered
  <2> QED BY <1>8, <2>4, <2>5, <2>6, <2>9
<1> QED BY <1>9, <1>10, <1>11, <1>12

\* What was given out before does not change what is given out next.
LEMMA SuppressAhead ==
  ASSUME NEW f \in Filters, NEW d \in Filters
  PROVE  Suppress(Ahead(f, d)) = Ahead(Suppress(f), d)
<1> DEFINE step == [g \in Filters |-> Advance(g)]
           size == [g \in Filters |-> Size(g)]
           put  == [g \in Filters |-> Ahead(g, d)]
<1>1. step \in [Filters -> Filters] /\ size \in [Filters -> Nat] /\ put \in [Filters -> Filters]
  BY StepAdvances, FilterParts, AheadIs DEF Advances
<1>2. \A g \in Filters : step[g] # g => size[step[g]] < size[g]
  BY StepAdvances DEF Advances
<1>3. \A g \in Filters : /\ step[g] = Advance(g) /\ Suppress(g) = Drained(step, g)
                         /\ put[g] = Ahead(g, d) /\ put[g] \in Filters
  BY <1>1 DEF Suppress
<1> HIDE DEF step, size, put
<1>4. ASSUME NEW g \in Filters PROVE step[put[g]] = put[step[g]]
  BY <1>3, AdvanceAhead, SuppressStep
<1>5. Drained(step, put[f]) = put[Drained(step, f)]
  BY <1>1, <1>2, <1>4, LoopPut
<1>6. Suppress(f) \in Filters
  BY SuppressEnds
<1> QED BY <1>3, <1>5, <1>6

-----------------------------------------------------------------------------
(* The second stage: what may still grow into a marker.                     *)

WidgetMarks == {WidgetOpen, WidgetClose}

LEMMA WidgetMark == \A m \in WidgetMarks : m \in Seq(MarkWords) /\ Len(m) = 3 /\ Len(m) > 0
<1>1. /\ WidgetOpen \in Seq(MarkWords) /\ Len(WidgetOpen) = 3
      /\ WidgetClose \in Seq(MarkWords) /\ Len(WidgetClose) = 3
  BY DEF WidgetOpen, WidgetClose, MarkWords
<1>2. Len(WidgetOpen) > 0 /\ Len(WidgetClose) > 0
  BY <1>1
<1> QED BY <1>1, <1>2, Zenon DEF WidgetMarks

\* From i on, s is the beginning of m.
Growing(s, m, i) == Len(s) - i + 1 < 3 /\ \A j \in i .. Len(s) : s[j] = m[j - i + 1]

LEMMA PartIs ==
  ASSUME NEW s \in Texts, NEW m \in WidgetMarks, NEW i \in 1 .. Len(s), Len(s) - i + 1 < 3
  PROVE  From(s, i) = Upto(m, Len(s) - i + 1) <=> \A j \in i .. Len(s) : s[j] = m[j - i + 1]
<1>1. PICK n \in Nat : n = Len(s)
  BY TextIs
<1>2. m \in Seq(MarkWords) /\ Len(m) = 3
  BY WidgetMark
<1>3. PICK l \in Nat : l = n - i + 1 /\ l < 3 /\ l >= 1
  <2>1. n - i + 1 \in Nat /\ n - i + 1 < 3 /\ n - i + 1 >= 1
    BY <1>1
  <2> QED BY <2>1
<1>4. PICK u \in Texts : u = From(s, i) /\ Len(u) = l /\ \A j \in 1 .. l : u[j] = s[j + i - 1]
  <2>1. i \in 1 .. Len(s) + 1
    BY <1>1
  <2> QED BY <1>1, <1>3, <2>1, FromPieces
<1>5. PICK v \in Seq(MarkWords) : v = Upto(m, l) /\ Len(v) = l /\ \A j \in 1 .. l : v[j] = m[j]
  <2>1. \A j \in 1 .. l : m[j] \in MarkWords
    <3>1. \A j \in 1 .. l : j \in 1 .. 3
      BY <1>3
    <3>2. m \in Seq(MarkWords)
      BY <1>2
    <3>3. \A j \in 1 .. Len(m) : m[j] \in MarkWords
      BY <3>2
    <3> QED BY <1>2, <3>1, <3>3
  <2>2. PICK v : v = SubSeq(m, 1, l)
    OBVIOUS
  <2>3. v \in Seq(MarkWords) /\ Len(v) = l /\ \A j \in 1 .. l - 1 + 1 : v[j] = m[1 + j - 1]
    BY <1>3, <2>1, <2>2, SubSeqProperties
  <2>4. \A j \in 1 .. l : j \in 1 .. l - 1 + 1 /\ 1 + j - 1 = j
    BY <1>3
  <2> QED BY <2>2, <2>3, <2>4 DEF Upto
<1>6. u = v <=> \A j \in 1 .. l : u[j] = v[j]
  BY <1>4, <1>5 DEF Texts
<1>7. (\A j \in 1 .. l : u[j] = v[j]) <=> \A j \in i .. n : s[j] = m[j - i + 1]
  <2>1. ASSUME \A j \in 1 .. l : u[j] = v[j], NEW j \in i .. n PROVE s[j] = m[j - i + 1]
    <3>1. j - i + 1 \in 1 .. l /\ (j - i + 1) + i - 1 = j
      BY <1>1, <1>3
    <3> QED BY <1>4, <1>5, <2>1, <3>1
  <2>2. ASSUME \A j \in i .. n : s[j] = m[j - i + 1], NEW j \in 1 .. l PROVE u[j] = v[j]
    <3>1. j + i - 1 \in i .. n /\ (j + i - 1) - i + 1 = j
      BY <1>1, <1>3
    <3> QED BY <1>4, <1>5, <2>2, <3>1
  <2> QED BY <2>1, <2>2
<1> QED BY <1>1, <1>3, <1>4, <1>5, <1>6, <1>7

LEMMA SuffixAt ==
  ASSUME NEW s \in Texts, NEW m \in WidgetMarks, NEW p, p = PartialSuffix(s, m)
  PROVE  /\ p \in 1 .. Len(s) + 1
         /\ p # Len(s) + 1 => Growing(s, m, p)
         /\ \A i \in 1 .. Len(s) : Growing(s, m, i) => p <= i
<1> DEFINE cuts == {i \in 1 .. Len(s) : /\ Len(s) - i + 1 < Len(m)
                                        /\ From(s, i) = Upto(m, Len(s) - i + 1)}
<1>1. PICK n \in Nat : n = Len(s)
  BY TextIs
<1>2. Len(m) = 3
  BY WidgetMark
<1>3. \A i : i \in cuts <=> i \in 1 .. n /\ Growing(s, m, i)
  BY <1>1, <1>2, PartIs DEF Growing
<1>4. p = IF cuts = {} THEN n + 1 ELSE First(cuts)
  BY <1>1 DEF PartialSuffix
<1> HIDE DEF cuts
<1>5. CASE cuts = {}
  BY <1>1, <1>3, <1>4, <1>5
<1>6. CASE cuts # {}
  <2>1. cuts \in SUBSET Nat
    BY <1>3
  <2>2. p \in cuts /\ \A j \in cuts : p <= j
    <3>1. First(cuts) \in cuts /\ \A j \in cuts : First(cuts) <= j
      BY <1>6, <2>1, FirstIs
    <3> QED BY <1>4, <1>6, <3>1, Zenon
  <2> QED BY <1>1, <1>3, <2>2
<1> QED BY <1>5, <1>6

LEMMA SuffixFrom ==
  ASSUME NEW t \in Texts, NEW m \in WidgetMarks, NEW k \in 1 .. Len(t) + 1,
         k <= PartialSuffix(t, m)
  PROVE  PartialSuffix(From(t, k), m) = PartialSuffix(t, m) - k + 1
<1>1. PICK n \in Nat : n = Len(t)
  BY TextIs
<1>2. PICK e \in 1 .. n + 1 : /\ e = PartialSuffix(t, m) /\ (e # n + 1 => Growing(t, m, e))
                              /\ \A i \in 1 .. n : Growing(t, m, i) => e <= i
  BY <1>1, SuffixAt
<1>3. PICK u \in Texts, l \in Nat : /\ u = From(t, k) /\ l = n - k + 1 /\ l = Len(u)
                                    /\ \A i \in 1 .. l : u[i] = t[i + k - 1]
  <2>1. n - k + 1 \in Nat
    BY <1>1
  <2> QED BY <1>1, <2>1, FromPieces
<1>4. PICK d \in 1 .. l + 1 : /\ d = PartialSuffix(u, m) /\ (d # l + 1 => Growing(u, m, d))
                              /\ \A i \in 1 .. l : Growing(u, m, i) => d <= i
  <2>1. PICK d : d = PartialSuffix(u, m)
    OBVIOUS
  <2>2. /\ d \in 1 .. Len(u) + 1 /\ (d # Len(u) + 1 => Growing(u, m, d))
        /\ \A i \in 1 .. Len(u) : Growing(u, m, i) => d <= i
    BY <2>1, SuffixAt
  <2> QED BY <1>3, <2>1, <2>2
<1>5. k \in Int /\ 1 <= k /\ k <= e /\ k <= n + 1
  BY <1>1, <1>2
<1>6. ASSUME NEW i \in 1 .. l PROVE Growing(u, m, i) <=> Growing(t, m, i + k - 1)
  <2>1. PICK o \in Int : o = i + k - 1 /\ o \in 1 .. n
    BY <1>3, <1>5
  <2>2. l - i + 1 = n - o + 1
    BY <1>3, <1>5, <2>1
  <2>3. (\A j \in i .. l : u[j] = m[j - i + 1]) <=> \A j \in o .. n : t[j] = m[j - o + 1]
    <3>1. ASSUME \A j \in i .. l : u[j] = m[j - i + 1], NEW j \in o .. n PROVE t[j] = m[j - o + 1]
      <4>1. /\ j - k + 1 \in i .. l /\ j - k + 1 \in 1 .. l
            /\ (j - k + 1) + k - 1 = j /\ (j - k + 1) - i + 1 = j - o + 1
        BY <1>3, <1>5, <2>1
      <4>2. u[j - k + 1] = t[j] /\ u[j - k + 1] = m[j - o + 1]
        BY <1>3, <3>1, <4>1
      <4> QED BY <4>2
    <3>2. ASSUME \A j \in o .. n : t[j] = m[j - o + 1], NEW j \in i .. l PROVE u[j] = m[j - i + 1]
      <4>1. j + k - 1 \in o .. n /\ j \in 1 .. l /\ (j + k - 1) - o + 1 = j - i + 1
        BY <1>3, <1>5, <2>1
      <4>2. t[j + k - 1] = m[j - i + 1] /\ u[j] = t[j + k - 1]
        BY <1>3, <3>2, <4>1
      <4> QED BY <4>2
    <3> QED BY <3>1, <3>2
  <2> QED BY <1>1, <1>3, <2>1, <2>2, <2>3 DEF Growing
<1>7. d <= e - k + 1
  <2>1. CASE e = n + 1
    BY <1>3, <1>4, <1>5, <2>1
  <2>2. CASE e # n + 1
    <3>1. PICK i \in 1 .. l : i = e - k + 1 /\ i + k - 1 = e
      BY <1>2, <1>3, <1>5, <2>2
    <3>2. Growing(u, m, i)
      BY <1>2, <1>6, <2>2, <3>1
    <3> QED BY <1>4, <3>1, <3>2
  <2> QED BY <2>1, <2>2
<1>8. e - k + 1 <= d
  <2>1. CASE d = l + 1
    BY <1>2, <1>3, <1>5, <2>1
  <2>2. CASE d # l + 1
    <3>1. d \in 1 .. l /\ d + k - 1 \in 1 .. n
      BY <1>3, <1>4, <1>5, <2>2
    <3>2. Growing(t, m, d + k - 1)
      BY <1>4, <1>6, <2>2, <3>1
    <3>3. e <= d + k - 1
      BY <1>2, <3>1, <3>2
    <3> QED BY <1>2, <1>5, <3>1, <3>3
  <2> QED BY <2>1, <2>2
<1>9. d = e - k + 1
  BY <1>2, <1>4, <1>5, <1>7, <1>8
<1> QED BY <1>2, <1>3, <1>4, <1>9

\* What is kept of a text, and a marker that only what follows completes, begin no
\* sooner than what is kept of the text alone.
LEMMA SuffixJoined ==
  ASSUME NEW s \in Texts, NEW b \in Texts, NEW m \in WidgetMarks
  PROVE  /\ PartialSuffix(s, m) <= PartialSuffix(s \o b, m)
         /\ \A i \in Places(m, s \o b) :
              i \notin Places(m, s) => PartialSuffix(s, m) <= i /\ Len(s) - 1 <= i
<1>1. PICK n \in Nat, l \in Nat : n = Len(s) /\ l = Len(b)
  BY TextIs
<1>2. PICK t \in Texts : t = s \o b
  BY TwoTexts
<1>3. Len(t) = n + l /\ \A i \in 1 .. n : t[i] = s[i]
  BY <1>1, <1>2, JoinIs
<1>4. PICK k \in 1 .. n + 1 : k = PartialSuffix(s, m) /\ \A i \in 1 .. n : Growing(s, m, i) => k <= i
  BY <1>1, SuffixAt
<1>5. PICK e \in 1 .. n + l + 1 : e = PartialSuffix(t, m) /\ (e # n + l + 1 => Growing(t, m, e))
  BY <1>3, SuffixAt
<1>6. m \in Seq(MarkWords) /\ Len(m) = 3 /\ Len(m) > 0
  BY WidgetMark
<1>7. k <= e
  <2> SUFFICES ASSUME e < k PROVE FALSE
    BY <1>4, <1>5
  <2>1. e \in 1 .. n /\ e # n + l + 1 /\ n - e + 1 <= n + l - e + 1
    BY <1>4, <1>5
  <2>2. n + l - e + 1 < 3 /\ \A j \in e .. n + l : t[j] = m[j - e + 1]
    BY <1>3, <1>5, <2>1 DEF Growing
  <2>3. \A j \in e .. n : j \in e .. n + l /\ j \in 1 .. n
    BY <2>1
  <2>4. \A j \in e .. n : s[j] = m[j - e + 1]
    BY <1>3, <2>2, <2>3
  <2>5. n - e + 1 < 3
    BY <2>1, <2>2
  <2>6. Growing(s, m, e)
    BY <1>1, <2>4, <2>5 DEF Growing
  <2> QED BY <1>4, <2>1, <2>6
<1>8. ASSUME NEW i \in Places(m, t), i \notin Places(m, s) PROVE k <= i /\ n - 1 <= i
  <2>1. i \in Int /\ 1 <= i /\ Matching(m, t, i)
    BY <1>6, PlaceIs
  <2>2. ~(i + Len(m) - 1 <= Len(s))
    BY <1>2, <1>6, <1>8, PlacesJoined
  <2>3. n - i + 1 < 3
    BY <1>1, <1>6, <2>1, <2>2
  <2>4. CASE i > n
    BY <1>4, <2>1, <2>4
  <2>5. CASE i <= n
    <3>1. ASSUME NEW j \in i .. n PROVE s[j] = m[j - i + 1]
      <4>1. j - i + 1 \in 1 .. 3 /\ i + (j - i + 1) - 1 = j /\ j \in 1 .. n
        BY <2>1, <2>3
      <4>2. t[i + (j - i + 1) - 1] = m[j - i + 1]
        BY <1>6, <2>1, <4>1 DEF Matching
      <4> QED BY <1>3, <4>1, <4>2
    <3>2. Growing(s, m, i)
      BY <1>1, <2>3, <3>1 DEF Growing
    <3>3. i \in 1 .. n
      BY <2>1, <2>5
    <3> QED BY <1>4, <2>1, <2>3, <3>2, <3>3
  <2> QED BY <2>1, <2>4, <2>5
<1> QED BY <1>1, <1>2, <1>4, <1>5, <1>7, <1>8

\* The first of the markers, from k on.
LEMMA FirstPlaceFrom ==
  ASSUME NEW t \in Texts, NEW m \in WidgetMarks, NEW k \in 1 .. Len(t) + 1,
         \A i \in Places(m, t) : k <= i
  PROVE  /\ Places(m, From(t, k)) = {} <=> Places(m, t) = {}
         /\ Places(m, t) # {} => First(Places(m, From(t, k))) = First(Places(m, t)) - k + 1
<1>1. m \in Seq(MarkWords) /\ Len(m) = 3 /\ Len(m) > 0
  BY WidgetMark
<1>2. k \in Int /\ 1 <= k
  BY TextIs
<1>3. PICK u \in Texts : u = From(t, k)
  BY FromPieces
<1>4. ASSUME NEW i \in Int PROVE i \in Places(m, u) <=> 1 <= i /\ i + k - 1 \in Places(m, t)
  BY <1>1, <1>3, PlacesFrom
<1>5. ASSUME NEW s \in Texts PROVE \A i \in Places(m, s) : i \in Nat
  <2>1. \A i \in Places(m, s) : i \in Int /\ 1 <= i
    BY <1>1, PlaceIs
  <2> QED BY <2>1
<1>6. ASSUME NEW i \in Places(m, t) PROVE i - k + 1 \in Places(m, u)
  <2>1. i \in Nat /\ k <= i
    BY <1>5
  <2>2. i - k + 1 \in Int /\ 1 <= i - k + 1 /\ (i - k + 1) + k - 1 = i
    BY <1>2, <2>1
  <2> QED BY <1>4, <2>2
<1>7. Places(m, u) = {} <=> Places(m, t) = {}
  <2>1. ASSUME NEW i \in Places(m, u) PROVE i + k - 1 \in Places(m, t)
    BY <1>4, <1>5
  <2> QED BY <1>6, <2>1
<1>8. ASSUME Places(m, t) # {}
      PROVE  First(Places(m, u)) = First(Places(m, t)) - k + 1
  <2>1. Places(m, t) \in SUBSET Nat /\ Places(m, u) \in SUBSET Nat
    BY <1>5
  <2>2. PICK i \in Places(m, t) : i = First(Places(m, t)) /\ \A j \in Places(m, t) : i <= j
    BY <1>8, <2>1, FirstIs
  <2>3. PICK d \in Places(m, u) : d = i - k + 1
    BY <1>6
  <2>4. ASSUME NEW j \in Places(m, u) PROVE d <= j
    <3>1. j \in Nat /\ i \in Nat
      BY <1>5
    <3>2. i <= j + k - 1
      BY <1>4, <2>2, <3>1
    <3> QED BY <1>2, <2>3, <3>1, <3>2
  <2>5. First(Places(m, u)) = d
    BY <2>1, <2>4, FirstOnly
  <2> QED BY <2>2, <2>3, <2>5
<1> QED BY <1>3, <1>7, <1>8

\* A marker that is there stays the first one.
LEMMA FirstPlaceJoined ==
  ASSUME NEW s \in Texts, NEW b \in Texts, NEW m \in WidgetMarks, Places(m, s) # {}
  PROVE  /\ Places(m, s \o b) # {} /\ First(Places(m, s \o b)) = First(Places(m, s))
         /\ First(Places(m, s)) \in 1 .. Len(s) - 2
<1>1. m \in Seq(MarkWords) /\ Len(m) = 3 /\ Len(m) > 0
  BY WidgetMark
<1>2. PICK n \in Nat : n = Len(s)
  BY TextIs
<1>3. PICK z \in Texts : z = s \o b
  BY TwoTexts
<1>4. \A t \in Texts : \A i \in Places(m, t) : i \in Nat /\ 1 <= i /\ i + 3 - 1 <= Len(t)
  <2>1. \A t \in Texts : \A i \in Places(m, t) : i \in Int /\ 1 <= i /\ i + 3 - 1 <= Len(t)
    BY <1>1, PlaceIs
  <2> QED BY <2>1
<1>5. Places(m, s) \in SUBSET Nat /\ Places(m, z) \in SUBSET Nat
  BY <1>4
<1>6. PICK i \in Places(m, s) : i = First(Places(m, s)) /\ \A j \in Places(m, s) : i <= j
  BY <1>5, FirstIs
<1>7. i \in Nat /\ 1 <= i /\ i <= n - 2
  BY <1>2, <1>4
<1>8. i \in Places(m, z)
  BY <1>1, <1>3, PlacesJoined
<1>9. ASSUME NEW j \in Places(m, z) PROVE i <= j
  <2>1. CASE j \in Places(m, s)
    BY <1>6, <2>1
  <2>2. CASE j \notin Places(m, s)
    <3>1. n - 1 <= j
      BY <1>2, <1>3, <2>2, SuffixJoined
    <3> QED BY <1>5, <1>7, <3>1
  <2> QED BY <2>1, <2>2
<1>10. First(Places(m, z)) = i
  BY <1>5, <1>8, <1>9, FirstOnly
<1> QED BY <1>2, <1>3, <1>6, <1>7, <1>8, <1>10

-----------------------------------------------------------------------------
(* The second stage: its steps.                                             *)

\* The text with b after it, and with u given out before.
Fed(w, b) == [w EXCEPT !.text = @ \o b]
Before(w, u) == [w EXCEPT !.out = u \o @]

\* The text up to n has been looked at, and add given out for it.
Looked(w, n, inside, add) ==
  [text |-> From(w.text, n), inside |-> inside, out |-> w.out \o add]

\* How far a step looks, where it is then, and what it gives out.
StepOf(t, from, n, inside, add) ==
  \/ /\ from /\ Places(WidgetClose, t) = {}
     /\ n = PartialSuffix(t, WidgetClose) /\ inside = TRUE /\ add = <<>>
  \/ /\ from /\ Places(WidgetClose, t) # {}
     /\ n = First(Places(WidgetClose, t)) + 3 /\ inside = FALSE /\ add = Placeholder
  \/ /\ ~from /\ Places(WidgetOpen, t) = {}
     /\ n = PartialSuffix(t, WidgetOpen) /\ inside = FALSE /\ add = Upto(t, n - 1)
  \/ /\ ~from /\ Places(WidgetOpen, t) # {}
     /\ n = First(Places(WidgetOpen, t)) /\ n + 3 > Len(t) /\ inside = FALSE /\ add = Upto(t, n - 1)
  \/ /\ ~from /\ Places(WidgetOpen, t) # {}
     /\ n = First(Places(WidgetOpen, t)) + 3 /\ n <= Len(t) /\ t[n] \notin Delimiters
     /\ inside = FALSE /\ add = Upto(t, n - 1)
  \/ /\ ~from /\ Places(WidgetOpen, t) # {}
     /\ n = First(Places(WidgetOpen, t)) + 3 /\ n <= Len(t) /\ t[n] \in Delimiters
     /\ inside = TRUE /\ add = Upto(t, n - 4)

LEMMA FedIs ==
  ASSUME NEW w \in WidgetTexts, NEW b \in Texts
  PROVE  /\ Fed(w, b) \in WidgetTexts /\ Fed(w, b).text = w.text \o b
         /\ Fed(w, b).inside = w.inside /\ Fed(w, b).out = w.out
<1>1. PICK s \in Texts : s = w.text \o b
  BY WidgetParts, TwoTexts
<1>2. PICK v : v = [w EXCEPT !.text = s]
  OBVIOUS
<1>3. v \in WidgetTexts /\ v.text = s /\ v.inside = w.inside /\ v.out = w.out
  BY <1>2 DEF WidgetTexts
<1> QED BY <1>1, <1>2, <1>3 DEF Fed

LEMMA BeforeIs ==
  ASSUME NEW w \in WidgetTexts, NEW u \in Texts
  PROVE  /\ Before(w, u) \in WidgetTexts /\ Before(w, u).text = w.text
         /\ Before(w, u).inside = w.inside /\ Before(w, u).out = u \o w.out
<1>1. PICK s \in Texts : s = u \o w.out
  BY WidgetParts, TwoTexts
<1>2. PICK v : v = [w EXCEPT !.out = s]
  OBVIOUS
<1>3. v \in WidgetTexts /\ v.text = w.text /\ v.inside = w.inside /\ v.out = s
  BY <1>2 DEF WidgetTexts
<1> QED BY <1>1, <1>2, <1>3 DEF Before

\* What has been looked at and given out since w.
HasLooked(v, w, n, inside, add) ==
  v \in WidgetTexts /\ v.text = From(w.text, n) /\ v.inside = inside /\ v.out = w.out \o add

LEMMA LookedIs ==
  ASSUME NEW w \in WidgetTexts, NEW n \in 1 .. Len(w.text) + 1, NEW inside \in BOOLEAN,
         NEW add \in Texts, NEW v, v = Looked(w, n, inside, add)
  PROVE  HasLooked(v, w, n, inside, add)
<1>1. PICK s \in Texts, o \in Texts : s = From(w.text, n) /\ o = w.out \o add
  BY WidgetParts, FromPieces, TwoTexts
<1>2. v = [text |-> s, inside |-> inside, out |-> o]
  BY <1>1 DEF Looked
<1> QED BY <1>1, <1>2 DEF WidgetTexts, HasLooked

LEMMA StepOfIs ==
  ASSUME NEW t \in Texts, NEW from \in BOOLEAN
  PROVE  /\ \E n, inside, add : StepOf(t, from, n, inside, add)
         /\ \A n, inside, add : StepOf(t, from, n, inside, add) =>
              n \in 1 .. Len(t) + 1 /\ inside \in BOOLEAN /\ add \in Texts
<1>1. PICK l \in Nat : l = Len(t)
  BY TextIs
<1>2. Len(WidgetOpen) = 3 /\ Len(WidgetClose) = 3
  BY WidgetMark DEF WidgetMarks
<1>3. /\ PartialSuffix(t, WidgetClose) \in 1 .. l + 1 /\ PartialSuffix(t, WidgetOpen) \in 1 .. l + 1
      /\ Places(WidgetClose, t) # {} => First(Places(WidgetClose, t)) + 3 \in 2 .. l + 1
      /\ Places(WidgetOpen, t) # {} => First(Places(WidgetOpen, t)) + 3 \in 2 .. l + 1
      /\ Places(WidgetOpen, t) # {} => First(Places(WidgetOpen, t)) \in 1 .. l
  BY <1>1, <1>2, SuffixIs, PlacesIn
<1>4. \A k \in 1 .. l + 1 : Upto(t, k - 1) \in Texts
  <2>1. \A k \in 1 .. l + 1 : k - 1 \in 0 .. l
    OBVIOUS
  <2> QED BY <1>1, <2>1, UptoIs
<1>5. \E n, inside, add : StepOf(t, from, n, inside, add)
  <2>1. CASE from /\ Places(WidgetClose, t) = {}
    BY <2>1 DEF StepOf
  <2>2. CASE from /\ Places(WidgetClose, t) # {}
    BY <2>2 DEF StepOf
  <2>3. CASE ~from /\ Places(WidgetOpen, t) = {}
    BY <2>3 DEF StepOf
  <2>4. CASE ~from /\ Places(WidgetOpen, t) # {}
    <3>1. PICK i \in 1 .. l : i = First(Places(WidgetOpen, t))
      BY <1>3, <2>4
    <3>2. CASE i + 3 > l
      BY <1>1, <2>4, <3>1, <3>2 DEF StepOf
    <3>3. CASE ~(i + 3 > l)
      <4>1. i + 3 <= l
        BY <3>3
      <4>2. PICK k : k = i + 3 /\ k <= l
        BY <4>1
      <4>3. CASE t[k] \in Delimiters
        <5>1. StepOf(t, from, k, TRUE, Upto(t, k - 4))
          BY <1>1, <2>4, <3>1, <4>2, <4>3 DEF StepOf
        <5> QED BY <5>1
      <4>4. CASE t[k] \notin Delimiters
        <5>1. StepOf(t, from, k, FALSE, Upto(t, k - 1))
          BY <1>1, <2>4, <3>1, <4>2, <4>4 DEF StepOf
        <5> QED BY <5>1
      <4> QED BY <4>3, <4>4
    <3> QED BY <3>2, <3>3
  <2> QED BY <2>1, <2>2, <2>3, <2>4
<1>6. ASSUME NEW n, NEW inside, NEW add, StepOf(t, from, n, inside, add)
      PROVE  n \in 1 .. Len(t) + 1 /\ inside \in BOOLEAN /\ add \in Texts
  <2>1. n \in 1 .. l + 1 /\ inside \in BOOLEAN
    <3>1. \A k \in 2 .. l + 1 : k \in 1 .. l + 1
      OBVIOUS
    <3>2. \A k \in 1 .. l : k \in 1 .. l + 1
      OBVIOUS
    <3>3. \/ n = PartialSuffix(t, WidgetClose) \/ n = PartialSuffix(t, WidgetOpen)
          \/ n = First(Places(WidgetClose, t)) + 3 /\ Places(WidgetClose, t) # {}
          \/ n = First(Places(WidgetOpen, t)) /\ Places(WidgetOpen, t) # {}
          \/ n = First(Places(WidgetOpen, t)) + 3 /\ Places(WidgetOpen, t) # {}
      BY <1>6, Zenon DEF StepOf
    <3>4. n \in 1 .. l + 1
      BY <1>3, <3>1, <3>2, <3>3, Zenon
    <3>5. inside \in {TRUE, FALSE}
      BY <1>6, Zenon DEF StepOf
    <3> QED BY <3>4, <3>5
  <2>2. CASE add = Upto(t, n - 1)
    BY <1>1, <1>4, <2>1, <2>2
  <2>3. CASE add \in {<<>>, Placeholder}
    BY <1>1, <2>1, <2>3, Empty, PiecesAssumption
  <2>4. CASE Places(WidgetOpen, t) # {} /\ n = First(Places(WidgetOpen, t)) + 3 /\ add = Upto(t, n - 4)
    <3>1. PICK i \in 1 .. l + 1 : i = First(Places(WidgetOpen, t)) /\ n = i + 3 /\ n - 4 = i - 1
      BY <1>3, <2>4
    <3> QED BY <1>1, <1>4, <2>1, <2>4, <3>1
  <2> QED BY <1>6, <2>2, <2>3, <2>4 DEF StepOf
<1> QED BY <1>5, <1>6

LEMMA WidgetStepIs ==
  ASSUME NEW w \in WidgetTexts, NEW n, NEW inside, NEW add,
         StepOf(w.text, w.inside, n, inside, add)
  PROVE  WidgetStep(w) = Looked(w, n, inside, add)
<1>1. PICK t \in Texts, o \in Texts, from \in BOOLEAN : t = w.text /\ o = w.out /\ from = w.inside
  BY WidgetParts
<1>2. n \in 1 .. Len(t) + 1 /\ inside \in BOOLEAN /\ add \in Texts
  BY <1>1, StepOfIs
<1>3. PICK u \in Texts, p \in Texts : u = From(t, n) /\ p = o \o add
  BY <1>2, FromPieces, TwoTexts
<1>4. Len(WidgetOpen) = 3 /\ Len(WidgetClose) = 3
  BY WidgetMark DEF WidgetMarks
<1>5. Looked(w, n, inside, add) = [text |-> u, inside |-> inside, out |-> p]
  BY <1>1, <1>3 DEF Looked
<1>6. /\ [text |-> u, inside |-> from, out |-> p] = [w EXCEPT !.out = p, !.text = u]
      /\ [text |-> u, inside |-> from, out |-> o] = [w EXCEPT !.text = u]
  BY <1>1, Rewritten DEF Rewrites
<1>7. CASE /\ from /\ Places(WidgetClose, t) = {}
           /\ n = PartialSuffix(t, WidgetClose) /\ inside = TRUE /\ add = <<>>
  <2>1. WidgetStep(w) = [w EXCEPT !.text = u]
    BY <1>1, <1>3, <1>7 DEF WidgetStep, InWidget
  <2>2. p = o
    BY <1>3, <1>7, ThreeTexts
  <2> QED BY <1>5, <1>6, <1>7, <2>1, <2>2
<1>8. CASE /\ from /\ Places(WidgetClose, t) # {}
           /\ n = First(Places(WidgetClose, t)) + 3 /\ inside = FALSE /\ add = Placeholder
  BY <1>1, <1>3, <1>4, <1>5, <1>8 DEF WidgetStep, InWidget
<1>9. CASE /\ ~from /\ Places(WidgetOpen, t) = {}
           /\ n = PartialSuffix(t, WidgetOpen) /\ inside = FALSE /\ add = Upto(t, n - 1)
  <2>1. WidgetStep(w) = [w EXCEPT !.out = p, !.text = u]
    BY <1>1, <1>3, <1>9 DEF WidgetStep, OutOfWidget
  <2> QED BY <1>5, <1>6, <1>9, <2>1
<1>10. CASE /\ ~from /\ Places(WidgetOpen, t) # {}
            /\ n = First(Places(WidgetOpen, t)) /\ n + 3 > Len(t) /\ inside = FALSE
            /\ add = Upto(t, n - 1)
  <2>1. ~(n + 3 <= Len(t))
    BY <1>2, <1>10, TextIs
  <2>2. WidgetStep(w) = [w EXCEPT !.out = p, !.text = u]
    BY <1>1, <1>3, <1>4, <1>10, <2>1 DEF WidgetStep, OutOfWidget
  <2> QED BY <1>5, <1>6, <1>10, <2>2
<1>11. CASE /\ ~from /\ Places(WidgetOpen, t) # {}
            /\ n = First(Places(WidgetOpen, t)) + 3 /\ n <= Len(t) /\ t[n] \notin Delimiters
            /\ inside = FALSE /\ add = Upto(t, n - 1)
  <2>1. ~(n > Len(t))
    BY <1>2, <1>11, TextIs
  <2>2. WidgetStep(w) = [w EXCEPT !.out = p, !.text = u]
    BY <1>1, <1>3, <1>4, <1>11, <2>1 DEF WidgetStep, OutOfWidget
  <2> QED BY <1>5, <1>6, <1>11, <2>2
<1>12. CASE /\ ~from /\ Places(WidgetOpen, t) # {}
            /\ n = First(Places(WidgetOpen, t)) + 3 /\ n <= Len(t) /\ t[n] \in Delimiters
            /\ inside = TRUE /\ add = Upto(t, n - 4)
  <2>1. ~(n > Len(t))
    BY <1>2, <1>12, TextIs
  <2>2. PICK i \in Int : i = First(Places(WidgetOpen, t)) /\ n = i + 3 /\ n - 4 = i - 1
    <3>1. First(Places(WidgetOpen, t)) \in 1 .. Len(t)
      BY <1>4, <1>12, PlacesIn
    <3>2. PICK i \in 1 .. Len(t) : i = First(Places(WidgetOpen, t))
      BY <3>1
    <3> QED BY <1>12, <3>2
  <2>3. WidgetStep(w) = [text |-> From(t, n), inside |-> TRUE, out |-> o \o Upto(t, i - 1)]
    BY <1>1, <1>4, <1>12, <2>1, <2>2 DEF WidgetStep, OutOfWidget
  <2> QED BY <1>3, <1>5, <1>12, <2>2, <2>3
<1> QED BY <1>1, <1>7, <1>8, <1>9, <1>10, <1>11, <1>12 DEF StepOf

\* The marker a step looks for, and what it gives out of a text before k that it
\* has nothing to say about.
MarkOf(from) == IF from THEN WidgetClose ELSE WidgetOpen
Plain(t, from, k) == IF from THEN <<>> ELSE Upto(t, k - 1)

\* The step that looks up to n gives out that part of add too when it begins at k.
Resumed(z, from, k, n, inside, add) ==
  \E more \in Texts : /\ StepOf(From(z, k), from, n - k + 1, inside, more)
                      /\ add = Plain(z, from, k) \o more

\* A step that begins at k, before which there is no marker, looks as far as one
\* that begins at the start.
LEMMA StepSkips ==
  ASSUME NEW z \in Texts, NEW from \in BOOLEAN, NEW k \in 1 .. Len(z) + 1,
         \A i \in Places(MarkOf(from), z) : k <= i,
         Places(MarkOf(from), z) = {} => k <= PartialSuffix(z, MarkOf(from)),
         NEW n, NEW inside, NEW add, StepOf(z, from, n, inside, add)
  PROVE  n \in k .. Len(z) + 1 /\ Resumed(z, from, k, n, inside, add)
<1>1. PICK l \in Nat : l = Len(z)
  BY TextIs
<1>2. n \in 1 .. l + 1 /\ inside \in BOOLEAN /\ add \in Texts
  BY <1>1, StepOfIs
<1>3. PICK m \in WidgetMarks : m = MarkOf(from)
  BY DEF MarkOf, WidgetMarks
<1>4. m \in Seq(MarkWords) /\ Len(m) = 3 /\ Len(m) > 0
  BY <1>3, WidgetMark
<1>5. PICK u \in Texts : u = From(z, k) /\ Len(u) = l - k + 1 /\ \A j \in 1 .. l - k + 1 : u[j] = z[j + k - 1]
  BY <1>1, FromPieces
<1>6. k \in Int /\ 1 <= k /\ k <= l + 1
  BY <1>1
<1>7. /\ Places(m, u) = {} <=> Places(m, z) = {}
      /\ Places(m, z) # {} => First(Places(m, u)) = First(Places(m, z)) - k + 1
  BY <1>3, <1>5, FirstPlaceFrom
<1>8. ASSUME Places(m, z) = {}
      PROVE  /\ k <= PartialSuffix(z, m) /\ PartialSuffix(z, m) \in 1 .. l + 1
             /\ PartialSuffix(u, m) = PartialSuffix(z, m) - k + 1
  BY <1>1, <1>3, <1>5, <1>8, SuffixFrom, SuffixAt
<1>9. ASSUME Places(m, z) # {}
      PROVE  First(Places(m, z)) \in k .. l
  <2>1. Places(m, z) \in SUBSET Nat
    <3>1. \A j \in Places(m, z) : j \in Int /\ 1 <= j /\ j + 3 - 1 <= Len(z)
      BY <1>4, PlaceIs
    <3> QED BY <3>1
  <2>2. PICK j \in Places(m, z) : j = First(Places(m, z))
    BY <1>9, <2>1, FirstIs
  <2>3. j \in Int /\ 1 <= j /\ j + 3 - 1 <= Len(z)
    BY <1>4, PlaceIs
  <2>4. k <= j
    BY <1>3
  <2> QED BY <1>1, <1>6, <2>2, <2>3, <2>4
<1>10. ASSUME NEW j \in k .. l + 1
       PROVE  /\ Upto(u, j - k) \in Texts /\ Upto(u, (j - k + 1) - 1) = Upto(u, j - k)
              /\ Upto(z, j - 1) = Upto(z, k - 1) \o Upto(u, j - k)
  <2>1. Upto(z, j - 1) = Upto(z, k - 1) \o Upto(From(z, k), j - k)
    BY <1>1, UptoUpto
  <2>2. j - k \in 0 .. Len(u) /\ (j - k + 1) - 1 = j - k
    BY <1>5, <1>6
  <2>3. Upto(u, j - k) \in Texts
    BY <2>2, UptoIs
  <2> QED BY <1>5, <2>1, <2>2, <2>3
<1>11. <<>> \in Texts /\ Placeholder \in Texts /\ <<>> \o <<>> = <<>> /\ <<>> \o Placeholder = Placeholder
  BY Empty, PiecesAssumption, ThreeTexts
<1> SUFFICES /\ n \in k .. l + 1
             /\ \E more \in Texts : /\ StepOf(u, from, n - k + 1, inside, more)
                                    /\ add = Plain(z, from, k) \o more
  BY <1>1, <1>5 DEF Resumed
<1>12. CASE /\ from /\ Places(WidgetClose, z) = {}
            /\ n = PartialSuffix(z, WidgetClose) /\ inside = TRUE /\ add = <<>>
  <2>1. m = WidgetClose /\ Plain(z, from, k) = <<>>
    BY <1>3, <1>12 DEF MarkOf, Plain
  <2>2. StepOf(u, from, n - k + 1, inside, <<>>)
    BY <1>7, <1>8, <1>12, <2>1 DEF StepOf
  <2>3. n \in k .. l + 1
    BY <1>6, <1>8, <1>12, <2>1
  <2> QED BY <1>11, <1>12, <2>1, <2>2, <2>3
<1>13. CASE /\ from /\ Places(WidgetClose, z) # {}
            /\ n = First(Places(WidgetClose, z)) + 3 /\ inside = FALSE /\ add = Placeholder
  <2>1. m = WidgetClose /\ Plain(z, from, k) = <<>>
    BY <1>3, <1>13 DEF MarkOf, Plain
  <2>2. PICK i \in k .. l : i = First(Places(m, z))
    BY <1>9, <1>13, <2>1
  <2>3. n = i + 3 /\ First(Places(m, u)) = i - k + 1
    BY <1>7, <1>13, <2>1, <2>2
  <2>4. n - k + 1 = (i - k + 1) + 3 /\ n \in k .. l + 1
    BY <1>2, <1>6, <2>2, <2>3
  <2>5. StepOf(u, from, n - k + 1, inside, Placeholder)
    BY <1>7, <1>13, <2>1, <2>3, <2>4 DEF StepOf
  <2> QED BY <1>11, <1>13, <2>1, <2>4, <2>5
<1>14. CASE /\ ~from /\ Places(WidgetOpen, z) = {}
            /\ n = PartialSuffix(z, WidgetOpen) /\ inside = FALSE /\ add = Upto(z, n - 1)
  <2>1. m = WidgetOpen /\ Plain(z, from, k) = Upto(z, k - 1)
    BY <1>3, <1>14 DEF MarkOf, Plain
  <2>2. n \in k .. l + 1
    BY <1>6, <1>8, <1>14, <2>1
  <2>3. /\ Upto(u, n - k) \in Texts /\ Upto(u, (n - k + 1) - 1) = Upto(u, n - k)
        /\ Upto(z, n - 1) = Upto(z, k - 1) \o Upto(u, n - k)
    BY <1>10, <2>2
  <2>4. StepOf(u, from, n - k + 1, inside, Upto(u, n - k))
    BY <1>7, <1>8, <1>14, <2>1, <2>3 DEF StepOf
  <2> QED BY <1>14, <2>1, <2>2, <2>3, <2>4
<1>15. CASE /\ ~from /\ Places(WidgetOpen, z) # {}
            /\ n = First(Places(WidgetOpen, z)) /\ n + 3 > Len(z) /\ inside = FALSE
            /\ add = Upto(z, n - 1)
  <2>1. m = WidgetOpen /\ Plain(z, from, k) = Upto(z, k - 1)
    BY <1>3, <1>15 DEF MarkOf, Plain
  <2>2. n \in k .. l /\ n \in k .. l + 1
    <3>1. n \in k .. l
      BY <1>9, <1>15, <2>1
    <3> QED BY <1>6, <3>1
  <2>3. /\ Upto(u, n - k) \in Texts /\ Upto(u, (n - k + 1) - 1) = Upto(u, n - k)
        /\ Upto(z, n - 1) = Upto(z, k - 1) \o Upto(u, n - k)
    BY <1>10, <2>2
  <2>4. (n - k + 1) + 3 > Len(u)
    BY <1>1, <1>2, <1>5, <1>6, <1>15
  <2>5. StepOf(u, from, n - k + 1, inside, Upto(u, n - k))
    BY <1>7, <1>15, <2>1, <2>3, <2>4 DEF StepOf
  <2> QED BY <1>15, <2>1, <2>2, <2>3, <2>5
<1>16. CASE /\ ~from /\ Places(WidgetOpen, z) # {}
            /\ n = First(Places(WidgetOpen, z)) + 3 /\ n <= Len(z) /\ z[n] \notin Delimiters
            /\ inside = FALSE /\ add = Upto(z, n - 1)
  <2>1. m = WidgetOpen /\ Plain(z, from, k) = Upto(z, k - 1)
    BY <1>3, <1>16 DEF MarkOf, Plain
  <2>2. PICK i \in k .. l : i = First(Places(m, z))
    BY <1>9, <1>16, <2>1
  <2>3. n = i + 3 /\ First(Places(m, u)) = i - k + 1
    BY <1>7, <1>16, <2>1, <2>2
  <2>4. /\ n - k + 1 = (i - k + 1) + 3 /\ n \in k .. l + 1
        /\ n - k + 1 \in 1 .. l - k + 1 /\ (n - k + 1) + k - 1 = n
    <3>1. n <= l
      BY <1>1, <1>16
    <3>2. n = i + 3 /\ i \in k .. l /\ k \in Int /\ 1 <= k /\ l \in Nat
      BY <1>1, <1>6, <2>2, <2>3
    <3> QED BY <3>1, <3>2
  <2>5. /\ Upto(u, n - k) \in Texts /\ Upto(u, (n - k + 1) - 1) = Upto(u, n - k)
        /\ Upto(z, n - 1) = Upto(z, k - 1) \o Upto(u, n - k)
    BY <1>10, <2>4
  <2>6. u[n - k + 1] = z[n] /\ n - k + 1 <= Len(u)
    BY <1>5, <2>4
  <2>7. StepOf(u, from, n - k + 1, inside, Upto(u, n - k))
    BY <1>7, <1>16, <2>1, <2>3, <2>4, <2>5, <2>6 DEF StepOf
  <2> QED BY <1>16, <2>1, <2>4, <2>5, <2>7
<1>17. CASE /\ ~from /\ Places(WidgetOpen, z) # {}
            /\ n = First(Places(WidgetOpen, z)) + 3 /\ n <= Len(z) /\ z[n] \in Delimiters
            /\ inside = TRUE /\ add = Upto(z, n - 4)
  <2>1. m = WidgetOpen /\ Plain(z, from, k) = Upto(z, k - 1)
    BY <1>3, <1>17 DEF MarkOf, Plain
  <2>2. PICK i \in k .. l : i = First(Places(m, z))
    BY <1>9, <1>17, <2>1
  <2>3. n = i + 3 /\ First(Places(m, u)) = i - k + 1
    BY <1>7, <1>17, <2>1, <2>2
  <2>4. /\ n - k + 1 = (i - k + 1) + 3 /\ n \in k .. l + 1 /\ n - 4 = i - 1
        /\ n - k + 1 \in 1 .. l - k + 1 /\ (n - k + 1) + k - 1 = n
        /\ (n - k + 1) - 4 = i - k /\ i \in k .. l + 1
    <3>1. n <= l /\ n = i + 3 /\ k <= i /\ i \in Int /\ k \in Int
      BY <1>1, <1>6, <1>17, <2>2, <2>3
    <3> QED BY <1>6, <3>1
  <2>5. Upto(u, i - k) \in Texts /\ Upto(z, i - 1) = Upto(z, k - 1) \o Upto(u, i - k)
    BY <1>10, <2>4
  <2>6. u[n - k + 1] = z[n] /\ n - k + 1 <= Len(u)
    BY <1>5, <2>4
  <2>7. StepOf(u, from, n - k + 1, inside, Upto(u, i - k))
    BY <1>7, <1>17, <2>1, <2>3, <2>4, <2>5, <2>6 DEF StepOf
  <2> QED BY <1>17, <2>1, <2>4, <2>5, <2>7
<1> QED BY <1>12, <1>13, <1>14, <1>15, <1>16, <1>17 DEF StepOf

\* Steps that come to the same whatever was given out before, and after a text that
\* the first of them had nothing to say about.
LEMMA BeforeStep ==
  ASSUME NEW w \in WidgetTexts, NEW u \in Texts
  PROVE  WidgetStep(Before(w, u)) = Before(WidgetStep(w), u) /\ WidgetStep(w) \in WidgetTexts
<1>1. PICK t \in Texts, o \in Texts, from \in BOOLEAN : t = w.text /\ o = w.out /\ from = w.inside
  BY WidgetParts
<1>2. PICK n, inside, add : StepOf(t, from, n, inside, add)
  BY StepOfIs
<1>3. n \in 1 .. Len(t) + 1 /\ inside \in BOOLEAN /\ add \in Texts
  BY <1>2, StepOfIs
<1>4. PICK v \in WidgetTexts : v = Before(w, u) /\ v.text = t /\ v.inside = from /\ v.out = u \o o
  BY <1>1, BeforeIs
<1>5. PICK x : x = Looked(w, n, inside, add)
  OBVIOUS
<1>6. x \in WidgetTexts /\ x.text = From(t, n) /\ x.inside = inside /\ x.out = o \o add
  <2>1. n \in 1 .. Len(w.text) + 1
    BY <1>1, <1>3, Zenon
  <2>2. HasLooked(x, w, n, inside, add)
    BY <1>3, <1>5, <2>1, LookedIs
  <2> QED BY <1>1, <2>2, Zenon DEF HasLooked
<1>7. PICK y : y = Looked(v, n, inside, add)
  OBVIOUS
<1>8. y \in WidgetTexts /\ y.text = From(t, n) /\ y.inside = inside /\ y.out = (u \o o) \o add
  <2>1. n \in 1 .. Len(v.text) + 1
    BY <1>3, <1>4
  <2>2. y \in WidgetTexts /\ y.text = From(v.text, n) /\ y.inside = inside /\ y.out = v.out \o add
    <3>1. HasLooked(y, v, n, inside, add)
      BY <1>3, <1>7, <2>1, LookedIs
    <3> QED BY <3>1, Zenon DEF HasLooked
  <2> QED BY <1>4, <2>2, Zenon
<1>9. PICK z \in WidgetTexts : /\ z = Before(x, u) /\ z.text = x.text /\ z.inside = x.inside
                               /\ z.out = u \o x.out
  BY <1>6, BeforeIs
<1>10. (u \o o) \o add = u \o (o \o add)
  <2>1. Glued(Glued(u, o), add) = Glued(u, Glued(o, add))
    BY <1>3, ThreeGlued
  <2> QED BY <2>1, Zenon DEF Glued
<1>11. y = z
  BY <1>6, <1>8, <1>9, <1>10, WidgetSame
<1>12. WidgetStep(w) = x /\ WidgetStep(v) = y
  BY <1>1, <1>2, <1>4, <1>5, <1>7, WidgetStepIs
<1> QED BY <1>4, <1>6, <1>9, <1>11, <1>12

LEMMA StepAfter ==
  ASSUME NEW w \in WidgetTexts, NEW k \in 1 .. Len(w.text) + 1,
         \A i \in Places(MarkOf(w.inside), w.text) : k <= i,
         Places(MarkOf(w.inside), w.text) = {} => k <= PartialSuffix(w.text, MarkOf(w.inside)),
         NEW g \in WidgetTexts, g.text = From(w.text, k), g.inside = w.inside,
         g.out = w.out \o Plain(w.text, w.inside, k)
  PROVE  WidgetStep(g) = WidgetStep(w)
<1>1. PICK z \in Texts, o \in Texts, from \in BOOLEAN : z = w.text /\ o = w.out /\ from = w.inside
  BY WidgetParts
<1>2. PICK n, inside, add : StepOf(z, from, n, inside, add)
  BY StepOfIs
<1>3. n \in 1 .. Len(z) + 1 /\ inside \in BOOLEAN /\ add \in Texts
  BY <1>2, StepOfIs
<1>4. n \in k .. Len(z) + 1
  BY <1>1, <1>2, StepSkips
<1>5. PICK more \in Texts : /\ StepOf(From(z, k), from, n - k + 1, inside, more)
                            /\ add = Plain(z, from, k) \o more
  <2>1. /\ k \in 1 .. Len(z) + 1 /\ \A i \in Places(MarkOf(from), z) : k <= i
        /\ Places(MarkOf(from), z) = {} => k <= PartialSuffix(z, MarkOf(from))
    BY <1>1
  <2>2. Resumed(z, from, k, n, inside, add)
    BY <1>2, <2>1, StepSkips
  <2> QED BY <2>2 DEF Resumed
<1>6. WidgetStep(w) = Looked(w, n, inside, add)
  BY <1>1, <1>2, WidgetStepIs
<1>7. WidgetStep(g) = Looked(g, n - k + 1, inside, more)
  BY <1>1, <1>5, WidgetStepIs
<1>8. From(From(z, k), n - k + 1) = From(z, n)
  <2>1. PICK l \in Nat : l = Len(z)
    BY TextIs
  <2>2. n - k + 1 \in 1 .. l - k + 2 /\ k + (n - k + 1) - 1 = n /\ k \in 1 .. l + 1
    BY <1>1, <1>4, <2>1
  <2>3. From(From(z, k), n - k + 1) = From(z, k + (n - k + 1) - 1)
    BY <2>1, <2>2, FromFrom
  <2> QED BY <2>2, <2>3
<1>9. (o \o Plain(z, from, k)) \o more = o \o add
  <2>1. PICK p \in Texts : p = Plain(z, from, k)
    <3>1. k - 1 \in 0 .. Len(z)
      BY <1>1, TextIs
    <3> QED BY <3>1, Empty, UptoIs DEF Plain
  <2>2. Glued(Glued(o, p), more) = Glued(o, Glued(p, more))
    BY <1>1, <1>5, <2>1, ThreeGlued
  <2> QED BY <1>5, <2>1, <2>2, Zenon DEF Glued
<1>10. Looked(g, n - k + 1, inside, more) = Looked(w, n, inside, add)
  BY <1>1, <1>8, <1>9 DEF Looked
<1> QED BY <1>6, <1>7, <1>10

\* Nothing that a step looks for begins before k.
NoneBefore(z, from, k) ==
  /\ \A i \in Places(MarkOf(from), z) : k <= i
  /\ Places(MarkOf(from), z) = {} => k <= PartialSuffix(z, MarkOf(from))

\* A step is the same when the text goes on, or it only gave out what came before
\* something that it withholds.
LEMMA StepGoesOn ==
  ASSUME NEW t \in Texts, NEW b \in Texts, NEW from \in BOOLEAN,
         NEW n, NEW inside, NEW add, StepOf(t, from, n, inside, add)
  PROVE  \/ StepOf(t \o b, from, n, inside, add)
         \/ inside = from /\ add = Plain(t, from, n) /\ NoneBefore(t \o b, from, n)
<1>1. PICK l \in Nat, lb \in Nat : l = Len(t) /\ lb = Len(b)
  BY TextIs
<1>2. n \in 1 .. l + 1 /\ inside \in BOOLEAN /\ add \in Texts
  BY <1>1, StepOfIs
<1>3. PICK z \in Texts : z = t \o b /\ Len(z) = l + lb /\ \A i \in 1 .. l : z[i] = t[i]
  <2>1. PICK z \in Texts : z = t \o b
    BY TwoTexts
  <2>2. Len(z) = l + lb /\ \A i \in 1 .. l : z[i] = t[i]
    BY <1>1, <2>1, JoinIs
  <2> QED BY <2>1, <2>2
<1>4. PICK m \in WidgetMarks : m = MarkOf(from)
  BY DEF MarkOf, WidgetMarks
<1>5. ASSUME Places(m, t) = {}
      PROVE  \A i \in Places(m, z) : PartialSuffix(t, m) <= i
  BY <1>3, <1>5, SuffixJoined
<1>6. PartialSuffix(t, m) <= PartialSuffix(z, m)
  BY <1>3, SuffixJoined
<1>7. ASSUME Places(m, t) # {}
      PROVE  Places(m, z) # {} /\ First(Places(m, z)) = First(Places(m, t)) /\ First(Places(m, t)) \in 1 .. l - 2
  BY <1>1, <1>3, <1>7, FirstPlaceJoined
<1>8. \A k \in 1 .. l + 1 : Upto(z, k - 1) = Upto(t, k - 1)
  <2>1. \A k \in 1 .. l + 1 : k - 1 \in 0 .. Len(t)
    BY <1>1
  <2> QED BY <1>3, <2>1, JoinedUpto
<1>9. CASE Places(m, t) = {}
  <2>1. \/ from /\ n = PartialSuffix(t, m) /\ inside = TRUE /\ add = <<>>
        \/ ~from /\ n = PartialSuffix(t, m) /\ inside = FALSE /\ add = Upto(t, n - 1)
    BY <1>4, <1>9 DEF StepOf, MarkOf
  <2>2. inside = from /\ add = Plain(t, from, n) /\ n = PartialSuffix(t, m)
    BY <2>1 DEF Plain
  <2>3. NoneBefore(z, from, n)
    BY <1>4, <1>5, <1>6, <1>9, <2>2 DEF NoneBefore
  <2> QED BY <1>3, <2>2, <2>3
<1>10. CASE Places(m, t) # {} /\ ~from /\ n = First(Places(m, t)) /\ inside = FALSE /\ add = Upto(t, n - 1)
  <2>1. \A i \in Places(m, z) : i \in Nat
    <3>1. m \in Seq(MarkWords) /\ Len(m) > 0
      BY WidgetMark
    <3>2. \A i \in Places(m, z) : i \in Int /\ 1 <= i
      BY <3>1, PlaceIs
    <3> QED BY <3>2
  <2>2. Places(m, z) # {} /\ First(Places(m, z)) = n
    BY <1>7, <1>10
  <2>3. \A i \in Places(m, z) : n <= i
    <3>1. Places(m, z) \in SUBSET Nat
      BY <2>1
    <3> QED BY <2>2, <3>1, FirstIs
  <2>4. NoneBefore(z, from, n) /\ inside = from /\ add = Plain(t, from, n)
    BY <1>4, <1>10, <2>2, <2>3 DEF NoneBefore, Plain
  <2> QED BY <1>3, <2>4
<1>11. CASE Places(m, t) # {} /\ from
  <2>1. n = First(Places(m, t)) + 3 /\ inside = FALSE /\ add = Placeholder /\ m = WidgetClose
    BY <1>4, <1>11 DEF StepOf, MarkOf
  <2>2. StepOf(z, from, n, inside, add)
    BY <1>7, <1>11, <2>1 DEF StepOf
  <2> QED BY <1>3, <2>2
<1>12. CASE Places(m, t) # {} /\ ~from /\ ~(n = First(Places(m, t)) /\ inside = FALSE /\ add = Upto(t, n - 1))
  <2>1. m = WidgetOpen
    BY <1>4, <1>12 DEF MarkOf
  <2>2. /\ n = First(Places(m, t)) + 3 /\ n <= l
        /\ \/ t[n] \notin Delimiters /\ inside = FALSE /\ add = Upto(t, n - 1)
           \/ t[n] \in Delimiters /\ inside = TRUE /\ add = Upto(t, n - 4)
    BY <1>1, <1>12, <2>1 DEF StepOf
  <2>3. n \in 1 .. l /\ z[n] = t[n] /\ n <= l + lb
    BY <1>2, <1>3, <2>2
  <2>4. Upto(z, n - 1) = Upto(t, n - 1)
    BY <1>2, <1>8
  <2>5. Upto(z, n - 4) = Upto(t, n - 4)
    <3>1. PICK i \in 1 .. l - 2 : i = First(Places(m, t))
      BY <1>7, <1>12
    <3>2. n - 4 = i - 1 /\ i \in 1 .. l + 1
      BY <2>2, <3>1
    <3> QED BY <1>8, <3>2
  <2>6. Places(WidgetOpen, z) # {} /\ n = First(Places(WidgetOpen, z)) + 3 /\ n <= Len(z)
    BY <1>3, <1>7, <1>12, <2>1, <2>2, <2>3
  <2>7. StepOf(z, from, n, inside, add)
    BY <1>12, <2>2, <2>3, <2>4, <2>5, <2>6, Zenon DEF StepOf
  <2> QED BY <1>3, <2>7
<1> QED BY <1>9, <1>10, <1>11, <1>12

LEMMA FilterWidgetStep ==
  ASSUME NEW w \in WidgetTexts
  PROVE  FilterWidget(w) = FilterWidget(WidgetStep(w))
<1> DEFINE step == [v \in WidgetTexts |-> WidgetStep(v)]
           size == [v \in WidgetTexts |-> Len(v.text)]
<1>1. \A v \in WidgetTexts : Looks(v, WidgetStep(v))
  BY InWidgetLooks, OutOfWidgetLooks DEF WidgetStep
<1>2. step \in [WidgetTexts -> WidgetTexts] /\ size \in [WidgetTexts -> Nat]
  BY <1>1, WidgetParts DEF Looks
<1>3. \A v \in WidgetTexts : step[v] # v => size[step[v]] < size[v]
  BY <1>1 DEF Looks
<1>4. \A v \in WidgetTexts : step[v] = WidgetStep(v) /\ FilterWidget(v) = Drained(step, v)
  BY DEF FilterWidget
<1> HIDE DEF step, size
<1>5. Drained(step, w) = Drained(step, step[w])
  BY <1>2, <1>3, DrainedEnds
<1>6. WidgetStep(w) \in WidgetTexts
  BY <1>2, <1>4
<1> QED BY <1>4, <1>5, <1>6

LEMMA EarlyWidget ==
  ASSUME NEW w \in WidgetTexts, NEW b \in Texts
  PROVE  FilterWidget(Fed(WidgetStep(w), b)) = FilterWidget(Fed(w, b))
<1>1. PICK t \in Texts, o \in Texts, from \in BOOLEAN : t = w.text /\ o = w.out /\ from = w.inside
  BY WidgetParts
<1>2. PICK n, inside, add : StepOf(t, from, n, inside, add)
  BY StepOfIs
<1>3. n \in 1 .. Len(t) + 1 /\ inside \in BOOLEAN /\ add \in Texts
  BY <1>2, StepOfIs
<1>4. PICK x : x = Looked(w, n, inside, add)
  OBVIOUS
<1>5. x \in WidgetTexts /\ x.text = From(t, n) /\ x.inside = inside /\ x.out = o \o add
  <2>1. n \in 1 .. Len(w.text) + 1
    BY <1>1, <1>3, Zenon
  <2>2. HasLooked(x, w, n, inside, add)
    BY <1>3, <1>4, <2>1, LookedIs
  <2> QED BY <1>1, <2>2, Zenon DEF HasLooked
<1>6. WidgetStep(w) = x
  BY <1>1, <1>2, <1>4, WidgetStepIs
<1>7. PICK z \in Texts : z = t \o b
  BY TwoTexts
<1>8. PICK h \in WidgetTexts : h = Fed(w, b) /\ h.text = z /\ h.inside = from /\ h.out = o
  BY <1>1, <1>7, FedIs
<1>9. PICK g \in WidgetTexts : g = Fed(x, b) /\ g.text = x.text \o b /\ g.inside = inside /\ g.out = o \o add
  <2>1. PICK g : g = Fed(x, b)
    OBVIOUS
  <2>2. g \in WidgetTexts /\ g.text = x.text \o b /\ g.inside = x.inside /\ g.out = x.out
    BY <1>5, <2>1, FedIs
  <2> QED BY <1>5, <2>1, <2>2, Zenon
<1>10. n \in 1 .. Len(z) + 1
  BY <1>3, <1>7, TwoTexts, TextIs
<1>11. g.text = From(z, n)
  <2>1. From(t, n) \o b = From(t \o b, n)
    BY <1>3, JoinedFrom
  <2> QED BY <1>5, <1>7, <1>9, <2>1, Zenon
<1>12. CASE StepOf(z, from, n, inside, add)
  <2>1. WidgetStep(h) = Looked(h, n, inside, add)
    BY <1>8, <1>12, WidgetStepIs
  <2>2. PICK y : y = Looked(h, n, inside, add)
    OBVIOUS
  <2>3. y \in WidgetTexts /\ y.text = From(h.text, n) /\ y.inside = inside /\ y.out = h.out \o add
    <3>1. n \in 1 .. Len(h.text) + 1
      BY <1>8, <1>10
    <3>2. HasLooked(y, h, n, inside, add)
      BY <1>3, <2>2, <3>1, LookedIs
    <3> QED BY <3>2, Zenon DEF HasLooked
  <2>4. y = g
    BY <1>8, <1>9, <1>11, <2>3, WidgetSame
  <2> QED BY <1>6, <1>8, <1>9, <2>1, <2>2, <2>4, FilterWidgetStep
<1>13. CASE inside = from /\ add = Plain(t, from, n) /\ NoneBefore(z, from, n)
  <2>1. Plain(z, from, n) = Plain(t, from, n)
    <3>1. n - 1 \in 0 .. Len(t)
      BY <1>3, TextIs
    <3> QED BY <1>7, <3>1, JoinedUpto DEF Plain
  <2>2. /\ n \in 1 .. Len(h.text) + 1 /\ g.inside = h.inside /\ g.text = From(h.text, n)
        /\ g.out = h.out \o Plain(h.text, h.inside, n)
    BY <1>8, <1>9, <1>10, <1>11, <1>13, <2>1
  <2>3. /\ \A i \in Places(MarkOf(h.inside), h.text) : n <= i
        /\ Places(MarkOf(h.inside), h.text) = {} => n <= PartialSuffix(h.text, MarkOf(h.inside))
    BY <1>8, <1>13 DEF NoneBefore
  <2>4. WidgetStep(g) = WidgetStep(h)
    BY <2>2, <2>3, StepAfter
  <2>5. FilterWidget(g) = FilterWidget(h)
    BY <2>4, FilterWidgetStep
  <2> QED BY <1>6, <1>8, <1>9, <2>5
<1> QED BY <1>1, <1>2, <1>7, <1>12, <1>13, StepGoesOn

\* What the second stage is given in two chunks it may as well be given in one, and
\* what it gave out before is before what it gives out.
LEMMA FilterWidgetCut ==
  ASSUME NEW w \in WidgetTexts, NEW b \in Texts
  PROVE  FilterWidget(Fed(FilterWidget(w), b)) = FilterWidget(Fed(w, b))
<1> DEFINE step == [v \in WidgetTexts |-> WidgetStep(v)]
           size == [v \in WidgetTexts |-> Len(v.text)]
           more == [v \in WidgetTexts |-> Fed(v, b)]
<1>1. \A v \in WidgetTexts : Looks(v, WidgetStep(v))
  BY InWidgetLooks, OutOfWidgetLooks DEF WidgetStep
<1>2. /\ step \in [WidgetTexts -> WidgetTexts] /\ size \in [WidgetTexts -> Nat]
      /\ more \in [WidgetTexts -> WidgetTexts]
  BY <1>1, WidgetParts, FedIs DEF Looks
<1>3. \A v \in WidgetTexts : step[v] # v => size[step[v]] < size[v]
  BY <1>1 DEF Looks
<1>4. \A v \in WidgetTexts : /\ step[v] = WidgetStep(v) /\ FilterWidget(v) = Drained(step, v)
                             /\ more[v] = Fed(v, b) /\ more[v] \in WidgetTexts
  BY <1>2 DEF FilterWidget
<1> HIDE DEF step, size, more
<1>5. ASSUME NEW v \in WidgetTexts PROVE Drained(step, more[step[v]]) = Drained(step, more[v])
  <2>1. WidgetStep(v) \in WidgetTexts
    BY <1>2, <1>4
  <2>2. FilterWidget(Fed(WidgetStep(v), b)) = FilterWidget(Fed(v, b))
    BY EarlyWidget
  <2> QED BY <1>4, <2>1, <2>2
<1>6. Drained(step, more[Drained(step, w)]) = Drained(step, more[w])
  BY <1>2, <1>3, <1>5, LoopCut
<1>7. FilterWidget(w) \in WidgetTexts
  BY FilterWidgetEnds
<1> QED BY <1>4, <1>6, <1>7

LEMMA FilterWidgetBefore ==
  ASSUME NEW w \in WidgetTexts, NEW u \in Texts
  PROVE  FilterWidget(Before(w, u)) = Before(FilterWidget(w), u)
<1> DEFINE step == [v \in WidgetTexts |-> WidgetStep(v)]
           size == [v \in WidgetTexts |-> Len(v.text)]
           put  == [v \in WidgetTexts |-> Before(v, u)]
<1>1. \A v \in WidgetTexts : Looks(v, WidgetStep(v))
  BY InWidgetLooks, OutOfWidgetLooks DEF WidgetStep
<1>2. /\ step \in [WidgetTexts -> WidgetTexts] /\ size \in [WidgetTexts -> Nat]
      /\ put \in [WidgetTexts -> WidgetTexts]
  BY <1>1, WidgetParts, BeforeIs DEF Looks
<1>3. \A v \in WidgetTexts : step[v] # v => size[step[v]] < size[v]
  BY <1>1 DEF Looks
<1>4. \A v \in WidgetTexts : /\ step[v] = WidgetStep(v) /\ FilterWidget(v) = Drained(step, v)
                             /\ put[v] = Before(v, u) /\ put[v] \in WidgetTexts
  BY <1>2 DEF FilterWidget
<1> HIDE DEF step, size, put
<1>5. ASSUME NEW v \in WidgetTexts PROVE step[put[v]] = put[step[v]]
  BY <1>4, BeforeStep
<1>6. Drained(step, put[w]) = put[Drained(step, w)]
  BY <1>2, <1>3, <1>5, LoopPut
<1>7. FilterWidget(w) \in WidgetTexts
  BY FilterWidgetEnds
<1> QED BY <1>4, <1>6, <1>7

-----------------------------------------------------------------------------
(* The third stage: tags.                                                   *)

\* What stands in t from i up to n may be, or become, a FollowUp tag.
MayBe(t, i, n) == \A j \in 1 .. 3 : i + j - 1 <= n => t[i + j - 1] = FollowUp[j]

\* A FollowUp tag: its name, and a ">" after it.
Tag(t, i, e) == i \in Places(FollowUp, t) /\ e \in Where(Angles, t) /\ i <= e
NoTag(t) == \A i, e : ~Tag(t, i, e)
FirstTag(t, i, e) == Tag(t, i, e) /\ \A j, g : Tag(t, j, g) => i <= j /\ (j = i => e <= g)

\* No tag is open at the end of u.
Closed(u) == \A i \in Where({"<"}, u) : ~MayBe(u, i, Len(u))

LEMMA FollowUpIs ==
  /\ FollowUp \in Seq(MarkWords) /\ Len(FollowUp) = 3 /\ Len(FollowUp) > 0
  /\ FollowUp[1] = "<" /\ FollowUp[2] = "Follow" /\ FollowUp[3] = "Up"
<1>1. FollowUp \in Seq(MarkWords)
  BY DEF FollowUp, MarkWords
<1>2. Len(FollowUp) = 3 /\ FollowUp[1] = "<" /\ FollowUp[2] = "Follow" /\ FollowUp[3] = "Up"
  BY DEF FollowUp
<1>3. Len(FollowUp) > 0
  BY <1>2
<1> QED BY <1>1, <1>2, <1>3, Zenon

LEMMA WhereIs ==
  ASSUME NEW t \in Texts, NEW P, NEW i
  PROVE  i \in Where(P, t) <=> i \in 1 .. Len(t) /\ t[i] \in P
BY TextIs DEF Where

LEMMA BeginsIs ==
  ASSUME NEW t \in Texts, NEW n \in 1 .. Len(t), NEW i \in 1 .. n
  PROVE  Begins(SubSeq(t, i, n)) <=> MayBe(t, i, n)
<1>1. PICK l \in Nat : l = Len(t)
  BY TextIs
<1>2. n \in Int /\ i \in Int /\ 1 <= i /\ i <= n /\ n <= l
  BY <1>1
<1>3. PICK d \in Nat : d = n - i + 1 /\ d >= 1
  <2>1. n - i + 1 \in Nat /\ n - i + 1 >= 1
    BY <1>2
  <2> QED BY <2>1
<1>4. PICK u \in Texts : u = SubSeq(t, i, n) /\ Len(u) = d /\ \A j \in 1 .. d : u[j] = t[i + j - 1]
  <2>1. \A j \in i .. n : j \in 1 .. Len(t)
    BY <1>1, <1>2
  <2>2. \A j \in i .. n : t[j] \in Pieces
    BY <2>1, TextIs
  <2>3. PICK u : u = SubSeq(t, i, n)
    OBVIOUS
  <2>4. u \in Seq(Pieces) /\ Len(u) = n - i + 1 /\ \A j \in 1 .. n - i + 1 : u[j] = t[i + j - 1]
    BY <1>2, <2>2, <2>3, SubSeqProperties
  <2>5. u \in Texts /\ Len(u) = d /\ \A j \in 1 .. d : u[j] = t[i + j - 1]
    BY <1>3, <2>4, Zenon DEF Texts
  <2> QED BY <2>3, <2>5
<1>5. PICK m \in 1 .. 3 : m = (IF d < 3 THEN d ELSE 3) /\ m <= d
  <2>1. CASE d < 3
    BY <1>3, <2>1
  <2>2. CASE ~(d < 3)
    BY <1>3, <2>2
  <2> QED BY <2>1, <2>2
<1>6. PICK x \in Texts : x = Upto(u, m) /\ Len(x) = m /\ \A j \in 1 .. m : x[j] = u[j]
  <2>1. m \in 0 .. Len(u)
    BY <1>4, <1>5
  <2> QED BY <2>1, UptoIs
<1>7. PICK y \in Seq(MarkWords) : y = Upto(FollowUp, m) /\ Len(y) = m /\ \A j \in 1 .. m : y[j] = FollowUp[j]
  <2>1. \A j \in 1 .. Len(FollowUp) : FollowUp[j] \in MarkWords
    <3>1. FollowUp \in Seq(MarkWords)
      BY FollowUpIs
    <3> QED BY <3>1
  <2>2. Len(FollowUp) = 3
    BY FollowUpIs
  <2>3. \A j \in 1 .. m : j \in 1 .. 3
    BY <1>5
  <2>4. \A j \in 1 .. m : FollowUp[j] \in MarkWords
    BY <2>1, <2>2, <2>3
  <2>5. PICK y : y = SubSeq(FollowUp, 1, m)
    OBVIOUS
  <2>6. y \in Seq(MarkWords) /\ Len(y) = m /\ \A j \in 1 .. m - 1 + 1 : y[j] = FollowUp[1 + j - 1]
    BY <1>5, <2>4, <2>5, SubSeqProperties
  <2>7. \A j \in 1 .. m : j \in 1 .. m - 1 + 1 /\ 1 + j - 1 = j
    BY <1>5
  <2> QED BY <2>5, <2>6, <2>7 DEF Upto
<1>8. Begins(u) <=> x = y
  <2>1. Len(FollowUp) = 3
    BY FollowUpIs
  <2> QED BY <1>4, <1>5, <1>6, <1>7, <2>1 DEF Begins
<1>9. x = y <=> \A j \in 1 .. m : x[j] = y[j]
  BY <1>6, <1>7 DEF Texts
<1>10. (\A j \in 1 .. m : x[j] = y[j]) <=> \A j \in 1 .. 3 : i + j - 1 <= n => t[i + j - 1] = FollowUp[j]
  <2>1. \A j \in 1 .. 3 : i + j - 1 <= n <=> j \in 1 .. m
    BY <1>2, <1>3, <1>5
  <2>2. \A j \in 1 .. m : j \in 1 .. d /\ j \in 1 .. 3
    BY <1>3, <1>5
  <2>3. \A j \in 1 .. m : x[j] = t[i + j - 1] /\ y[j] = FollowUp[j]
    BY <1>4, <1>6, <1>7, <2>2
  <2> QED BY <2>1, <2>2, <2>3
<1> QED BY <1>4, <1>8, <1>9, <1>10 DEF MayBe

\* The first ">" after a tag's name comes after all of it.
LEMMA TagIs ==
  ASSUME NEW t \in Texts
  PROVE  /\ NoTag(t) \/ \E i, e : FirstTag(t, i, e)
         /\ \A i, e : Tag(t, i, e) =>
              /\ i \in 1 .. Len(t) /\ e \in 1 .. Len(t) /\ i + 3 <= e
              /\ t[i] = "<" /\ \A n \in Int : MayBe(t, i, n)
<1>1. PICK l \in Nat : l = Len(t)
  BY TextIs
<1>2. ASSUME NEW i, NEW e, Tag(t, i, e)
      PROVE  /\ i \in 1 .. l /\ e \in 1 .. l /\ i + 3 <= e
             /\ t[i] = "<" /\ \A n \in Int : MayBe(t, i, n)
  <2>1. i \in Int /\ 1 <= i /\ i + Len(FollowUp) - 1 <= Len(t) /\ Matching(FollowUp, t, i)
    BY <1>2, FollowUpIs, PlaceIs DEF Tag
  <2>2. i \in Int /\ 1 <= i /\ i + 2 <= l
    BY <1>1, <2>1, FollowUpIs
  <2>3. e \in 1 .. l /\ t[e] \in Angles /\ i <= e
    BY <1>1, <1>2, WhereIs DEF Tag
  <2>4. \A j \in 1 .. 3 : t[i + j - 1] = FollowUp[j]
    BY <2>1, FollowUpIs DEF Matching
  <2>5. t[i] = "<" /\ t[i + 1] = "Follow" /\ t[i + 2] = "Up"
    <3>1. 1 \in 1 .. 3 /\ 2 \in 1 .. 3 /\ 3 \in 1 .. 3 /\ i + 1 - 1 = i /\ i + 2 - 1 = i + 1 /\ i + 3 - 1 = i + 2
      BY <2>2
    <3>2. t[i + 1 - 1] = FollowUp[1] /\ t[i + 2 - 1] = FollowUp[2] /\ t[i + 3 - 1] = FollowUp[3]
      BY <2>4, <3>1
    <3> QED BY <3>1, <3>2, FollowUpIs
  <2>6. e # i /\ e # i + 1 /\ e # i + 2
    BY <2>3, <2>5 DEF Angles
  <2>7. i + 3 <= e /\ i \in 1 .. l
    BY <2>2, <2>3, <2>6
  <2>8. \A n \in Int : MayBe(t, i, n)
    BY <2>4 DEF MayBe
  <2> QED BY <2>3, <2>5, <2>7, <2>8
<1>3. ASSUME ~NoTag(t) PROVE \E i, e : FirstTag(t, i, e)
  <2>1. PICK starts : starts = {i \in 1 .. l : \E e : Tag(t, i, e)}
    OBVIOUS
  <2>2. PICK i \in starts : \A j \in starts : i <= j
    <3>1. starts \in SUBSET Nat
      BY <2>1
    <3>2. starts # {}
      BY <1>2, <1>3, <2>1 DEF NoTag
    <3> QED BY <3>1, <3>2, Least
  <2>3. PICK ends : ends = {e \in 1 .. l : Tag(t, i, e)}
    OBVIOUS
  <2>4. PICK e \in ends : \A g \in ends : e <= g
    <3>1. ends \in SUBSET Nat
      BY <2>3
    <3>2. ends # {}
      BY <1>2, <2>1, <2>2, <2>3
    <3> QED BY <3>1, <3>2, Least
  <2>5. ASSUME NEW j, NEW g, Tag(t, j, g) PROVE i <= j /\ (j = i => e <= g)
    <3>1. j \in starts
      BY <1>2, <2>1, <2>5
    <3>2. j = i => g \in ends
      BY <1>2, <2>3, <2>5
    <3> QED BY <2>2, <2>4, <3>1, <3>2
  <2>6. Tag(t, i, e)
    BY <2>3, <2>4
  <2> QED BY <2>5, <2>6 DEF FirstTag
<1> QED BY <1>1, <1>2, <1>3

\* The first tag is dropped, and what follows it is searched on.
LEMMA TagDropped ==
  ASSUME NEW t \in Texts, TagsClose(t)
  PROVE  /\ NoTag(t) => DropFollowUps(t) = t
         /\ \A i, e : FirstTag(t, i, e) =>
              DropFollowUps(t) = Upto(t, i - 1) \o DropFollowUps(From(t, e + 1))
<1> DEFINE Ends(j) == Where(Angles, t) \cap (j .. Len(t))
           hits == {j \in Places(FollowUp, t) :
                      /\ Ends(j) # {} /\ t[First(Ends(j))] = "/>"
                      /\ t[j + 3] \in Blanks \cup Punctuation}
<1>1. PICK l \in Nat : l = Len(t)
  BY TextIs
<1>2. \A j \in Places(FollowUp, t) : j \in Nat
  <2>1. \A j \in Places(FollowUp, t) : j \in Int /\ 1 <= j
    BY FollowUpIs, PlaceIs
  <2> QED BY <2>1
<1>3. ASSUME NEW j \in Int, NEW g PROVE g \in Ends(j) <=> g \in Where(Angles, t) /\ j <= g
  BY <1>1, WhereIs
<1>4. FollowUpHit(t) = IF hits = {} THEN NoHit(t)
                       ELSE Hit(Upto(t, First(hits) - 1), From(t, First(Ends(First(hits))) + 1))
  BY DEF FollowUpHit
<1>5. \A j : j \in hits => j \in Places(FollowUp, t) /\ Ends(j) # {}
  OBVIOUS
<1>6. \A j \in Places(FollowUp, t) :
        Ends(j) # {} /\ t[First(Ends(j))] = "/>" /\ t[j + 3] \in Blanks \cup Punctuation => j \in hits
  OBVIOUS
<1> DEFINE search == [u \in Texts |-> FollowUpHit(u)]
<1>7. \A u \in Texts : search[u] \in Hits(u)
  BY FollowUpHits
<1>8. DropFollowUps(t) = Sub(search, t) /\ search[t] = FollowUpHit(t)
      /\ \A u : DropFollowUps(u) = Sub(search, u)
  BY DEF DropFollowUps
<1> HIDE DEF Ends, hits, search
<1>9. ASSUME NoTag(t) PROVE DropFollowUps(t) = t
  <2>1. ASSUME NEW j \in hits PROVE FALSE
    <3>1. PICK g : g \in Ends(j)
      BY <1>5
    <3>2. Tag(t, j, g)
      BY <1>2, <1>3, <1>5, <3>1 DEF Tag
    <3> QED BY <1>9, <3>2 DEF NoTag
  <2>2. search[t] = NoHit(t)
    BY <1>4, <1>8, <2>1
  <2>3. ~search[t].found /\ search[t].before = t
    BY <2>2 DEF NoHit
  <2> QED BY <1>7, <1>8, <2>3, SubTyped
<1>10. ASSUME NEW i, NEW e, FirstTag(t, i, e)
       PROVE  DropFollowUps(t) = Upto(t, i - 1) \o DropFollowUps(From(t, e + 1))
  <2>1. Tag(t, i, e) /\ \A j, g : Tag(t, j, g) => i <= j /\ (j = i => e <= g)
    BY <1>10 DEF FirstTag
  <2>2. i \in Places(FollowUp, t) /\ e \in Where(Angles, t) /\ i <= e /\ i \in Nat
    BY <1>2, <2>1 DEF Tag
  <2>3. e \in Ends(i) /\ \A g \in Ends(i) : e <= g
    BY <1>3, <2>1, <2>2 DEF Tag
  <2>4. Ends(i) \in SUBSET Nat
    <3>1. \A g \in Ends(i) : g \in 1 .. l
      BY <1>1, <1>3, <2>2, WhereIs
    <3> QED BY <3>1
  <2>5. First(Ends(i)) = e
    BY <2>3, <2>4, FirstOnly
  <2>6. t[e] = "/>" /\ t[i + 3] \in Blanks \cup Punctuation
    <3>1. \A g \in Where(Angles, t) : i <= g => e <= g
      BY <1>3, <2>2, <2>3
    <3> QED BY <2>2, <3>1 DEF TagsClose
  <2>7. i \in hits
    BY <1>6, <2>2, <2>3, <2>5, <2>6
  <2>8. ASSUME NEW j \in hits PROVE i <= j
    <3>1. PICK g : g \in Ends(j)
      BY <1>5
    <3>2. Tag(t, j, g)
      BY <1>2, <1>3, <1>5, <3>1 DEF Tag
    <3> QED BY <2>1, <3>2
  <2>9. First(hits) = i
    <3>1. hits \in SUBSET Nat
      BY <1>2, <1>5
    <3> QED BY <2>7, <2>8, <3>1, FirstOnly
  <2>10. search[t] = Hit(Upto(t, i - 1), From(t, e + 1))
    BY <1>4, <1>8, <2>5, <2>7, <2>9
  <2>11. search[t].found /\ search[t].before = Upto(t, i - 1) /\ search[t].rest = From(t, e + 1)
    BY <2>10 DEF Hit
  <2>12. Sub(search, t) = search[t].before \o Sub(search, search[t].rest)
    BY <1>7, <2>11, SubTyped
  <2> QED BY <1>8, <2>11, <2>12
<1> QED BY <1>9, <1>10

\* Tags in what is left of a text, and in one that goes on.
LEMMA TagFrom ==
  ASSUME NEW t \in Texts, NEW k \in 1 .. Len(t) + 1, NEW i \in Int, NEW e \in Int
  PROVE  Tag(From(t, k), i, e) <=> 1 <= i /\ Tag(t, i + k - 1, e + k - 1)
<1>1. PICK l \in Nat : l = Len(t)
  BY TextIs
<1>2. PICK u \in Texts : u = From(t, k) /\ Len(u) = l - k + 1 /\ \A j \in 1 .. l - k + 1 : u[j] = t[j + k - 1]
  BY <1>1, FromPieces
<1>3. i \in Places(FollowUp, u) <=> 1 <= i /\ i + k - 1 \in Places(FollowUp, t)
  BY <1>2, FollowUpIs, PlacesFrom
<1>4. k \in Int /\ 1 <= k /\ k <= l + 1
  BY <1>1
<1>5. ASSUME 1 <= e PROVE e \in Where(Angles, u) <=> e + k - 1 \in Where(Angles, t)
  <2>1. e \in 1 .. l - k + 1 <=> e + k - 1 \in 1 .. l
    BY <1>4, <1>5
  <2>2. e \in 1 .. l - k + 1 => u[e] = t[e + k - 1]
    BY <1>2
  <2> QED BY <1>1, <1>2, <2>1, <2>2, WhereIs
<1>6. ASSUME e \in Where(Angles, u) PROVE 1 <= e
  <2>1. e \in 1 .. Len(u)
    BY <1>6, WhereIs
  <2> QED BY <2>1
<1>7. i <= e <=> i + k - 1 <= e + k - 1
  BY <1>4
<1>8. 1 <= i /\ i <= e => 1 <= e
  OBVIOUS
<1> QED BY <1>2, <1>3, <1>5, <1>6, <1>7, <1>8 DEF Tag

LEMMA TagJoined ==
  ASSUME NEW s \in Texts, NEW b \in Texts, NEW i, NEW e
  PROVE  Tag(s, i, e) <=> Tag(s \o b, i, e) /\ e <= Len(s)
<1>1. PICK n \in Nat, l \in Nat : n = Len(s) /\ l = Len(b)
  BY TextIs
<1>2. PICK z \in Texts : z = s \o b
  BY TwoTexts
<1>3. Len(z) = n + l /\ \A j \in 1 .. n : z[j] = s[j]
  BY <1>1, <1>2, JoinIs
<1>4. e \in Where(Angles, s) <=> e \in Where(Angles, z) /\ e <= n
  <2>1. e \in 1 .. n <=> e \in 1 .. n + l /\ e <= n
    BY <1>1
  <2>2. e \in 1 .. n => z[e] = s[e]
    BY <1>3
  <2> QED BY <1>1, <1>3, <2>1, <2>2, WhereIs
<1>5. ASSUME Tag(s, i, e) PROVE Tag(z, i, e) /\ e <= n
  <2>1. i \in Places(FollowUp, z)
    BY <1>2, <1>5, FollowUpIs, PlacesJoined DEF Tag
  <2> QED BY <1>4, <1>5, <2>1 DEF Tag
<1>6. ASSUME Tag(z, i, e), e <= n PROVE Tag(s, i, e)
  <2>1. i \in 1 .. Len(z) /\ e \in 1 .. Len(z) /\ i + 3 <= e
    BY <1>6, TagIs
  <2>2. i + Len(FollowUp) - 1 <= Len(s)
    BY <1>1, <1>6, <2>1, FollowUpIs
  <2>3. i \in Places(FollowUp, s)
    BY <1>2, <1>6, <2>2, FollowUpIs, PlacesJoined DEF Tag
  <2> QED BY <1>4, <1>6, <2>3 DEF Tag
<1> QED BY <1>1, <1>2, <1>5, <1>6

\* The two parts of TagsClose.
Apart(t) ==
  \A i, j \in Where({"<"}, t) :
    i < j /\ MayBe(t, i, j - 1) => \E e \in Where(Angles, t) : i < e /\ e < j
TagsEnd(t) ==
  \A i, e : Tag(t, i, e) /\ (\A d : Tag(t, i, d) => e <= d) =>
    t[e] = "/>" /\ t[i + 3] \in Blanks \cup Punctuation

LEMMA CloseIs ==
  ASSUME NEW t \in Texts
  PROVE  TagsClose(t) <=> Apart(t) /\ TagsEnd(t)
<1>1. PICK l \in Nat : l = Len(t)
  BY TextIs
<1>2. ASSUME NEW i \in Where({"<"}, t), NEW j \in Where({"<"}, t), i < j
      PROVE  Begins(SubSeq(t, i, j - 1)) <=> MayBe(t, i, j - 1)
  <2>1. i \in 1 .. l /\ j \in 1 .. l
    BY <1>1, WhereIs
  <2>2. j - 1 \in 1 .. Len(t) /\ i \in 1 .. j - 1
    BY <1>1, <1>2, <2>1
  <2> QED BY <2>2, BeginsIs
<1>3. (\A i, j \in Where({"<"}, t) :
         i < j /\ Begins(SubSeq(t, i, j - 1)) => \E e \in Where(Angles, t) : i < e /\ e < j)
      <=> Apart(t)
  BY <1>2 DEF Apart
<1>4. (\A i \in Places(FollowUp, t), e \in Where(Angles, t) :
         i <= e /\ (\A d \in Where(Angles, t) : i <= d => e <= d) =>
           t[e] = "/>" /\ t[i + 3] \in Blanks \cup Punctuation)
      <=> TagsEnd(t)
  BY DEF TagsEnd, Tag
<1> QED BY <1>3, <1>4 DEF TagsClose

LEMMA CloseFrom ==
  ASSUME NEW t \in Texts, TagsClose(t), NEW k \in 1 .. Len(t) + 1
  PROVE  TagsClose(From(t, k))
<1>1. PICK l \in Nat : l = Len(t)
  BY TextIs
<1>2. PICK u \in Texts : u = From(t, k) /\ Len(u) = l - k + 1 /\ \A j \in 1 .. l - k + 1 : u[j] = t[j + k - 1]
  BY <1>1, FromPieces
<1>3. k \in Int /\ 1 <= k /\ k <= l + 1
  BY <1>1
<1>4. ASSUME NEW P, NEW i
      PROVE  i \in Where(P, u) <=> i \in 1 .. l - k + 1 /\ i + k - 1 \in Where(P, t)
  <2>1. i \in 1 .. l - k + 1 => i + k - 1 \in 1 .. l
    BY <1>3
  <2> QED BY <1>1, <1>2, <2>1, WhereIs
<1>5. Apart(u)
  <2> SUFFICES ASSUME NEW i \in Where({"<"}, u), NEW j \in Where({"<"}, u), i < j, MayBe(u, i, j - 1)
               PROVE  \E e \in Where(Angles, u) : i < e /\ e < j
    BY DEF Apart
  <2>1. /\ i \in 1 .. l - k + 1 /\ i + k - 1 \in Where({"<"}, t)
        /\ j \in 1 .. l - k + 1 /\ j + k - 1 \in Where({"<"}, t)
    BY <1>4
  <2>2. PICK o \in Int, p \in Int : o = i + k - 1 /\ p = j + k - 1 /\ o < p
    BY <1>3, <2>1
  <2>3. MayBe(t, o, p - 1)
    <3> SUFFICES ASSUME NEW d \in 1 .. 3, o + d - 1 <= p - 1 PROVE t[o + d - 1] = FollowUp[d]
      BY DEF MayBe
    <3>1. i + d - 1 <= j - 1 /\ i + d - 1 \in 1 .. l - k + 1 /\ (i + d - 1) + k - 1 = o + d - 1
      BY <1>3, <2>1, <2>2
    <3>2. u[i + d - 1] = FollowUp[d] /\ u[i + d - 1] = t[(i + d - 1) + k - 1]
      BY <1>2, <3>1 DEF MayBe
    <3> QED BY <3>1, <3>2
  <2>4. PICK e \in Where(Angles, t) : o < e /\ e < p
    <3>1. Apart(t)
      BY CloseIs
    <3> QED BY <2>1, <2>2, <2>3, <3>1 DEF Apart
  <2>5. PICK g \in Int : g = e - k + 1 /\ g + k - 1 = e
    <3>1. e \in 1 .. l
      BY <1>1, WhereIs
    <3> QED BY <1>3, <3>1
  <2>6. i < g /\ g < j /\ g \in 1 .. l - k + 1
    <3>1. e \in 1 .. l
      BY <1>1, WhereIs
    <3> QED BY <1>3, <2>1, <2>2, <2>4, <2>5, <3>1
  <2>7. g \in Where(Angles, u)
    BY <1>4, <2>5, <2>6
  <2> QED BY <2>6, <2>7
<1>6. TagsEnd(u)
  <2> SUFFICES ASSUME NEW i, NEW e, Tag(u, i, e), \A d : Tag(u, i, d) => e <= d
               PROVE  u[e] = "/>" /\ u[i + 3] \in Blanks \cup Punctuation
    BY DEF TagsEnd
  <2>1. i \in 1 .. l - k + 1 /\ e \in 1 .. l - k + 1 /\ i + 3 <= e
    BY <1>2, TagIs
  <2>2. PICK o \in Int, p \in Int : o = i + k - 1 /\ p = e + k - 1
    BY <1>3, <2>1
  <2>3. Tag(t, o, p)
    <3>1. i \in Int /\ e \in Int
      BY <2>1
    <3> QED BY <1>2, <2>2, <3>1, TagFrom
  <2>4. ASSUME NEW d, Tag(t, o, d) PROVE p <= d
    <3>1. d \in 1 .. l /\ o + 3 <= d
      BY <1>1, <2>4, TagIs
    <3>2. PICK g \in Int : g = d - k + 1 /\ g + k - 1 = d
      BY <1>3, <3>1
    <3>3. i \in Int /\ 1 <= i
      BY <2>1
    <3>4. Tag(u, i, g)
      BY <1>2, <2>2, <2>4, <3>2, <3>3, TagFrom
    <3>5. e <= g
      BY <3>4
    <3> QED BY <1>3, <2>1, <2>2, <3>2, <3>5
  <2>5. t[p] = "/>" /\ t[o + 3] \in Blanks \cup Punctuation
    <3>1. TagsEnd(t)
      BY CloseIs
    <3> QED BY <2>3, <2>4, <3>1 DEF TagsEnd
  <2>6. u[e] = t[p]
    BY <1>2, <2>1, <2>2
  <2>7. u[i + 3] = t[o + 3]
    <3>1. i + 3 \in 1 .. l - k + 1 /\ (i + 3) + k - 1 = o + 3
      BY <1>3, <2>1, <2>2
    <3> QED BY <1>2, <3>1
  <2> QED BY <2>5, <2>6, <2>7
<1> QED BY <1>2, <1>5, <1>6, CloseIs

LEMMA CloseUpto ==
  ASSUME NEW s \in Texts, NEW b \in Texts, TagsClose(s \o b)
  PROVE  TagsClose(s)
<1>1. PICK n \in Nat, l \in Nat : n = Len(s) /\ l = Len(b)
  BY TextIs
<1>2. PICK z \in Texts : z = s \o b
  BY TwoTexts
<1>3. Len(z) = n + l /\ \A j \in 1 .. n : z[j] = s[j]
  BY <1>1, <1>2, JoinIs
<1>4. ASSUME NEW P, NEW i
      PROVE  i \in Where(P, s) <=> i \in 1 .. n /\ i \in Where(P, z)
  <2>1. i \in 1 .. n => i \in 1 .. n + l
    BY <1>1
  <2> QED BY <1>1, <1>3, <2>1, WhereIs
<1>5. Apart(z) /\ TagsEnd(z)
  BY <1>2, CloseIs
<1>6. Apart(s)
  <2> SUFFICES ASSUME NEW i \in Where({"<"}, s), NEW j \in Where({"<"}, s), i < j, MayBe(s, i, j - 1)
               PROVE  \E e \in Where(Angles, s) : i < e /\ e < j
    BY DEF Apart
  <2>1. i \in 1 .. n /\ i \in Where({"<"}, z) /\ j \in 1 .. n /\ j \in Where({"<"}, z)
    BY <1>4
  <2>2. MayBe(z, i, j - 1)
    <3> SUFFICES ASSUME NEW d \in 1 .. 3, i + d - 1 <= j - 1 PROVE z[i + d - 1] = FollowUp[d]
      BY DEF MayBe
    <3>1. i + d - 1 \in 1 .. n
      BY <2>1
    <3>2. s[i + d - 1] = FollowUp[d]
      BY DEF MayBe
    <3> QED BY <1>3, <3>1, <3>2
  <2>3. PICK e \in Where(Angles, z) : i < e /\ e < j
    BY <1>5, <2>1, <2>2 DEF Apart
  <2>4. e \in 1 .. n
    <3>1. e \in 1 .. n + l
      BY <1>3, WhereIs
    <3> QED BY <2>1, <2>3, <3>1
  <2> QED BY <1>4, <2>3, <2>4
<1>7. TagsEnd(s)
  <2> SUFFICES ASSUME NEW i, NEW e, Tag(s, i, e), \A d : Tag(s, i, d) => e <= d
               PROVE  s[e] = "/>" /\ s[i + 3] \in Blanks \cup Punctuation
    BY DEF TagsEnd
  <2>1. i \in 1 .. n /\ e \in 1 .. n /\ i + 3 <= e
    BY <1>1, TagIs
  <2>2. Tag(z, i, e)
    BY <1>2, TagJoined
  <2>3. ASSUME NEW d, Tag(z, i, d) PROVE e <= d
    <3>1. d \in 1 .. n + l
      BY <1>3, <2>3, TagIs
    <3>2. CASE d <= n
      <4>1. Tag(s, i, d)
        BY <1>1, <1>2, <2>3, <3>2, TagJoined
      <4> QED BY <4>1
    <3>3. CASE ~(d <= n)
      BY <2>1, <3>1, <3>3
    <3> QED BY <3>2, <3>3
  <2>4. z[e] = "/>" /\ z[i + 3] \in Blanks \cup Punctuation
    BY <1>5, <2>2, <2>3 DEF TagsEnd
  <2>5. i + 3 \in 1 .. n
    BY <2>1
  <2> QED BY <1>3, <2>1, <2>4, <2>5
<1> QED BY <1>6, <1>7, CloseIs

-----------------------------------------------------------------------------
(* The third stage: what is withheld.                                       *)

\* What is withheld of s begins at k: its last "<", if that may begin a tag.
Holds(s, k) ==
  \/ /\ k \in Where({"<"}, s) /\ (\A i \in Where({"<"}, s) : i <= k) /\ MayBe(s, k, Len(s))
  \/ /\ k = Len(s) + 1
     /\ \A i \in Where({"<"}, s) : (\A j \in Where({"<"}, s) : j <= i) => ~MayBe(s, i, Len(s))

LEMMA HoldIsAt ==
  ASSUME NEW s \in Texts, NEW k
  PROVE  HoldAt(s) = k <=> Holds(s, k)
<1>1. PICK n \in Nat : n = Len(s)
  BY TextIs
<1>2. PICK angles : angles = Where({"<"}, s)
  OBVIOUS
<1>3. \A i : i \in angles => i \in 1 .. n
  BY <1>1, <1>2, WhereIs
<1>4. CASE angles = {}
  <2>1. HoldAt(s) = n + 1
    BY <1>1, <1>2, <1>4 DEF HoldAt
  <2> QED BY <1>1, <1>2, <1>4, <2>1 DEF Holds
<1>5. CASE angles # {}
  <2>1. PICK i \in 1 .. n : i = Latest(angles) /\ i \in angles /\ \A j \in angles : j <= i
    <3>1. angles \in SUBSET (0 .. n)
      BY <1>3
    <3>2. Latest(angles) \in angles /\ \A j \in angles : j <= Latest(angles)
      BY <1>5, <3>1, LatestIs
    <3> QED BY <1>3, <3>2
  <2>2. Begins(From(s, i)) <=> MayBe(s, i, n)
    <3>1. n \in 1 .. Len(s) /\ i \in 1 .. n
      BY <1>1, <2>1
    <3>2. Begins(SubSeq(s, i, n)) <=> MayBe(s, i, n)
      BY <3>1, BeginsIs
    <3> QED BY <1>1, <3>2 DEF From
  <2>3. HoldAt(s) = IF MayBe(s, i, n) THEN i ELSE n + 1
    BY <1>1, <1>2, <1>5, <2>1, <2>2 DEF HoldAt
  <2>4. \A j \in angles : (\A h \in angles : h <= j) <=> j = i
    BY <1>3, <2>1
  <2>5. i # n + 1
    BY <1>1, <2>1
  <2>6. \A j \in angles : j # n + 1
    BY <1>1, <1>3
  <2>7. CASE MayBe(s, i, n)
    <3>1. HoldAt(s) = i
      BY <2>3, <2>7
    <3>2. Holds(s, k) <=> k = i
      BY <1>1, <1>2, <2>1, <2>4, <2>5, <2>6, <2>7, Zenon DEF Holds
    <3> QED BY <3>1, <3>2
  <2>8. CASE ~MayBe(s, i, n)
    <3>1. HoldAt(s) = n + 1
      BY <2>3, <2>8
    <3>2. Holds(s, k) <=> k = n + 1
      BY <1>1, <1>2, <2>1, <2>4, <2>5, <2>6, <2>8, Zenon DEF Holds
    <3> QED BY <3>1, <3>2
  <2> QED BY <2>7, <2>8
<1> QED BY <1>4, <1>5

\* After a text in which no tag is open, what is withheld is what would be without it.
LEMMA HoldJoined ==
  ASSUME NEW u \in Texts, Closed(u), NEW v \in Texts
  PROVE  HoldAt(u \o v) = Len(u) + HoldAt(v)
<1>1. PICK n \in Nat, l \in Nat : n = Len(u) /\ l = Len(v)
  BY TextIs
<1>2. PICK z \in Texts : z = u \o v
  BY TwoTexts
<1>3. /\ Len(z) = n + l /\ \A i \in 1 .. n : z[i] = u[i]
      /\ \A i \in n + 1 .. n + l : z[i] = v[i - n]
  BY <1>1, <1>2, JoinIs
<1>4. PICK k \in 1 .. l + 1 : k = HoldAt(v) /\ Holds(v, k)
  BY <1>1, HoldIs, HoldIsAt
<1>5. ASSUME NEW i \in 1 .. n PROVE i \in Where({"<"}, z) <=> i \in Where({"<"}, u)
  <2>1. i \in 1 .. n + l
    BY <1>5
  <2> QED BY <1>1, <1>3, <2>1, WhereIs
<1>6. ASSUME NEW i \in 1 .. l PROVE n + i \in Where({"<"}, z) <=> i \in Where({"<"}, v)
  <2>1. n + i \in n + 1 .. n + l /\ n + i \in 1 .. n + l /\ (n + i) - n = i
    BY <1>6
  <2>2. z[n + i] = v[i]
    BY <1>3, <2>1
  <2> QED BY <1>1, <1>3, <2>1, <2>2, WhereIs
<1>7. ASSUME NEW i \in Where({"<"}, z), i \in 1 .. n PROVE ~MayBe(z, i, n + l)
  <2>1. ~MayBe(u, i, n)
    BY <1>1, <1>5, <1>7 DEF Closed
  <2>2. PICK d \in 1 .. 3 : i + d - 1 <= n /\ u[i + d - 1] # FollowUp[d]
    BY <2>1 DEF MayBe
  <2>3. i + d - 1 \in 1 .. n /\ i + d - 1 <= n + l
    BY <1>7, <2>2
  <2> QED BY <1>3, <2>2, <2>3 DEF MayBe
<1>8. ASSUME NEW i \in 1 .. l PROVE MayBe(z, n + i, n + l) <=> MayBe(v, i, l)
  <2>1. ASSUME NEW d \in 1 .. 3
        PROVE  /\ n + i + d - 1 <= n + l <=> i + d - 1 <= l
               /\ i + d - 1 <= l => z[n + i + d - 1] = v[i + d - 1]
    <3>1. ASSUME i + d - 1 <= l PROVE n + i + d - 1 \in n + 1 .. n + l /\ (n + i + d - 1) - n = i + d - 1
      BY <1>8, <3>1
    <3>2. i + d - 1 <= l => z[n + i + d - 1] = v[i + d - 1]
      BY <1>3, <3>1
    <3> QED BY <3>2
  <2> QED BY <2>1 DEF MayBe
<1>9. \A i : i \in Where({"<"}, z) => i \in 1 .. n \/ \E j \in 1 .. l : i = n + j
  <2> SUFFICES ASSUME NEW i, i \in Where({"<"}, z), i \notin 1 .. n PROVE \E j \in 1 .. l : i = n + j
    OBVIOUS
  <2>1. i \in 1 .. n + l
    BY <1>3, WhereIs
  <2>2. i - n \in 1 .. l /\ i = n + (i - n)
    BY <2>1
  <2> QED BY <2>2
<1>10. CASE k \in Where({"<"}, v) /\ (\A i \in Where({"<"}, v) : i <= k) /\ MayBe(v, k, l)
  <2>1. k \in 1 .. l
    BY <1>1, <1>10, WhereIs
  <2>2. n + k \in Where({"<"}, z) /\ MayBe(z, n + k, n + l)
    BY <1>6, <1>8, <1>10, <2>1
  <2>3. ASSUME NEW i \in Where({"<"}, z) PROVE i <= n + k
    <3>1. CASE i \in 1 .. n
      BY <2>1, <3>1
    <3>2. CASE i \notin 1 .. n
      <4>1. PICK j \in 1 .. l : i = n + j
        BY <1>9, <3>2
      <4>2. j <= k
        BY <1>6, <1>10, <4>1
      <4> QED BY <2>1, <4>1, <4>2
    <3> QED BY <3>1, <3>2
  <2>4. Holds(z, n + k)
    BY <1>3, <2>2, <2>3 DEF Holds
  <2> QED BY <1>1, <1>2, <1>4, <2>4, HoldIsAt
<1>11. CASE /\ k = l + 1
            /\ \A i \in Where({"<"}, v) : (\A j \in Where({"<"}, v) : j <= i) => ~MayBe(v, i, l)
  <2>1. ASSUME NEW i \in Where({"<"}, z), \A j \in Where({"<"}, z) : j <= i
        PROVE  ~MayBe(z, i, n + l)
    <3>1. CASE i \in 1 .. n
      BY <1>7, <3>1
    <3>2. CASE i \notin 1 .. n
      <4>1. PICK j \in 1 .. l : i = n + j
        BY <1>9, <3>2
      <4>2. j \in Where({"<"}, v)
        BY <1>6, <4>1
      <4>3. ASSUME NEW h \in Where({"<"}, v) PROVE h <= j
        <5>1. h \in 1 .. l
          BY <1>1, WhereIs
        <5>2. n + h <= i
          BY <1>6, <2>1, <5>1
        <5> QED BY <4>1, <5>1, <5>2
      <4>4. ~MayBe(v, j, l)
        BY <1>11, <4>2, <4>3
      <4> QED BY <1>8, <4>1, <4>4
    <3> QED BY <3>1, <3>2
  <2>2. n + k = n + l + 1
    BY <1>11
  <2>3. Holds(z, n + k)
    BY <1>3, <2>1, <2>2 DEF Holds
  <2> QED BY <1>1, <1>2, <1>4, <2>3, HoldIsAt
<1> QED BY <1>1, <1>4, <1>10, <1>11 DEF Holds

\* Two texts, from a place in the second one.
LEMMA AfterText ==
  ASSUME NEW u \in Texts, NEW s \in Texts, NEW j \in 1 .. Len(s) + 1
  PROVE  /\ From(u \o s, Len(u) + j) = From(s, j)
         /\ Upto(u \o s, Len(u) + j - 1) = u \o Upto(s, j - 1)
<1>1. PICK n \in Nat, l \in Nat : n = Len(u) /\ l = Len(s)
  BY TextIs
<1>2. PICK z \in Texts : z = u \o s
  BY TwoTexts
<1>3. Len(z) = n + l
  BY <1>1, <1>2, JoinIs
<1>4. j \in Int /\ 1 <= j /\ j <= l + 1
  BY <1>1
<1>5. From(z, n + 1) = s
  <2>1. n + 1 \in 1 .. Len(u) + 1 /\ From(u, n + 1) = <<>>
    BY <1>1, WholeText
  <2>2. From(u, n + 1) \o s = From(u \o s, n + 1)
    BY <2>1, JoinedFrom
  <2> QED BY <1>2, <2>1, <2>2, ThreeTexts, Empty
<1>6. Upto(z, n) = u
  <2>1. n \in 0 .. Len(u) /\ Upto(u, n) = u
    BY <1>1, WholeText
  <2>2. Upto(u \o s, n) = Upto(u, n)
    BY <2>1, JoinedUpto
  <2> QED BY <1>2, <2>1, <2>2
<1>7. From(z, n + j) = From(s, j)
  <2>1. n + 1 \in 1 .. Len(z) + 1 /\ j \in 1 .. Len(z) - (n + 1) + 2 /\ (n + 1) + j - 1 = n + j
    BY <1>3, <1>4
  <2>2. From(From(z, n + 1), j) = From(z, (n + 1) + j - 1)
    BY <2>1, FromFrom
  <2> QED BY <1>5, <2>1, <2>2
<1>8. Upto(z, n + j - 1) = u \o Upto(s, j - 1)
  <2>1. PICK a \in Int, c \in Int : a = n + 1 /\ c = n + j
    BY <1>4
  <2>2. a \in 1 .. Len(z) + 1 /\ c \in a .. Len(z) + 1 /\ a - 1 = n /\ c - 1 = n + j - 1 /\ c - a = j - 1
    BY <1>3, <1>4, <2>1
  <2>3. Upto(z, a - 1) \o Upto(From(z, a), c - a) = Upto(z, c - 1)
    BY <2>2, UptoUpto
  <2> QED BY <1>5, <1>6, <2>1, <2>2, <2>3
<1> QED BY <1>1, <1>2, <1>7, <1>8

\* From a place j in s, in the text z that puts it after u, of length n.
SameAfter(u, s, z, n, j) ==
  From(z, n + j) = From(s, j) /\ Upto(z, n + j - 1) = Glued(u, Upto(s, j - 1))

LEMMA AfterWhole ==
  ASSUME NEW u \in Texts, NEW s \in Texts, NEW z, z = Glued(u, s), NEW n, n = Len(u),
         NEW j \in 1 .. Len(s) + 1
  PROVE  SameAfter(u, s, z, n, j)
BY AfterText DEF Glued, SameAfter

LEMMA CutInTwo ==
  ASSUME NEW t \in Texts, NEW k \in 1 .. Len(t) + 1
  PROVE  /\ Upto(t, k - 1) \in Texts /\ Len(Upto(t, k - 1)) = k - 1
         /\ From(t, k) \in Texts /\ t = Upto(t, k - 1) \o From(t, k)
<1>1. PICK n \in Nat : n = Len(t)
  BY TextIs
<1>2. k \in Int /\ 1 <= k /\ k <= n + 1
  BY <1>1
<1>3. PICK v \in Texts : v = From(t, k) /\ Len(v) = n - k + 1
  BY <1>1, FromPieces
<1>4. k - 1 \in 0 .. Len(t)
  BY <1>1, <1>2
<1>5. Upto(t, k - 1) \in Texts /\ Len(Upto(t, k - 1)) = k - 1
  BY <1>4, UptoIs
<1>6. n + 1 \in k .. Len(t) + 1 /\ (n + 1) - k = n - k + 1 /\ (n + 1) - 1 = n
  BY <1>1, <1>2
<1>7. Upto(t, k - 1) \o Upto(v, n - k + 1) = Upto(t, n)
  <2>1. PICK j \in Int : j = n + 1
    BY <1>1
  <2>2. j \in k .. Len(t) + 1 /\ j - k = n - k + 1 /\ j - 1 = n
    BY <1>6, <2>1
  <2>3. Upto(t, k - 1) \o Upto(From(t, k), j - k) = Upto(t, j - 1)
    BY <2>2, UptoUpto
  <2> QED BY <1>3, <2>2, <2>3
<1>8. Upto(v, n - k + 1) = v /\ Upto(t, n) = t
  BY <1>1, <1>3, WholeText
<1> QED BY <1>3, <1>5, <1>7, <1>8

\* After a text in which no tag is open, tags are dropped as they would be without it.
LEMMA DropAfter ==
  ASSUME NEW u \in Texts, Closed(u), NEW v \in Texts, TagsClose(u \o v)
  PROVE  DropFollowUps(u \o v) = u \o DropFollowUps(v)
<1>1. PICK n \in Nat, l \in Nat : n = Len(u) /\ l = Len(v)
  BY TextIs
<1>2. PICK z \in Texts : z = u \o v
  BY TwoTexts
<1>3. Len(z) = n + l /\ \A j \in 1 .. n : z[j] = u[j]
  BY <1>1, <1>2, JoinIs
<1>4. n + 1 \in 1 .. Len(z) + 1 /\ From(z, n + 1) = v
  <2>1. 1 \in 1 .. Len(v) + 1 /\ From(v, 1) = v
    BY <1>1, WholeText
  <2>2. From(u \o v, Len(u) + 1) = From(v, 1)
    BY <2>1, AfterText
  <2> QED BY <1>1, <1>2, <1>3, <2>1, <2>2
<1>5. TagsClose(z) /\ TagsClose(v)
  BY <1>2, <1>4, CloseFrom
<1>6. ASSUME NEW i, NEW e, Tag(z, i, e) PROVE n < i /\ i <= e /\ i \in 1 .. n + l /\ e \in 1 .. n + l
  <2>1. i \in 1 .. n + l /\ e \in 1 .. n + l /\ i + 3 <= e /\ z[i] = "<" /\ MayBe(z, i, n)
    BY <1>3, <1>6, TagIs
  <2>2. ASSUME i <= n PROVE FALSE
    <3>1. i \in 1 .. n /\ i \in Where({"<"}, u)
      BY <1>1, <1>3, <2>1, <2>2, WhereIs
    <3>2. MayBe(u, i, n)
      <4> SUFFICES ASSUME NEW d \in 1 .. 3, i + d - 1 <= n PROVE u[i + d - 1] = FollowUp[d]
        BY DEF MayBe
      <4>1. i + d - 1 \in 1 .. n
        BY <3>1
      <4>2. z[i + d - 1] = FollowUp[d]
        BY <2>1 DEF MayBe
      <4> QED BY <1>3, <4>1, <4>2
    <3> QED BY <1>1, <3>1, <3>2 DEF Closed
  <2> QED BY <2>1, <2>2
<1>7. ASSUME NEW i \in Int, NEW e \in Int
      PROVE  Tag(v, i, e) <=> 1 <= i /\ Tag(z, i + n, e + n)
  <2>1. i + (n + 1) - 1 = i + n /\ e + (n + 1) - 1 = e + n
    OBVIOUS
  <2>2. Tag(From(z, n + 1), i, e) <=> 1 <= i /\ Tag(z, i + (n + 1) - 1, e + (n + 1) - 1)
    BY <1>4, TagFrom
  <2> QED BY <1>4, <2>1, <2>2
<1>8. CASE NoTag(z)
  <2>1. ASSUME NEW i, NEW e, Tag(v, i, e) PROVE FALSE
    <3>1. i \in Int /\ e \in Int
      BY <2>1, TagIs, <1>1
    <3> QED BY <1>7, <1>8, <2>1, <3>1 DEF NoTag
  <2>2. NoTag(v)
    BY <2>1 DEF NoTag
  <2> QED BY <1>2, <1>5, <1>8, <2>2, TagDropped
<1>9. ASSUME NEW i, NEW e, FirstTag(z, i, e) PROVE DropFollowUps(z) = u \o DropFollowUps(v)
  <2>1. Tag(z, i, e) /\ \A j, g : Tag(z, j, g) => i <= j /\ (j = i => e <= g)
    BY <1>9 DEF FirstTag
  <2>2. n < i /\ i <= e /\ i \in 1 .. n + l /\ e \in 1 .. n + l
    BY <1>6, <2>1
  <2>3. PICK j \in 1 .. l, g \in 1 .. l : i = j + n /\ e = g + n
    <3>1. i - n \in 1 .. l /\ e - n \in 1 .. l /\ i = (i - n) + n /\ e = (e - n) + n
      BY <2>2
    <3> QED BY <3>1
  <2>4. FirstTag(v, j, g)
    <3>1. Tag(v, j, g)
      BY <1>7, <2>1, <2>3
    <3>2. ASSUME NEW a, NEW c, Tag(v, a, c) PROVE j <= a /\ (a = j => g <= c)
      <4>1. a \in Int /\ c \in Int
        BY <1>1, <3>2, TagIs
      <4>2. Tag(z, a + n, c + n)
        BY <1>7, <3>2, <4>1
      <4>3. i <= a + n /\ (a + n = i => e <= c + n)
        BY <2>1, <4>2
      <4> QED BY <2>3, <4>1, <4>3
    <3> QED BY <3>1, <3>2 DEF FirstTag
  <2>5. DropFollowUps(z) = Upto(z, i - 1) \o DropFollowUps(From(z, e + 1))
    BY <1>5, <1>9, TagDropped
  <2>6. DropFollowUps(v) = Upto(v, j - 1) \o DropFollowUps(From(v, g + 1))
    BY <1>5, <2>4, TagDropped
  <2>7. Upto(z, i - 1) = u \o Upto(v, j - 1)
    <3>1. j \in 1 .. Len(v) + 1 /\ Len(u) + j - 1 = i - 1
      BY <1>1, <2>3
    <3>2. Upto(u \o v, Len(u) + j - 1) = u \o Upto(v, j - 1)
      BY <3>1, AfterText
    <3> QED BY <1>2, <3>1, <3>2
  <2>8. From(z, e + 1) = From(v, g + 1)
    <3>1. g + 1 \in 1 .. Len(v) + 1 /\ Len(u) + (g + 1) = e + 1
      BY <1>1, <2>3
    <3>2. From(u \o v, Len(u) + (g + 1)) = From(v, g + 1)
      BY <3>1, AfterText
    <3> QED BY <1>2, <3>1, <3>2
  <2>9. PICK x \in Texts, y \in Texts : x = Upto(v, j - 1) /\ y = DropFollowUps(From(v, g + 1))
    <3>1. j - 1 \in 0 .. Len(v) /\ g + 1 \in 1 .. Len(v) + 1
      BY <1>1, <2>3
    <3> QED BY <3>1, UptoIs, FromPieces, Dropped
  <2>10. DropFollowUps(z) = (u \o x) \o y /\ DropFollowUps(v) = x \o y
    BY <2>5, <2>6, <2>7, <2>8, <2>9, Zenon
  <2>11. (u \o x) \o y = u \o (x \o y)
    <3>1. Glued(Glued(u, x), y) = Glued(u, Glued(x, y))
      BY ThreeGlued
    <3> QED BY <3>1, Zenon DEF Glued
  <2> QED BY <2>10, <2>11, Zenon
<1> QED BY <1>2, <1>8, <1>9, TagIs

\* A name with a ">" somewhere after it is a tag.
LEMMA TagBetween ==
  ASSUME NEW t \in Texts, NEW i \in Where({"<"}, t), NEW e \in Where(Angles, t), i < e,
         NEW n \in Int, e <= n, MayBe(t, i, n)
  PROVE  Tag(t, i, e)
<1>1. PICK l \in Nat : l = Len(t)
  BY TextIs
<1>2. i \in 1 .. l /\ e \in 1 .. l /\ t[e] \in Angles
  BY <1>1, WhereIs
<1>3. \A d \in 1 .. 3 : i + d - 1 <= n => t[i + d - 1] = FollowUp[d]
  BY DEF MayBe
<1>4. i + 3 <= e
  <2>1. e # i + 1
    <3>1. ASSUME e = i + 1 PROVE FALSE
      <4>1. 2 \in 1 .. 3 /\ i + 2 - 1 = e
        BY <1>2, <3>1
      <4>2. t[e] = "Follow"
        BY <1>3, <4>1, FollowUpIs
      <4> QED BY <1>2, <4>2 DEF Angles
    <3> QED BY <3>1
  <2>2. e # i + 2
    <3>1. ASSUME e = i + 2 PROVE FALSE
      <4>1. 3 \in 1 .. 3 /\ i + 3 - 1 = e
        BY <1>2, <3>1
      <4>2. t[e] = "Up"
        BY <1>3, <4>1, FollowUpIs
      <4> QED BY <1>2, <4>2 DEF Angles
    <3> QED BY <3>1
  <2> QED BY <1>2, <2>1, <2>2
<1>5. Matching(FollowUp, t, i)
  <2>1. \A d \in 1 .. 3 : i + d - 1 <= n
    BY <1>2, <1>4
  <2> QED BY <1>3, <2>1, FollowUpIs DEF Matching
<1>6. i + 3 - 1 <= l /\ i \in Int /\ 1 <= i
  BY <1>2, <1>4
<1>7. i \in Places(FollowUp, t)
  BY <1>1, <1>5, <1>6, FollowUpIs, PlaceIs
<1> QED BY <1>2, <1>7 DEF Tag

\* Before the first tag no tag is open, and where none is, before what is withheld.
LEMMA ClosedBefore ==
  ASSUME NEW t \in Texts, TagsClose(t), NEW k \in 1 .. Len(t) + 1, \A i, e : Tag(t, i, e) => k <= i,
         k \in Where({"<"}, t) \/ (NoTag(t) /\ k = HoldAt(t))
  PROVE  Closed(Upto(t, k - 1))
<1>1. PICK l \in Nat : l = Len(t)
  BY TextIs
<1>2. k \in Int /\ 1 <= k /\ k <= l + 1
  BY <1>1
<1>3. PICK u \in Texts : u = Upto(t, k - 1) /\ Len(u) = k - 1 /\ \A j \in 1 .. k - 1 : u[j] = t[j]
  <2>1. k - 1 \in 0 .. Len(t)
    BY <1>1, <1>2
  <2> QED BY <2>1, UptoIs
<1>4. Apart(t)
  BY CloseIs
<1> SUFFICES ASSUME NEW i \in Where({"<"}, u), MayBe(u, i, k - 1) PROVE FALSE
  BY <1>3 DEF Closed
<1>5. i \in 1 .. k - 1 /\ i \in Where({"<"}, t)
  <2>1. i \in 1 .. k - 1 /\ u[i] = "<"
    BY <1>3, WhereIs
  <2>2. i \in 1 .. l
    BY <1>2, <2>1
  <2> QED BY <1>1, <1>3, <2>1, <2>2, WhereIs
<1>6. MayBe(t, i, k - 1)
  <2> SUFFICES ASSUME NEW d \in 1 .. 3, i + d - 1 <= k - 1 PROVE t[i + d - 1] = FollowUp[d]
    BY DEF MayBe
  <2>1. i + d - 1 \in 1 .. k - 1
    BY <1>5
  <2>2. u[i + d - 1] = FollowUp[d]
    BY DEF MayBe
  <2> QED BY <1>3, <2>1, <2>2
<1>7. ASSUME NEW j \in Where({"<"}, t), i < j, j <= k PROVE FALSE
  <2>1. j \in 1 .. l
    BY <1>1, WhereIs
  <2>2. MayBe(t, i, j - 1)
    <3>1. \A d \in 1 .. 3 : i + d - 1 <= j - 1 => i + d - 1 <= k - 1
      BY <1>2, <1>5, <1>7, <2>1
    <3> QED BY <1>6, <3>1 DEF MayBe
  <2>3. PICK e \in Where(Angles, t) : i < e /\ e < j
    BY <1>4, <1>5, <1>7, <2>2 DEF Apart
  <2>4. Tag(t, i, e)
    <3>1. e \in 1 .. l
      BY <1>1, WhereIs
    <3>2. j - 1 \in Int /\ e <= j - 1
      BY <2>1, <2>3, <3>1
    <3> QED BY <1>5, <2>2, <2>3, <3>2, TagBetween
  <2>5. k <= i
    BY <2>4
  <2> QED BY <1>2, <1>5, <2>5
<1>8. CASE k \in Where({"<"}, t)
  BY <1>2, <1>5, <1>7, <1>8
<1>9. CASE k \notin Where({"<"}, t) /\ NoTag(t) /\ k = HoldAt(t)
  <2>1. Holds(t, k)
    BY <1>9, HoldIsAt
  <2>2. /\ k = l + 1
        /\ \A h \in Where({"<"}, t) : (\A j \in Where({"<"}, t) : j <= h) => ~MayBe(t, h, l)
    BY <1>1, <1>9, <2>1, Zenon DEF Holds
  <2>3. k - 1 = l
    BY <2>2
  <2>4. PICK j \in Where({"<"}, t) : ~(j <= i)
    BY <1>5, <1>6, <2>2, <2>3
  <2>5. j \in 1 .. l
    BY <1>1, WhereIs
  <2>6. i < j /\ j <= k
    BY <1>5, <2>2, <2>4, <2>5
  <2> QED BY <1>7, <2>6
<1> QED BY <1>8, <1>9

\* What is given out and what is withheld when b comes after a text, and when it is
\* given to what was withheld of it.
CutAt(t, b) ==
  LET s == DropFollowUps(t)
      k == HoldAt(s)
      r == DropFollowUps(From(s, k) \o b)
  IN /\ DropFollowUps(t \o b) = Upto(s, k - 1) \o r
     /\ HoldAt(DropFollowUps(t \o b)) = (k - 1) + HoldAt(r)

LEMMA Regroup ==
  ASSUME NEW q \in Texts, NEW x \in Texts, NEW r \in Texts, NEW d, d = x \o r
  PROVE  (q \o x) \o r = q \o d
<1>1. Glued(Glued(q, x), r) = Glued(q, Glued(x, r))
  BY ThreeGlued
<1> QED BY <1>1, Zenon DEF Glued

LEMMA CutIs ==
  ASSUME NEW t, NEW b, NEW s, NEW k, NEW r,
         s = DropFollowUps(t), k = HoldAt(s), r = DropFollowUps(From(s, k) \o b),
         DropFollowUps(t \o b) = Upto(s, k - 1) \o r,
         HoldAt(DropFollowUps(t \o b)) = (k - 1) + HoldAt(r)
  PROVE  CutAt(t, b)
BY DEF CutAt

LEMMA CutUntagged ==
  ASSUME NEW t \in Texts, NEW b \in Texts, TagsClose(t \o b), NoTag(t)
  PROVE  CutAt(t, b)
<1>1. TagsClose(t) /\ DropFollowUps(t) = t
  BY CloseUpto, TagDropped
<1>2. PICK k \in 1 .. Len(t) + 1 : k = HoldAt(t)
  BY HoldIs
<1>3. PICK u \in Texts, w \in Texts : u = Upto(t, k - 1) /\ w = From(t, k) /\ Len(u) = k - 1 /\ t = u \o w
  BY CutInTwo
<1>4. Closed(u)
  BY <1>1, <1>2, <1>3, ClosedBefore DEF NoTag
<1>5. PICK v \in Texts : v = w \o b
  BY TwoTexts
<1>6. t \o b = u \o v
  <2>1. (u \o w) \o b = u \o (w \o b)
    <3>1. Glued(Glued(u, w), b) = Glued(u, Glued(w, b))
      BY ThreeGlued
    <3> QED BY <3>1, Zenon DEF Glued
  <2> QED BY <1>3, <1>5, <2>1, Zenon
<1>7. PICK r \in Texts : r = DropFollowUps(v)
  BY Dropped
<1>8. DropFollowUps(u \o v) = u \o r
  BY <1>4, <1>6, <1>7, DropAfter
<1>9. HoldAt(u \o r) = (k - 1) + HoldAt(r)
  BY <1>3, <1>4, HoldJoined
<1> QED BY <1>1, <1>2, <1>3, <1>5, <1>6, <1>7, <1>8, <1>9 DEF CutAt

CutBelow(t, b) == \A u \in Texts : Len(u) < Len(t) /\ TagsClose(u \o b) => CutAt(u, b)

LEMMA CutTagged ==
  ASSUME NEW t \in Texts, NEW b \in Texts, TagsClose(t \o b),
         NEW i, NEW e, FirstTag(t, i, e), CutBelow(t, b)
  PROVE  CutAt(t, b)
<1>1. PICK n \in Nat, l \in Nat : n = Len(t) /\ l = Len(b)
  BY TextIs
<1>2. PICK z \in Texts : z = t \o b /\ Len(z) = n + l /\ TagsClose(z)
  <2>1. PICK z \in Texts : z = t \o b
    BY TwoTexts
  <2>2. Len(z) = n + l
    BY <1>1, <2>1, JoinIs
  <2> QED BY <2>1, <2>2
<1>3. Tag(t, i, e) /\ \A j, g : Tag(t, j, g) => i <= j /\ (j = i => e <= g)
  BY DEF FirstTag
<1>4. i \in 1 .. n /\ e \in 1 .. n /\ i + 3 <= e
  BY <1>1, <1>3, TagIs
<1>5. i \in Where({"<"}, t)
  BY <1>1, <1>3, <1>4, TagIs, WhereIs
<1>6. TagsClose(t)
  BY CloseUpto
<1>7. PICK q \in Texts : q = Upto(t, i - 1) /\ Closed(q)
  <2>1. i \in 1 .. Len(t) + 1 /\ i - 1 \in 0 .. Len(t)
    BY <1>1, <1>4
  <2>2. Upto(t, i - 1) \in Texts
    BY <2>1, UptoIs
  <2>3. Closed(Upto(t, i - 1))
    BY <1>3, <1>5, <1>6, <2>1, ClosedBefore
  <2> QED BY <2>2, <2>3
<1>8. PICK t1 \in Texts : t1 = From(t, e + 1) /\ Len(t1) < n
  <2>1. e + 1 \in 1 .. Len(t) + 1
    BY <1>1, <1>4
  <2>2. From(t, e + 1) \in Texts /\ Len(From(t, e + 1)) = n - (e + 1) + 1
    BY <1>1, <2>1, FromPieces
  <2>3. n - (e + 1) + 1 < n
    BY <1>4
  <2> QED BY <2>2, <2>3
<1>9. PICK s1 \in Texts : s1 = DropFollowUps(t1) /\ DropFollowUps(t) = q \o s1
  <2>1. DropFollowUps(t) = Upto(t, i - 1) \o DropFollowUps(From(t, e + 1))
    BY <1>6, TagDropped
  <2> QED BY <1>7, <1>8, <2>1, Dropped
<1>10. t1 \o b = From(z, e + 1) /\ Upto(z, i - 1) = q /\ e + 1 \in 1 .. Len(z) + 1
  <2>1. e + 1 \in 1 .. Len(t) + 1 /\ i - 1 \in 0 .. Len(t) /\ e + 1 \in 1 .. Len(z) + 1
    BY <1>1, <1>2, <1>4
  <2>2. From(t, e + 1) \o b = From(t \o b, e + 1)
    BY <2>1, JoinedFrom
  <2>3. Upto(t \o b, i - 1) = Upto(t, i - 1)
    BY <2>1, JoinedUpto
  <2> QED BY <1>2, <1>7, <1>8, <2>1, <2>2, <2>3
<1>11. FirstTag(z, i, e)
  <2>1. Tag(z, i, e)
    BY <1>2, <1>3, TagJoined
  <2>2. ASSUME NEW j, NEW g, Tag(z, j, g) PROVE i <= j /\ (j = i => e <= g)
    <3>1. j \in 1 .. n + l /\ g \in 1 .. n + l /\ j <= g
      <4>1. j \in 1 .. Len(z) /\ g \in 1 .. Len(z) /\ j <= g
        BY <1>2, <2>2, TagIs DEF Tag
      <4> QED BY <1>2, <4>1, Zenon
    <3>2. CASE g <= n
      <4>1. Tag(t, j, g)
        BY <1>1, <1>2, <2>2, <3>2, TagJoined
      <4> QED BY <1>3, <4>1
    <3>3. CASE ~(g <= n)
      <4>1. e <= g
        BY <1>4, <3>1, <3>3
      <4>2. ASSUME j < i PROVE FALSE
        <5>1. Tag(z, j, e)
          <6>1. j <= e
            BY <1>4, <3>1, <4>2
          <6> QED BY <2>1, <2>2, <6>1 DEF Tag
        <5>2. Tag(t, j, e)
          <6>1. e <= Len(t)
            BY <1>1, <1>4
          <6> QED BY <1>2, <5>1, <6>1, TagJoined
        <5>3. i <= j
          BY <1>3, <5>2
        <5> QED BY <1>4, <3>1, <4>2, <5>3
      <4> QED BY <1>4, <3>1, <4>1, <4>2
    <3> QED BY <3>2, <3>3
  <2> QED BY <2>1, <2>2 DEF FirstTag
<1>12. CutAt(t1, b)
  <2>1. TagsClose(t1 \o b)
    BY <1>2, <1>10, CloseFrom
  <2> QED BY <1>1, <1>8, <2>1 DEF CutBelow
<1>13. PICK k \in 1 .. Len(s1) + 1 : k = HoldAt(s1)
  BY HoldIs
<1>14. PICK x \in Texts, y \in Texts : x = Upto(s1, k - 1) /\ y = From(s1, k)
  BY CutInTwo
<1>15. PICK r \in Texts : r = DropFollowUps(y \o b)
  BY TwoTexts, Dropped
<1>16. PICK d \in Texts : d = DropFollowUps(t1 \o b)
  BY TwoTexts, Dropped
<1>17. d = x \o r /\ HoldAt(d) = (k - 1) + HoldAt(r)
  BY <1>9, <1>12, <1>13, <1>14, <1>15, <1>16 DEF CutAt
<1>18. DropFollowUps(z) = q \o d
  <2>1. DropFollowUps(z) = Upto(z, i - 1) \o DropFollowUps(From(z, e + 1))
    BY <1>2, <1>11, TagDropped
  <2> QED BY <1>10, <1>16, <2>1
<1>19. PICK m \in Nat : m = Len(q)
  BY TextIs
<1>20. PICK s \in Texts : s = q \o s1
  BY TwoTexts
<1>21. HoldAt(s) = m + k /\ HoldAt(q \o d) = m + HoldAt(d)
  BY <1>7, <1>13, <1>19, <1>20, HoldJoined
<1>22. From(s, m + k) = y /\ Upto(s, m + k - 1) = q \o x
  <2>1. From(s, m + k) = From(s1, k) /\ Upto(s, m + k - 1) = Glued(q, Upto(s1, k - 1))
    <3>1. s = Glued(q, s1)
      BY <1>20, Zenon DEF Glued
    <3>2. SameAfter(q, s1, s, m, k)
      BY <1>13, <1>19, <3>1, AfterWhole
    <3> QED BY <3>2 DEF SameAfter
  <2> QED BY <1>14, <2>1, Zenon DEF Glued
<1>23. (q \o x) \o r = q \o d
  <2>1. d = x \o r
    BY <1>17
  <2> QED BY <2>1, Regroup
<1>24. m + HoldAt(d) = (m + k - 1) + HoldAt(r)
  <2>1. PICK g \in Int : g = HoldAt(r)
    <3>1. HoldAt(r) \in 1 .. Len(r) + 1
      BY HoldIs
    <3> QED BY <3>1
  <2>2. k \in Int
    BY <1>13
  <2>3. m + ((k - 1) + g) = (m + k - 1) + g
    BY <2>2
  <2> QED BY <1>17, <2>1, <2>3, Zenon
<1>25. DropFollowUps(t \o b) = Upto(s, m + k - 1) \o r /\ HoldAt(DropFollowUps(t \o b)) = (m + k - 1) + HoldAt(r)
  BY <1>2, <1>18, <1>21, <1>22, <1>23, <1>24, Zenon
<1>26. s = DropFollowUps(t) /\ m + k = HoldAt(s) /\ r = DropFollowUps(From(s, m + k) \o b)
  BY <1>9, <1>15, <1>20, <1>21, <1>22, Zenon
<1>27. PICK o : o = m + k
  OBVIOUS
<1>28. /\ o = HoldAt(s) /\ r = DropFollowUps(From(s, o) \o b)
       /\ DropFollowUps(t \o b) = Upto(s, o - 1) \o r
       /\ HoldAt(DropFollowUps(t \o b)) = (o - 1) + HoldAt(r)
  <2>1. o = HoldAt(s) /\ o - 1 = m + k - 1
    BY <1>26, <1>27
  <2>2. r = DropFollowUps(From(s, o) \o b)
    BY <1>26, <1>27
  <2> QED BY <1>25, <2>1, <2>2
<1> QED BY <1>26, <1>28, CutIs

\* What the third stage is given in two chunks it may as well be given in one, when no
\* tag begins inside another.
LEMMA FollowUpCut ==
  ASSUME NEW t \in Texts, NEW b \in Texts, TagsClose(t \o b)
  PROVE  CutAt(t, b)
<1> DEFINE bad == {n \in Nat : \E u \in Texts : Len(u) = n /\ TagsClose(u \o b) /\ ~CutAt(u, b)}
<1>1. \A u \in Texts : Len(u) \in Nat
  BY TextIs
<1>2. bad = {}
  <2> SUFFICES ASSUME bad # {} PROVE FALSE
    OBVIOUS
  <2>1. PICK n \in bad : \A m \in bad : n <= m
    BY Least
  <2>2. PICK u \in Texts : Len(u) = n /\ TagsClose(u \o b) /\ ~CutAt(u, b)
    BY <2>1
  <2>3. ASSUME NEW v \in Texts, Len(v) < Len(u), TagsClose(v \o b) PROVE CutAt(v, b)
    <3>1. ASSUME ~CutAt(v, b) PROVE Len(v) \in bad
      BY <1>1, <2>3, <3>1
    <3> QED BY <1>1, <2>1, <2>2, <2>3, <3>1
  <2>4. CASE NoTag(u)
    BY <2>2, <2>4, CutUntagged
  <2>5. ASSUME NEW i, NEW e, FirstTag(u, i, e) PROVE CutAt(u, b)
    <3>1. CutBelow(u, b)
      BY <2>3 DEF CutBelow
    <3> QED BY <2>2, <2>5, <3>1, CutTagged
  <2> QED BY <2>2, <2>4, <2>5, TagIs
<1> QED BY <1>1, <1>2

-----------------------------------------------------------------------------
(* All stages.                                                              *)

\* What has been sent and the state the filter is in when s has gone through it.
Given(s) == Process(NewFilter, s).out
Taken(s) == [Process(NewFilter, s) EXCEPT !.out = <<>>]

\* The filter when it is given a chunk.
Loaded(f, c) == [f EXCEPT !.buffer = @ \o c, !.out = <<>>]

LEMMA LoadedIs ==
  ASSUME NEW f \in Filters, NEW c \in Texts
  PROVE  /\ Loaded(f, c) \in Filters /\ SameStage(Loaded(f, c), f)
         /\ Loaded(f, c).buffer = f.buffer \o c /\ Loaded(f, c).out = <<>>
<1>1. PICK s \in Texts : s = f.buffer \o c
  BY FilterParts, TwoTexts
<1>2. PICK e \in Texts : e = <<>>
  BY Empty
<1>3. PICK g : g = [f EXCEPT !.buffer = s, !.out = e]
  OBVIOUS
<1>4. g \in Filters /\ SameStage(g, f) /\ g.buffer = s /\ g.out = e
  BY <1>3 DEF Filters, SameStage
<1>5. Loaded(f, c) = g
  BY <1>1, <1>2, <1>3 DEF Loaded
<1> QED BY <1>1, <1>2, <1>4, <1>5

LEMMA ClearedIs ==
  ASSUME NEW f \in Filters, NEW g, g = [f EXCEPT !.out = <<>>]
  PROVE  g \in Filters /\ SameStage(g, f) /\ g.buffer = f.buffer /\ g.out = <<>>
<1>1. PICK e \in Texts : e = <<>>
  BY Empty
<1>2. g = [f EXCEPT !.out = e]
  BY <1>1
<1>3. g \in Filters /\ SameStage(g, f) /\ g.buffer = f.buffer /\ g.out = e
  BY <1>2 DEF Filters, SameStage
<1> QED BY <1>1, <1>3

LEMMA FilterTexts ==
  ASSUME NEW f \in Filters
  PROVE  /\ f.buffer \in Texts /\ f.out \in Texts
         /\ f.widget \in Texts /\ f.inWidget \in BOOLEAN /\ f.followUp \in Texts
BY DEF Filters

LEMMA NewIs ==
  /\ NewFilter.buffer = <<>> /\ NewFilter.out = <<>>
  /\ NewFilter.widget = <<>> /\ NewFilter.inWidget = FALSE /\ NewFilter.followUp = <<>>
BY DEF NewFilter

LEMMA WidgetIs ==
  ASSUME NEW s \in Texts, NEW b \in BOOLEAN, NEW e \in Texts, NEW v,
         v = [text |-> s, inside |-> b, out |-> e]
  PROVE  v \in WidgetTexts /\ v.text = s /\ v.inside = b /\ v.out = e
BY DEF WidgetTexts

\* The second stage before it looks at a text.
Waiting(s, inside) == [text |-> s, inside |-> inside, out |-> <<>>]

LEMMA WaitingIs ==
  ASSUME NEW s \in Texts, NEW b \in BOOLEAN
  PROVE  /\ Waiting(s, b) \in WidgetTexts /\ Waiting(s, b).text = s
         /\ Waiting(s, b).inside = b /\ Waiting(s, b).out = <<>>
<1>1. PICK e \in Texts : e = <<>>
  BY Empty
<1>2. PICK v : v = [text |-> s, inside |-> b, out |-> e]
  OBVIOUS
<1>3. v \in WidgetTexts /\ v.text = s /\ v.inside = b /\ v.out = e
  BY <1>2, WidgetIs
<1>4. Waiting(s, b) = v
  BY <1>1, <1>2 DEF Waiting
<1> QED BY <1>1, <1>3, <1>4

\* What the stages make of a chunk.
Widget(s, inside) == FilterWidget(Waiting(s, inside))
Suppressed(f, c) == Suppress(Loaded(f, c))
Widgeted(f, c) == Widget(f.widget \o Suppressed(f, c).out, f.inWidget)
Tagged(f, c) == DropFollowUps(f.followUp \o Widgeted(f, c).out)

LEMMA StagesAre ==
  ASSUME NEW f \in Filters, NEW c \in Texts
  PROVE  /\ Suppressed(f, c) \in Filters /\ Suppressed(f, c).out \in Texts
         /\ Widgeted(f, c) \in WidgetTexts /\ Widgeted(f, c).text \in Texts
         /\ Widgeted(f, c).inside \in BOOLEAN /\ Widgeted(f, c).out \in Texts
         /\ Tagged(f, c) \in Texts
<1>1. PICK h \in Filters : h = Loaded(f, c)
  BY LoadedIs
<1>2. PICK g \in Filters : g = Suppressed(f, c)
  BY <1>1, SuppressEnds DEF Suppressed
<1>3. PICK s \in Texts, o \in Texts, b \in BOOLEAN, y \in Texts :
        s = f.widget /\ o = g.out /\ b = f.inWidget /\ y = f.followUp
  <2>1. g.out \in Texts
    BY FilterTexts
  <2>2. f.widget \in Texts /\ f.inWidget \in BOOLEAN /\ f.followUp \in Texts
    BY FilterTexts
  <2> QED BY <2>1, <2>2, Zenon
<1>4. PICK z \in Texts : z = s \o o
  BY TwoTexts
<1>5. PICK v \in WidgetTexts : v = Waiting(z, b)
  BY WaitingIs
<1>6. PICK w \in WidgetTexts : w = Widgeted(f, c)
  BY <1>2, <1>3, <1>4, <1>5, FilterWidgetEnds DEF Widgeted, Widget
<1>7. w.text \in Texts /\ w.inside \in BOOLEAN /\ w.out \in Texts
  BY WidgetParts
<1>8. y \o w.out \in Texts
  BY <1>7, TwoTexts
<1>9. Tagged(f, c) \in Texts
  BY <1>3, <1>6, <1>8, Dropped DEF Tagged
<1> QED BY <1>2, <1>3, <1>6, <1>7, <1>9

\* What a chunk leaves, stage by stage.
HasProcessed(p, f, c) ==
  /\ p \in Filters /\ Steered(p, Suppressed(f, c)) /\ p.buffer = Suppressed(f, c).buffer
  /\ p.widget = Widgeted(f, c).text /\ p.inWidget = Widgeted(f, c).inside
  /\ p.followUp = From(Tagged(f, c), HoldAt(Tagged(f, c)))
  /\ p.out = Upto(Tagged(f, c), HoldAt(Tagged(f, c)) - 1)

LEMMA ProcessIs ==
  ASSUME NEW f \in Filters, NEW c \in Texts, NEW p, p = Process(f, c)
  PROVE  HasProcessed(p, f, c)
<1>1. PICK g \in Filters : g = Suppressed(f, c)
  BY StagesAre
<1>2. PICK w, x, k : w = Widgeted(f, c) /\ x = Tagged(f, c) /\ k = HoldAt(x)
  OBVIOUS
<1>3. p \in Filters
  BY Processed
<1>4. p = [g EXCEPT !.widget = w.text, !.inWidget = w.inside,
                    !.followUp = From(x, k), !.out = Upto(x, k - 1)]
  BY <1>1, <1>2 DEF Process, Loaded, Waiting, Widget, Suppressed, Widgeted, Tagged
<1>5. PICK a, b, y, o : a = w.text /\ b = w.inside /\ y = From(x, k) /\ o = Upto(x, k - 1)
  OBVIOUS
<1>6. p = [g EXCEPT !.widget = a, !.inWidget = b, !.followUp = y, !.out = o]
  BY <1>4, <1>5
<1>7. /\ Steered(p, g) /\ p.buffer = g.buffer
      /\ p.widget = a /\ p.inWidget = b /\ p.followUp = y /\ p.out = o
  BY <1>6 DEF Filters, Steered
<1> QED BY <1>1, <1>2, <1>3, <1>5, <1>7 DEF HasProcessed

\* What the three stages make of the start of a reply.
FirstStage(s) == Suppressed(NewFilter, s)
SecondStage(s) == Widget(FirstStage(s).out, FALSE)

LEMMA StartIs ==
  ASSUME NEW s \in Texts, NEW f, f = Taken(s), NEW x, x = DropFollowUps(SecondStage(s).out)
  PROVE  /\ FirstStage(s) \in Filters /\ FirstStage(s).out \in Texts
         /\ SecondStage(s) \in WidgetTexts /\ SecondStage(s).out \in Texts /\ SecondStage(s).out = Unwrapped(s)
         /\ f \in Filters /\ f.out = <<>>
         /\ Steered(f, FirstStage(s)) /\ f.buffer = FirstStage(s).buffer
         /\ f.widget = SecondStage(s).text /\ f.inWidget = SecondStage(s).inside
         /\ x \in Texts
         /\ f.followUp = From(x, HoldAt(x)) /\ Given(s) = Upto(x, HoldAt(x) - 1)
<1>1. PICK d \in Filters : /\ d = NewFilter /\ d.buffer = <<>> /\ d.out = <<>>
                           /\ d.widget = <<>> /\ d.inWidget = FALSE /\ d.followUp = <<>>
  BY NewIsFilter, NewIs
<1>2. PICK g \in Filters : g = Suppressed(d, s) /\ g.out \in Texts
  BY StagesAre
<1>3. PICK w \in WidgetTexts : w = Widgeted(d, s) /\ w.out \in Texts
  BY StagesAre
<1>4. g = FirstStage(s)
  BY <1>1, <1>2 DEF FirstStage
<1>5. w = SecondStage(s)
  <2>1. d.widget \o g.out = g.out
    BY <1>1, <1>2, ThreeTexts
  <2> QED BY <1>1, <1>2, <1>3, <1>4, <2>1 DEF SecondStage, Widgeted
<1>6. x = Tagged(d, s)
  <2>1. d.followUp \o w.out = w.out
    BY <1>1, <1>3, ThreeTexts
  <2> QED BY <1>3, <1>5, <2>1 DEF Tagged
<1>7. x \in Texts
  BY <1>6, StagesAre
<1>8. PICK p : p = Process(d, s)
  OBVIOUS
<1>9. /\ p \in Filters /\ Steered(p, g) /\ p.buffer = g.buffer
      /\ p.widget = w.text /\ p.inWidget = w.inside
      /\ p.followUp = From(x, HoldAt(x)) /\ p.out = Upto(x, HoldAt(x) - 1)
  <2>1. /\ p \in Filters /\ Steered(p, Suppressed(d, s)) /\ p.buffer = Suppressed(d, s).buffer
        /\ p.widget = Widgeted(d, s).text /\ p.inWidget = Widgeted(d, s).inside
        /\ p.followUp = From(Tagged(d, s), HoldAt(Tagged(d, s)))
        /\ p.out = Upto(Tagged(d, s), HoldAt(Tagged(d, s)) - 1)
    BY <1>8, ProcessIs, Zenon DEF HasProcessed
  <2> QED BY <1>2, <1>3, <1>6, <2>1
<1>10. f = [p EXCEPT !.out = <<>>] /\ Given(s) = p.out
  BY <1>1, <1>8 DEF Taken, Given
<1>11. f \in Filters /\ SameStage(f, p) /\ f.buffer = p.buffer /\ f.out = <<>>
  BY <1>9, <1>10, ClearedIs
<1>12. w.out = Unwrapped(s)
  <2>1. d.buffer \o s = s
    BY <1>1, ThreeTexts
  <2>2. PICK a \in Filters : a = Fuller(d, s) /\ SameStage(a, d) /\ a.buffer = d.buffer \o s /\ a.out = d.out
    BY MoreIs
  <2>3. PICK b \in Filters : b = Loaded(d, s) /\ SameStage(b, d) /\ b.buffer = d.buffer \o s /\ b.out = <<>>
    BY LoadedIs
  <2>4. SameStage(a, b)
    BY <2>2, <2>3 DEF SameStage
  <2>5. a = b
    BY <1>1, <2>2, <2>3, <2>4, SameFilter
  <2>6. a = [NewFilter EXCEPT !.buffer = s]
    BY <1>1, <2>1, <2>2 DEF Fuller
  <2>7. g = Suppress([NewFilter EXCEPT !.buffer = s])
    BY <1>2, <2>3, <2>5, <2>6 DEF Suppressed
  <2> QED BY <1>4, <1>5, <2>7 DEF Unwrapped, Waiting, Widget, SecondStage
<1>13. Steered(f, g) /\ f.widget = p.widget /\ f.inWidget = p.inWidget /\ f.followUp = p.followUp
  BY <1>9, <1>11 DEF Steered, SameStage
<1> QED BY <1>2, <1>3, <1>4, <1>5, <1>7, <1>9, <1>10, <1>11, <1>12, <1>13

\* The first stage on the next chunk.
LEMMA NextSuppressed ==
  ASSUME NEW s \in Texts, NEW c \in Texts,
         NEW f \in Filters, Steered(f, FirstStage(s)), f.buffer = FirstStage(s).buffer, f.out = <<>>
  PROVE  /\ Steered(FirstStage(s \o c), Suppressed(f, c))
         /\ FirstStage(s \o c).buffer = Suppressed(f, c).buffer
         /\ FirstStage(s \o c).out = FirstStage(s).out \o Suppressed(f, c).out
<1>1. PICK z \in Texts : z = s \o c
  BY TwoTexts
<1>2. PICK a \in Filters : a = Loaded(NewFilter, s) /\ SameStage(a, NewFilter) /\ a.buffer = s /\ a.out = <<>>
  <2>1. NewFilter.buffer \o s = s
    BY NewIs, ThreeTexts
  <2> QED BY <2>1, NewIsFilter, LoadedIs
<1>3. PICK b \in Filters : b = Loaded(NewFilter, z) /\ SameStage(b, NewFilter) /\ b.buffer = z /\ b.out = <<>>
  <2>1. NewFilter.buffer \o z = z
    BY NewIs, ThreeTexts
  <2> QED BY <2>1, NewIsFilter, LoadedIs
<1>4. PICK g \in Filters : g = Suppress(a) /\ g = FirstStage(s)
  BY <1>2, SuppressEnds DEF FirstStage, Suppressed
<1>5. g.out \in Texts
  BY FilterTexts
<1>6. b = Fuller(a, c)
  <2>1. /\ Fuller(a, c) \in Filters /\ SameStage(Fuller(a, c), a)
        /\ Fuller(a, c).buffer = a.buffer \o c /\ Fuller(a, c).out = a.out
    BY MoreIs
  <2>2. SameStage(b, Fuller(a, c))
    BY <1>2, <1>3, <2>1 DEF SameStage
  <2> QED BY <1>1, <1>2, <1>3, <2>1, <2>2, SameFilter
<1>7. PICK h : h = FirstStage(s \o c)
  OBVIOUS
<1>8. h = Suppress(Fuller(g, c))
  <2>1. h = Suppress(Fuller(a, c))
    BY <1>1, <1>3, <1>6, <1>7 DEF FirstStage, Suppressed
  <2>2. Suppress(Fuller(Suppress(a), c)) = Suppress(Fuller(a, c))
    BY SuppressCut
  <2> QED BY <1>4, <2>1, <2>2
<1>9. PICK m \in Filters : m = Loaded(f, c) /\ SameStage(m, f) /\ m.buffer = f.buffer \o c /\ m.out = <<>>
  BY LoadedIs
<1>10. PICK k \in Filters : k = Suppress(m) /\ k = Suppressed(f, c)
  BY <1>9, SuppressEnds DEF Suppressed
<1>11. Fuller(g, c) = Ahead(m, g)
  <2>1. /\ Fuller(g, c) \in Filters /\ SameStage(Fuller(g, c), g)
        /\ Fuller(g, c).buffer = g.buffer \o c /\ Fuller(g, c).out = g.out
    BY MoreIs
  <2>2. /\ Ahead(m, g) \in Filters /\ Steered(Ahead(m, g), m) /\ Aside(Ahead(m, g), g)
        /\ Ahead(m, g).buffer = m.buffer /\ Ahead(m, g).out = g.out \o m.out
    BY AheadIs
  <2>3. g.out \o m.out = g.out
    BY <1>5, <1>9, ThreeTexts
  <2>4. SameStage(Fuller(g, c), Ahead(m, g))
    BY <1>4, <1>9, <2>1, <2>2 DEF SameStage, Steered, Aside
  <2>5. f.buffer = g.buffer
    BY <1>4
  <2> QED BY <1>9, <2>1, <2>2, <2>3, <2>4, <2>5, SameFilter
<1>12. h = Ahead(k, g)
  <2>1. Suppress(Ahead(m, g)) = Ahead(Suppress(m), g)
    BY SuppressAhead
  <2> QED BY <1>8, <1>10, <1>11, <2>1
<1>13. /\ Ahead(k, g) \in Filters /\ Steered(Ahead(k, g), k)
       /\ Ahead(k, g).buffer = k.buffer /\ Ahead(k, g).out = g.out \o k.out
  BY AheadIs
<1> QED BY <1>4, <1>7, <1>10, <1>12, <1>13, Zenon

\* The second stage on the next chunk.
FirstAgain(o, d) == Widget(Widget(o, FALSE).text \o d, Widget(o, FALSE).inside)

LEMMA NextWidgeted ==
  ASSUME NEW o \in Texts, NEW d \in Texts
  PROVE  /\ Widget(o \o d, FALSE).text = FirstAgain(o, d).text
         /\ Widget(o \o d, FALSE).inside = FirstAgain(o, d).inside
         /\ Widget(o \o d, FALSE).out = Widget(o, FALSE).out \o FirstAgain(o, d).out
<1> DEFINE w == Widget(o, FALSE)
           u == FirstAgain(o, d)
<1>0. u = Widget(w.text \o d, w.inside)
  BY DEF FirstAgain
<1> HIDE DEF w, u
<1>1. PICK e \in Texts : e = <<>>
  BY Empty
<1>2. PICK v \in WidgetTexts : v = Waiting(o, FALSE) /\ v.text = o /\ v.inside = FALSE /\ v.out = e
  BY <1>1, WaitingIs
<1>3. w = FilterWidget(v) /\ w \in WidgetTexts
  BY <1>2, FilterWidgetEnds DEF Widget, w
<1>4. w.text \in Texts /\ w.inside \in BOOLEAN /\ w.out \in Texts
  BY <1>3, WidgetParts
<1>5. PICK z \in Texts, q \in Texts, i \in BOOLEAN : z = o \o d /\ q = w.text \o d /\ i = w.inside
  BY <1>4, TwoTexts
<1>6. PICK a \in WidgetTexts : a = Waiting(z, FALSE) /\ a.text = z /\ a.inside = FALSE /\ a.out = e
  BY <1>1, WaitingIs
<1>7. PICK b \in WidgetTexts : b = Waiting(q, i) /\ b.text = q /\ b.inside = i /\ b.out = e
  BY <1>1, WaitingIs
<1>8. PICK y : y = Widget(o \o d, FALSE) /\ y = FilterWidget(a) /\ u = FilterWidget(b)
  BY <1>0, <1>5, <1>6, <1>7 DEF Widget
<1>9. a = Fed(v, d)
  <2>1. /\ Fed(v, d) \in WidgetTexts /\ Fed(v, d).text = v.text \o d
        /\ Fed(v, d).inside = v.inside /\ Fed(v, d).out = v.out
    BY FedIs
  <2>2. a.text = Fed(v, d).text /\ a.inside = Fed(v, d).inside /\ a.out = Fed(v, d).out
    BY <1>2, <1>5, <1>6, <2>1, Zenon
  <2> QED BY <2>1, <2>2, WidgetSame
<1>10. Fed(w, d) = Before(b, w.out)
  <2>1. w.out \o e = w.out
    BY <1>1, <1>4, ThreeTexts
  <2>2. /\ Fed(w, d) \in WidgetTexts /\ Fed(w, d).text = q
        /\ Fed(w, d).inside = i /\ Fed(w, d).out = w.out
    BY <1>3, <1>5, FedIs
  <2>3. /\ Before(b, w.out) \in WidgetTexts /\ Before(b, w.out).text = q
        /\ Before(b, w.out).inside = i /\ Before(b, w.out).out = w.out
    BY <1>4, <1>7, <2>1, BeforeIs
  <2> QED BY <2>2, <2>3, WidgetSame
<1>11. y = Before(u, w.out)
  <2>1. FilterWidget(Fed(FilterWidget(v), d)) = FilterWidget(Fed(v, d))
    BY FilterWidgetCut
  <2>2. FilterWidget(Before(b, w.out)) = Before(FilterWidget(b), w.out)
    BY <1>4, FilterWidgetBefore
  <2> QED BY <1>3, <1>8, <1>9, <1>10, <2>1, <2>2
<1>12. u \in WidgetTexts
  BY <1>8, FilterWidgetEnds
<1>13. /\ Before(u, w.out).text = u.text
       /\ Before(u, w.out).inside = u.inside /\ Before(u, w.out).out = w.out \o u.out
  BY <1>4, <1>12, BeforeIs
<1>14. u = FirstAgain(o, d) /\ w = Widget(o, FALSE)
  BY DEF u, w
<1> QED BY <1>8, <1>11, <1>13, <1>14, Zenon

\* The first k - 1 of a text, and then another text.
LEMMA HeldParts ==
  ASSUME NEW s \in Texts, NEW x \in Texts, NEW k \in 1 .. Len(s) + 1, NEW j \in 1 .. Len(x) + 1,
         NEW a, a = Upto(s, k - 1), NEW z, z = Glued(a, x)
  PROVE  SameAfter(a, x, z, k - 1, j)
<1>1. k - 1 \in 0 .. Len(s)
  BY TextIs
<1>2. a \in Texts /\ Len(a) = k - 1
  BY <1>1, UptoIs
<1>3. SameAfter(a, x, z, Len(a), j)
  BY <1>2, AfterWhole
<1> QED BY <1>2, <1>3

\* The third stage on the next chunk.
LEMMA NextTagged ==
  ASSUME NEW t \in Texts, NEW b \in Texts, TagsClose(t \o b),
         NEW s, s = DropFollowUps(t),
         NEW x, x = DropFollowUps(From(s, HoldAt(s)) \o b),
         NEW z, z = DropFollowUps(t \o b)
  PROVE  /\ s \in Texts /\ x \in Texts
         /\ From(z, HoldAt(z)) = From(x, HoldAt(x))
         /\ Upto(z, HoldAt(z) - 1) = Upto(s, HoldAt(s) - 1) \o Upto(x, HoldAt(x) - 1)
<1>1. s \in Texts
  BY Dropped
<1>2. PICK n \in Nat : n = Len(s)
  BY <1>1, TextIs
<1>3. PICK k \in 1 .. n + 1 : k = HoldAt(s)
  BY <1>1, <1>2, HoldIs
<1>4. PICK v \in Texts : v = From(s, k)
  BY <1>1, <1>2, FromPieces
<1>5. x \in Texts
  <2>1. v \o b \in Texts /\ x = DropFollowUps(v \o b)
    BY <1>3, <1>4, TwoTexts
  <2> QED BY <2>1, Dropped
<1>6. PICK a \in Texts : a = Upto(s, k - 1) /\ Len(a) = k - 1
  <2>1. k - 1 \in 0 .. Len(s)
    BY <1>2
  <2> QED BY <1>1, <2>1, UptoIs
<1>7. PICK m \in Nat : m = Len(x)
  BY <1>5, TextIs
<1>8. PICK j \in 1 .. m + 1 : j = HoldAt(x)
  BY <1>5, <1>7, HoldIs
<1>9. z = a \o x /\ HoldAt(z) = (k - 1) + j
  <2>1. CutAt(t, b)
    BY FollowUpCut
  <2> QED BY <1>3, <1>6, <1>8, <2>1 DEF CutAt
<1>10. From(z, (k - 1) + j) = From(x, j) /\ Upto(z, (k - 1) + j - 1) = a \o Upto(x, j - 1)
  <2>1. j \in 1 .. Len(x) + 1
    BY <1>7
  <2>2. /\ From(z, (k - 1) + j) = From(x, j)
        /\ Upto(z, (k - 1) + j - 1) = Glued(a, Upto(x, j - 1))
    <3>1. z = Glued(a, x)
      BY <1>9, Zenon DEF Glued
    <3>2. k \in 1 .. Len(s) + 1 /\ a = Upto(s, k - 1)
      BY <1>2, <1>6, Zenon
    <3>3. SameAfter(a, x, z, k - 1, j)
      BY <1>1, <1>5, <2>1, <3>1, <3>2, HeldParts
    <3> QED BY <3>3, Zenon DEF SameAfter
  <2> QED BY <2>2, Zenon DEF Glued
<1>11. From(z, HoldAt(z)) = From(x, HoldAt(x))
  BY <1>8, <1>9, <1>10, Zenon
<1>12. Upto(z, HoldAt(z) - 1) = Upto(s, HoldAt(s) - 1) \o Upto(x, HoldAt(x) - 1)
  <2>0. PICK l : l = (k - 1) + j
    OBVIOUS
  <2>1. Upto(z, HoldAt(z) - 1) = a \o Upto(x, j - 1)
    <3>1. HoldAt(z) = l
      BY <1>9, <2>0
    <3>2. Upto(z, l - 1) = a \o Upto(x, j - 1)
      BY <1>10, <2>0
    <3> QED BY <3>1, <3>2, Zenon
  <2> QED BY <1>3, <1>6, <1>8, <2>1, Zenon
<1> QED BY <1>1, <1>5, <1>11, <1>12

\* A chunk more: what was withheld goes through the stages with it as it would have
\* gone through them in one.
LEMMA NextChunk ==
  ASSUME NEW s \in Texts, NEW c \in Texts, Divisible(s \o c)
  PROVE  /\ Divisible(s)
         /\ [Process(Taken(s), c) EXCEPT !.out = <<>>] = Taken(s \o c)
         /\ Given(s \o c) = Given(s) \o Process(Taken(s), c).out
<1>1. PICK z \in Texts : z = s \o c
  BY TwoTexts
<1>2. PICK f, x : f = Taken(s) /\ x = DropFollowUps(SecondStage(s).out)
  OBVIOUS
<1>3. /\ FirstStage(s) \in Filters /\ FirstStage(s).out \in Texts
      /\ SecondStage(s) \in WidgetTexts /\ SecondStage(s).out \in Texts /\ SecondStage(s).out = Unwrapped(s)
      /\ f \in Filters /\ f.out = <<>>
      /\ Steered(f, FirstStage(s)) /\ f.buffer = FirstStage(s).buffer
      /\ f.widget = SecondStage(s).text /\ f.inWidget = SecondStage(s).inside
      /\ x \in Texts
      /\ f.followUp = From(x, HoldAt(x)) /\ Given(s) = Upto(x, HoldAt(x) - 1)
  BY <1>2, StartIs
<1>4. PICK e, v : e = Taken(z) /\ v = DropFollowUps(SecondStage(z).out)
  OBVIOUS
<1>5. /\ SecondStage(z).out = Unwrapped(z)
      /\ e \in Filters /\ e.out = <<>>
      /\ Steered(e, FirstStage(z)) /\ e.buffer = FirstStage(z).buffer
      /\ e.widget = SecondStage(z).text /\ e.inWidget = SecondStage(z).inside
      /\ e.followUp = From(v, HoldAt(v)) /\ Given(z) = Upto(v, HoldAt(v) - 1)
  BY <1>4, StartIs
<1>6. PICK k \in Filters : k = Suppressed(f, c) /\ k.out \in Texts
  BY <1>3, StagesAre
<1>7. Steered(FirstStage(z), k) /\ FirstStage(z).buffer = k.buffer /\ FirstStage(z).out = FirstStage(s).out \o k.out
  <2>1. /\ Steered(FirstStage(s \o c), Suppressed(f, c))
        /\ FirstStage(s \o c).buffer = Suppressed(f, c).buffer
        /\ FirstStage(s \o c).out = FirstStage(s).out \o Suppressed(f, c).out
    BY <1>3, NextSuppressed, Zenon
  <2> QED BY <1>1, <1>6, <2>1, Zenon
<1>8. PICK u \in WidgetTexts : u = Widgeted(f, c) /\ u.out \in Texts
  BY <1>3, StagesAre
<1>9. /\ SecondStage(z).text = u.text /\ SecondStage(z).inside = u.inside
      /\ SecondStage(z).out = SecondStage(s).out \o u.out
  <2>1. PICK o \in Texts, d \in Texts : o = FirstStage(s).out /\ d = k.out
    BY <1>3, <1>6
  <2>2. PICK w : w = Widget(o, FALSE)
    OBVIOUS
  <2>6. w = SecondStage(s)
    BY <2>1, <2>2 DEF SecondStage
  <2>3. u = Widget(w.text \o d, w.inside)
    BY <1>3, <1>6, <1>8, <2>1, <2>6 DEF Widgeted
  <2>7. u = FirstAgain(o, d)
    BY <2>2, <2>3 DEF FirstAgain
  <2>4. SecondStage(z) = Widget(o \o d, FALSE)
    BY <1>7, <2>1 DEF SecondStage
  <2>5. /\ Widget(o \o d, FALSE).text = u.text /\ Widget(o \o d, FALSE).inside = u.inside
        /\ Widget(o \o d, FALSE).out = w.out \o u.out
    BY <2>2, <2>7, NextWidgeted
  <2> QED BY <2>4, <2>5, <2>6, Zenon
<1>10. PICK a \in Texts, b \in Texts : a = SecondStage(s).out /\ b = u.out
  BY <1>3, <1>8
<1>11. TagsClose(a \o b)
  BY <1>1, <1>5, <1>9, <1>10 DEF Divisible
<1>12. PICK q \in Texts : q = Tagged(f, c)
  BY <1>3, StagesAre
<1>13. /\ From(v, HoldAt(v)) = From(q, HoldAt(q))
       /\ Upto(v, HoldAt(v) - 1) = Upto(x, HoldAt(x) - 1) \o Upto(q, HoldAt(q) - 1)
  <2>1. x = DropFollowUps(a) /\ v = DropFollowUps(a \o b)
    BY <1>2, <1>4, <1>9, <1>10
  <2>2. q = DropFollowUps(From(x, HoldAt(x)) \o b)
    BY <1>3, <1>8, <1>10, <1>12 DEF Tagged
  <2>3. v = DropFollowUps(a \o b)
    BY <2>1
  <2>4. x = DropFollowUps(a)
    BY <2>1
  <2> QED BY <1>11, <2>2, <2>3, <2>4, NextTagged
<1>14. PICK p : p = Process(f, c)
  OBVIOUS
<1>15. /\ p \in Filters /\ Steered(p, k) /\ p.buffer = k.buffer
       /\ p.widget = u.text /\ p.inWidget = u.inside
       /\ p.followUp = From(q, HoldAt(q)) /\ p.out = Upto(q, HoldAt(q) - 1)
  <2>1. /\ p \in Filters /\ Steered(p, Suppressed(f, c)) /\ p.buffer = Suppressed(f, c).buffer
        /\ p.widget = Widgeted(f, c).text /\ p.inWidget = Widgeted(f, c).inside
        /\ p.followUp = From(Tagged(f, c), HoldAt(Tagged(f, c)))
        /\ p.out = Upto(Tagged(f, c), HoldAt(Tagged(f, c)) - 1)
    <3>1. f \in Filters
      BY <1>3
    <3>2. HasProcessed(p, f, c)
      BY <1>14, <3>1, ProcessIs
    <3> QED BY <3>2, Zenon DEF HasProcessed
  <2> QED BY <1>6, <1>8, <1>12, <2>1, Zenon
<1>16. PICK r : r = [p EXCEPT !.out = <<>>]
  OBVIOUS
<1>17. r \in Filters /\ SameStage(r, p) /\ r.buffer = p.buffer /\ r.out = <<>>
  BY <1>15, <1>16, ClearedIs
<1>18. r = e
  <2>1. SameStage(r, e)
    BY <1>5, <1>7, <1>9, <1>13, <1>15, <1>17 DEF SameStage, Steered
  <2>2. r.buffer = e.buffer /\ r.out = e.out
    BY <1>5, <1>7, <1>15, <1>17
  <2> QED BY <1>5, <1>17, <2>1, <2>2, SameFilter
<1>19. Given(z) = Given(s) \o p.out
  BY <1>3, <1>5, <1>13, <1>15
<1>20. Divisible(s)
  <2>1. TagsClose(a)
    BY <1>11, CloseUpto
  <2> QED BY <1>3, <1>10, <2>1 DEF Divisible
<1> QED BY <1>1, <1>2, <1>4, <1>14, <1>16, <1>18, <1>19, <1>20

\* Nothing has gone through the stages of a new filter.
LEMMA NonePlaced ==
  ASSUME NEW m, Len(m) \in {2, 3}
  PROVE  Places(m, <<>>) = {}
<1>1. \A i : i \notin 1 .. Len(<<>>) - Len(m) + 1
  BY Empty
<1> QED BY <1>1 DEF Places

LEMMA NothingKept ==
  /\ TailAt(<<>>) = 1 /\ HoldAt(<<>>) = 1 /\ NoMarker(<<>>)
  /\ PartialSuffix(<<>>, WidgetOpen) = 1 /\ DropFollowUps(<<>>) = <<>>
<1>1. PICK e \in Texts : e = <<>> /\ Len(e) = 0
  BY Empty
<1>2. TailAt(e) = 1
  BY <1>1, TailAtIs
<1>3. HoldAt(e) = 1
  BY <1>1, HoldIs
<1>4. NoMarker(<<>>)
  BY MarkerLengths, NonePlaced DEF NoMarker
<1>5. PartialSuffix(e, WidgetOpen) = 1
  BY <1>1, SuffixIs
<1>6. DropFollowUps(e) = e
  <2>1. Places(FollowUp, e) = {}
    BY <1>1, FollowUpIs, NonePlaced
  <2>2. NoTag(e)
    BY <2>1 DEF NoTag, Tag
  <2>3. \A P, i : i \notin Where(P, e)
    BY <1>1, WhereIs
  <2>4. Apart(e) /\ TagsEnd(e)
    BY <2>3 DEF Apart, TagsEnd, Tag
  <2>5. TagsClose(e)
    BY <2>4, CloseIs
  <2> QED BY <2>2, <2>5, TagDropped
<1> QED BY <1>1, <1>2, <1>3, <1>4, <1>5, <1>6

LEMMA SuppressStays ==
  ASSUME NEW f \in Filters, Advance(f) = f
  PROVE  Suppress(f) = f
<1> DEFINE step == [g \in Filters |-> Advance(g)]
           size == [g \in Filters |-> Size(g)]
<1>1. step \in [Filters -> Filters] /\ size \in [Filters -> Nat]
  BY StepAdvances, FilterParts DEF Advances
<1>2. \A g \in Filters : step[g] # g => size[step[g]] < size[g]
  BY StepAdvances DEF Advances
<1>3. step[f] = f
  OBVIOUS
<1>4. Suppress(f) = Drained(step, f)
  BY DEF Suppress
<1> HIDE DEF step, size
<1>5. Drained(step, f) = f
  BY <1>1, <1>2, <1>3, DrainedEnds
<1> QED BY <1>4, <1>5

LEMMA WidgetStays ==
  ASSUME NEW w \in WidgetTexts, WidgetStep(w) = w
  PROVE  FilterWidget(w) = w
<1> DEFINE step == [v \in WidgetTexts |-> WidgetStep(v)]
           size == [v \in WidgetTexts |-> Len(v.text)]
<1>1. \A v \in WidgetTexts : Looks(v, WidgetStep(v))
  BY InWidgetLooks, OutOfWidgetLooks DEF WidgetStep
<1>2. step \in [WidgetTexts -> WidgetTexts] /\ size \in [WidgetTexts -> Nat]
  BY <1>1, WidgetParts DEF Looks
<1>3. \A v \in WidgetTexts : step[v] # v => size[step[v]] < size[v]
  BY <1>1 DEF Looks
<1>4. step[w] = w
  OBVIOUS
<1>5. FilterWidget(w) = Drained(step, w)
  BY DEF FilterWidget
<1> HIDE DEF step, size
<1>6. Drained(step, w) = w
  BY <1>2, <1>3, <1>4, DrainedEnds
<1> QED BY <1>5, <1>6

LEMMA NothingTaken == Taken(<<>>) = NewFilter /\ Given(<<>>) = <<>>
<1>1. PICK e \in Texts : e = <<>> /\ Len(e) = 0
  BY Empty
<1>2. PICK d \in Filters : /\ d = NewFilter /\ d.buffer = e /\ d.out = e
                           /\ d.widget = e /\ d.inWidget = FALSE /\ d.followUp = e
  BY <1>1, NewIsFilter, NewIs
<1>3. e \o e = e /\ Upto(e, 0) = e /\ From(e, 1) = e
  BY <1>1, ThreeTexts, WholeText
<1>4. Loaded(d, e) = d
  <2>1. /\ Loaded(d, e) \in Filters /\ SameStage(Loaded(d, e), d)
        /\ Loaded(d, e).buffer = d.buffer \o e /\ Loaded(d, e).out = <<>>
    BY LoadedIs
  <2> QED BY <1>1, <1>2, <1>3, <2>1, SameFilter
<1>5. Suppress(d) = d
  <2>1. State(d) = "normal"
    BY <1>2 DEF State, NewFilter
  <2>2. Advance(d) = Text(d)
    BY <1>1, <1>2, <2>1, AdvanceIs, NothingKept
  <2>3. PICK g : g = Text(d)
    OBVIOUS
  <2>4. /\ g \in Filters /\ SameStage(g, d)
        /\ g.out = Emit(d, Upto(d.buffer, TailAt(d.buffer) - 1))
        /\ g.buffer = From(d.buffer, TailAt(d.buffer))
    BY <2>3, TextGives
  <2>5. TailAt(d.buffer) = 1
    BY <1>1, <1>2, NothingKept
  <2>6. g.out = Emit(d, e) /\ g.buffer = e
    BY <1>2, <1>3, <2>4, <2>5
  <2>7. g.out = e
    BY <1>2, <1>3, <2>6 DEF Emit
  <2>8. Advance(d) = d
    BY <1>2, <2>2, <2>3, <2>4, <2>6, <2>7, SameFilter
  <2> QED BY <2>8, SuppressStays
<1>6. FirstStage(e) = d
  BY <1>2, <1>4, <1>5 DEF FirstStage, Suppressed
<1>7. PICK w \in WidgetTexts : w = Waiting(e, FALSE) /\ w.text = e /\ w.inside = FALSE /\ w.out = e
  BY <1>1, WaitingIs
<1>8. SecondStage(e) = w
  <2>1. StepOf(w.text, w.inside, 1, FALSE, e)
    <3>1. Places(WidgetOpen, e) = {}
      BY <1>1, WidgetMark, NonePlaced DEF WidgetMarks
    <3>2. PartialSuffix(e, WidgetOpen) = 1 /\ Upto(e, 1 - 1) = e
      BY <1>1, <1>3, NothingKept
    <3>3. StepOf(e, FALSE, 1, FALSE, e)
      BY <3>1, <3>2, Zenon DEF StepOf
    <3> QED BY <1>7, <3>3
  <2>2. WidgetStep(w) = Looked(w, 1, FALSE, e)
    BY <2>1, WidgetStepIs
  <2>3. Looked(w, 1, FALSE, e) = [text |-> e, inside |-> FALSE, out |-> e]
    BY <1>3, <1>7 DEF Looked
  <2>4. WidgetStep(w) = w
    BY <1>1, <1>7, <2>2, <2>3 DEF Waiting
  <2>5. FilterWidget(w) = w
    BY <2>4, WidgetStays
  <2> QED BY <1>2, <1>6, <1>7, <2>5 DEF SecondStage, Widget
<1>9. PICK f, x : f = Taken(e) /\ x = DropFollowUps(SecondStage(e).out)
  OBVIOUS
<1>10. /\ f \in Filters /\ f.out = <<>>
       /\ Steered(f, FirstStage(e)) /\ f.buffer = FirstStage(e).buffer
       /\ f.widget = SecondStage(e).text /\ f.inWidget = SecondStage(e).inside
       /\ f.followUp = From(x, HoldAt(x)) /\ Given(e) = Upto(x, HoldAt(x) - 1)
  BY <1>9, StartIs
<1>11. x = e /\ HoldAt(x) = 1
  BY <1>1, <1>7, <1>8, <1>9, NothingKept
<1>12. f.followUp = e /\ Given(e) = e
  BY <1>3, <1>10, <1>11
<1>13. f = d
  <2>1. SameStage(f, d)
    BY <1>2, <1>6, <1>7, <1>8, <1>10, <1>12 DEF SameStage, Steered
  <2> QED BY <1>1, <1>2, <1>6, <1>10, <2>1, SameFilter
<1> QED BY <1>1, <1>2, <1>9, <1>12, <1>13

-----------------------------------------------------------------------------
(* To the end of the stream.                                                *)

\* A filter whose output has been taken out.
Quiet(f) == [f EXCEPT !.out = <<>>]

LEMMA QuietIs ==
  ASSUME NEW f \in Filters
  PROVE  Quiet(f) \in Filters /\ SameStage(Quiet(f), f) /\ Quiet(f).buffer = f.buffer
<1>1. PICK e \in Texts : e = <<>>
  BY Empty
<1>2. PICK g : g = [f EXCEPT !.out = e]
  OBVIOUS
<1>3. g \in Filters /\ SameStage(g, f) /\ g.buffer = f.buffer
  BY <1>2 DEF Filters, SameStage
<1>4. Quiet(f) = g
  BY <1>1, <1>2, Zenon DEF Quiet
<1> QED BY <1>3, <1>4

\* What has been given out already says nothing about what is still held.
LEMMA FlushForgets ==
  ASSUME NEW f \in Filters
  PROVE  Flush(Quiet(f)) = Flush(f)
<1>1. PICK g \in Filters : g = Quiet(f) /\ SameStage(g, f) /\ g.buffer = f.buffer
  BY QuietIs
<1>2. Outputting(g) = Outputting(f)
  BY <1>1 DEF SameStage, Outputting, State
<1>3. g.widget = f.widget /\ g.inWidget = f.inWidget /\ g.followUp = f.followUp
  BY <1>1 DEF SameStage
<1>4. Flush(g) = Flush(f)
  BY <1>1, <1>2, <1>3, Zenon DEF Flush
<1> QED BY <1>1, <1>4

LEMMA ProcessForgets ==
  ASSUME NEW f \in Filters, NEW c \in Texts
  PROVE  Process(Quiet(f), c) = Process(f, c)
<1>1. PICK g \in Filters : g = Quiet(f) /\ SameStage(g, f) /\ g.buffer = f.buffer
  BY QuietIs
<1>2. PICK a \in Filters : a = Loaded(f, c) /\ SameStage(a, f) /\ a.buffer = f.buffer \o c /\ a.out = <<>>
  BY LoadedIs
<1>3. PICK b \in Filters : b = Loaded(g, c) /\ SameStage(b, g) /\ b.buffer = g.buffer \o c /\ b.out = <<>>
  BY LoadedIs
<1>4. SameStage(b, a)
  BY <1>1, <1>2, <1>3 DEF SameStage
<1>5. b.buffer = a.buffer /\ b.out = a.out
  BY <1>1, <1>2, <1>3
<1>6. b = a
  BY <1>4, <1>5, SameFilter
<1>7. g.widget = f.widget /\ g.inWidget = f.inWidget /\ g.followUp = f.followUp
  BY <1>1 DEF SameStage
<1>8. Suppressed(g, c) = Suppressed(f, c)
  BY <1>2, <1>3, <1>6 DEF Suppressed
<1>9. Widgeted(g, c) = Widgeted(f, c)
  BY <1>7, <1>8 DEF Widgeted
<1>10. Tagged(g, c) = Tagged(f, c)
  BY <1>7, <1>9 DEF Tagged
<1>11. PICK p, q : p = Process(g, c) /\ q = Process(f, c)
  OBVIOUS
<1>12. /\ p \in Filters /\ Steered(p, Suppressed(f, c)) /\ p.buffer = Suppressed(f, c).buffer
       /\ p.widget = Widgeted(f, c).text /\ p.inWidget = Widgeted(f, c).inside
       /\ p.followUp = From(Tagged(f, c), HoldAt(Tagged(f, c)))
       /\ p.out = Upto(Tagged(f, c), HoldAt(Tagged(f, c)) - 1)
  BY <1>8, <1>9, <1>10, <1>11, ProcessIs DEF HasProcessed
<1>13. /\ q \in Filters /\ Steered(q, Suppressed(f, c)) /\ q.buffer = Suppressed(f, c).buffer
       /\ q.widget = Widgeted(f, c).text /\ q.inWidget = Widgeted(f, c).inside
       /\ q.followUp = From(Tagged(f, c), HoldAt(Tagged(f, c)))
       /\ q.out = Upto(Tagged(f, c), HoldAt(Tagged(f, c)) - 1)
  BY <1>11, ProcessIs DEF HasProcessed
<1>14. SameStage(p, q)
  BY <1>12, <1>13 DEF Steered, SameStage
<1>15. p = q
  BY <1>12, <1>13, <1>14, SameFilter
<1> QED BY <1>1, <1>11, <1>15

\* What is given out and what is held are texts, and together what is streamed.
LEMMA StreamedIs ==
  ASSUME NEW s \in Texts
  PROVE  /\ Taken(s) \in Filters /\ Given(s) \in Texts
         /\ Flush(Taken(s)) \in Texts /\ Streamed(s) \in Texts
         /\ Streamed(s) = Given(s) \o Flush(Taken(s))
<1>1. PICK f \in Filters : f = Process(NewFilter, s) /\ f.out \in Texts
  BY NewIsFilter, Processed
<1>2. Taken(s) = Quiet(f) /\ Given(s) = f.out
  BY <1>1, Zenon DEF Taken, Given, Quiet
<1>3. Taken(s) \in Filters
  BY <1>1, <1>2, QuietIs
<1>4. Flush(Taken(s)) = Flush(f) /\ Flush(f) \in Texts
  BY <1>1, <1>2, FlushForgets, Flushed
<1>5. Streamed(s) = f.out \o Flush(f)
  BY <1>1, Zenon DEF Streamed
<1> QED BY <1>1, <1>2, <1>3, <1>4, <1>5, TwoTexts

\* A reply may be cut anywhere: when its start has been taken in one chunk and the
\* rest comes in another, what is streamed is what is streamed of the whole.
\* (_process_chunk, _filter_widget and _hold_partial_followup of the output filter.)
THEOREM CutAnywhere ==
  \A s, c \in Texts :
    Divisible(s \o c) =>
      LET f == Process(NewFilter, s)
          g == Process(f, c)
      IN f.out \o g.out \o Flush(g) = Streamed(s \o c)
<1> TAKE s, c \in Texts
<1> HAVE Divisible(s \o c)
<1> DEFINE f == Process(NewFilter, s)
           g == Process(f, c)
<1> HIDE DEF f, g
<1>1. f \in Filters /\ f.out \in Texts
  BY NewIsFilter, Processed DEF f
<1>2. g \in Filters /\ g.out \in Texts
  BY <1>1, Processed DEF g
<1>3. Taken(s) = Quiet(f) /\ Given(s) = f.out
  BY Zenon DEF f, Taken, Given, Quiet
<1>4. Process(Taken(s), c) = g
  BY <1>1, <1>3, ProcessForgets DEF g
<1>5. Quiet(g) = Taken(s \o c) /\ Given(s \o c) = f.out \o g.out
  <2>1. /\ [Process(Taken(s), c) EXCEPT !.out = <<>>] = Taken(s \o c)
        /\ Given(s \o c) = Given(s) \o Process(Taken(s), c).out
    BY NextChunk
  <2> QED BY <1>3, <1>4, <2>1, Zenon DEF Quiet
<1>6. PICK z \in Texts : z = s \o c
  BY TwoTexts
<1>7. Flush(Taken(z)) = Flush(g)
  BY <1>2, <1>5, <1>6, FlushForgets
<1>8. Streamed(z) = Given(z) \o Flush(Taken(z))
  BY StreamedIs
<1>9. f.out \o g.out \o Flush(g) = Streamed(s \o c)
  BY <1>5, <1>6, <1>7, <1>8
<1> QED BY <1>9, Zenon DEF f, g

-----------------------------------------------------------------------------
(* Texts without some of their pieces, and texts without markers.           *)

\* Pieces of a second text stand behind the first.
LEMMA WhereJoined ==
  ASSUME NEW u \in Texts, NEW v \in Texts, NEW P
  PROVE  /\ \A i \in 1 .. Len(u) : i \in Where(P, u \o v) <=> i \in Where(P, u)
         /\ \A i \in 1 .. Len(v) : Len(u) + i \in Where(P, u \o v) <=> i \in Where(P, v)
         /\ \A i \in Where(P, u \o v) : i \in Where(P, u) \/ \E j \in Where(P, v) : i = Len(u) + j
         /\ Where(P, u \o v) = {} <=> Where(P, u) = {} /\ Where(P, v) = {}
<1>1. PICK n \in Nat, l \in Nat : n = Len(u) /\ l = Len(v)
  BY TextIs
<1>2. PICK z \in Texts : z = u \o v
  BY TwoTexts
<1>3. /\ Len(z) = n + l /\ \A i \in 1 .. n : z[i] = u[i]
      /\ \A i \in n + 1 .. n + l : z[i] = v[i - n]
  BY <1>1, <1>2, JoinIs
<1>4. ASSUME NEW i \in 1 .. n PROVE i \in Where(P, z) <=> i \in Where(P, u)
  BY <1>1, <1>3, WhereIs
<1>5. ASSUME NEW i \in 1 .. l PROVE n + i \in Where(P, z) <=> i \in Where(P, v)
  <2>1. n + i \in 1 .. n + l /\ n + i \in n + 1 .. n + l /\ n + i - n = i
    OBVIOUS
  <2>2. z[n + i] = v[i]
    BY <1>3, <2>1
  <2> QED BY <1>1, <1>3, <2>1, <2>2, WhereIs
<1>6. ASSUME NEW i \in Where(P, z)
      PROVE  i \in Where(P, u) \/ \E j \in Where(P, v) : i = n + j
  <2>1. i \in 1 .. n + l
    BY <1>3, WhereIs
  <2>2. CASE i \in 1 .. n
    BY <1>4, <2>2
  <2>3. CASE i \notin 1 .. n
    <3>1. PICK j \in 1 .. l : i = n + j
      <4>1. i - n \in 1 .. l /\ i = n + (i - n)
        BY <2>1, <2>3
      <4> QED BY <4>1
    <3> QED BY <1>5, <3>1
  <2> QED BY <2>2, <2>3
<1>7. Where(P, z) = {} <=> Where(P, u) = {} /\ Where(P, v) = {}
  <2>1. ASSUME NEW i \in Where(P, u) PROVE Where(P, z) # {}
    BY <1>1, <1>4, WhereIs
  <2>2. ASSUME NEW i \in Where(P, v) PROVE Where(P, z) # {}
    BY <1>1, <1>5, WhereIs
  <2> QED BY <1>6, <2>1, <2>2
<1> QED BY <1>1, <1>2, <1>4, <1>5, <1>6, <1>7

\* The search for the pieces goes on behind the first.
LEMMA PiecesDropped ==
  ASSUME NEW P, NEW t \in Texts
  PROVE  /\ DropPieces(P, t) \in Texts
         /\ Where(P, t) = {} => DropPieces(P, t) = t
         /\ Where(P, t) # {} =>
              /\ First(Where(P, t)) \in 1 .. Len(t)
              /\ DropPieces(P, t) = Upto(t, First(Where(P, t)) - 1)
                                      \o DropPieces(P, From(t, First(Where(P, t)) + 1))
<1> DEFINE search == [u \in Texts |-> PieceHit(P, u)]
<1>1. ASSUME NEW u \in Texts, Where(P, u) = {}
      PROVE  PieceHit(P, u) = NoHit(u) /\ NoHit(u) \in Hits(u)
  BY <1>1, NoHitIsHit DEF PieceHit
<1>2. ASSUME NEW u \in Texts, Where(P, u) # {}
      PROVE  /\ First(Where(P, u)) \in 1 .. Len(u)
             /\ PieceHit(P, u) = Hit(Upto(u, First(Where(P, u)) - 1), From(u, First(Where(P, u)) + 1))
             /\ PieceHit(P, u) \in Hits(u)
  <2>1. PICK n \in Nat : n = Len(u)
    BY TextIs
  <2>2. Where(P, u) \in SUBSET Nat
    BY <2>1, WhereIs
  <2>3. PICK i \in Where(P, u) : i = First(Where(P, u))
    BY <1>2, <2>2, FirstIs
  <2>4. i \in 1 .. n /\ i \in 1 .. Len(u) /\ i - 1 \in 0 .. Len(u) /\ i + 1 \in 2 .. Len(u) + 1
    BY <2>1, <2>3, WhereIs
  <2>5. PieceHit(P, u) = Hit(Upto(u, i - 1), From(u, i + 1))
    BY <1>2, <2>3, Zenon DEF PieceHit
  <2>6. Upto(u, i - 1) \in Texts
    BY <2>4, UptoIs
  <2> QED BY <2>3, <2>4, <2>5, <2>6, HitIsHit
<1>3. \A u \in Texts : search[u] \in Hits(u)
  BY <1>1, <1>2
<1>4. search[t] = PieceHit(P, t)
  OBVIOUS
<1>5. \A u : DropPieces(P, u) = Sub(search, u)
  BY DEF DropPieces
<1> HIDE DEF search
<1>6. /\ Sub(search, t) \in Texts
      /\ search[t].found => Sub(search, t) = search[t].before \o Sub(search, search[t].rest)
      /\ ~search[t].found => Sub(search, t) = search[t].before
  BY <1>3, SubTyped
<1>7. Where(P, t) = {} => DropPieces(P, t) = t
  <2>1. ~NoHit(t).found /\ NoHit(t).before = t
    BY DEF NoHit
  <2> QED BY <1>1, <1>4, <1>5, <1>6, <2>1
<1>8. ASSUME Where(P, t) # {}
      PROVE  /\ First(Where(P, t)) \in 1 .. Len(t)
             /\ DropPieces(P, t) = Upto(t, First(Where(P, t)) - 1)
                                     \o DropPieces(P, From(t, First(Where(P, t)) + 1))
  <2>1. PICK i, a, b : i = First(Where(P, t)) /\ a = Upto(t, i - 1) /\ b = From(t, i + 1)
    OBVIOUS
  <2>2. Hit(a, b).found /\ Hit(a, b).before = a /\ Hit(a, b).rest = b
    BY DEF Hit
  <2>3. search[t] = Hit(a, b) /\ First(Where(P, t)) \in 1 .. Len(t)
    BY <1>2, <1>4, <1>8, <2>1
  <2>4. Sub(search, t) = a \o Sub(search, b)
    BY <1>6, <2>2, <2>3
  <2> QED BY <1>5, <2>1, <2>3, <2>4
<1> QED BY <1>5, <1>6, <1>7, <1>8

\* Two texts lose their pieces apart.
LEMMA DropJoined ==
  ASSUME NEW P, NEW u \in Texts, NEW v \in Texts
  PROVE  DropPieces(P, u \o v) = DropPieces(P, u) \o DropPieces(P, v)
<1> DEFINE Bad(t) == DropPieces(P, t \o v) # DropPieces(P, t) \o DropPieces(P, v)
           lengths == {n \in Nat : \E t \in Texts : Len(t) = n /\ Bad(t)}
<1>1. ASSUME NEW t \in Texts, \A s \in Texts : Len(s) < Len(t) => ~Bad(s)
      PROVE  ~Bad(t)
  <2>1. PICK n \in Nat, l \in Nat : n = Len(t) /\ l = Len(v)
    BY TextIs
  <2>2. PICK z \in Texts : z = t \o v
    BY TwoTexts
  <2>3. CASE Where(P, t) = {} /\ Where(P, v) = {}
    <3>1. Where(P, z) = {}
      BY <2>2, <2>3, WhereJoined
    <3> QED BY <2>2, <2>3, <3>1, PiecesDropped
  <2>4. CASE Where(P, t) = {} /\ Where(P, v) # {}
    <3>1. PICK j : j = First(Where(P, v))
      OBVIOUS
    <3>2. /\ j \in 1 .. l /\ j \in Where(P, v) /\ \A i \in Where(P, v) : j <= i
      <4>1. Where(P, v) \in SUBSET Nat
        BY <2>1, WhereIs
      <4> QED BY <2>1, <2>4, <3>1, <4>1, FirstIs, WhereIs
    <3>3. n + j \in Where(P, z) /\ \A i \in Where(P, z) : n + j <= i
      <4>1. n + j \in Where(P, z)
        BY <2>1, <2>2, <3>2, WhereJoined
      <4>2. ASSUME NEW i \in Where(P, z) PROVE n + j <= i
        <5>1. PICK h \in Where(P, v) : i = n + h
          BY <2>1, <2>2, <2>4, WhereJoined
        <5>2. h \in Nat /\ j <= h
          BY <2>1, <3>2, WhereIs
        <5> QED BY <3>2, <5>1, <5>2
      <4> QED BY <4>1, <4>2
    <3>4. First(Where(P, z)) = n + j
      <4>1. Where(P, z) \in SUBSET Nat
        BY WhereIs, TextIs
      <4> QED BY <3>3, <4>1, FirstOnly
    <3>5. j \in 1 .. Len(v) + 1 /\ j + 1 \in 1 .. Len(v) + 1 /\ n + j + 1 = n + (j + 1)
      BY <2>1, <3>2
    <3>6. Upto(z, n + j - 1) = t \o Upto(v, j - 1)
      BY <2>1, <2>2, <3>5, AfterText
    <3>7. From(z, n + (j + 1)) = From(v, j + 1)
      BY <2>1, <2>2, <3>5, AfterText
    <3>8. PICK a \in Texts, b \in Texts : a = Upto(v, j - 1) /\ b = DropPieces(P, From(v, j + 1))
      <4>1. j - 1 \in 0 .. Len(v)
        BY <2>1, <3>2
      <4>2. From(v, j + 1) \in Texts
        BY <3>5, FromPieces
      <4> QED BY <4>1, <4>2, UptoIs, PiecesDropped
    <3>9. DropPieces(P, v) = a \o b
      BY <2>4, <3>1, <3>8, PiecesDropped
    <3>10. DropPieces(P, z) = (t \o a) \o b
      <4>1. PICK k \in Nat : k = n + j /\ k = First(Where(P, z)) /\ Where(P, z) # {}
        BY <3>2, <3>3, <3>4
      <4>2. DropPieces(P, z) = Upto(z, k - 1) \o DropPieces(P, From(z, k + 1))
        <5>1. z \in Texts
          BY <2>2, Zenon
        <5>2. Where(P, z) # {} =>
                DropPieces(P, z) = Upto(z, First(Where(P, z)) - 1)
                                     \o DropPieces(P, From(z, First(Where(P, z)) + 1))
          BY <5>1, PiecesDropped
        <5> QED BY <4>1, <5>2, Zenon
      <4>3. Upto(z, k - 1) = t \o a /\ From(z, k + 1) = From(v, j + 1)
        <5>1. k - 1 = n + j - 1 /\ k + 1 = n + (j + 1)
          BY <2>1, <3>5, <4>1
        <5> QED BY <3>6, <3>7, <3>8, <5>1, Zenon
      <4> QED BY <3>8, <4>2, <4>3
    <3>11. DropPieces(P, z) = t \o (a \o b)
      <4>1. (t \o a) \o b = t \o (a \o b)
        <5>1. Glued(Glued(t, a), b) = Glued(t, Glued(a, b))
          BY ThreeGlued
        <5> QED BY <5>1, Zenon DEF Glued
      <4> QED BY <3>10, <4>1, Zenon
    <3>12. DropPieces(P, t) = t
      BY <2>4, PiecesDropped
    <3> QED BY <2>2, <3>9, <3>11, <3>12
  <2>5. CASE Where(P, t) # {}
    <3>1. PICK i : i = First(Where(P, t))
      OBVIOUS
    <3>2. i \in 1 .. n /\ Where(P, z) # {} /\ First(Where(P, z)) = i
      BY <2>1, <2>2, <2>5, <3>1, FirstJoined
    <3>3. i + 1 \in 1 .. Len(t) + 1 /\ i - 1 \in 0 .. Len(t)
      BY <2>1, <3>2
    <3>4. PICK a \in Texts, r \in Texts : /\ a = Upto(t, i - 1) /\ r = From(t, i + 1)
                                          /\ Len(r) < Len(t)
      <4>1. From(t, i + 1) \in Texts /\ Len(From(t, i + 1)) = Len(t) - (i + 1) + 1
        BY <3>3, FromPieces
      <4>2. Upto(t, i - 1) \in Texts
        BY <3>3, UptoIs
      <4>3. Len(From(t, i + 1)) < Len(t)
        BY <2>1, <3>2, <4>1
      <4> QED BY <4>1, <4>2, <4>3
    <3>5. Upto(z, i - 1) = a /\ From(z, i + 1) = r \o v
      <4>1. Upto(t \o v, i - 1) = Upto(t, i - 1)
        BY <3>3, JoinedUpto, Zenon
      <4>2. From(t, i + 1) \o v = From(t \o v, i + 1)
        BY <3>3, JoinedFrom, Zenon
      <4> QED BY <2>2, <3>4, <4>1, <4>2, Zenon
    <3>6. DropPieces(P, z) = a \o DropPieces(P, r \o v)
      <4>1. DropPieces(P, z) = Upto(z, i - 1) \o DropPieces(P, From(z, i + 1))
        BY <3>2, PiecesDropped
      <4> QED BY <3>5, <4>1
    <3>7. DropPieces(P, t) = a \o DropPieces(P, r)
      BY <2>5, <3>1, <3>4, PiecesDropped
    <3>8. DropPieces(P, r \o v) = DropPieces(P, r) \o DropPieces(P, v)
      BY <1>1, <3>4
    <3>9. DropPieces(P, r) \in Texts /\ DropPieces(P, v) \in Texts
      BY PiecesDropped
    <3>10. PICK y \in Texts, w \in Texts : y = DropPieces(P, r) /\ w = DropPieces(P, v)
      BY <3>9
    <3>11. (a \o y) \o w = a \o (y \o w)
      <4>1. Glued(Glued(a, y), w) = Glued(a, Glued(y, w))
        BY ThreeGlued
      <4> QED BY <4>1, Zenon DEF Glued
    <3>12. DropPieces(P, z) = a \o (y \o w) /\ DropPieces(P, t) = a \o y
      BY <3>6, <3>7, <3>8, <3>10
    <3>13. DropPieces(P, z) = DropPieces(P, t) \o DropPieces(P, v)
      BY <3>10, <3>11, <3>12, Zenon
    <3> QED BY <2>2, <3>13
  <2> QED BY <2>3, <2>4, <2>5
<1>2. CASE lengths = {}
  <2>1. Len(u) \in Nat
    BY TextIs
  <2> QED BY <1>2, <2>1
<1>3. CASE lengths # {}
  <2>1. PICK n \in lengths : \A m \in lengths : n <= m
    BY <1>3, Least
  <2>2. PICK t \in Texts : Len(t) = n /\ Bad(t)
    OBVIOUS
  <2>3. ASSUME NEW s \in Texts, Len(s) < Len(t) PROVE ~Bad(s)
    <3>1. Len(s) \in Nat
      BY TextIs
    <3> QED BY <2>1, <2>2, <2>3, <3>1
  <2> HIDE DEF Bad
  <2> QED BY <1>1, <2>2, <2>3
<1> QED BY <1>2, <1>3

LEMMA AllDropped ==
  ASSUME NEW P, NEW t \in Texts, \A i \in 1 .. Len(t) : t[i] \in P
  PROVE  DropPieces(P, t) = <<>>
<1> DEFINE Only(s) == \A i \in 1 .. Len(s) : s[i] \in P
           lengths == {n \in Nat : \E s \in Texts : Len(s) = n /\ Only(s) /\ DropPieces(P, s) # <<>>}
<1>1. ASSUME NEW s \in Texts, Only(s),
             \A r \in Texts : Len(r) < Len(s) /\ Only(r) => DropPieces(P, r) = <<>>
      PROVE  DropPieces(P, s) = <<>>
  <2>1. PICK n \in Nat : n = Len(s)
    BY TextIs
  <2>2. CASE n = 0
    <3>1. PICK e \in Texts : e = <<>> /\ Len(e) = 0
      BY Empty
    <3>2. s = e
      <4>1. Len(s) = Len(e) /\ \A i \in 1 .. Len(s) : s[i] = e[i]
        BY <2>1, <2>2, <3>1
      <4> QED BY <4>1, SameText
    <3>3. Where(P, s) = {}
      <4>1. \A i : i \notin 1 .. Len(s)
        BY <2>1, <2>2
      <4> QED BY <4>1, WhereIs
    <3> QED BY <3>1, <3>2, <3>3, PiecesDropped
  <2>3. CASE n > 0
    <3>1. 1 \in Where(P, s) /\ \A i \in Where(P, s) : 1 <= i
      BY <1>1, <2>1, <2>3, WhereIs
    <3>2. First(Where(P, s)) = 1
      <4>1. Where(P, s) \in SUBSET Nat
        BY <2>1, WhereIs
      <4> QED BY <3>1, <4>1, FirstOnly
    <3>3. PICK r : r = From(s, 1 + 1)
      OBVIOUS
    <3>4. 1 + 1 \in 1 .. Len(s) + 1
      BY <2>1, <2>3
    <3>5. /\ r \in Texts /\ Len(r) = n - 1
          /\ \A i \in 1 .. n - 1 : r[i] = s[i + 1]
      <4>1. PICK k \in 1 .. Len(s) + 1 : k = 2 /\ r = From(s, k)
        BY <3>3, <3>4
      <4>2. /\ r \in Texts /\ Len(r) = n - k + 1
            /\ \A i \in 1 .. n - k + 1 : r[i] = s[i + k - 1]
        BY <2>1, <4>1, FromPieces
      <4>3. n - k + 1 = n - 1 /\ \A i \in 1 .. n - 1 : i + k - 1 = i + 1
        BY <4>1
      <4> QED BY <4>2, <4>3
    <3>6. Only(r)
      BY <1>1, <2>1, <3>5
    <3>7. DropPieces(P, r) = <<>>
      BY <1>1, <2>1, <3>5, <3>6
    <3>8. DropPieces(P, s) = Upto(s, 1 - 1) \o DropPieces(P, r)
      BY <3>1, <3>2, <3>3, PiecesDropped
    <3>9. PICK e \in Texts : e = <<>>
      BY Empty
    <3>10. Upto(s, 1 - 1) = e /\ e \o e = e
      BY <3>9, WholeText, ThreeTexts
    <3> QED BY <3>7, <3>8, <3>9, <3>10
  <2> QED BY <2>1, <2>2, <2>3
<1>2. CASE lengths = {}
  <2>1. Len(t) \in Nat
    BY TextIs
  <2> QED BY <1>2, <2>1
<1>3. CASE lengths # {}
  <2>1. PICK n \in lengths : \A m \in lengths : n <= m
    BY <1>3, Least
  <2>2. PICK s \in Texts : Len(s) = n /\ Only(s) /\ DropPieces(P, s) # <<>>
    OBVIOUS
  <2>3. ASSUME NEW r \in Texts, Len(r) < Len(s), Only(r) PROVE DropPieces(P, r) = <<>>
    <3>1. Len(r) \in Nat
      BY TextIs
    <3> QED BY <2>1, <2>2, <2>3, <3>1
  <2> HIDE DEF Only
  <2> QED BY <1>1, <2>2, <2>3
<1> QED BY <1>2, <1>3

\* Where there is no marker, a search for them finds nothing.
LEMMA CutNothing ==
  ASSUME NEW opens \in SUBSET (Starts \cup Exits), NEW close \in {<<>>, CallEnd, ToolEnd},
         NEW t \in Texts, NoMarker(t)
  PROVE  Cut(opens, close, t) = t
<1>1. Len(close) \in Nat /\ \A m \in opens : Len(m) \in Nat \ {0}
  BY MarkerLengths, Empty
<1>2. \A s \in Texts : BlockHit(opens, close, s) \in Hits(s)
  BY <1>1, BlockHits
<1>3. BlockHit(opens, close, t) = NoHit(t)
  BY DEF NoMarker, BlockHit
<1> DEFINE search == [s \in Texts |-> BlockHit(opens, close, s)]
<1>4. \A s \in Texts : search[s] \in Hits(s)
  BY <1>2
<1>5. search[t] = NoHit(t)
  BY <1>3
<1>6. Cut(opens, close, t) = Sub(search, t)
  BY DEF Cut
<1> HIDE DEF search
<1>7. ~search[t].found /\ search[t].before = t
  BY <1>5 DEF NoHit
<1> QED BY <1>4, <1>6, <1>7, SubTyped

LEMMA TagsNothing ==
  ASSUME NEW t \in Texts, NoMarker(t)
  PROVE  DropTags(t) = t
<1>1. TagHit(t) = NoHit(t)
  BY DEF NoMarker, Starts, TagHit
<1> DEFINE search == [s \in Texts |-> TagHit(s)]
<1>2. \A s \in Texts : search[s] \in Hits(s)
  BY TagHits
<1>3. search[t] = NoHit(t)
  BY <1>1
<1>4. DropTags(t) = Sub(search, t)
  BY DEF DropTags
<1> HIDE DEF search
<1>5. ~search[t].found /\ search[t].before = t
  BY <1>3 DEF NoHit
<1> QED BY <1>2, <1>4, <1>5, SubTyped

LEMMA FuzzyPlain ==
  ASSUME NEW t \in Texts, NoMarker(t)
  PROVE  Fuzzy(t) = DropPieces(Blanks \cup Punctuation, t)
<1>1. DropControls(DropTags(t)) = t
  <2>1. DropTags(t) = t
    BY TagsNothing
  <2>2. {TagStart, TagEnd} \in SUBSET (Starts \cup Exits) /\ <<>> \in {<<>>, CallEnd, ToolEnd}
    BY DEF Starts, Exits
  <2>3. Cut({TagStart, TagEnd}, <<>>, t) = t
    BY <2>2, CutNothing, Zenon
  <2> QED BY <2>1, <2>3, Zenon DEF DropControls
<1>2. Cut({ToolStart}, ToolEnd, t) = t /\ Cut({CallStart}, CallEnd, t) = t
  BY CutNothing DEF Starts
<1>3. StripSystemHints(t) = t
  BY <1>1, <1>2 DEF StripSystemHints
<1> QED BY <1>3 DEF Fuzzy

LEMMA NoMarkerFrom ==
  ASSUME NEW t \in Texts, NoMarker(t), NEW k \in 1 .. Len(t) + 1
  PROVE  NoMarker(From(t, k))
<1>1. PICK u \in Texts : u = From(t, k)
  BY FromPieces
<1>2. ASSUME NEW m \in Starts \cup Exits, NEW i \in Places(m, u) PROVE FALSE
  <2>1. m \in Seq(MarkWords) /\ Len(m) > 0
    BY Marks
  <2>2. i \in Int
    BY <1>2, <2>1, PlaceIs
  <2>3. i + k - 1 \in Places(m, t)
    BY <1>1, <1>2, <2>1, <2>2, PlacesFrom
  <2> QED BY <2>3 DEF NoMarker
<1> QED BY <1>1, <1>2 DEF NoMarker

\* A text without markers gets none from pieces that are in no marker.
LEMMA NoMarkerJoined ==
  ASSUME NEW u \in Texts, NoMarker(u), NEW v \in Texts, NEW P,
         \A m \in Starts \cup Exits : Where(P, m) = {},
         \A i \in 1 .. Len(v) : v[i] \in P
  PROVE  NoMarker(u \o v)
<1>1. PICK z \in Texts : z = u \o v
  BY TwoTexts
<1>2. PICK n \in Nat, l \in Nat : n = Len(u) /\ l = Len(v)
  BY TextIs
<1>3. Len(z) = n + l /\ \A i \in n + 1 .. n + l : z[i] = v[i - n]
  BY <1>1, <1>2, JoinIs
<1>4. ASSUME NEW m \in Starts \cup Exits, NEW i \in Places(m, z) PROVE FALSE
  <2>1. m \in Seq(MarkWords) /\ Len(m) > 0
    BY Marks
  <2>2. PICK k \in Nat : k = Len(m) /\ k > 0 /\ DOMAIN m = 1 .. k
    BY <2>1
  <2>3. i \in Int /\ 1 <= i /\ i + k - 1 <= n + l /\ Matching(m, z, i)
    BY <1>3, <1>4, <2>1, <2>2, PlaceIs
  <2>4. CASE i + k - 1 <= n
    <3>1. i \in Places(m, u)
      BY <1>1, <1>2, <1>4, <2>1, <2>2, <2>4, PlacesJoined
    <3> QED BY <3>1 DEF NoMarker
  <2>5. CASE i + k - 1 > n
    <3>1. PICK h \in Int : h = i + k - 1 /\ h \in n + 1 .. n + l
      BY <2>2, <2>3, <2>5
    <3>2. z[h] = m[k]
      BY <2>2, <2>3, <3>1 DEF Matching
    <3>3. h - n \in 1 .. l
      BY <3>1
    <3>4. m[k] \in P
      BY <1>2, <1>3, <3>1, <3>2, <3>3
    <3>5. k \in DOMAIN m
      BY <2>2
    <3>6. k \in Where(P, m)
      BY <3>4, <3>5 DEF Where
    <3> QED BY <3>6
  <2> QED BY <2>2, <2>3, <2>4, <2>5
<1> QED BY <1>1, <1>4 DEF NoMarker

LEMMA BlankPieces ==
  ASSUME NEW s \in Texts
  PROVE  \E k \in 1 .. Len(s) + 1 :
           /\ LStrip(s) = From(s, k)
           /\ \A i \in 1 .. k - 1 : s[i] \in Blanks
<1> DEFINE text == DOMAIN s \ Where(Blanks, s)
<1>1. PICK n \in Nat : n = Len(s) /\ DOMAIN s = 1 .. n
  BY TextIs
<1>2. ASSUME NEW i \in 1 .. n PROVE i \in text <=> s[i] \notin Blanks
  BY <1>1, WhereIs
<1>3. CASE text = {}
  <2>1. LStrip(s) = <<>>
    BY <1>3 DEF LStrip
  <2>2. From(s, n + 1) = <<>>
    BY <1>1, WholeText
  <2>3. \A i \in 1 .. n + 1 - 1 : s[i] \in Blanks
    BY <1>2, <1>3
  <2> QED BY <1>1, <2>1, <2>2, <2>3
<1>4. CASE text # {}
  <2>1. text \in SUBSET Nat
    BY <1>1
  <2>2. PICK k \in text : k = First(text) /\ \A j \in text : k <= j
    BY <1>4, <2>1, FirstIs
  <2>3. k \in 1 .. n
    BY <1>1
  <2>4. LStrip(s) = From(s, k)
    BY <1>4, <2>2 DEF LStrip
  <2>5. ASSUME NEW i \in 1 .. k - 1 PROVE s[i] \in Blanks
    <3>1. i \in 1 .. n /\ ~(k <= i)
      BY <2>3
    <3> QED BY <1>2, <2>2, <3>1
  <2> QED BY <1>1, <2>3, <2>4, <2>5
<1> QED BY <1>3, <1>4

\* Blanks in front say nothing.
LEMMA FuzzyStripped ==
  ASSUME NEW t \in Texts, NoMarker(t), NEW P, Where(P, t) = {}
  PROVE  /\ LStrip(t) \in Texts /\ NoMarker(LStrip(t)) /\ Where(P, LStrip(t)) = {}
         /\ Fuzzy(LStrip(t)) = Fuzzy(t)
<1>1. PICK n \in Nat : n = Len(t)
  BY TextIs
<1>2. PICK k \in 1 .. Len(t) + 1 : /\ LStrip(t) = From(t, k)
                                   /\ \A i \in 1 .. k - 1 : t[i] \in Blanks
  BY BlankPieces
<1>3. k \in 1 .. n + 1 /\ k - 1 \in 0 .. Len(t)
  BY <1>1
<1>4. PICK u \in Texts : /\ u = From(t, k) /\ Len(u) = n - k + 1
                         /\ \A i \in 1 .. n - k + 1 : u[i] = t[i + k - 1]
  BY <1>1, FromPieces
<1>5. NoMarker(u)
  BY <1>4, NoMarkerFrom
<1>6. ASSUME NEW i \in Where(P, u) PROVE FALSE
  <2>1. i \in 1 .. n - k + 1 /\ u[i] \in P
    BY <1>4, WhereIs
  <2>2. i + k - 1 \in 1 .. n /\ t[i + k - 1] \in P
    BY <1>3, <1>4, <2>1
  <2>3. i + k - 1 \in Where(P, t)
    BY <1>1, <2>2, WhereIs
  <2> QED BY <2>3
<1>7. PICK b \in Texts : /\ b = Upto(t, k - 1) /\ Len(b) = k - 1
                         /\ \A i \in 1 .. k - 1 : b[i] = t[i]
  BY <1>3, UptoIs
<1>8. b \o u = t
  BY <1>4, <1>7, CutInTwo
<1>9. \A i \in 1 .. Len(b) : b[i] \in Blanks \cup Punctuation
  BY <1>2, <1>7
<1>10. PICK e \in Texts : e = <<>>
  BY Empty
<1>11. PICK x \in Texts : x = DropPieces(Blanks \cup Punctuation, u)
  BY PiecesDropped
<1>12. DropPieces(Blanks \cup Punctuation, t) = e \o x
  <2>1. DropPieces(Blanks \cup Punctuation, b) = e
    BY <1>9, <1>10, AllDropped
  <2>2. DropPieces(Blanks \cup Punctuation, b \o u)
          = DropPieces(Blanks \cup Punctuation, b) \o DropPieces(Blanks \cup Punctuation, u)
    BY DropJoined
  <2> QED BY <1>8, <1>11, <2>1, <2>2, Zenon
<1>13. e \o x = x
  BY <1>10, ThreeTexts
<1>14. Fuzzy(u) = x /\ Fuzzy(t) = x
  BY <1>5, <1>11, <1>12, <1>13, FuzzyPlain
<1> QED BY <1>2, <1>4, <1>5, <1>6, <1>14
=============================================================================
