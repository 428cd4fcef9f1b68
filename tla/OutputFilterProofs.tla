-------------------------- MODULE OutputFilterProofs --------------------------
(***************************************************************************)
(* The output filter on any text, any state and any chunk: its loops end,  *)
(* and what they leave is a text, or a state, again.                       *)
(***************************************************************************)
EXTENDS OutputFilter, SequenceTheorems, NaturalsInduction, WellFoundedInduction, TLAPS

-----------------------------------------------------------------------------
(* Recursion.                                                              *)

LEMMA Least ==
  ASSUME NEW S \in SUBSET Nat, S # {}
  PROVE  \E i \in S : \A j \in S : i <= j
<1> DEFINE less == {pair \in Nat \X Nat : pair[1] < pair[2]}
<1>1. OpToRel(<, Nat) = less
  BY Zenon DEF OpToRel
<1>2. IsWellFoundedOn(less, Nat)
  BY <1>1, NatLessThanWellFounded
<1> HIDE DEF less
<1>3. PICK i \in S : \A j \in S : ~ (<<j, i>> \in less)
  BY <1>2, WFMin
<1>4. ASSUME NEW j \in S PROVE i <= j
  <2>1. i \in Nat /\ j \in Nat /\ <<j, i>> \in Nat \X Nat
    OBVIOUS
  <2>2. ~ (<<j, i>>[1] < <<j, i>>[2])
    BY <1>3, <2>1 DEF less
  <2> QED BY <2>1, <2>2
<1> QED BY <1>4

\* A recursion over S: where stop holds the value is base's, elsewhere it is put
\* together (with) from the place and from the value at the next place.
Terms(S, T, stop, base, next, with, size) ==
  /\ \A x \in S : size[x] \in Nat
  /\ \A x \in S : stop[x] => base[x] \in T
  /\ \A x \in S : ~stop[x] => next[x] \in S /\ size[next[x]] < size[x]
  /\ \A x \in S, v \in T : with[<<x, v>>] \in T

Term(F, x, stop, base, next, with) == IF stop[x] THEN base[x] ELSE with[<<x, F[next[x]]>>]

Below(S, size, n) == {x \in S : size[x] < n}

\* The recursion, as far as it goes for places smaller than n.
Solves(F, S, T, stop, base, next, with, size, n) ==
  /\ F \in [Below(S, size, n) -> T]
  /\ \A x \in Below(S, size, n) : F[x] = Term(F, x, stop, base, next, with)

LEMMA SolvesNext ==
  ASSUME NEW S, NEW T, NEW stop, NEW base, NEW next, NEW with, NEW size,
         Terms(S, T, stop, base, next, with, size),
         NEW m \in Nat, NEW F, Solves(F, S, T, stop, base, next, with, size, m)
  PROVE  \E G : Solves(G, S, T, stop, base, next, with, size, m + 1)
<1> DEFINE B == Below(S, size, m)
           C == Below(S, size, m + 1)
           G == [x \in C |-> Term(F, x, stop, base, next, with)]
<1>1. \A x \in S : size[x] \in Nat /\ (~stop[x] => next[x] \in S)
  BY DEF Terms
<1>2. B \subseteq C /\ \A x \in C : x \in S /\ (~stop[x] => next[x] \in B)
  <2>1. \A x \in C : x \in S /\ size[x] < m + 1
    BY DEF Below
  <2>2. ASSUME NEW x \in C, ~stop[x] PROVE next[x] \in B
    <3>1. size[next[x]] < size[x] /\ next[x] \in S /\ size[next[x]] \in Nat /\ size[x] \in Nat
      BY <1>1, <2>1, <2>2 DEF Terms
    <3> QED BY <2>1, <3>1 DEF Below
  <2>3. B \subseteq C
    BY <1>1 DEF Below
  <2> QED BY <2>1, <2>2, <2>3
<1>3. \A x \in B : F[x] \in T /\ F[x] = Term(F, x, stop, base, next, with)
  BY DEF Solves
<1>4. \A x \in C : Term(F, x, stop, base, next, with) \in T
  <2> SUFFICES ASSUME NEW x \in C PROVE Term(F, x, stop, base, next, with) \in T
    OBVIOUS
  <2>1. CASE stop[x]
    BY <1>2, <2>1 DEF Term, Terms
  <2>2. CASE ~stop[x]
    <3>1. x \in S /\ F[next[x]] \in T
      BY <1>2, <1>3, <2>2
    <3> QED BY <2>2, <3>1 DEF Term, Terms
  <2> QED BY <2>1, <2>2
<1>5. G \in [C -> T]
  BY <1>4
<1>6. \A x \in B : G[x] = F[x]
  BY <1>2, <1>3
<1>7. \A x \in C : G[x] = Term(G, x, stop, base, next, with)
  BY <1>2, <1>6 DEF Term
<1>8. Solves(G, S, T, stop, base, next, with, size, m + 1)
  BY <1>5, <1>7 DEF Solves
<1> QED BY <1>8

LEMMA SolvesAll ==
  ASSUME NEW S, NEW T, NEW stop, NEW base, NEW next, NEW with, NEW size,
         Terms(S, T, stop, base, next, with, size), NEW n \in Nat
  PROVE  \E F : Solves(F, S, T, stop, base, next, with, size, n)
<1> DEFINE Some(k) == \E F : Solves(F, S, T, stop, base, next, with, size, k)
           bad == {k \in Nat : ~Some(k)}
<1>1. Some(0)
  <2>1. \A x \in S : size[x] \in Nat
    BY DEF Terms
  <2>2. Below(S, size, 0) = {}
    BY <2>1 DEF Below
  <2> DEFINE G == [x \in {} |-> x]
  <2>3. G \in [{} -> T]
    OBVIOUS
  <2>4. Solves(G, S, T, stop, base, next, with, size, 0)
    BY <2>2, <2>3 DEF Solves
  <2> QED BY <2>4
<1>2. ASSUME NEW k \in Nat, Some(k) PROVE Some(k + 1)
  BY <1>2, SolvesNext
<1> HIDE DEF Some
<1>3. bad = {}
  <2> SUFFICES ASSUME bad # {} PROVE FALSE
    OBVIOUS
  <2>1. PICK k \in bad : \A j \in bad : k <= j
    BY Least
  <2>2. k \in Nat /\ k # 0 /\ ~Some(k)
    BY <1>1
  <2>3. k - 1 \in Nat /\ k = (k - 1) + 1 /\ k - 1 \notin bad
    BY <2>1, <2>2
  <2> QED BY <1>2, <2>2, <2>3
<1>4. Some(n)
  BY <1>3
<1> QED BY <1>4 DEF Some

LEMMA SolvesAgree ==
  ASSUME NEW S, NEW T, NEW stop, NEW base, NEW next, NEW with, NEW size,
         Terms(S, T, stop, base, next, with, size),
         NEW m \in Nat, NEW F, Solves(F, S, T, stop, base, next, with, size, m),
         NEW n \in Nat, NEW G, Solves(G, S, T, stop, base, next, with, size, n),
         NEW x \in Below(S, size, m) \cap Below(S, size, n)
  PROVE  F[x] = G[x]
<1> DEFINE both == Below(S, size, m) \cap Below(S, size, n)
           bad == {k \in Nat : \E y \in both : size[y] = k /\ F[y] # G[y]}
<1>1. \A y \in S : (~stop[y] => next[y] \in S) /\ size[y] \in Nat
  BY DEF Terms
<1>2. \A y \in both : y \in S /\ size[y] \in Nat /\ size[y] < m /\ size[y] < n
  BY <1>1 DEF Below
<1>3. bad = {}
  <2> SUFFICES ASSUME bad # {} PROVE FALSE
    OBVIOUS
  <2>1. PICK k \in bad : \A j \in bad : k <= j
    BY Least
  <2>2. PICK y \in both : size[y] = k /\ F[y] # G[y]
    BY <2>1
  <2>3. /\ F[y] = Term(F, y, stop, base, next, with)
        /\ G[y] = Term(G, y, stop, base, next, with)
    BY <2>2 DEF Solves
  <2>4. ~stop[y] /\ F[next[y]] # G[next[y]]
    BY <2>2, <2>3 DEF Term
  <2>5. next[y] \in S /\ size[next[y]] \in Nat /\ size[next[y]] < size[y] /\ size[y] \in Nat
    BY <1>1, <1>2, <2>2, <2>4 DEF Terms
  <2>6. next[y] \in both
    BY <1>2, <2>2, <2>5 DEF Below
  <2>7. size[next[y]] \in bad
    BY <2>4, <2>5, <2>6
  <2> QED BY <2>1, <2>2, <2>5, <2>7
<1> QED BY <1>2, <1>3

\* The recursion has a solution.
LEMMA RecursionEnds ==
  ASSUME NEW S, NEW T, NEW stop, NEW base, NEW next, NEW with, NEW size,
         Terms(S, T, stop, base, next, with, size)
  PROVE  \E F : F = [x \in S |-> Term(F, x, stop, base, next, with)]
<1> DEFINE Is(f, n) == Solves(f, S, T, stop, base, next, with, size, n)
           At(n) == CHOOSE f : Is(f, n)
           F == [x \in S |-> At(size[x] + 1)[x]]
<1>1. \A x \in S : (~stop[x] => next[x] \in S) /\ size[x] \in Nat /\ size[x] + 1 \in Nat
  BY DEF Terms
<1>2. \A n \in Nat : Is(At(n), n)
  BY SolvesAll
<1> HIDE DEF At
<1>3. ASSUME NEW x \in S PROVE F[x] = Term(F, x, stop, base, next, with)
  <2>1. PICK f : f = At(size[x] + 1)
    OBVIOUS
  <2>2. Is(f, size[x] + 1)
    BY <1>1, <1>2, <2>1
  <2>3. F[x] = f[x] /\ f[x] = Term(f, x, stop, base, next, with)
    <3>1. x \in Below(S, size, size[x] + 1)
      BY <1>1 DEF Below
    <3> QED BY <2>1, <2>2, <3>1 DEF Solves
  <2>4. CASE stop[x]
    BY <2>3, <2>4 DEF Term
  <2>5. CASE ~stop[x]
    <3>1. PICK y \in S : y = next[x]
      BY <1>1, <2>5
    <3>2. size[y] \in Nat /\ size[x] \in Nat /\ size[y] < size[x]
      BY <1>1, <2>5, <3>1 DEF Terms
    <3>3. PICK g : g = At(size[y] + 1)
      OBVIOUS
    <3>4. Is(g, size[y] + 1)
      BY <1>1, <1>2, <3>3
    <3>5. y \in Below(S, size, size[x] + 1) \cap Below(S, size, size[y] + 1)
      BY <3>2 DEF Below
    <3>6. f[y] = g[y]
      BY <1>1, <2>2, <3>4, <3>5, SolvesAgree
    <3>7. F[y] = g[y]
      BY <3>3
    <3> QED BY <2>3, <2>5, <3>1, <3>6, <3>7 DEF Term
  <2> QED BY <2>4, <2>5
<1>4. F = [x \in S |-> Term(F, x, stop, base, next, with)]
  BY <1>3
<1> QED BY <1>4

\* And every solution stays in T.
LEMMA RecursionTyped ==
  ASSUME NEW S, NEW T, NEW stop, NEW base, NEW next, NEW with, NEW size,
         Terms(S, T, stop, base, next, with, size),
         NEW F, F = [x \in S |-> Term(F, x, stop, base, next, with)]
  PROVE  F \in [S -> T]
<1> DEFINE bad == {k \in Nat : \E y \in S : size[y] = k /\ F[y] \notin T}
<1>1. \A y \in S : size[y] \in Nat /\ F[y] = Term(F, y, stop, base, next, with)
  BY DEF Terms
<1>2. bad = {}
  <2> SUFFICES ASSUME bad # {} PROVE FALSE
    OBVIOUS
  <2>1. PICK k \in bad : \A j \in bad : k <= j
    BY Least
  <2>2. PICK y \in S : size[y] = k /\ F[y] \notin T
    BY <2>1
  <2>3. ~stop[y]
    BY <1>1, <2>2 DEF Term, Terms
  <2>4. F[y] = with[<<y, F[next[y]]>>]
    BY <1>1, <2>3 DEF Term
  <2>5. next[y] \in S /\ F[next[y]] \notin T
    BY <2>2, <2>3, <2>4 DEF Terms
  <2>6. size[next[y]] \in Nat /\ size[next[y]] < size[y] /\ size[next[y]] \in bad
    BY <1>1, <2>3, <2>5 DEF Terms
  <2> QED BY <1>1, <2>1, <2>2, <2>6
<1> QED BY <1>1, <1>2

-----------------------------------------------------------------------------
(* Texts.                                                                  *)

LEMMA UptoIs ==
  ASSUME NEW r \in Texts, NEW n \in 0 .. Len(r)
  PROVE  /\ Upto(r, n) \in Texts /\ Len(Upto(r, n)) = n
         /\ \A i \in 1 .. n : Upto(r, n)[i] = r[i]
<1>1. \A i \in 1 .. n : r[i] \in Pieces
  BY DEF Texts
<1> QED BY <1>1, SubSeqProperties DEF Upto, Texts

LEMMA SameText ==
  ASSUME NEW s \in Texts, NEW t \in Texts, Len(s) = Len(t),
         \A i \in 1 .. Len(s) : s[i] = t[i]
  PROVE  s = t
BY DEF Texts

\* Two texts, one after the other.
LEMMA TwoTexts ==
  ASSUME NEW s \in Texts, NEW t \in Texts
  PROVE  /\ s \o t \in Texts /\ Len(s \o t) = Len(s) + Len(t)
         /\ \A i \in 1 .. Len(s) : (s \o t)[i] = s[i]
         /\ \A i \in Len(s) + 1 .. Len(s) + Len(t) : (s \o t)[i] = t[i - Len(s)]
BY DEF Texts

-----------------------------------------------------------------------------
(* Loops and searches.                                                     *)

\* A loop whose steps get smaller ends, in a state that no step changes any more.
LEMMA DrainedEnds ==
  ASSUME NEW S, NEW step \in [S -> S], NEW size \in [S -> Nat],
         \A x \in S : step[x] # x => size[step[x]] < size[x],
         NEW x \in S
  PROVE  /\ Drained(step, x) \in S /\ step[Drained(step, x)] = Drained(step, x)
         /\ step[x] = x => Drained(step, x) = x
         /\ Drained(step, x) = Drained(step, step[x])
<1> DEFINE T == {y \in S : step[y] = y}
           stop == [y \in S |-> step[y] = y]
           base == [y \in S |-> y]
           with(V) == [pair \in S \X V |-> pair[2]]
           Drains(F) == F = [y \in S |-> IF step[y] = y THEN y ELSE F[step[y]]]
           Drain == CHOOSE F : Drains(F)
<1>1. ASSUME NEW V, T \subseteq V PROVE Terms(S, T, stop, base, step, with(V), size)
  <2>1. \A y \in S, v \in V : with(V)[<<y, v>>] = v
    OBVIOUS
  <2> QED BY <1>1, <2>1 DEF Terms
<1>2. ASSUME NEW V, NEW F, \A y \in S : F[y] \in V
      PROVE  \A y \in S : Term(F, y, stop, base, step, with(V))
                            = IF step[y] = y THEN y ELSE F[step[y]]
  <2>1. \A y \in S : with(V)[<<y, F[step[y]]>>] = F[step[y]]
    BY <1>2
  <2> QED BY <2>1 DEF Term
<1> HIDE DEF with, stop, base
<1>3. \E F : Drains(F)
  <2>1. Terms(S, T, stop, base, step, with(T), size)
    BY <1>1
  <2>2. \E F : /\ F = [y \in S |-> Term(F, y, stop, base, step, with(T))]
               /\ F \in [S -> T]
    <3> HIDE DEF T
    <3> QED BY <2>1, RecursionEnds, RecursionTyped
  <2>3. PICK F : /\ F = [y \in S |-> Term(F, y, stop, base, step, with(T))]
                 /\ F \in [S -> T]
    BY <2>2
  <2>4. \A y \in S : F[y] = IF step[y] = y THEN y ELSE F[step[y]]
    <3>1. \A y \in S : F[y] \in T
      BY <2>3
    <3>2. \A y \in S : Term(F, y, stop, base, step, with(T))
                          = IF step[y] = y THEN y ELSE F[step[y]]
      BY <1>2, <3>1
    <3>3. ASSUME NEW y \in S PROVE F[y] = Term(F, y, stop, base, step, with(T))
      BY <2>3, Zenon
    <3> QED BY <3>2, <3>3, Zenon
  <2>5. Drains(F)
    BY <2>3, <2>4
  <2> QED BY <2>5
<1>4. Drains(Drain)
  BY <1>3
<1> HIDE DEF Drain
<1>5. Drain \in [S -> T]
  <2> DEFINE V == T \cup {Drain[y] : y \in S}
  <2>1. Drain = [y \in S |-> Term(Drain, y, stop, base, step, with(V))]
    BY <1>2, <1>4
  <2>2. Terms(S, T, stop, base, step, with(V), size)
    BY <1>1
  <2> HIDE DEF V
  <2> QED BY <2>1, <2>2, RecursionTyped
<1>6. \A y \in S : Drained(step, y) = Drain[y]
  BY Zenon DEF Drained, Drain
<1>7. Drain[x] = IF step[x] = x THEN x ELSE Drain[step[x]]
  BY <1>4
<1> QED BY <1>5, <1>6, <1>7

\* What a search may find in t: a hit leaves less than t to be searched.
Hits(t) == {hit \in [found : BOOLEAN, before : Texts, rest : Texts] :
              hit.found => Len(hit.rest) < Len(t)}

\* Replacing hit after hit ends, and leaves a text.
LEMMA SubTyped ==
  ASSUME NEW search, \A t \in Texts : search[t] \in Hits(t), NEW s \in Texts
  PROVE  /\ Sub(search, s) \in Texts
         /\ search[s].found => Sub(search, s) = search[s].before \o Sub(search, search[s].rest)
         /\ ~search[s].found => Sub(search, s) = search[s].before
<1> DEFINE stop == [t \in Texts |-> ~search[t].found]
           base == [t \in Texts |-> search[t].before]
           next == [t \in Texts |-> search[t].rest]
           size == [t \in Texts |-> Len(t)]
           with(V) == [pair \in Texts \X V |-> search[pair[1]].before \o pair[2]]
           Searches(F) == F = [t \in Texts |-> IF search[t].found THEN search[t].before \o F[search[t].rest]
                                                                  ELSE search[t].before]
           Rest == CHOOSE F : Searches(F)
<1>1. ASSUME NEW V, Texts \subseteq V PROVE Terms(Texts, Texts, stop, base, next, with(V), size)
  <2>1. \A t \in Texts, v \in V : with(V)[<<t, v>>] = search[t].before \o v
    OBVIOUS
  <2>2. \A t \in Texts : /\ search[t].before \in Texts /\ search[t].rest \in Texts
                         /\ Len(t) \in Nat
                         /\ search[t].found => Len(search[t].rest) < Len(t)
    BY DEF Hits, Texts
  <2>3. \A t \in Texts, v \in Texts : with(V)[<<t, v>>] \in Texts
    BY <1>1, <2>1, <2>2, TwoTexts
  <2> QED BY <2>2, <2>3 DEF Terms
<1>2. ASSUME NEW V, NEW F, \A t \in Texts : F[t] \in V
      PROVE  \A t \in Texts : Term(F, t, stop, base, next, with(V))
                                = IF search[t].found THEN search[t].before \o F[search[t].rest]
                                                     ELSE search[t].before
  <2> SUFFICES ASSUME NEW t \in Texts
               PROVE  Term(F, t, stop, base, next, with(V))
                        = IF search[t].found THEN search[t].before \o F[search[t].rest]
                                             ELSE search[t].before
    OBVIOUS
  <2>1. search[t].rest \in Texts
    BY DEF Hits
  <2>2. with(V)[<<t, F[search[t].rest]>>] = search[t].before \o F[search[t].rest]
    BY <1>2, <2>1
  <2> QED BY <2>2 DEF Term
<1> HIDE DEF with, stop, base, next, size
<1>3. \E F : Searches(F)
  <2>1. Terms(Texts, Texts, stop, base, next, with(Texts), size)
    BY <1>1
  <2>2. \E F : /\ F = [t \in Texts |-> Term(F, t, stop, base, next, with(Texts))]
               /\ F \in [Texts -> Texts]
    BY <2>1, RecursionEnds, RecursionTyped
  <2>3. PICK F : /\ F = [t \in Texts |-> Term(F, t, stop, base, next, with(Texts))]
                 /\ F \in [Texts -> Texts]
    BY <2>2
  <2>4. \A t \in Texts : F[t] = IF search[t].found THEN search[t].before \o F[search[t].rest]
                                                   ELSE search[t].before
    <3>1. \A t \in Texts : F[t] \in Texts
      BY <2>3
    <3>2. \A t \in Texts : Term(F, t, stop, base, next, with(Texts))
                              = IF search[t].found THEN search[t].before \o F[search[t].rest]
                                                   ELSE search[t].before
      BY <1>2, <3>1
    <3>3. ASSUME NEW t \in Texts PROVE F[t] = Term(F, t, stop, base, next, with(Texts))
      BY <2>3, Zenon
    <3> QED BY <3>2, <3>3, Zenon
  <2>5. Searches(F)
    BY <2>3, <2>4
  <2> QED BY <2>5
<1>4. Searches(Rest)
  BY <1>3
<1> HIDE DEF Rest
<1>5. Rest \in [Texts -> Texts]
  <2> DEFINE V == Texts \cup {Rest[t] : t \in Texts}
  <2>1. Rest = [t \in Texts |-> Term(Rest, t, stop, base, next, with(V))]
    BY <1>2, <1>4
  <2>2. Terms(Texts, Texts, stop, base, next, with(V), size)
    BY <1>1
  <2> HIDE DEF V
  <2> QED BY <2>1, <2>2, RecursionTyped
<1>6. \A t \in Texts : Sub(search, t) = Rest[t]
  BY Zenon DEF Sub, Rest
<1>7. Rest[s] = IF search[s].found THEN search[s].before \o Rest[search[s].rest]
                                   ELSE search[s].before
  BY <1>4
<1>8. search[s].rest \in Texts
  BY DEF Hits
<1> QED BY <1>5, <1>6, <1>7, <1>8

-----------------------------------------------------------------------------
(* Hits.                                                                   *)

LEMMA FirstIs ==
  ASSUME NEW S \in SUBSET Nat, S # {}
  PROVE  First(S) \in S /\ \A j \in S : First(S) <= j
BY Least DEF First

LEMMA FromIs ==
  ASSUME NEW t \in Texts, NEW n \in 1 .. Len(t) + 1
  PROVE  From(t, n) \in Texts /\ Len(From(t, n)) = Len(t) - n + 1
<1>1. Len(t) \in Nat /\ n \in Int /\ \A i \in n .. Len(t) : t[i] \in Pieces
  BY DEF Texts
<1>2. /\ SubSeq(t, n, Len(t)) \in Seq(Pieces)
      /\ Len(SubSeq(t, n, Len(t))) = IF n <= Len(t) THEN Len(t) - n + 1 ELSE 0
  BY <1>1, SubSeqProperties
<1> QED BY <1>1, <1>2 DEF From, Texts

LEMMA Empty == <<>> \in Texts /\ Len(<<>>) = 0
BY DEF Texts

LEMMA NoHitIsHit == ASSUME NEW t \in Texts, NEW u \in Texts PROVE NoHit(u) \in Hits(t)
BY Empty DEF NoHit, Hits

LEMMA HitIsHit ==
  ASSUME NEW t \in Texts, NEW before \in Texts, NEW n \in 2 .. Len(t) + 1
  PROVE  Hit(before, From(t, n)) \in Hits(t)
<1>1. n \in 1 .. Len(t) + 1 /\ Len(t) \in Nat
  BY DEF Texts
<1>2. From(t, n) \in Texts /\ Len(From(t, n)) < Len(t)
  BY <1>1, FromIs
<1> QED BY <1>2 DEF Hit, Hits

LEMMA BlockHits ==
  ASSUME NEW opens, NEW close, Len(close) \in Nat,
         \A m \in opens : Len(m) \in Nat \ {0},
         NEW t \in Texts
  PROVE  BlockHit(opens, close, t) \in Hits(t)
<1> DEFINE hits == {h \in (1 .. Len(t)) \X Places(close, t) :
                      \E m \in opens : h[1] \in Places(m, t) /\ h[2] >= h[1] + Len(m)}
           starts == {h[1] : h \in hits}
           i == First(starts)
           ends == {h[2] : h \in {g \in hits : g[1] = i}}
           j == First(ends)
<1>0. Len(t) \in Nat
  BY DEF Texts
<1>1. CASE hits = {}
  <2>1. BlockHit(opens, close, t) = NoHit(t)
    BY <1>1 DEF BlockHit
  <2> QED BY <2>1, NoHitIsHit
<1>2. CASE hits # {}
  <2>1. \A h \in hits : /\ h[1] \in 1 .. Len(t)
                        /\ h[2] \in 1 .. Len(t) - Len(close) + 1 /\ h[2] > h[1]
    BY <1>0 DEF Places
  <2>2. starts \in SUBSET Nat /\ starts # {}
    BY <1>0, <1>2, <2>1
  <2>3. i \in starts
    BY <2>2, FirstIs
  <2> HIDE DEF i
  <2>4. ends \in SUBSET Nat /\ ends # {}
    BY <1>0, <2>1, <2>3
  <2>5. j \in ends
    BY <2>4, FirstIs
  <2> HIDE DEF j
  <2>6. i \in 1 .. Len(t) /\ j \in 1 .. Len(t) - Len(close) + 1 /\ j > i
    BY <2>1, <2>5
  <2>7. j + Len(close) \in 2 .. Len(t) + 1
    BY <1>0, <2>6
  <2>8. Upto(t, i - 1) \in Texts
    BY <1>0, <2>6, UptoIs
  <2>9. BlockHit(opens, close, t) = Hit(Upto(t, i - 1), From(t, j + Len(close)))
    BY <1>2 DEF BlockHit, i, j
  <2> QED BY <2>7, <2>8, <2>9, HitIsHit
<1> QED BY <1>1, <1>2

LEMMA FollowUpHits == ASSUME NEW t \in Texts PROVE FollowUpHit(t) \in Hits(t)
<1> DEFINE Ends(i) == Where(Angles, t) \cap (i .. Len(t))
           hits == {i \in Places(FollowUp, t) :
                      /\ Ends(i) # {} /\ t[First(Ends(i))] = "/>"
                      /\ t[i + 3] \in Blanks \cup Punctuation}
           i == First(hits)
           j == First(Ends(i))
<1>0. Len(t) \in Nat /\ Len(FollowUp) = 3
  BY DEF Texts, FollowUp
<1>1. CASE hits = {}
  <2>1. FollowUpHit(t) = NoHit(t)
    BY <1>1 DEF FollowUpHit
  <2> QED BY <2>1, NoHitIsHit
<1>2. CASE hits # {}
  <2>1. \A h \in hits : h \in 1 .. Len(t) /\ Ends(h) # {}
    BY <1>0 DEF Places
  <2>2. i \in hits
    <3> HIDE DEF hits
    <3>1. hits \in SUBSET Nat
      BY <1>0, <2>1
    <3> QED BY <1>2, <3>1, FirstIs
  <2> HIDE DEF i
  <2>3. i \in 1 .. Len(t) /\ Ends(i) # {}
    BY <2>1, <2>2
  <2>4. j \in Ends(i)
    <3>1. Ends(i) \in SUBSET Nat
      BY <1>0, <2>3
    <3> HIDE DEF Ends
    <3> QED BY <2>3, <3>1, FirstIs
  <2> HIDE DEF j
  <2>5. j + 1 \in 2 .. Len(t) + 1 /\ i - 1 \in 0 .. Len(t)
    BY <1>0, <2>3, <2>4
  <2>6. FollowUpHit(t) = Hit(Upto(t, i - 1), From(t, j + 1))
    BY <1>2 DEF FollowUpHit, i, j
  <2> QED BY <2>5, <2>6, UptoIs, HitIsHit
<1> QED BY <1>1, <1>2

LEMMA WidgetHits == ASSUME NEW t \in Texts PROVE WidgetHit(t) \in Hits(t)
<1> DEFINE Closes(i) == {j \in Places(WidgetClose, t) : j >= i + Len(WidgetOpen)}
           hits == {i \in Places(WidgetOpen, t) :
                      Closes(i) # {} /\ t[i + 3] \in Blanks \cup Punctuation}
           i == First(hits)
           j == First(Closes(i))
<1>0. Len(t) \in Nat /\ Len(WidgetOpen) = 3 /\ Len(WidgetClose) = 3
  BY DEF Texts, WidgetOpen, WidgetClose
<1>1. CASE hits = {}
  <2>1. WidgetHit(t) = NoHit(t)
    BY <1>1 DEF WidgetHit
  <2> QED BY <2>1, NoHitIsHit
<1>2. CASE hits # {}
  <2>1. \A h \in hits : h \in 1 .. Len(t) - 2 /\ Closes(h) # {}
    BY <1>0 DEF Places
  <2>2. i \in hits
    <3> HIDE DEF hits
    <3>1. hits \in SUBSET Nat
      BY <1>0, <2>1
    <3> QED BY <1>2, <3>1, FirstIs
  <2> HIDE DEF i
  <2>3. i \in 1 .. Len(t) /\ Closes(i) # {} /\ Closes(i) \in SUBSET (1 .. Len(t) - 2)
    BY <1>0, <2>1, <2>2 DEF Places
  <2>4. j \in Closes(i)
    <3>1. Closes(i) \in SUBSET Nat
      BY <1>0, <2>3
    <3> HIDE DEF Closes
    <3> QED BY <2>3, <3>1, FirstIs
  <2> HIDE DEF j
  <2>5. j + Len(WidgetClose) \in 2 .. Len(t) + 1 /\ i - 1 \in 0 .. Len(t)
    BY <1>0, <2>3, <2>4
  <2>6. Upto(t, i - 1) \o Placeholder \in Texts
    BY <2>5, UptoIs, TwoTexts, PiecesAssumption
  <2>7. WidgetHit(t) = Hit(Upto(t, i - 1) \o Placeholder, From(t, j + Len(WidgetClose)))
    BY <1>2 DEF WidgetHit, i, j
  <2> QED BY <2>5, <2>6, <2>7, HitIsHit
<1> QED BY <1>1, <1>2

LEMMA TagHits == ASSUME NEW t \in Texts PROVE TagHit(t) \in Hits(t)
<1> DEFINE starts == {i \in Places(TagStart, t) :
                        i + 2 <= Len(t) /\ t[i + 2] \notin Blanks \cup Punctuation}
           i == First(starts)
           body == From(t, i + 3)
           text == IF body # <<>> /\ body[1] = "\n" THEN Tail(body) ELSE body
           ends == Places(TagEnd, text)
           j == First(ends)
           Kept(u) == Upto(t, i - 1) \o (IF t[i + 2] = "tool" THEN <<>> ELSE u)
<1>0. Len(t) \in Nat /\ Len(TagStart) = 2 /\ Len(TagEnd) = 2
  BY DEF Texts, TagStart, TagEnd
<1>1. CASE starts = {}
  <2>1. TagHit(t) = NoHit(t)
    BY <1>1 DEF TagHit
  <2> QED BY <2>1, NoHitIsHit
<1>2. CASE starts # {}
  <2>1. \A h \in starts : h \in 1 .. Len(t) - 2
    BY <1>0 DEF Places
  <2>2. i \in starts
    <3> HIDE DEF starts
    <3>1. starts \in SUBSET Nat
      BY <1>0, <2>1
    <3> QED BY <1>2, <3>1, FirstIs
  <2>3. i \in 1 .. Len(t) - 2
    BY <2>1, <2>2
  <2> HIDE DEF i
  <2>4. body \in Texts /\ Len(body) < Len(t)
    BY <1>0, <2>3, FromIs
  <2> HIDE DEF body
  <2>5. text \in Texts /\ Len(text) < Len(t)
    <3>1. body # <<>> => Tail(body) \in Texts /\ Len(Tail(body)) < Len(t)
      BY <1>0, <2>4 DEF Texts
    <3> QED BY <2>4, <3>1
  <2> HIDE DEF text
  <2>6. Len(text) \in Nat
    BY <2>5 DEF Texts
  <2>7. ASSUME NEW u \in Texts PROVE Kept(u) \in Texts
    <3>1. Upto(t, i - 1) \in Texts
      BY <1>0, <2>3, UptoIs
    <3> QED BY <3>1, Empty, TwoTexts
  <2> HIDE DEF Kept
  <2>8. CASE ends = {}
    <3>1. TagHit(t) = NoHit(Kept(text))
      BY <1>2, <2>8 DEF TagHit, i, body, text, Kept
    <3> QED BY <2>5, <2>7, <3>1, NoHitIsHit
  <2>9. CASE ends # {}
    <3>1. ends \in SUBSET (1 .. Len(text) - 1)
      BY <1>0, <2>6 DEF Places
    <3>2. j \in 1 .. Len(text) - 1
      BY <2>6, <2>9, <3>1, FirstIs
    <3>3. TagHit(t) = Hit(Kept(Upto(text, j - 1)), From(text, j + 2))
      BY <1>2, <2>9 DEF TagHit, i, body, text, Kept
    <3> HIDE DEF j
    <3>4. j - 1 \in 0 .. Len(text) /\ j + 2 \in 1 .. Len(text) + 1
      BY <2>6, <3>2
    <3>5. From(text, j + 2) \in Texts /\ Len(From(text, j + 2)) < Len(t)
      <4>1. From(text, j + 2) \in Texts /\ Len(From(text, j + 2)) = Len(text) - (j + 2) + 1
        BY <2>5, <3>4, FromIs
      <4> QED BY <1>0, <2>5, <2>6, <3>2, <4>1
    <3>6. Kept(Upto(text, j - 1)) \in Texts
      BY <2>5, <2>7, <3>4, UptoIs
    <3> QED BY <3>3, <3>5, <3>6 DEF Hit, Hits
  <2> QED BY <2>8, <2>9
<1> QED BY <1>1, <1>2

-----------------------------------------------------------------------------
(* The whole reply.                                                        *)

LEMMA FirstBlanks ==
  ASSUME NEW s \in Texts
  PROVE  LStrip(s) \in Texts /\ (LStrip(s) = s \/ Len(LStrip(s)) < Len(s))
<1> DEFINE text == DOMAIN s \ Where(Blanks, s)
           i == First(text)
<1>0. Len(s) \in Nat /\ DOMAIN s = 1 .. Len(s)
  BY DEF Texts
<1>1. CASE text = {}
  <2>1. LStrip(s) = <<>>
    BY <1>1 DEF LStrip
  <2>2. s = <<>> \/ Len(s) > 0
    BY <1>0, EmptySeq DEF Texts
  <2> QED BY <2>1, <2>2, Empty
<1>2. CASE text # {}
  <2>1. text \in SUBSET (1 .. Len(s))
    BY <1>0
  <2>2. LStrip(s) = From(s, i)
    BY <1>2 DEF LStrip
  <2> HIDE DEF text
  <2>3. i \in 1 .. Len(s)
    <3>1. text \in SUBSET Nat
      BY <1>0, <2>1
    <3> QED BY <1>2, <2>1, <3>1, FirstIs
  <2> HIDE DEF i
  <2>4. From(s, i) \in Texts /\ Len(From(s, i)) = Len(s) - i + 1
    BY <1>0, <2>3, FromIs
  <2>5. i = 1 => From(s, i) = s
    BY <1>0 DEF From, Texts
  <2> QED BY <1>0, <2>2, <2>3, <2>4, <2>5
<1> QED BY <1>1, <1>2

LEMMA MarkerLengths ==
  /\ \A m \in Starts \cup Exits : Len(m) \in {2, 3}
  /\ Len(CallEnd) = 3 /\ Len(ToolEnd) = 3
BY DEF Starts, Exits, CallStart, CallEnd, ToolStart, ToolEnd, TagStart, TagEnd

\* What is left of a text when all its hits are replaced is a text.
LEMMA Dropped ==
  ASSUME NEW s \in Texts
  PROVE  DropFollowUps(s) \in Texts /\ DropWidgets(s) \in Texts /\ DropTags(s) \in Texts
<1>1. \A t \in Texts : /\ FollowUpHit(t) \in Hits(t)
                       /\ WidgetHit(t) \in Hits(t)
                       /\ TagHit(t) \in Hits(t)
  BY FollowUpHits, WidgetHits, TagHits
<1>2. DropFollowUps(s) \in Texts
  BY <1>1, SubTyped DEF DropFollowUps
<1>3. DropWidgets(s) \in Texts
  BY <1>1, SubTyped DEF DropWidgets
<1>4. DropTags(s) \in Texts
  BY <1>1, SubTyped DEF DropTags
<1> QED BY <1>2, <1>3, <1>4

LEMMA Cuts ==
  ASSUME NEW opens \in SUBSET (Starts \cup Exits), NEW close \in {<<>>, CallEnd, ToolEnd},
         NEW s \in Texts
  PROVE  Cut(opens, close, s) \in Texts
<1>1. Len(close) \in Nat /\ \A m \in opens : Len(m) \in Nat \ {0}
  BY MarkerLengths, Empty
<1>2. \A t \in Texts : BlockHit(opens, close, t) \in Hits(t)
  BY <1>1, BlockHits
<1> QED BY <1>2, SubTyped DEF Cut

LEMMA Stripped == ASSUME NEW s \in Texts PROVE StripSystemHints(s) \in Texts
<1>1. DropControls(DropTags(s)) \in Texts
  BY Dropped, Cuts DEF DropControls, Starts, Exits
<1>2. Cut({ToolStart}, ToolEnd, DropControls(DropTags(s))) \in Texts
  BY <1>1, Cuts DEF Starts
<1> QED BY <1>2, Cuts DEF StripSystemHints, Starts

\* process_llm_output ends on every reply, and what is visible of it is a text.
THEOREM WholeReplyEnds == \A s \in Texts : Visible(s) \in Texts
BY Dropped, Stripped DEF Visible

-----------------------------------------------------------------------------
(* The first stage of the stream.                                          *)

\* What shrinks: the buffer, or a state left that only waits for text.
Waits(f) == IF State(f) = "post" THEN 1 ELSE 0
Size(f) == 2 * Len(f.buffer) + Waits(f)

LEMMA FilterParts ==
  ASSUME NEW f \in Filters
  PROVE  /\ f.buffer \in Texts /\ Len(f.buffer) \in Nat /\ f.out \in Texts /\ f.stack \in Stacks
         /\ f.role \in Pieces \cup {""}
         /\ f.widget \in Texts /\ f.inWidget \in BOOLEAN /\ f.followUp \in Texts
         /\ Waits(f) \in {0, 1} /\ Size(f) \in Nat
<1>1. f.buffer \in Texts
  BY DEF Filters
<1>2. Len(f.buffer) \in Nat
  BY <1>1 DEF Texts
<1>3. Waits(f) \in {0, 1}
  BY DEF Waits
<1>4. Size(f) \in Nat
  BY <1>2, <1>3 DEF Size
<1>5. /\ f.out \in Texts /\ f.stack \in Stacks /\ f.role \in Pieces \cup {""}
      /\ f.widget \in Texts /\ f.inWidget \in BOOLEAN /\ f.followUp \in Texts
  BY DEF Filters
<1> QED BY <1>1, <1>2, <1>3, <1>4, <1>5

LEMMA Shorter ==
  ASSUME NEW f \in Filters, NEW g \in Filters, Len(g.buffer) < Len(f.buffer)
  PROVE  Size(g) < Size(f)
<1>1. Len(f.buffer) \in Nat /\ Len(g.buffer) \in Nat /\ Waits(f) \in {0, 1} /\ Waits(g) \in {0, 1}
  BY FilterParts
<1> QED BY <1>1 DEF Size

LEMMA StackParts ==
  ASSUME NEW stack \in Stacks
  PROVE  /\ Len(stack) \in Nat \ {0}
         /\ \A v \in {"normal", "block", "header", "tag", "post"} :
              /\ [stack EXCEPT ![Len(stack)] = v] \in Stacks
              /\ Len([stack EXCEPT ![Len(stack)] = v]) = Len(stack)
              /\ [stack EXCEPT ![Len(stack)] = v][Len(stack)] = v
              /\ Append(stack, v) \in Stacks
         /\ Len(stack) > 1 => Upto(stack, Len(stack) - 1) \in Stacks
         /\ <<"normal">> \in Stacks
<1> DEFINE States == {"normal", "block", "header", "tag", "post"}
<1>0. stack \in Seq(States) /\ stack # <<>> /\ Stacks = Seq(States) \ {<<>>}
  BY DEF Stacks
<1> HIDE DEF States
<1>1. Len(stack) \in Nat \ {0}
  BY <1>0, EmptySeq
<1>2. ASSUME NEW v \in States
      PROVE  /\ [stack EXCEPT ![Len(stack)] = v] \in Seq(States)
             /\ Len([stack EXCEPT ![Len(stack)] = v]) = Len(stack)
             /\ [stack EXCEPT ![Len(stack)] = v][Len(stack)] = v
             /\ Append(stack, v) \in Seq(States) /\ Len(Append(stack, v)) = Len(stack) + 1
  BY <1>0, <1>1, ExceptSeq
<1>3. \A s \in Seq(States) : Len(s) > 0 => s \in Stacks
  BY <1>0, EmptySeq
<1>4. ASSUME Len(stack) > 1 PROVE Upto(stack, Len(stack) - 1) \in Stacks
  <2>1. \A i \in 1 .. Len(stack) - 1 : stack[i] \in States
    BY <1>0, <1>1
  <2>2. /\ SubSeq(stack, 1, Len(stack) - 1) \in Seq(States)
        /\ Len(SubSeq(stack, 1, Len(stack) - 1)) = IF 1 <= Len(stack) - 1 THEN Len(stack) - 1 - 1 + 1 ELSE 0
    BY <1>1, <2>1, SubSeqProperties
  <2>3. Len(stack) - 1 > 0 /\ Len(stack) - 1 - 1 + 1 > 0
    BY <1>1, <1>4
  <2>4. Len(SubSeq(stack, 1, Len(stack) - 1)) > 0
    BY <1>1, <2>2, <2>3
  <2> QED BY <1>3, <2>2, <2>4 DEF Upto
<1>5. <<"normal">> \in Stacks
  <2>1. <<"normal">> \in Seq(States) /\ Len(<<"normal">>) = 1
    BY DEF States
  <2> QED BY <1>3, <2>1
<1>6. ASSUME NEW v \in States
      PROVE  /\ [stack EXCEPT ![Len(stack)] = v] \in Stacks
             /\ Append(stack, v) \in Stacks
  <2>1. PICK s : s = [stack EXCEPT ![Len(stack)] = v]
    OBVIOUS
  <2>2. PICK t : t = Append(stack, v)
    OBVIOUS
  <2>3. s \in Seq(States) /\ Len(s) > 0 /\ t \in Seq(States) /\ Len(t) > 0
    BY <1>1, <1>2, <2>1, <2>2
  <2> QED BY <1>3, <2>1, <2>2, <2>3
<1> QED BY <1>1, <1>2, <1>4, <1>5, <1>6 DEF States

LEMMA GotoIs ==
  ASSUME NEW f \in Filters, NEW v \in {"normal", "block", "header", "tag", "post"},
         NEW stack, stack = Goto(f, v)
  PROVE  stack \in Stacks /\ stack[Len(stack)] = v
<1>1. PICK old \in Stacks : old = f.stack
  BY FilterParts
<1>2. /\ [old EXCEPT ![Len(old)] = v] \in Stacks
      /\ Len([old EXCEPT ![Len(old)] = v]) = Len(old)
      /\ [old EXCEPT ![Len(old)] = v][Len(old)] = v
  BY StackParts
<1>3. stack = [old EXCEPT ![Len(old)] = v]
  BY <1>1 DEF Goto
<1> QED BY <1>2, <1>3, Zenon

LEMMA TailIs ==
  ASSUME NEW s \in Texts
  PROVE  TailAt(s) \in 1 .. Len(s) + 1
<1> DEFINE open == {i \in Where({"["}, s) : \A j \in Where({"]"}, s) : j < i}
           last == IF s # <<>> /\ s[Len(s)] = "<" THEN {Len(s)} ELSE {}
           none == {i \in Places(<<"<", ">">>, s) : i = Len(s) - 1}
           all == open \cup last \cup none
<1>0. Len(s) \in Nat /\ DOMAIN s = 1 .. Len(s) /\ (s # <<>> => Len(s) > 0)
  BY EmptySeq DEF Texts
<1>1. open \subseteq 1 .. Len(s) /\ last \subseteq 1 .. Len(s)
  BY <1>0 DEF Where
<1>2. none \subseteq 1 .. Len(s)
  <2>1. Len(<<"<", ">">>) = 2
    OBVIOUS
  <2> QED BY <1>0, <2>1 DEF Places
<1>3. all \in SUBSET Nat /\ all \subseteq 1 .. Len(s)
  BY <1>0, <1>1, <1>2
<1>4. TailAt(s) = IF all = {} THEN Len(s) + 1 ELSE First(all)
  BY DEF TailAt
<1> HIDE DEF all
<1>5. CASE all = {}
  BY <1>0, <1>4, <1>5
<1>6. CASE all # {}
  <2>1. First(all) \in 1 .. Len(s)
    BY <1>3, <1>6, FirstIs
  <2> QED BY <1>0, <1>4, <1>6, <2>1
<1> QED BY <1>5, <1>6

LEMMA Emitted == ASSUME NEW f \in Filters, NEW s \in Texts PROVE Emit(f, s) \in Texts
BY FilterParts, TwoTexts DEF Emit

\* A step gives a state that is smaller, or the same one.
Advances(f, g) == g \in Filters /\ (g # f => Size(g) < Size(f))

LEMMA HeaderAdvances == ASSUME NEW f \in Filters PROVE Advances(f, Header(f))
<1> DEFINE ends == Where({"\n"}, f.buffer)
           i == First(ends)
<1>0. f.buffer \in Texts /\ Len(f.buffer) \in Nat /\ DOMAIN f.buffer = 1 .. Len(f.buffer)
  <2>1. PICK s \in Texts : s = f.buffer
    BY FilterParts
  <2>2. Len(s) \in Nat /\ DOMAIN s = 1 .. Len(s)
    BY DEF Texts
  <2> QED BY <2>1, <2>2
<1>1. CASE ends = {}
  BY <1>1 DEF Header, Advances
<1>2. CASE ends # {}
  <2>1. i \in 1 .. Len(f.buffer)
    <3>1. ends \in SUBSET (1 .. Len(f.buffer)) /\ ends \in SUBSET Nat
      BY <1>0 DEF Where
    <3> HIDE DEF ends
    <3> QED BY <1>2, <3>1, FirstIs
  <2>2. PICK role : role = IF i = 1 THEN "" ELSE f.buffer[1]
    OBVIOUS
  <2>3. role \in Pieces \cup {""}
    <3>1. PICK s \in Texts : s = f.buffer
      BY <1>0
    <3>2. \A n \in 1 .. Len(s) : s[n] \in Pieces
      BY DEF Texts
    <3>3. 1 \in 1 .. Len(s)
      BY <1>0, <2>1, <3>1
    <3>4. s[1] \in Pieces
      BY <3>2, <3>3
    <3> QED BY <2>2, <3>1, <3>4
  <2>4. PICK buffer : buffer = From(f.buffer, i + 1)
    OBVIOUS
  <2>5. buffer \in Texts /\ Len(buffer) < Len(f.buffer)
    <3>1. i + 1 \in 1 .. Len(f.buffer) + 1
      BY <1>0, <2>1
    <3>2. Len(buffer) = Len(f.buffer) - (i + 1) + 1 /\ buffer \in Texts
      BY <1>0, <2>4, <3>1, FromIs
    <3> QED BY <1>0, <2>1, <3>2
  <2>6. PICK stack \in Stacks : stack = Goto(f, "tag")
    BY GotoIs
  <2>7. PICK g : g = [f EXCEPT !.role = role, !.buffer = buffer, !.stack = stack]
    OBVIOUS
  <2>8. g \in Filters /\ g.buffer = buffer
    BY <2>3, <2>5, <2>6, <2>7 DEF Filters
  <2>9. Header(f) = g
    BY <1>2, <2>2, <2>4, <2>6, <2>7 DEF Header
  <2> QED BY <2>5, <2>8, <2>9, Shorter DEF Advances
<1> QED BY <1>1, <1>2

LEMMA AfterBlockAdvances ==
  ASSUME NEW f \in Filters, State(f) = "post"
  PROVE  Advances(f, AfterBlock(f))
<1>1. CASE LStrip(f.buffer) = <<>>
  BY <1>1 DEF AfterBlock, Advances
<1>2. CASE LStrip(f.buffer) # <<>>
  <2>1. PICK buffer \in Texts : /\ buffer = LStrip(f.buffer)
                                /\ buffer = f.buffer \/ Len(buffer) < Len(f.buffer)
    BY FilterParts, FirstBlanks
  <2>2. f.stack \in Stacks
    BY FilterParts
  <2>3. PICK stack : stack = Goto(f, "normal")
    OBVIOUS
  <2>4. stack \in Stacks /\ stack[Len(stack)] = "normal"
    BY <2>3, GotoIs
  <2>5. PICK g : g = [f EXCEPT !.buffer = buffer, !.stack = stack]
    OBVIOUS
  <2>6. g \in Filters /\ g.buffer = buffer /\ g.stack = stack
    BY <2>1, <2>4, <2>5 DEF Filters
  <2>7. AfterBlock(f) = g
    BY <1>2, <2>1, <2>3, <2>5 DEF AfterBlock
  <2>8. Waits(g) = 0 /\ Waits(f) = 1
    BY <2>4, <2>6 DEF Waits, State
  <2>9. Len(g.buffer) \in Nat /\ Len(f.buffer) \in Nat
    BY <2>6, FilterParts
  <2>10. Len(g.buffer) <= Len(f.buffer)
    BY <2>1, <2>6, <2>9
  <2>11. Size(g) < Size(f)
    BY <2>8, <2>9, <2>10 DEF Size
  <2> QED BY <2>6, <2>7, <2>11 DEF Advances
<1> QED BY <1>1, <1>2

LEMMA TextAdvances == ASSUME NEW f \in Filters PROVE Advances(f, Text(f))
<1> DEFINE keep == TailAt(f.buffer)
<1>0. f.buffer \in Texts /\ Len(f.buffer) \in Nat /\ f.out \in Texts
  BY FilterParts
<1>1. keep \in 1 .. Len(f.buffer) + 1
  BY <1>0, TailIs
<1> HIDE DEF keep
<1>2. Upto(f.buffer, keep - 1) \in Texts
  BY <1>0, <1>1, UptoIs
<1>3. PICK out : out = Emit(f, Upto(f.buffer, keep - 1))
  OBVIOUS
<1>4. PICK buffer : buffer = From(f.buffer, keep)
  OBVIOUS
<1>5. out \in Texts /\ buffer \in Texts /\ Len(buffer) = Len(f.buffer) - keep + 1
  BY <1>0, <1>1, <1>2, <1>3, <1>4, Emitted, FromIs
<1>6. PICK g : g = [f EXCEPT !.out = out, !.buffer = buffer]
  OBVIOUS
<1>7. g \in Filters /\ g.buffer = buffer /\ g.out = out
  BY <1>5, <1>6 DEF Filters
<1>8. Text(f) = g
  BY <1>3, <1>4, <1>6 DEF Text, keep
<1>9. CASE keep = 1
  <2>1. buffer = f.buffer
    BY <1>0, <1>4, <1>9 DEF From, Texts
  <2>2. Upto(f.buffer, 0) = <<>>
    BY <1>0, SubSeqEmpty DEF Upto
  <2>3. out = f.out
    <3>1. PICK s \in Texts : s = f.out
      BY <1>0
    <3>2. s \o <<>> = s
      BY ConcatEmptySeq DEF Texts
    <3>3. Upto(f.buffer, keep - 1) = <<>>
      BY <1>9, <2>2
    <3> QED BY <1>3, <3>1, <3>2, <3>3 DEF Emit
  <2>4. g = f
    BY <1>6, <2>1, <2>3 DEF Filters
  <2> QED BY <1>7, <1>8, <2>4 DEF Advances
<1>10. CASE keep # 1
  <2>1. Len(g.buffer) < Len(f.buffer)
    BY <1>0, <1>1, <1>5, <1>7, <1>10
  <2> QED BY <1>7, <1>8, <2>1, Shorter DEF Advances
<1> QED BY <1>9, <1>10

LEMMA MarkerAdvances ==
  ASSUME NEW f \in Filters, NEW m \in Starts \cup Exits, NEW i \in Places(m, f.buffer)
  PROVE  Advances(f, Marker(f, i, m))
<1>0. f.buffer \in Texts /\ Len(f.buffer) \in Nat /\ f.stack \in Stacks /\ f.role \in Pieces \cup {""}
  BY FilterParts
<1>1. Len(m) \in {2, 3} /\ i \in 1 .. Len(f.buffer) - Len(m) + 1
  BY MarkerLengths DEF Places
<1>2. PICK n \in Nat, len \in Nat : len = Len(f.buffer) /\ n = Len(m) /\ n \in {2, 3} /\ i \in 1 .. len - n + 1
  BY <1>0, <1>1
<1>3. PICK stack : stack = IF m \in Starts THEN Enter(f, m) ELSE Leave(f, m)
  OBVIOUS
<1>4. stack \in Stacks
  <2>1. Enter(f, m) \in Stacks
    BY <1>0, StackParts DEF Enter
  <2>2. PICK s : s = IF Len(f.stack) > 1 THEN Upto(f.stack, Len(f.stack) - 1) ELSE <<"normal">>
    OBVIOUS
  <2>3. s \in Stacks
    BY <1>0, <2>2, StackParts
  <2>4. [s EXCEPT ![Len(s)] = "post"] \in Stacks
    BY <2>3, StackParts
  <2>5. Leave(f, m) \in Stacks
    BY <2>2, <2>3, <2>4 DEF Leave
  <2> QED BY <1>3, <2>1, <2>5
<1>5. PICK role : role = IF m \in Exits /\ stack[Len(stack)] \in {"normal", "post"} THEN "" ELSE f.role
  OBVIOUS
<1>6. PICK out : out = Emit(f, Upto(f.buffer, i - 1))
  OBVIOUS
<1>7. out \in Texts
  <2>1. i - 1 \in 0 .. Len(f.buffer)
    BY <1>2
  <2> QED BY <1>0, <1>6, <2>1, UptoIs, Emitted
<1>8. PICK buffer : buffer = From(f.buffer, i + Len(m))
  OBVIOUS
<1>9. buffer \in Texts /\ Len(buffer) < Len(f.buffer)
  <2>1. i + n \in 1 .. len + 1
    BY <1>2
  <2>2. buffer \in Texts /\ Len(buffer) = len - (i + n) + 1
    BY <1>0, <1>2, <1>8, <2>1, FromIs
  <2>3. len - (i + n) + 1 < len
    BY <1>2
  <2> QED BY <1>2, <2>2, <2>3
<1>10. PICK g : g = [f EXCEPT !.out = out, !.buffer = buffer, !.stack = stack, !.role = role]
  OBVIOUS
<1>11. g \in Filters /\ g.buffer = buffer
  <2>1. role \in Pieces \cup {""}
    BY <1>0, <1>5
  <2> QED BY <1>4, <1>7, <1>9, <1>10, <2>1 DEF Filters
<1>12. Marker(f, i, m) = g
  BY <1>3, <1>5, <1>6, <1>8, <1>10 DEF Marker
<1> QED BY <1>9, <1>11, <1>12, Shorter DEF Advances

LEMMA StepAdvances == ASSUME NEW f \in Filters PROVE Advances(f, Advance(f))
<1> DEFINE found == UNION {Places(m, f.buffer) \X {m} : m \in Starts \cup Exits}
           next == CHOOSE h \in found : \A g \in found : h[1] <= g[1]
<1>1. CASE State(f) = "header"
  <2>1. Advance(f) = Header(f)
    BY <1>1 DEF Advance
  <2> QED BY <2>1, HeaderAdvances
<1>2. CASE State(f) = "post"
  <2>1. Advance(f) = AfterBlock(f)
    BY <1>2 DEF Advance
  <2> QED BY <1>2, <2>1, AfterBlockAdvances
<1>3. CASE State(f) \notin {"header", "post"} /\ found # {}
  <2>1. \A h \in found : /\ h[2] \in Starts \cup Exits
                         /\ h[1] \in Places(h[2], f.buffer) /\ h[1] \in Nat
    <3>1. ASSUME NEW m \in Starts \cup Exits PROVE Places(m, f.buffer) \subseteq Nat
      <4>1. PICK len \in Nat, n \in Nat : len = Len(f.buffer) /\ n = Len(m)
        BY FilterParts, MarkerLengths
      <4>2. 1 .. len - n + 1 \subseteq Nat
        OBVIOUS
      <4> QED BY <4>1, <4>2 DEF Places
    <3> QED BY <3>1
  <2>2. \E h \in found : \A g \in found : h[1] <= g[1]
    <3> DEFINE places == {h[1] : h \in found}
    <3>1. places \in SUBSET Nat /\ places # {}
      BY <1>3, <2>1
    <3>2. PICK i \in places : \A j \in places : i <= j
      BY <3>1, Least
    <3>3. PICK h \in found : h[1] = i
      BY <3>2
    <3> QED BY <3>2, <3>3
  <2>3. next \in found
    BY <2>2
  <2>4. Advance(f) = Marker(f, next[1], next[2])
    BY <1>3 DEF Advance
  <2> HIDE DEF next, found
  <2> QED BY <2>1, <2>3, <2>4, MarkerAdvances
<1>4. CASE State(f) \notin {"header", "post"} /\ found = {}
  <2>1. Advance(f) = Text(f)
    BY <1>4 DEF Advance
  <2> QED BY <2>1, TextAdvances
<1> QED BY <1>1, <1>2, <1>3, <1>4

\* The loop of process ends, and in a state that has to wait for the next chunk.
LEMMA SuppressEnds ==
  ASSUME NEW f \in Filters
  PROVE  Suppress(f) \in Filters /\ Advance(Suppress(f)) = Suppress(f)
<1> DEFINE step == [g \in Filters |-> Advance(g)]
           size == [g \in Filters |-> Size(g)]
<1>1. step \in [Filters -> Filters] /\ size \in [Filters -> Nat]
  BY StepAdvances, FilterParts DEF Advances
<1>2. \A g \in Filters : step[g] # g => size[step[g]] < size[g]
  BY StepAdvances DEF Advances
<1>3. \A g \in Filters : step[g] = Advance(g)
  OBVIOUS
<1>4. Suppress(f) = Drained(step, f)
  BY DEF Suppress
<1> HIDE DEF step, size
<1>5. Drained(step, f) \in Filters /\ step[Drained(step, f)] = Drained(step, f)
  BY <1>1, <1>2, DrainedEnds
<1> QED BY <1>3, <1>4, <1>5

-----------------------------------------------------------------------------
(* The second and the third stage.                                         *)

LEMMA SuffixIs ==
  ASSUME NEW s \in Texts, NEW m
  PROVE  PartialSuffix(s, m) \in 1 .. Len(s) + 1
<1> DEFINE cuts == {i \in 1 .. Len(s) : /\ Len(s) - i + 1 < Len(m)
                                        /\ From(s, i) = Upto(m, Len(s) - i + 1)}
<1>0. Len(s) \in Nat
  BY DEF Texts
<1>1. cuts \in SUBSET Nat /\ cuts \subseteq 1 .. Len(s)
  BY <1>0
<1>2. PartialSuffix(s, m) = IF cuts = {} THEN Len(s) + 1 ELSE First(cuts)
  BY DEF PartialSuffix
<1> HIDE DEF cuts
<1>3. CASE cuts = {}
  BY <1>0, <1>2, <1>3
<1>4. CASE cuts # {}
  <2>1. First(cuts) \in 1 .. Len(s)
    BY <1>1, <1>4, FirstIs
  <2> QED BY <1>0, <1>2, <1>4, <2>1
<1> QED BY <1>3, <1>4

LEMMA PlacesIn ==
  ASSUME NEW t \in Texts, NEW m, Len(m) = 3, Places(m, t) # {}
  PROVE  /\ First(Places(m, t)) \in 1 .. Len(t)
         /\ First(Places(m, t)) + 3 \in 2 .. Len(t) + 1
<1> DEFINE S == Places(m, t)
<1>1. Len(t) \in Nat
  BY DEF Texts
<1>2. \A i \in S : i \in 1 .. Len(t) - 3 + 1
  BY DEF Places
<1>3. S \in SUBSET Nat
  BY <1>1, <1>2
<1> HIDE DEF S
<1>4. First(S) \in S
  BY <1>3, FirstIs DEF S
<1>5. PICK i : i = First(S)
  OBVIOUS
<1>6. i \in 1 .. Len(t) - 3 + 1
  BY <1>2, <1>4, <1>5
<1>7. i \in 1 .. Len(t) /\ i + 3 \in 2 .. Len(t) + 1
  BY <1>1, <1>6
<1> QED BY <1>5, <1>7 DEF S

\* A step leaves less of the text to look at, or is the last one.
Looks(w, v) == v \in WidgetTexts /\ (v # w => Len(v.text) < Len(w.text))

LEMMA WidgetParts ==
  ASSUME NEW w \in WidgetTexts
  PROVE  /\ w.text \in Texts /\ Len(w.text) \in Nat /\ w.out \in Texts /\ w.inside \in BOOLEAN
         /\ Len(WidgetOpen) = 3 /\ Len(WidgetClose) = 3
<1>1. w.text \in Texts /\ w.out \in Texts /\ w.inside \in BOOLEAN
  BY DEF WidgetTexts
<1>2. Len(w.text) \in Nat
  BY <1>1 DEF Texts
<1> QED BY <1>1, <1>2 DEF WidgetOpen, WidgetClose

\* Some of the text is looked at: what follows is the rest.
LEMMA LooksOn ==
  ASSUME NEW w \in WidgetTexts, NEW n \in 2 .. Len(w.text) + 1,
         NEW inside \in BOOLEAN, NEW out \in Texts,
         NEW v, v = [text |-> From(w.text, n), inside |-> inside, out |-> out]
  PROVE  Looks(w, v)
<1>1. w.text \in Texts /\ Len(w.text) \in Nat
  BY WidgetParts
<1>2. n \in 1 .. Len(w.text) + 1
  BY <1>1
<1>3. PICK text : text = From(w.text, n)
  OBVIOUS
<1>4. text \in Texts /\ Len(text) = Len(w.text) - n + 1
  BY <1>1, <1>2, <1>3, FromIs
<1>5. Len(text) < Len(w.text)
  BY <1>1, <1>4
<1>6. v \in WidgetTexts /\ v.text = text
  BY <1>3, <1>4 DEF WidgetTexts
<1> QED BY <1>5, <1>6 DEF Looks

\* Or what is withheld stays, and what stands before it goes where out says.
LEMMA LooksAt ==
  ASSUME NEW w \in WidgetTexts, NEW n \in 1 .. Len(w.text) + 1,
         NEW out \in Texts, n = 1 => out = w.out,
         NEW v, v = [text |-> From(w.text, n), inside |-> w.inside, out |-> out]
  PROVE  Looks(w, v)
<1>1. w.text \in Texts /\ Len(w.text) \in Nat /\ w.inside \in BOOLEAN /\ w.out \in Texts
  BY WidgetParts
<1>2. CASE n = 1
  <2>1. PICK text \in Texts : text = w.text
    BY <1>1
  <2>2. From(text, 1) = text
    BY DEF From, Texts
  <2>3. v = w
    BY <1>2, <2>1, <2>2 DEF WidgetTexts
  <2> QED BY <2>3 DEF Looks
<1>3. CASE n # 1
  <2>1. n \in 2 .. Len(w.text) + 1
    BY <1>1, <1>3
  <2> QED BY <1>1, <2>1, LooksOn
<1> QED BY <1>2, <1>3

LEMMA WidgetSame ==
  ASSUME NEW w \in WidgetTexts, NEW v \in WidgetTexts,
         w.text = v.text, w.inside = v.inside, w.out = v.out
  PROVE  w = v
BY DEF WidgetTexts

Rewrites(w, text, out) ==
  /\ [text |-> text, inside |-> w.inside, out |-> out] = [w EXCEPT !.out = out, !.text = text]
  /\ [text |-> text, inside |-> w.inside, out |-> w.out] = [w EXCEPT !.text = text]

LEMMA Rewritten ==
  ASSUME NEW w \in WidgetTexts, NEW text \in Texts, NEW out \in Texts
  PROVE  Rewrites(w, text, out)
<1>1. PICK inside \in BOOLEAN : inside = w.inside
  BY WidgetParts
<1>2. [text |-> text, inside |-> w.inside, out |-> out] = [w EXCEPT !.out = out, !.text = text]
  <2>1. PICK v : v = [text |-> text, inside |-> inside, out |-> out]
    OBVIOUS
  <2>2. PICK u : u = [w EXCEPT !.out = out, !.text = text]
    OBVIOUS
  <2>3. v \in WidgetTexts /\ v.inside = inside /\ v.out = out /\ v.text = text
    BY <2>1 DEF WidgetTexts
  <2>4. u \in WidgetTexts /\ u.inside = w.inside /\ u.out = out /\ u.text = text
    BY <2>2 DEF WidgetTexts
  <2>5. v = u
    BY <1>1, <2>3, <2>4, WidgetSame
  <2> QED BY <1>1, <2>1, <2>2, <2>5, Zenon
<1>3. [text |-> text, inside |-> w.inside, out |-> w.out] = [w EXCEPT !.text = text]
  <2>1. PICK v : v = [text |-> text, inside |-> inside, out |-> w.out]
    OBVIOUS
  <2>2. PICK u : u = [w EXCEPT !.text = text]
    OBVIOUS
  <2>3. v \in WidgetTexts /\ v.inside = inside /\ v.out = w.out /\ v.text = text
    BY <2>1 DEF WidgetTexts
  <2>4. u \in WidgetTexts /\ u.inside = w.inside /\ u.out = w.out /\ u.text = text
    BY <2>2 DEF WidgetTexts
  <2>5. v = u
    BY <1>1, <2>3, <2>4, WidgetSame
  <2> QED BY <1>1, <2>1, <2>2, <2>5, Zenon
<1> QED BY <1>2, <1>3, Zenon DEF Rewrites

LEMMA InWidgetLooks ==
  ASSUME NEW w \in WidgetTexts, w.inside
  PROVE  Looks(w, InWidget(w))
<1> DEFINE closes == Places(WidgetClose, w.text)
<1>0. /\ w.text \in Texts /\ Len(w.text) \in Nat /\ w.out \in Texts /\ w.inside \in BOOLEAN
      /\ Len(WidgetClose) = 3
  BY WidgetParts
<1>1. CASE closes = {}
  <2>1. PICK n : n = PartialSuffix(w.text, WidgetClose)
    OBVIOUS
  <2>2. n \in 1 .. Len(w.text) + 1
    BY <1>0, <2>1, SuffixIs
  <2>3. PICK text \in Texts : text = From(w.text, n)
    BY <1>0, <2>2, FromIs
  <2>4. PICK v : v = [text |-> From(w.text, n), inside |-> w.inside, out |-> w.out]
    OBVIOUS
  <2>5. Looks(w, v)
    BY <1>0, <2>2, <2>4, LooksAt
  <2>6. v = [w EXCEPT !.text = text]
    <3>1. text \in Texts /\ Rewrites(w, text, w.out)
      BY <1>0, Rewritten
    <3> QED BY <2>3, <2>4, <3>1 DEF Rewrites
  <2>7. InWidget(w) = v
    BY <1>1, <2>1, <2>3, <2>6 DEF InWidget
  <2> QED BY <2>5, <2>7
<1>2. CASE closes # {}
  <2>1. PICK n : n = First(closes) + 3
    OBVIOUS
  <2>2. n \in 2 .. Len(w.text) + 1
    BY <1>0, <1>2, <2>1, PlacesIn
  <2>3. w.out \o Placeholder \in Texts
    BY <1>0, PiecesAssumption, TwoTexts
  <2>4. InWidget(w) = [text |-> From(w.text, n), inside |-> FALSE, out |-> w.out \o Placeholder]
    BY <1>0, <1>2, <2>1 DEF InWidget
  <2> QED BY <2>2, <2>3, <2>4, LooksOn
<1> QED BY <1>1, <1>2

LEMMA OutOfWidgetLooks ==
  ASSUME NEW w \in WidgetTexts, ~w.inside
  PROVE  Looks(w, OutOfWidget(w))
<1> DEFINE opens == Places(WidgetOpen, w.text)
           i     == First(opens)
           after == i + 3
           cut   == PartialSuffix(w.text, WidgetOpen)
           Keeps(n) == [text |-> From(w.text, n), inside |-> w.inside,
                        out |-> w.out \o Upto(w.text, n - 1)]
<1>0. /\ w.text \in Texts /\ Len(w.text) \in Nat /\ w.out \in Texts /\ w.inside \in BOOLEAN
      /\ Len(WidgetOpen) = 3
  BY WidgetParts
<1>1. \A n \in 1 .. Len(w.text) + 1 : w.out \o Upto(w.text, n - 1) \in Texts
  BY <1>0, UptoIs, TwoTexts
<1>2. ASSUME NEW n \in 1 .. Len(w.text) + 1 PROVE Looks(w, Keeps(n))
  <2>1. n = 1 => w.out \o Upto(w.text, n - 1) = w.out
    <3>1. PICK s \in Texts : s = w.out
      BY <1>0
    <3>2. s \o <<>> = s
      BY ConcatEmptySeq DEF Texts
    <3>3. Upto(w.text, 0) = <<>>
      BY <1>0, SubSeqEmpty DEF Upto
    <3>4. w.out \o <<>> = w.out
      BY <3>1, <3>2
    <3>5. n = 1 => Upto(w.text, n - 1) = Upto(w.text, 0)
      OBVIOUS
    <3> QED BY <3>3, <3>4, <3>5
  <2> QED BY <1>1, <2>1, LooksAt
<1>3. ASSUME NEW n \in 1 .. Len(w.text) + 1
      PROVE  Keeps(n) = [w EXCEPT !.out = @ \o Upto(w.text, n - 1), !.text = From(@, n)]
  <2>1. PICK out \in Texts, text \in Texts : out = w.out \o Upto(w.text, n - 1) /\ text = From(w.text, n)
    BY <1>0, <1>1, FromIs
  <2>2. [text |-> text, inside |-> w.inside, out |-> out] = [w EXCEPT !.out = out, !.text = text]
    <3>1. Rewrites(w, text, out)
      BY Rewritten
    <3> QED BY <3>1 DEF Rewrites
  <2> QED BY <2>1, <2>2
<1> HIDE DEF Keeps
<1>4. CASE opens = {}
  <2>1. cut \in 1 .. Len(w.text) + 1
    BY <1>0, SuffixIs
  <2>2. OutOfWidget(w) = [w EXCEPT !.out = @ \o Upto(w.text, cut - 1), !.text = From(@, cut)]
    BY <1>4 DEF OutOfWidget
  <2> QED BY <1>2, <1>3, <2>1, <2>2
<1>5. CASE opens # {}
  <2>1. i \in 1 .. Len(w.text) /\ after \in 2 .. Len(w.text) + 1
    BY <1>0, <1>5, PlacesIn
  <2>2. i \in 1 .. Len(w.text) + 1 /\ after \in 1 .. Len(w.text) + 1
    BY <1>0, <2>1
  <2>3. CASE after > Len(w.text)
    <3>1. ~(after <= Len(w.text))
      BY <1>0, <2>1, <2>3
    <3>2. OutOfWidget(w) = [w EXCEPT !.out = @ \o Upto(w.text, i - 1), !.text = From(@, i)]
      BY <1>0, <1>5, <2>3, <3>1 DEF OutOfWidget
    <3> QED BY <1>2, <1>3, <2>2, <3>2
  <2>4. CASE after <= Len(w.text) /\ w.text[after] \notin Delimiters
    <3>1. ~(after > Len(w.text))
      BY <1>0, <2>1, <2>4
    <3>2. OutOfWidget(w) = [w EXCEPT !.out = @ \o Upto(w.text, after - 1), !.text = From(@, after)]
      BY <1>0, <1>5, <2>4, <3>1 DEF OutOfWidget
    <3> QED BY <1>2, <1>3, <2>2, <3>2
  <2>5. CASE after <= Len(w.text) /\ w.text[after] \in Delimiters
    <3>1. ~(after > Len(w.text))
      BY <1>0, <2>1, <2>5
    <3>2. OutOfWidget(w) = [text |-> From(w.text, after), inside |-> TRUE,
                            out |-> w.out \o Upto(w.text, i - 1)]
      BY <1>0, <1>5, <2>5, <3>1 DEF OutOfWidget
    <3> QED BY <1>1, <2>1, <2>2, <3>2, LooksOn
  <2> QED BY <1>0, <2>1, <2>3, <2>4, <2>5
<1> QED BY <1>4, <1>5

LEMMA FilterWidgetEnds ==
  ASSUME NEW w \in WidgetTexts
  PROVE  /\ FilterWidget(w) \in WidgetTexts
         /\ WidgetStep(FilterWidget(w)) = FilterWidget(w)
<1> DEFINE step == [v \in WidgetTexts |-> WidgetStep(v)]
           size == [v \in WidgetTexts |-> Len(v.text)]
<1>1. \A v \in WidgetTexts : Looks(v, WidgetStep(v))
  BY InWidgetLooks, OutOfWidgetLooks DEF WidgetStep
<1>2. step \in [WidgetTexts -> WidgetTexts]
  BY <1>1 DEF Looks
<1>3. size \in [WidgetTexts -> Nat]
  BY WidgetParts
<1>4. \A v \in WidgetTexts : step[v] # v => size[step[v]] < size[v]
  BY <1>1 DEF Looks
<1>5. \A v \in WidgetTexts : step[v] = WidgetStep(v)
  OBVIOUS
<1>6. FilterWidget(w) = Drained(step, w)
  BY DEF FilterWidget
<1> HIDE DEF step, size
<1>7. Drained(step, w) \in WidgetTexts /\ step[Drained(step, w)] = Drained(step, w)
  BY <1>2, <1>3, <1>4, DrainedEnds
<1> QED BY <1>5, <1>6, <1>7

\* The last of some places.
LEMMA LatestIs ==
  ASSUME NEW n \in Nat, NEW S \in SUBSET (0 .. n), S # {}
  PROVE  Latest(S) \in S /\ \A j \in S : j <= Latest(S)
<1> DEFINE back == {n - i : i \in S}
<1>1. back \in SUBSET Nat /\ back # {}
  <2>1. \A i \in S : n - i \in Nat
    OBVIOUS
  <2> QED BY <2>1
<1>2. PICK b \in back : \A a \in back : b <= a
  BY <1>1, Least
<1>3. PICK i \in S : b = n - i
  BY <1>2
<1>4. \A j \in S : n - i <= n - j
  BY <1>2, <1>3
<1>5. \E k \in S : \A j \in S : j <= k
  BY <1>4
<1> QED BY <1>5 DEF Latest

LEMMA HoldIs == ASSUME NEW s \in Texts PROVE HoldAt(s) \in 1 .. Len(s) + 1
<1> DEFINE angles == Where({"<"}, s)
<1>1. Len(s) \in Nat /\ DOMAIN s = 1 .. Len(s)
  BY DEF Texts
<1>2. angles \in SUBSET (1 .. Len(s))
  BY <1>1 DEF Where
<1>3. angles # {} => Latest(angles) \in 1 .. Len(s)
  <2>1. angles \in SUBSET (0 .. Len(s))
    BY <1>1, <1>2
  <2> HIDE DEF angles
  <2> QED BY <1>1, <1>2, <2>1, LatestIs
<1>4. HoldAt(s) = Len(s) + 1 \/ (angles # {} /\ HoldAt(s) = Latest(angles))
  BY DEF HoldAt
<1> QED BY <1>1, <1>3, <1>4

-----------------------------------------------------------------------------
(* A chunk through all stages.                                             *)

\* What a chunk finds and leaves: one of the loops' states, each come to its end.
LEMMA Processed ==
  ASSUME NEW f \in Filters, NEW chunk \in Texts
  PROVE  /\ Process(f, chunk) \in Filters
         /\ Process(f, chunk).out \in Texts
<1>1. PICK s \in Texts : s = f.buffer \o chunk
  BY FilterParts, TwoTexts
<1>2. PICK e \in Texts : e = <<>>
  BY Empty
<1>3. PICK h : h = [f EXCEPT !.buffer = s, !.out = e]
  OBVIOUS
<1>4. h \in Filters
  BY <1>3 DEF Filters
<1>5. PICK g \in Filters : g = Suppress(h)
  BY <1>4, SuppressEnds
<1>6. PICK v : v = [text |-> f.widget \o g.out, inside |-> f.inWidget, out |-> e]
  OBVIOUS
<1>7. v \in WidgetTexts
  <2>1. f.widget \o g.out \in Texts /\ f.inWidget \in BOOLEAN
    BY FilterParts, TwoTexts
  <2> QED BY <1>6, <2>1 DEF WidgetTexts
<1>8. PICK w \in WidgetTexts : w = FilterWidget(v)
  BY <1>7, FilterWidgetEnds
<1>9. PICK t \in Texts : t = DropFollowUps(f.followUp \o w.out)
  BY FilterParts, WidgetParts, TwoTexts, Dropped
<1>10. PICK n : n = HoldAt(t)
  OBVIOUS
<1>11. n \in 1 .. Len(t) + 1 /\ Len(t) \in Nat
  BY <1>10, HoldIs DEF Texts
<1>12. PICK held, out : held = From(t, n) /\ out = Upto(t, n - 1)
  OBVIOUS
<1>13. held \in Texts /\ out \in Texts
  BY <1>11, <1>12, FromIs, UptoIs
<1>14. PICK k : k = [g EXCEPT !.widget = w.text, !.inWidget = w.inside, !.followUp = held, !.out = out]
  OBVIOUS
<1>15. k \in Filters /\ k.out \in Texts
  <2>1. w.text \in Texts /\ w.inside \in BOOLEAN
    BY WidgetParts
  <2> QED BY <1>13, <1>14, <2>1 DEF Filters
<1>16. Process(f, chunk) = k
  BY <1>1, <1>2, <1>3, <1>5, <1>6, <1>8, <1>9, <1>10, <1>12, <1>14 DEF Process
<1> QED BY <1>15, <1>16

LEMMA Flushed == ASSUME NEW f \in Filters PROVE Flush(f) \in Texts
<1>1. PICK rest : rest = IF Outputting(f) THEN Upto(f.buffer, TailAt(f.buffer) - 1) ELSE <<>>
  OBVIOUS
<1>2. rest \in Texts
  <2>1. f.buffer \in Texts /\ Len(f.buffer) \in Nat
    BY FilterParts
  <2>2. TailAt(f.buffer) - 1 \in 0 .. Len(f.buffer)
    BY <2>1, TailIs
  <2> QED BY <1>1, <2>1, <2>2, UptoIs, Empty
<1>3. PICK text : text = IF f.inWidget THEN Placeholder ELSE f.widget \o rest
  OBVIOUS
<1>4. text \in Texts
  BY <1>2, <1>3, FilterParts, TwoTexts, PiecesAssumption
<1>5. f.followUp \o text \in Texts
  BY <1>4, FilterParts, TwoTexts
<1>6. Flush(f) = StripSystemHints(DropFollowUps(f.followUp \o text))
  BY <1>1, <1>3 DEF Flush
<1> QED BY <1>5, <1>6, Dropped, Stripped

LEMMA NewIsFilter == NewFilter \in Filters
<1>1. <<"normal">> \in Stacks
  <2>1. PICK s : s = <<"normal">>
    OBVIOUS
  <2>2. s \in Seq({"normal", "block", "header", "tag", "post"}) /\ Len(s) = 1
    BY <2>1
  <2> QED BY <2>1, <2>2, EmptySeq DEF Stacks
<1> QED BY <1>1, Empty DEF NewFilter, Filters

\* Whatever the stream has been through, the next chunk passes: the loops of
\* process end for it, and leave the filter in one of its states.
THEOREM ChunksPass ==
  /\ NewFilter \in Filters
  /\ \A f \in Filters, chunk \in Texts : Process(f, chunk) \in Filters
  /\ \A f \in Filters : Flush(f) \in Texts
BY NewIsFilter, Processed, Flushed

\* Once a chunk is through there is nothing left to do: neither a marker nor a
\* widget in what is withheld is held back until the chunk after.
THEOREM ChunksSettle ==
  /\ \A f \in Filters : Advance(Suppress(f)) = Suppress(f)
  /\ \A w \in WidgetTexts : WidgetStep(FilterWidget(w)) = FilterWidget(w)
BY SuppressEnds, FilterWidgetEnds
=============================================================================
