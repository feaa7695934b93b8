---------------------------- MODULE AlgorithmProofs ----------------------------
(***************************************************************************)
(* Proofs about the pure parts of the program, for inputs of every length. *)
(***************************************************************************)
EXTENDS GlobMatch, Reshape, InductionLemmas

-----------------------------------------------------------------------------
(* The scan of the glob matcher. *)

\* A function that computes its value at one place from one other place exists, if
\* a rank goes up, to a bound, from each place to the next.
Follows(f, D, stop, base, next) == f = [s \in D |-> IF s \in stop THEN base[s] ELSE f[next[s]]]

LEMMA TailRecursion ==
  ASSUME NEW D, NEW stop, NEW base, NEW next, NEW rank, NEW B \in Nat,
         \A s \in D : rank[s] \in 0 .. B,
         \A s \in D : s \notin stop => next[s] \in D /\ rank[s] < rank[next[s]]
  PROVE  \E f : Follows(f, D, stop, base, next)
<1> DEFINE Body(f, s) == IF s \in stop THEN base[s] ELSE f[next[s]]
           Upto(f, n) == \A s \in D : B - rank[s] < n => f[s] = Body(f, s)
           S == {n \in Nat : \E f : f = [s \in D |-> f[s]] /\ Upto(f, n)}
<1>1. 0 \in S
  <2> DEFINE f0 == [s \in D |-> 0]
  <2>1. Upto(f0, 0)
    OBVIOUS
  <2>2. f0 = [s \in D |-> f0[s]]
    OBVIOUS
  <2> HIDE DEF Upto, f0
  <2> QED BY <2>1, <2>2
<1>2. ASSUME NEW n \in 0 .. B + 1, n < B + 1, n \in S PROVE n + 1 \in S
  <2>1. PICK f : Upto(f, n)
    BY <1>2
  <2> DEFINE g == [s \in D |-> Body(f, s)]
  <2>2. ASSUME NEW s \in D, B - rank[s] < n + 1 PROVE g[s] = Body(g, s)
    <3>1. CASE s \in stop
      BY <3>1
    <3>2. CASE s \notin stop
      <4> DEFINE t == next[s]
      <4>1. t \in D /\ rank[s] < rank[t] /\ rank[s] \in 0 .. B /\ rank[t] \in 0 .. B
        BY <3>2
      <4> HIDE DEF t
      <4>2. B - rank[t] < n
        BY <2>2, <4>1
      <4>3. f[t] = Body(f, t)
        BY <2>1, <4>1, <4>2
      <4>4. g[t] = f[t]
        BY <4>1, <4>3
      <4>5. g[s] = f[t]
        BY <3>2 DEF t
      <4> QED BY <3>2, <4>4, <4>5 DEF t
    <3> QED BY <3>1, <3>2
  <2>3. Upto(g, n + 1)
    BY <2>2
  <2>4. g = [s \in D |-> g[s]]
    OBVIOUS
  <2> HIDE DEF Upto, g
  <2> QED BY <2>3, <2>4
<1>3. B + 1 \in S
  <2>1. \A n \in 0 .. B + 1 : n < B + 1 /\ n \in S => n + 1 \in S
    BY <1>2
  <2> HIDE DEF S
  <2>2. 0 .. B + 1 \subseteq S
    BY <1>1, <2>1, UpTo
  <2> QED BY <2>2
<1>4. PICK f : f = [s \in D |-> f[s]] /\ Upto(f, B + 1)
  BY <1>3
<1>5. \A s \in D : f[s] = Body(f, s)
  BY <1>4
<1>6. f = [s \in D |-> Body(f, s)]
  <2> HIDE DEF Body
  <2> QED BY <1>4, <1>5
<1> QED BY <1>6 DEF Follows

\* The alternatives of the scan
Starred(pat, s)      == s.pi <= Len(pat) /\ pat[s.pi] = "*"
Fitting(pat, txt, s) == s.pi <= Len(pat) /\ Fits(pat[s.pi], txt[s.ti])
Ended(txt, s)        == s.ti > Len(txt)
Stuck(pat, txt, s)   == ~Starred(pat, s) /\ ~Fitting(pat, txt, s) /\ s.star = 0

OnlyStars(pat, pi) == \A i \in pi..Len(pat) : pat[i] = "*"

Forward(pat, txt, s) ==
  IF Starred(pat, s) THEN At(s.pi + 1, s.ti, s.pi, s.ti)
  ELSE IF Fitting(pat, txt, s) THEN At(s.pi + 1, s.ti + 1, s.star, s.star_ti)
  ELSE At(s.star + 1, s.star_ti + 1, s.star, s.star_ti + 1)

\* Every star ends later and later, and between that the pattern is passed.
Progress(K, s) == K * s.star_ti + s.pi

LEMMA Products ==
  ASSUME NEW k \in Nat, NEW a \in Nat, NEW b \in Nat, a <= b
  PROVE  k * a \in Nat /\ k * a <= k * b /\ k * (a + 1) = k * a + k
  OBVIOUS

LEMMA PlacesAre ==
  ASSUME NEW C, NEW T, NEW pat \in Seq(C), NEW txt \in Seq(T)
  PROVE  /\ Len(pat) \in Nat /\ Len(txt) \in Nat
         /\ At(1, 1, 0, 0) \in Places(pat, txt)
         /\ \A s \in Places(pat, txt) :
              /\ s.pi \in 1 .. Len(pat) + 1 /\ s.ti \in 1 .. Len(txt) + 1
              /\ s.star \in 0 .. Len(pat) /\ s.star_ti \in 0 .. Len(txt) + 1
              /\ s.star < s.pi /\ s.star_ti <= s.ti
              /\ s = At(s.pi, s.ti, s.star, s.star_ti)
              /\ ~Ended(txt, s) /\ ~Stuck(pat, txt, s) => Forward(pat, txt, s) \in Places(pat, txt)
<1>1. Len(pat) \in Nat /\ Len(txt) \in Nat
  BY LenProperties
<1>2. At(1, 1, 0, 0) \in Places(pat, txt)
  BY <1>1 DEF At, Places
<1>3. ASSUME NEW s \in Places(pat, txt)
      PROVE  /\ s.pi \in 1 .. Len(pat) + 1 /\ s.ti \in 1 .. Len(txt) + 1
             /\ s.star \in 0 .. Len(pat) /\ s.star_ti \in 0 .. Len(txt) + 1
             /\ s.star < s.pi /\ s.star_ti <= s.ti
             /\ s = At(s.pi, s.ti, s.star, s.star_ti)
             /\ ~Ended(txt, s) /\ ~Stuck(pat, txt, s) => Forward(pat, txt, s) \in Places(pat, txt)
  <2>1. /\ s.pi \in 1 .. Len(pat) + 1 /\ s.ti \in 1 .. Len(txt) + 1
        /\ s.star \in 0 .. Len(pat) /\ s.star_ti \in 0 .. Len(txt) + 1
        /\ s.star < s.pi /\ s.star_ti <= s.ti
        /\ s = At(s.pi, s.ti, s.star, s.star_ti)
    BY DEF Places, At
  <2> DEFINE pi == s.pi
             ti == s.ti
             star == s.star
             star_ti == s.star_ti
  <2>2. ASSUME ~Ended(txt, s), ~Stuck(pat, txt, s) PROVE Forward(pat, txt, s) \in Places(pat, txt)
    <3>1. ti <= Len(txt)
      BY <1>1, <2>1, <2>2 DEF Ended
    <3>2. CASE Starred(pat, s)
      <4>1. Forward(pat, txt, s) = At(pi + 1, ti, pi, ti) /\ pi <= Len(pat)
        BY <3>2 DEF Forward, Starred
      <4> HIDE DEF pi, ti
      <4>2. pi \in 1 .. Len(pat) + 1 /\ ti \in 1 .. Len(txt) + 1
        BY <2>1 DEF pi, ti
      <4> QED BY <1>1, <3>1, <4>1, <4>2 DEF At, Places
    <3>3. CASE ~Starred(pat, s) /\ Fitting(pat, txt, s)
      <4>1. Forward(pat, txt, s) = At(pi + 1, ti + 1, star, star_ti) /\ pi <= Len(pat)
        BY <3>3 DEF Forward, Fitting
      <4>2. pi \in 1 .. Len(pat) + 1 /\ ti \in 1 .. Len(txt) + 1 /\ star \in 0 .. Len(pat)
            /\ star_ti \in 0 .. Len(txt) + 1 /\ star < pi /\ star_ti <= ti
        BY <2>1
      <4> HIDE DEF pi, ti, star, star_ti
      <4> QED BY <1>1, <3>1, <4>1, <4>2 DEF At, Places
    <3>4. CASE ~Starred(pat, s) /\ ~Fitting(pat, txt, s)
      <4>1. Forward(pat, txt, s) = At(star + 1, star_ti + 1, star, star_ti + 1)
        BY <3>4 DEF Forward
      <4>2. star \in 0 .. Len(pat) /\ star_ti \in 0 .. Len(txt) + 1 /\ star_ti <= Len(txt)
        BY <1>1, <2>1, <3>1
      <4> HIDE DEF star, star_ti
      <4> QED BY <1>1, <4>1, <4>2 DEF At, Places
    <3> QED BY <3>2, <3>3, <3>4
  <2> QED BY <2>1, <2>2
<1> QED BY <1>1, <1>2, <1>3

LEMMA ForwardProgress ==
  ASSUME NEW C, NEW T, NEW pat \in Seq(C), NEW txt \in Seq(T)
  PROVE  LET K == Len(pat) + 2
             B == K * (Len(txt) + 1) + K
         IN  /\ B \in Nat
             /\ \A s \in Places(pat, txt) :
                  /\ Progress(K, s) \in 0 .. B
                  /\ ~Ended(txt, s) /\ ~Stuck(pat, txt, s) => Progress(K, s) < Progress(K, Forward(pat, txt, s))
<1> DEFINE K == Len(pat) + 2
           M == Len(txt) + 1
           B == K * M + K
<1>1. Len(pat) \in Nat /\ Len(txt) \in Nat /\ K \in Nat /\ M \in Nat
  BY LenProperties
<1>2. B \in Nat
  BY <1>1, Products
<1>3. ASSUME NEW s \in Places(pat, txt)
      PROVE  /\ Progress(K, s) \in 0 .. B
             /\ ~Ended(txt, s) /\ ~Stuck(pat, txt, s) => Progress(K, s) < Progress(K, Forward(pat, txt, s))
  <2> DEFINE pi == s.pi
             ti == s.ti
             star == s.star
             st == s.star_ti
  <2>1. /\ pi \in 1 .. Len(pat) + 1 /\ ti \in 1 .. Len(txt) + 1
        /\ star \in 0 .. Len(pat) /\ st \in 0 .. M /\ star < pi /\ st <= ti
    BY PlacesAre
  <2> HIDE DEF pi, ti, star, st
  <2>2. Progress(K, s) = K * st + pi
    BY DEF Progress, pi, st
  <2> HIDE DEF K
  <2>3. K * st \in Nat /\ K * st <= K * M /\ K * st <= K * ti /\ K * (st + 1) = K * st + K /\ K * M \in Nat
    <3>1. st \in Nat /\ ti \in Nat /\ st <= M
      BY <1>1, <2>1
    <3> HIDE DEF M
    <3> QED BY <1>1, <2>1, <3>1, Products
  <2>4. Progress(K, s) \in 0 .. B
    <3> HIDE DEF M
    <3> DEFINE x == K * st
               y == K * M
    <3>1. x \in Nat /\ y \in Nat /\ x <= y /\ Progress(K, s) = x + pi /\ B = y + K
      BY <2>2, <2>3
    <3>2. pi \in Nat /\ pi <= K /\ K \in Nat
      BY <1>1, <2>1 DEF K
    <3> HIDE DEF x, y, B
    <3> QED BY <3>1, <3>2
  <2>5. ASSUME ~Ended(txt, s), ~Stuck(pat, txt, s) PROVE Progress(K, s) < Progress(K, Forward(pat, txt, s))
    <3> DEFINE x == K * st
               z == K * ti
               w == K * (st + 1)
    <3>0. x \in Nat /\ z \in Int /\ x <= z /\ w = x + K /\ pi \in Nat /\ K \in Nat /\ star \in Nat /\ pi < K
      BY <1>1, <2>1, <2>3 DEF K
    <3>1. CASE Starred(pat, s)
      <4>1. Progress(K, Forward(pat, txt, s)) = z + (pi + 1)
        BY <3>1 DEF Forward, Progress, At, pi, ti
      <4> HIDE DEF x, z
      <4> QED BY <2>2, <3>0, <4>1 DEF x
    <3>2. CASE ~Starred(pat, s) /\ Fitting(pat, txt, s)
      <4>1. Progress(K, Forward(pat, txt, s)) = x + (pi + 1)
        BY <3>2 DEF Forward, Progress, At, pi, st
      <4> HIDE DEF x
      <4> QED BY <2>2, <3>0, <4>1 DEF x
    <3>3. CASE ~Starred(pat, s) /\ ~Fitting(pat, txt, s)
      <4>1. Progress(K, Forward(pat, txt, s)) = w + (star + 1)
        BY <3>3 DEF Forward, Progress, At, star, st
      <4>2. Progress(K, s) = x + pi
        BY <2>2
      <4> HIDE DEF x, w
      <4> QED BY <3>0, <4>1, <4>2
    <3> QED BY <3>1, <3>2, <3>3
  <2> QED BY <2>4, <2>5
<1> QED BY <1>2, <1>3

\* The recursive function in GlobMatches exists, and goes forward until it ends or is stuck.
Scans(f, pat, txt) ==
  /\ GlobMatches(pat, txt) = f[At(1, 1, 0, 0)]
  /\ \A s \in Places(pat, txt) :
       f[s] = IF Ended(txt, s) THEN OnlyStars(pat, s.pi)
              ELSE IF Stuck(pat, txt, s) THEN FALSE ELSE f[Forward(pat, txt, s)]

LEMMA ScanExists ==
  ASSUME NEW C, NEW T, NEW pat \in Seq(C), NEW txt \in Seq(T)
  PROVE  \E f : Scans(f, pat, txt)
<1> DEFINE D == Places(pat, txt)
           stop == {s \in D : Ended(txt, s) \/ Stuck(pat, txt, s)}
           base == [s \in D |-> IF Ended(txt, s) THEN OnlyStars(pat, s.pi) ELSE FALSE]
           next == [s \in D |-> Forward(pat, txt, s)]
           Body(f, s) == IF s.ti > Len(txt)
                         THEN \A i \in s.pi..Len(pat) : pat[i] = "*"
                         ELSE IF s.pi <= Len(pat) /\ pat[s.pi] = "*" THEN f[At(s.pi + 1, s.ti, s.pi, s.ti)]
                         ELSE IF s.pi <= Len(pat) /\ Fits(pat[s.pi], txt[s.ti])
                              THEN f[At(s.pi + 1, s.ti + 1, s.star, s.star_ti)]
                         ELSE IF s.star # 0 THEN f[At(s.star + 1, s.star_ti + 1, s.star, s.star_ti + 1)]
                         ELSE FALSE
           Told(f, s) == IF Ended(txt, s) THEN OnlyStars(pat, s.pi)
                         ELSE IF Stuck(pat, txt, s) THEN FALSE ELSE f[Forward(pat, txt, s)]
<1>0. Len(pat) \in Nat /\ Len(txt) \in Nat
  BY LenProperties
<1>1. \A f : \A s \in D : Body(f, s) = Told(f, s)
  <2> SUFFICES ASSUME NEW f, NEW s \in D PROVE Body(f, s) = Told(f, s)
    OBVIOUS
  <2>0. s.ti \in Nat /\ s.star \in Nat
    BY PlacesAre
  <2>1. CASE Ended(txt, s)
    <3>1. s.ti > Len(txt)
      BY <2>1 DEF Ended
    <3>2. Body(f, s) = \A i \in s.pi..Len(pat) : pat[i] = "*"
      BY <3>1
    <3> QED BY <2>1, <3>2 DEF OnlyStars
  <2>2. CASE ~Ended(txt, s) /\ Starred(pat, s)
    <3>1. ~(s.ti > Len(txt)) /\ s.pi <= Len(pat) /\ pat[s.pi] = "*" /\ ~Stuck(pat, txt, s)
      BY <2>2 DEF Ended, Starred, Stuck
    <3>2. Body(f, s) = f[At(s.pi + 1, s.ti, s.pi, s.ti)]
      BY <3>1
    <3>3. Forward(pat, txt, s) = At(s.pi + 1, s.ti, s.pi, s.ti)
      BY <2>2 DEF Forward
    <3> QED BY <2>2, <3>1, <3>2, <3>3
  <2>3. CASE ~Ended(txt, s) /\ ~Starred(pat, s) /\ Fitting(pat, txt, s)
    <3>1. ~(s.ti > Len(txt)) /\ s.pi <= Len(pat) /\ pat[s.pi] # "*" /\ Fits(pat[s.pi], txt[s.ti]) /\ ~Stuck(pat, txt, s)
      BY <2>3 DEF Ended, Starred, Fitting, Stuck
    <3>2. Body(f, s) = f[At(s.pi + 1, s.ti + 1, s.star, s.star_ti)]
      BY <3>1
    <3>3. Forward(pat, txt, s) = At(s.pi + 1, s.ti + 1, s.star, s.star_ti)
      BY <2>3 DEF Forward
    <3> QED BY <2>3, <3>1, <3>2, <3>3
  <2>4. CASE ~Ended(txt, s) /\ ~Starred(pat, s) /\ ~Fitting(pat, txt, s)
    <3>1. /\ ~(s.ti > Len(txt)) /\ ~(s.pi <= Len(pat) /\ pat[s.pi] = "*")
          /\ ~(s.pi <= Len(pat) /\ Fits(pat[s.pi], txt[s.ti])) /\ Stuck(pat, txt, s) = (s.star = 0)
      BY <2>4 DEF Ended, Starred, Fitting, Stuck
    <3>2. Body(f, s) = IF s.star # 0 THEN f[At(s.star + 1, s.star_ti + 1, s.star, s.star_ti + 1)] ELSE FALSE
      BY <3>1
    <3>3. Forward(pat, txt, s) = At(s.star + 1, s.star_ti + 1, s.star, s.star_ti + 1)
      BY <2>4 DEF Forward
    <3> QED BY <2>4, <3>1, <3>2, <3>3
  <2> QED BY <2>1, <2>2, <2>3, <2>4
<1>2. \A f : \A s \in D : Told(f, s) = IF s \in stop THEN base[s] ELSE f[next[s]]
  <2> SUFFICES ASSUME NEW f, NEW s \in D PROVE Told(f, s) = IF s \in stop THEN base[s] ELSE f[next[s]]
    OBVIOUS
  <2>1. CASE Ended(txt, s)
    BY <2>1
  <2>2. CASE ~Ended(txt, s) /\ Stuck(pat, txt, s)
    BY <2>2
  <2>3. CASE ~Ended(txt, s) /\ ~Stuck(pat, txt, s)
    BY <2>3
  <2> QED BY <2>1, <2>2, <2>3
<1>3. PICK f0 : Follows(f0, D, stop, base, next)
  <2> DEFINE K == Len(pat) + 2
             B == K * (Len(txt) + 1) + K
             rank == [s \in D |-> Progress(K, s)]
  <2>1. /\ B \in Nat
        /\ \A s \in D : /\ rank[s] \in 0 .. B
                        /\ ~Ended(txt, s) /\ ~Stuck(pat, txt, s) => rank[s] < Progress(K, Forward(pat, txt, s))
    BY ForwardProgress
  <2>2. \A s \in D : s \notin stop => next[s] \in D /\ rank[s] < rank[next[s]]
    <3> SUFFICES ASSUME NEW s \in D, s \notin stop PROVE next[s] \in D /\ rank[s] < rank[next[s]]
      OBVIOUS
    <3>1. ~Ended(txt, s) /\ ~Stuck(pat, txt, s)
      OBVIOUS
    <3>2. next[s] = Forward(pat, txt, s) /\ next[s] \in D
      BY <3>1, PlacesAre
    <3> QED BY <2>1, <3>1, <3>2
  <2> HIDE DEF D, stop, base, next, rank, B
  <2> QED BY <2>1, <2>2, TailRecursion
<1>4. f0 = [s \in D |-> Body(f0, s)]
  <2>1. f0 = [s \in D |-> IF s \in stop THEN base[s] ELSE f0[next[s]]]
    BY <1>3 DEF Follows
  <2>2. \A s \in D : Body(f0, s) = IF s \in stop THEN base[s] ELSE f0[next[s]]
    BY <1>1, <1>2
  <2> HIDE DEF D, stop, base, next, Body
  <2> QED BY <2>1, <2>2
<1> DEFINE scan[s \in D] ==
        IF s.ti > Len(txt)
        THEN \A i \in s.pi..Len(pat) : pat[i] = "*"
        ELSE IF s.pi <= Len(pat) /\ pat[s.pi] = "*" THEN scan[At(s.pi + 1, s.ti, s.pi, s.ti)]
        ELSE IF s.pi <= Len(pat) /\ Fits(pat[s.pi], txt[s.ti])
             THEN scan[At(s.pi + 1, s.ti + 1, s.star, s.star_ti)]
        ELSE IF s.star # 0 THEN scan[At(s.star + 1, s.star_ti + 1, s.star, s.star_ti + 1)]
        ELSE FALSE
<1>5. scan = [s \in D |-> Body(scan, s)]
  <2> HIDE DEF D
  <2> QED BY <1>4
<1>6. GlobMatches(pat, txt) = scan[At(1, 1, 0, 0)]
  BY DEF GlobMatches
<1> HIDE DEF scan
<1>7. \A s \in D : scan[s] = Told(scan, s)
  <2>1. \A s \in D : scan[s] = Body(scan, s)
    <3> HIDE DEF D, Body
    <3> QED BY <1>5
  <2> HIDE DEF D, Body, Told
  <2> QED BY <1>1, <2>1
<1> QED BY <1>6, <1>7 DEF Scans

\* The recursive function in Reads exists: the places that suit the rest of the pattern
\* follow from those that suit it one character later.
SuitsTo(stops, m, pat, txt, p) ==
  IF p > Len(pat) THEN {Len(txt) + 1}
  ELSE IF pat[p] = "*"
  THEN {t \in 1..(Len(txt) + 1) : \E u \in m[p + 1] : t <= u /\ \A i \in stops : i < t \/ u <= i}
  ELSE {t \in 1..Len(txt) : Fits(pat[p], txt[t]) /\ t + 1 \in m[p + 1]}

LEMMA ReadsExists ==
  ASSUME NEW C, NEW T, NEW pat \in Seq(C), NEW txt \in Seq(T), NEW stops
  PROVE  \E m : /\ Reads(stops, pat, txt) = (1 \in m[1])
                /\ \A p \in 1 .. Len(pat) + 1 : m[p] = SuitsTo(stops, m, pat, txt, p)
<1> DEFINE P == 1 .. (Len(pat) + 1)
           Of(m) == [p \in P |-> SuitsTo(stops, m, pat, txt, p)]
           Upto(m, n) == \A p \in P : Len(pat) + 1 - p < n => m[p] = SuitsTo(stops, m, pat, txt, p)
           S == {n \in Nat : \E m : Upto(m, n)}
<1>0. Len(pat) \in Nat /\ Len(txt) \in Nat
  BY LenProperties
<1>1. 0 \in S
  <2>1. \A p \in P : ~(Len(pat) + 1 - p < 0)
    BY <1>0
  <2>2. Upto(0, 0)
    <3> HIDE DEF P
    <3> QED BY <2>1
  <2> HIDE DEF Upto
  <2> QED BY <2>2
<1>2. ASSUME NEW m, NEW g, NEW p \in P, p <= Len(pat) => g[p + 1] = m[p + 1]
      PROVE  SuitsTo(stops, g, pat, txt, p) = SuitsTo(stops, m, pat, txt, p)
  <2>1. CASE p > Len(pat)
    BY <2>1 DEF SuitsTo
  <2>2. CASE p <= Len(pat)
    BY <1>2, <2>2 DEF SuitsTo
  <2> QED BY <1>0, <2>1, <2>2
<1>3. ASSUME NEW n \in 0 .. Len(pat) + 1, n < Len(pat) + 1, n \in S PROVE n + 1 \in S
  <2>1. PICK m : Upto(m, n)
    BY <1>3
  <2> DEFINE g == Of(m)
  <2>2. ASSUME NEW p \in P, Len(pat) + 1 - p < n + 1 PROVE g[p] = SuitsTo(stops, g, pat, txt, p)
    <3>1. g[p] = SuitsTo(stops, m, pat, txt, p)
      OBVIOUS
    <3>2. p <= Len(pat) => g[p + 1] = m[p + 1]
      <4> SUFFICES ASSUME p <= Len(pat) PROVE g[p + 1] = m[p + 1]
        OBVIOUS
      <4>1. p + 1 \in P /\ Len(pat) + 1 - (p + 1) < n
        BY <1>0, <2>2
      <4>2. g[p + 1] = SuitsTo(stops, m, pat, txt, p + 1)
        BY <4>1
      <4> HIDE DEF P, g
      <4> QED BY <2>1, <4>1, <4>2
    <3> HIDE DEF g
    <3>3. SuitsTo(stops, g, pat, txt, p) = SuitsTo(stops, m, pat, txt, p)
      BY <1>2, <3>2
    <3> QED BY <3>1, <3>3
  <2> HIDE DEF g
  <2>3. Upto(g, n + 1)
    <3> HIDE DEF P
    <3> QED BY <2>2
  <2> HIDE DEF Upto
  <2> QED BY <2>3
<1>4. Len(pat) + 1 \in S
  <2> DEFINE N == Len(pat) + 1
  <2>1. N \in Nat /\ \A n \in 0 .. N : n < N /\ n \in S => n + 1 \in S
    BY <1>0, <1>3
  <2> HIDE DEF S, N
  <2>2. 0 .. N \subseteq S
    BY <1>1, <2>1, UpTo
  <2>3. N \in S
    BY <2>1, <2>2
  <2> QED BY <2>3 DEF N
<1>5. PICK m : Upto(m, Len(pat) + 1)
  BY <1>4
<1>6. \A p \in P : m[p] = SuitsTo(stops, m, pat, txt, p)
  <2>1. \A p \in P : Len(pat) + 1 - p < Len(pat) + 1
    BY <1>0
  <2> HIDE DEF P
  <2> QED BY <1>5, <2>1
<1> DEFINE g == Of(m)
<1>7. g = Of(g)
  <2>1. ASSUME NEW p \in P PROVE SuitsTo(stops, g, pat, txt, p) = SuitsTo(stops, m, pat, txt, p)
    <3>1. p <= Len(pat) => g[p + 1] = m[p + 1]
      <4> SUFFICES ASSUME p <= Len(pat) PROVE g[p + 1] = m[p + 1]
        OBVIOUS
      <4>1. p + 1 \in P
        BY <1>0
      <4> HIDE DEF P
      <4> QED BY <1>6, <4>1
    <3> HIDE DEF g
    <3> QED BY <1>2, <3>1
  <2> HIDE DEF P
  <2> QED BY <2>1
<1> DEFINE places[p \in 1..(Len(pat) + 1)] ==
        IF p > Len(pat) THEN {Len(txt) + 1}
        ELSE IF pat[p] = "*"
        THEN {t \in 1..(Len(txt) + 1) :
                \E u \in places[p + 1] : t <= u /\ \A i \in stops : i < t \/ u <= i}
        ELSE {t \in 1..Len(txt) : Fits(pat[p], txt[t]) /\ t + 1 \in places[p + 1]}
<1>8. places = Of(places)
  <2> HIDE DEF g
  <2> QED BY <1>7 DEF SuitsTo
<1>9. Reads(stops, pat, txt) = (1 \in places[1])
  BY DEF Reads
<1> HIDE DEF places
<1>10. \A p \in P : places[p] = SuitsTo(stops, places, pat, txt, p)
  <2> HIDE DEF P
  <2> QED BY <1>8
<1> QED BY <1>9, <1>10

Suits(m, pat, txt, p) == SuitsTo({}, m, pat, txt, p)

\* m tells for each place in the pattern the places in the text that suit its rest, with
\* stars that nothing stops.
Meanings(m, pat, txt) == \A p \in 1 .. Len(pat) + 1 : m[p] = Suits(m, pat, txt, p)

LEMMA AcrossExists ==
  ASSUME NEW C, NEW T, NEW pat \in Seq(C), NEW txt \in Seq(T)
  PROVE  \E m : MeansAcross(pat, txt) = (1 \in m[1]) /\ Meanings(m, pat, txt)
<1>1. PICK m : /\ Reads({}, pat, txt) = (1 \in m[1])
               /\ \A p \in 1 .. Len(pat) + 1 : m[p] = SuitsTo({}, m, pat, txt, p)
  BY ReadsExists
<1> QED BY <1>1 DEF MeansAcross, Meanings, Suits

LEMMA MeaningsAre ==
  ASSUME NEW C, NEW T, NEW pat \in Seq(C), NEW txt \in Seq(T), NEW m, Meanings(m, pat, txt)
  PROVE  /\ \A p \in 1 .. Len(pat) + 1 : m[p] \subseteq 1 .. Len(txt) + 1
         /\ m[Len(pat) + 1] = {Len(txt) + 1}
         /\ \A p \in 1 .. Len(pat) : pat[p] = "*" => m[p] = {t \in 1..(Len(txt) + 1) : \E u \in m[p + 1] : t <= u}
         /\ \A p \in 1 .. Len(pat) : pat[p] # "*" => m[p] = {t \in 1..Len(txt) : Fits(pat[p], txt[t]) /\ t + 1 \in m[p + 1]}
<1>1. Len(pat) \in Nat /\ Len(txt) \in Nat
  BY LenProperties
<1>2. m[Len(pat) + 1] = {Len(txt) + 1}
  <2>1. Len(pat) + 1 \in 1 .. Len(pat) + 1 /\ Len(pat) + 1 > Len(pat)
    BY <1>1
  <2>2. m[Len(pat) + 1] = Suits(m, pat, txt, Len(pat) + 1)
    BY <2>1 DEF Meanings
  <2> QED BY <2>1, <2>2 DEF Suits, SuitsTo
<1>3. ASSUME NEW p \in 1 .. Len(pat), pat[p] = "*"
      PROVE  m[p] = {t \in 1..(Len(txt) + 1) : \E u \in m[p + 1] : t <= u}
  <2>1. p \in 1 .. Len(pat) + 1 /\ ~(p > Len(pat))
    BY <1>1
  <2>2. m[p] = Suits(m, pat, txt, p)
    BY <2>1 DEF Meanings
  <2> QED BY <1>3, <2>1, <2>2 DEF Suits, SuitsTo
<1>4. ASSUME NEW p \in 1 .. Len(pat), pat[p] # "*"
      PROVE  m[p] = {t \in 1..Len(txt) : Fits(pat[p], txt[t]) /\ t + 1 \in m[p + 1]}
  <2>1. p \in 1 .. Len(pat) + 1 /\ ~(p > Len(pat))
    BY <1>1
  <2>2. m[p] = Suits(m, pat, txt, p)
    BY <2>1 DEF Meanings
  <2> QED BY <1>4, <2>1, <2>2 DEF Suits, SuitsTo
<1>5. ASSUME NEW p \in 1 .. Len(pat) + 1 PROVE m[p] \subseteq 1 .. Len(txt) + 1
  <2>1. CASE p = Len(pat) + 1
    BY <1>1, <1>2, <2>1
  <2>2. CASE p # Len(pat) + 1 /\ pat[p] = "*"
    <3>1. p \in 1 .. Len(pat)
      BY <1>1, <2>2
    <3> QED BY <1>3, <2>2, <3>1
  <2>3. CASE p # Len(pat) + 1 /\ pat[p] # "*"
    <3>1. p \in 1 .. Len(pat)
      BY <1>1, <2>3
    <3>2. \A t \in 1 .. Len(txt) : t \in 1 .. Len(txt) + 1
      BY <1>1
    <3> QED BY <1>4, <2>3, <3>1, <3>2
  <2> QED BY <2>1, <2>2, <2>3
<1> QED BY <1>2, <1>3, <1>4, <1>5

\* At the end of the text only stars may be left.
LEMMA StarsAtTheEnd ==
  ASSUME NEW C, NEW T, NEW pat \in Seq(C), NEW txt \in Seq(T), NEW m, Meanings(m, pat, txt),
         NEW p \in 1 .. Len(pat) + 1
  PROVE  Len(txt) + 1 \in m[p] <=> OnlyStars(pat, p)
<1> DEFINE P == Len(pat)
           E == Len(txt) + 1
           S == {n \in Nat : \A q \in 1 .. P + 1 : P + 1 - q = n => (E \in m[q] <=> OnlyStars(pat, q))}
<1>0. P \in Nat /\ Len(txt) \in Nat /\ E \in Nat
  BY LenProperties
<1>1. 0 \in S
  <2>1. \A q \in 1 .. P + 1 : P + 1 - q = 0 => q = P + 1
    BY <1>0
  <2>2. E \in m[P + 1]
    BY MeaningsAre
  <2>3. OnlyStars(pat, P + 1)
    BY <1>0 DEF OnlyStars
  <2> HIDE DEF P, E
  <2> QED BY <2>1, <2>2, <2>3
<1>2. ASSUME NEW n \in 0 .. P, n < P, n \in S PROVE n + 1 \in S
  <2>1. ASSUME NEW q \in 1 .. P + 1, P + 1 - q = n + 1 PROVE E \in m[q] <=> OnlyStars(pat, q)
    <3>1. q \in 1 .. P /\ q + 1 \in 1 .. P + 1 /\ P + 1 - (q + 1) = n
      BY <1>0, <2>1
    <3>2. E \in m[q + 1] <=> OnlyStars(pat, q + 1)
      <4> HIDE DEF P, E
      <4> QED BY <1>2, <3>1
    <3>3. OnlyStars(pat, q) <=> pat[q] = "*" /\ OnlyStars(pat, q + 1)
      <4>1. q .. P = {q} \cup (q + 1) .. P
        BY <1>0, <3>1
      <4> HIDE DEF P
      <4> QED BY <4>1 DEF OnlyStars, P
    <3>4. CASE pat[q] = "*"
      <4>1. m[q] = {t \in 1 .. E : \E u \in m[q + 1] : t <= u}
        BY <3>1, <3>4, MeaningsAre
      <4>2. m[q + 1] \subseteq 1 .. E
        BY <3>1, MeaningsAre
      <4>3. E \in 1 .. E /\ \A u \in 1 .. E : E <= u => u = E
        BY <1>0
      <4> HIDE DEF E, P
      <4>4. E \in m[q] <=> E \in m[q + 1]
        <5>1. E <= E
          BY <4>3
        <5> QED BY <4>1, <4>2, <4>3, <5>1
      <4> QED BY <3>2, <3>3, <3>4, <4>4
    <3>5. CASE pat[q] # "*"
      <4>1. m[q] \subseteq 1 .. Len(txt)
        BY <3>1, <3>5, MeaningsAre
      <4>2. E \notin 1 .. Len(txt)
        BY <1>0
      <4> QED BY <3>3, <3>5, <4>1, <4>2
    <3> QED BY <3>4, <3>5
  <2> HIDE DEF P, E
  <2>2. n + 1 \in Nat
    BY <1>2
  <2> QED BY <2>1, <2>2
<1>3. 0 .. P \subseteq S
  <2>1. \A n \in 0 .. P : n < P /\ n \in S => n + 1 \in S
    BY <1>2
  <2> HIDE DEF S, P
  <2> QED BY <1>0, <1>1, <2>1, UpTo
<1>4. P + 1 - p \in 0 .. P
  BY <1>0
<1>5. P + 1 - p \in S
  <2> HIDE DEF S, P
  <2> QED BY <1>3, <1>4
<1> HIDE DEF P, E
<1>6. p \in 1 .. P + 1
  BY DEF P
<1> QED BY <1>5, <1>6 DEF E

\* Between two stars each character of the pattern stands for one of the text.
LEMMA OneForOne ==
  ASSUME NEW C, NEW T, NEW pat \in Seq(C), NEW txt \in Seq(T), NEW m, Meanings(m, pat, txt),
         NEW a \in 1 .. Len(pat) + 1, NEW b \in a .. Len(pat) + 1, \A i \in a .. b - 1 : pat[i] # "*",
         NEW t \in m[a]
  PROVE  t + (b - a) \in m[b] /\ t + (b - a) <= Len(txt) + 1
<1> DEFINE P == Len(pat)
           N == b - a
           S == {n \in Nat : t + n \in m[a + n]}
<1>0. P \in Nat /\ Len(txt) \in Nat /\ a \in Nat /\ b \in Nat /\ N \in Nat /\ a <= b
  BY LenProperties
<1>1. t \in Nat
  BY <1>0, MeaningsAre
<1>2. 0 \in S
  BY <1>0, <1>1
<1>3. ASSUME NEW n \in 0 .. N, n < N, n \in S PROVE n + 1 \in S
  <2>1. a + n \in 1 .. P /\ a + n \in a .. b - 1 /\ (a + n) + 1 = a + (n + 1) /\ (t + n) + 1 = t + (n + 1) /\ n + 1 \in Nat
    BY <1>0, <1>1, <1>3
  <2>2. pat[a + n] # "*"
    BY <2>1
  <2>3. (t + n) + 1 \in m[(a + n) + 1]
    <3> DEFINE q == a + n
               v == t + n
    <3>1. q \in 1 .. P /\ pat[q] # "*" /\ v \in m[q]
      BY <1>3, <2>1, <2>2
    <3> HIDE DEF q, v
    <3>2. v + 1 \in m[q + 1]
      BY <3>1, MeaningsAre
    <3> QED BY <3>2 DEF q, v
  <2> QED BY <2>1, <2>3
<1>4. 0 .. N \subseteq S
  <2>1. \A n \in 0 .. N : n < N /\ n \in S => n + 1 \in S
    BY <1>3
  <2> HIDE DEF S, N
  <2> QED BY <1>0, <1>2, <2>1, UpTo
<1>5. N \in S
  <2> HIDE DEF S, N
  <2> QED BY <1>0, <1>4
<1>6. t + N \in m[a + N]
  BY <1>5
<1>7. a + N = b
  BY <1>0
<1>8. t + N \in m[b]
  <2> HIDE DEF N
  <2> QED BY <1>6, <1>7
<1>9. m[b] \subseteq 1 .. Len(txt) + 1
  BY <1>0, MeaningsAre
<1> QED BY <1>0, <1>8, <1>9

\* What the scan keeps true. Since the bookmark no star was passed, the characters were
\* matched one for one, and what is left suits if what the bookmark left would.
Kept(m, pat, s) ==
  s.star # 0 =>
    /\ pat[s.star] = "*"
    /\ \A i \in s.star + 1 .. s.pi - 1 : pat[i] # "*"
    /\ s.ti - s.star_ti = s.pi - s.star - 1
    /\ s.star_ti \in m[s.star + 1] <=> s.ti \in m[s.pi]

\* What the scan answers: whether the star may end here or later.
Right(m, s) == IF s.star = 0 THEN s.ti \in m[s.pi] ELSE \E u \in m[s.star + 1] : s.star_ti <= u

\* At the end of the text, a star that ends later has no room for what follows it.
LEMMA RightAtTheEnd ==
  ASSUME NEW C, NEW T, NEW pat \in Seq(C), NEW txt \in Seq(T), NEW m, Meanings(m, pat, txt),
         NEW s \in Places(pat, txt), Kept(m, pat, s), Ended(txt, s)
  PROVE  Right(m, s) <=> OnlyStars(pat, s.pi)
<1>1. Len(pat) \in Nat /\ Len(txt) \in Nat /\ s.ti = Len(txt) + 1
      /\ s.pi \in 1 .. Len(pat) + 1 /\ s.star \in 0 .. Len(pat) /\ s.star < s.pi /\ s.star_ti \in Nat
  BY PlacesAre DEF Ended
<1>2. s.ti \in m[s.pi] <=> OnlyStars(pat, s.pi)
  BY <1>1, StarsAtTheEnd
<1>3. CASE s.star = 0
  BY <1>2, <1>3 DEF Right
<1>4. CASE s.star # 0
  <2>1. /\ \A i \in s.star + 1 .. s.pi - 1 : pat[i] # "*"
        /\ s.ti - s.star_ti = s.pi - s.star - 1
        /\ s.star_ti \in m[s.star + 1] <=> s.ti \in m[s.pi]
    BY <1>4 DEF Kept
  <2> DEFINE a == s.star + 1
             b == s.pi
             v == s.star_ti
  <2>2. a \in 1 .. Len(pat) + 1 /\ b \in a .. Len(pat) + 1 /\ v \in Nat /\ Len(txt) + 1 = v + (b - a)
    BY <1>1, <2>1
  <2>3. \A i \in a .. b - 1 : pat[i] # "*"
    BY <2>1
  <2> HIDE DEF a, b, v
  <2>4. ASSUME NEW u \in m[a], v <= u PROVE u = v
    <3>1. u + (b - a) <= Len(txt) + 1
      BY <2>2, <2>3, OneForOne
    <3>2. u \in Nat
      BY <2>2, MeaningsAre
    <3> QED BY <1>1, <2>2, <2>4, <3>1, <3>2
  <2>5. Right(m, s) <=> \E u \in m[a] : v <= u
    BY <1>4 DEF Right, a, v
  <2>6. v \in m[a] <=> s.ti \in m[s.pi]
    BY <2>1 DEF a, v
  <2>7. v <= v
    BY <2>2
  <2> QED BY <1>2, <2>4, <2>5, <2>6, <2>7
<1> QED BY <1>3, <1>4

\* Without a bookmark, a character that does not match decides.
LEMMA NotRightWhenStuck ==
  ASSUME NEW C, NEW T, NEW pat \in Seq(C), NEW txt \in Seq(T), NEW m, Meanings(m, pat, txt),
         NEW s \in Places(pat, txt), ~Ended(txt, s), ~Starred(pat, s), ~Fitting(pat, txt, s)
  PROVE  s.ti \notin m[s.pi]
<1>1. Len(pat) \in Nat /\ Len(txt) \in Nat /\ s.ti \in 1 .. Len(txt) + 1 /\ s.ti <= Len(txt) /\ s.pi \in 1 .. Len(pat) + 1
  <2>1. Len(pat) \in Nat /\ Len(txt) \in Nat /\ s.ti \in 1 .. Len(txt) + 1 /\ s.pi \in 1 .. Len(pat) + 1
    BY PlacesAre
  <2> QED BY <2>1 DEF Ended
<1>2. CASE s.pi = Len(pat) + 1
  <2>1. m[s.pi] = {Len(txt) + 1}
    BY <1>2, MeaningsAre
  <2> QED BY <1>1, <2>1
<1>3. CASE s.pi # Len(pat) + 1
  <2>1. s.pi \in 1 .. Len(pat) /\ pat[s.pi] # "*" /\ ~Fits(pat[s.pi], txt[s.ti])
    <3>1. s.pi \in 1 .. Len(pat) /\ s.pi <= Len(pat)
      BY <1>1, <1>3
    <3> QED BY <3>1 DEF Starred, Fitting
  <2> QED BY <2>1, MeaningsAre
<1> QED BY <1>2, <1>3

\* Every step of the scan keeps that, and does not change what the answer is to be.
LEMMA StepKeeps ==
  ASSUME NEW C, NEW T, NEW pat \in Seq(C), NEW txt \in Seq(T), NEW m, Meanings(m, pat, txt),
         NEW s \in Places(pat, txt), Kept(m, pat, s), ~Ended(txt, s), ~Stuck(pat, txt, s)
  PROVE  LET r == Forward(pat, txt, s) IN Kept(m, pat, r) /\ (Right(m, r) <=> Right(m, s))
<1> DEFINE pi == s.pi
           ti == s.ti
           star == s.star
           st == s.star_ti
           r == Forward(pat, txt, s)
<1>1. /\ Len(pat) \in Nat /\ Len(txt) \in Nat
      /\ pi \in 1 .. Len(pat) + 1 /\ ti \in 1 .. Len(txt) + 1 /\ star \in 0 .. Len(pat)
      /\ st \in Nat /\ star < pi /\ st <= ti
  BY PlacesAre
<1>2. ti <= Len(txt)
  BY <1>1 DEF Ended
<1>3. CASE Starred(pat, s)
  <2>1. r = At(pi + 1, ti, pi, ti) /\ pi \in 1 .. Len(pat) /\ pat[pi] = "*"
    BY <1>1, <1>3 DEF Forward, Starred
  <2>2. r.pi = pi + 1 /\ r.ti = ti /\ r.star = pi /\ r.star_ti = ti
    BY <2>1 DEF At
  <2>3. Kept(m, pat, r)
    <3> HIDE DEF pi, ti, r
    <3> QED BY <1>1, <2>1, <2>2, SMTT(30) DEF Kept
  <2>4. m[pi] = {t \in 1..(Len(txt) + 1) : \E u \in m[pi + 1] : t <= u}
    <3> HIDE DEF pi
    <3> QED BY <2>1, MeaningsAre, SMTT(30)
  <2>5. Right(m, r) <=> ti \in m[pi]
    <3> HIDE DEF pi, ti, r
    <3>1. pi # 0
      BY <1>1
    <3> QED BY <1>1, <2>2, <2>4, <3>1 DEF Right
  <2>6. CASE star = 0
    BY <2>3, <2>5, <2>6 DEF Right
  <2>7. CASE star # 0
    <3>1. /\ \A i \in star + 1 .. pi - 1 : pat[i] # "*"
          /\ ti - st = pi - star - 1
          /\ st \in m[star + 1] <=> ti \in m[pi]
      BY <2>7 DEF Kept
    <3> DEFINE a == star + 1
    <3>2. a \in 1 .. Len(pat) + 1 /\ pi \in a .. Len(pat) + 1 /\ ti = st + (pi - a) /\ pi \in Nat /\ a \in Nat
      <4>1. ti - st = pi - star - 1
        BY <3>1
      <4> HIDE DEF pi, ti, star, st
      <4>2. pi \in Nat /\ ti \in Nat /\ star \in Nat /\ st \in Nat
        BY <1>1
      <4>3. a \in Nat /\ ti = st + (pi - a)
        BY <4>1, <4>2
      <4>4. a \in 1 .. Len(pat) + 1 /\ pi \in a .. Len(pat) + 1
        BY <1>1, <4>2
      <4> QED BY <4>2, <4>3, <4>4
    <3>3. \A i \in a .. pi - 1 : pat[i] # "*"
      BY <3>1
    <3>4. st \in m[a] <=> ti \in m[pi]
      BY <3>1
    <3>5. Right(m, s) <=> \E u \in m[a] : st <= u
      BY <2>7 DEF Right
    <3> HIDE DEF a, pi, ti, st, r
    <3>6. ASSUME NEW u \in m[a], st <= u PROVE ti \in m[pi]
      <4>1. u + (pi - a) \in m[pi]
        BY <3>2, <3>3, OneForOne
      <4>2. u \in Nat
        BY <3>2, MeaningsAre
      <4> DEFINE v == u + (pi - a)
      <4>3. v \in Nat /\ ti <= v
        BY <1>1, <3>2, <3>6, <4>2
      <4> HIDE DEF v
      <4>4. v \in m[pi]
        BY <4>1 DEF v
      <4>5. PICK w \in m[pi + 1] : v <= w
        BY <2>4, <4>4
      <4>6. w \in Nat
        <5>1. pi + 1 \in 1 .. Len(pat) + 1
          BY <1>1, <2>1
        <5> QED BY <5>1, MeaningsAre
      <4>7. ti <= w
        BY <1>1, <4>3, <4>5, <4>6
      <4> QED BY <1>1, <2>4, <4>5, <4>7
    <3>7. st <= st
      BY <1>1
    <3>8. (\E u \in m[a] : st <= u) <=> ti \in m[pi]
      BY <3>4, <3>6, <3>7
    <3>9. Right(m, r) <=> Right(m, s)
      BY <2>5, <3>5, <3>8
    <3> QED BY <2>3, <3>9 DEF r
  <2> QED BY <2>6, <2>7
<1>4. CASE ~Starred(pat, s) /\ Fitting(pat, txt, s)
  <2>1. r = At(pi + 1, ti + 1, star, st) /\ pi \in 1 .. Len(pat) /\ pat[pi] # "*" /\ Fits(pat[pi], txt[ti])
    BY <1>1, <1>4 DEF Forward, Starred, Fitting
  <2>2. r.pi = pi + 1 /\ r.ti = ti + 1 /\ r.star = star /\ r.star_ti = st
    BY <2>1 DEF At
  <2>3. m[pi] = {t \in 1..Len(txt) : Fits(pat[pi], txt[t]) /\ t + 1 \in m[pi + 1]}
    <3> HIDE DEF pi
    <3> QED BY <2>1, MeaningsAre
  <2>4. ti \in m[pi] <=> ti + 1 \in m[pi + 1]
    <3> HIDE DEF pi, ti
    <3> QED BY <1>1, <1>2, <2>1, <2>3
  <2>5. Right(m, r) <=> Right(m, s)
    <3> HIDE DEF r
    <3> QED BY <2>2, <2>4 DEF Right
  <2>6. ASSUME star # 0
        PROVE  /\ pat[star] = "*"
               /\ \A i \in star + 1 .. pi : pat[i] # "*"
               /\ (ti + 1) - st = (pi + 1) - star - 1
               /\ st \in m[star + 1] <=> ti + 1 \in m[pi + 1]
    <3>1. /\ pat[star] = "*"
          /\ \A i \in star + 1 .. pi - 1 : pat[i] # "*"
          /\ ti - st = pi - star - 1
          /\ st \in m[star + 1] <=> ti \in m[pi]
      BY <2>6 DEF Kept
    <3> HIDE DEF pi, ti, star, st
    <3>2. \A i \in star + 1 .. pi : i = pi \/ i \in star + 1 .. pi - 1
      BY <1>1
    <3> QED BY <1>1, <2>1, <2>4, <3>1, <3>2
  <2>7. (pi + 1) - 1 = pi
    BY <1>1
  <2>8. Kept(m, pat, r)
    <3> HIDE DEF pi, ti, star, st, r
    <3> QED BY <2>2, <2>6, <2>7 DEF Kept
  <2> QED BY <2>5, <2>8
<1>5. CASE ~Starred(pat, s) /\ ~Fitting(pat, txt, s)
  <2>1. r = At(star + 1, st + 1, star, st + 1) /\ star # 0
    BY <1>5 DEF Forward, Stuck
  <2>2. r.pi = star + 1 /\ r.ti = st + 1 /\ r.star = star /\ r.star_ti = st + 1
    BY <2>1 DEF At
  <2>3. pat[star] = "*" /\ (st \in m[star + 1] <=> ti \in m[pi])
    BY <2>1 DEF Kept
  <2>4. ti \notin m[pi]
    BY <1>5, NotRightWhenStuck
  <2>5. Kept(m, pat, r)
    <3> HIDE DEF star, st, r
    <3> QED BY <1>1, <2>2, <2>3 DEF Kept
  <2>6. \A u \in m[star + 1] : u \in Nat
    <3>1. star + 1 \in 1 .. Len(pat) + 1
      BY <1>1
    <3> QED BY <3>1, MeaningsAre
  <2>7. \A u \in m[star + 1] : st <= u <=> st + 1 <= u
    <3> HIDE DEF star, st, ti, pi
    <3> QED BY <1>1, <2>3, <2>4, <2>6
  <2>8. Right(m, r) <=> Right(m, s)
    <3>1. Right(m, r) <=> \E u \in m[star + 1] : st + 1 <= u
      <4> HIDE DEF r, star, st
      <4> QED BY <2>1, <2>2 DEF Right
    <3>2. Right(m, s) <=> \E u \in m[star + 1] : st <= u
      BY <2>1 DEF Right
    <3> QED BY <2>7, <3>1, <3>2
  <2> QED BY <2>5, <2>8
<1> QED BY <1>3, <1>4, <1>5

\* What a pattern means with stars that stop, it means with stars that do not.
LEMMA AcrossReadsMore ==
  ASSUME NEW C, NEW T, NEW pat \in Seq(C), NEW txt \in Seq(T), Means(pat, txt)
  PROVE  MeansAcross(pat, txt)
<1> DEFINE P == Len(pat)
           stops == Slashes(txt)
<1>0. P \in Nat /\ Len(txt) \in Nat
  BY LenProperties
<1>1. PICK m : MeansAcross(pat, txt) = (1 \in m[1]) /\ Meanings(m, pat, txt)
  BY AcrossExists
<1>2. PICK w : /\ Reads(stops, pat, txt) = (1 \in w[1])
               /\ \A p \in 1 .. Len(pat) + 1 : w[p] = SuitsTo(stops, w, pat, txt, p)
  <2> HIDE DEF stops
  <2> QED BY ReadsExists
<1> DEFINE S == {n \in Nat : \A p \in 1 .. P + 1 : P + 1 - p = n => w[p] \subseteq m[p]}
<1> HIDE DEF stops
<1>3. 0 \in S
  <2>1. \A p \in 1 .. P + 1 : P + 1 - p = 0 => p = P + 1
    BY <1>0
  <2>2. w[P + 1] = {Len(txt) + 1} /\ m[P + 1] = {Len(txt) + 1}
    <3>1. P + 1 \in 1 .. P + 1 /\ P + 1 > P
      BY <1>0
    <3>2. w[P + 1] = SuitsTo(stops, w, pat, txt, P + 1)
      BY <1>2, <3>1
    <3>3. SuitsTo(stops, w, pat, txt, P + 1) = {Len(txt) + 1}
      BY <3>1 DEF SuitsTo
    <3> QED BY <1>1, <3>2, <3>3, MeaningsAre
  <2> HIDE DEF P
  <2> QED BY <2>1, <2>2
<1>4. ASSUME NEW n \in 0 .. P, n < P, n \in S PROVE n + 1 \in S
  <2>1. ASSUME NEW p \in 1 .. P + 1, P + 1 - p = n + 1 PROVE w[p] \subseteq m[p]
    <3>1. p \in 1 .. P /\ ~(p > P) /\ p + 1 \in 1 .. P + 1 /\ P + 1 - (p + 1) = n
      BY <1>0, <2>1
    <3>2. w[p + 1] \subseteq m[p + 1]
      <4> HIDE DEF P
      <4> QED BY <1>4, <3>1
    <3>3. w[p] = SuitsTo(stops, w, pat, txt, p)
      BY <1>2
    <3>4. CASE pat[p] = "*"
      <4>1. m[p] = {t \in 1..(Len(txt) + 1) : \E u \in m[p + 1] : t <= u}
        BY <1>1, <3>1, <3>4, MeaningsAre
      <4>2. \A t \in w[p] : t \in 1..(Len(txt) + 1) /\ \E u \in w[p + 1] : t <= u
        BY <3>1, <3>3, <3>4 DEF SuitsTo
      <4> HIDE DEF P
      <4> QED BY <3>2, <4>1, <4>2
    <3>5. CASE pat[p] # "*"
      <4>1. m[p] = {t \in 1..Len(txt) : Fits(pat[p], txt[t]) /\ t + 1 \in m[p + 1]}
        BY <1>1, <3>1, <3>5, MeaningsAre
      <4>2. \A t \in w[p] : t \in 1..Len(txt) /\ Fits(pat[p], txt[t]) /\ t + 1 \in w[p + 1]
        BY <3>1, <3>3, <3>5 DEF SuitsTo
      <4> HIDE DEF P
      <4> QED BY <3>2, <4>1, <4>2
    <3> QED BY <3>4, <3>5
  <2> HIDE DEF P
  <2>2. n + 1 \in Nat
    BY <1>4
  <2> QED BY <2>1, <2>2
<1>5. 0 .. P \subseteq S
  <2>1. \A n \in 0 .. P : n < P /\ n \in S => n + 1 \in S
    BY <1>4
  <2> HIDE DEF S, P
  <2> QED BY <1>0, <1>3, <2>1, UpTo
<1>6. w[1] \subseteq m[1]
  <2>1. P \in 0 .. P /\ 1 \in 1 .. P + 1 /\ P + 1 - 1 = P
    BY <1>0
  <2>2. P \in S
    <3> HIDE DEF S, P
    <3> QED BY <1>5, <2>1
  <2> HIDE DEF P
  <2> QED BY <2>1, <2>2
<1> QED BY <1>1, <1>2, <1>6 DEF Means, stops

\* Whatever the pattern and the text are, and however long: the matcher of the file paths,
\* which goes back to the last star only and never to an earlier one, accepts every text the
\* pattern means, and no other text without a slash (glob_matches).  In a text with a slash
\* its stars go across, where the comment has them stop.
THEOREM GlobScanIsComplete ==
  ASSUME NEW C, NEW T, NEW c, c.pattern \in Seq(C), c.text \in Seq(T)
  PROVE  ScanIsComplete(c)
<1> DEFINE pat == c.pattern
           txt == c.text
           D == Places(pat, txt)
           K == Len(pat) + 2
           B == K * (Len(txt) + 1) + K
<1>1. pat \in Seq(C) /\ txt \in Seq(T)
  OBVIOUS
<1> HIDE DEF pat, txt
<1>2. PICK f : Scans(f, pat, txt)
  BY <1>1, ScanExists
<1>3. PICK m : MeansAcross(pat, txt) = (1 \in m[1]) /\ Meanings(m, pat, txt)
  BY <1>1, AcrossExists
<1>4. /\ B \in Nat
      /\ \A s \in D : /\ Progress(K, s) \in 0 .. B
                      /\ ~Ended(txt, s) /\ ~Stuck(pat, txt, s) => Progress(K, s) < Progress(K, Forward(pat, txt, s))
  BY <1>1, ForwardProgress
<1>5. \A s \in D : Right(m, s) \in BOOLEAN
  <2> SUFFICES ASSUME NEW s \in D PROVE Right(m, s) \in BOOLEAN
    OBVIOUS
  <2>1. CASE s.star = 0
    <3>1. Right(m, s) = (s.ti \in m[s.pi])
      BY <2>1 DEF Right
    <3> QED BY <3>1
  <2>2. CASE s.star # 0
    <3>1. Right(m, s) = (\E u \in m[s.star + 1] : s.star_ti <= u)
      BY <2>2 DEF Right
    <3> QED BY <3>1
  <2> QED BY <2>1, <2>2
<1> DEFINE S == {n \in Nat : \A s \in D : B - Progress(K, s) < n /\ Kept(m, pat, s) => f[s] = Right(m, s)}
<1>6. 0 \in S
  <2> HIDE DEF B, D, K
  <2>1. \A s \in D : ~(B - Progress(K, s) < 0)
    BY <1>4
  <2> QED BY <2>1
<1>7. ASSUME NEW n \in 0 .. B + 1, n < B + 1, n \in S PROVE n + 1 \in S
  <2>1. ASSUME NEW s \in D, B - Progress(K, s) < n + 1, Kept(m, pat, s) PROVE f[s] = Right(m, s)
    <3>1. f[s] = IF Ended(txt, s) THEN OnlyStars(pat, s.pi)
                 ELSE IF Stuck(pat, txt, s) THEN FALSE ELSE f[Forward(pat, txt, s)]
      BY <1>2 DEF Scans
    <3>2. CASE Ended(txt, s)
      <4>1. Right(m, s) <=> OnlyStars(pat, s.pi)
        BY <1>1, <1>3, <2>1, <3>2, RightAtTheEnd
      <4>2. OnlyStars(pat, s.pi) \in BOOLEAN
        BY DEF OnlyStars
      <4>3. f[s] = OnlyStars(pat, s.pi)
        BY <3>1, <3>2
      <4> QED BY <1>5, <4>1, <4>2, <4>3
    <3>3. CASE ~Ended(txt, s) /\ Stuck(pat, txt, s)
      <4>1. s.ti \notin m[s.pi] /\ s.star = 0
        BY <1>1, <1>3, <3>3, NotRightWhenStuck DEF Stuck
      <4>2. Right(m, s) = FALSE
        BY <4>1 DEF Right
      <4> QED BY <3>1, <3>3, <4>2
    <3>4. CASE ~Ended(txt, s) /\ ~Stuck(pat, txt, s)
      <4> DEFINE r == Forward(pat, txt, s)
      <4>1. r \in D
        BY <1>1, <3>4, PlacesAre
      <4>2. Kept(m, pat, r) /\ (Right(m, r) <=> Right(m, s))
        BY <1>1, <1>3, <2>1, <3>4, StepKeeps
      <4>3. Progress(K, s) < Progress(K, r) /\ Progress(K, s) \in 0 .. B /\ Progress(K, r) \in 0 .. B
        BY <1>4, <3>4, <4>1
      <4>4. f[s] = f[r]
        BY <3>1, <3>4
      <4> HIDE DEF r, B, D, K
      <4>5. B - Progress(K, r) < n
        BY <1>4, <2>1, <4>3
      <4>6. f[r] = Right(m, r)
        BY <1>7, <4>1, <4>2, <4>5
      <4> QED BY <1>5, <4>1, <4>2, <4>4, <4>6
    <3> QED BY <3>2, <3>3, <3>4
  <2> HIDE DEF B, D, K
  <2>2. n + 1 \in Nat
    BY <1>4
  <2> QED BY <2>1, <2>2
<1>8. B + 1 \in S
  <2> DEFINE N == B + 1
  <2>1. N \in Nat /\ \A n \in 0 .. N : n < N /\ n \in S => n + 1 \in S
    BY <1>4, <1>7
  <2>2. 0 \in S
    BY <1>6
  <2> HIDE DEF S, N
  <2>3. 0 .. N \subseteq S
    BY <2>1, <2>2, UpTo
  <2>4. N \in S
    BY <2>1, <2>3
  <2> QED BY <2>4 DEF N
<1> DEFINE start == At(1, 1, 0, 0)
<1>9. start \in D /\ Kept(m, pat, start) /\ (Right(m, start) <=> 1 \in m[1])
  <2>1. start.pi = 1 /\ start.ti = 1 /\ start.star = 0
    BY DEF At
  <2>2. start \in D
    BY <1>1, PlacesAre
  <2> HIDE DEF start
  <2> QED BY <2>1, <2>2 DEF Kept, Right
<1>10. f[start] = Right(m, start)
  <2> HIDE DEF B, D, K, start
  <2>1. B - Progress(K, start) < B + 1
    BY <1>4, <1>9
  <2> QED BY <1>8, <1>9, <2>1
<1>11. GlobMatches(pat, txt) = f[start]
  BY <1>2 DEF Scans
<1>12. GlobMatches(pat, txt) = MeansAcross(pat, txt)
  <2> HIDE DEF start, D
  <2> QED BY <1>3, <1>5, <1>9, <1>10, <1>11
<1>13. Means(pat, txt) => MeansAcross(pat, txt)
  BY <1>1, AcrossReadsMore
<1>14. Slashes(txt) = {} => Means(pat, txt) = MeansAcross(pat, txt)
  BY DEF Means, MeansAcross
<1>15. /\ Means(pat, txt) => GlobMatches(pat, txt)
       /\ GlobMatches(pat, txt) /\ Slashes(txt) = {} => Means(pat, txt)
  BY <1>12, <1>13, <1>14
<1> QED BY <1>15 DEF ScanIsComplete, pat, txt

-----------------------------------------------------------------------------
(* The columns that unnest builds apart from each other. *)

\* A batch of any length whose array column holds arrays of any lengths, NULLs and other
\* values, which are not readable.
Arrayed(rows, J, others) ==
  /\ \A r \in 1..Len(rows) : rows[r].cell \in {Nothing, JNull} \cup {JArray(s) : s \in Seq(J)} \cup others
  /\ \A o \in others : ~Readable(o)

ElementsOf(rows) == [r \in 1..Len(rows) |-> ExtractElements(rows[r].cell)]

LEMMA ElementsType ==
  ASSUME NEW R, NEW J, NEW others, NEW rows \in Seq(R), Arrayed(rows, J, others),
         \A r \in DOMAIN rows : Readable(rows[r].cell)
  PROVE  /\ DOMAIN rows = 1..Len(rows) /\ Len(rows) \in Nat
         /\ ElementsOf(rows) \in Seq(Seq(J)) /\ Len(ElementsOf(rows)) = Len(rows)
         /\ \A r \in 1..Len(rows) : /\ ElementsOf(rows)[r] = ExtractElements(rows[r].cell)
                                    /\ ElementsOf(rows)[r] \in Seq(J)
                                    /\ DOMAIN ElementsOf(rows)[r] = 1..Len(ElementsOf(rows)[r])
<1>1. DOMAIN rows = 1..Len(rows) /\ Len(rows) \in Nat
  BY LenProperties
<1>2. ASSUME NEW r \in 1..Len(rows) PROVE ExtractElements(rows[r].cell) \in Seq(J)
  <2>1. rows[r].cell \in {Nothing, JNull} \cup {JArray(s) : s \in Seq(J)}
    BY <1>1 DEF Arrayed
  <2>2. CASE rows[r].cell \in {Nothing, JNull}
    BY <2>2 DEF ExtractElements
  <2>3. CASE rows[r].cell \notin {Nothing, JNull}
    <3>1. PICK s \in Seq(J) : rows[r].cell = JArray(s)
      BY <2>1, <2>3
    <3>2. ExtractElements(rows[r].cell) = s
      BY <2>3, <3>1 DEF ExtractElements, JArray
    <3> QED BY <3>2
  <2> QED BY <2>2, <2>3
<1>3. /\ \A r \in 1..Len(rows) : ElementsOf(rows)[r] = ExtractElements(rows[r].cell)
      /\ ElementsOf(rows) \in [1..Len(rows) -> Seq(J)]
  BY <1>2 DEF ElementsOf
<1>4. ElementsOf(rows) \in Seq(Seq(J)) /\ Len(ElementsOf(rows)) = Len(rows)
  BY <1>1, <1>3, SeqDef, LenProperties
<1>5. \A r \in 1..Len(rows) : ElementsOf(rows)[r] \in Seq(J) /\ DOMAIN ElementsOf(rows)[r] = 1..Len(ElementsOf(rows)[r])
  BY <1>2, <1>3, LenProperties
<1> QED BY <1>1, <1>3, <1>4, <1>5

Spread(cells, elements) == [r \in 1..Len(elements) |-> [n \in 1..Len(elements[r]) |-> cells[r][n]]]

\* A column that has a value of its own for each element of each row.
LEMMA ColumnLaid ==
  ASSUME NEW J, NEW elements \in Seq(Seq(J)), NEW cells
  PROVE  /\ Len(FlattenSeq(Spread(cells, elements))) = Len(PlacesIn(elements))
         /\ \A i \in 1..Len(PlacesIn(elements)) :
              FlattenSeq(Spread(cells, elements))[i] = cells[PlacesIn(elements)[i][1]][PlacesIn(elements)[i][2]]
<1> DEFINE S == {cells[p[1]][p[2]] : p \in Nat \X Nat}
           row(r) == [n \in 1..Len(elements[r]) |-> cells[r][n]]
           cols == [r \in 1..Len(elements) |-> row(r)]
           places == PlacesIn(elements)
<1>1. Len(elements) \in Nat /\ \A r \in 1..Len(elements) : elements[r] \in Seq(J) /\ Len(elements[r]) \in Nat
  <2>1. \A r \in 1..Len(elements) : elements[r] \in Seq(J)
    BY LenProperties, ElementOfSeq
  <2> QED BY <2>1, LenProperties
<1>2. \A r \in 1..Len(elements) : /\ row(r) \in Seq(S) /\ Len(row(r)) = Len(elements[r])
                                   /\ \A n \in 1..Len(elements[r]) : row(r)[n] = cells[r][n]
  <2> SUFFICES ASSUME NEW r \in 1..Len(elements)
               PROVE  /\ row(r) \in Seq(S) /\ Len(row(r)) = Len(elements[r])
                      /\ \A n \in 1..Len(elements[r]) : row(r)[n] = cells[r][n]
    OBVIOUS
  <2>1. \A n \in 1..Len(elements[r]) : cells[r][n] \in S
    <3> SUFFICES ASSUME NEW n \in 1..Len(elements[r]) PROVE cells[r][n] \in S
      OBVIOUS
    <3> DEFINE p == <<r, n>>
    <3>1. p \in Nat \X Nat /\ p[1] = r /\ p[2] = n
      BY <1>1
    <3> HIDE DEF p
    <3> QED BY <3>1
  <2> HIDE DEF S
  <2>2. row(r) \in [1..Len(elements[r]) -> S] /\ \A n \in 1..Len(elements[r]) : row(r)[n] = cells[r][n]
    BY <2>1
  <2> HIDE DEF row
  <2> QED BY <1>1, <2>2, TableIsSeq
<1> HIDE DEF row, S
<1>3. cols \in [1..Len(elements) -> Seq(S)] /\ \A r \in 1..Len(elements) : cols[r] = row(r)
  BY <1>2
<1>4. cols \in Seq(Seq(S)) /\ Len(cols) = Len(elements)
  <2> DEFINE V == Seq(S)
             N == Len(elements)
  <2>1. cols \in [1..N -> V] /\ N \in Nat
    BY <1>1, <1>3
  <2> HIDE DEF cols, V, N
  <2> QED BY <2>1, TableIsSeq DEF V, N
<1>5. /\ Len(FlattenSeq(cols)) = Len(places)
      /\ \A i \in 1..Len(places) : FlattenSeq(cols)[i] = cols[places[i][1]][places[i][2]]
  <2>1. PlacesIn(cols) = places
    <3> HIDE DEF cols
    <3>1. \A r \in 1..Len(elements) : Len(cols[r]) = Len(elements[r])
      BY <1>2, <1>3
    <3>2. \A r \in 1..Len(elements) : [n \in 1..Len(cols[r]) |-> <<r, n>>] = [n \in 1..Len(elements[r]) |-> <<r, n>>]
      BY <3>1
    <3> QED BY <1>4, <3>2 DEF PlacesIn
  <2> HIDE DEF cols, places
  <2>2. Laid(cols, Len(cols), PlacesIn(cols), FlattenSeq(cols))
    BY <1>4, FlattenLays
  <2> QED BY <2>1, <2>2 DEF Laid
<1>6. Laid(elements, Len(elements), places, FlattenSeq(elements))
  BY FlattenLays
<1>7. \A i \in 1..Len(places) : cols[places[i][1]][places[i][2]] = cells[places[i][1]][places[i][2]]
  <2> SUFFICES ASSUME NEW i \in 1..Len(places)
               PROVE  cols[places[i][1]][places[i][2]] = cells[places[i][1]][places[i][2]]
    OBVIOUS
  <2>1. places[i][1] \in 1..Len(elements) /\ places[i][2] \in 1..Len(elements[places[i][1]])
    BY <1>6 DEF Laid
  <2> HIDE DEF places, cols
  <2> QED BY <1>2, <1>3, <2>1
<1>8. Spread(cells, elements) = cols
  BY DEF row, Spread
<1> HIDE DEF cols
<1> QED BY <1>5, <1>7, <1>8

\* For every batch, whatever the lengths of its arrays and whichever columns are asked for:
\* unnest makes a batch just if every cell of its column can be read; then each element has
\* one place, in the order of the rows and of the elements in them, and every column, the
\* parents' and the children's, has at that place what belongs to that row and that element.
\* (Nothing is said of a batch with another cell, with which the whole step fails.)
THEOREM UnnestedColumnsLineUp ==
  ASSUME NEW R, NEW J, NEW others, NEW rows \in Seq(R), Arrayed(rows, J, others), NEW parents, NEW fields
  PROVE  LET out      == ApplyUnnest(rows, parents, fields)
             elements == ElementsOf(rows)
             places   == PlacesIn(elements)
         IN  /\ out.ok <=> \A r \in 1..Len(rows) : Readable(rows[r].cell)
             /\ out.ok =>
                  /\ Laid(elements, Len(rows), places, FlattenSeq(elements))
                  /\ DOMAIN out.columns = DOMAIN parents \cup DOMAIN fields
                  /\ \A c \in DOMAIN out.columns :
                       /\ Len(out.columns[c]) = Len(places)
                       /\ \A i \in 1..Len(places) :
                            out.columns[c][i] =
                              IF c \in DOMAIN fields
                              THEN ExtractField(elements[places[i][1]][places[i][2]], fields[c])
                              ELSE rows[places[i][1]].parent[parents[c]]
<1> DEFINE out == ApplyUnnest(rows, parents, fields)
           elements == ElementsOf(rows)
           places == PlacesIn(elements)
           N == Len(rows)
           cols == DOMAIN parents \cup DOMAIN fields
           child(c) == FlattenSeq([r \in DOMAIN rows |->
                         [n \in DOMAIN ExtractElements(rows[r].cell) |->
                            ExtractField(ExtractElements(rows[r].cell)[n], fields[c])]])
           parent(c) == FlattenSeq([r \in DOMAIN rows |->
                          [n \in DOMAIN ExtractElements(rows[r].cell) |-> rows[r].parent[parents[c]]]])
           columns == [c \in cols |-> IF c \in DOMAIN fields THEN child(c) ELSE parent(c)]
<1>0. DOMAIN rows = 1..N
  BY LenProperties
<1>1. out = IF \A r \in DOMAIN rows : Readable(rows[r].cell)
            THEN [ok |-> \A c, d \in DOMAIN columns : Len(columns[c]) = Len(columns[d]), columns |-> columns]
            ELSE [ok |-> FALSE, columns |-> <<>>]
  BY DEF ApplyUnnest, ChildColumn, ParentColumn
<1> HIDE DEF out
<1>2. ~(\A r \in 1..N : Readable(rows[r].cell)) => ~out.ok
  <2> HIDE DEF columns
  <2> QED BY <1>0, <1>1
<1>3. ASSUME \A r \in 1..N : Readable(rows[r].cell)
      PROVE  /\ out.ok
             /\ Laid(elements, N, places, FlattenSeq(elements))
             /\ DOMAIN out.columns = cols
             /\ \A c \in cols :
                  /\ Len(out.columns[c]) = Len(places)
                  /\ \A i \in 1..Len(places) :
                       out.columns[c][i] =
                         IF c \in DOMAIN fields
                         THEN ExtractField(elements[places[i][1]][places[i][2]], fields[c])
                         ELSE rows[places[i][1]].parent[parents[c]]
  <2>1. /\ N \in Nat /\ elements \in Seq(Seq(J)) /\ Len(elements) = N
        /\ \A r \in 1..N : /\ elements[r] = ExtractElements(rows[r].cell)
                           /\ elements[r] \in Seq(J)
                           /\ DOMAIN elements[r] = 1..Len(elements[r])
    BY <1>0, <1>3, ElementsType
  <2> HIDE DEF elements
  <2>2. Laid(elements, N, places, FlattenSeq(elements))
    BY <2>1, FlattenLays
  <2>3. \A i \in 1..Len(places) : places[i][1] \in 1..N /\ places[i][2] \in 1..Len(elements[places[i][1]])
    BY <2>2 DEF Laid
  <2>4. ASSUME NEW c \in DOMAIN fields
        PROVE  /\ Len(child(c)) = Len(places)
               /\ \A i \in 1..Len(places) :
                    child(c)[i] = ExtractField(elements[places[i][1]][places[i][2]], fields[c])
    <3> DEFINE cells == [r \in 1..N |-> [n \in 1..Len(elements[r]) |-> ExtractField(elements[r][n], fields[c])]]
    <3>1. \A r \in 1..N : \A n \in 1..Len(elements[r]) : cells[r][n] = ExtractField(elements[r][n], fields[c])
      OBVIOUS
    <3>4. child(c) = FlattenSeq(Spread(cells, elements))
      <4>1. \A r \in 1..N : [n \in DOMAIN ExtractElements(rows[r].cell) |->
                               ExtractField(ExtractElements(rows[r].cell)[n], fields[c])]
                            = [n \in 1..Len(elements[r]) |-> cells[r][n]]
        <5> HIDE DEF cells, N
        <5> QED BY <2>1, <3>1
      <4> HIDE DEF cells, N
      <4>2. [r \in DOMAIN rows |->
                [n \in DOMAIN ExtractElements(rows[r].cell) |->
                   ExtractField(ExtractElements(rows[r].cell)[n], fields[c])]]
            = [r \in 1..Len(elements) |-> [n \in 1..Len(elements[r]) |-> cells[r][n]]]
        BY <1>0, <2>1, <4>1
      <4> QED BY <4>2 DEF Spread
    <3> DEFINE column == child(c)
    <3> HIDE DEF cells, child
    <3>5. /\ Len(column) = Len(places)
          /\ \A i \in 1..Len(places) : column[i] = cells[places[i][1]][places[i][2]]
      <4>1. elements \in Seq(Seq(J))
        BY <2>1
      <4> QED BY <3>4, <4>1, ColumnLaid
    <3> QED BY <2>3, <3>1, <3>5
  <2>5. ASSUME NEW c \in cols, c \notin DOMAIN fields
        PROVE  /\ Len(parent(c)) = Len(places)
               /\ \A i \in 1..Len(places) : parent(c)[i] = rows[places[i][1]].parent[parents[c]]
    <3> DEFINE cells == [r \in 1..N |-> [n \in 1..Len(elements[r]) |-> rows[r].parent[parents[c]]]]
    <3>1. \A r \in 1..N : \A n \in 1..Len(elements[r]) : cells[r][n] = rows[r].parent[parents[c]]
      OBVIOUS
    <3>4. parent(c) = FlattenSeq(Spread(cells, elements))
      <4>1. \A r \in 1..N : [n \in DOMAIN ExtractElements(rows[r].cell) |-> rows[r].parent[parents[c]]]
                            = [n \in 1..Len(elements[r]) |-> cells[r][n]]
        <5> HIDE DEF cells, N
        <5> QED BY <2>1, <3>1
      <4> HIDE DEF cells, N
      <4>2. [r \in DOMAIN rows |->
                [n \in DOMAIN ExtractElements(rows[r].cell) |-> rows[r].parent[parents[c]]]]
            = [r \in 1..Len(elements) |-> [n \in 1..Len(elements[r]) |-> cells[r][n]]]
        BY <1>0, <2>1, <4>1
      <4> QED BY <4>2 DEF Spread
    <3> DEFINE column == parent(c)
    <3> HIDE DEF cells, parent
    <3>5. /\ Len(column) = Len(places)
          /\ \A i \in 1..Len(places) : column[i] = cells[places[i][1]][places[i][2]]
      <4>1. elements \in Seq(Seq(J))
        BY <2>1
      <4> QED BY <3>4, <4>1, ColumnLaid
    <3> QED BY <2>3, <3>1, <3>5
  <2> HIDE DEF child, parent, places
  <2>6. DOMAIN columns = cols /\ \A c \in cols : columns[c] = IF c \in DOMAIN fields THEN child(c) ELSE parent(c)
    OBVIOUS
  <2> HIDE DEF columns
  <2>7. \A c \in cols :
          /\ Len(columns[c]) = Len(places)
          /\ \A i \in 1..Len(places) :
               columns[c][i] = IF c \in DOMAIN fields
                               THEN ExtractField(elements[places[i][1]][places[i][2]], fields[c])
                               ELSE rows[places[i][1]].parent[parents[c]]
    <3> SUFFICES ASSUME NEW c \in cols
                 PROVE  /\ Len(columns[c]) = Len(places)
                        /\ \A i \in 1..Len(places) :
                             columns[c][i] = IF c \in DOMAIN fields
                                             THEN ExtractField(elements[places[i][1]][places[i][2]], fields[c])
                                             ELSE rows[places[i][1]].parent[parents[c]]
      OBVIOUS
    <3>1. CASE c \in DOMAIN fields
      BY <2>4, <2>6, <3>1
    <3>2. CASE c \notin DOMAIN fields
      BY <2>5, <2>6, <3>2
    <3> QED BY <3>1, <3>2
  <2>8. out = [ok |-> \A c, d \in DOMAIN columns : Len(columns[c]) = Len(columns[d]), columns |-> columns]
    BY <1>0, <1>1, <1>3
  <2>9. \A c, d \in DOMAIN columns : Len(columns[c]) = Len(columns[d])
    BY <2>6, <2>7
  <2>10. out.ok /\ out.columns = columns
    BY <2>8, <2>9
  <2> HIDE DEF cols
  <2>11. DOMAIN out.columns = cols
    BY <2>6, <2>10
  <2>12. \A c \in cols :
          /\ Len(out.columns[c]) = Len(places)
          /\ \A i \in 1..Len(places) :
               out.columns[c][i] = IF c \in DOMAIN fields
                                   THEN ExtractField(elements[places[i][1]][places[i][2]], fields[c])
                                   ELSE rows[places[i][1]].parent[parents[c]]
    BY <2>7, <2>10
  <2> QED BY <2>2, <2>10, <2>11, <2>12
<1> HIDE DEF elements, places, columns, cols
<1>4. out.ok <=> \A r \in 1..N : Readable(rows[r].cell)
  BY <1>2, <1>3
<1>5. out.ok =>
        /\ Laid(elements, N, places, FlattenSeq(elements))
        /\ DOMAIN out.columns = cols
        /\ \A c \in DOMAIN out.columns :
             /\ Len(out.columns[c]) = Len(places)
             /\ \A i \in 1..Len(places) :
                  out.columns[c][i] =
                    IF c \in DOMAIN fields
                    THEN ExtractField(elements[places[i][1]][places[i][2]], fields[c])
                    ELSE rows[places[i][1]].parent[parents[c]]
  BY <1>3, <1>4
<1> QED BY <1>4, <1>5 DEF out, elements, places, cols
=============================================================================
