---------------------------- MODULE CodecProofs ----------------------------
(***************************************************************************)
(* Proofs about UrlCodec and StickyPack, for strings and messages of every *)
(* length.  What a recursive definition computes is proved by induction    *)
(* over sets of naturals, and that it defines a function at all likewise.  *)
(***************************************************************************)
EXTENDS MCCodecs, SequenceTheorems, WellFoundedInduction, TLAPS

(* What holds of 0, and of n + 1 when it holds of n, holds of every        *)
(* natural: what fails for some would fail for a least one.                *)
LEMMA Induction ==
  ASSUME NEW S, 0 \in S, \A n \in Nat : n \in S => n + 1 \in S
  PROVE  \A n \in Nat : n \in S
<1> DEFINE T == {n \in Nat : n \notin S}
<1>1. SUFFICES ASSUME T # {} PROVE FALSE
  OBVIOUS
<1>2. IsWellFoundedOn(OpToRel(<, Nat), Nat)
  BY NatLessThanWellFounded
<1>3. PICK x \in T : \A y \in T : ~(<<y, x>> \in OpToRel(<, Nat))
  BY <1>1, <1>2, WFMin
<1>4. x \in Nat \ {0} /\ x - 1 \in Nat /\ (x - 1) + 1 = x /\ x - 1 < x
  OBVIOUS
<1>5. <<x - 1, x>> \in OpToRel(<, Nat)
  BY <1>4 DEF OpToRel
<1>6. x - 1 \in S
  BY <1>3, <1>4, <1>5
<1>7. QED
  BY <1>4, <1>6

(* The same for what holds of 0..n. *)
LEMMA InductionUpTo ==
  ASSUME NEW n \in Nat, NEW S, 0 \in S, \A i \in 1..n : i - 1 \in S => i \in S
  PROVE  \A i \in 0..n : i \in S
<1> DEFINE T == {i \in Nat : i <= n => i \in S}
<1>1. 0 \in T
  OBVIOUS
<1>2. ASSUME NEW i \in Nat, i \in T PROVE i + 1 \in T
  <2>1. SUFFICES ASSUME i + 1 <= n PROVE i + 1 \in S
    OBVIOUS
  <2>2. i <= n /\ i + 1 \in 1..n /\ (i + 1) - 1 = i
    BY <2>1
  <2>3. i \in S
    BY <1>2, <2>2
  <2>4. QED
    BY <2>2, <2>3
<1>3. \A i \in Nat : i \in T
  <2> HIDE DEF T
  <2>1. QED
    BY <1>1, <1>2, Induction
<1>4. QED
  BY <1>3

(* The same downward. *)
LEMMA InductionDown ==
  ASSUME NEW n \in Nat, NEW S, n \in S, \A i \in 1..n : i \in S => i - 1 \in S
  PROVE  \A i \in 0..n : i \in S
<1> DEFINE T == {k \in 0..n : n - k \in S}
<1>1. 0 \in T
  <2>1. n - 0 = n /\ 0 \in 0..n
    OBVIOUS
  <2>2. QED
    BY <2>1
<1>2. ASSUME NEW k \in 1..n, k - 1 \in T PROVE k \in T
  <2>1. n - (k - 1) \in 1..n /\ (n - (k - 1)) - 1 = n - k /\ k \in 0..n
    OBVIOUS
  <2>2. n - (k - 1) \in S
    BY <1>2
  <2>3. QED
    BY <2>1, <2>2
<1>3. \A k \in 0..n : k \in T
  <2> HIDE DEF T
  <2>1. QED
    BY <1>1, <1>2, InductionUpTo
<1>4. ASSUME NEW i \in 0..n PROVE i \in S
  <2>1. n - i \in 0..n /\ n - (n - i) = i
    OBVIOUS
  <2>2. n - (n - i) \in S
    BY <1>3, <2>1
  <2>3. QED
    BY <2>1, <2>2
<1>5. QED
  BY <1>4
-----------------------------------------------------------------------------
(* A recursion on the position before. *)
LEMMA SumExists ==
  ASSUME NEW seqs, NEW n \in Nat
  PROVE  \E g : g = [i \in 1..n |-> IF i = 1 THEN seqs[i] ELSE g[i - 1] \o seqs[i]]
<1> DEFINE Is(g, k) == g = [i \in 1..k |-> IF i = 1 THEN seqs[i] ELSE g[i - 1] \o seqs[i]]
           T == {k \in Nat : \E g : Is(g, k)}
<1>1. 0 \in T
  <2>1. Is([i \in {} |-> 0], 0)
    OBVIOUS
  <2>2. QED
    BY <2>1
<1>2. ASSUME NEW k \in Nat, k \in T PROVE k + 1 \in T
  <2>1. PICK g : Is(g, k)
    BY <1>2
  <2> DEFINE h == [i \in 1..(k + 1) |->
                     IF i <= k THEN g[i]
                     ELSE IF i = 1 THEN seqs[i] ELSE g[i - 1] \o seqs[i]]
  <2>2. \A i \in 1..k : h[i] = g[i]
    OBVIOUS
  <2>3. ASSUME NEW i \in 1..(k + 1)
        PROVE  h[i] = IF i = 1 THEN seqs[i] ELSE h[i - 1] \o seqs[i]
    <3>1. CASE i <= k
      <4>1. i \in 1..k /\ (i # 1 => i - 1 \in 1..k)
        BY <3>1
      <4>2. g[i] = IF i = 1 THEN seqs[i] ELSE g[i - 1] \o seqs[i]
        BY <2>1, <4>1
      <4>3. QED
        BY <2>2, <4>1, <4>2
    <3>2. CASE ~(i <= k)
      <4>1. h[i] = IF i = 1 THEN seqs[i] ELSE g[i - 1] \o seqs[i]
        BY <3>2
      <4>2. i # 1 => i - 1 \in 1..k
        BY <3>2
      <4>3. QED
        BY <2>2, <4>1, <4>2
    <3>3. QED
      BY <3>1, <3>2
  <2>4. Is(h, k + 1)
    <3>1. h = [i \in 1..(k + 1) |-> h[i]]
      OBVIOUS
    <3> HIDE DEF h
    <3>2. QED
      BY <2>3, <3>1
  <2>5. QED
    <3> HIDE DEF h, Is
    <3>1. QED
      BY <2>4
<1>3. n \in T
  <2> HIDE DEF T
  <2>1. QED
    BY <1>1, <1>2, Induction
<1>4. QED
  BY <1>3

(* What has been joined after each of the sequences. *)
LEMMA Flattened ==
  ASSUME NEW S, NEW seqs \in Seq(Seq(S))
  PROVE  \E f \in [0..Len(seqs) -> Seq(S)] :
           /\ f[0] = <<>>
           /\ \A i \in 1..Len(seqs) : f[i] = f[i - 1] \o seqs[i]
           /\ f[Len(seqs)] = FlattenSeq(seqs)
<1>1. PICK n \in Nat : n = Len(seqs)
  BY LenProperties
<1> DEFINE g == CHOOSE x : x = [i \in 1..Len(seqs) |->
                                  IF i = 1 THEN seqs[i] ELSE x[i - 1] \o seqs[i]]
           f == [i \in 0..n |-> IF i = 0 THEN <<>> ELSE g[i]]
<1>2. g = [i \in 1..Len(seqs) |-> IF i = 1 THEN seqs[i] ELSE g[i - 1] \o seqs[i]]
  <2>1. \E x : x = [i \in 1..Len(seqs) |-> IF i = 1 THEN seqs[i] ELSE x[i - 1] \o seqs[i]]
    BY <1>1, SumExists
  <2>2. QED
    BY <2>1
<1>3. Len(seqs) # 0 => FlattenSeq(seqs) = g[Len(seqs)]
  BY DEF FlattenSeq
<1>4. Len(seqs) = 0 => FlattenSeq(seqs) = seqs
  BY DEF FlattenSeq
<1> HIDE DEF g
<1>5. <<>> \in Seq(S) /\ f[0] = <<>>
  BY <1>1, EmptySeq
<1>6. \A i \in 1..n : seqs[i] \in Seq(S)
  BY <1>1, ElementOfSeq
<1>7. ASSUME NEW i \in 1..n PROVE f[i] = f[i - 1] \o seqs[i]
  <2>1. i \in 0..n /\ i # 0 /\ i - 1 \in 0..n
    OBVIOUS
  <2>2. f[i] = IF i = 1 THEN seqs[i] ELSE g[i - 1] \o seqs[i]
    BY <1>1, <1>2, <2>1
  <2>3. CASE i = 1
    <3>1. i - 1 = 0
      BY <2>3
    <3>2. <<>> \o seqs[i] = seqs[i]
      BY <1>6, ConcatEmptySeq
    <3>3. QED
      BY <1>5, <2>2, <2>3, <3>1, <3>2
  <2>4. CASE i # 1
    <3>1. i - 1 # 0
      BY <2>4
    <3>2. QED
      BY <2>1, <2>2, <2>4, <3>1
  <2>5. QED
    BY <2>3, <2>4
<1>8. \A i \in 0..n : f[i] \in Seq(S)
  <2> DEFINE T == {i \in 0..n : f[i] \in Seq(S)}
  <2> HIDE DEF f
  <2>1. 0 \in T
    <3>1. 0 \in 0..n
      OBVIOUS
    <3>2. QED
      BY <1>5, <3>1
  <2>2. ASSUME NEW i \in 1..n, i - 1 \in T PROVE i \in T
    <3>1. f[i - 1] \o seqs[i] \in Seq(S)
      BY <1>6, <2>2, ConcatProperties
    <3>2. i \in 0..n
      OBVIOUS
    <3>3. f[i] = f[i - 1] \o seqs[i]
      BY <1>7
    <3>4. QED
      BY <3>1, <3>2, <3>3
  <2>3. \A i \in 0..n : i \in T
    <3> HIDE DEF T
    <3>1. QED
      BY <2>1, <2>2, InductionUpTo
  <2>4. QED
    BY <2>3
<1>9. f[n] = FlattenSeq(seqs)
  <2>1. CASE n = 0
    BY <1>1, <1>4, <1>5, <2>1, EmptySeq
  <2>2. CASE n # 0
    <3>1. n \in 0..n
      OBVIOUS
    <3>2. QED
      BY <1>1, <1>3, <2>2, <3>1
  <2>3. QED
    BY <2>1, <2>2
<1>10. f \in [0..n -> Seq(S)]
  BY <1>8
<1> HIDE DEF f
<1>11. QED
  BY <1>1, <1>5, <1>7, <1>9, <1>10

(* Where each of the sequences is in what they are joined to: seqs[i] ends *)
(* at place[i].                                                            *)
Places(place, seqs, all) ==
  /\ place[0] = 0
  /\ place[Len(seqs)] = Len(all)
  /\ \A i \in 1..Len(seqs) :
       /\ place[i] = place[i - 1] + Len(seqs[i])
       /\ place[i] <= Len(all)
       /\ \A j \in 1..Len(seqs[i]) : all[place[i - 1] + j] = seqs[i][j]

(* What FlattenSeq joins is in the result, each where the one before ends. *)
LEMMA Placed ==
  ASSUME NEW S, NEW seqs \in Seq(Seq(S))
  PROVE  /\ FlattenSeq(seqs) \in Seq(S)
         /\ \E place \in [0..Len(seqs) -> Nat] : Places(place, seqs, FlattenSeq(seqs))
<1>1. PICK n \in Nat : n = Len(seqs)
  BY LenProperties
<1>2. PICK f \in [0..n -> Seq(S)] :
        /\ f[0] = <<>>
        /\ \A i \in 1..n : f[i] = f[i - 1] \o seqs[i]
        /\ f[n] = FlattenSeq(seqs)
  BY <1>1, Flattened
<1>3. PICK all \in Seq(S) : all = f[n] /\ all = FlattenSeq(seqs)
  <2>1. n \in 0..n
    OBVIOUS
  <2>2. QED
    BY <1>2, <2>1
<1> DEFINE place == [i \in 0..n |-> Len(f[i])]
<1>4. place \in [0..n -> Nat]
  BY LenProperties
<1>5. place[0] = 0 /\ place[n] = Len(all)
  <2>1. 0 \in 0..n /\ n \in 0..n /\ Len(<<>>) = 0
    OBVIOUS
  <2>2. QED
    BY <1>2, <1>3, <2>1
<1>6. ASSUME NEW i \in 1..n
      PROVE  /\ place[i] = place[i - 1] + Len(seqs[i])
             /\ \A j \in 1..place[i - 1] : f[i][j] = f[i - 1][j]
             /\ \A j \in 1..Len(seqs[i]) : f[i][place[i - 1] + j] = seqs[i][j]
  <2>1. i \in 0..n /\ i - 1 \in 0..n
    OBVIOUS
  <2>2. seqs[i] \in Seq(S) /\ f[i - 1] \in Seq(S) /\ f[i] = f[i - 1] \o seqs[i]
    BY <1>1, <1>2, <2>1, ElementOfSeq
  <2>3. PICK a, b \in Nat : a = Len(f[i - 1]) /\ b = Len(seqs[i])
    BY <2>2, LenProperties
  <2>4. /\ Len(f[i]) = a + b
        /\ \A j \in 1..(a + b) : f[i][j] = IF j <= a THEN f[i - 1][j] ELSE seqs[i][j - a]
    <3>1. PICK x, y \in Seq(S) : x = f[i - 1] /\ y = seqs[i]
      BY <2>2
    <3>2. /\ Len(x \o y) = Len(x) + Len(y)
          /\ \A j \in 1..(Len(x) + Len(y)) :
               (x \o y)[j] = IF j <= Len(x) THEN x[j] ELSE y[j - Len(x)]
      BY ConcatProperties
    <3>3. QED
      BY <2>2, <2>3, <3>1, <3>2
  <2>5. \A j \in 1..a : j \in 1..(a + b) /\ j <= a
    OBVIOUS
  <2>6. \A j \in 1..b : a + j \in 1..(a + b) /\ ~(a + j <= a) /\ (a + j) - a = j
    OBVIOUS
  <2>7. place[i] = a + b /\ place[i - 1] = a
    BY <2>1, <2>3, <2>4
  <2> HIDE DEF place
  <2>8. QED
    BY <2>3, <2>4, <2>5, <2>6, <2>7
<1> HIDE DEF place
<1> DEFINE T == {i \in 0..n : place[i] <= place[n] /\ \A j \in 1..place[i] : all[j] = f[i][j]}
<1>7. \A i \in 0..n : i \in T
  <2>1. n \in T
    <3>1. n \in 0..n /\ place[n] <= place[n]
      BY <1>4
    <3>2. QED
      BY <1>3, <3>1
  <2>2. ASSUME NEW i \in 1..n, i \in T PROVE i - 1 \in T
    <3>1. i \in 0..n /\ i - 1 \in 0..n /\ n \in 0..n
      OBVIOUS
    <3>2. PICK a, b, c, d \in Nat :
            a = place[i - 1] /\ b = Len(seqs[i]) /\ c = place[i] /\ d = place[n]
      <4>1. seqs[i] \in Seq(S)
        BY <1>1, ElementOfSeq
      <4>2. Len(seqs[i]) \in Nat
        BY <4>1, LenProperties
      <4>3. QED
        BY <1>4, <3>1, <4>2
    <3>3. c = a + b /\ c <= d
      BY <1>6, <2>2, <3>2
    <3>4. a <= d /\ \A j \in 1..a : j \in 1..c
      BY <3>3
    <3>5. \A j \in 1..a : all[j] = f[i - 1][j]
      BY <1>6, <2>2, <3>2, <3>4
    <3>6. QED
      BY <3>1, <3>2, <3>4, <3>5
  <2> HIDE DEF T
  <2>3. QED
    BY <2>1, <2>2, InductionDown
<1>8. ASSUME NEW i \in 1..n
      PROVE  /\ place[i] <= Len(all)
             /\ \A j \in 1..Len(seqs[i]) : all[place[i - 1] + j] = seqs[i][j]
  <2>1. i \in 0..n /\ i - 1 \in 0..n
    OBVIOUS
  <2>2. PICK a, b, c \in Nat : a = place[i - 1] /\ b = Len(seqs[i]) /\ c = place[i]
    <3>1. seqs[i] \in Seq(S)
      BY <1>1, ElementOfSeq
    <3>2. Len(seqs[i]) \in Nat
      BY <3>1, LenProperties
    <3>3. QED
      BY <1>4, <2>1, <3>2
  <2>3. c = a + b
    BY <1>6, <2>2
  <2>4. \A j \in 1..b : a + j \in 1..c
    BY <2>3
  <2>5. /\ place[i] <= place[n]
        /\ \A j \in 1..c : all[j] = f[i][j]
    BY <1>7, <2>1, <2>2
  <2>6. \A j \in 1..b : f[i][a + j] = seqs[i][j]
    BY <1>6, <2>2
  <2>7. QED
    BY <1>5, <2>2, <2>4, <2>5, <2>6
<1>9. Places(place, seqs, all)
  BY <1>1, <1>5, <1>6, <1>8 DEF Places
<1>10. QED
  BY <1>1, <1>3, <1>4, <1>9

(* Every place is in one of the sequences. *)
Covers(place, seqs, all) ==
  \A q \in 1..Len(all) : \E i \in 1..Len(seqs) : \E j \in 1..Len(seqs[i]) :
     q = place[i - 1] + j

LEMMA Located ==
  ASSUME NEW S, NEW seqs \in Seq(Seq(S)), NEW all,
         NEW place \in [0..Len(seqs) -> Nat], Places(place, seqs, all)
  PROVE  Covers(place, seqs, all)
<1>1. PICK n \in Nat : n = Len(seqs)
  BY LenProperties
<1> DEFINE T == {k \in 0..n : \A q \in 1..place[k] :
                   \E i \in 1..n : \E j \in 1..Len(seqs[i]) : q = place[i - 1] + j}
<1>2. 0 \in T
  <2>1. place[0] = 0
    BY DEF Places
  <2>2. 0 \in 0..n /\ 1..0 = {}
    OBVIOUS
  <2>3. QED
    BY <2>1, <2>2
<1>3. ASSUME NEW k \in 1..n, k - 1 \in T PROVE k \in T
  <2>1. k \in 0..n /\ k - 1 \in 0..n /\ seqs[k] \in Seq(S)
    BY <1>1, ElementOfSeq
  <2>2. PICK a, b, c \in Nat : a = place[k - 1] /\ b = Len(seqs[k]) /\ c = place[k]
    <3>1. Len(seqs[k]) \in Nat
      BY <2>1, LenProperties
    <3>2. QED
      BY <1>1, <2>1, <3>1
  <2>3. c = a + b
    BY <1>1, <2>2 DEF Places
  <2>4. ASSUME NEW q \in 1..c
        PROVE  \E i \in 1..n : \E j \in 1..Len(seqs[i]) : q = place[i - 1] + j
    <3>1. CASE q <= a
      <4>1. q \in 1..a
        BY <3>1
      <4>2. QED
        BY <1>3, <2>2, <4>1
    <3>2. CASE q > a
      <4>1. q - a \in 1..b /\ q = a + (q - a)
        BY <2>3, <3>2
      <4>2. QED
        BY <2>2, <4>1
    <3>3. QED
      BY <3>1, <3>2
  <2>5. QED
    BY <2>1, <2>2, <2>4
<1>4. \A k \in 0..n : k \in T
  <2> HIDE DEF T
  <2>1. QED
    BY <1>2, <1>3, InductionUpTo
<1>5. n \in T /\ place[n] = Len(all)
  BY <1>1, <1>4 DEF Places
<1>6. QED
  BY <1>1, <1>5 DEF Covers

-----------------------------------------------------------------------------
(* A recursion on a later position. *)
Walk(f, size, stop, item, next) ==
  f = [i \in 1..(size + 1) |-> IF i \in stop THEN <<>> ELSE item[i] \o f[next[i]]]

(* One of them. *)
AWalk(size, stop, item, next) == CHOOSE f : Walk(f, size, stop, item, next)

(* A recursion that only goes to later positions defines a function. *)
LEMMA WalkExists ==
  ASSUME NEW size \in Nat, NEW stop, size + 1 \in stop, NEW item, NEW next,
         \A i \in 1..size : i \notin stop => next[i] \in (i + 1)..(size + 1)
  PROVE  Walk(AWalk(size, stop, item, next), size, stop, item, next)
<1> DEFINE Is(f, k) ==
             f = [i \in (k + 1)..(size + 1) |-> IF i \in stop THEN <<>> ELSE item[i] \o f[next[i]]]
           T == {k \in 0..size : \E f : Is(f, k)}
<1>1. size \in T
  <2> DEFINE f == [i \in (size + 1)..(size + 1) |-> <<>>]
  <2>1. \A i \in (size + 1)..(size + 1) : i = size + 1
    OBVIOUS
  <2>2. f = [i \in (size + 1)..(size + 1) |-> IF i \in stop THEN <<>> ELSE item[i] \o f[next[i]]]
    BY <2>1
  <2>3. size \in 0..size
    OBVIOUS
  <2> HIDE DEF f
  <2>4. QED
    BY <2>2, <2>3
<1>2. ASSUME NEW k \in 1..size, k \in T PROVE k - 1 \in T
  <2>1. PICK f : Is(f, k)
    BY <1>2
  <2> DEFINE g == [i \in k..(size + 1) |->
                     IF i = k THEN IF k \in stop THEN <<>> ELSE item[k] \o f[next[k]] ELSE f[i]]
  <2>2. /\ \A i \in (k + 1)..(size + 1) : i \in k..(size + 1) /\ i # k
        /\ k \in k..(size + 1)
    OBVIOUS
  <2>3. \A i \in (k + 1)..(size + 1) : g[i] = f[i]
    BY <2>2
  <2>4. g[k] = IF k \in stop THEN <<>> ELSE item[k] \o f[next[k]]
    BY <2>2
  <2>5. g = [i \in k..(size + 1) |-> g[i]]
    OBVIOUS
  <2> HIDE DEF g
  <2>6. ASSUME NEW i \in k..(size + 1)
        PROVE  g[i] = IF i \in stop THEN <<>> ELSE item[i] \o g[next[i]]
    <3>1. i \notin stop => next[i] \in (k + 1)..(size + 1)
      <4>1. SUFFICES ASSUME i \notin stop PROVE next[i] \in (k + 1)..(size + 1)
        OBVIOUS
      <4>2. i # size + 1
        BY <4>1
      <4>3. i \in 1..size
        BY <4>2
      <4>4. next[i] \in (i + 1)..(size + 1)
        BY <4>1, <4>3
      <4>5. QED
        BY <4>4
    <3>2. CASE i = k
      BY <2>3, <2>4, <3>1, <3>2
    <3>3. CASE i # k
      <4>1. i \in (k + 1)..(size + 1)
        BY <3>3
      <4>2. f[i] = IF i \in stop THEN <<>> ELSE item[i] \o f[next[i]]
        BY <2>1, <4>1
      <4>3. QED
        BY <2>3, <3>1, <4>1, <4>2
    <3>4. QED
      BY <3>2, <3>3
  <2>7. (k - 1) + 1 = k /\ k - 1 \in 0..size
    OBVIOUS
  <2>8. Is(g, k - 1)
    BY <2>5, <2>6, <2>7
  <2> HIDE DEF Is
  <2>9. QED
    BY <2>7, <2>8
<1>3. \A k \in 0..size : k \in T
  <2> HIDE DEF T
  <2>1. QED
    BY <1>1, <1>2, InductionDown
<1>4. \E f : Is(f, 0)
  <2>1. 0 \in 0..size
    OBVIOUS
  <2>2. QED
    BY <1>3, <2>1
<1>5. 0 + 1 = 1
  OBVIOUS
<1>6. \E f : Walk(f, size, stop, item, next)
  BY <1>4, <1>5 DEF Walk
<1>7. QED
  BY <1>6, Zenon DEF AWalk

(* A recursion that finds m[1], m[2], ... at the places goes on to the end *)
(* and gives m.                                                            *)
LEMMA WalkedBack ==
  ASSUME NEW S, NEW m \in Seq(S), NEW place \in [0..Len(m) -> Nat], place[0] = 0,
         NEW f, f[place[Len(m)] + 1] = <<>>,
         \A i \in 1..Len(m) : f[place[i - 1] + 1] = <<m[i]>> \o f[place[i] + 1]
  PROVE  f[1] = m
<1>1. PICK n \in Nat : n = Len(m)
  BY LenProperties
<1> DEFINE Rest(k) == [i \in 1..(n - k) |-> m[k + i]]
           T == {k \in 0..n : f[place[k] + 1] = Rest(k)}
<1>2. \A k \in 0..n : Rest(k) \in Seq(S) /\ Len(Rest(k)) = n - k
  <2>1. TAKE k \in 0..n
  <2>2. n - k \in Nat /\ \A i \in 1..(n - k) : k + i \in 1..n
    OBVIOUS
  <2>3. \A i \in 1..(n - k) : m[k + i] \in S
    BY <1>1, <2>2, ElementOfSeq
  <2>4. Rest(k) \in [1..(n - k) -> S]
    BY <2>3
  <2>5. Rest(k) \in Seq(S) /\ DOMAIN Rest(k) = 1..(n - k)
    BY <2>2, <2>4, SeqDef
  <2>6. QED
    BY <2>2, <2>5, LenProperties
<1>3. n \in T
  <2>1. n \in 0..n /\ n - n = 0
    OBVIOUS
  <2>2. Rest(n) = <<>>
    BY <1>2, <2>1, EmptySeq
  <2>3. QED
    BY <1>1, <2>1, <2>2
<1>4. ASSUME NEW k \in 1..n, k \in T PROVE k - 1 \in T
  <2>1. /\ k \in 0..n /\ k - 1 \in 0..n /\ n - (k - 1) = 1 + (n - k) /\ n - k \in Nat
        /\ (k - 1) + 1 = k
    OBVIOUS
  <2>2. f[place[k - 1] + 1] = <<m[k]>> \o Rest(k)
    BY <1>1, <1>4
  <2>3. PICK x, y, z \in Seq(S) : x = <<m[k]>> /\ y = Rest(k) /\ z = Rest(k - 1)
    <3>1. m[k] \in S
      BY <1>1, ElementOfSeq
    <3>2. <<m[k]>> \in Seq(S)
      BY <3>1
    <3>3. Rest(k) \in Seq(S) /\ Rest(k - 1) \in Seq(S)
      BY <1>2, <2>1
    <3> HIDE DEF Rest
    <3>4. QED
      BY <3>2, <3>3
  <2>4. Len(x) = 1 /\ x[1] = m[k] /\ Len(y) = n - k /\ Len(z) = 1 + (n - k)
    <3>1. Len(<<m[k]>>) = 1 /\ <<m[k]>>[1] = m[k]
      OBVIOUS
    <3>2. Len(Rest(k)) = n - k /\ Len(Rest(k - 1)) = 1 + (n - k)
      BY <1>2, <2>1
    <3> HIDE DEF Rest
    <3>3. QED
      BY <2>3, <3>1, <3>2
  <2>5. /\ x \o y \in Seq(S) /\ Len(x \o y) = 1 + (n - k)
        /\ \A i \in 1..(1 + (n - k)) : (x \o y)[i] = IF i <= 1 THEN x[i] ELSE y[i - 1]
    <3>1. /\ x \o y \in Seq(S) /\ Len(x \o y) = Len(x) + Len(y)
          /\ \A i \in 1..(Len(x) + Len(y)) :
               (x \o y)[i] = IF i <= Len(x) THEN x[i] ELSE y[i - Len(x)]
      BY ConcatProperties
    <3> HIDE DEF Rest
    <3>2. QED
      BY <2>4, <3>1
  <2>6. ASSUME NEW i \in 1..(1 + (n - k)) PROVE (x \o y)[i] = z[i]
    <3>1. z[i] = m[(k - 1) + i]
      BY <2>1, <2>3
    <3>2. CASE i = 1
      BY <2>1, <2>4, <2>5, <3>1, <3>2
    <3>3. CASE i # 1
      <4>1. ~(i <= 1) /\ i - 1 \in 1..(n - k) /\ k + (i - 1) = (k - 1) + i
        BY <3>3
      <4>2. y[i - 1] = m[k + (i - 1)]
        BY <2>3, <4>1
      <4>3. QED
        BY <2>5, <3>1, <4>1, <4>2
    <3>4. QED
      BY <3>2, <3>3
  <2>7. x \o y = z
    BY <2>4, <2>5, <2>6, SeqEqual
  <2>8. QED
    BY <2>1, <2>2, <2>3, <2>7
<1>5. \A k \in 0..n : k \in T
  <2> HIDE DEF T
  <2>1. QED
    BY <1>3, <1>4, InductionDown
<1>6. f[0 + 1] = Rest(0)
  <2>1. 0 \in 0..n
    OBVIOUS
  <2>2. QED
    BY <1>5, <2>1
<1>7. Rest(0) = m
  <2>1. 0 \in 0..n /\ n - 0 = n /\ \A i \in 1..n : 0 + i = i
    OBVIOUS
  <2>2. Rest(0) \in Seq(S) /\ Len(Rest(0)) = n
    BY <1>2, <2>1
  <2>3. \A i \in 1..n : Rest(0)[i] = m[i]
    BY <2>1
  <2> HIDE DEF Rest
  <2>4. QED
    BY <1>1, <2>2, <2>3, SeqEqual
<1>8. 0 + 1 = 1
  OBVIOUS
<1>9. QED
  BY <1>6, <1>7, <1>8

-----------------------------------------------------------------------------
(* The bytes, without listing all 256 of them. *)
LEMMA Bytes ==
  \A b : b \in Byte <=> b \in Nat /\ b < 256
<1>1. PICK n \in Nat : n = 255
  OBVIOUS
<1>2. \A b : b \in 0..n <=> b \in Nat /\ b < 256
  BY <1>1
<1>3. Byte = 0..n
  BY <1>1, Zenon DEF Byte
<1>4. QED
  BY <1>2, <1>3

(* The two bytes of the header, read as a little-endian number, are the    *)
(* length it was made of.                                                  *)
LEMMA HeaderRead ==
  ASSUME NEW n \in Nat, n < 256 * 256
  PROVE  /\ Header(n) \in Seq(Byte)
         /\ Len(Header(n)) = 2
         /\ Header(n)[1] + 256 * Header(n)[2] = n
<1>1. n % 256 \in Byte /\ (n \div 256) % 256 \in Byte
  <2>1. n % 256 \in Nat /\ n % 256 < 256 /\ (n \div 256) % 256 \in Nat /\ (n \div 256) % 256 < 256
    OBVIOUS
  <2>2. QED
    BY <2>1, Bytes
<1>2. PICK a, b \in Byte : a = n % 256 /\ b = (n \div 256) % 256
  BY <1>1
<1>3. a + 256 * b = n
  <2>1. (n % 256) + 256 * ((n \div 256) % 256) = n
    OBVIOUS
  <2>2. QED
    BY <1>2, <2>1
<1>4. Header(n) = <<a, b>>
  BY <1>2 DEF Header
<1>5. <<a, b>> \in Seq(Byte) /\ Len(<<a, b>>) = 2
  OBVIOUS
<1>6. <<a, b>>[1] = a /\ <<a, b>>[2] = b
  OBVIOUS
<1>7. QED
  BY <1>3, <1>4, <1>5, <1>6

(* The header at i of a string. *)
LengthAt(s, i) == s[i] + 256 * s[i + 1]

(* The length of a message can be written in the two bytes of the header. *)
Fits(msg) == Len(msg) < 256 * 256

(* What a session sends of a message. *)
Node(msg) == SubSeq(Data(msg), 1, TotalLen(msg))

(* What is sent of a message: its length and then its bytes, without the   *)
(* zero that was put behind them.                                          *)
LEMMA NodeBytes ==
  ASSUME NEW m \in Seq(Byte), Fits(m)
  PROVE  /\ Node(m) \in Seq(Byte)
         /\ Len(Node(m)) = Len(m) + 2
         /\ LengthAt(Node(m), 1) = Len(m)
         /\ \A j \in 1..Len(m) : Node(m)[2 + j] = m[j]
<1>1. PICK n \in Nat : n = Len(m) /\ n < 256 * 256
  BY LenProperties DEF Fits
<1> DEFINE h == Header(n)
           z == <<0>>
           hm == h \o m
           d == hm \o z
<1>2. h \in Seq(Byte) /\ Len(h) = 2 /\ h[1] + 256 * h[2] = n
  BY <1>1, HeaderRead
<1>3. z \in Seq(Byte) /\ Len(z) = 1
  BY Bytes
<1> HIDE DEF h, z
<1>4. /\ hm \in Seq(Byte)
      /\ Len(hm) = 2 + n
      /\ \A i \in 1..(2 + n) : hm[i] = IF i <= 2 THEN h[i] ELSE m[i - 2]
  <2>1. /\ h \o m \in Seq(Byte) /\ Len(h \o m) = Len(h) + Len(m)
        /\ \A i \in 1..(Len(h) + Len(m)) :
             (h \o m)[i] = IF i <= Len(h) THEN h[i] ELSE m[i - Len(h)]
    <3>1. h \in Seq(Byte)
      BY <1>2
    <3>2. QED
      BY <3>1, ConcatProperties
  <2>2. QED
    BY <1>1, <1>2, <2>1
<1> HIDE DEF hm
<1>5. /\ d \in Seq(Byte)
      /\ Len(d) = n + 3
      /\ \A i \in 1..(n + 3) : d[i] = IF i <= 2 + n THEN hm[i] ELSE z[i - (2 + n)]
  <2>1. /\ hm \o z \in Seq(Byte) /\ Len(hm \o z) = Len(hm) + Len(z)
        /\ \A i \in 1..(Len(hm) + Len(z)) :
             (hm \o z)[i] = IF i <= Len(hm) THEN hm[i] ELSE z[i - Len(hm)]
    <3>1. hm \in Seq(Byte) /\ z \in Seq(Byte)
      BY <1>3, <1>4
    <3>2. QED
      BY <3>1, ConcatProperties
  <2>2. (2 + n) + 1 = n + 3
    OBVIOUS
  <2>3. QED
    BY <1>3, <1>4, <2>1, <2>2
<1>6. Data(m) = d /\ TotalLen(m) = n + 2
  BY <1>1 DEF h, z, hm, Data, TotalLen, HeadLength
<1> HIDE DEF d
<1>7. /\ SubSeq(d, 1, n + 2) \in Seq(Byte)
      /\ Len(SubSeq(d, 1, n + 2)) = n + 2
      /\ \A i \in 1..(n + 2) : SubSeq(d, 1, n + 2)[i] = d[i]
  <2>1. 1 <= n + 2 /\ \A i \in 1..(n + 2) : d[i] \in Byte
    <3>1. \A i \in 1..(n + 2) : i \in 1..(n + 3)
      OBVIOUS
    <3>2. QED
      BY <1>5, <3>1, ElementOfSeq
  <2>2. \A i \in 1..(n + 2) : i \in 1..n + 3 /\ 1 + i - 1 = i
    OBVIOUS
  <2>3. /\ SubSeq(d, 1, n + 2) \in Seq(Byte)
        /\ Len(SubSeq(d, 1, n + 2)) = (n + 2) - 1 + 1
        /\ \A i \in 1..((n + 2) - 1 + 1) : SubSeq(d, 1, n + 2)[i] = d[1 + i - 1]
    BY <2>1, SubSeqProperties
  <2>4. QED
    BY <2>2, <2>3
<1>8. /\ 1 \in 1..(n + 2) /\ 2 \in 1..(n + 2)
      /\ 1 \in 1..(n + 3) /\ 2 \in 1..(n + 3)
      /\ \A j \in 1..n : 2 + j \in 1..(n + 2) /\ 2 + j \in 1..(n + 3) /\ ~(2 + j <= 2)
                         /\ 2 + j <= 2 + n /\ (2 + j) - 2 = j /\ 2 + j \in 1..(2 + n)
      /\ 1 \in 1..(2 + n) /\ 2 \in 1..(2 + n) /\ 1 <= 2 + n /\ 2 <= 2 + n
  OBVIOUS
<1>9. d[1] = h[1] /\ d[2] = h[2]
  BY <1>4, <1>5, <1>8
<1>10. \A j \in 1..n : d[2 + j] = m[j]
  BY <1>4, <1>5, <1>8
<1>11. Node(m) = SubSeq(d, 1, n + 2)
  BY <1>6 DEF Node
<1>12. LengthAt(Node(m), 1) = n
  <2>1. 1 + 1 = 2 /\ Node(m)[1] = h[1] /\ Node(m)[2] = h[2]
    BY <1>7, <1>8, <1>9, <1>11
  <2>2. QED
    BY <1>2, <2>1 DEF LengthAt
<1>13. QED
  BY <1>1, <1>7, <1>8, <1>10, <1>11, <1>12

(* Where the message whose header is at i ends, and the recursion of Split.*)
EndOf(s, i) ==
  LET n == LengthAt(s, i)
  IN  IF (i - 1) + HeadLength + n < Len(s) THEN (i - 1) + HeadLength + n ELSE Len(s)
IsSplit(f, s) ==
  f = [i \in 1..(Len(s) + 1) |->
         IF i + HeadLength > Len(s) + 1 THEN <<>>
         ELSE <<SubSeq(s, i + HeadLength, EndOf(s, i))>> \o f[EndOf(s, i) + 1]]
ASplit(s) == CHOOSE f : IsSplit(f, s)

(* Split is that recursion, from the first position. *)
LEMMA SplitIs ==
  ASSUME NEW s
  PROVE  Split(s) = ASplit(s)[1]
BY DEF Split, ASplit, IsSplit, EndOf, LengthAt

(* A message that has a header ends behind it, and not past the end. *)
LEMMA EndBounds ==
  ASSUME NEW s \in Seq(Byte), NEW i \in 1..Len(s), i + 1 <= Len(s)
  PROVE  EndOf(s, i) \in i..Len(s)
<1>1. PICK L \in Nat : L = Len(s)
  BY LenProperties
<1>2. i \in 1..L /\ i + 1 \in 1..L
  BY <1>1
<1>3. s[i] \in Nat /\ s[i + 1] \in Nat
  <2>1. s[i] \in Byte /\ s[i + 1] \in Byte
    BY <1>1, <1>2, ElementOfSeq
  <2>2. QED
    BY <2>1, Bytes
<1>4. PICK b1, b2 \in Nat : b1 = s[i] /\ b2 = s[i + 1]
  BY <1>3
<1>5. PICK n \in Nat : n = b1 + 256 * b2
  OBVIOUS
<1>6. EndOf(s, i) = IF (i - 1) + 2 + n < L THEN (i - 1) + 2 + n ELSE L
  BY <1>1, <1>4, <1>5 DEF EndOf, LengthAt, HeadLength
<1>7. QED
  BY <1>1, <1>2, <1>5, <1>6

(* The recursion defines a function on every string of bytes. *)
LEMMA SplitExists ==
  ASSUME NEW s \in Seq(Byte)
  PROVE  IsSplit(ASplit(s), s)
<1>1. PICK L \in Nat : L = Len(s)
  BY LenProperties
<1> DEFINE stop == {i \in 1..(L + 1) : i + HeadLength > L + 1}
           item == [i \in 1..L |-> <<SubSeq(s, i + HeadLength, EndOf(s, i))>>]
           next == [i \in 1..L |-> EndOf(s, i) + 1]
           f == AWalk(L, stop, item, next)
<1>2. ASSUME NEW i \in 1..L, i \notin stop PROVE next[i] \in (i + 1)..(L + 1)
  <2>1. i + 1 <= L
    BY <1>2 DEF HeadLength
  <2>2. EndOf(s, i) \in i..L
    BY <1>1, <2>1, EndBounds
  <2>3. next[i] = EndOf(s, i) + 1
    OBVIOUS
  <2> HIDE DEF next
  <2>4. QED
    BY <2>2, <2>3
<1>3. L + 1 \in stop
  BY DEF HeadLength
<1>4. \A i \in 1..(L + 1) :
        IF i \in stop THEN i + HeadLength > L + 1
        ELSE ~(i + HeadLength > L + 1) /\ i \in 1..L
  BY DEF HeadLength
<1>5. \A i \in 1..L : /\ item[i] = <<SubSeq(s, i + HeadLength, EndOf(s, i))>>
                     /\ next[i] = EndOf(s, i) + 1
  OBVIOUS
<1> HIDE DEF stop, item, next
<1>6. Walk(f, L, stop, item, next)
  <2>1. \A i \in 1..L : i \notin stop => next[i] \in (i + 1)..(L + 1)
    BY <1>2
  <2>2. QED
    BY <1>3, <2>1, WalkExists
<1> HIDE DEF f
<1>7. f = [i \in 1..(L + 1) |-> f[i]] /\ \A i \in 1..(L + 1) :
        f[i] = IF i \in stop THEN <<>> ELSE item[i] \o f[next[i]]
  BY <1>6 DEF Walk
<1>8. \A i \in 1..(L + 1) :
        f[i] = IF i + HeadLength > L + 1 THEN <<>>
               ELSE <<SubSeq(s, i + HeadLength, EndOf(s, i))>> \o f[EndOf(s, i) + 1]
  BY <1>4, <1>5, <1>7
<1>9. IsSplit(f, s)
  BY <1>1, <1>7, <1>8 DEF IsSplit
<1>10. QED
  BY <1>9, Zenon DEF ASplit

(* Split finds a message that is there, and goes on behind it. *)
LEMMA SplitSteps ==
  ASSUME NEW s \in Seq(Byte)
  PROVE  /\ ASplit(s)[Len(s) + 1] = <<>>
         /\ \A p, k \in Nat :
              /\ p + 2 + k <= Len(s)
              /\ LengthAt(s, p + 1) = k
              => ASplit(s)[p + 1] = <<SubSeq(s, p + 3, p + 2 + k)>> \o ASplit(s)[(p + 2 + k) + 1]
<1>1. PICK L \in Nat : L = Len(s)
  BY LenProperties
<1> DEFINE f == ASplit(s)
<1>2. IsSplit(f, s)
  BY SplitExists
<1> HIDE DEF f
<1>3. \A i \in 1..(L + 1) :
        f[i] = IF i + 2 > L + 1 THEN <<>>
               ELSE <<SubSeq(s, i + 2, EndOf(s, i))>> \o f[EndOf(s, i) + 1]
  BY <1>1, <1>2 DEF IsSplit, HeadLength
<1>4. f[L + 1] = <<>>
  <2>1. L + 1 \in 1..(L + 1) /\ (L + 1) + 2 > L + 1
    OBVIOUS
  <2>2. QED
    BY <1>3, <2>1
<1>5. ASSUME NEW p \in Nat, NEW k \in Nat, p + 2 + k <= L, LengthAt(s, p + 1) = k
      PROVE  f[p + 1] = <<SubSeq(s, p + 3, p + 2 + k)>> \o f[(p + 2 + k) + 1]
  <2>1. /\ p + 1 \in 1..(L + 1) /\ ~((p + 1) + 2 > L + 1)
        /\ (p + 1) + 1 = p + 2 /\ (p + 1) + 2 = p + 3 /\ ((p + 1) - 1) + 2 + k = p + 2 + k
    BY <1>5
  <2>2. EndOf(s, p + 1) = IF ((p + 1) - 1) + 2 + k < L THEN ((p + 1) - 1) + 2 + k ELSE L
    BY <1>1, <1>5, <2>1 DEF EndOf, HeadLength
  <2>3. EndOf(s, p + 1) = p + 2 + k
    BY <1>5, <2>1, <2>2
  <2>4. QED
    BY <1>3, <2>1, <2>3
<1>6. QED
  BY <1>1, <1>4, <1>5 DEF f

(* What Stream joins. *)
Nodes(msgs) == [i \in DOMAIN msgs |-> Node(msgs[i])]

(* What is sent of each of the messages. *)
LEMMA NodesOf ==
  ASSUME NEW msgs \in Seq(Seq(Byte)), \A i \in 1..Len(msgs) : Fits(msgs[i])
  PROVE  /\ Stream(msgs) = FlattenSeq(Nodes(msgs))
         /\ Nodes(msgs) \in Seq(Seq(Byte))
         /\ Len(Nodes(msgs)) = Len(msgs)
         /\ \A i \in 1..Len(msgs) :
              /\ Len(Nodes(msgs)[i]) = Len(msgs[i]) + 2
              /\ LengthAt(Nodes(msgs)[i], 1) = Len(msgs[i])
              /\ \A j \in 1..Len(msgs[i]) : Nodes(msgs)[i][2 + j] = msgs[i][j]
<1> DEFINE nodes == Nodes(msgs)
<1>1. PICK n \in Nat : n = Len(msgs)
  BY LenProperties
<1>2. DOMAIN msgs = 1..n /\ \A i \in 1..n : msgs[i] \in Seq(Byte)
  BY <1>1, LenProperties, ElementOfSeq
<1>3. ASSUME NEW i \in 1..n
      PROVE  /\ Node(msgs[i]) \in Seq(Byte)
             /\ Len(Node(msgs[i])) = Len(msgs[i]) + 2
             /\ LengthAt(Node(msgs[i]), 1) = Len(msgs[i])
             /\ \A j \in 1..Len(msgs[i]) : Node(msgs[i])[2 + j] = msgs[i][j]
  <2>1. msgs[i] \in Seq(Byte) /\ Fits(msgs[i])
    BY <1>1, <1>2
  <2>2. QED
    BY <2>1, NodeBytes
<1>4. \A i \in 1..n : nodes[i] = Node(msgs[i])
  BY <1>2 DEF Nodes
<1>5. nodes \in [1..n -> Seq(Byte)]
  BY <1>2, <1>3 DEF Nodes
<1>6. Stream(msgs) = FlattenSeq(nodes)
  BY DEF Stream, Node, Nodes
<1> HIDE DEF nodes
<1>7. nodes \in Seq(Seq(Byte)) /\ DOMAIN nodes = 1..n
  BY <1>5, SeqDef
<1>8. Len(nodes) = n
  BY <1>7, LenProperties
<1>9. QED
  BY <1>1, <1>3, <1>4, <1>6, <1>7, <1>8 DEF nodes

(* Whatever messages are sent, the peer finds the same again.              *)
LEMMA SplitUndoesStream ==
  ASSUME NEW msgs \in Seq(Seq(Byte)), \A i \in 1..Len(msgs) : Fits(msgs[i])
  PROVE  Split(Stream(msgs)) = msgs
<1>1. PICK n \in Nat : n = Len(msgs)
  BY LenProperties
<1> DEFINE nodes == Nodes(msgs)
           s == Stream(msgs)
           f == ASplit(s)
<1>2. /\ s = FlattenSeq(nodes)
      /\ nodes \in Seq(Seq(Byte))
      /\ Len(nodes) = n
      /\ \A i \in 1..n :
           /\ Len(nodes[i]) = Len(msgs[i]) + 2
           /\ LengthAt(nodes[i], 1) = Len(msgs[i])
           /\ \A j \in 1..Len(msgs[i]) : nodes[i][2 + j] = msgs[i][j]
  <2>1. /\ Stream(msgs) = FlattenSeq(Nodes(msgs))
        /\ Nodes(msgs) \in Seq(Seq(Byte))
        /\ Len(Nodes(msgs)) = Len(msgs)
        /\ \A i \in 1..Len(msgs) :
             /\ Len(Nodes(msgs)[i]) = Len(msgs[i]) + 2
             /\ LengthAt(Nodes(msgs)[i], 1) = Len(msgs[i])
             /\ \A j \in 1..Len(msgs[i]) : Nodes(msgs)[i][2 + j] = msgs[i][j]
    BY NodesOf
  <2>2. QED
    BY <1>1, <2>1, Zenon
<1> HIDE DEF nodes, s
<1>3. s \in Seq(Byte) /\ \E place \in [0..Len(nodes) -> Nat] : Places(place, nodes, s)
  <2>1. nodes \in Seq(Seq(Byte)) /\ s = FlattenSeq(nodes)
    BY <1>2
  <2>2. QED
    BY <2>1, Placed
<1>4. PICK place \in [0..n -> Nat] : Places(place, nodes, s)
  BY <1>2, <1>3
<1>5. PICK L \in Nat : L = Len(s)
  BY <1>3, LenProperties
<1>6. /\ f[L + 1] = <<>>
      /\ \A p, k \in Nat :
           /\ p + 2 + k <= L
           /\ LengthAt(s, p + 1) = k
           => f[p + 1] = <<SubSeq(s, p + 3, p + 2 + k)>> \o f[(p + 2 + k) + 1]
  <2>1. s \in Seq(Byte)
    BY <1>3
  <2>2. /\ ASplit(s)[Len(s) + 1] = <<>>
        /\ \A p, k \in Nat :
             /\ p + 2 + k <= Len(s)
             /\ LengthAt(s, p + 1) = k
             => ASplit(s)[p + 1] = <<SubSeq(s, p + 3, p + 2 + k)>> \o ASplit(s)[(p + 2 + k) + 1]
    BY <2>1, SplitSteps, Zenon
  <2>3. QED
    BY <1>5, <2>2, Zenon
<1> HIDE DEF f
<1>7. place[0] = 0 /\ f[place[n] + 1] = <<>>
  BY <1>2, <1>4, <1>5, <1>6 DEF Places
<1>8. ASSUME NEW i \in 1..n
      PROVE  f[place[i - 1] + 1] = <<msgs[i]>> \o f[place[i] + 1]
  <2>1. i \in 0..n /\ i - 1 \in 0..n
    OBVIOUS
  <2>2. msgs[i] \in Seq(Byte)
    BY <1>1, ElementOfSeq
  <2>3. PICK k \in Nat : k = Len(msgs[i])
    BY <2>2, LenProperties
  <2>4. PICK p \in Nat : p = place[i - 1]
    BY <2>1
  <2>5. PICK q \in Nat : q = place[i]
    BY <2>1
  <2>6. /\ Len(nodes[i]) = k + 2
        /\ LengthAt(nodes[i], 1) = k
        /\ \A j \in 1..k : nodes[i][2 + j] = msgs[i][j]
    BY <1>2, <2>3
  <2>7. /\ q = p + (k + 2) /\ q <= L
        /\ \A j \in 1..(k + 2) : s[p + j] = nodes[i][j]
    <3>1. /\ place[i] = place[i - 1] + Len(nodes[i]) /\ place[i] <= Len(s)
          /\ \A j \in 1..Len(nodes[i]) : s[place[i - 1] + j] = nodes[i][j]
      BY <1>2, <1>4 DEF Places
    <3>2. QED
      BY <1>5, <2>4, <2>5, <2>6, <3>1
  <2>8. LengthAt(s, p + 1) = k
    <3>1. 1 \in 1..(k + 2) /\ 2 \in 1..(k + 2)
      OBVIOUS
    <3>2. s[p + 1] = nodes[i][1] /\ s[p + 2] = nodes[i][2]
      BY <2>7, <3>1
    <3>3. (p + 1) + 1 = p + 2 /\ 1 + 1 = 2
      OBVIOUS
    <3>4. LengthAt(s, p + 1) = LengthAt(nodes[i], 1)
      BY <3>2, <3>3 DEF LengthAt
    <3>5. QED
      BY <2>6, <3>4
  <2>9. p + 2 + k <= L /\ p + 2 + k = q
    BY <2>7
  <2>10. f[p + 1] = <<SubSeq(s, p + 3, q)>> \o f[q + 1]
    <3>1. f[p + 1] = <<SubSeq(s, p + 3, p + 2 + k)>> \o f[(p + 2 + k) + 1]
      <4>1. p + 2 + k <= L
        BY <2>9
      <4>2. QED
        BY <1>6, <2>8, <4>1, Zenon
    <3>2. p + 2 + k = q
      BY <2>9
    <3>3. QED
      BY <3>1, <3>2, Zenon
  <2>11. SubSeq(s, p + 3, q) = msgs[i]
    <3> DEFINE sub == SubSeq(s, p + 3, q)
    <3>1. \A j \in (p + 3)..q : s[j] \in Byte
      <4>1. \A j \in (p + 3)..q : j \in 1..L
        BY <2>7
      <4>2. QED
        BY <1>3, <1>5, <4>1, ElementOfSeq
    <3>2. p + 3 \in Int /\ q \in Int
      OBVIOUS
    <3>3. /\ sub \in Seq(Byte)
          /\ Len(sub) = IF p + 3 <= q THEN q - (p + 3) + 1 ELSE 0
          /\ \A j \in 1..(q - (p + 3) + 1) : sub[j] = s[p + 3 + j - 1]
      BY <3>1, <3>2, SubSeqProperties
    <3> HIDE DEF sub
    <3>4. Len(sub) = k
      BY <2>7, <3>3
    <3>5. ASSUME NEW j \in 1..k PROVE sub[j] = msgs[i][j]
      <4>1. /\ j \in 1..(q - (p + 3) + 1)
            /\ p + 3 + j - 1 = p + (2 + j)
            /\ 2 + j \in 1..(k + 2)
        BY <2>7
      <4>2. sub[j] = s[p + 3 + j - 1]
        BY <3>3, <4>1
      <4>3. s[p + (2 + j)] = nodes[i][2 + j]
        BY <2>7, <4>1
      <4>4. nodes[i][2 + j] = msgs[i][j]
        BY <2>6
      <4>5. QED
        BY <4>1, <4>2, <4>3, <4>4, Zenon
    <3>6. sub = msgs[i]
      <4>1. sub \in Seq(Byte)
        BY <3>3
      <4>2. Len(sub) = Len(msgs[i]) /\ \A j \in 1..Len(sub) : sub[j] = msgs[i][j]
        BY <2>3, <3>4, <3>5
      <4>3. QED
        BY <2>2, <4>1, <4>2, SeqEqual
    <3>7. QED
      BY <3>6 DEF sub
  <2>12. QED
    BY <2>4, <2>5, <2>10, <2>11, Zenon
<1>9. f[1] = msgs
  <2>1. n = Len(msgs) /\ place \in [0..Len(msgs) -> Nat]
    BY <1>1
  <2>2. f[place[Len(msgs)] + 1] = <<>>
    BY <1>1, <1>7
  <2>3. \A i \in 1..Len(msgs) : f[place[i - 1] + 1] = <<msgs[i]>> \o f[place[i] + 1]
    BY <1>1, <1>8
  <2>4. QED
    BY <1>7, <2>1, <2>2, <2>3, WalkedBack, Zenon
<1>10. QED
  BY <1>9, SplitIs DEF f, s

(* A piece of a string that fits the header fits it too. *)
LEMMA Pieces ==
  ASSUME NEW s \in Seq(Byte), Fits(s), NEW a \in Nat, NEW b \in 0..Len(s), 1 <= a
  PROVE  SubSeq(s, a, b) \in Seq(Byte) /\ Fits(SubSeq(s, a, b))
<1>1. PICK L \in Nat : L = Len(s) /\ L < 256 * 256
  BY LenProperties DEF Fits
<1>2. \A i \in a..b : s[i] \in Byte
  <2>1. \A i \in a..b : i \in 1..L
    BY <1>1
  <2>2. QED
    BY <1>1, <2>1, ElementOfSeq
<1>3. a \in Int /\ b \in Int /\ b <= L
  BY <1>1
<1>4. /\ SubSeq(s, a, b) \in Seq(Byte)
      /\ Len(SubSeq(s, a, b)) = IF a <= b THEN b - a + 1 ELSE 0
  BY <1>2, <1>3, SubSeqProperties
<1>5. QED
  BY <1>1, <1>3, <1>4 DEF Fits

(* The longest message of a session fits the header. *)
LEMMA LongestFits == Longest \in Seq(Byte) /\ Fits(Longest)
<1>1. PICK n \in Nat : n = MaxLength /\ n < 256 * 256
  BY DEF MaxLength
<1>2. \A i \in 1..n : i % 256 \in Byte
  BY Bytes
<1>3. Longest = [i \in 1..n |-> i % 256]
  BY <1>1 DEF Longest
<1>4. Longest \in [1..n -> Byte]
  BY <1>2, <1>3
<1>5. Longest \in Seq(Byte) /\ DOMAIN Longest = 1..n
  BY <1>4, SeqDef
<1>6. Len(Longest) = n
  BY <1>5, LenProperties
<1>7. QED
  BY <1>1, <1>5, <1>6 DEF Fits

(* However a string is cut in three, the cuts are found again. *)
LEMMA AnyCutIsFound ==
  ASSUME NEW s \in Seq(Byte), Fits(s)
  PROVE  CutsAreFound(s)
<1>1. PICK L \in Nat : L = Len(s)
  BY LenProperties
<1>2. SUFFICES ASSUME NEW msgs \in Cuts(s)
               PROVE  /\ Split(Stream(msgs)) = msgs
                      /\ Split(Stream(<<Longest>> \o msgs)) = <<Longest>> \o msgs
  BY DEF CutsAreFound
<1>3. PICK p \in (0..L) \X (0..L) :
        msgs = <<SubSeq(s, 1, p[1]), SubSeq(s, p[1] + 1, p[2]), SubSeq(s, p[2] + 1, L)>>
  BY <1>1 DEF Cuts
<1>4. PICK i, j \in 0..L : i = p[1] /\ j = p[2]
  BY <1>3
<1> DEFINE a == SubSeq(s, 1, i)
           b == SubSeq(s, i + 1, j)
           c == SubSeq(s, j + 1, L)
<1>5. msgs = <<a, b, c>>
  BY <1>3, <1>4
<1>6. /\ a \in Seq(Byte) /\ Fits(a)
      /\ b \in Seq(Byte) /\ Fits(b)
      /\ c \in Seq(Byte) /\ Fits(c)
  <2>1. i \in 0..Len(s) /\ j \in 0..Len(s) /\ L \in 0..Len(s)
    BY <1>1
  <2>2. i + 1 \in Nat /\ 1 <= i + 1 /\ j + 1 \in Nat /\ 1 <= j + 1 /\ 1 \in Nat /\ 1 <= 1
    OBVIOUS
  <2>3. QED
    BY <2>1, <2>2, Pieces
<1> HIDE DEF a, b, c
<1>7. msgs \in Seq(Seq(Byte)) /\ \A k \in 1..Len(msgs) : Fits(msgs[k])
  <2>1. <<a, b, c>> \in Seq(Seq(Byte)) /\ Len(<<a, b, c>>) = 3
    BY <1>6
  <2>2. \A k \in 1..3 : k = 1 \/ k = 2 \/ k = 3
    OBVIOUS
  <2>3. <<a, b, c>>[1] = a /\ <<a, b, c>>[2] = b /\ <<a, b, c>>[3] = c
    OBVIOUS
  <2>4. QED
    BY <1>5, <1>6, <2>1, <2>2, <2>3
<1> DEFINE first == <<Longest>>
           more == first \o msgs
<1>8. more \in Seq(Seq(Byte)) /\ \A k \in 1..Len(more) : Fits(more[k])
  <2>1. first \in Seq(Seq(Byte)) /\ Len(first) = 1 /\ first[1] = Longest
    BY LongestFits
  <2> HIDE DEF first
  <2>2. PICK l \in Nat : l = Len(msgs)
    BY <1>7, LenProperties
  <2>3. /\ more \in Seq(Seq(Byte))
        /\ Len(more) = Len(first) + Len(msgs)
        /\ \A k \in 1..(Len(first) + Len(msgs)) :
             more[k] = IF k <= Len(first) THEN first[k] ELSE msgs[k - Len(first)]
    <3>1. first \in Seq(Seq(Byte)) /\ msgs \in Seq(Seq(Byte))
      BY <1>7, <2>1
    <3>2. QED
      BY <3>1, ConcatProperties
  <2> HIDE DEF more
  <2>4. /\ Len(more) = 1 + l
        /\ \A k \in 1..(1 + l) : more[k] = IF k <= 1 THEN first[k] ELSE msgs[k - 1]
    BY <2>1, <2>2, <2>3
  <2>5. ASSUME NEW k \in 1..(1 + l) PROVE Fits(more[k])
    <3>1. CASE k <= 1
      <4>1. k = 1
        BY <3>1
      <4>2. QED
        BY <2>1, <2>4, <4>1, LongestFits
    <3>2. CASE ~(k <= 1)
      <4>1. k - 1 \in 1..l
        BY <3>2
      <4>2. Fits(msgs[k - 1])
        BY <1>7, <2>2, <4>1
      <4>3. more[k] = msgs[k - 1]
        BY <2>4, <3>2
      <4>4. QED
        BY <4>2, <4>3
    <3>3. QED
      BY <3>1, <3>2
  <2>6. QED
    BY <2>3, <2>4, <2>5
<1>9. Split(Stream(msgs)) = msgs
  BY <1>7, SplitUndoesStream
<1>10. Split(Stream(more)) = more
  <2> HIDE DEF more
  <2>1. QED
    BY <1>8, SplitUndoesStream
<1>11. QED
  BY <1>9, <1>10
-----------------------------------------------------------------------------
(* The input is a string of bytes, no longer than the bound. *)
Inputs == str \in Seq(Byte) /\ Len(str) <= MaxLen

(* Every input is one. *)
LEMMA InputsInvariant == Spec => []Inputs
<1>1. Init => Inputs
  <2> SUFFICES ASSUME Init PROVE Inputs
    OBVIOUS
  <2>1. str = <<>> /\ <<>> \in Seq(Byte) /\ Len(<<>>) = 0
    BY DEF Init
  <2>2. QED
    BY <2>1, InputsAssumption DEF Inputs
<1>2. Inputs /\ [Next]_str => Inputs'
  <2> SUFFICES ASSUME Inputs, [Next]_str PROVE Inputs'
    OBVIOUS
  <2>1. CASE UNCHANGED str
    BY <2>1 DEF Inputs
  <2>2. CASE Next
    <3>1. PICK b \in Byte : str' = Append(str, b)
      BY <2>2 DEF Next
    <3>2. str \in Seq(Byte) /\ Len(str) < MaxLen
      BY <2>2 DEF Next, Inputs
    <3>3. Append(str, b) \in Seq(Byte) /\ Len(Append(str, b)) = Len(str) + 1
      BY <3>2, AppendProperties
    <3>4. Len(str) \in Nat
      BY <3>2, LenProperties
    <3>5. QED
      BY <3>1, <3>2, <3>3, <3>4, InputsAssumption DEF Inputs
  <2>3. QED
    BY <2>1, <2>2
<1>3. QED
  BY <1>1, <1>2, PTL DEF Spec

(* csession.h:20-29 of 04: wherever an input is cut into messages, the     *)
(* peer finds the same messages in the stream of their nodes, for inputs   *)
(* of every length the two bytes of the header can say.                    *)
THEOREM BoundariesAreKept ==
  ASSUME MaxLen < 256 * 256
  PROVE  Spec => []BoundariesSurvive
<1>1. Inputs => BoundariesSurvive
  <2> SUFFICES ASSUME Inputs PROVE BoundariesSurvive
    OBVIOUS
  <2>1. str \in Seq(Byte) /\ Len(str) \in Nat /\ Len(str) <= MaxLen
    BY LenProperties DEF Inputs
  <2>2. Fits(str)
    BY <2>1, InputsAssumption DEF Fits
  <2>3. QED
    BY <2>1, <2>2, AnyCutIsFound DEF BoundariesSurvive
<1>2. QED
  BY <1>1, InputsInvariant, PTL

-----------------------------------------------------------------------------
(* The three ranges of IsHexArg, without listing them. *)
LEMMA Ranges ==
  /\ \A c : c \in Digit <=> c \in Int /\ 48 <= c /\ c <= 57
  /\ \A c : c \in Upper <=> c \in Int /\ 65 <= c /\ c <= 90
  /\ \A c : c \in Lower <=> c \in Int /\ 97 <= c /\ c <= 122
<1>1. \A a, b \in Int : \A c : c \in a..b <=> c \in Int /\ a <= c /\ c <= b
  OBVIOUS
<1>2. PICK a1, b1 \in Int : a1 = 48 /\ b1 = 57 /\ Digit = a1..b1
  BY SMT DEF Digit
<1>3. PICK a2, b2 \in Int : a2 = 65 /\ b2 = 90 /\ Upper = a2..b2
  BY SMT DEF Upper
<1>4. PICK a3, b3 \in Int : a3 = 97 /\ b3 = 122 /\ Lower = a3..b3
  BY SMT DEF Lower
<1>5. QED
  BY <1>1, <1>2, <1>3, <1>4

(* A hexadecimal digit is read back. *)
LEMMA HexRead ==
  ASSUME NEW x \in 0..15
  PROVE  /\ IsHexArg(ToHex(x))
         /\ FromHex(ToHex(x)) = x
         /\ ToHex(x) \in Nat /\ ToHex(x) < 256
         /\ ToHex(x) # Percent
<1>1. CASE x > 9
  <2>1. ToHex(x) = x + 55 /\ x + 55 \in Upper /\ x + 55 \notin Lower /\ x + 55 \notin Digit
    BY <1>1, Ranges DEF ToHex
  <2>2. FromHex(x + 55) = x
    BY <2>1 DEF FromHex
  <2>3. QED
    BY <1>1, <2>1, <2>2 DEF IsHexArg, Percent
<1>2. CASE ~(x > 9)
  <2>1. ToHex(x) = x + 48 /\ x + 48 \in Digit /\ x + 48 \notin Upper /\ x + 48 \notin Lower
    BY <1>2, Ranges DEF ToHex
  <2>2. FromHex(x + 48) = x
    BY <2>1 DEF FromHex
  <2>3. QED
    BY <1>2, <2>1, <2>2 DEF IsHexArg, Percent
<1>3. QED
  BY <1>1, <1>2

(* The byte that the escape at i of a string stands for. *)
EscapedAt(s, i) == (FromHex(s[i + 1]) * 16 + FromHex(s[i + 2])) % 256

(* What one byte becomes, and what can be read of it. *)
Plain(b, code) == Len(code) = 1 /\ code[1] = b /\ b # Plus /\ b # Percent
Blank(b, code) == Len(code) = 1 /\ code[1] = Plus /\ b = Space
Escape(b, code) ==
  /\ Len(code) = 3
  /\ code[1] = Percent
  /\ IsHexArg(code[2]) /\ code[2] # Percent
  /\ IsHexArg(code[3]) /\ code[3] # Percent
  /\ EscapedAt(code, 1) = b

(* EncodeByte makes one of the three of every ASCII byte. *)
LEMMA EncodedByte ==
  ASSUME NEW b \in Nat, b < 128
  PROVE  /\ EncodeByte(b) \in Seq(Byte)
         /\ \/ Plain(b, EncodeByte(b))
            \/ Blank(b, EncodeByte(b))
            \/ Escape(b, EncodeByte(b))
<1>1. CASE b \in Unreserved
  <2>1. b # Plus /\ b # Percent /\ b # Space
    BY <1>1, Ranges DEF Unreserved, Plus, Percent, Space
  <2>2. EncodeByte(b) = <<b>>
    BY <1>1, <2>1 DEF EncodeByte
  <2>3. <<b>> \in Seq(Byte) /\ Len(<<b>>) = 1 /\ <<b>>[1] = b
    BY Bytes
  <2>4. QED
    BY <2>1, <2>2, <2>3 DEF Plain
<1>2. CASE b = Space
  <2>1. b \notin Unreserved
    BY <1>2, Ranges DEF Unreserved, Space
  <2>2. EncodeByte(b) = <<Plus>>
    BY <1>2, <2>1 DEF EncodeByte
  <2>3. Plus \in Byte
    BY Bytes DEF Plus
  <2>4. <<Plus>> \in Seq(Byte) /\ Len(<<Plus>>) = 1 /\ <<Plus>>[1] = Plus
    BY <2>3
  <2>5. QED
    BY <1>2, <2>2, <2>4 DEF Blank
<1>3. CASE b \notin Unreserved /\ b # Space
  <2>1. PICK x, y \in 0..15 : x = b \div 16 /\ y = b % 16 /\ x * 16 + y = b
    <3>1. b \div 16 \in 0..15 /\ b % 16 \in 0..15 /\ (b \div 16) * 16 + (b % 16) = b
      OBVIOUS
    <3>2. QED
      BY <3>1
  <2>2. ShiftRight4(b) = x
    BY <2>1 DEF ShiftRight4
  <2> DEFINE h == ToHex(x)
             l == ToHex(y)
  <2>3. EncodeByte(b) = <<Percent, h, l>>
    BY <1>3, <2>1, <2>2 DEF EncodeByte
  <2>4. /\ IsHexArg(h) /\ FromHex(h) = x /\ h \in Nat /\ h < 256 /\ h # Percent
        /\ IsHexArg(l) /\ FromHex(l) = y /\ l \in Nat /\ l < 256 /\ l # Percent
    BY HexRead
  <2> HIDE DEF h, l
  <2>5. (FromHex(h) * 16 + FromHex(l)) % 256 = b
    BY <2>1, <2>4
  <2>6. h \in Byte /\ l \in Byte /\ Percent \in Byte
    BY <2>4, Bytes DEF Percent
  <2>7. <<Percent, h, l>> \in Seq(Byte) /\ Len(<<Percent, h, l>>) = 3
    BY <2>6
  <2>8. <<Percent, h, l>>[1] = Percent /\ <<Percent, h, l>>[2] = h /\ <<Percent, h, l>>[3] = l
    OBVIOUS
  <2>9. EscapedAt(<<Percent, h, l>>, 1) = b
    <3>1. 1 + 1 = 2 /\ 1 + 2 = 3
      OBVIOUS
    <3>2. QED
      BY <2>5, <2>8, <3>1 DEF EscapedAt
  <2>10. QED
    BY <2>3, <2>4, <2>7, <2>8, <2>9, Zenon DEF Escape
<1>4. QED
  BY <1>1, <1>2, <1>3

(* The recursion of UrlDecode. *)
IsDecode(f, s) ==
  f = [i \in 1..(Len(s) + 1) |->
        CASE i > Len(s) -> <<>>
          [] i <= Len(s) /\ s[i] = Plus -> <<Space>> \o f[i + 1]
          [] i <= Len(s) /\ s[i] = Percent ->
               <<EscapedAt(s, i)>> \o f[i + 3]
          [] OTHER -> <<s[i]>> \o f[i + 1]]
ADecode(s) == CHOOSE f : IsDecode(f, s)

(* UrlDecode is that recursion, from the first position. *)
LEMMA DecodeIs ==
  ASSUME NEW s
  PROVE  UrlDecode(s) = ADecode(s)[1]
BY DEF UrlDecode, ADecode, IsDecode, EscapedAt

(* The recursion defines a function on every string on which no assert     *)
(* fails.                                                                  *)
LEMMA DecodeExists ==
  ASSUME NEW s \in Seq(Byte), ~DecodeAborts(s)
  PROVE  IsDecode(ADecode(s), s)
<1>1. PICK L \in Nat : L = Len(s) /\ DOMAIN s = 1..L
  BY LenProperties
<1> DEFINE stop == {i \in 1..(L + 1) : i > L}
           item == [i \in 1..L |->
                      IF s[i] = Plus THEN <<Space>>
                      ELSE IF s[i] = Percent
                      THEN <<EscapedAt(s, i)>>
                      ELSE <<s[i]>>]
           next == [i \in 1..L |-> IF s[i] = Percent THEN i + 3 ELSE i + 1]
           f == AWalk(L, stop, item, next)
<1>2. ASSUME NEW i \in 1..L PROVE next[i] \in (i + 1)..(L + 1)
  <2>1. next[i] = IF s[i] = Percent THEN i + 3 ELSE i + 1
    OBVIOUS
  <2>2. s[i] = Percent => i + 2 <= L
    BY <1>1 DEF DecodeAborts
  <2> HIDE DEF next
  <2>3. QED
    BY <2>1, <2>2
<1>3. L + 1 \in stop
  OBVIOUS
<1>4. \A i \in 1..(L + 1) :
        IF i \in stop THEN i > L ELSE ~(i > L) /\ i <= L /\ i \in 1..L
  OBVIOUS
<1>5. \A i \in 1..L :
        /\ item[i] = IF s[i] = Plus THEN <<Space>>
                     ELSE IF s[i] = Percent
                     THEN <<EscapedAt(s, i)>>
                     ELSE <<s[i]>>
        /\ next[i] = IF s[i] = Percent THEN i + 3 ELSE i + 1
  OBVIOUS
<1> HIDE DEF stop, item, next
<1>6. Walk(f, L, stop, item, next)
  <2>1. \A i \in 1..L : i \notin stop => next[i] \in (i + 1)..(L + 1)
    BY <1>2
  <2>2. QED
    BY <1>3, <2>1, WalkExists
<1> HIDE DEF f
<1>7. f = [i \in 1..(L + 1) |-> f[i]] /\ \A i \in 1..(L + 1) :
        f[i] = IF i \in stop THEN <<>> ELSE item[i] \o f[next[i]]
  BY <1>6 DEF Walk
<1>8. Plus # Percent
  BY DEF Plus, Percent
<1>9. ASSUME NEW i \in 1..(L + 1)
      PROVE  f[i] = CASE i > L -> <<>>
                      [] i <= L /\ s[i] = Plus -> <<Space>> \o f[i + 1]
                      [] i <= L /\ s[i] = Percent ->
                           <<EscapedAt(s, i)>> \o f[i + 3]
                      [] OTHER -> <<s[i]>> \o f[i + 1]
  <2>1. CASE i \in stop
    <3>1. i > L /\ ~(i <= L)
      BY <1>4, <2>1
    <3>2. f[i] = <<>>
      BY <1>7, <2>1
    <3>3. QED
      BY <3>1, <3>2
  <2>2. CASE i \notin stop
    <3>1. i <= L /\ ~(i > L) /\ i \in 1..L
      BY <1>4, <2>2
    <3>2. /\ item[i] = IF s[i] = Plus THEN <<Space>>
                       ELSE IF s[i] = Percent THEN <<EscapedAt(s, i)>> ELSE <<s[i]>>
          /\ next[i] = IF s[i] = Percent THEN i + 3 ELSE i + 1
      BY <1>5, <3>1
    <3>3. f[i] = item[i] \o f[next[i]]
      BY <1>7, <2>2
    <3>4. QED
      BY <1>8, <3>1, <3>2, <3>3
  <2>3. QED
    BY <2>1, <2>2
<1>10. IsDecode(f, s)
  BY <1>1, <1>7, <1>9 DEF IsDecode
<1>11. QED
  BY <1>10, Zenon DEF ADecode

(* What UrlDecode does at each position. *)
LEMMA DecodeSteps ==
  ASSUME NEW s \in Seq(Byte), ~DecodeAborts(s)
  PROVE  /\ ADecode(s)[Len(s) + 1] = <<>>
         /\ \A p \in Nat : p + 1 <= Len(s) =>
              ADecode(s)[p + 1] =
                IF s[p + 1] = Plus THEN <<Space>> \o ADecode(s)[(p + 1) + 1]
                ELSE IF s[p + 1] = Percent
                THEN <<EscapedAt(s, p + 1)>>
                       \o ADecode(s)[(p + 3) + 1]
                ELSE <<s[p + 1]>> \o ADecode(s)[(p + 1) + 1]
<1>1. PICK L \in Nat : L = Len(s)
  BY LenProperties
<1> DEFINE f == ADecode(s)
<1>2. IsDecode(f, s)
  BY DecodeExists
<1> HIDE DEF f
<1>3. \A i \in 1..(L + 1) :
        f[i] = CASE i > L -> <<>>
                 [] i <= L /\ s[i] = Plus -> <<Space>> \o f[i + 1]
                 [] i <= L /\ s[i] = Percent ->
                      <<EscapedAt(s, i)>> \o f[i + 3]
                 [] OTHER -> <<s[i]>> \o f[i + 1]
  <2>1. f = [i \in 1..(L + 1) |->
              CASE i > L -> <<>>
                [] i <= L /\ s[i] = Plus -> <<Space>> \o f[i + 1]
                [] i <= L /\ s[i] = Percent -> <<EscapedAt(s, i)>> \o f[i + 3]
                [] OTHER -> <<s[i]>> \o f[i + 1]]
    BY <1>1, <1>2, Zenon DEF IsDecode
  <2>2. QED
    BY <2>1, Zenon
<1>4. f[L + 1] = <<>>
  <2>1. L + 1 \in 1..(L + 1) /\ L + 1 > L /\ ~(L + 1 <= L)
    OBVIOUS
  <2>2. QED
    BY <1>3, <2>1
<1>5. Plus # Percent
  BY DEF Plus, Percent
<1>6. ASSUME NEW p \in Nat, p + 1 <= L
      PROVE  f[p + 1] =
               IF s[p + 1] = Plus THEN <<Space>> \o f[(p + 1) + 1]
               ELSE IF s[p + 1] = Percent
               THEN <<EscapedAt(s, p + 1)>> \o f[(p + 3) + 1]
               ELSE <<s[p + 1]>> \o f[(p + 1) + 1]
  <2>1. /\ p + 1 \in 1..(L + 1) /\ ~(p + 1 > L)
        /\ (p + 1) + 1 = p + 2 /\ (p + 1) + 2 = p + 3 /\ (p + 1) + 3 = (p + 3) + 1
    BY <1>6
  <2>2. f[p + 1] = CASE p + 1 > L -> <<>>
                     [] p + 1 <= L /\ s[p + 1] = Plus -> <<Space>> \o f[(p + 1) + 1]
                     [] p + 1 <= L /\ s[p + 1] = Percent ->
                          <<EscapedAt(s, p + 1)>> \o f[(p + 3) + 1]
                     [] OTHER -> <<s[p + 1]>> \o f[(p + 1) + 1]
    BY <1>3, <2>1
  <2>3. QED
    BY <1>5, <1>6, <2>1, <2>2
<1>7. QED
  BY <1>1, <1>4, <1>6 DEF f

(* What UrlEncode joins. *)
Codes(s) == [i \in DOMAIN s |-> EncodeByte(s[i])]

(* UrlEncode joins one of the three for each byte. *)
LEMMA CodesOf ==
  ASSUME NEW s \in Seq(Byte), Ascii(s)
  PROVE  /\ UrlEncode(s) = FlattenSeq(Codes(s))
         /\ Codes(s) \in Seq(Seq(Byte))
         /\ Len(Codes(s)) = Len(s)
         /\ \A i \in 1..Len(s) : \/ Plain(s[i], Codes(s)[i])
                                 \/ Blank(s[i], Codes(s)[i])
                                 \/ Escape(s[i], Codes(s)[i])
<1> DEFINE codes == Codes(s)
<1>1. PICK n \in Nat : n = Len(s) /\ DOMAIN s = 1..n
  BY LenProperties
<1>2. \A i \in 1..n : s[i] \in Nat /\ s[i] < 128
  <2>1. PICK top \in Nat : top = 127
    OBVIOUS
  <2>2. ToSet(s) \subseteq 0..top
    BY <2>1, SMT DEF Ascii
  <2>3. \A i \in 1..n : s[i] \in ToSet(s)
    BY <1>1 DEF ToSet
  <2>4. \A i \in 1..n : s[i] \in 0..top
    BY <2>2, <2>3
  <2>5. \A x \in 0..top : x \in Nat /\ x < 128
    BY <2>1
  <2>6. QED
    BY <2>4, <2>5
<1>3. ASSUME NEW i \in 1..n
      PROVE  /\ codes[i] \in Seq(Byte)
             /\ \/ Plain(s[i], codes[i])
                \/ Blank(s[i], codes[i])
                \/ Escape(s[i], codes[i])
  <2>1. codes[i] = EncodeByte(s[i])
    BY <1>1 DEF Codes
  <2>2. QED
    BY <1>2, <2>1, EncodedByte
<1>4. codes = [i \in 1..n |-> codes[i]]
  BY <1>1 DEF Codes
<1>5. UrlEncode(s) = FlattenSeq(codes)
  BY DEF UrlEncode, Codes
<1> HIDE DEF codes
<1>6. codes \in [1..n -> Seq(Byte)]
  BY <1>3, <1>4
<1>7. codes \in Seq(Seq(Byte)) /\ DOMAIN codes = 1..n
  BY <1>6, SeqDef
<1>8. Len(codes) = n
  BY <1>7, LenProperties
<1>9. QED
  BY <1>1, <1>3, <1>5, <1>7, <1>8 DEF codes

(* The same in terms of the encoded string e, in which the code of s[i]    *)
(* ends at place[i].                                                       *)
Encoded(s, e, place, i) ==
  LET p == place[i - 1]
  IN  \/ /\ place[i] = p + 1
         /\ e[p + 1] = s[i] /\ s[i] # Plus /\ s[i] # Percent
      \/ /\ place[i] = p + 1
         /\ e[p + 1] = Plus /\ s[i] = Space
      \/ /\ place[i] = p + 3
         /\ e[p + 1] = Percent
         /\ IsHexArg(e[p + 2]) /\ e[p + 2] # Percent
         /\ IsHexArg(e[p + 3]) /\ e[p + 3] # Percent
         /\ EscapedAt(e, p + 1) = s[i]

(* The codes follow each other and leave no place between them. *)
LEMMA EncodedString ==
  ASSUME NEW s \in Seq(Byte), Ascii(s)
  PROVE  /\ UrlEncode(s) \in Seq(Byte)
         /\ \E place \in [0..Len(s) -> Nat] :
              /\ place[0] = 0
              /\ place[Len(s)] = Len(UrlEncode(s))
              /\ \A i \in 1..Len(s) : /\ place[i] <= Len(UrlEncode(s))
                                      /\ Encoded(s, UrlEncode(s), place, i)
              /\ \A q \in 1..Len(UrlEncode(s)) : \E i \in 1..Len(s) :
                   place[i - 1] < q /\ q <= place[i]
<1>1. PICK n \in Nat : n = Len(s)
  BY LenProperties
<1> DEFINE codes == Codes(s)
           e == UrlEncode(s)
<1>2. /\ e = FlattenSeq(codes)
      /\ codes \in Seq(Seq(Byte))
      /\ Len(codes) = n
      /\ \A i \in 1..n : \/ Plain(s[i], codes[i])
                         \/ Blank(s[i], codes[i])
                         \/ Escape(s[i], codes[i])
  <2>1. /\ UrlEncode(s) = FlattenSeq(Codes(s))
        /\ Codes(s) \in Seq(Seq(Byte))
        /\ Len(Codes(s)) = Len(s)
        /\ \A i \in 1..Len(s) : \/ Plain(s[i], Codes(s)[i])
                                \/ Blank(s[i], Codes(s)[i])
                                \/ Escape(s[i], Codes(s)[i])
    BY CodesOf
  <2>2. QED
    BY <1>1, <2>1, Zenon
<1> HIDE DEF codes, e
<1>3. e \in Seq(Byte) /\ \E place \in [0..Len(codes) -> Nat] : Places(place, codes, e)
  <2>1. codes \in Seq(Seq(Byte)) /\ e = FlattenSeq(codes)
    BY <1>2
  <2>2. QED
    BY <2>1, Placed
<1>4. PICK place \in [0..n -> Nat] : Places(place, codes, e)
  BY <1>2, <1>3
<1>5. /\ place[0] = 0 /\ place[n] = Len(e)
      /\ \A i \in 1..n :
           /\ place[i] = place[i - 1] + Len(codes[i])
           /\ place[i] <= Len(e)
           /\ \A j \in 1..Len(codes[i]) : e[place[i - 1] + j] = codes[i][j]
  BY <1>2, <1>4 DEF Places
<1>6. ASSUME NEW i \in 1..n PROVE Encoded(s, e, place, i)
  <2>1. PICK p \in Nat : p = place[i - 1]
    BY <1>4
  <2>2. /\ place[i] = p + Len(codes[i])
        /\ \A j \in 1..Len(codes[i]) : e[p + j] = codes[i][j]
    BY <1>5, <2>1
  <2>3. CASE Plain(s[i], codes[i])
    <3>1. 1 \in 1..1
      OBVIOUS
    <3>2. Len(codes[i]) = 1 /\ e[p + 1] = s[i] /\ s[i] # Plus /\ s[i] # Percent
      BY <2>2, <2>3, <3>1 DEF Plain
    <3>3. QED
      BY <2>1, <2>2, <3>2 DEF Encoded
  <2>4. CASE Blank(s[i], codes[i])
    <3>1. 1 \in 1..1
      OBVIOUS
    <3>2. Len(codes[i]) = 1 /\ e[p + 1] = Plus /\ s[i] = Space
      BY <2>2, <2>4, <3>1 DEF Blank
    <3>3. QED
      BY <2>1, <2>2, <3>2 DEF Encoded
  <2>5. CASE Escape(s[i], codes[i])
    <3>1. 1 \in 1..3 /\ 2 \in 1..3 /\ 3 \in 1..3
      OBVIOUS
    <3>2. /\ Len(codes[i]) = 3
          /\ e[p + 1] = codes[i][1] /\ e[p + 2] = codes[i][2] /\ e[p + 3] = codes[i][3]
      BY <2>2, <2>5, <3>1 DEF Escape
    <3>3. /\ e[p + 1] = Percent
          /\ IsHexArg(e[p + 2]) /\ e[p + 2] # Percent
          /\ IsHexArg(e[p + 3]) /\ e[p + 3] # Percent
      BY <2>5, <3>2, Zenon DEF Escape
    <3>4. EscapedAt(e, p + 1) = s[i]
      <4>1. /\ (p + 1) + 1 = p + 2 /\ (p + 1) + 2 = p + 3
            /\ 1 + 1 = 2 /\ 1 + 2 = 3
        OBVIOUS
      <4>2. EscapedAt(e, p + 1) = EscapedAt(codes[i], 1)
        BY <3>2, <4>1 DEF EscapedAt
      <4>3. QED
        BY <2>5, <4>2 DEF Escape
    <3>5. QED
      BY <2>1, <2>2, <3>2, <3>3, <3>4, Zenon DEF Encoded
  <2>6. QED
    BY <1>2, <2>3, <2>4, <2>5
<1>7. ASSUME NEW q \in 1..Len(e)
      PROVE  \E i \in 1..n : place[i - 1] < q /\ q <= place[i]
  <2>1. PICK i \in 1..n : \E j \in 1..Len(codes[i]) : q = place[i - 1] + j
    <3>1. /\ codes \in Seq(Seq(Byte)) /\ place \in [0..Len(codes) -> Nat]
          /\ Places(place, codes, e)
      BY <1>2, <1>4
    <3>2. Covers(place, codes, e)
      BY <3>1, Located
    <3>3. QED
      BY <1>2, <3>2 DEF Covers
  <2>2. PICK k \in Nat : k = Len(codes[i])
    <3>1. codes[i] \in Seq(Byte)
      BY <1>2, ElementOfSeq
    <3>2. Len(codes[i]) \in Nat
      BY <3>1, LenProperties
    <3>3. QED
      BY <3>2
  <2>3. PICK j \in 1..k : q = place[i - 1] + j
    BY <2>1, <2>2
  <2>4. PICK p \in Nat : p = place[i - 1]
    BY <1>4
  <2>5. place[i] = p + k
    BY <1>5, <2>2, <2>4
  <2>6. p < q /\ q <= p + k
    BY <2>3, <2>4
  <2>7. QED
    BY <2>4, <2>5, <2>6
<1>8. QED
  BY <1>1, <1>3, <1>4, <1>5, <1>6, <1>7 DEF e

(* http_connection.cpp:72-93: no assert of UrlDecode or FromHex fails on   *)
(* what UrlEncode makes of an ASCII string: every % starts an escape.      *)
LEMMA NoAssertFails ==
  ASSUME NEW s \in Seq(Byte), Ascii(s)
  PROVE  ~DecodeAborts(UrlEncode(s))
<1>1. PICK n \in Nat : n = Len(s)
  BY LenProperties
<1> DEFINE e == UrlEncode(s)
<1>2. /\ e \in Seq(Byte)
      /\ \E place \in [0..n -> Nat] :
           /\ \A i \in 1..n : place[i] <= Len(e) /\ Encoded(s, e, place, i)
           /\ \A q \in 1..Len(e) : \E i \in 1..n : place[i - 1] < q /\ q <= place[i]
  BY <1>1, EncodedString
<1> HIDE DEF e
<1>3. PICK place \in [0..n -> Nat] :
        /\ \A i \in 1..n : place[i] <= Len(e) /\ Encoded(s, e, place, i)
        /\ \A q \in 1..Len(e) : \E i \in 1..n : place[i - 1] < q /\ q <= place[i]
  BY <1>2
<1>4. PICK L \in Nat : L = Len(e) /\ DOMAIN e = 1..L
  BY <1>2, LenProperties
<1>5. ASSUME NEW q \in 1..L, e[q] = Percent
      PROVE  q + 2 <= L /\ IsHexArg(e[q + 1]) /\ IsHexArg(e[q + 2])
  <2>1. PICK i \in 1..n : place[i - 1] < q /\ q <= place[i]
    BY <1>3, <1>4
  <2>2. PICK p \in Nat : p = place[i - 1]
    BY <1>3
  <2>3. PICK r \in Nat : r = place[i] /\ r <= L
    BY <1>3, <1>4
  <2>4. p < q /\ q <= r
    BY <2>1, <2>2, <2>3
  <2>5. Plus # Percent
    BY DEF Plus, Percent
  <2>6. \/ /\ r = p + 1
           /\ e[p + 1] # Percent
        \/ /\ r = p + 3
           /\ IsHexArg(e[p + 2]) /\ e[p + 2] # Percent
           /\ IsHexArg(e[p + 3]) /\ e[p + 3] # Percent
    <3>1. Encoded(s, e, place, i)
      BY <1>3
    <3>2. QED
      BY <2>2, <2>3, <2>5, <3>1 DEF Encoded
  <2>7. CASE r = p + 1 /\ e[p + 1] # Percent
    <3>1. q = p + 1
      BY <2>4, <2>7
    <3>2. QED
      BY <1>5, <2>7, <3>1
  <2>8. CASE /\ r = p + 3
             /\ IsHexArg(e[p + 2]) /\ e[p + 2] # Percent
             /\ IsHexArg(e[p + 3]) /\ e[p + 3] # Percent
    <3>1. q # p + 2 /\ q # p + 3
      BY <1>5, <2>8
    <3>2. q = p + 1 /\ q + 1 = p + 2 /\ q + 2 = p + 3 /\ q + 2 <= L
      BY <2>3, <2>4, <2>8, <3>1
    <3>3. QED
      BY <2>8, <3>2
  <2>9. QED
    BY <2>6, <2>7, <2>8
<1>6. ~DecodeAborts(e)
  <2>1. \A q \in 1..L : q + 2 <= L <=> ~(q + 2 > L)
    OBVIOUS
  <2>2. QED
    BY <1>4, <1>5, <2>1 DEF DecodeAborts
<1>7. QED
  BY <1>6 DEF e

(* UrlDecode gives the string back that UrlEncode was given. *)
LEMMA DecodeUndoes ==
  ASSUME NEW s \in Seq(Byte), Ascii(s)
  PROVE  UrlDecode(UrlEncode(s)) = s
<1>1. PICK n \in Nat : n = Len(s)
  BY LenProperties
<1> DEFINE e == UrlEncode(s)
           f == ADecode(e)
<1>2. /\ e \in Seq(Byte)
      /\ \E place \in [0..n -> Nat] :
           /\ place[0] = 0 /\ place[n] = Len(e)
           /\ \A i \in 1..n : place[i] <= Len(e) /\ Encoded(s, e, place, i)
  BY <1>1, EncodedString
<1>3. ~DecodeAborts(e)
  BY NoAssertFails
<1> HIDE DEF e
<1>4. PICK place \in [0..n -> Nat] :
        /\ place[0] = 0 /\ place[n] = Len(e)
        /\ \A i \in 1..n : place[i] <= Len(e) /\ Encoded(s, e, place, i)
  BY <1>2
<1>5. PICK L \in Nat : L = Len(e)
  BY <1>2, LenProperties
<1>6. /\ f[L + 1] = <<>>
      /\ \A p \in Nat : p + 1 <= L =>
           f[p + 1] =
             IF e[p + 1] = Plus THEN <<Space>> \o f[(p + 1) + 1]
             ELSE IF e[p + 1] = Percent
             THEN <<EscapedAt(e, p + 1)>> \o f[(p + 3) + 1]
             ELSE <<e[p + 1]>> \o f[(p + 1) + 1]
  <2>1. e \in Seq(Byte) /\ ~DecodeAborts(e)
    BY <1>2, <1>3
  <2>2. /\ ADecode(e)[Len(e) + 1] = <<>>
        /\ \A p \in Nat : p + 1 <= Len(e) =>
             ADecode(e)[p + 1] =
               IF e[p + 1] = Plus THEN <<Space>> \o ADecode(e)[(p + 1) + 1]
               ELSE IF e[p + 1] = Percent
               THEN <<EscapedAt(e, p + 1)>>
                      \o ADecode(e)[(p + 3) + 1]
               ELSE <<e[p + 1]>> \o ADecode(e)[(p + 1) + 1]
    BY <2>1, DecodeSteps, Zenon
  <2>3. QED
    BY <1>5, <2>2, Zenon
<1> HIDE DEF f
<1>7. Plus # Percent
  BY DEF Plus, Percent
<1>8. ASSUME NEW i \in 1..n
      PROVE  f[place[i - 1] + 1] = <<s[i]>> \o f[place[i] + 1]
  <2>1. PICK p \in Nat : p = place[i - 1]
    BY <1>4
  <2>2. PICK r \in Nat : r = place[i] /\ r <= L
    BY <1>4, <1>5
  <2>3. \/ /\ r = p + 1
           /\ e[p + 1] = s[i] /\ s[i] # Plus /\ s[i] # Percent
        \/ /\ r = p + 1
           /\ e[p + 1] = Plus /\ s[i] = Space
        \/ /\ r = p + 3
           /\ e[p + 1] = Percent
           /\ EscapedAt(e, p + 1) = s[i]
    <3>1. Encoded(s, e, place, i)
      BY <1>4
    <3>2. QED
      BY <2>1, <2>2, <3>1, Zenon DEF Encoded
  <2>4. p + 1 <= L
    <3>1. r = p + 1 \/ r = p + 3
      BY <2>3
    <3>2. QED
      BY <2>2, <3>1
  <2>5. f[p + 1] = IF e[p + 1] = Plus THEN <<Space>> \o f[(p + 1) + 1]
                   ELSE IF e[p + 1] = Percent THEN <<EscapedAt(e, p + 1)>> \o f[(p + 3) + 1]
                   ELSE <<e[p + 1]>> \o f[(p + 1) + 1]
    BY <1>6, <2>4, Zenon
  <2>6. f[p + 1] = <<s[i]>> \o f[r + 1]
    BY <1>7, <2>3, <2>5, Zenon
  <2>7. QED
    BY <2>1, <2>2, <2>6, Zenon
<1>9. f[1] = s
  <2>1. n = Len(s) /\ place \in [0..Len(s) -> Nat]
    BY <1>1
  <2>2. place[0] = 0 /\ f[place[Len(s)] + 1] = <<>>
    BY <1>1, <1>4, <1>5, <1>6
  <2>3. \A i \in 1..Len(s) : f[place[i - 1] + 1] = <<s[i]>> \o f[place[i] + 1]
    BY <1>1, <1>8
  <2>4. QED
    BY <2>1, <2>2, <2>3, WalkedBack, Zenon
<1>10. QED
  BY <1>9, DecodeIs DEF f, e

(* http_connection.cpp:48-93: an ASCII string of any length that UrlEncode *)
(* encodes comes back from UrlDecode, and none of its asserts fails.       *)
THEOREM DecodingUndoesEncoding == Spec => []DecodeUndoesEncode
<1>1. Inputs => DecodeUndoesEncode
  BY NoAssertFails, DecodeUndoes DEF Inputs, DecodeUndoesEncode
<1>2. QED
  BY <1>1, InputsInvariant, PTL

-----------------------------------------------------------------------------
(* A set of naturals has a least element, and Min finds it. *)
LEMMA MinIsLeast ==
  ASSUME NEW S, S \subseteq Nat, S # {}
  PROVE  Min(S) \in S /\ \A y \in S : Min(S) <= y
<1>1. IsWellFoundedOn(OpToRel(<, Nat), Nat)
  BY NatLessThanWellFounded
<1>2. PICK x \in S : \A y \in S : ~(<<y, x>> \in OpToRel(<, Nat))
  BY <1>1, WFMin
<1>3. ASSUME NEW y \in S PROVE x <= y
  <2>1. SUFFICES ASSUME y < x PROVE FALSE
    OBVIOUS
  <2>2. <<y, x>> \in OpToRel(<, Nat)
    BY <2>1 DEF OpToRel
  <2>3. QED
    BY <1>2, <2>2
<1>4. QED
  BY <1>3 DEF Min

(* Where find stops: at the first b from a position on, or past the end. *)
IsFirst(s, b, from, at) ==
  /\ at \in from..(Len(s) + 1)
  /\ \A i \in from..(at - 1) : s[i] # b
  /\ at <= Len(s) => s[at] = b

(* FindFrom is that, and nothing else is. *)
LEMMA FindsFirst ==
  ASSUME NEW s, Len(s) \in Nat, NEW b, NEW from \in 1..(Len(s) + 1)
  PROVE  /\ IsFirst(s, b, from, FindFrom(s, b, from))
         /\ \A at : IsFirst(s, b, from, at) => FindFrom(s, b, from) = at
<1>1. PICK L \in Nat : L = Len(s)
  OBVIOUS
<1> DEFINE I == {i \in from..L : s[i] = b}
           here == FindFrom(s, b, from)
<1>2. I \subseteq Nat /\ 0 \notin I
  BY <1>1
<1>3. here = IF (IF I # {} THEN Min(I) ELSE 0) = 0 THEN L + 1
             ELSE IF I # {} THEN Min(I) ELSE 0
  BY <1>1 DEF FindFrom, SelectInSubSeq
<1>4. I # {} => Min(I) \in I /\ \A y \in I : Min(I) <= y
  <2> HIDE DEF I
  <2>1. QED
    BY <1>2, MinIsLeast
<1>5. /\ I # {} => here \in I /\ \A y \in I : here <= y
      /\ I = {} => here = L + 1
  <2> HIDE DEF I
  <2>1. QED
    BY <1>2, <1>3, <1>4, Zenon
<1> HIDE DEF here
<1>6. here \in from..(L + 1) /\ here <= L => s[here] = b
  <2>1. CASE I = {}
    BY <1>1, <1>5, <2>1
  <2>2. CASE I # {}
    BY <1>1, <1>5, <2>2
  <2>3. QED
    BY <2>1, <2>2
<1>7. here \in from..(L + 1)
  BY <1>1, <1>5
<1>8. ASSUME NEW i \in from..(here - 1) PROVE s[i] # b
  <2>1. i \in from..L /\ i < here
    BY <1>1, <1>7
  <2>2. QED
    BY <1>5, <2>1
<1>9. ASSUME NEW at, at \in from..(L + 1), \A i \in from..(at - 1) : s[i] # b,
             at <= L => s[at] = b
      PROVE  here = at
  <2>1. ~(here < at)
    <3>1. SUFFICES ASSUME here < at PROVE FALSE
      OBVIOUS
    <3>2. here \in from..(at - 1) /\ here <= L
      BY <1>1, <1>7, <1>9, <3>1
    <3>3. QED
      BY <1>6, <1>7, <1>9, <3>2
  <2>2. ~(at < here)
    <3>1. SUFFICES ASSUME at < here PROVE FALSE
      OBVIOUS
    <3>2. at \in from..(here - 1) /\ at <= L
      BY <1>1, <1>7, <1>9, <3>1
    <3>3. QED
      BY <1>8, <1>9, <3>2
  <2>3. here \in Int /\ at \in Int
    BY <1>7, <1>9
  <2>4. QED
    BY <2>1, <2>2, <2>3
<1>10. QED
  BY <1>1, <1>6, <1>7, <1>8, <1>9 DEF IsFirst, here

(* The recursion of GetParams. *)
ParamsAt(f, q, i) ==
  IF i > Len(q) THEN <<>>
  ELSE LET amp == FindFrom(q, Ampersand, i)
       IN  Over(f[amp + 1], SegmentParams(SubSeq(q, i, amp - 1)))
IsParams(f, q) == f = [i \in 1..(Len(q) + 2) |-> ParamsAt(f, q, i)]
AParams(q) == CHOOSE f : IsParams(f, q)

(* GetParams is that recursion, from the first position. *)
LEMMA ParamsIs ==
  ASSUME NEW target
  PROVE  GetParams(target) = AParams(QueryString(target))[1]
BY DEF GetParams, AParams, IsParams, ParamsAt

(* It looks at later positions only. *)
LEMMA ParamsLookAhead ==
  ASSUME NEW q, Len(q) \in Nat, NEW i \in 1..(Len(q) + 2), NEW f, NEW g,
         \A j \in (i + 1)..(Len(q) + 2) : f[j] = g[j]
  PROVE  ParamsAt(f, q, i) = ParamsAt(g, q, i)
<1>1. CASE i > Len(q)
  BY <1>1 DEF ParamsAt
<1>2. CASE ~(i > Len(q))
  <2> DEFINE amp == FindFrom(q, Ampersand, i)
  <2>1. amp \in i..(Len(q) + 1)
    <3>1. i \in 1..(Len(q) + 1)
      BY <1>2
    <3>2. QED
      BY <3>1, FindsFirst DEF IsFirst
  <2> HIDE DEF amp
  <2>2. amp + 1 \in (i + 1)..(Len(q) + 2)
    BY <2>1
  <2>3. f[amp + 1] = g[amp + 1]
    BY <2>2
  <2>4. QED
    BY <1>2, <2>3 DEF ParamsAt, amp
<1>3. QED
  BY <1>1, <1>2

(* So it defines a function. *)
LEMMA ParamsExist ==
  ASSUME NEW q, Len(q) \in Nat
  PROVE  IsParams(AParams(q), q)
<1>1. PICK n \in Nat : n = Len(q) + 2
  OBVIOUS
<1> DEFINE Is(f, k) == f = [i \in (k + 1)..n |-> ParamsAt(f, q, i)]
           T == {k \in 0..n : \E f : Is(f, k)}
<1>2. n \in T
  <2> DEFINE f == [i \in (n + 1)..n |-> <<>>]
  <2>1. \A i : i \notin (n + 1)..n
    OBVIOUS
  <2>2. f = [i \in (n + 1)..n |-> ParamsAt(f, q, i)]
    <3> DEFINE P(i) == ParamsAt(f, q, i)
    <3> HIDE DEF P
    <3>1. f = [i \in (n + 1)..n |-> P(i)]
      BY <2>1
    <3>2. QED
      BY <3>1 DEF P
  <2>3. n \in 0..n
    OBVIOUS
  <2> HIDE DEF f
  <2>4. QED
    BY <2>2, <2>3
<1>3. ASSUME NEW k \in 1..n, k \in T PROVE k - 1 \in T
  <2>1. PICK f : Is(f, k)
    BY <1>3
  <2> DEFINE g == [i \in k..n |-> IF i = k THEN ParamsAt(f, q, k) ELSE f[i]]
  <2>2. /\ \A i \in (k + 1)..n : i \in k..n /\ i # k /\ i \in 1..n
        /\ k \in k..n /\ k \in 1..n
        /\ \A i \in k..n : i = k \/ i \in (k + 1)..n
    OBVIOUS
  <2>3. \A i \in (k + 1)..n : g[i] = f[i]
    BY <2>2
  <2>4. g[k] = ParamsAt(f, q, k)
    BY <2>2
  <2>5. g = [i \in k..n |-> g[i]]
    OBVIOUS
  <2> HIDE DEF g
  <2>6. ASSUME NEW i \in k..n PROVE g[i] = ParamsAt(g, q, i)
    <3>1. i \in 1..(Len(q) + 2)
      BY <1>1
    <3>2. \A j \in (i + 1)..(Len(q) + 2) : f[j] = g[j]
      BY <1>1, <2>3
    <3>3. ParamsAt(f, q, i) = ParamsAt(g, q, i)
      BY <3>1, <3>2, ParamsLookAhead
    <3>4. CASE i = k
      BY <2>4, <3>3, <3>4
    <3>5. CASE i \in (k + 1)..n
      <4>1. f[i] = ParamsAt(f, q, i)
        BY <2>1, <3>5
      <4>2. QED
        BY <2>3, <3>3, <3>5, <4>1
    <3>6. QED
      BY <2>2, <3>4, <3>5
  <2>7. (k - 1) + 1 = k /\ k - 1 \in 0..n
    OBVIOUS
  <2>8. Is(g, k - 1)
    BY <2>5, <2>6, <2>7
  <2> HIDE DEF Is
  <2>9. QED
    BY <2>7, <2>8
<1>4. \A k \in 0..n : k \in T
  <2> HIDE DEF T
  <2>1. QED
    BY <1>2, <1>3, InductionDown
<1>5. \E f : Is(f, 0)
  <2>1. 0 \in 0..n
    OBVIOUS
  <2>2. QED
    BY <1>4, <2>1
<1>6. 0 + 1 = 1
  OBVIOUS
<1>7. \E f : IsParams(f, q)
  BY <1>1, <1>5, <1>6 DEF IsParams
<1>8. QED
  BY <1>7, Zenon DEF AParams

-----------------------------------------------------------------------------
(* What ParsesSegments says of a query, in operators of the query. *)
EqualsOf(q, seg) == FindFrom(SubSeq(q, seg[1], seg[2]), Equals, 1) + seg[1] - 1
PairsOf(q) == {seg \in Segments(q) : EqualsOf(q, seg) <= seg[2]}
KeyOf(q, seg) == UrlDecode(SubSeq(q, seg[1], EqualsOf(q, seg) - 1))
ValueOf(q, seg) == UrlDecode(SubSeq(q, EqualsOf(q, seg) + 1, seg[2]))

(* What the recursion at a position has of the segments from there on. *)
Describes(params, q, from) ==
  /\ DOMAIN params = {KeyOf(q, seg) : seg \in {seg \in PairsOf(q) : seg[1] >= from}}
  /\ \A seg \in PairsOf(q) :
       /\ seg[1] >= from
       /\ \A other \in PairsOf(q) : KeyOf(q, other) = KeyOf(q, seg) => other[1] <= seg[1]
       => params[KeyOf(q, seg)] = ValueOf(q, seg)

(* A piece of a string. *)
LEMMA PieceOf ==
  ASSUME NEW s \in Seq(Byte), NEW a \in 1..(Len(s) + 1), NEW b \in 0..Len(s), a <= b + 1
  PROVE  /\ SubSeq(s, a, b) \in Seq(Byte)
         /\ Len(SubSeq(s, a, b)) = b - a + 1
         /\ \A i \in 1..(b - a + 1) : SubSeq(s, a, b)[i] = s[a + i - 1]
<1>1. PICK L \in Nat : L = Len(s)
  BY LenProperties
<1>2. \A i \in a..b : s[i] \in Byte
  <2>1. \A i \in a..b : i \in 1..L
    BY <1>1
  <2>2. QED
    BY <1>1, <2>1, ElementOfSeq
<1>3. a \in Int /\ b \in Int
  BY <1>1
<1>4. /\ SubSeq(s, a, b) \in Seq(Byte)
      /\ Len(SubSeq(s, a, b)) = IF a <= b THEN b - a + 1 ELSE 0
      /\ \A i \in 1..(b - a + 1) : SubSeq(s, a, b)[i] = s[a + i - 1]
  BY <1>2, <1>3, SubSeqProperties
<1>5. QED
  BY <1>1, <1>3, <1>4

(* A piece of a piece. *)
LEMMA PieceOfPiece ==
  ASSUME NEW s \in Seq(Byte), NEW a \in 1..(Len(s) + 1), NEW b \in 0..Len(s), a <= b + 1,
         NEW c \in 1..(b - a + 2), NEW d \in 0..(b - a + 1), c <= d + 1
  PROVE  SubSeq(SubSeq(s, a, b), c, d) = SubSeq(s, a + c - 1, a + d - 1)
<1>1. PICK L \in Nat : L = Len(s)
  BY LenProperties
<1> DEFINE t == SubSeq(s, a, b)
           u == SubSeq(t, c, d)
           v == SubSeq(s, a + c - 1, a + d - 1)
<1>2. t \in Seq(Byte) /\ Len(t) = b - a + 1 /\ \A i \in 1..(b - a + 1) : t[i] = s[a + i - 1]
  BY PieceOf
<1> HIDE DEF t
<1>3. u \in Seq(Byte) /\ Len(u) = d - c + 1 /\ \A i \in 1..(d - c + 1) : u[i] = t[c + i - 1]
  <2>1. c \in 1..(Len(t) + 1) /\ d \in 0..Len(t)
    BY <1>1, <1>2
  <2>2. QED
    BY <1>2, <2>1, PieceOf
<1>4. /\ v \in Seq(Byte) /\ Len(v) = d - c + 1
      /\ \A i \in 1..(d - c + 1) : v[i] = s[(a + c - 1) + i - 1]
  <2>1. /\ a + c - 1 \in 1..(Len(s) + 1) /\ a + d - 1 \in 0..Len(s) /\ a + c - 1 <= (a + d - 1) + 1
        /\ (a + d - 1) - (a + c - 1) + 1 = d - c + 1
    BY <1>1
  <2>2. /\ v \in Seq(Byte) /\ Len(v) = (a + d - 1) - (a + c - 1) + 1
        /\ \A i \in 1..((a + d - 1) - (a + c - 1) + 1) : v[i] = s[(a + c - 1) + i - 1]
    BY <2>1, PieceOf
  <2>3. QED
    BY <2>1, <2>2
<1> HIDE DEF u, v
<1>5. ASSUME NEW i \in 1..Len(u) PROVE u[i] = v[i]
  <2>1. i \in 1..(d - c + 1)
    BY <1>3
  <2>2. c + i - 1 \in 1..(b - a + 1) /\ a + (c + i - 1) - 1 = (a + c - 1) + i - 1
    BY <1>1, <2>1
  <2>3. QED
    BY <1>2, <1>3, <1>4, <2>1, <2>2
<1>6. Len(u) = Len(v)
  BY <1>3, <1>4
<1>7. u = v
  BY <1>3, <1>4, <1>5, <1>6, SeqEqual
<1>8. QED
  BY <1>7 DEF t, u, v

-----------------------------------------------------------------------------
(* What a segment adds is its key and its value, if it has an equals sign. *)
LEMMA SegmentAdds ==
  ASSUME NEW q \in Seq(Byte), NEW a \in 1..(Len(q) + 1), NEW b \in 0..Len(q), a <= b + 1
  PROVE  SegmentParams(SubSeq(q, a, b)) =
           [k \in IF EqualsOf(q, <<a, b>>) <= b THEN {KeyOf(q, <<a, b>>)} ELSE {}
              |-> ValueOf(q, <<a, b>>)]
<1> DEFINE segment == SubSeq(q, a, b)
           eq == FindFrom(segment, Equals, 1)
<1>1. segment \in Seq(Byte) /\ Len(segment) = b - a + 1 /\ Len(q) \in Nat
  BY PieceOf, LenProperties
<1>2. eq \in 1..(b - a + 2)
  <2>1. Len(segment) \in Nat /\ 1 \in 1..(Len(segment) + 1)
    BY <1>1
  <2>2. IsFirst(segment, Equals, 1, eq)
    BY <2>1, FindsFirst
  <2> HIDE DEF segment, eq
  <2>3. eq \in 1..(Len(segment) + 1)
    BY <2>2 DEF IsFirst
  <2>4. QED
    BY <1>1, <2>3
<1>3. EqualsOf(q, <<a, b>>) = eq + a - 1
  BY DEF EqualsOf
<1>4. KeyOf(q, <<a, b>>) = UrlDecode(SubSeq(q, a, (eq + a - 1) - 1))
  BY <1>3 DEF KeyOf
<1>5. ValueOf(q, <<a, b>>) = UrlDecode(SubSeq(q, (eq + a - 1) + 1, b))
  BY <1>3 DEF ValueOf
<1>6. SegmentParams(segment) =
        [k \in IF eq > Len(segment) THEN {} ELSE {UrlDecode(SubSeq(segment, 1, eq - 1))}
           |-> UrlDecode(SubSeq(segment, eq + 1, Len(segment)))]
  BY DEF SegmentParams
<1> HIDE DEF eq
<1>7. CASE eq > Len(segment)
  <2>1. ~(eq + a - 1 <= b)
    BY <1>1, <1>2, <1>7
  <2>2. SegmentParams(segment) = [k \in {} |-> UrlDecode(SubSeq(segment, eq + 1, Len(segment)))]
    BY <1>6, <1>7
  <2>3. QED
    BY <1>3, <2>1, <2>2 DEF segment
<1>8. CASE ~(eq > Len(segment))
  <2>1. eq + a - 1 <= b /\ eq \in 1..(b - a + 1)
    BY <1>1, <1>2, <1>8
  <2>2. SubSeq(segment, 1, eq - 1) = SubSeq(q, a, (eq + a - 1) - 1)
    <3>1. /\ 1 \in 1..(b - a + 2) /\ eq - 1 \in 0..(b - a + 1) /\ 1 <= (eq - 1) + 1
          /\ a + 1 - 1 = a /\ a + (eq - 1) - 1 = (eq + a - 1) - 1
      BY <1>1, <2>1
    <3>2. SubSeq(segment, 1, eq - 1) = SubSeq(q, a + 1 - 1, a + (eq - 1) - 1)
      BY <3>1, PieceOfPiece
    <3>3. QED
      BY <3>1, <3>2
  <2>3. SubSeq(segment, eq + 1, Len(segment)) = SubSeq(q, (eq + a - 1) + 1, b)
    <3>1. /\ eq + 1 \in 1..(b - a + 2) /\ b - a + 1 \in 0..(b - a + 1)
          /\ eq + 1 <= (b - a + 1) + 1
          /\ a + (eq + 1) - 1 = (eq + a - 1) + 1 /\ a + (b - a + 1) - 1 = b
      BY <1>1, <2>1
    <3>2. SubSeq(segment, eq + 1, b - a + 1) = SubSeq(q, a + (eq + 1) - 1, a + (b - a + 1) - 1)
      BY <3>1, PieceOfPiece
    <3>3. QED
      BY <1>1, <3>1, <3>2
  <2>4. QED
    BY <1>3, <1>4, <1>5, <1>6, <1>8, <2>1, <2>2, <2>3, Zenon DEF segment
<1>9. QED
  BY <1>7, <1>8

(* From the start of a segment on, there is that segment, up to the next   *)
(* ampersand, and the segments behind it.                                  *)
LEMMA SegmentsFrom ==
  ASSUME NEW q, Len(q) \in Nat, NEW i \in 1..Len(q), i = 1 \/ q[i - 1] = Ampersand,
         NEW amp, IsFirst(q, Ampersand, i, amp)
  PROVE  /\ <<i, amp - 1>> \in Segments(q)
         /\ \A seg \in Segments(q) :
              seg[1] >= i => seg = <<i, amp - 1>> \/ seg[1] >= amp + 1
<1>1. PICK L \in Nat : L = Len(q)
  OBVIOUS
<1>2. /\ amp \in i..(L + 1) /\ \A j \in i..(amp - 1) : q[j] # Ampersand
      /\ amp <= L => q[amp] = Ampersand
  BY <1>1 DEF IsFirst
<1>3. \A seg : seg \in Segments(q) <=>
        /\ seg \in (1..(L + 1)) \X (0..L)
        /\ seg[1] <= seg[2] + 1
        /\ \A j \in seg[1]..seg[2] : q[j] # Ampersand
        /\ seg[1] = 1 \/ q[seg[1] - 1] = Ampersand
        /\ seg[2] = L \/ q[seg[2] + 1] = Ampersand
  BY <1>1 DEF Segments
<1>4. <<i, amp - 1>> \in Segments(q)
  <2>1. i \in 1..(L + 1) /\ amp - 1 \in 0..L /\ i <= (amp - 1) + 1 /\ (amp - 1) + 1 = amp
    BY <1>1, <1>2
  <2>2. <<i, amp - 1>> \in (1..(L + 1)) \X (0..L)
    BY <2>1
  <2>3. amp - 1 = L \/ q[(amp - 1) + 1] = Ampersand
    BY <1>2, <2>1
  <2>4. QED
    BY <1>2, <1>3, <2>1, <2>2, <2>3
<1>5. ASSUME NEW seg \in Segments(q), seg[1] >= i, ~(seg[1] >= amp + 1)
      PROVE  seg = <<i, amp - 1>>
  <2>1. PICK a \in 1..(L + 1), b \in 0..L : seg = <<a, b>>
    BY <1>3
  <2>2. /\ a <= b + 1
        /\ \A j \in a..b : q[j] # Ampersand
        /\ a = 1 \/ q[a - 1] = Ampersand
        /\ b = L \/ q[b + 1] = Ampersand
    BY <1>3, <2>1
  <2>3. a \in i..amp
    BY <1>2, <1>5, <2>1
  <2>4. a = i
    <3>1. SUFFICES ASSUME a # i PROVE FALSE
      OBVIOUS
    <3>2. a - 1 \in i..(amp - 1) /\ a # 1
      BY <1>2, <2>3, <3>1
    <3>3. QED
      BY <1>2, <2>2, <3>2
  <2>5. ~(amp <= b)
    <3>1. SUFFICES ASSUME amp <= b PROVE FALSE
      OBVIOUS
    <3>2. amp \in a..b /\ amp <= L
      BY <1>2, <2>3, <3>1
    <3>3. QED
      BY <1>2, <2>2, <3>2
  <2>6. ~(b + 1 < amp)
    <3>1. SUFFICES ASSUME b + 1 < amp PROVE FALSE
      OBVIOUS
    <3>2. b + 1 \in i..(amp - 1) /\ b # L
      BY <1>2, <2>2, <2>4, <3>1
    <3>3. QED
      BY <1>2, <2>2, <3>2
  <2>7. b = amp - 1
    BY <1>2, <2>5, <2>6
  <2>8. QED
    BY <2>1, <2>4, <2>7
<1>6. QED
  BY <1>4, <1>5

(* Where no segment with an equals sign starts any more. *)
LEMMA NoneLeft ==
  ASSUME NEW q \in Seq(Byte), NEW i \in Nat, i > Len(q)
  PROVE  {seg \in PairsOf(q) : seg[1] >= i} = {}
<1>1. PICK L \in Nat : L = Len(q)
  BY LenProperties
<1>2. SUFFICES ASSUME NEW seg \in PairsOf(q), seg[1] >= i PROVE FALSE
  OBVIOUS
<1>3. PICK a \in 1..(L + 1), b \in 0..L : seg = <<a, b>> /\ a <= b + 1
  BY <1>1, <1>2 DEF PairsOf, Segments
<1>4. a = L + 1 /\ b = L
  BY <1>1, <1>2, <1>3
<1>5. IsFirst(SubSeq(q, a, b), Equals, 1, FindFrom(SubSeq(q, a, b), Equals, 1))
  <2>1. Len(SubSeq(q, a, b)) = b - a + 1
    BY <1>1, <1>3, PieceOf
  <2>2. Len(SubSeq(q, a, b)) \in Nat /\ 1 \in 1..(Len(SubSeq(q, a, b)) + 1)
    BY <1>4, <2>1
  <2>3. QED
    BY <2>2, FindsFirst
<1>6. FindFrom(SubSeq(q, a, b), Equals, 1) \in Int /\ FindFrom(SubSeq(q, a, b), Equals, 1) >= 1
  <2>1. Len(SubSeq(q, a, b)) = b - a + 1
    BY <1>1, <1>3, PieceOf
  <2>2. QED
    BY <1>4, <1>5, <2>1 DEF IsFirst
<1>7. EqualsOf(q, seg) <= b
  BY <1>2, <1>3 DEF PairsOf
<1>8. QED
  BY <1>3, <1>4, <1>6, <1>7 DEF EqualsOf

(* One turn of the loop: a segment on top of which the rest is assigned.   *)
LEMMA OneMoreSegment ==
  ASSUME NEW q \in Seq(Byte), NEW i \in 1..Len(q), i = 1 \/ q[i - 1] = Ampersand,
         NEW amp, IsFirst(q, Ampersand, i, amp),
         NEW rest, Describes(rest, q, amp + 1)
  PROVE  Describes(Over(rest, SegmentParams(SubSeq(q, i, amp - 1))), q, i)
<1>1. PICK L \in Nat : L = Len(q)
  BY LenProperties
<1>2. amp \in i..(L + 1)
  BY <1>1 DEF IsFirst
<1> DEFINE first == <<i, amp - 1>>
           here == SegmentParams(SubSeq(q, i, amp - 1))
           all == Over(rest, here)
           Later == {seg \in PairsOf(q) : seg[1] >= amp + 1}
           From == {seg \in PairsOf(q) : seg[1] >= i}
           Key(seg) == KeyOf(q, seg)
           Value(seg) == ValueOf(q, seg)
<1>3. /\ first \in Segments(q)
      /\ \A seg \in Segments(q) : seg[1] >= i => seg = first \/ seg[1] >= amp + 1
  BY <1>1, SegmentsFrom
<1>4. here = [k \in IF EqualsOf(q, first) <= amp - 1 THEN {Key(first)} ELSE {} |-> Value(first)]
  <2>1. i \in 1..(Len(q) + 1) /\ amp - 1 \in 0..Len(q) /\ i <= (amp - 1) + 1
    BY <1>1, <1>2
  <2>2. QED
    BY <2>1, SegmentAdds
<1>5. first \in PairsOf(q) <=> EqualsOf(q, first) <= amp - 1
  <2>1. first[2] = amp - 1
    OBVIOUS
  <2> HIDE DEF first
  <2>2. QED
    BY <1>3, <2>1 DEF PairsOf
<1>6. /\ first \in PairsOf(q) => DOMAIN here = {Key(first)} /\ here[Key(first)] = Value(first)
      /\ first \notin PairsOf(q) => DOMAIN here = {}
  <2> HIDE DEF here, Key, Value, first
  <2>1. QED
    BY <1>4, <1>5
<1>7. first[1] = i /\ i < amp + 1 /\ amp + 1 \in Int /\ i \in Int
  BY <1>2
<1>8. \A seg \in PairsOf(q) : seg \in Segments(q) /\ seg[1] \in Int
  BY <1>1 DEF PairsOf, Segments
<1>9. /\ first \in PairsOf(q) => From = Later \union {first}
      /\ first \notin PairsOf(q) => From = Later
  <2> HIDE DEF first
  <2>1. \A seg \in PairsOf(q) : seg[1] >= i <=> seg = first \/ seg[1] >= amp + 1
    BY <1>3, <1>7, <1>8
  <2>2. QED
    BY <2>1
<1>10. /\ DOMAIN rest = {Key(seg) : seg \in Later}
       /\ \A seg \in PairsOf(q) :
            /\ seg[1] >= amp + 1
            /\ \A other \in PairsOf(q) : Key(other) = Key(seg) => other[1] <= seg[1]
            => rest[Key(seg)] = Value(seg)
  BY DEF Describes
<1>11. /\ DOMAIN all = DOMAIN rest \union DOMAIN here
       /\ \A k \in DOMAIN rest : all[k] = rest[k]
       /\ \A k \in DOMAIN here : k \notin DOMAIN rest => all[k] = here[k]
  <2> HIDE DEF here
  <2>1. QED
    BY DEF Over
<1> HIDE DEF first, here, all, Key, Value
<1>12. DOMAIN all = {Key(seg) : seg \in From}
  <2> HIDE DEF From, Later
  <2>1. CASE first \in PairsOf(q)
    BY <1>6, <1>9, <1>10, <1>11, <2>1
  <2>2. CASE first \notin PairsOf(q)
    BY <1>6, <1>9, <1>10, <1>11, <2>2
  <2>3. QED
    BY <2>1, <2>2
<1>13. ASSUME NEW seg \in PairsOf(q), seg[1] >= i,
              \A other \in PairsOf(q) : Key(other) = Key(seg) => other[1] <= seg[1]
       PROVE  all[Key(seg)] = Value(seg)
  <2>1. seg = first \/ seg[1] >= amp + 1
    BY <1>3, <1>8, <1>13
  <2>2. CASE seg[1] >= amp + 1
    <3>1. seg \in Later
      BY <2>2
    <3>2. Key(seg) \in DOMAIN rest
      BY <1>10, <3>1
    <3>3. rest[Key(seg)] = Value(seg)
      BY <1>10, <1>13, <2>2
    <3>4. QED
      BY <1>11, <3>2, <3>3
  <2>3. CASE seg = first
    <3>1. Key(first) \notin DOMAIN rest
      <4>1. SUFFICES ASSUME NEW other \in Later, Key(other) = Key(first) PROVE FALSE
        BY <1>10
      <4>2. other \in PairsOf(q) /\ other[1] >= amp + 1 /\ other[1] \in Int
        BY <1>8
      <4>3. other[1] <= first[1]
        BY <1>13, <2>3, <4>1, <4>2
      <4>4. QED
        BY <1>7, <4>2, <4>3
    <3>2. Key(first) \in DOMAIN here /\ here[Key(first)] = Value(first)
      BY <1>6, <1>13, <2>3
    <3>3. QED
      BY <1>11, <2>3, <3>1, <3>2
  <2>4. QED
    BY <2>1, <2>2, <2>3
<1>14. QED
  BY <1>12, <1>13 DEF Describes, all, here, Key, Value

(* What the loop has found when it ends, of any query: the keys of the     *)
(* segments with an equals sign, each with the value of the last of them.  *)
LEMMA QueryParsed ==
  ASSUME NEW q \in Seq(Byte)
  PROVE  Describes(AParams(q)[1], q, 1)
<1>1. PICK L \in Nat : L = Len(q)
  BY LenProperties
<1> DEFINE f == AParams(q)
           Start(i) == i = 1 \/ i > L \/ q[i - 1] = Ampersand
           T == {k \in 0..(L + 2) :
                   \A i \in (k + 1)..(L + 2) : Start(i) => Describes(f[i], q, i)}
<1>2. \A i \in 1..(L + 2) : f[i] = ParamsAt(f, q, i)
  <2>1. IsParams(f, q)
    BY <1>1, ParamsExist
  <2> HIDE DEF f
  <2>2. QED
    BY <1>1, <2>1 DEF IsParams
<1> HIDE DEF f
<1>3. L + 2 \in T
  BY <1>1
<1>4. ASSUME NEW k \in 1..(L + 2), k \in T PROVE k - 1 \in T
  <2>1. ASSUME Start(k) PROVE Describes(f[k], q, k)
    <3>1. CASE k > L
      <4>1. f[k] = <<>>
        BY <1>1, <1>2, <3>1 DEF ParamsAt
      <4>2. {seg \in PairsOf(q) : seg[1] >= k} = {}
        BY <1>1, <3>1, NoneLeft
      <4>3. DOMAIN f[k] = {}
        BY <4>1
      <4>4. QED
        BY <4>2, <4>3 DEF Describes
    <3>2. CASE ~(k > L)
      <4> DEFINE amp == FindFrom(q, Ampersand, k)
      <4>1. k \in 1..L /\ (k = 1 \/ q[k - 1] = Ampersand)
        BY <2>1, <3>2
      <4>2. IsFirst(q, Ampersand, k, amp)
        <5>1. k \in 1..(Len(q) + 1) /\ Len(q) \in Nat
          BY <1>1, <4>1
        <5>2. QED
          BY <5>1, FindsFirst
      <4>3. f[k] = Over(f[amp + 1], SegmentParams(SubSeq(q, k, amp - 1)))
        BY <1>1, <1>2, <3>2 DEF ParamsAt
      <4> HIDE DEF amp
      <4>4. amp \in k..(L + 1) /\ (amp <= L => q[amp] = Ampersand)
        BY <1>1, <4>2 DEF IsFirst
      <4>5. amp + 1 \in (k + 1)..(L + 2) /\ (amp + 1) - 1 = amp /\ (amp <= L \/ amp + 1 > L)
        BY <4>1, <4>4
      <4>6. Start(amp + 1)
        BY <4>4, <4>5
      <4>7. Describes(f[amp + 1], q, amp + 1)
        BY <1>4, <4>5, <4>6
      <4>8. QED
        BY <1>1, <4>1, <4>2, <4>3, <4>7, OneMoreSegment
    <3>3. QED
      BY <3>1, <3>2
  <2>2. /\ k - 1 \in 0..(L + 2)
        /\ \A i \in ((k - 1) + 1)..(L + 2) : i = k \/ i \in (k + 1)..(L + 2)
    OBVIOUS
  <2> HIDE DEF Start
  <2>3. QED
    BY <1>4, <2>1, <2>2
<1>5. \A k \in 0..(L + 2) : k \in T
  <2> HIDE DEF T
  <2>1. QED
    BY <1>3, <1>4, InductionDown
<1>6. 0 \in 0..(L + 2) /\ 1 \in (0 + 1)..(L + 2)
  OBVIOUS
<1>7. Describes(f[1], q, 1)
  BY <1>5, <1>6
<1>8. QED
  BY <1>7 DEF f

-----------------------------------------------------------------------------
(* The bytes of s are in t, behind the position at. *)
Holds(t, at, s) ==
  /\ at + Len(s) <= Len(t)
  /\ \A i \in 1..Len(s) : t[at + i] = s[i]

(* A string that is joined to another stays where it was. *)
LEMMA Joined ==
  ASSUME NEW s \in Seq(Byte), NEW t \in Seq(Byte)
  PROVE  /\ s \o t \in Seq(Byte)
         /\ Len(s \o t) = Len(s) + Len(t)
         /\ Holds(s \o t, Len(s), t)
         /\ \A u \in Seq(Byte), at \in Nat : Holds(s, at, u) => Holds(s \o t, at, u)
<1>1. PICK m, n \in Nat : m = Len(s) /\ n = Len(t)
  BY LenProperties
<1> DEFINE st == s \o t
<1>2. /\ st \in Seq(Byte) /\ Len(st) = Len(s) + Len(t)
      /\ \A i \in 1..(Len(s) + Len(t)) : st[i] = IF i <= Len(s) THEN s[i] ELSE t[i - Len(s)]
  BY ConcatProperties
<1> HIDE DEF st
<1>3. Len(st) = m + n /\ \A i \in 1..(m + n) : st[i] = IF i <= m THEN s[i] ELSE t[i - m]
  BY <1>1, <1>2
<1>4. Holds(st, m, t)
  <2>1. \A i \in 1..n : m + i \in 1..(m + n) /\ ~(m + i <= m) /\ (m + i) - m = i
    OBVIOUS
  <2>2. QED
    BY <1>1, <1>3, <2>1 DEF Holds
<1>5. ASSUME NEW u \in Seq(Byte), NEW at \in Nat, Holds(s, at, u) PROVE Holds(st, at, u)
  <2>1. PICK k \in Nat : k = Len(u)
    BY LenProperties
  <2>2. at + k <= m /\ \A i \in 1..k : s[at + i] = u[i]
    BY <1>1, <1>5, <2>1 DEF Holds
  <2>3. \A i \in 1..k : at + i \in 1..(m + n) /\ at + i <= m
    BY <2>2
  <2>4. QED
    BY <1>3, <2>1, <2>2, <2>3 DEF Holds
<1>6. QED
  BY <1>1, <1>2, <1>4, <1>5 DEF st

(* What a string holds is a piece of it. *)
LEMMA HeldPiece ==
  ASSUME NEW t \in Seq(Byte), NEW at \in Nat, NEW s \in Seq(Byte), Holds(t, at, s)
  PROVE  SubSeq(t, at + 1, at + Len(s)) = s
<1>1. PICK n \in Nat : n = Len(s)
  BY LenProperties
<1>2. PICK L \in Nat : L = Len(t)
  BY LenProperties
<1>3. at + n <= L /\ \A i \in 1..n : t[at + i] = s[i]
  BY <1>1, <1>2 DEF Holds
<1> DEFINE u == SubSeq(t, at + 1, at + n)
<1>4. u \in Seq(Byte) /\ Len(u) = n /\ \A i \in 1..n : u[i] = t[(at + 1) + i - 1]
  <2>1. /\ at + 1 \in 1..(Len(t) + 1) /\ at + n \in 0..Len(t) /\ at + 1 <= (at + n) + 1
        /\ (at + n) - (at + 1) + 1 = n
    BY <1>2, <1>3
  <2>2. /\ u \in Seq(Byte) /\ Len(u) = (at + n) - (at + 1) + 1
        /\ \A i \in 1..((at + n) - (at + 1) + 1) : u[i] = t[(at + 1) + i - 1]
    BY <2>1, PieceOf
  <2>3. QED
    BY <2>1, <2>2
<1> HIDE DEF u
<1>5. \A i \in 1..n : (at + 1) + i - 1 = at + i
  OBVIOUS
<1>6. Len(u) = Len(s) /\ \A i \in 1..Len(u) : u[i] = s[i]
  BY <1>1, <1>3, <1>4, <1>5
<1>7. u = s
  BY <1>4, <1>6, SeqEqual
<1>8. QED
  BY <1>1, <1>7 DEF u

(* What it holds behind its first bytes, the rest without them holds too. *)
LEMMA HeldBehind ==
  ASSUME NEW t \in Seq(Byte), NEW n \in Nat, n <= Len(t)
  PROVE  /\ SubSeq(t, n + 1, Len(t)) \in Seq(Byte)
         /\ Len(SubSeq(t, n + 1, Len(t))) = Len(t) - n
         /\ \A s \in Seq(Byte), at \in Nat :
              Holds(t, n + at, s) => Holds(SubSeq(t, n + 1, Len(t)), at, s)
<1>1. PICK L \in Nat : L = Len(t)
  BY LenProperties
<1> DEFINE u == SubSeq(t, n + 1, L)
<1>2. u \in Seq(Byte) /\ Len(u) = L - n /\ \A i \in 1..(L - n) : u[i] = t[(n + 1) + i - 1]
  <2>1. /\ n + 1 \in 1..(Len(t) + 1) /\ L \in 0..Len(t) /\ n + 1 <= L + 1
        /\ L - (n + 1) + 1 = L - n
    BY <1>1
  <2>2. /\ u \in Seq(Byte) /\ Len(u) = L - (n + 1) + 1
        /\ \A i \in 1..(L - (n + 1) + 1) : u[i] = t[(n + 1) + i - 1]
    BY <2>1, PieceOf
  <2>3. QED
    BY <2>1, <2>2
<1> HIDE DEF u
<1>3. ASSUME NEW s \in Seq(Byte), NEW at \in Nat, Holds(t, n + at, s) PROVE Holds(u, at, s)
  <2>1. PICK k \in Nat : k = Len(s)
    BY LenProperties
  <2>2. (n + at) + k <= L /\ \A i \in 1..k : t[(n + at) + i] = s[i]
    BY <1>1, <1>3, <2>1 DEF Holds
  <2>3. \A i \in 1..k : at + i \in 1..(L - n) /\ (n + 1) + (at + i) - 1 = (n + at) + i
    BY <2>2
  <2>4. at + k <= L - n
    BY <1>1, <2>2
  <2>5. QED
    BY <1>2, <2>1, <2>2, <2>3, <2>4 DEF Holds
<1>4. QED
  BY <1>1, <1>2, <1>3 DEF u

(* The target is cut at its first question mark. *)
LEMMA TargetCut ==
  ASSUME NEW target \in Seq(Byte), NEW n \in Nat, n + 1 <= Len(target),
         \A i \in 1..n : target[i] # Question, target[n + 1] = Question
  PROVE  /\ GetUrl(target) = SubSeq(target, 1, n)
         /\ QueryString(target) = SubSeq(target, n + 2, Len(target))
<1>1. PICK L \in Nat : L = Len(target)
  BY LenProperties
<1>2. IsFirst(target, Question, 1, n + 1)
  <2>1. n + 1 \in 1..(L + 1) /\ (n + 1) - 1 = n
    BY <1>1
  <2>2. QED
    BY <1>1, <2>1 DEF IsFirst
<1>3. FindFrom(target, Question, 1) = n + 1
  <2>1. Len(target) \in Nat /\ 1 \in 1..(Len(target) + 1)
    BY <1>1
  <2>2. QED
    BY <1>2, <2>1, FindsFirst
<1>4. (n + 1) - 1 = n /\ (n + 1) + 1 = n + 2
  OBVIOUS
<1>5. QED
  BY <1>3, <1>4 DEF GetUrl, QueryString

(* A target that is a question mark and a query. *)
LEMMA BareQuery ==
  ASSUME NEW q \in Seq(Byte)
  PROVE  QueryString(<<Question>> \o q) = q
<1> DEFINE mark == <<Question>>
           target == mark \o q
<1>1. mark \in Seq(Byte) /\ Len(mark) = 1 /\ mark[1] = Question
  BY Bytes DEF Question
<1> HIDE DEF mark
<1>2. Holds(mark, 0, mark)
  BY <1>1 DEF Holds
<1>3. PICK n \in Nat : n = Len(q)
  BY LenProperties
<1>4. target \in Seq(Byte) /\ Len(target) = 1 + n /\ Holds(target, 1, q) /\ Holds(target, 0, mark)
  BY <1>1, <1>2, <1>3, Joined
<1> HIDE DEF target
<1>5. target[1] = Question
  <2>1. 1 \in 1..1 /\ 0 + 1 = 1
    OBVIOUS
  <2>2. QED
    BY <1>1, <1>4, <2>1 DEF Holds
<1>6. QueryString(target) = SubSeq(target, 2, Len(target))
  <2>1. 0 + 1 <= Len(target) /\ target[0 + 1] = Question /\ 0 + 2 = 2
    BY <1>4, <1>5
  <2>2. \A i \in 1..0 : target[i] # Question
    OBVIOUS
  <2>3. QED
    BY <1>4, <2>1, <2>2, TargetCut
<1>7. SubSeq(target, 2, Len(target)) = q
  <2>1. SubSeq(target, 1 + 1, 1 + Len(q)) = q
    BY <1>4, HeldPiece
  <2>2. QED
    BY <1>3, <1>4, <2>1
<1>8. QED
  BY <1>6, <1>7 DEF target, mark

(* http_connection.cpp:101-121: of any query, however long, whose escapes  *)
(* UrlDecode accepts, get_params_ has the keys of the segments with an     *)
(* equals sign, each with the value of the last segment that has it: none  *)
(* is lost or merged.                                                      *)
THEOREM QueriesAreParsed == Spec => []ParsesSegments
<1>1. ASSUME str \in Seq(Byte) PROVE ParsesSegments
  <2> DEFINE params == GetParams(<<Question>> \o str)
  <2>1. params = AParams(str)[1]
    BY <1>1, ParamsIs, BareQuery
  <2>2. Describes(params, str, 1)
    BY <1>1, <2>1, QueryParsed
  <2> HIDE DEF params
  <2>3. \A seg \in PairsOf(str) : seg[1] >= 1
    <3>1. PICK L \in Nat : L = Len(str)
      BY <1>1, LenProperties
    <3>2. QED
      BY <3>1 DEF PairsOf, Segments
  <2>4. /\ DOMAIN params = {KeyOf(str, seg) : seg \in PairsOf(str)}
        /\ \A seg \in PairsOf(str) :
             (\A other \in PairsOf(str) : KeyOf(str, other) = KeyOf(str, seg) => other[1] <= seg[1])
               => params[KeyOf(str, seg)] = ValueOf(str, seg)
    <3>1. {seg \in PairsOf(str) : seg[1] >= 1} = PairsOf(str)
      BY <2>3
    <3>2. QED
      BY <2>2, <2>3, <3>1 DEF Describes
  <2>5. QED
    BY <2>4 DEF ParsesSegments, params, PairsOf, KeyOf, ValueOf, EqualsOf
<1>2. Inputs => ParsesSegments
  BY <1>1 DEF Inputs
<1>3. QED
  BY <1>2, InputsInvariant, PTL

-----------------------------------------------------------------------------
(* The bytes UrlEncode writes. *)
Safe(c) == c \in Unreserved \/ c = Plus \/ c = Percent

(* None of them means anything in a target. *)
LEMMA SafeBytes ==
  ASSUME NEW c, Safe(c)
  PROVE  c # Question /\ c # Ampersand /\ c # Equals
BY Ranges DEF Safe, Unreserved, Plus, Percent, Question, Ampersand, Equals

(* EncodeByte writes no others. *)
LEMMA SafeCode ==
  ASSUME NEW b \in Nat, b < 128
  PROVE  \A i \in 1..Len(EncodeByte(b)) : Safe(EncodeByte(b)[i])
<1>1. CASE b \in Unreserved
  <2>1. b # Space
    BY <1>1, Ranges DEF Unreserved, Space
  <2>2. EncodeByte(b) = <<b>>
    BY <1>1, <2>1 DEF EncodeByte
  <2>3. Len(<<b>>) = 1 /\ <<b>>[1] = b
    OBVIOUS
  <2>4. QED
    BY <1>1, <2>2, <2>3 DEF Safe
<1>2. CASE b = Space
  <2>1. b \notin Unreserved
    BY <1>2, Ranges DEF Unreserved, Space
  <2>2. EncodeByte(b) = <<Plus>>
    BY <1>2, <2>1 DEF EncodeByte
  <2>3. Len(<<Plus>>) = 1 /\ <<Plus>>[1] = Plus
    OBVIOUS
  <2>4. QED
    BY <2>2, <2>3 DEF Safe
<1>3. CASE b \notin Unreserved /\ b # Space
  <2> DEFINE code == EncodeByte(b)
             h == ToHex(ShiftRight4(b))
             l == ToHex(b % 16)
  <2>1. code = <<Percent, h, l>>
    BY <1>3 DEF EncodeByte
  <2>2. Len(<<Percent, h, l>>) = 3
    OBVIOUS
  <2>3. Plain(b, code) \/ Blank(b, code) \/ Escape(b, code)
    BY EncodedByte
  <2>4. Escape(b, code)
    <3> HIDE DEF code, h, l
    <3>1. Len(code) = 3
      BY <2>1, <2>2
    <3>2. QED
      BY <2>3, <3>1 DEF Plain, Blank
  <2>5. Safe(code[1]) /\ Safe(code[2]) /\ Safe(code[3])
    <3> HIDE DEF code
    <3>1. code[1] = Percent /\ IsHexArg(code[2]) /\ IsHexArg(code[3])
      BY <2>4, Zenon DEF Escape
    <3>2. \A c : IsHexArg(c) => c \in Unreserved
      BY Zenon DEF IsHexArg, Unreserved
    <3>3. QED
      BY <3>1, <3>2 DEF Safe
  <2>6. Len(code) = 3 /\ \A i \in 1..3 : i = 1 \/ i = 2 \/ i = 3
    BY <2>1, <2>2
  <2> HIDE DEF code
  <2>7. \A i \in 1..Len(code) : Safe(code[i])
    BY <2>5, <2>6
  <2>8. QED
    BY <2>7 DEF code
<1>4. QED
  BY <1>1, <1>2, <1>3

(* Nor does UrlEncode. *)
LEMMA SafeString ==
  ASSUME NEW s \in Seq(Byte), Ascii(s)
  PROVE  /\ UrlEncode(s) \in Seq(Byte)
         /\ \A q \in 1..Len(UrlEncode(s)) : Safe(UrlEncode(s)[q])
<1>1. PICK n \in Nat : n = Len(s) /\ DOMAIN s = 1..n
  BY LenProperties
<1> DEFINE codes == Codes(s)
           e == UrlEncode(s)
<1>2. \A i \in 1..n : \A j \in 1..Len(codes[i]) : Safe(codes[i][j])
  <2>1. TAKE i \in 1..n
  <2>2. codes[i] = EncodeByte(s[i])
    BY <1>1 DEF Codes
  <2>3. s[i] \in Nat /\ s[i] < 128
    <3>1. PICK top \in Nat : top = 127
      OBVIOUS
    <3>2. ToSet(s) \subseteq 0..top
      BY <3>1, SMT DEF Ascii
    <3>3. s[i] \in ToSet(s)
      BY <1>1 DEF ToSet
    <3>4. s[i] \in 0..top
      BY <3>2, <3>3
    <3>5. \A x \in 0..top : x \in Nat /\ x < 128
      BY <3>1
    <3>6. QED
      BY <3>4, <3>5
  <2> HIDE DEF codes
  <2>4. QED
    BY <2>2, <2>3, SafeCode
<1>3. e = FlattenSeq(codes) /\ codes \in Seq(Seq(Byte)) /\ Len(codes) = n
  <2>1. UrlEncode(s) = FlattenSeq(Codes(s)) /\ Codes(s) \in Seq(Seq(Byte)) /\ Len(Codes(s)) = Len(s)
    BY CodesOf
  <2>2. QED
    BY <1>1, <2>1, Zenon
<1> HIDE DEF codes, e
<1>4. e \in Seq(Byte) /\ \E place \in [0..Len(codes) -> Nat] : Places(place, codes, e)
  <2>1. codes \in Seq(Seq(Byte)) /\ e = FlattenSeq(codes)
    BY <1>3
  <2>2. QED
    BY <2>1, Placed
<1>5. PICK place \in [0..n -> Nat] : Places(place, codes, e)
  BY <1>3, <1>4
<1>6. Covers(place, codes, e)
  <2>1. /\ codes \in Seq(Seq(Byte)) /\ place \in [0..Len(codes) -> Nat]
        /\ Places(place, codes, e)
    BY <1>3, <1>5
  <2>2. QED
    BY <2>1, Located
<1>7. ASSUME NEW q \in 1..Len(e) PROVE Safe(e[q])
  <2>1. PICK i \in 1..n : \E j \in 1..Len(codes[i]) : q = place[i - 1] + j
    BY <1>3, <1>6 DEF Covers
  <2>2. PICK j \in 1..Len(codes[i]) : q = place[i - 1] + j
    BY <2>1
  <2>3. e[place[i - 1] + j] = codes[i][j]
    BY <1>3, <1>5 DEF Places
  <2>4. QED
    BY <1>2, <2>2, <2>3
<1>8. QED
  BY <1>4, <1>7 DEF e

(* A piece of an ASCII string is one. *)
LEMMA AsciiPiece ==
  ASSUME NEW s \in Seq(Byte), Ascii(s), NEW a \in 1..(Len(s) + 1), NEW b \in 0..Len(s), a <= b + 1
  PROVE  SubSeq(s, a, b) \in Seq(Byte) /\ Ascii(SubSeq(s, a, b))
<1>1. PICK L \in Nat : L = Len(s) /\ DOMAIN s = 1..L
  BY LenProperties
<1> DEFINE u == SubSeq(s, a, b)
<1>2. u \in Seq(Byte) /\ Len(u) = b - a + 1 /\ \A i \in 1..(b - a + 1) : u[i] = s[a + i - 1]
  BY PieceOf
<1> HIDE DEF u
<1>3. DOMAIN u = 1..(b - a + 1)
  BY <1>2, LenProperties
<1>4. \A i \in 1..(b - a + 1) : a + i - 1 \in 1..L
  BY <1>1
<1>5. ToSet(u) \subseteq ToSet(s)
  BY <1>1, <1>2, <1>3, <1>4 DEF ToSet
<1>6. Ascii(u)
  BY <1>5, Zenon DEF Ascii
<1>7. QED
  BY <1>2, <1>6 DEF u

-----------------------------------------------------------------------------
(* A segment that is a safe key, an equals sign and a value. *)
LEMMA PairRead ==
  ASSUME NEW q \in Seq(Byte), NEW at \in Nat, NEW k \in Seq(Byte), NEW v \in Seq(Byte),
         \A i \in 1..Len(k) : Safe(k[i]),
         Holds(q, at, k), q[at + Len(k) + 1] = Equals, Holds(q, at + Len(k) + 1, v)
  PROVE  LET seg == <<at + 1, at + Len(k) + 1 + Len(v)>>
         IN  /\ EqualsOf(q, seg) = at + Len(k) + 1
             /\ KeyOf(q, seg) = UrlDecode(k)
             /\ ValueOf(q, seg) = UrlDecode(v)
<1>1. PICK m, n, L \in Nat : m = Len(k) /\ n = Len(v) /\ L = Len(q)
  BY LenProperties
<1>2. PICK e \in Nat : e = at + m + 1
  OBVIOUS
<1>3. /\ at + m <= L /\ \A i \in 1..m : q[at + i] = k[i]
      /\ e + n <= L /\ q[e] = Equals
      /\ Holds(q, at, k) /\ Holds(q, e, v)
  BY <1>1, <1>2 DEF Holds
<1> DEFINE seg == <<at + 1, e + n>>
           segment == SubSeq(q, at + 1, e + n)
<1>4. /\ segment \in Seq(Byte) /\ Len(segment) = m + 1 + n
      /\ \A i \in 1..(m + 1 + n) : segment[i] = q[at + i]
  <2>1. /\ at + 1 \in 1..(Len(q) + 1) /\ e + n \in 0..Len(q) /\ at + 1 <= (e + n) + 1
        /\ (e + n) - (at + 1) + 1 = m + 1 + n
    BY <1>1, <1>2, <1>3
  <2>2. /\ segment \in Seq(Byte) /\ Len(segment) = (e + n) - (at + 1) + 1
        /\ \A i \in 1..((e + n) - (at + 1) + 1) : segment[i] = q[(at + 1) + i - 1]
    BY <2>1, PieceOf
  <2>3. \A i \in 1..(m + 1 + n) : (at + 1) + i - 1 = at + i
    OBVIOUS
  <2> HIDE DEF segment
  <2>4. QED
    BY <2>1, <2>2, <2>3
<1> HIDE DEF segment
<1>5. IsFirst(segment, Equals, 1, m + 1)
  <2>1. m + 1 \in 1..((m + 1 + n) + 1) /\ (m + 1) - 1 = m
    OBVIOUS
  <2>2. ASSUME NEW i \in 1..m PROVE segment[i] # Equals
    <3>1. segment[i] = k[i]
      <4>1. i \in 1..(m + 1 + n)
        OBVIOUS
      <4>2. segment[i] = q[at + i]
        BY <1>4, <4>1
      <4>3. q[at + i] = k[i]
        BY <1>3
      <4>4. QED
        BY <4>2, <4>3
    <3>2. Safe(k[i])
      BY <1>1
    <3>3. QED
      BY <3>1, <3>2, SafeBytes
  <2>3. segment[m + 1] = Equals
    <3>1. m + 1 \in 1..(m + 1 + n) /\ at + (m + 1) = e
      BY <1>2
    <3>2. QED
      BY <1>3, <1>4, <3>1
  <2>4. QED
    BY <1>4, <2>1, <2>2, <2>3 DEF IsFirst
<1>6. FindFrom(segment, Equals, 1) = m + 1
  <2>1. Len(segment) \in Nat /\ 1 \in 1..(Len(segment) + 1)
    BY <1>4
  <2>2. QED
    BY <1>5, <2>1, FindsFirst
<1>7. EqualsOf(q, seg) = e
  <2>1. (m + 1) + (at + 1) - 1 = e
    BY <1>2
  <2>2. EqualsOf(q, seg) = FindFrom(segment, Equals, 1) + (at + 1) - 1
    BY DEF EqualsOf, segment
  <2>3. QED
    BY <1>6, <2>1, <2>2
<1>8. KeyOf(q, seg) = UrlDecode(k)
  <2>1. SubSeq(q, at + 1, at + Len(k)) = k
    BY <1>3, HeldPiece
  <2>2. e - 1 = at + m
    BY <1>2
  <2>3. KeyOf(q, seg) = UrlDecode(SubSeq(q, at + 1, e - 1))
    BY <1>7 DEF KeyOf
  <2>4. QED
    BY <1>1, <2>1, <2>2, <2>3
<1>9. ValueOf(q, seg) = UrlDecode(v)
  <2>1. SubSeq(q, e + 1, e + Len(v)) = v
    BY <1>3, HeldPiece
  <2>2. ValueOf(q, seg) = UrlDecode(SubSeq(q, e + 1, e + n))
    BY <1>7 DEF ValueOf
  <2>3. QED
    BY <1>1, <2>1, <2>2
<1>10. QED
  BY <1>1, <1>2, <1>7, <1>8, <1>9

(* A query of two pairs, of nothing but safe bytes between the delimiters. *)
TwoPairs(q, k1, v1, k2, v2) ==
  LET amp == Len(k1) + 1 + Len(v1) + 1
  IN  /\ Holds(q, 0, k1)
      /\ q[Len(k1) + 1] = Equals
      /\ Holds(q, Len(k1) + 1, v1)
      /\ q[amp] = Ampersand
      /\ Holds(q, amp, k2)
      /\ q[amp + Len(k2) + 1] = Equals
      /\ Holds(q, amp + Len(k2) + 1, v2)
      /\ Len(q) = amp + Len(k2) + 1 + Len(v2)

(* It has two segments. *)
LEMMA TwoSegments ==
  ASSUME NEW q \in Seq(Byte),
         NEW k1 \in Seq(Byte), NEW v1 \in Seq(Byte), NEW k2 \in Seq(Byte), NEW v2 \in Seq(Byte),
         \A s \in {k1, v1, k2, v2} : \A i \in 1..Len(s) : Safe(s[i]),
         TwoPairs(q, k1, v1, k2, v2)
  PROVE  LET amp == Len(k1) + 1 + Len(v1) + 1
         IN  Segments(q) = {<<1, amp - 1>>, <<amp + 1, Len(q)>>}
<1>1. PICK a, b, c, d, L \in Nat :
        a = Len(k1) /\ b = Len(v1) /\ c = Len(k2) /\ d = Len(v2) /\ L = Len(q)
  BY LenProperties
<1>2. PICK amp \in Nat : amp = a + 1 + b + 1
  OBVIOUS
<1>3. /\ q[a + 1] = Equals /\ q[amp] = Ampersand /\ q[amp + c + 1] = Equals
      /\ L = amp + c + 1 + d
      /\ \A i \in 1..a : q[0 + i] = k1[i]
      /\ \A i \in 1..b : q[(a + 1) + i] = v1[i]
      /\ \A i \in 1..c : q[amp + i] = k2[i]
      /\ \A i \in 1..d : q[(amp + c + 1) + i] = v2[i]
  BY <1>1, <1>2 DEF TwoPairs, Holds
<1>4. \A s \in {k1, v1, k2, v2} : \A i \in 1..Len(s) : s[i] # Ampersand
  BY SafeBytes
<1>5. /\ \A i \in 1..a : k1[i] # Ampersand
      /\ \A i \in 1..b : v1[i] # Ampersand
      /\ \A i \in 1..c : k2[i] # Ampersand
      /\ \A i \in 1..d : v2[i] # Ampersand
  BY <1>1, <1>4
<1>6. Equals # Ampersand
  BY DEF Equals, Ampersand
<1>7. \A j \in 1..(amp - 1) : q[j] # Ampersand
  <2>1. TAKE j \in 1..(amp - 1)
  <2>2. CASE j <= a
    BY <1>3, <1>5, <2>2
  <2>3. CASE j = a + 1
    BY <1>3, <1>6, <2>3
  <2>4. CASE j > a + 1
    <3>1. j - (a + 1) \in 1..b /\ (a + 1) + (j - (a + 1)) = j
      BY <1>2, <2>4
    <3>2. QED
      BY <1>3, <1>5, <3>1
  <2>5. QED
    BY <2>2, <2>3, <2>4
<1>8. \A j \in (amp + 1)..L : q[j] # Ampersand
  <2>1. TAKE j \in (amp + 1)..L
  <2>2. CASE j <= amp + c
    <3>1. j - amp \in 1..c /\ amp + (j - amp) = j
      BY <2>2
    <3>2. QED
      BY <1>3, <1>5, <3>1
  <2>3. CASE j = amp + c + 1
    BY <1>3, <1>6, <2>3
  <2>4. CASE j > amp + c + 1
    <3>1. j - (amp + c + 1) \in 1..d /\ (amp + c + 1) + (j - (amp + c + 1)) = j
      BY <1>3, <2>4
    <3>2. QED
      BY <1>3, <1>5, <3>1
  <2>5. QED
    BY <2>2, <2>3, <2>4
<1>9. IsFirst(q, Ampersand, 1, amp) /\ IsFirst(q, Ampersand, amp + 1, L + 1)
  BY <1>1, <1>2, <1>3, <1>7, <1>8 DEF IsFirst
<1>10. /\ <<1, amp - 1>> \in Segments(q)
       /\ \A seg \in Segments(q) : seg[1] >= 1 => seg = <<1, amp - 1>> \/ seg[1] >= amp + 1
  <2>1. 1 \in 1..Len(q) /\ Len(q) \in Nat
    BY <1>1, <1>3
  <2>2. QED
    BY <1>9, <2>1, SegmentsFrom
<1>11. /\ <<amp + 1, L>> \in Segments(q)
       /\ \A seg \in Segments(q) : seg[1] >= amp + 1 => seg = <<amp + 1, L>> \/ seg[1] >= L + 2
  <2>1. /\ amp + 1 \in 1..Len(q) /\ q[(amp + 1) - 1] = Ampersand
        /\ (L + 1) - 1 = L /\ (L + 1) + 1 = L + 2
    BY <1>1, <1>3
  <2>2. Len(q) \in Nat
    BY <1>1
  <2>3. /\ <<amp + 1, (L + 1) - 1>> \in Segments(q)
        /\ \A seg \in Segments(q) :
             seg[1] >= amp + 1 => seg = <<amp + 1, (L + 1) - 1>> \/ seg[1] >= (L + 1) + 1
    BY <1>9, <2>1, <2>2, SegmentsFrom
  <2>4. QED
    BY <2>1, <2>3
<1>12. \A seg \in Segments(q) : seg[1] \in 1..(L + 1)
  BY <1>1 DEF Segments
<1>13. \A seg \in Segments(q) : seg[1] >= 1 /\ ~(seg[1] >= L + 2)
  BY <1>12
<1>14. Segments(q) = {<<1, amp - 1>>, <<amp + 1, L>>}
  BY <1>10, <1>11, <1>13, Zenon
<1>15. QED
  BY <1>1, <1>2, <1>14

(* The map of two pairs, the second on top of the first. *)
Pairs(k1, v1, k2, v2) == [x \in {k1, k2} |-> IF x = k2 THEN v2 ELSE v1]

(* Two pairs of ASCII strings, encoded and sent as a query. *)
IsQueryOf(q, k1, v1, k2, v2) ==
  /\ \A s \in {k1, v1, k2, v2} : s \in Seq(Byte) /\ Ascii(s)
  /\ q \in Seq(Byte)
  /\ TwoPairs(q, UrlEncode(k1), UrlEncode(v1), UrlEncode(k2), UrlEncode(v2))

(* They come back. *)
LEMMA TwoPairsParsed ==
  ASSUME NEW q, NEW k1, NEW v1, NEW k2, NEW v2, IsQueryOf(q, k1, v1, k2, v2)
  PROVE  AParams(q)[1] = Pairs(k1, v1, k2, v2)
<1> DEFINE a == UrlEncode(k1)
           b == UrlEncode(v1)
           c == UrlEncode(k2)
           d == UrlEncode(v2)
<1>0. /\ k1 \in Seq(Byte) /\ Ascii(k1) /\ v1 \in Seq(Byte) /\ Ascii(v1)
      /\ k2 \in Seq(Byte) /\ Ascii(k2) /\ v2 \in Seq(Byte) /\ Ascii(v2)
      /\ q \in Seq(Byte) /\ TwoPairs(q, a, b, c, d)
  BY DEF IsQueryOf
<1>1. /\ a \in Seq(Byte) /\ b \in Seq(Byte) /\ c \in Seq(Byte) /\ d \in Seq(Byte)
      /\ \A s \in {a, b, c, d} : \A i \in 1..Len(s) : Safe(s[i])
  <2>1. /\ a \in Seq(Byte) /\ \A i \in 1..Len(a) : Safe(a[i])
        /\ b \in Seq(Byte) /\ \A i \in 1..Len(b) : Safe(b[i])
        /\ c \in Seq(Byte) /\ \A i \in 1..Len(c) : Safe(c[i])
        /\ d \in Seq(Byte) /\ \A i \in 1..Len(d) : Safe(d[i])
    BY <1>0, SafeString
  <2> HIDE DEF a, b, c, d
  <2>2. QED
    BY <2>1
<1>2. UrlDecode(a) = k1 /\ UrlDecode(b) = v1 /\ UrlDecode(c) = k2 /\ UrlDecode(d) = v2
  BY <1>0, DecodeUndoes
<1>3. q \in Seq(Byte) /\ TwoPairs(q, a, b, c, d)
  BY <1>0
<1> HIDE DEF a, b, c, d
<1>4. PICK la, lb, lc, ld \in Nat : la = Len(a) /\ lb = Len(b) /\ lc = Len(c) /\ ld = Len(d)
  BY <1>1, LenProperties
<1>5. PICK amp, L \in Nat : amp = la + 1 + lb + 1 /\ L = amp + lc + 1 + ld
  OBVIOUS
<1>6. Len(q) = L
  BY <1>3, <1>4, <1>5 DEF TwoPairs
<1> DEFINE one == <<1, amp - 1>>
           two == <<amp + 1, L>>
<1>7. Segments(q) = {one, two}
  BY <1>1, <1>3, <1>4, <1>5, <1>6, TwoSegments
<1>8. EqualsOf(q, one) = la + 1 /\ KeyOf(q, one) = k1 /\ ValueOf(q, one) = v1
  <2>1. /\ Holds(q, 0, a) /\ q[0 + Len(a) + 1] = Equals /\ Holds(q, 0 + Len(a) + 1, b)
        /\ \A i \in 1..Len(a) : Safe(a[i])
    <3>1. 0 + Len(a) + 1 = Len(a) + 1
      BY <1>4
    <3>2. QED
      BY <1>1, <1>3, <3>1 DEF TwoPairs
  <2>2. LET seg == <<0 + 1, 0 + Len(a) + 1 + Len(b)>>
        IN  /\ EqualsOf(q, seg) = 0 + Len(a) + 1
            /\ KeyOf(q, seg) = UrlDecode(a)
            /\ ValueOf(q, seg) = UrlDecode(b)
    <3>1. 0 \in Nat
      OBVIOUS
    <3>2. QED
      BY <1>1, <1>3, <2>1, <3>1, PairRead
  <2>3. one = <<0 + 1, 0 + Len(a) + 1 + Len(b)>>
    BY <1>4, <1>5
  <2>4. EqualsOf(q, one) = 0 + Len(a) + 1
    BY <2>2, <2>3
  <2>5. KeyOf(q, one) = UrlDecode(a) /\ ValueOf(q, one) = UrlDecode(b)
    BY <2>2, <2>3
  <2> HIDE DEF one
  <2>6. QED
    BY <1>2, <1>4, <2>4, <2>5
<1>9. EqualsOf(q, two) = amp + lc + 1 /\ KeyOf(q, two) = k2 /\ ValueOf(q, two) = v2
  <2>1. /\ Holds(q, amp, c) /\ q[amp + Len(c) + 1] = Equals /\ Holds(q, amp + Len(c) + 1, d)
        /\ \A i \in 1..Len(c) : Safe(c[i])
    <3>1. amp = Len(a) + 1 + Len(b) + 1
      BY <1>4, <1>5
    <3>2. QED
      BY <1>1, <1>3, <3>1 DEF TwoPairs
  <2>2. LET seg == <<amp + 1, amp + Len(c) + 1 + Len(d)>>
        IN  /\ EqualsOf(q, seg) = amp + Len(c) + 1
            /\ KeyOf(q, seg) = UrlDecode(c)
            /\ ValueOf(q, seg) = UrlDecode(d)
    BY <1>1, <1>3, <2>1, PairRead
  <2>3. two = <<amp + 1, amp + Len(c) + 1 + Len(d)>>
    BY <1>4, <1>5
  <2>4. EqualsOf(q, two) = amp + Len(c) + 1
    BY <2>2, <2>3
  <2>5. KeyOf(q, two) = UrlDecode(c) /\ ValueOf(q, two) = UrlDecode(d)
    BY <2>2, <2>3
  <2> HIDE DEF two
  <2>6. QED
    BY <1>2, <1>4, <2>4, <2>5
<1>10. one[1] = 1 /\ one[2] = amp - 1 /\ two[1] = amp + 1 /\ two[2] = L
  OBVIOUS
<1> HIDE DEF one, two
<1>11. PairsOf(q) = {one, two}
  <2>1. EqualsOf(q, one) <= one[2] /\ EqualsOf(q, two) <= two[2]
    BY <1>5, <1>8, <1>9, <1>10
  <2>2. QED
    BY <1>7, <2>1 DEF PairsOf
<1>12. one[1] >= 1 /\ two[1] >= 1 /\ one[1] <= one[1] /\ one[1] <= two[1] /\ two[1] <= two[1]
  BY <1>5, <1>10
<1> DEFINE params == AParams(q)[1]
<1>13. Describes(params, q, 1)
  BY <1>3, QueryParsed
<1>14. \E f, g : params = Over(f, g)
  <2>1. IsParams(AParams(q), q) /\ 1 \in 1..(L + 2) /\ ~(1 > L)
    BY <1>3, <1>5, <1>6, ParamsExist
  <2>2. params = ParamsAt(AParams(q), q, 1)
    BY <1>6, <2>1 DEF IsParams
  <2> HIDE DEF params
  <2>3. QED
    BY <1>6, <2>1, <2>2 DEF ParamsAt
<1> HIDE DEF params
<1>15. params = [x \in DOMAIN params |-> params[x]]
  BY <1>14 DEF Over
<1>16. DOMAIN params = {k1, k2}
  <2>1. {seg \in PairsOf(q) : seg[1] >= 1} = {one, two}
    BY <1>11, <1>12
  <2>2. DOMAIN params = {KeyOf(q, seg) : seg \in {one, two}}
    BY <1>13, <2>1 DEF Describes
  <2>3. QED
    BY <1>8, <1>9, <2>2
<1>17. \A seg \in {one, two} :
         (\A other \in {one, two} : KeyOf(q, other) = KeyOf(q, seg) => other[1] <= seg[1])
           => params[KeyOf(q, seg)] = ValueOf(q, seg)
  BY <1>11, <1>12, <1>13 DEF Describes
<1>18. params[k2] = v2
  BY <1>9, <1>12, <1>17
<1>19. k1 # k2 => params[k1] = v1
  BY <1>8, <1>9, <1>12, <1>17
<1>20. \A x \in {k1, k2} : params[x] = IF x = k2 THEN v2 ELSE v1
  BY <1>18, <1>19
<1>21. params = [x \in {k1, k2} |-> IF x = k2 THEN v2 ELSE v1]
  BY <1>15, <1>16, <1>20
<1>22. QED
  BY <1>21 DEF params, Pairs

-----------------------------------------------------------------------------
(* A url and two pairs, joined as a client joins them. *)
IsTarget(target, url, a, b, c, d) ==
  target = url \o <<Question>> \o a \o <<Equals>> \o b \o <<Ampersand>> \o c \o <<Equals>> \o d

(* What s holds, t holds at the same places. *)
Keeps(s, t) == \A u \in Seq(Byte), at \in Nat : Holds(s, at, u) => Holds(t, at, u)

(* What r is when it is a string of length m joined to one of length n. *)
Joins(r, s, m, t, n) ==
  r \in Seq(Byte) /\ Len(r) = m + n /\ Holds(r, m, t) /\ Keeps(s, r)

LEMMA JoinedAt ==
  ASSUME NEW s \in Seq(Byte), NEW m \in Nat, Len(s) = m,
         NEW t \in Seq(Byte), NEW n \in Nat, Len(t) = n
  PROVE  Joins(s \o t, s, m, t, n)
<1>1. /\ s \o t \in Seq(Byte) /\ Len(s \o t) = Len(s) + Len(t) /\ Holds(s \o t, Len(s), t)
      /\ \A u \in Seq(Byte), at \in Nat : Holds(s, at, u) => Holds(s \o t, at, u)
  BY Joined, Zenon
<1>2. Keeps(s, s \o t)
  BY <1>1, Zenon DEF Keeps
<1>3. Len(s \o t) = m + n /\ Holds(s \o t, m, t)
  BY <1>1
<1>4. QED
  BY <1>1, <1>2, <1>3, Zenon DEF Joins

(* The delimiters are bytes. *)
LEMMA Delimiters == Question \in Byte /\ Equals \in Byte /\ Ampersand \in Byte
BY Bytes DEF Question, Equals, Ampersand

(* A url and two pairs, joined as a client joins them, are cut there. *)
LEMMA TargetOfPairs ==
  ASSUME NEW url \in Seq(Byte), \A i \in 1..Len(url) : url[i] # Question,
         NEW a \in Seq(Byte), NEW b \in Seq(Byte), NEW c \in Seq(Byte), NEW d \in Seq(Byte),
         NEW target, IsTarget(target, url, a, b, c, d)
  PROVE  /\ GetUrl(target) = url
         /\ QueryString(target) \in Seq(Byte)
         /\ TwoPairs(QueryString(target), a, b, c, d)
<1>1. Question \in Byte /\ Equals \in Byte /\ Ampersand \in Byte
  BY Delimiters
<1>2. PICK u, la, lb, lc, ld \in Nat :
        u = Len(url) /\ la = Len(a) /\ lb = Len(b) /\ lc = Len(c) /\ ld = Len(d)
  BY LenProperties
<1> DEFINE qm == <<Question>>
           eq == <<Equals>>
           am == <<Ampersand>>
           t1 == url \o qm
           t2 == t1 \o a
           t3 == t2 \o eq
           t4 == t3 \o b
           t5 == t4 \o am
           t6 == t5 \o c
           t7 == t6 \o eq
           t8 == t7 \o d
<1>3. /\ qm \in Seq(Byte) /\ Len(qm) = 1 /\ qm[1] = Question
      /\ eq \in Seq(Byte) /\ Len(eq) = 1 /\ eq[1] = Equals
      /\ am \in Seq(Byte) /\ Len(am) = 1 /\ am[1] = Ampersand
  BY <1>1
<1>4. t8 = target
  BY DEF IsTarget
<1>5. Holds(url, 0, url)
  <2>1. \A i \in 1..u : 0 + i = i
    OBVIOUS
  <2>2. QED
    BY <1>2, <2>1 DEF Holds
<1> HIDE DEF qm, eq, am, t1, t2, t3, t4, t5, t6, t7, t8
<1>6. Joins(t1, url, u, qm, 1)
  <2>1. url \in Seq(Byte) /\ Len(url) = u /\ u \in Nat
    BY <1>2
  <2>2. qm \in Seq(Byte) /\ Len(qm) = 1 /\ 1 \in Nat
    BY <1>2, <1>3
  <2>3. QED
    BY <2>1, <2>2, JoinedAt, Zenon DEF t1
<1>7. Joins(t2, t1, u + 1, a, la)
  <2>1. /\ t1 \in Seq(Byte) /\ Len(t1) = u + 1
        /\ u + 1 \in Nat
    BY <1>6 DEF Joins
  <2>2. a \in Seq(Byte) /\ Len(a) = la /\ la \in Nat
    BY <1>2, <1>3
  <2>3. QED
    BY <2>1, <2>2, JoinedAt, Zenon DEF t2
<1>8. Joins(t3, t2, u + 1 + la, eq, 1)
  <2>1. /\ t2 \in Seq(Byte) /\ Len(t2) = u + 1 + la
        /\ u + 1 + la \in Nat
    BY <1>7 DEF Joins
  <2>2. eq \in Seq(Byte) /\ Len(eq) = 1 /\ 1 \in Nat
    BY <1>2, <1>3
  <2>3. QED
    BY <2>1, <2>2, JoinedAt, Zenon DEF t3
<1>9. Joins(t4, t3, u + 1 + la + 1, b, lb)
  <2>1. /\ t3 \in Seq(Byte) /\ Len(t3) = u + 1 + la + 1
        /\ u + 1 + la + 1 \in Nat
    BY <1>8 DEF Joins
  <2>2. b \in Seq(Byte) /\ Len(b) = lb /\ lb \in Nat
    BY <1>2, <1>3
  <2>3. QED
    BY <2>1, <2>2, JoinedAt, Zenon DEF t4
<1>10. Joins(t5, t4, u + 1 + la + 1 + lb, am, 1)
  <2>1. /\ t4 \in Seq(Byte) /\ Len(t4) = u + 1 + la + 1 + lb
        /\ u + 1 + la + 1 + lb \in Nat
    BY <1>9 DEF Joins
  <2>2. am \in Seq(Byte) /\ Len(am) = 1 /\ 1 \in Nat
    BY <1>2, <1>3
  <2>3. QED
    BY <2>1, <2>2, JoinedAt, Zenon DEF t5
<1>11. Joins(t6, t5, u + 1 + la + 1 + lb + 1, c, lc)
  <2>1. /\ t5 \in Seq(Byte) /\ Len(t5) = u + 1 + la + 1 + lb + 1
        /\ u + 1 + la + 1 + lb + 1 \in Nat
    BY <1>10 DEF Joins
  <2>2. c \in Seq(Byte) /\ Len(c) = lc /\ lc \in Nat
    BY <1>2, <1>3
  <2>3. QED
    BY <2>1, <2>2, JoinedAt, Zenon DEF t6
<1>12. Joins(t7, t6, u + 1 + la + 1 + lb + 1 + lc, eq, 1)
  <2>1. /\ t6 \in Seq(Byte) /\ Len(t6) = u + 1 + la + 1 + lb + 1 + lc
        /\ u + 1 + la + 1 + lb + 1 + lc \in Nat
    BY <1>11 DEF Joins
  <2>2. eq \in Seq(Byte) /\ Len(eq) = 1 /\ 1 \in Nat
    BY <1>2, <1>3
  <2>3. QED
    BY <2>1, <2>2, JoinedAt, Zenon DEF t7
<1>13. Joins(t8, t7, u + 1 + la + 1 + lb + 1 + lc + 1, d, ld)
  <2>1. /\ t7 \in Seq(Byte) /\ Len(t7) = u + 1 + la + 1 + lb + 1 + lc + 1
        /\ u + 1 + la + 1 + lb + 1 + lc + 1 \in Nat
    BY <1>12 DEF Joins
  <2>2. d \in Seq(Byte) /\ Len(d) = ld /\ ld \in Nat
    BY <1>2, <1>3
  <2>3. QED
    BY <2>1, <2>2, JoinedAt, Zenon DEF t8
<1>14. /\ Holds(t8, 0, url)
       /\ Holds(t8, u, qm)
       /\ Holds(t8, u + 1, a)
       /\ Holds(t8, u + 1 + la, eq)
       /\ Holds(t8, u + 1 + la + 1, b)
       /\ Holds(t8, u + 1 + la + 1 + lb, am)
       /\ Holds(t8, u + 1 + la + 1 + lb + 1, c)
       /\ Holds(t8, u + 1 + la + 1 + lb + 1 + lc, eq)
       /\ Holds(t8, u + 1 + la + 1 + lb + 1 + lc + 1, d)
  <2>1. \A x, y, z : Keeps(x, y) /\ Keeps(y, z) => Keeps(x, z)
    BY DEF Keeps
  <2>2. Keeps(t6, t8)
    BY <1>12, <1>13, <2>1 DEF Joins
  <2>3. Keeps(t5, t8)
    BY <1>11, <2>1, <2>2 DEF Joins
  <2>4. Keeps(t4, t8)
    BY <1>10, <2>1, <2>3 DEF Joins
  <2>5. Keeps(t3, t8)
    BY <1>9, <2>1, <2>4 DEF Joins
  <2>6. Keeps(t2, t8)
    BY <1>8, <2>1, <2>5 DEF Joins
  <2>7. Keeps(t1, t8)
    BY <1>7, <2>1, <2>6 DEF Joins
  <2>8. Keeps(url, t8)
    BY <1>6, <2>1, <2>7 DEF Joins
  <2>9. /\ 0 \in Nat /\ u + 1 \in Nat /\ u + 1 + la \in Nat /\ u + 1 + la + 1 \in Nat
        /\ u + 1 + la + 1 + lb \in Nat /\ u + 1 + la + 1 + lb + 1 \in Nat
        /\ u + 1 + la + 1 + lb + 1 + lc \in Nat
    OBVIOUS
  <2>10. Holds(t8, 0, url)
    BY <1>5, <1>3, <2>8, <2>9, Zenon DEF Keeps, Joins
  <2>11. Holds(t8, u, qm)
    BY <1>6, <1>3, <2>7, <2>9, Zenon DEF Keeps, Joins
  <2>12. Holds(t8, u + 1, a)
    BY <1>7, <1>3, <2>6, <2>9, Zenon DEF Keeps, Joins
  <2>13. Holds(t8, u + 1 + la, eq)
    BY <1>8, <1>3, <2>5, <2>9, Zenon DEF Keeps, Joins
  <2>14. Holds(t8, u + 1 + la + 1, b)
    BY <1>9, <1>3, <2>4, <2>9, Zenon DEF Keeps, Joins
  <2>15. Holds(t8, u + 1 + la + 1 + lb, am)
    BY <1>10, <1>3, <2>3, <2>9, Zenon DEF Keeps, Joins
  <2>16. Holds(t8, u + 1 + la + 1 + lb + 1, c)
    BY <1>11, <1>3, <2>2, <2>9, Zenon DEF Keeps, Joins
  <2>17. Holds(t8, u + 1 + la + 1 + lb + 1 + lc, eq)
    BY <1>12, <1>3, <1>13, <2>9, Zenon DEF Keeps, Joins
  <2>18. QED
    BY <1>13, <2>10, <2>11, <2>12, <2>13, <2>14, <2>15, <2>16, <2>17 DEF Joins
<1> DEFINE q == SubSeq(t8, u + 2, Len(t8))
<1>15. t8 \in Seq(Byte) /\ Len(t8) = u + 1 + la + 1 + lb + 1 + lc + 1 + ld
  BY <1>13 DEF Joins
<1>16. \A i \in 1..u : t8[i] = url[i]
  <2>1. \A i \in 1..u : t8[0 + i] = url[i] /\ 0 + i = i
    BY <1>2, <1>14 DEF Holds
  <2>2. QED
    BY <2>1
<1>17. t8[u + 1] = Question /\ u + 1 <= Len(t8)
  <2>1. Holds(t8, u, qm) /\ 1 \in 1..1
    BY <1>14
  <2>2. QED
    BY <1>3, <2>1 DEF Holds
<1>18. GetUrl(t8) = SubSeq(t8, 1, u) /\ QueryString(t8) = q
  <2>1. \A i \in 1..u : t8[i] # Question
    BY <1>2, <1>16
  <2>2. t8 \in Seq(Byte)
    BY <1>15
  <2>3. QED
    BY <1>17, <2>1, <2>2, TargetCut
<1>19. SubSeq(t8, 1, u) = url
  <2>1. 0 \in Nat /\ t8 \in Seq(Byte) /\ Holds(t8, 0, url)
    BY <1>15, <1>14
  <2>2. SubSeq(t8, 0 + 1, 0 + Len(url)) = url
    BY <2>1, HeldPiece
  <2>3. QED
    BY <1>2, <2>2
<1>20. /\ q \in Seq(Byte) /\ Len(q) = la + 1 + lb + 1 + lc + 1 + ld
       /\ \A s \in Seq(Byte), at \in Nat : Holds(t8, (u + 1) + at, s) => Holds(q, at, s)
  <2>1. u + 1 \in Nat /\ u + 1 <= Len(t8) /\ (u + 1) + 1 = u + 2 /\ t8 \in Seq(Byte)
    BY <1>15, <1>17
  <2>2. /\ SubSeq(t8, (u + 1) + 1, Len(t8)) \in Seq(Byte)
        /\ Len(SubSeq(t8, (u + 1) + 1, Len(t8))) = Len(t8) - (u + 1)
        /\ \A s \in Seq(Byte), at \in Nat :
             Holds(t8, (u + 1) + at, s) => Holds(SubSeq(t8, (u + 1) + 1, Len(t8)), at, s)
    BY <2>1, HeldBehind
  <2>3. Len(t8) - (u + 1) = la + 1 + lb + 1 + lc + 1 + ld
    BY <1>15
  <2>4. QED
    BY <2>1, <2>2, <2>3
<1> HIDE DEF q
<1>21. /\ Holds(q, 0, a)
       /\ Holds(q, la, eq)
       /\ Holds(q, la + 1, b)
       /\ Holds(q, la + 1 + lb, am)
       /\ Holds(q, la + 1 + lb + 1, c)
       /\ Holds(q, la + 1 + lb + 1 + lc, eq)
       /\ Holds(q, la + 1 + lb + 1 + lc + 1, d)
  <2>1. /\ (u + 1) + 0 = u + 1
        /\ (u + 1) + la = u + 1 + la
        /\ (u + 1) + (la + 1) = u + 1 + la + 1
        /\ (u + 1) + (la + 1 + lb) = u + 1 + la + 1 + lb
        /\ (u + 1) + (la + 1 + lb + 1) = u + 1 + la + 1 + lb + 1
        /\ (u + 1) + (la + 1 + lb + 1 + lc) = u + 1 + la + 1 + lb + 1 + lc
        /\ (u + 1) + (la + 1 + lb + 1 + lc + 1) = u + 1 + la + 1 + lb + 1 + lc + 1
        /\ 0 \in Nat /\ la + 1 \in Nat /\ la + 1 + lb \in Nat /\ la + 1 + lb + 1 \in Nat
        /\ la + 1 + lb + 1 + lc \in Nat /\ la + 1 + lb + 1 + lc + 1 \in Nat
    OBVIOUS
  <2>2. /\ Holds(t8, (u + 1) + 0, a)
        /\ Holds(t8, (u + 1) + la, eq)
        /\ Holds(t8, (u + 1) + (la + 1), b)
        /\ Holds(t8, (u + 1) + (la + 1 + lb), am)
        /\ Holds(t8, (u + 1) + (la + 1 + lb + 1), c)
        /\ Holds(t8, (u + 1) + (la + 1 + lb + 1 + lc), eq)
        /\ Holds(t8, (u + 1) + (la + 1 + lb + 1 + lc + 1), d)
    BY <1>14, <2>1
  <2>3. QED
    BY <1>3, <1>20, <2>1, <2>2
<1>22. PICK amp \in Nat : amp = la + 1 + lb + 1
  OBVIOUS
<1>23. q[la + 1] = Equals /\ q[amp] = Ampersand /\ q[amp + lc + 1] = Equals
  <2>1. 1 \in 1..1
    OBVIOUS
  <2>2. q[la + 1] = Equals
    BY <1>3, <1>21, <2>1 DEF Holds
  <2>3. q[(la + 1 + lb) + 1] = Ampersand
    BY <1>3, <1>21, <2>1 DEF Holds
  <2>4. q[(la + 1 + lb + 1 + lc) + 1] = Equals
    BY <1>3, <1>21, <2>1 DEF Holds
  <2>5. QED
    BY <1>22, <2>2, <2>3, <2>4
<1>24. TwoPairs(q, a, b, c, d)
  BY <1>2, <1>20, <1>21, <1>22, <1>23 DEF TwoPairs
<1>25. QED
  BY <1>4, <1>18, <1>19, <1>20, <1>24

(* http_connection.cpp:49-121: two keys and two values, of any length and  *)
(* of any ASCII bytes, those with a meaning in a url too, come back from a *)
(* target that holds them encoded, and the url before them as well.        *)
THEOREM PairsAreKept == Spec => []PairsSurvive
<1>1. ASSUME str \in Seq(Byte), Ascii(str),
             NEW i \in 0..Len(str), NEW j \in i..Len(str), NEW k \in j..Len(str)
      PROVE  LET k1 == SubSeq(str, 1, i)
                 v1 == SubSeq(str, i + 1, j)
                 k2 == SubSeq(str, j + 1, k)
                 v2 == SubSeq(str, k + 1, Len(str))
                 url == <<47, 97>>
                 target == url \o <<Question>>
                             \o UrlEncode(k1) \o <<Equals>> \o UrlEncode(v1)
                             \o <<Ampersand>>
                             \o UrlEncode(k2) \o <<Equals>> \o UrlEncode(v2)
             IN  /\ GetUrl(target) = url
                 /\ GetParams(target) = [x \in {k1, k2} |-> IF x = k2 THEN v2 ELSE v1]
  <2> DEFINE k1 == SubSeq(str, 1, i)
             v1 == SubSeq(str, i + 1, j)
             k2 == SubSeq(str, j + 1, k)
             v2 == SubSeq(str, k + 1, Len(str))
             url == <<47, 97>>
             target == url \o <<Question>>
                         \o UrlEncode(k1) \o <<Equals>> \o UrlEncode(v1)
                         \o <<Ampersand>>
                         \o UrlEncode(k2) \o <<Equals>> \o UrlEncode(v2)
  <2>1. PICK L \in Nat : L = Len(str)
    BY <1>1, LenProperties
  <2>2. i \in 0..L /\ j \in i..L /\ k \in j..L
    BY <2>1
  <2>3. /\ k1 \in Seq(Byte) /\ Ascii(k1) /\ v1 \in Seq(Byte) /\ Ascii(v1)
        /\ k2 \in Seq(Byte) /\ Ascii(k2) /\ v2 \in Seq(Byte) /\ Ascii(v2)
    <3>1. \A a \in 1..(L + 1), b \in 0..L :
            a <= b + 1 => SubSeq(str, a, b) \in Seq(Byte) /\ Ascii(SubSeq(str, a, b))
      BY <1>1, <2>1, AsciiPiece
    <3>2. /\ 1 \in 1..(L + 1) /\ i + 1 \in 1..(L + 1) /\ j + 1 \in 1..(L + 1) /\ k + 1 \in 1..(L + 1)
          /\ i \in 0..L /\ j \in 0..L /\ k \in 0..L /\ L \in 0..L
          /\ 1 <= i + 1 /\ i + 1 <= j + 1 /\ j + 1 <= k + 1 /\ k + 1 <= L + 1
      BY <2>2
    <3>3. QED
      BY <2>1, <3>1, <3>2
  <2>4. url \in Seq(Byte) /\ \A n \in 1..Len(url) : url[n] # Question
    <3>1. PICK x, y \in Byte : x = 47 /\ y = 97
      BY Bytes
    <3>2. x # Question /\ y # Question
      BY <3>1 DEF Question
    <3>3. <<x, y>> \in Seq(Byte) /\ Len(<<x, y>>) = 2 /\ <<x, y>>[1] = x /\ <<x, y>>[2] = y
      OBVIOUS
    <3>4. \A n \in 1..2 : n = 1 \/ n = 2
      OBVIOUS
    <3>5. \A n \in 1..Len(<<x, y>>) : <<x, y>>[n] # Question
      BY <3>2, <3>3, <3>4
    <3>6. url = <<x, y>>
      BY <3>1
    <3> HIDE DEF url
    <3>7. QED
      BY <3>3, <3>5, <3>6
  <2> HIDE DEF k1, v1, k2, v2, url
  <2>5. /\ UrlEncode(k1) \in Seq(Byte) /\ UrlEncode(v1) \in Seq(Byte)
        /\ UrlEncode(k2) \in Seq(Byte) /\ UrlEncode(v2) \in Seq(Byte)
    BY <2>3, SafeString
  <2>6. /\ GetUrl(target) = url
        /\ QueryString(target) \in Seq(Byte)
        /\ TwoPairs(QueryString(target), UrlEncode(k1), UrlEncode(v1), UrlEncode(k2), UrlEncode(v2))
    <3>1. IsTarget(target, url, UrlEncode(k1), UrlEncode(v1), UrlEncode(k2), UrlEncode(v2))
      BY DEF IsTarget
    <3> HIDE DEF target
    <3>2. QED
      BY <2>4, <2>5, <3>1, TargetOfPairs, Zenon
  <2> HIDE DEF target
  <2>7. AParams(QueryString(target))[1] = [x \in {k1, k2} |-> IF x = k2 THEN v2 ELSE v1]
    <3>1. PICK q \in Seq(Byte) : q = QueryString(target)
      BY <2>6
    <3>2. TwoPairs(q, UrlEncode(k1), UrlEncode(v1), UrlEncode(k2), UrlEncode(v2))
      BY <2>6, <3>1, Zenon
    <3>3. IsQueryOf(q, k1, v1, k2, v2)
      BY <2>3, <3>2, Zenon DEF IsQueryOf
    <3>4. AParams(q)[1] = Pairs(k1, v1, k2, v2)
      BY <3>3, TwoPairsParsed, Zenon
    <3>5. QED
      BY <3>1, <3>4, Zenon DEF Pairs
  <2>8. GetParams(target) = [x \in {k1, k2} |-> IF x = k2 THEN v2 ELSE v1]
    BY <2>7, ParamsIs
  <2>9. QED
    BY <2>6, <2>8 DEF k1, v1, k2, v2, url, target
<1>2. Inputs => PairsSurvive
  BY <1>1 DEF Inputs, PairsSurvive
<1>3. QED
  BY <1>2, InputsInvariant, PTL
=============================================================================
