----------------------------- MODULE StackProofs -----------------------------
(***************************************************************************)
(* Proofs about the parts of StackParts: the thread of the stack, the TCP  *)
(* server of the LAN and the DHCP client, and about their composition.     *)
(***************************************************************************)
EXTENDS StackParts, Extrema, FiniteSetTheorems, SequenceTheorems, TLAPS

-----------------------------------------------------------------------------
(* The thread of the stack: the list of timeouts as differences, the       *)
(* timeouts and messages that are always accounted for, and types.         *)

(* The lists of timeouts.                                                  *)
Lists == Seq([h : Handlers, time : Nat])

(* d has the sums of the first n differences of s.                         *)
Sums(d, s, n) ==
  /\ d \in [0 .. n -> Nat] /\ d[0] = 0
  /\ \A k \in 1 .. n : d[k] = d[k - 1] + s[k].time

(* A list of timeouts is a sequence of handlers and differences.           *)
LEMMA ListFacts ==
  ASSUME NEW s \in Lists
  PROVE  /\ Len(s) \in Nat /\ DOMAIN s = 1 .. Len(s)
         /\ \A k \in 1 .. Len(s) : s[k] \in [h : Handlers, time : Nat]
                                   /\ s[k].h \in Handlers /\ s[k].time \in Nat
<1> DEFINE R == [h : Handlers, time : Nat]
<1>1. s \in Seq(R)
  BY DEF Lists
<1>2. \A x \in R : x.h \in Handlers /\ x.time \in Nat
  OBVIOUS
<1> HIDE DEF R
<1>3. Len(s) \in Nat /\ DOMAIN s = 1 .. Len(s) /\ \A k \in 1 .. Len(s) : s[k] \in R
  BY <1>1
<1>4. \A k \in 1 .. Len(s) : s[k] \in R /\ s[k].h \in Handlers /\ s[k].time \in Nat
  BY <1>2, <1>3
<1> QED BY <1>3, <1>4 DEF R

(* The sums exist, by the least number of terms without them.              *)
LEMMA SumsExist ==
  ASSUME NEW s \in Lists, NEW n \in 0 .. Len(s)
  PROVE  \E d : Sums(d, s, n)
<1> DEFINE T == {k \in 0 .. n : ~ \E d : Sums(d, s, k)}
<1>0. n \in Nat /\ n \in 0 .. n /\ \A k \in 1 .. n : s[k].time \in Nat
  BY ListFacts
<1> SUFFICES ASSUME T # {} PROVE FALSE
  BY <1>0, Zenon
<1>1. T \subseteq Nat
  BY <1>0
<1>2. PICK k \in T : \A j \in T : k <= j
  <2> HIDE DEF T
  <2> QED BY <1>1, LeastElement
<1>3. k \in 0 .. n /\ k \in Nat
  BY <1>0
<1>4. CASE k = 0
  <2>1. Sums([pos \in 0 .. 0 |-> 0], s, 0)
    BY DEF Sums
  <2> QED BY <1>4, <2>1
<1>5. CASE k # 0
  <2>1. k - 1 \in 0 .. n /\ k \in 1 .. n /\ ~(k <= k - 1)
    BY <1>0, <1>3, <1>5
  <2>2. k - 1 \notin T
    BY <1>2, <2>1
  <2>3. PICK d : Sums(d, s, k - 1)
    BY <2>1, <2>2
  <2> DEFINE e == [pos \in 0 .. k |-> IF pos = k THEN d[k - 1] + s[k].time ELSE d[pos]]
  <2>4. /\ d \in [0 .. k - 1 -> Nat] /\ d[0] = 0 /\ s[k].time \in Nat
        /\ \A pos \in 1 .. k - 1 : d[pos] = d[pos - 1] + s[pos].time
    BY <1>0, <2>1, <2>3 DEF Sums
  <2>5. e \in [0 .. k -> Nat] /\ e[0] = 0
    BY <1>3, <1>5, <2>4
  <2>6. \A pos \in 1 .. k : e[pos] = e[pos - 1] + s[pos].time
    BY <1>3, <1>5, <2>4
  <2>7. Sums(e, s, k)
    <3> HIDE DEF e
    <3> QED BY <2>5, <2>6 DEF Sums
  <2> QED BY <2>7
<1> QED BY <1>4, <1>5

(* Due adds the differences up.                                            *)
LEMMA DueAdds ==
  ASSUME NEW s \in Lists
  PROVE  /\ Due(s, 0) = 0
         /\ \A k \in 1 .. Len(s) : Due(s, k) = Due(s, k - 1) + s[k].time
         /\ \A k \in 0 .. Len(s) : Due(s, k) \in Nat
<1> DEFINE n == Len(s)
           Eq(f) == f = [k \in 0 .. n |-> IF k = 0 THEN 0 ELSE f[k - 1] + s[k].time]
           sum == CHOOSE f : Eq(f)
<1>0. n \in Nat /\ n \in 0 .. n
  BY ListFacts
<1>1. PICK d : Sums(d, s, n)
  BY <1>0, SumsExist
<1>2. Eq(d)
  BY <1>1 DEF Sums
<1>3. Eq(sum)
  <2> HIDE DEF Eq
  <2> QED BY <1>2
<1>4. \A k \in 0 .. n : Due(s, k) = sum[k]
  BY DEF Due
<1> HIDE DEF sum
<1>5. sum[0] = 0 /\ \A k \in 1 .. n : sum[k] = sum[k - 1] + s[k].time
  BY <1>0, <1>3
<1>6. \A k \in 1 .. n : k - 1 \in 0 .. n /\ k \in 0 .. n
  BY <1>0
<1>7. Due(s, 0) = 0 /\ \A k \in 1 .. n : Due(s, k) = Due(s, k - 1) + s[k].time
  BY <1>0, <1>4, <1>5, <1>6
<1> DEFINE T == {k \in 0 .. n : Due(s, k) \notin Nat}
<1>8. T = {}
  <2> SUFFICES ASSUME T # {} PROVE FALSE
    OBVIOUS
  <2>1. T \subseteq Nat
    BY <1>0
  <2>2. PICK k \in T : \A j \in T : k <= j
    <3> HIDE DEF T
    <3> QED BY <2>1, LeastElement
  <2>3. k # 0 /\ k \in 1 .. n /\ k - 1 \in 0 .. n /\ ~(k <= k - 1)
    BY <1>0, <1>7
  <2>4. Due(s, k - 1) \in Nat
    BY <2>2, <2>3
  <2>5. s[k].time \in Nat
    BY <2>3, ListFacts
  <2> QED BY <1>7, <2>3, <2>4, <2>5
<1> QED BY <1>7, <1>8

(* A list has the sums d if its differences are those of d.                *)
LEMMA DueIs ==
  ASSUME NEW s \in Lists, NEW d, d[0] = 0, \A k \in 0 .. Len(s) : d[k] \in Int,
         \A k \in 1 .. Len(s) : s[k].time = d[k] - d[k - 1]
  PROVE  \A k \in 0 .. Len(s) : Due(s, k) = d[k]
<1> DEFINE n == Len(s)
           T == {k \in 0 .. n : Due(s, k) # d[k]}
<1> SUFFICES ASSUME T # {} PROVE FALSE
  OBVIOUS
<1>0. n \in Nat
  BY ListFacts
<1>1. T \subseteq Nat
  BY <1>0
<1>2. PICK k \in T : \A j \in T : k <= j
  <2> HIDE DEF T
  <2> QED BY <1>1, LeastElement
<1>3. k # 0 /\ k \in 1 .. n /\ k - 1 \in 0 .. n /\ ~(k <= k - 1) /\ k \in 0 .. n
  BY <1>0, DueAdds
<1>4. Due(s, k - 1) = d[k - 1]
  BY <1>2, <1>3
<1>5. Due(s, k) = Due(s, k - 1) + s[k].time
  BY <1>3, DueAdds
<1>6. d[k] \in Int /\ d[k - 1] \in Int
  BY <1>3
<1>7. Due(s, k) # d[k]
  OBVIOUS
<1> QED BY <1>3, <1>4, <1>5, <1>6, <1>7

(* Timeouts are in the order in which they are due.                        *)
LEMMA DueGrows ==
  ASSUME NEW s \in Lists, NEW j \in 0 .. Len(s), NEW k \in j .. Len(s)
  PROVE  Due(s, j) <= Due(s, k)
<1> DEFINE n == Len(s)
           T == {m \in j .. n : ~(Due(s, j) <= Due(s, m))}
<1>0. n \in Nat /\ j \in Nat /\ k \in j .. n /\ j \in 0 .. n
  BY ListFacts
<1> SUFFICES ASSUME T # {} PROVE FALSE
  BY <1>0
<1>1. T \subseteq Nat
  BY <1>0
<1>2. PICK m \in T : \A pos \in T : m <= pos
  <2> HIDE DEF T
  <2> QED BY <1>1, LeastElement
<1>d. /\ \A pos \in 1 .. n : Due(s, pos) = Due(s, pos - 1) + s[pos].time
      /\ \A pos \in 0 .. n : Due(s, pos) \in Nat
      /\ \A pos \in 1 .. n : s[pos].time \in Nat
  BY DueAdds, ListFacts
<1>3. m # j
  BY <1>0, <1>d
<1>4. m \in 1 .. n /\ m - 1 \in j .. n /\ m - 1 \in 0 .. n /\ ~(m <= m - 1)
  BY <1>0, <1>3
<1>5. Due(s, j) <= Due(s, m - 1)
  BY <1>2, <1>4
<1>6. ~(Due(s, j) <= Due(s, m))
  OBVIOUS
<1> HIDE DEF T
<1>7. Due(s, m) = Due(s, m - 1) + s[m].time /\ s[m].time \in Nat
      /\ Due(s, m - 1) \in Nat /\ Due(s, j) \in Nat
  BY <1>0, <1>d, <1>4
<1> QED BY <1>5, <1>6, <1>7

(* The search of sys_timeout stops before the first one due later.         *)
LEMMA PlaceIs ==
  ASSUME NEW s \in Lists, NEW ms \in Nat
  PROVE  /\ Place(s, ms) \in 0 .. Len(s)
         /\ Due(s, Place(s, ms)) <= ms
         /\ Place(s, ms) # Len(s) => Due(s, Place(s, ms) + 1) > ms
<1> DEFINE n == Len(s)
           S == {k \in 0 .. n : k = n \/ Due(s, k + 1) > ms}
           p == Place(s, ms)
<1>0. n \in Nat
  BY ListFacts
<1>1. S \subseteq Nat /\ n \in S
  BY <1>0
<1>2. \E k \in S : \A j \in S : k <= j
  <2> HIDE DEF S
  <2> QED BY <1>1, LeastElement
<1>3. p \in S /\ \A j \in S : p <= j
  BY <1>2 DEF Place, Min
<1>4. p \in 0 .. n /\ (p # n => Due(s, p + 1) > ms)
  BY <1>3
<1>5. Due(s, p) <= ms
  <2>1. CASE p = 0
    BY <2>1, DueAdds
  <2>2. CASE p # 0
    <3> HIDE DEF p
    <3>1. p - 1 \in 0 .. n /\ ~(p <= p - 1) /\ p - 1 # n
      BY <1>0, <1>4, <2>2
    <3>2. p - 1 \notin S
      BY <1>3, <3>1
    <3>3. ~(Due(s, p) > ms)
      BY <3>1, <3>2, <1>4
    <3>4. Due(s, p) \in Nat
      BY <1>4, DueAdds
    <3> QED BY <3>3, <3>4
  <2> QED BY <2>1, <2>2
<1> QED BY <1>4, <1>5

(* The elements of a sequence after place n, and those up to it.           *)
LEMMA Rest ==
  ASSUME NEW S, NEW s \in Seq(S), NEW n \in 0 .. Len(s)
  PROVE  /\ SubSeq(s, n + 1, Len(s)) \in Seq(S)
         /\ Len(SubSeq(s, n + 1, Len(s))) = Len(s) - n
         /\ \A j \in 1 .. Len(s) - n : SubSeq(s, n + 1, Len(s))[j] = s[n + j]
<1>1. n + 1 \in Int /\ Len(s) \in Int /\ n \in Nat /\ Len(s) \in Nat
  OBVIOUS
<1>2. \A pos \in n + 1 .. Len(s) : s[pos] \in S
  BY <1>1
<1> DEFINE t == SubSeq(s, n + 1, Len(s))
<1>3. /\ t \in Seq(S) /\ Len(t) = IF n + 1 <= Len(s) THEN Len(s) - (n + 1) + 1 ELSE 0
      /\ \A pos \in 1 .. Len(s) - (n + 1) + 1 : t[pos] = s[(n + 1) + pos - 1]
  BY ONLY <1>1, <1>2, SubSeqProperties
<1> HIDE DEF t
<1>4. Len(t) = Len(s) - n
  BY <1>1, <1>3
<1>5. \A pos \in 1 .. Len(s) - n : t[pos] = s[n + pos]
  <2> TAKE pos \in 1 .. Len(s) - n
  <2>1. pos \in 1 .. Len(s) - (n + 1) + 1 /\ (n + 1) + pos - 1 = n + pos
    BY <1>1
  <2> QED BY <1>3, <2>1
<1> QED BY <1>3, <1>4, <1>5 DEF t

(* The elements of a sequence up to place n.                               *)
LEMMA Front ==
  ASSUME NEW S, NEW s \in Seq(S), NEW n \in 0 .. Len(s)
  PROVE  /\ SubSeq(s, 1, n) \in Seq(S) /\ Len(SubSeq(s, 1, n)) = n
         /\ \A j \in 1 .. n : SubSeq(s, 1, n)[j] = s[j]
<1>1. 1 \in Int /\ n \in Int /\ n \in Nat
  OBVIOUS
<1>2. \A pos \in 1 .. n : s[pos] \in S
  BY <1>1
<1> DEFINE t == SubSeq(s, 1, n)
<1>3. /\ t \in Seq(S) /\ Len(t) = IF 1 <= n THEN n - 1 + 1 ELSE 0
      /\ \A pos \in 1 .. n - 1 + 1 : t[pos] = s[1 + pos - 1]
  BY ONLY <1>1, <1>2, SubSeqProperties
<1> HIDE DEF t
<1>4. Len(t) = n
  BY <1>1, <1>3
<1>5. \A pos \in 1 .. n : t[pos] = s[pos]
  <2> TAKE pos \in 1 .. n
  <2>1. pos \in 1 .. n - 1 + 1 /\ 1 + pos - 1 = pos
    BY <1>1
  <2> QED BY <1>3, <2>1
<1> QED BY <1>3, <1>4, <1>5 DEF t

(* One sequence after another.                                             *)
LEMMA Joined ==
  ASSUME NEW S, NEW a \in Seq(S), NEW c \in Seq(S)
  PROVE  /\ a \o c \in Seq(S) /\ Len(a \o c) = Len(a) + Len(c)
         /\ \A j \in 1 .. Len(a) : (a \o c)[j] = a[j]
         /\ \A j \in 1 .. Len(c) : (a \o c)[Len(a) + j] = c[j]
<1>1. /\ a \o c \in Seq(S) /\ Len(a \o c) = Len(a) + Len(c)
      /\ \A pos \in 1 .. Len(a) + Len(c) : (a \o c)[pos] = IF pos <= Len(a) THEN a[pos] ELSE c[pos - Len(a)]
  BY ONLY a \in Seq(S), c \in Seq(S), ConcatProperties
<1>2. Len(a) \in Nat /\ Len(c) \in Nat
  OBVIOUS
<1> DEFINE t == a \o c
<1> HIDE DEF t
<1>3. \A pos \in 1 .. Len(a) + Len(c) : t[pos] = IF pos <= Len(a) THEN a[pos] ELSE c[pos - Len(a)]
  BY <1>1 DEF t
<1>4. \A j \in 1 .. Len(a) : t[j] = a[j]
  BY <1>2, <1>3
<1>5. \A j \in 1 .. Len(c) : t[Len(a) + j] = c[j]
  <2> TAKE j \in 1 .. Len(c)
  <2>1. Len(a) + j \in 1 .. Len(a) + Len(c) /\ ~(Len(a) + j <= Len(a)) /\ (Len(a) + j) - Len(a) = j
    BY <1>2
  <2> QED BY <1>3, <2>1
<1> QED BY <1>1, <1>4, <1>5 DEF t

(* r has the timeouts of s after place n, the first of them x later.       *)
RestLater(r, s, n, x) ==
  /\ r \in Seq([h : Handlers, time : Int]) /\ Len(r) = Len(s) - n
  /\ n # Len(s) => r[1] = [h |-> s[n + 1].h, time |-> s[n + 1].time + x]
  /\ \A j \in 2 .. Len(s) - n : r[j] = s[n + j]

(* Later moves the first of the timeouts after place n.                    *)
LEMMA LaterIs ==
  ASSUME NEW s \in Lists, NEW n \in 0 .. Len(s), NEW x \in Int, NEW r,
         r = Later(SubSeq(s, n + 1, Len(s)), x)
  PROVE  RestLater(r, s, n, x)
<1> SUFFICES /\ r \in Seq([h : Handlers, time : Int]) /\ Len(r) = Len(s) - n
             /\ n # Len(s) => r[1] = [h |-> s[n + 1].h, time |-> s[n + 1].time + x]
             /\ \A j \in 2 .. Len(s) - n : r[j] = s[n + j]
  BY DEF RestLater
<1> DEFINE R == [h : Handlers, time : Int]
           t == SubSeq(s, n + 1, Len(s))
<1>0. /\ Len(s) \in Nat /\ DOMAIN s = 1 .. Len(s)
      /\ \A k \in 1 .. Len(s) : s[k] \in R /\ s[k].h \in Handlers /\ s[k].time \in Nat
  <2>1. \A y \in [h : Handlers, time : Nat] : y \in R
    OBVIOUS
  <2> HIDE DEF R
  <2> QED BY <2>1, ListFacts
<1>s. s \in Seq(R)
  <2> HIDE DEF R
  <2>1. s \in [1 .. Len(s) -> R]
    <3>1. s = [k \in DOMAIN s |-> s[k]]
      BY DEF Lists
    <3> QED BY <1>0, <3>1
  <2> QED BY <1>0, <2>1
<1>1. t \in Seq(R) /\ Len(t) = Len(s) - n /\ \A j \in 1 .. Len(s) - n : t[j] = s[n + j]
  <2> HIDE DEF R
  <2> QED BY ONLY <1>s, n \in 0 .. Len(s), Rest
<1>2. CASE n = Len(s)
  <2>1. t = <<>>
    <3> HIDE DEF R, t
    <3> QED BY <1>0, <1>1, <1>2
  <2>2. r = t
    BY <2>1 DEF Later
  <2>3. \A j \in 2 .. Len(s) - n : FALSE
    BY <1>0, <1>2
  <2> HIDE DEF R, t
  <2> QED BY <1>1, <1>2, <2>2, <2>3 DEF R
<1>3. CASE n # Len(s)
  <2>1. t # <<>> /\ Len(t) \in Nat /\ 1 \in 1 .. Len(t) /\ 1 \in DOMAIN t
    <3> HIDE DEF R, t
    <3>1. Len(s) - n \in Nat \ {0}
      <4>1. Len(s) \in Nat /\ n \in 0 .. Len(s)
        BY <1>0
      <4> QED BY ONLY <4>1, <1>3
    <3>2. Len(t) \in Nat /\ Len(t) # 0
      BY <1>1, <3>1
    <3> QED BY <1>1, <3>2
  <2>2. t[1] = s[n + 1] /\ s[n + 1] \in R /\ s[n + 1].time \in Nat
    <3> HIDE DEF R, t
    <3>1. n + 1 \in 1 .. Len(s) /\ 1 \in 1 .. Len(s) - n
      BY <1>0, <1>3
    <3> QED BY <1>0, <1>1, <3>1
  <2>3. r = [t EXCEPT ![1].time = @ + x]
    BY <2>1 DEF Later
  <2> HIDE DEF t
  <2>4. r = [t EXCEPT ![1] = [t[1] EXCEPT !.time = t[1].time + x]]
    BY <2>3
  <2> DEFINE y == [t[1] EXCEPT !.time = t[1].time + x]
  <2>5. y = [h |-> s[n + 1].h, time |-> s[n + 1].time + x]
    BY <2>2
  <2>6. y \in R
    BY <2>2, <2>5, <1>0
  <2>7. r = [t EXCEPT ![1] = y]
    BY <2>4
  <2> HIDE DEF y, R
  <2>8. r \in Seq(R) /\ Len(r) = Len(t) /\ r[1] = y /\ \A j \in 2 .. Len(t) : r[j] = t[j]
    BY <1>1, <2>1, <2>6, <2>7
  <2>9. \A j \in 2 .. Len(s) - n : r[j] = s[n + j]
    BY <1>0, <1>1, <2>8
  <2> QED BY <1>1, <2>5, <2>8, <2>9 DEF R
<1> QED BY <1>2, <1>3

(* Times that are not negative make a list.                                *)
LEMMA MakesList ==
  ASSUME NEW r \in Seq([h : Handlers, time : Int]), \A k \in 1 .. Len(r) : r[k].time >= 0
  PROVE  r \in Lists
<1> DEFINE R == [h : Handlers, time : Int]
           N == [h : Handlers, time : Nat]
<1>1. \A x \in R : x.time >= 0 => x \in N
  OBVIOUS
<1> HIDE DEF R
<1>r. r \in Seq(R)
  BY DEF R
<1> HIDE DEF N
<1>2. Len(r) \in Nat /\ r \in [1 .. Len(r) -> R]
  BY ONLY <1>r
<1>3. \A k \in 1 .. Len(r) : r[k] \in N
  BY <1>1, <1>2
<1>4. r \in [1 .. Len(r) -> N]
  BY <1>2, <1>3
<1>5. r \in Seq(N)
  BY <1>2, <1>4
<1> QED BY <1>5 DEF N, Lists

(* The differences of a list are integers, as Later needs them.            *)
LEMMA ListIsInt ==
  ASSUME NEW s \in Lists
  PROVE  s \in Seq([h : Handlers, time : Int])
<1> DEFINE R == [h : Handlers, time : Int]
<1>1. \A x \in [h : Handlers, time : Nat] : x \in R
  OBVIOUS
<1> HIDE DEF R
<1>2. Len(s) \in Nat /\ \A k \in 1 .. Len(s) : s[k] \in R
  BY <1>1, ListFacts
<1>3. s = [k \in 1 .. Len(s) |-> s[k]]
  BY DEF Lists
<1>4. s \in [1 .. Len(s) -> R]
  BY <1>2, <1>3
<1>5. s \in Seq(R)
  BY <1>2, <1>4
<1> QED BY <1>5 DEF R

(* r is s without the timeout at place p: the others call the same and are *)
(* due at the same time.                                                   *)
Skips(r, s, p) ==
  /\ p \in 1 .. Len(s) /\ Len(s) = Len(r) + 1
  /\ \A j \in 1 .. Len(r) : j < p => r[j].h = s[j].h /\ Due(r, j) = Due(s, j)
  /\ \A j \in 1 .. Len(r) : j >= p => r[j].h = s[j + 1].h /\ Due(r, j) = Due(s, j + 1)

(* r is s with a timeout after ms milliseconds more, at place p.           *)
Sets(r, s, h, ms, p) ==
  /\ Skips(s, r, p) /\ r[p].h = h /\ Due(r, p) = ms
  /\ \A j \in 1 .. Len(s) : Due(s, j) <= ms <=> j < p

(* r is s with a timeout more after its first n, place by place.           *)
Placed(r, s, h, ms, n) ==
  /\ r \in Seq([h : Handlers, time : Int]) /\ Len(r) = Len(s) + 1
  /\ \A j \in 1 .. n : r[j] = s[j]
  /\ r[n + 1] = [h |-> h, time |-> ms - Due(s, n)]
  /\ n # Len(s) => r[n + 2] = [h |-> s[n + 1].h,
                              time |-> s[n + 1].time + -(ms - Due(s, n))]
  /\ \A j \in n + 3 .. Len(s) + 1 : r[j] = s[j - 1]

(* What sys_timeout does if the pool has an element.                       *)
LEMMA TimeoutPlaces ==
  ASSUME NEW s \in Lists, NEW h \in Handlers, NEW ms \in Nat, Len(s) # TimeoutPool,
         NEW r, r = sys_timeout(s, h, ms), NEW n, n = Place(s, ms)
  PROVE  Placed(r, s, h, ms, n)
<1> DEFINE R == [h : Handlers, time : Int]
           x == [h |-> h, time |-> ms - Due(s, n)]
           c == Later(SubSeq(s, n + 1, Len(s)), -(ms - Due(s, n)))
           a == SubSeq(s, 1, n)
           y == [h |-> s[n + 1].h, time |-> s[n + 1].time + -(ms - Due(s, n))]
<1>1. n \in 0 .. Len(s) /\ Len(s) \in Nat /\ n \in Nat
  BY PlaceIs, ListFacts
<1>2. Due(s, n) \in Nat
  BY <1>1, DueAdds
<1> DEFINE z == -(ms - Due(s, n))
<1>3. z \in Int /\ x \in R
  BY <1>2
<1>l. c = Later(SubSeq(s, n + 1, Len(s)), z)
  OBVIOUS
<1>y. y = [h |-> s[n + 1].h, time |-> s[n + 1].time + z]
  OBVIOUS
<1>6. r = (a \o <<x>>) \o c
  BY DEF sys_timeout
<1> HIDE DEF x, c, y, z
<1>4. /\ c \in Seq(R) /\ Len(c) = Len(s) - n /\ (n # Len(s) => c[1] = y)
      /\ \A j \in 2 .. Len(s) - n : c[j] = s[n + j]
  <2>1. n \in 0 .. Len(s) /\ z \in Int
    BY <1>1, <1>3
  <2>2. /\ c \in Seq([h : Handlers, time : Int]) /\ Len(c) = Len(s) - n
        /\ n # Len(s) => c[1] = [h |-> s[n + 1].h, time |-> s[n + 1].time + z]
        /\ \A j \in 2 .. Len(s) - n : c[j] = s[n + j]
    <3>1. RestLater(c, s, n, z)
      BY ONLY <2>1, <1>l, s \in Lists, LaterIs
    <3> QED BY ONLY <3>1 DEF RestLater
  <2> QED BY ONLY <2>2, <1>y, Zenon
<1>5. s \in Seq(R)
  BY ListIsInt
<1> HIDE DEF R
<1>7. a \in Seq(R) /\ Len(a) = n /\ \A j \in 1 .. n : a[j] = s[j]
  BY ONLY <1>1, <1>5, Front
<1> HIDE DEF a
<1>8. <<x>> \in Seq(R) /\ Len(<<x>>) = 1 /\ <<x>>[1] = x
  BY <1>3
<1> DEFINE b == a \o <<x>>
<1>9. /\ b \in Seq(R) /\ Len(b) = Len(a) + Len(<<x>>)
      /\ \A j \in 1 .. Len(a) : b[j] = a[j]
      /\ \A j \in 1 .. Len(<<x>>) : b[Len(a) + j] = <<x>>[j]
  BY ONLY <1>7, <1>8, Joined
<1> HIDE DEF b
<1>10. b \in Seq(R) /\ Len(b) = n + 1 /\ b[n + 1] = x /\ \A j \in 1 .. n : b[j] = s[j]
  <2>1. 1 \in 1 .. Len(<<x>>)
    BY <1>8
  <2> QED BY <1>7, <1>8, <1>9, <2>1
<1>11. /\ b \o c \in Seq(R) /\ Len(b \o c) = Len(b) + Len(c)
       /\ \A j \in 1 .. Len(b) : (b \o c)[j] = b[j]
       /\ \A j \in 1 .. Len(c) : (b \o c)[Len(b) + j] = c[j]
  <2>1. b \in Seq(R) /\ c \in Seq(R)
    BY ONLY <1>4, <1>10
  <2> HIDE DEF b
  <2> QED BY ONLY <2>1, Joined
<1>12. r = b \o c
  BY <1>6 DEF b
<1>13. /\ r \in Seq(R) /\ Len(r) = (n + 1) + (Len(s) - n)
       /\ \A j \in 1 .. n + 1 : r[j] = b[j]
       /\ \A j \in 1 .. Len(s) - n : r[(n + 1) + j] = c[j]
  BY ONLY <1>4, <1>10, <1>11, <1>12
<1>14. Len(r) = Len(s) + 1
  BY ONLY <1>1, <1>13
<1>15. \A j \in 1 .. n : r[j] = s[j]
  <2> TAKE j \in 1 .. n
  <2>1. j \in 1 .. n + 1
    BY ONLY <1>1, j \in 1 .. n
  <2> QED BY ONLY <2>1, <1>10, <1>13, j \in 1 .. n
<1>16. r[n + 1] = x
  <2>1. n + 1 \in 1 .. n + 1
    BY ONLY <1>1
  <2> QED BY ONLY <2>1, <1>10, <1>13
<1>17. n # Len(s) => r[n + 2] = y
  <2> HAVE n # Len(s)
  <2>1. 1 \in 1 .. Len(s) - n /\ (n + 1) + 1 = n + 2
    BY ONLY <1>1, n # Len(s)
  <2>2. r[(n + 1) + 1] = c[1]
    BY ONLY <2>1, <1>13
  <2> QED BY ONLY <2>1, <2>2, <1>4, n # Len(s)
<1>18. \A j \in n + 3 .. Len(s) + 1 : r[j] = s[j - 1]
  <2> TAKE j \in n + 3 .. Len(s) + 1
  <2>1. /\ j - (n + 1) \in 1 .. Len(s) - n /\ j - (n + 1) \in 2 .. Len(s) - n
        /\ (n + 1) + (j - (n + 1)) = j /\ n + (j - (n + 1)) = j - 1
    BY ONLY <1>1, j \in n + 3 .. Len(s) + 1
  <2>2. r[(n + 1) + (j - (n + 1))] = c[j - (n + 1)]
    BY ONLY <2>1, <1>13
  <2>3. c[j - (n + 1)] = s[n + (j - (n + 1))]
    BY ONLY <2>1, <1>4
  <2> QED BY ONLY <2>1, <2>2, <2>3
<1> QED BY <1>13, <1>14, <1>15, <1>16, <1>17, <1>18 DEF Placed, R, x, y

(* sys_timeout adds one timeout, due after ms milliseconds, after all that *)
(* are due no later, and leaves the others when they are due.              *)
LEMMA TimeoutSets ==
  ASSUME NEW s \in Lists, NEW h \in Handlers, NEW ms \in Nat, Len(s) # TimeoutPool,
         NEW r, r = sys_timeout(s, h, ms)
  PROVE  r \in Lists /\ \E p \in 1 .. Len(s) + 1 : Sets(r, s, h, ms, p)
<1> DEFINE n == Place(s, ms)
           D(k) == Due(s, k)
           d == [k \in 0 .. Len(s) + 1 |->
                   IF k <= n THEN D(k) ELSE IF k = n + 1 THEN ms ELSE D(k - 1)]
<1>1. n \in 0 .. Len(s) /\ Len(s) \in Nat /\ n \in Nat /\ D(n) <= ms /\ (n # Len(s) => D(n + 1) > ms)
  BY PlaceIs, ListFacts
<1>2. /\ r \in Seq([h : Handlers, time : Int]) /\ Len(r) = Len(s) + 1
      /\ \A j \in 1 .. n : r[j] = s[j]
      /\ r[n + 1] = [h |-> h, time |-> ms - D(n)]
      /\ n # Len(s) => r[n + 2] = [h |-> s[n + 1].h, time |-> s[n + 1].time + -(ms - D(n))]
      /\ \A j \in n + 3 .. Len(s) + 1 : r[j] = s[j - 1]
  <2>1. n = Place(s, ms)
    OBVIOUS
  <2> HIDE DEF n
  <2>2. Placed(r, s, h, ms, n)
    BY ONLY <2>1, s \in Lists, h \in Handlers, ms \in Nat, Len(s) # TimeoutPool,
            r = sys_timeout(s, h, ms), TimeoutPlaces
  <2> QED BY ONLY <2>2 DEF Placed
<1>3. /\ D(0) = 0 /\ \A k \in 1 .. Len(s) : D(k) = D(k - 1) + s[k].time
      /\ \A k \in 0 .. Len(s) : D(k) \in Nat
  BY DueAdds
<1>4. \A k \in 1 .. Len(s) : s[k].time \in Nat
  BY ListFacts
<1> HIDE DEF n, D
<1>5. r[n + 1].h = h /\ r[n + 1].time = ms - D(n)
  BY <1>2
<1>6. n # Len(s) => r[n + 2].h = s[n + 1].h /\ r[n + 2].time = s[n + 1].time + -(ms - D(n))
  BY <1>2
<1>7. d[0] = 0 /\ \A k \in 0 .. Len(s) + 1 : d[k] \in Nat
  BY <1>1, <1>3
<1>8. \A k \in 1 .. Len(s) + 1 : r[k].time = d[k] - d[k - 1]
  <2> TAKE k \in 1 .. Len(s) + 1
  <2>1. CASE k \in 1 .. n
    <3>1. d[k] = D(k) /\ d[k - 1] = D(k - 1) /\ k \in 1 .. Len(s) /\ k - 1 \in 0 .. Len(s) /\ k \in 0 .. Len(s)
      BY <1>1, <2>1
    <3>2. D(k) = D(k - 1) + s[k].time /\ D(k - 1) \in Nat /\ s[k].time \in Nat /\ r[k] = s[k]
      BY <1>2, <1>3, <1>4, <2>1, <3>1
    <3> QED BY <3>1, <3>2
  <2>2. CASE k = n + 1
    <3>1. d[k] = ms /\ d[k - 1] = D(n)
      BY <1>1, <2>2
    <3> QED BY <2>2, <3>1, <1>5
  <2>3. CASE k = n + 2
    <3>1. n # Len(s) /\ n + 1 \in 1 .. Len(s) /\ (n + 1) - 1 = n /\ n \in 0 .. Len(s)
      BY <1>1, <2>3
    <3>2. d[k] = D(n + 1) /\ d[k - 1] = ms
      BY <1>1, <2>3, <3>1
    <3>3. D(n + 1) = D(n) + s[n + 1].time /\ D(n) \in Nat /\ s[n + 1].time \in Nat
      BY <1>3, <1>4, <3>1
    <3> QED BY <2>3, <3>1, <3>2, <3>3, <1>6
  <2>4. CASE k \in n + 3 .. Len(s) + 1
    <3>1. /\ d[k] = D(k - 1) /\ d[k - 1] = D((k - 1) - 1)
          /\ k - 1 \in 1 .. Len(s) /\ (k - 1) - 1 \in 0 .. Len(s)
      BY <1>1, <2>4
    <3>2. D(k - 1) = D((k - 1) - 1) + s[k - 1].time /\ D((k - 1) - 1) \in Nat
          /\ s[k - 1].time \in Nat /\ r[k] = s[k - 1]
      BY <1>2, <1>3, <1>4, <2>4, <3>1
    <3> QED BY <3>1, <3>2
  <2>5. k \in 1 .. n \/ k = n + 1 \/ k = n + 2 \/ k \in n + 3 .. Len(s) + 1
    BY <1>1
  <2> QED BY <2>1, <2>2, <2>3, <2>4, <2>5
<1> HIDE DEF d
<1>9. \A k \in 1 .. Len(s) + 1 : r[k].time >= 0
  <2>1. \A k \in 1 .. n : r[k].time >= 0
    <3> TAKE k \in 1 .. n
    <3>1. r[k] = s[k] /\ k \in 1 .. Len(s)
      BY <1>1, <1>2
    <3>2. s[k].time \in Nat
      BY <1>4, <3>1
    <3> QED BY ONLY <3>1, <3>2
  <2>2. r[n + 1].time >= 0
    <3>1. D(n) \in Nat
      BY <1>1, <1>3
    <3> QED BY <1>1, <1>5, <3>1
  <2>3. n # Len(s) => r[n + 2].time >= 0
    <3> HAVE n # Len(s)
    <3>1. n + 1 \in 1 .. Len(s) /\ (n + 1) - 1 = n /\ n \in 0 .. Len(s)
      BY <1>1
    <3>2. D(n + 1) = D(n) + s[n + 1].time /\ D(n) \in Nat /\ s[n + 1].time \in Nat
      BY <1>3, <1>4, <3>1
    <3> QED BY <3>2, <1>1, <1>6
  <2>4. \A k \in n + 3 .. Len(s) + 1 : r[k].time >= 0
    <3> TAKE k \in n + 3 .. Len(s) + 1
    <3>1. k - 1 \in 1 .. Len(s) /\ r[k] = s[k - 1]
      BY <1>1, <1>2
    <3>2. s[k - 1].time \in Nat
      BY <1>4, <3>1
    <3> QED BY ONLY <3>1, <3>2
  <2>5. \A k \in 1 .. Len(s) + 1 : k \in 1 .. n \/ k = n + 1 \/ (k = n + 2 /\ n # Len(s)) \/ k \in n + 3 .. Len(s) + 1
    BY <1>1
  <2> QED BY <2>1, <2>2, <2>3, <2>4, <2>5
<1>10. r \in Lists
  BY <1>2, <1>9, MakesList
<1>11. \A k \in 0 .. Len(r) : Due(r, k) = d[k]
  <2>1. \A k \in 0 .. Len(r) : d[k] \in Int
    BY <1>2, <1>7
  <2>2. d[0] = 0 /\ \A k \in 1 .. Len(r) : r[k].time = d[k] - d[k - 1]
    BY <1>2, <1>7, <1>8
  <2> QED BY ONLY <1>10, <2>1, <2>2, DueIs
<1>12. \A j \in 1 .. Len(s) : j < n + 1 => s[j].h = r[j].h /\ D(j) = Due(r, j)
  <2> SUFFICES ASSUME NEW j \in 1 .. Len(s), j < n + 1
               PROVE  s[j].h = r[j].h /\ D(j) = Due(r, j)
    OBVIOUS
  <2>1. j \in 1 .. n /\ j \in 0 .. Len(r) /\ j \in 0 .. Len(s) + 1 /\ j <= n
    BY <1>1, <1>2
  <2>2. d[j] = D(j)
    BY <2>1 DEF d
  <2> QED BY <1>2, <1>11, <2>1, <2>2
<1>13. \A j \in 1 .. Len(s) : j >= n + 1 => s[j].h = r[j + 1].h /\ D(j) = Due(r, j + 1)
  <2> SUFFICES ASSUME NEW j \in 1 .. Len(s), j >= n + 1
               PROVE  s[j].h = r[j + 1].h /\ D(j) = Due(r, j + 1)
    OBVIOUS
  <2>1. /\ j + 1 \in 0 .. Len(r) /\ j + 1 \in 0 .. Len(s) + 1 /\ ~(j + 1 <= n) /\ j + 1 # n + 1
        /\ (j + 1) - 1 = j /\ n # Len(s)
        /\ ((j = n + 1 /\ j + 1 = n + 2) \/ j + 1 \in n + 3 .. Len(s) + 1)
    BY <1>1, <1>2
  <2>2. d[j + 1] = D(j)
    BY <2>1 DEF d
  <2>3. s[j].h = r[j + 1].h
    BY <1>2, <1>6, <2>1
  <2> QED BY <1>11, <2>1, <2>2, <2>3
<1>14. Due(r, n + 1) = ms
  <2>1. n + 1 \in 0 .. Len(r) /\ n + 1 \in 0 .. Len(s) + 1 /\ ~(n + 1 <= n)
    BY <1>1, <1>2
  <2> QED BY <2>1, <1>11 DEF d
<1>15. \A j \in 1 .. Len(s) : D(j) <= ms <=> j < n + 1
  <2> TAKE j \in 1 .. Len(s)
  <2>1. CASE j < n + 1
    <3>1. j \in 0 .. Len(s) /\ n \in j .. Len(s)
      BY <1>1, <2>1
    <3>2. D(j) <= D(n)
      BY <3>1, DueGrows DEF D
    <3>3. D(j) \in Nat /\ D(n) \in Nat
      BY <1>1, <1>3, <3>1
    <3> QED BY <1>1, <2>1, <3>2, <3>3
  <2>2. CASE ~(j < n + 1)
    <3>1. n # Len(s) /\ n + 1 \in 0 .. Len(s) /\ j \in n + 1 .. Len(s) /\ j \in 0 .. Len(s)
      BY <1>1, <2>2
    <3>2. D(n + 1) <= D(j)
      BY <3>1, DueGrows DEF D
    <3>3. D(j) \in Nat /\ D(n + 1) \in Nat
      BY <1>3, <3>1
    <3> QED BY <1>1, <2>2, <3>1, <3>2, <3>3
  <2> QED BY <2>1, <2>2
<1>16. n + 1 \in 1 .. Len(r) /\ n + 1 \in 1 .. Len(s) + 1
  BY <1>1, <1>2
<1>17. Sets(r, s, h, ms, n + 1)
  BY <1>2, <1>5, <1>12, <1>13, <1>14, <1>15, <1>16 DEF Sets, Skips, D
<1> QED BY <1>10, <1>16, <1>17

(* r is s without the timeout at place pos, place by place.                *)
Taken(r, s, pos) ==
  /\ r \in Seq([h : Handlers, time : Int]) /\ Len(s) = Len(r) + 1
  /\ \A j \in 1 .. pos - 1 : r[j] = s[j]
  /\ pos # Len(s) => r[pos] = [h |-> s[pos + 1].h, time |-> s[pos + 1].time + s[pos].time]
  /\ \A j \in pos + 1 .. Len(s) - 1 : r[j] = s[j + 1]

(* sys_untimeout takes the first timeout of h out, place by place.         *)
LEMMA UntimeoutPlaces ==
  ASSUME NEW s \in Lists, NEW pos \in 1 .. Len(s), NEW r,
         r = SubSeq(s, 1, pos - 1) \o Later(SubSeq(s, pos + 1, Len(s)), s[pos].time)
  PROVE  Taken(r, s, pos)
<1> DEFINE R == [h : Handlers, time : Int]
           z == s[pos].time
           c == Later(SubSeq(s, pos + 1, Len(s)), z)
           a == SubSeq(s, 1, pos - 1)
<1>1. Len(s) \in Nat /\ pos \in 0 .. Len(s) /\ pos - 1 \in 0 .. Len(s) /\ pos \in Nat /\ z \in Int
  BY ListFacts
<1>2. c = Later(SubSeq(s, pos + 1, Len(s)), z) /\ r = a \o c
  OBVIOUS
<1> HIDE DEF c
<1>3. s \in Seq(R)
  BY ListIsInt
<1>4. /\ c \in Seq([h : Handlers, time : Int]) /\ Len(c) = Len(s) - pos
      /\ pos # Len(s) => c[1] = [h |-> s[pos + 1].h, time |-> s[pos + 1].time + z]
      /\ \A j \in 2 .. Len(s) - pos : c[j] = s[pos + j]
  <2> HIDE DEF z
  <2>1. pos \in 0 .. Len(s) /\ z \in Int
    BY <1>1
  <2>2. c = Later(SubSeq(s, pos + 1, Len(s)), z)
    BY <1>2
  <2>3. RestLater(c, s, pos, z)
    BY ONLY <2>1, <2>2, s \in Lists, LaterIs
  <2> QED BY ONLY <2>3 DEF RestLater
<1> HIDE DEF R
<1>5. a \in Seq(R) /\ Len(a) = pos - 1 /\ \A j \in 1 .. pos - 1 : a[j] = s[j]
  <2> DEFINE n == pos - 1
  <2>1. n \in 0 .. Len(s)
    BY <1>1
  <2> HIDE DEF n
  <2>2. /\ SubSeq(s, 1, n) \in Seq(R) /\ Len(SubSeq(s, 1, n)) = n
        /\ \A j \in 1 .. n : SubSeq(s, 1, n)[j] = s[j]
    BY ONLY <2>1, <1>3, Front
  <2> QED BY ONLY <2>2 DEF n, a
<1> HIDE DEF a, z
<1>6. c \in Seq(R)
  BY <1>4 DEF R
<1>7. /\ a \o c \in Seq(R) /\ Len(a \o c) = Len(a) + Len(c)
      /\ \A j \in 1 .. Len(a) : (a \o c)[j] = a[j]
      /\ \A j \in 1 .. Len(c) : (a \o c)[Len(a) + j] = c[j]
  <2>1. a \in Seq(R)
    BY <1>5
  <2> QED BY ONLY <1>6, <2>1, Joined
<1>8. /\ r \in Seq(R) /\ Len(r) = (pos - 1) + (Len(s) - pos)
      /\ \A j \in 1 .. pos - 1 : r[j] = s[j]
      /\ \A j \in 1 .. Len(s) - pos : r[(pos - 1) + j] = c[j]
  BY ONLY <1>2, <1>4, <1>5, <1>7
<1>9. Len(s) = Len(r) + 1
  BY ONLY <1>1, <1>8
<1>10. pos # Len(s) => r[pos] = [h |-> s[pos + 1].h, time |-> s[pos + 1].time + z]
  <2> HAVE pos # Len(s)
  <2>1. 1 \in 1 .. Len(s) - pos /\ (pos - 1) + 1 = pos
    BY ONLY <1>1, pos # Len(s)
  <2>2. r[(pos - 1) + 1] = c[1]
    BY ONLY <2>1, <1>8
  <2> QED BY ONLY <2>1, <2>2, <1>4, pos # Len(s)
<1>11. \A j \in pos + 1 .. Len(s) - 1 : r[j] = s[j + 1]
  <2> TAKE j \in pos + 1 .. Len(s) - 1
  <2>1. /\ j - (pos - 1) \in 1 .. Len(s) - pos /\ j - (pos - 1) \in 2 .. Len(s) - pos
        /\ (pos - 1) + (j - (pos - 1)) = j /\ pos + (j - (pos - 1)) = j + 1
    BY ONLY <1>1, j \in pos + 1 .. Len(s) - 1
  <2>2. r[(pos - 1) + (j - (pos - 1))] = c[j - (pos - 1)]
    BY ONLY <2>1, <1>8
  <2>3. c[j - (pos - 1)] = s[pos + (j - (pos - 1))]
    BY ONLY <2>1, <1>4
  <2> QED BY ONLY <2>1, <2>2, <2>3
<1> QED BY <1>8, <1>9, <1>10, <1>11 DEF Taken, R, z

(* A timeout that is taken out leaves the others when they are due.        *)
LEMMA TakenSkips ==
  ASSUME NEW s \in Lists, NEW pos \in 1 .. Len(s), NEW r, Taken(r, s, pos)
  PROVE  r \in Lists /\ Skips(r, s, pos)
<1> DEFINE D(k) == Due(s, k)
           d == [k \in 0 .. Len(s) - 1 |-> IF k < pos THEN D(k) ELSE D(k + 1)]
<1>1. Len(s) \in Nat /\ pos \in Nat /\ pos >= 1 /\ pos <= Len(s)
  BY ListFacts
<1>2. /\ r \in Seq([h : Handlers, time : Int]) /\ Len(s) = Len(r) + 1
      /\ \A j \in 1 .. pos - 1 : r[j] = s[j]
      /\ pos # Len(s) => r[pos] = [h |-> s[pos + 1].h, time |-> s[pos + 1].time + s[pos].time]
      /\ \A j \in pos + 1 .. Len(s) - 1 : r[j] = s[j + 1]
  BY DEF Taken
<1>3. /\ D(0) = 0 /\ \A k \in 1 .. Len(s) : D(k) = D(k - 1) + s[k].time
      /\ \A k \in 0 .. Len(s) : D(k) \in Nat
  BY DueAdds
<1>4. \A k \in 1 .. Len(s) : s[k].time \in Nat
  BY ListFacts
<1> HIDE DEF D
<1>l. Len(r) = Len(s) - 1 /\ Len(r) \in Nat
  <2>1. Len(r) \in Nat /\ Len(s) = Len(r) + 1
    BY <1>2
  <2> QED BY ONLY <2>1
<1>5. pos # Len(s) => r[pos].h = s[pos + 1].h /\ r[pos].time = s[pos + 1].time + s[pos].time
  BY <1>2
<1>6. d[0] = 0 /\ \A k \in 0 .. Len(s) - 1 : d[k] \in Nat
  BY <1>1, <1>3
<1>7. \A k \in 1 .. Len(s) - 1 : r[k].time = d[k] - d[k - 1] /\ r[k].time \in Nat
  <2> TAKE k \in 1 .. Len(s) - 1
  <2>1. CASE k \in 1 .. pos - 1
    <3>1. d[k] = D(k) /\ d[k - 1] = D(k - 1) /\ k \in 1 .. Len(s) /\ k - 1 \in 0 .. Len(s)
      BY <1>1, <2>1
    <3>2. D(k) = D(k - 1) + s[k].time /\ D(k - 1) \in Nat /\ s[k].time \in Nat /\ r[k] = s[k]
      BY <1>2, <1>3, <1>4, <2>1, <3>1
    <3> QED BY ONLY <3>1, <3>2
  <2>2. CASE k = pos
    <3>1. /\ d[k] = D(k + 1) /\ d[k - 1] = D(k - 1) /\ pos # Len(s) /\ (k + 1) - 1 = k
          /\ k \in 1 .. Len(s) /\ k + 1 \in 1 .. Len(s) /\ k - 1 \in 0 .. Len(s)
      BY <1>1, <2>2
    <3>2. /\ D(k) = D(k - 1) + s[k].time /\ D(k - 1) \in Nat /\ s[k].time \in Nat
          /\ D(k + 1) = D(k) + s[k + 1].time /\ s[k + 1].time \in Nat
      BY <1>3, <1>4, <3>1
    <3>3. r[k].time = s[k + 1].time + s[k].time
      BY <1>5, <2>2, <3>1
    <3> QED BY ONLY <3>1, <3>2, <3>3
  <2>3. CASE k \in pos + 1 .. Len(s) - 1
    <3>1. /\ d[k] = D(k + 1) /\ d[k - 1] = D(k) /\ (k + 1) - 1 = k
          /\ k \in 0 .. Len(s) /\ k + 1 \in 1 .. Len(s)
      BY <1>1, <2>3
    <3>2. D(k + 1) = D(k) + s[k + 1].time /\ D(k) \in Nat /\ s[k + 1].time \in Nat /\ r[k] = s[k + 1]
      BY <1>2, <1>3, <1>4, <2>3, <3>1
    <3> QED BY ONLY <3>1, <3>2
  <2>4. k \in 1 .. pos - 1 \/ k = pos \/ k \in pos + 1 .. Len(s) - 1
    BY <1>1
  <2> QED BY <2>1, <2>2, <2>3, <2>4
<1> HIDE DEF d
<1>8. r \in Lists
  <2>1. \A k \in 1 .. Len(r) : r[k].time >= 0
    BY <1>7, <1>l
  <2> QED BY <1>2, <2>1, MakesList
<1>9. \A k \in 0 .. Len(r) : Due(r, k) = d[k]
  <2>1. d[0] = 0 /\ \A k \in 0 .. Len(r) : d[k] \in Int
    BY <1>6, <1>l
  <2>2. \A k \in 1 .. Len(r) : r[k].time = d[k] - d[k - 1]
    BY <1>7, <1>l
  <2> QED BY ONLY <1>8, <2>1, <2>2, DueIs
<1>10. \A j \in 1 .. Len(r) : j < pos => r[j].h = s[j].h /\ Due(r, j) = D(j)
  <2> SUFFICES ASSUME NEW j \in 1 .. Len(r), j < pos PROVE r[j].h = s[j].h /\ Due(r, j) = D(j)
    OBVIOUS
  <2>1. j \in 1 .. pos - 1 /\ j \in 0 .. Len(r) /\ j \in 0 .. Len(s) - 1
    BY <1>1, <1>l
  <2>2. d[j] = D(j)
    BY <2>1 DEF d
  <2> QED BY <1>2, <1>9, <2>1, <2>2
<1>11. \A j \in 1 .. Len(r) : j >= pos => r[j].h = s[j + 1].h /\ Due(r, j) = D(j + 1)
  <2> SUFFICES ASSUME NEW j \in 1 .. Len(r), j >= pos PROVE r[j].h = s[j + 1].h /\ Due(r, j) = D(j + 1)
    OBVIOUS
  <2>1. /\ j \in 0 .. Len(r) /\ j \in 0 .. Len(s) - 1 /\ ~(j < pos) /\ pos # Len(s)
        /\ (j = pos \/ j \in pos + 1 .. Len(s) - 1)
    BY <1>1, <1>l
  <2>2. d[j] = D(j + 1)
    BY <2>1 DEF d
  <2>3. r[j].h = s[j + 1].h
    BY <1>2, <1>5, <2>1
  <2> QED BY <1>9, <2>1, <2>2, <2>3
<1> QED BY <1>2, <1>8, <1>10, <1>11 DEF Skips, D

(* sys_untimeout takes the first timeout of h out, if there is one.        *)
LEMMA UntimeoutSkips ==
  ASSUME NEW s \in Lists, NEW h, NEW r, r = sys_untimeout(s, h)
  PROVE  \/ r = s /\ \A j \in 1 .. Len(s) : s[j].h # h
         \/ r \in Lists /\ \E pos \in 1 .. Len(s) : /\ Skips(r, s, pos) /\ s[pos].h = h
                                                  /\ \A j \in 1 .. pos - 1 : s[j].h # h
<1> DEFINE found == {j \in DOMAIN s : s[j].h = h}
           pos == Min(found)
<1>1. DOMAIN s = 1 .. Len(s) /\ Len(s) \in Nat
  BY ListFacts
<1>2. CASE found = {}
  BY <1>1, <1>2 DEF sys_untimeout
<1>3. CASE found # {}
  <2>1. r = SubSeq(s, 1, pos - 1) \o Later(SubSeq(s, pos + 1, Len(s)), s[pos].time)
    BY <1>3 DEF sys_untimeout
  <2>2. found \subseteq Nat
    BY <1>1
  <2>3. \E j \in found : \A k \in found : j <= k
    <3> HIDE DEF found
    <3> QED BY <1>3, <2>2, LeastElement
  <2>4. pos \in found /\ \A k \in found : pos <= k
    BY <2>3 DEF Min
  <2> HIDE DEF pos
  <2>5. pos \in 1 .. Len(s) /\ s[pos].h = h
    BY <1>1, <2>4
  <2>6. \A j \in 1 .. pos - 1 : s[j].h # h
    <3> SUFFICES ASSUME NEW j \in 1 .. pos - 1, s[j].h = h PROVE FALSE
      OBVIOUS
    <3>1. j \in DOMAIN s /\ ~(pos <= j)
      BY <1>1, <2>5
    <3> QED BY <2>4, <3>1
  <2>7. Taken(r, s, pos)
    BY ONLY <2>1, <2>5, s \in Lists, UntimeoutPlaces
  <2>8. r \in Lists /\ Skips(r, s, pos)
    BY ONLY <2>5, <2>7, s \in Lists, TakenSkips
  <2> HIDE DEF found
  <2> QED BY <2>5, <2>6, <2>8
<1> QED BY <1>2, <1>3

(* The timeouts of r are those of s after m milliseconds.                  *)
Sooner(r, s, m) ==
  /\ Len(r) = Len(s)
  /\ \A j \in 1 .. Len(s) : r[j].h = s[j].h /\ Due(r, j) = Due(s, j) - m

(* A first difference that is shorter by m milliseconds makes every        *)
(* timeout due m milliseconds sooner.                                      *)
LEMMA FirstShortened ==
  ASSUME NEW s \in Lists, s # <<>>, NEW t \in 0 .. s[1].time, NEW r,
         r = [s EXCEPT ![1].time = t]
  PROVE  r \in Lists /\ Sooner(r, s, s[1].time - t)
<1> DEFINE m == s[1].time - t
           N == [h : Handlers, time : Nat]
           y == [s[1] EXCEPT !.time = t]
           D(k) == Due(s, k)
           d == [k \in 0 .. Len(s) |-> IF k = 0 THEN 0 ELSE D(k) - m]
<1>s. s \in Seq(N)
  BY DEF Lists
<1>1. Len(s) \in Nat /\ Len(s) # 0 /\ DOMAIN s = 1 .. Len(s)
  <2> HIDE DEF N
  <2> QED BY <1>s
<1>2. 1 \in 1 .. Len(s) /\ s[1] \in N /\ s[1].time \in Nat /\ s[1].h \in Handlers
  BY <1>1, ListFacts
<1>3. y \in N /\ y.h = s[1].h /\ y.time = t /\ t \in Nat
  BY <1>2
<1>4. r = [s EXCEPT ![1] = y]
  OBVIOUS
<1>5. r \in Seq(N) /\ Len(r) = Len(s) /\ r[1] = y /\ \A j \in 2 .. Len(s) : r[j] = s[j]
  <2> HIDE DEF N, y
  <2> QED BY <1>1, <1>2, <1>3, <1>4, <1>s
<1>6. r \in Lists
  BY <1>5 DEF Lists
<1>7. /\ D(0) = 0 /\ \A k \in 1 .. Len(s) : D(k) = D(k - 1) + s[k].time
      /\ \A k \in 0 .. Len(s) : D(k) \in Nat
  BY DueAdds
<1>8. \A k \in 1 .. Len(s) : s[k].time \in Nat
  BY ListFacts
<1>m. m \in Int /\ t = s[1].time - m
  BY <1>2
<1> HIDE DEF D, m, N, y
<1>9. d[0] = 0 /\ \A k \in 0 .. Len(s) : d[k] \in Int
  BY <1>1, <1>7, <1>m
<1>10. \A k \in 1 .. Len(s) : r[k].time = d[k] - d[k - 1]
  <2> TAKE k \in 1 .. Len(s)
  <2>1. CASE k = 1
    <3>1. d[k] = D(1) - m /\ d[k - 1] = 0 /\ 1 - 1 = 0
      BY <1>1, <2>1
    <3>2. D(1) = s[1].time
      <4>1. D(1) = D(1 - 1) + s[1].time
        BY <1>2, <1>7
      <4>2. D(1 - 1) = 0
        BY <1>7, <3>1
      <4>3. s[1].time \in Nat
        BY <1>2
      <4> QED BY ONLY <4>1, <4>2, <4>3
    <3> QED BY <2>1, <3>1, <3>2, <1>3, <1>5, <1>m, <1>2
  <2>2. CASE k # 1
    <3>1. d[k] = D(k) - m /\ d[k - 1] = D(k - 1) - m /\ k \in 2 .. Len(s) /\ k - 1 \in 0 .. Len(s)
      BY <1>1, <2>2
    <3>2. D(k) = D(k - 1) + s[k].time /\ D(k - 1) \in Nat /\ s[k].time \in Nat /\ r[k] = s[k]
      BY <1>5, <1>7, <1>8, <3>1
    <3> QED BY ONLY <3>1, <3>2, <1>m
  <2> QED BY <2>1, <2>2
<1> HIDE DEF d
<1>11. \A k \in 0 .. Len(r) : Due(r, k) = d[k]
  <2>1. Len(r) = Len(s)
    BY <1>5
  <2>2. d[0] = 0 /\ \A k \in 0 .. Len(r) : d[k] \in Int
    BY <1>9, <2>1
  <2>3. \A k \in 1 .. Len(r) : r[k].time = d[k] - d[k - 1]
    BY <1>10, <2>1
  <2> QED BY ONLY <1>6, <2>2, <2>3, DueIs
<1>12. \A j \in 1 .. Len(s) : r[j].h = s[j].h /\ Due(r, j) = D(j) - m
  <2> TAKE j \in 1 .. Len(s)
  <2>1. j \in 0 .. Len(r) /\ j \in 0 .. Len(s) /\ j # 0
    BY <1>1, <1>5
  <2>2. d[j] = D(j) - m
    BY <2>1 DEF d
  <2>3. r[j].h = s[j].h
    <3>1. j = 1 \/ j \in 2 .. Len(s)
      BY <1>1
    <3> QED BY <3>1, <1>3, <1>5
  <2> QED BY <1>11, <2>1, <2>2, <2>3
<1> QED BY <1>5, <1>6, <1>12 DEF Sooner, D, m

(* A wait of x milliseconds shortens the first timeout, to 0 at most.      *)
LEMMA WaitPasses ==
  ASSUME NEW s \in Lists, s # <<>>, NEW x \in Nat, NEW r,
         r = [s EXCEPT ![1].time = Max({0, @ - x})]
  PROVE  r \in Lists /\ \E m \in 0 .. Due(s, 1) : Sooner(r, s, m)
<1>1. 1 \in 1 .. Len(s) /\ s[1].time \in Nat
  <2> DEFINE N == [h : Handlers, time : Nat]
  <2>1. s \in Seq(N)
    BY DEF Lists
  <2> HIDE DEF N
  <2>2. Len(s) \in Nat /\ Len(s) # 0
    BY <2>1
  <2>3. 1 \in 1 .. Len(s)
    BY <2>2
  <2> QED BY <2>3, ListFacts
<1> DEFINE a == s[1].time
           t == Max({0, a - x})
<1>2. t \in 0 .. a
  <2>1. \E y \in {0, a - x} : \A z \in {0, a - x} : y >= z
    <3>1. CASE a >= x
      BY <1>1, <3>1
    <3>2. CASE ~(a >= x)
      BY <1>1, <3>2
    <3> QED BY <3>1, <3>2
  <2>2. t \in {0, a - x} /\ \A z \in {0, a - x} : t >= z
    BY <2>1 DEF Max
  <2> HIDE DEF t
  <2> QED BY <1>1, <2>2
<1>3. r = [s EXCEPT ![1].time = t]
  OBVIOUS
<1>4. r \in Lists /\ Sooner(r, s, a - t)
  <2> HIDE DEF t
  <2> QED BY ONLY <1>2, <1>3, s \in Lists, s # <<>>, FirstShortened
<1>5. Due(s, 1) = a
  <2>1. Due(s, 0) = 0 /\ Due(s, 1) = Due(s, 1 - 1) + s[1].time /\ 1 - 1 = 0
    BY <1>1, DueAdds
  <2> QED BY <1>1, <2>1
<1> HIDE DEF t
<1>6. a - t \in 0 .. Due(s, 1)
  BY <1>1, <1>2, <1>5
<1> QED BY <1>4, <1>6

(* r is s after its first timeout has gone off.                            *)
Rests(r, s) ==
  /\ Len(s) = Len(r) + 1
  /\ \A j \in 1 .. Len(r) : r[j].h = s[j + 1].h /\ Due(r, j) = Due(s, j + 1) - Due(s, 1)

(* A timeout that goes off leaves those after it due as long after it as   *)
(* they were.                                                              *)
LEMMA TailRests ==
  ASSUME NEW s \in Lists, s # <<>>, NEW r, r = Tail(s)
  PROVE  r \in Lists /\ Rests(r, s)
<1> DEFINE N == [h : Handlers, time : Nat]
           D(k) == Due(s, k)
           d == [k \in 0 .. Len(s) - 1 |-> D(k + 1) - D(1)]
<1>s. s \in Seq(N)
  BY DEF Lists
<1>1. /\ Len(s) \in Nat /\ Len(s) # 0 /\ r \in Seq(N) /\ Len(r) = Len(s) - 1
      /\ \A j \in 1 .. Len(r) : r[j] = s[j + 1]
  <2> HIDE DEF N
  <2> QED BY <1>s
<1>2. r \in Lists
  BY <1>1 DEF Lists
<1>3. /\ D(0) = 0 /\ \A k \in 1 .. Len(s) : D(k) = D(k - 1) + s[k].time
      /\ \A k \in 0 .. Len(s) : D(k) \in Nat
  BY DueAdds
<1>4. \A k \in 1 .. Len(s) : s[k].time \in Nat
  BY ListFacts
<1> HIDE DEF D, N
<1>5. d[0] = 0 /\ \A k \in 0 .. Len(r) : d[k] \in Int
  BY <1>1, <1>3
<1>6. \A k \in 1 .. Len(r) : r[k].time = d[k] - d[k - 1]
  <2> TAKE k \in 1 .. Len(r)
  <2>1. /\ d[k] = D(k + 1) - D(1) /\ d[k - 1] = D(k) - D(1) /\ (k + 1) - 1 = k
        /\ k + 1 \in 1 .. Len(s) /\ k \in 0 .. Len(s) /\ 1 \in 0 .. Len(s)
    BY <1>1
  <2>2. /\ D(k + 1) = D(k) + s[k + 1].time /\ D(k) \in Nat /\ D(1) \in Nat
        /\ s[k + 1].time \in Nat /\ r[k] = s[k + 1]
    BY <1>1, <1>3, <1>4, <2>1
  <2> QED BY ONLY <2>1, <2>2
<1>7. \A k \in 0 .. Len(r) : Due(r, k) = d[k]
  <2> HIDE DEF d
  <2> QED BY ONLY <1>2, <1>5, <1>6, DueIs
<1>8. \A j \in 1 .. Len(r) : r[j].h = s[j + 1].h /\ Due(r, j) = D(j + 1) - D(1)
  <2> TAKE j \in 1 .. Len(r)
  <2>1. j \in 0 .. Len(r) /\ j \in 0 .. Len(s) - 1
    BY <1>1
  <2> QED BY <1>1, <1>7, <2>1
<1>9. Len(s) = Len(r) + 1
  <2>1. Len(s) \in Nat /\ Len(r) = Len(s) - 1
    BY <1>1
  <2> QED BY ONLY <2>1
<1> QED BY <1>2, <1>8, <1>9 DEF Rests, D

(* The list of Timeouts that a list of differences stands for.             *)
Pend(s) == [pos \in DOMAIN s |-> [h |-> s[pos].h, left |-> Due(s, pos)]]

Pends == [h : Handlers, left : Nat]

(* Pend has the handler of each timeout and the time it has to go.         *)
LEMMA PendIs ==
  ASSUME NEW s \in Lists
  PROVE  /\ Pend(s) \in Seq(Pends) /\ Len(Pend(s)) = Len(s)
         /\ DOMAIN Pend(s) = 1 .. Len(s)
         /\ \A pos \in 1 .. Len(s) : /\ Pend(s)[pos] = [h |-> s[pos].h, left |-> Due(s, pos)]
                                   /\ Pend(s)[pos] \in Pends
                                   /\ Pend(s)[pos].h = s[pos].h /\ Pend(s)[pos].left = Due(s, pos)
<1>1. Len(s) \in Nat /\ DOMAIN s = 1 .. Len(s) /\ \A k \in 1 .. Len(s) : s[k].h \in Handlers
  BY ListFacts
<1>2. \A k \in 1 .. Len(s) : Due(s, k) \in Nat
  BY <1>1, DueAdds
<1>3. DOMAIN Pend(s) = 1 .. Len(s)
      /\ \A pos \in 1 .. Len(s) : Pend(s)[pos] = [h |-> s[pos].h, left |-> Due(s, pos)]
  BY <1>1 DEF Pend
<1>4. \A pos \in 1 .. Len(s) : /\ Pend(s)[pos] \in Pends
                             /\ Pend(s)[pos].h = s[pos].h /\ Pend(s)[pos].left = Due(s, pos)
  BY <1>1, <1>2, <1>3 DEF Pends
<1>5. Pend(s) = [pos \in 1 .. Len(s) |-> Pend(s)[pos]]
  BY <1>1 DEF Pend
<1> DEFINE P == Pend(s)
<1> HIDE DEF P
<1>6. P \in [1 .. Len(s) -> Pends]
  BY <1>4, <1>5 DEF P
<1>7. P \in Seq(Pends) /\ Len(P) = Len(s)
  BY <1>1, <1>6
<1> QED BY <1>3, <1>4, <1>7 DEF P

(* A sequence without its element at place p.                              *)
LEMMA Removed ==
  ASSUME NEW S, NEW s \in Seq(S), NEW r \in Seq(S), NEW p \in 1 .. Len(s), Len(s) = Len(r) + 1,
         \A j \in 1 .. Len(r) : j < p => r[j] = s[j],
         \A j \in 1 .. Len(r) : j >= p => r[j] = s[j + 1]
  PROVE  r = SubSeq(s, 1, p - 1) \o SubSeq(s, p + 1, Len(s))
<1> DEFINE a == SubSeq(s, 1, p - 1)
           c == SubSeq(s, p + 1, Len(s))
           t == a \o c
<1>1. p - 1 \in 0 .. Len(s) /\ p \in 0 .. Len(s) /\ Len(s) \in Nat /\ Len(r) \in Nat /\ p \in Nat
  OBVIOUS
<1>2. a \in Seq(S) /\ Len(a) = p - 1 /\ \A j \in 1 .. p - 1 : a[j] = s[j]
  BY ONLY <1>1, s \in Seq(S), Front
<1>3. c \in Seq(S) /\ Len(c) = Len(s) - p /\ \A j \in 1 .. Len(s) - p : c[j] = s[p + j]
  BY ONLY <1>1, s \in Seq(S), Rest
<1> HIDE DEF a, c
<1>4. /\ t \in Seq(S) /\ Len(t) = Len(a) + Len(c)
      /\ \A j \in 1 .. Len(a) : t[j] = a[j]
      /\ \A j \in 1 .. Len(c) : t[Len(a) + j] = c[j]
  <2>1. a \in Seq(S) /\ c \in Seq(S)
    BY <1>2, <1>3
  <2> QED BY ONLY <2>1, Joined
<1> HIDE DEF t
<1>5. Len(t) = Len(r)
  BY <1>1, <1>2, <1>3, <1>4
<1>6. \A j \in 1 .. Len(r) : t[j] = r[j]
  <2> TAKE j \in 1 .. Len(r)
  <2>1. CASE j < p
    <3>1. j \in 1 .. Len(a) /\ j \in 1 .. p - 1
      BY <1>1, <1>2, <2>1
    <3> QED BY <2>1, <3>1, <1>2, <1>4
  <2>2. CASE j >= p
    <3>1. /\ j - (p - 1) \in 1 .. Len(c) /\ j - (p - 1) \in 1 .. Len(s) - p
          /\ Len(a) + (j - (p - 1)) = j /\ p + (j - (p - 1)) = j + 1
      BY <1>1, <1>2, <1>3, <2>2
    <3>2. t[Len(a) + (j - (p - 1))] = c[j - (p - 1)]
      BY <1>4, <3>1
    <3>3. c[j - (p - 1)] = s[p + (j - (p - 1))]
      BY <1>3, <3>1
    <3>4. r[j] = s[j + 1]
      BY <2>2
    <3> QED BY ONLY <3>1, <3>2, <3>3, <3>4
  <2> QED BY <2>1, <2>2, <1>1
<1>7. t = r
  BY ONLY <1>4, <1>5, <1>6, r \in Seq(S), SeqEqual
<1> QED BY <1>7 DEF t, a, c

(* A list without one timeout stands for the list of Timeouts without it.  *)
LEMMA SkipsRemoves ==
  ASSUME NEW s \in Lists, NEW r \in Lists, NEW p, Skips(r, s, p)
  PROVE  Pend(r) = SubSeq(Pend(s), 1, p - 1) \o SubSeq(Pend(s), p + 1, Len(Pend(s)))
<1> DEFINE P == Pend(s)
           Q == Pend(r)
<1>1. /\ P \in Seq(Pends) /\ Len(P) = Len(s)
      /\ \A pos \in 1 .. Len(s) : P[pos] = [h |-> s[pos].h, left |-> Due(s, pos)]
  BY PendIs
<1>2. /\ Q \in Seq(Pends) /\ Len(Q) = Len(r)
      /\ \A pos \in 1 .. Len(r) : Q[pos] = [h |-> r[pos].h, left |-> Due(r, pos)]
  BY PendIs
<1>3. /\ p \in 1 .. Len(s) /\ Len(s) = Len(r) + 1 /\ Len(s) \in Nat /\ Len(r) \in Nat
      /\ \A j \in 1 .. Len(r) : j < p => r[j].h = s[j].h /\ Due(r, j) = Due(s, j)
      /\ \A j \in 1 .. Len(r) : j >= p => r[j].h = s[j + 1].h /\ Due(r, j) = Due(s, j + 1)
  BY ListFacts DEF Skips
<1> HIDE DEF P, Q
<1>4. \A j \in 1 .. Len(Q) : j < p => Q[j] = P[j]
  <2> SUFFICES ASSUME NEW j \in 1 .. Len(r), j < p PROVE Q[j] = P[j]
    BY <1>2
  <2>1. j \in 1 .. Len(s)
    BY <1>3
  <2> QED BY <1>1, <1>2, <1>3, <2>1
<1>5. \A j \in 1 .. Len(Q) : j >= p => Q[j] = P[j + 1]
  <2> SUFFICES ASSUME NEW j \in 1 .. Len(r), j >= p PROVE Q[j] = P[j + 1]
    BY <1>2
  <2>1. j + 1 \in 1 .. Len(s)
    BY <1>3
  <2> QED BY <1>1, <1>2, <1>3, <2>1
<1>6. P \in Seq(Pends) /\ Q \in Seq(Pends) /\ p \in 1 .. Len(P) /\ Len(P) = Len(Q) + 1
  BY <1>1, <1>2, <1>3
<1>7. Q = SubSeq(P, 1, p - 1) \o SubSeq(P, p + 1, Len(P))
  BY ONLY <1>4, <1>5, <1>6, Removed
<1> QED BY <1>7 DEF P, Q

(* A wait is time that passes for every timeout of Timeouts.               *)
LEMMA SoonerPasses ==
  ASSUME NEW s \in Lists, NEW r \in Lists, NEW m, Sooner(r, s, m)
  PROVE  Pend(r) = [pos \in DOMAIN Pend(s) |-> [Pend(s)[pos] EXCEPT !.left = @ - m]]
<1>1. DOMAIN s = 1 .. Len(s) /\ DOMAIN r = 1 .. Len(s)
      /\ \A j \in 1 .. Len(s) : r[j].h = s[j].h /\ Due(r, j) = Due(s, j) - m
  BY ListFacts DEF Sooner
<1>2. DOMAIN Pend(s) = 1 .. Len(s)
      /\ \A pos \in 1 .. Len(s) : Pend(s)[pos] = [h |-> s[pos].h, left |-> Due(s, pos)]
  BY PendIs
<1>3. \A pos \in 1 .. Len(s) : [Pend(s)[pos] EXCEPT !.left = @ - m] = [h |-> r[pos].h, left |-> Due(r, pos)]
  BY <1>1, <1>2
<1> QED BY <1>1, <1>2, <1>3 DEF Pend

(* A timeout whose handler the thread calls goes off in Timeouts.          *)
LEMMA RestsGoesOff ==
  ASSUME NEW s \in Lists, s # <<>>, NEW r \in Lists, Rests(r, s)
  PROVE  /\ Pend(s) # <<>> /\ Pend(s)[1].left = Due(s, 1)
         /\ Pend(r) = [pos \in DOMAIN Tail(Pend(s)) |->
                         [Tail(Pend(s))[pos] EXCEPT !.left = @ - Pend(s)[1].left]]
<1> DEFINE P == Pend(s)
           T == Tail(P)
<1>1. /\ P \in Seq(Pends) /\ Len(P) = Len(s)
      /\ \A pos \in 1 .. Len(s) : P[pos] = [h |-> s[pos].h, left |-> Due(s, pos)] /\ P[pos].left = Due(s, pos)
  BY PendIs
<1>2. /\ Len(s) = Len(r) + 1 /\ Len(r) \in Nat /\ Len(s) \in Nat /\ DOMAIN r = 1 .. Len(r)
      /\ \A j \in 1 .. Len(r) : r[j].h = s[j + 1].h /\ Due(r, j) = Due(s, j + 1) - Due(s, 1)
  BY ListFacts DEF Rests
<1>3. 1 \in 1 .. Len(s) /\ Len(s) # 0 /\ Len(s) - 1 = Len(r)
  BY ONLY <1>2
<1> HIDE DEF P
<1>4. P # <<>> /\ P[1].left = Due(s, 1)
  BY <1>1, <1>3
<1>5. T \in Seq(Pends) /\ Len(T) = Len(s) - 1 /\ \A j \in 1 .. Len(T) : T[j] = P[j + 1]
  BY <1>1, <1>4
<1> HIDE DEF T
<1>6. DOMAIN T = 1 .. Len(r)
  BY <1>3, <1>5
<1>7. \A j \in 1 .. Len(r) : [T[j] EXCEPT !.left = @ - Due(s, 1)] = [h |-> r[j].h, left |-> Due(r, j)]
  <2> TAKE j \in 1 .. Len(r)
  <2>1. j + 1 \in 1 .. Len(s) /\ j \in 1 .. Len(T)
    BY <1>2, <1>3, <1>5
  <2>2. T[j] = [h |-> s[j + 1].h, left |-> Due(s, j + 1)]
    BY <1>1, <1>5, <2>1
  <2>3. r[j].h = s[j + 1].h /\ Due(r, j) = Due(s, j + 1) - Due(s, 1)
    BY <1>2
  <2> QED BY <2>2, <2>3
<1>8. Pend(r) = [pos \in DOMAIN T |-> [T[pos] EXCEPT !.left = @ - P[1].left]]
  BY <1>2, <1>4, <1>6, <1>7 DEF Pend
<1> QED BY <1>4, <1>8 DEF P, T

(* r is the sequence s of n + 1 elements without the one at place p.       *)
Drops(r, s, p, n) ==
  /\ DOMAIN s = 1 .. n + 1 /\ DOMAIN r = 1 .. n /\ p \in 1 .. n + 1
  /\ \A j \in 1 .. n : j < p => r[j] = s[j]
  /\ \A j \in 1 .. n : j >= p => r[j] = s[j + 1]

(* What a finite sequence has can be counted.                              *)
LEMMA TimesIsNat ==
  ASSUME NEW s, NEW x, NEW n \in Nat, DOMAIN s = 1 .. n
  PROVE  Times(s, x) \in Nat /\ IsFiniteSet({pos \in DOMAIN s : s[pos] = x})
<1>1. 1 \in Int /\ n \in Int
  OBVIOUS
<1>2. IsFiniteSet(1 .. n)
  BY ONLY <1>1, FS_Interval
<1> DEFINE A == {pos \in DOMAIN s : s[pos] = x}
<1>3. A \in SUBSET (1 .. n)
  OBVIOUS
<1> HIDE DEF A
<1>4. IsFiniteSet(A)
  BY ONLY <1>2, <1>3, FS_Subset
<1>5. Cardinality(A) \in Nat
  BY ONLY <1>4, FS_CardinalityType
<1> QED BY <1>4, <1>5 DEF A, Times

(* One element less counts one less of that element.                       *)
LEMMA TimesDrops ==
  ASSUME NEW r, NEW s, NEW p, NEW n \in Nat, Drops(r, s, p, n), NEW x
  PROVE  Times(s, x) = Times(r, x) + (IF s[p] = x THEN 1 ELSE 0)
<1> DEFINE A == {j \in DOMAIN r : r[j] = x}
           B == {pos \in DOMAIN s : s[pos] = x}
           C == B \ {p}
           f == [j \in A |-> IF j < p THEN j ELSE j + 1]
<1>1. /\ DOMAIN s = 1 .. n + 1 /\ DOMAIN r = 1 .. n /\ p \in 1 .. n + 1 /\ n + 1 \in Nat
      /\ \A j \in 1 .. n : j < p => r[j] = s[j]
      /\ \A j \in 1 .. n : j >= p => r[j] = s[j + 1]
  BY DEF Drops
<1>2. \A j \in A : f[j] \in C
  <2> TAKE j \in A
  <2>1. j \in 1 .. n /\ r[j] = x
    BY <1>1
  <2>2. CASE j < p
    <3>1. f[j] = j /\ j \in 1 .. n + 1 /\ j # p /\ s[j] = x
      BY <1>1, <2>1, <2>2
    <3> QED BY <1>1, <3>1
  <2>3. CASE ~(j < p)
    <3>1. f[j] = j + 1 /\ j + 1 \in 1 .. n + 1 /\ j + 1 # p /\ s[j + 1] = x
      BY <1>1, <2>1, <2>3
    <3> QED BY <1>1, <3>1
  <2> QED BY <2>2, <2>3
<1>3. \A pos, j \in A : f[pos] = f[j] => pos = j
  <2> TAKE pos \in A, j \in A
  <2>1. pos \in 1 .. n /\ j \in 1 .. n
    BY <1>1
  <2> QED BY <1>1, <2>1
<1>4. \A c \in C : \E j \in A : f[j] = c
  <2> TAKE c \in C
  <2>1. c \in 1 .. n + 1 /\ s[c] = x /\ c # p
    BY <1>1
  <2>2. CASE c < p
    <3>1. c \in 1 .. n
      BY <1>1, <2>1, <2>2
    <3>2. c \in A /\ f[c] = c
      BY <1>1, <2>1, <2>2, <3>1
    <3> QED BY <3>2
  <2>3. CASE ~(c < p)
    <3>1. c - 1 \in 1 .. n /\ ~(c - 1 < p) /\ (c - 1) + 1 = c
      BY <1>1, <2>1, <2>3
    <3>2. r[c - 1] = s[(c - 1) + 1]
      BY <1>1, <3>1
    <3>3. c - 1 \in A
      BY <1>1, <2>1, <3>1, <3>2
    <3>4. f[c - 1] = c
      BY <3>1, <3>3
    <3> QED BY <3>3, <3>4
  <2> QED BY <2>2, <2>3
<1>5. f \in [A -> C]
  <2> HIDE DEF C
  <2> QED BY <1>2
<1> HIDE DEF f, A, C
<1>6. f \in Bijection(A, C)
  BY <1>3, <1>4, <1>5 DEF Bijection, Injection, Surjection, IsInjective
<1>7. ExistsBijection(A, C)
  BY <1>6, Zenon DEF ExistsBijection
<1>8. IsFiniteSet(A) /\ IsFiniteSet(B) /\ Cardinality(A) \in Nat /\ Cardinality(B) \in Nat
  <2>1. DOMAIN r = 1 .. n /\ DOMAIN s = 1 .. n + 1 /\ n \in Nat /\ n + 1 \in Nat
    BY <1>1
  <2>2. Times(r, x) \in Nat /\ IsFiniteSet({pos \in DOMAIN r : r[pos] = x})
    BY ONLY <2>1, TimesIsNat
  <2>3. Times(s, x) \in Nat /\ IsFiniteSet({pos \in DOMAIN s : s[pos] = x})
    <3> DEFINE k == n + 1
    <3>1. k \in Nat /\ DOMAIN s = 1 .. k
      BY <2>1
    <3> HIDE DEF k
    <3> QED BY ONLY <3>1, TimesIsNat
  <2> QED BY ONLY <2>2, <2>3 DEF A, B, Times
<1>9. Cardinality(C) = Cardinality(A)
  BY ONLY <1>7, <1>8, FS_Bijection
<1>10. Cardinality(C) = IF p \in B THEN Cardinality(B) - 1 ELSE Cardinality(B)
  <2> HIDE DEF B
  <2> QED BY ONLY <1>8, FS_RemoveElement DEF C
<1>11. p \in B <=> s[p] = x
  BY <1>1
<1>12. Times(s, x) = Cardinality(B) /\ Times(r, x) = Cardinality(A)
  BY DEF Times, A
<1> HIDE DEF B
<1>13. CASE p \in B
  <2>1. Cardinality(A) = Cardinality(B) - 1 /\ s[p] = x
    BY ONLY <1>9, <1>10, <1>11, <1>13
  <2>2. Times(s, x) = Times(r, x) + 1
    BY ONLY <1>8, <1>12, <2>1
  <2> QED BY ONLY <2>1, <2>2
<1>14. CASE p \notin B
  <2>1. Cardinality(A) = Cardinality(B) /\ s[p] # x
    BY ONLY <1>9, <1>10, <1>11, <1>14
  <2>2. Times(s, x) = Times(r, x) + 0
    BY ONLY <1>8, <1>12, <2>1
  <2> QED BY ONLY <2>1, <2>2
<1> QED BY <1>13, <1>14

(* The posted mailbox without its last message is the one before it.       *)
LEMMA AppendDrops ==
  ASSUME NEW S, NEW s \in Seq(S), NEW x \in S
  PROVE  /\ Drops(s, Append(s, x), Len(s) + 1, Len(s)) /\ Append(s, x)[Len(s) + 1] = x
         /\ Len(s) \in Nat
<1>1. /\ Append(s, x) \in Seq(S) /\ Len(Append(s, x)) = Len(s) + 1 /\ Len(s) \in Nat
      /\ \A j \in 1 .. Len(s) : Append(s, x)[j] = s[j]
      /\ Append(s, x)[Len(s) + 1] = x
  OBVIOUS
<1>2. DOMAIN Append(s, x) = 1 .. Len(s) + 1 /\ DOMAIN s = 1 .. Len(s) /\ Len(s) + 1 \in 1 .. Len(s) + 1
  BY <1>1
<1>3. \A j \in 1 .. Len(s) : ~(j >= Len(s) + 1)
  BY <1>1
<1> QED BY <1>1, <1>2, <1>3 DEF Drops

(* The fetched mailbox is the one before it without its first message.     *)
LEMMA TailDrops ==
  ASSUME NEW S, NEW s \in Seq(S), s # <<>>
  PROVE  Drops(Tail(s), s, 1, Len(s) - 1) /\ s[1] = Head(s) /\ Len(s) - 1 \in Nat
<1>1. /\ Len(s) \in Nat /\ Len(s) # 0 /\ Tail(s) \in Seq(S) /\ Len(Tail(s)) = Len(s) - 1
      /\ \A j \in 1 .. Len(s) - 1 : Tail(s)[j] = s[j + 1]
  OBVIOUS
<1>2. Len(s) - 1 \in Nat /\ (Len(s) - 1) + 1 = Len(s) /\ 1 \in 1 .. Len(s)
  BY <1>1
<1>3. DOMAIN Tail(s) = 1 .. Len(s) - 1 /\ DOMAIN s = 1 .. Len(s)
  BY <1>1
<1>4. \A j \in 1 .. Len(s) - 1 : ~(j < 1)
  BY <1>2
<1> QED BY <1>1, <1>2, <1>3, <1>4 DEF Drops

One(b) == IF b THEN 1 ELSE 0

(* Two places of what is there no more than once are one.                  *)
LEMMA OncePlace ==
  ASSUME NEW g, NEW n \in Nat, DOMAIN g = 1 .. n, NEW x, Times(g, x) <= 1,
         NEW pos \in 1 .. n, NEW j \in 1 .. n, g[pos] = x, g[j] = x
  PROVE  pos = j
<1> SUFFICES ASSUME pos # j PROVE FALSE
  OBVIOUS
<1> DEFINE A == {k \in DOMAIN g : g[k] = x}
           B == {j} \cup {pos}
<1>1. IsFiniteSet(A) /\ Cardinality(A) <= 1
  BY TimesIsNat DEF Times
<1>2. B \in SUBSET A
  OBVIOUS
<1>3. IsFiniteSet({j}) /\ Cardinality({j}) = 1
  BY FS_Singleton
<1>4. Cardinality(B) = 2
  <2>1. Cardinality(B) = IF pos \in {j} THEN Cardinality({j}) ELSE Cardinality({j}) + 1
    BY ONLY <1>3, FS_AddElement
  <2> HIDE DEF B
  <2> QED BY <1>3, <2>1
<1> HIDE DEF A, B
<1>5. Cardinality(B) <= Cardinality(A) /\ Cardinality(A) \in Nat
  BY ONLY <1>1, <1>2, FS_Subset, FS_CardinalityType
<1> QED BY ONLY <1>1, <1>4, <1>5

(* There are no more timeouts than cyclic ones, TCP timers and ticks.      *)
LEMMA Accounted ==
  ASSUME NEW g, NEW n \in Nat, DOMAIN g = 1 .. n, \A pos \in 1 .. n : g[pos] \in Handlers,
         \A h \in Cyclic : Times(g, h) <= 1
  PROVE  n <= Len(CyclicTimers) + Times(g, "tcp") + Times(g, "tick")
<1> DEFINE L == Len(CyclicTimers)
           A == {pos \in 1 .. n : g[pos] \in Cyclic}
           T == {pos \in DOMAIN g : g[pos] = "tcp"}
           K == {pos \in DOMAIN g : g[pos] = "tick"}
           At(pos) == CHOOSE k \in 1 .. L : CyclicTimers[k] = g[pos]
           f == [pos \in A |-> At(pos)]
<1>1. L \in Nat /\ DOMAIN CyclicTimers = 1 .. L
  BY TcpipThreadAssumption
<1>2. \A pos \in A : At(pos) \in 1 .. L /\ CyclicTimers[At(pos)] = g[pos]
  <2> TAKE pos \in A
  <2>1. \E k \in 1 .. L : CyclicTimers[k] = g[pos]
    BY <1>1 DEF Cyclic
  <2> QED BY <2>1
<1>3. f \in [A -> 1 .. L]
  BY <1>2
<1>4. \A pos, j \in A : f[pos] = f[j] => pos = j
  <2> SUFFICES ASSUME NEW pos \in A, NEW j \in A, f[pos] = f[j] PROVE pos = j
    OBVIOUS
  <2>1. g[pos] = g[j]
    <3>1. f[pos] = At(pos) /\ f[j] = At(j)
      OBVIOUS
    <3> HIDE DEF At, f, A
    <3> QED BY <1>2, <3>1
  <2>2. pos \in 1 .. n /\ j \in 1 .. n /\ g[pos] \in Cyclic
    OBVIOUS
  <2>3. Times(g, g[pos]) <= 1
    BY <2>2
  <2> QED BY ONLY <2>1, <2>2, <2>3, n \in Nat, DOMAIN g = 1 .. n, OncePlace
<1> HIDE DEF f, At
<1>5. 1 \in Int /\ L \in Int /\ n \in Int
  BY <1>1
<1>6. IsFiniteSet(1 .. L) /\ Cardinality(1 .. L) = L
  <2>1. IsFiniteSet(1 .. L) /\ Cardinality(1 .. L) = IF 1 > L THEN 0 ELSE L - 1 + 1
    <3> HIDE DEF L
    <3> QED BY ONLY <1>5, FS_Interval
  <2> HIDE DEF L
  <2> QED BY <1>1, <2>1
<1>7. Cardinality(1 .. n) = n
  <2>1. Cardinality(1 .. n) = IF 1 > n THEN 0 ELSE n - 1 + 1
    BY ONLY <1>5, FS_Interval
  <2> QED BY <2>1
<1>8. f \in Injection(A, 1 .. L)
  <2> HIDE DEF A, L
  <2> QED BY <1>3, <1>4 DEF Injection, IsInjective
<1>9. IsFiniteSet(A) /\ Cardinality(A) <= L
  <2> HIDE DEF A, L
  <2>1. IsFiniteSet(A) /\ Cardinality(A) <= Cardinality(1 .. L)
    BY ONLY <1>6, <1>8, FS_Injection
  <2> QED BY <1>6, <2>1
<1>10. /\ IsFiniteSet(T) /\ Cardinality(T) = Times(g, "tcp")
       /\ IsFiniteSet(K) /\ Cardinality(K) = Times(g, "tick")
  BY TimesIsNat DEF Times
<1>11. (A \cup T) \cup K = 1 .. n
  BY DEF Handlers
<1> HIDE DEF A, T, K, L
<1>12. IsFiniteSet(A \cup T) /\ Cardinality(A \cup T) = Cardinality(A) + Cardinality(T) - Cardinality(A \cap T)
  BY ONLY <1>9, <1>10, FS_Union
<1>13. Cardinality((A \cup T) \cup K)
         = Cardinality(A \cup T) + Cardinality(K) - Cardinality((A \cup T) \cap K)
  BY ONLY <1>10, <1>12, FS_Union
<1>14. Cardinality(A \cap T) \in Nat /\ Cardinality((A \cup T) \cap K) \in Nat
  <2>1. A \cap T \in SUBSET A /\ (A \cup T) \cap K \in SUBSET K
    OBVIOUS
  <2>2. IsFiniteSet(A \cap T) /\ IsFiniteSet((A \cup T) \cap K)
    BY ONLY <1>9, <1>10, <2>1, FS_Subset
  <2> QED BY ONLY <2>2, FS_CardinalityType
<1>15. Cardinality(A) \in Nat /\ Cardinality(T) \in Nat /\ Cardinality(K) \in Nat
  BY ONLY <1>9, <1>10, FS_CardinalityType
<1>16. n <= L + Cardinality(T) + Cardinality(K)
  <2>1. n = Cardinality(A \cup T) + Cardinality(K) - Cardinality((A \cup T) \cap K)
    BY ONLY <1>7, <1>11, <1>13
  <2>2. n = (Cardinality(A) + Cardinality(T) - Cardinality(A \cap T)) + Cardinality(K)
              - Cardinality((A \cup T) \cap K)
    BY ONLY <1>12, <2>1
  <2> QED BY ONLY <1>5, <1>9, <1>14, <1>15, <2>2
<1> QED BY <1>10, <1>16 DEF L

-----------------------------------------------------------------------------
(* What the timeouts of a list call.                                       *)
Calls(s) == [pos \in DOMAIN s |-> s[pos].h]

(* A timeout taken out or set changes the count of its own handler by one, *)
(* and no other.                                                           *)
LEMMA CallsSkips ==
  ASSUME NEW s \in Lists, NEW r \in Lists, NEW p, Skips(r, s, p), NEW x
  PROVE  Times(Calls(s), x) = Times(Calls(r), x) + One(s[p].h = x)
<1>1. /\ p \in 1 .. Len(s) /\ Len(s) = Len(r) + 1 /\ Len(r) \in Nat
      /\ DOMAIN s = 1 .. Len(s) /\ DOMAIN r = 1 .. Len(r)
      /\ \A j \in 1 .. Len(r) : j < p => r[j].h = s[j].h
      /\ \A j \in 1 .. Len(r) : j >= p => r[j].h = s[j + 1].h
  BY ListFacts DEF Skips
<1>2. Drops(Calls(r), Calls(s), p, Len(r)) /\ Calls(s)[p] = s[p].h
  BY <1>1 DEF Drops, Calls
<1>3. Times(Calls(s), x) = Times(Calls(r), x) + (IF Calls(s)[p] = x THEN 1 ELSE 0)
  BY ONLY <1>1, <1>2, TimesDrops
<1> QED BY <1>2, <1>3 DEF One

(* A timeout that goes off changes the count of its own handler by one,    *)
(* and no other.                                                           *)
LEMMA CallsRests ==
  ASSUME NEW s \in Lists, NEW r \in Lists, Rests(r, s), NEW x
  PROVE  Times(Calls(s), x) = Times(Calls(r), x) + One(s[1].h = x)
<1>1. /\ Len(s) = Len(r) + 1 /\ Len(r) \in Nat
      /\ DOMAIN s = 1 .. Len(s) /\ DOMAIN r = 1 .. Len(r)
      /\ \A j \in 1 .. Len(r) : r[j].h = s[j + 1].h
  BY ListFacts DEF Rests
<1>2. Drops(Calls(r), Calls(s), 1, Len(r)) /\ Calls(s)[1] = s[1].h
  BY <1>1 DEF Drops, Calls
<1>3. Times(Calls(s), x) = Times(Calls(r), x) + (IF Calls(s)[1] = x THEN 1 ELSE 0)
  BY ONLY <1>1, <1>2, TimesDrops
<1> QED BY <1>2, <1>3 DEF One

(* A wait changes no handler.                                              *)
LEMMA CallsSooner ==
  ASSUME NEW s \in Lists, NEW r \in Lists, NEW m, Sooner(r, s, m)
  PROVE  Calls(r) = Calls(s)
<1>1. DOMAIN s = 1 .. Len(s) /\ DOMAIN r = 1 .. Len(s) /\ \A j \in 1 .. Len(s) : r[j].h = s[j].h
  BY ListFacts DEF Sooner
<1> QED BY <1>1 DEF Calls

(* Every timeout of a list calls one of the handlers.                      *)
LEMMA CallsFacts ==
  ASSUME NEW s \in Lists, NEW x
  PROVE  /\ Times(Calls(s), x) \in Nat /\ Len(s) \in Nat /\ DOMAIN Calls(s) = 1 .. Len(s)
         /\ \A pos \in 1 .. Len(s) : Calls(s)[pos] = s[pos].h /\ Calls(s)[pos] \in Handlers
<1>1. /\ Len(s) \in Nat /\ DOMAIN Calls(s) = 1 .. Len(s)
      /\ \A pos \in 1 .. Len(s) : Calls(s)[pos] = s[pos].h /\ Calls(s)[pos] \in Handlers
  BY ListFacts DEF Calls
<1>2. Times(Calls(s), x) \in Nat
  BY ONLY <1>1, TimesIsNat
<1> QED BY <1>1, <1>2

(* With what the thread calls at their end.                                *)
LEMMA CallsAndOne ==
  ASSUME NEW s \in Lists, NEW h, NEW x
  PROVE  /\ Times(Calls(s) \o <<h>>, x) = Times(Calls(s), x) + One(h = x)
         /\ DOMAIN (Calls(s) \o <<h>>) = 1 .. Len(s) + 1
         /\ (Calls(s) \o <<h>>)[Len(s) + 1] = h
         /\ \A pos \in 1 .. Len(s) : (Calls(s) \o <<h>>)[pos] = s[pos].h
<1> DEFINE c == Calls(s)
           S == {c[pos] : pos \in 1 .. Len(s)} \cup {h}
           t == c \o <<h>>
<1>1. Len(s) \in Nat /\ DOMAIN c = 1 .. Len(s) /\ \A pos \in 1 .. Len(s) : c[pos] = s[pos].h
  BY CallsFacts
<1>2. c = [pos \in 1 .. Len(s) |-> c[pos]]
  BY <1>1 DEF Calls
<1> HIDE DEF c
<1>3. c \in [1 .. Len(s) -> S]
  BY <1>1, <1>2
<1>4. h \in S
  OBVIOUS
<1> HIDE DEF S
<1>5. c \in Seq(S) /\ Len(c) = Len(s)
  BY <1>1, <1>3
<1>6. <<h>> \in Seq(S) /\ Len(<<h>>) = 1 /\ <<h>>[1] = h
  BY <1>4
<1>7. /\ t \in Seq(S) /\ Len(t) = Len(c) + Len(<<h>>)
      /\ \A j \in 1 .. Len(c) : t[j] = c[j]
      /\ \A j \in 1 .. Len(<<h>>) : t[Len(c) + j] = <<h>>[j]
  <2>1. c \in Seq(S) /\ <<h>> \in Seq(S)
    BY <1>5, <1>6
  <2> QED BY ONLY <2>1, Joined
<1> HIDE DEF t
<1>8. Len(t) = Len(s) + 1 /\ t[Len(s) + 1] = h /\ DOMAIN t = 1 .. Len(s) + 1
      /\ \A j \in 1 .. Len(s) : t[j] = c[j]
  <2>1. 1 \in 1 .. Len(<<h>>)
    BY <1>6
  <2> QED BY <1>5, <1>6, <1>7, <2>1
<1>9. Drops(c, t, Len(s) + 1, Len(s))
  <2>1. \A j \in 1 .. Len(s) : ~(j >= Len(s) + 1)
    BY <1>1
  <2>2. Len(s) + 1 \in 1 .. Len(s) + 1
    BY <1>1
  <2> QED BY <1>1, <1>8, <2>1, <2>2 DEF Drops
<1>10. Times(t, x) = Times(c, x) + (IF t[Len(s) + 1] = x THEN 1 ELSE 0)
  BY ONLY <1>1, <1>9, TimesDrops
<1> QED BY <1>1, <1>8, <1>10 DEF c, t, One

(* What a step may do with the list.                                       *)
ListStep(r, s) ==
  \/ r = s
  \/ \E h \in Handlers : \E p \in 1 .. Len(s) + 1 : Sets(r, s, h, Interval[h], p)
  \/ \E pos \in 1 .. Len(s) : Skips(r, s, pos) /\ \A j \in 1 .. pos - 1 : s[j].h # s[pos].h
  \/ s # <<>> /\ \E m \in 0 .. Due(s, 1) : Sooner(r, s, m)
  \/ s # <<>> /\ Rests(r, s)

Bounded(s) == \A j \in 1 .. Len(s) : Due(s, j) <= MaxInterval

(* The time each handler is set for is a bounded number.                   *)
LEMMA IntervalIs ==
  ASSUME NEW h \in Handlers
  PROVE  Interval[h] \in Nat /\ Interval[h] <= MaxInterval /\ MaxInterval \in Nat
BY TcpipThreadAssumption

(* sys_timeout makes a list, by one of the steps of ListStep.              *)
LEMMA TimeoutStep ==
  ASSUME NEW s \in Lists, NEW h \in Handlers, NEW r, r = sys_timeout(s, h, Interval[h])
  PROVE  r \in Lists /\ ListStep(r, s)
<1>1. Interval[h] \in Nat
  BY IntervalIs
<1>2. CASE Len(s) = TimeoutPool
  <2>1. r = s
    BY <1>2 DEF sys_timeout
  <2> QED BY <2>1 DEF ListStep
<1>3. CASE Len(s) # TimeoutPool
  <2>1. r \in Lists /\ \E p \in 1 .. Len(s) + 1 : Sets(r, s, h, Interval[h], p)
    BY ONLY <1>1, <1>3, s \in Lists, h \in Handlers, r = sys_timeout(s, h, Interval[h]), TimeoutSets
  <2> QED BY <2>1, Zenon DEF ListStep
<1> QED BY <1>2, <1>3

(* sys_untimeout makes a list, by one of the steps of ListStep.            *)
LEMMA UntimeoutStep ==
  ASSUME NEW s \in Lists, NEW h, NEW r, r = sys_untimeout(s, h)
  PROVE  r \in Lists /\ ListStep(r, s)
<1>1. \/ r = s /\ \A j \in 1 .. Len(s) : s[j].h # h
      \/ r \in Lists /\ \E pos \in 1 .. Len(s) : /\ Skips(r, s, pos) /\ s[pos].h = h
                                               /\ \A j \in 1 .. pos - 1 : s[j].h # h
  BY ONLY s \in Lists, r = sys_untimeout(s, h), UntimeoutSkips
<1>2. CASE r = s
  BY <1>2 DEF ListStep
<1>3. CASE r # s
  <2>1. r \in Lists
    BY <1>1, <1>3
  <2>2. PICK pos \in 1 .. Len(s) : Skips(r, s, pos) /\ s[pos].h = h /\ \A j \in 1 .. pos - 1 : s[j].h # h
    BY <1>1, <1>3
  <2>3. Skips(r, s, pos) /\ \A j \in 1 .. pos - 1 : s[j].h # s[pos].h
    BY <2>2
  <2> QED BY <2>1, <2>3, Zenon DEF ListStep
<1> QED BY <1>2, <1>3

(* Every timeout stays within the longest time one is set for.             *)
LEMMA StepBounded ==
  ASSUME NEW s \in Lists, NEW r \in Lists, Bounded(s), ListStep(r, s)
  PROVE  Bounded(r)
<1>1. /\ Len(s) \in Nat /\ Len(r) \in Nat
      /\ \A j \in 1 .. Len(s) : Due(s, j) \in Nat /\ Due(s, j) <= MaxInterval
      /\ \A j \in 1 .. Len(r) : Due(r, j) \in Nat
  <2>1. Len(s) \in Nat /\ Len(r) \in Nat
    BY ListFacts
  <2>2. \A j \in 0 .. Len(s) : Due(s, j) \in Nat
    BY DueAdds
  <2>3. \A j \in 0 .. Len(r) : Due(r, j) \in Nat
    BY DueAdds
  <2>4. \A j \in 1 .. Len(s) : Due(s, j) <= MaxInterval
    BY DEF Bounded
  <2> QED BY <2>1, <2>2, <2>3, <2>4
<1>2. MaxInterval \in Nat
  BY TcpipThreadAssumption
<1>3. CASE r = s
  BY <1>3
<1>4. CASE \E h \in Handlers : \E p \in 1 .. Len(s) + 1 : Sets(r, s, h, Interval[h], p)
  <2>1. PICK h \in Handlers : \E p \in 1 .. Len(s) + 1 : Sets(r, s, h, Interval[h], p)
    BY <1>4
  <2>2. PICK p \in 1 .. Len(s) + 1 : Sets(r, s, h, Interval[h], p)
    BY <2>1
  <2>3. /\ p \in 1 .. Len(r) /\ Len(r) = Len(s) + 1 /\ Due(r, p) = Interval[h]
        /\ \A j \in 1 .. Len(s) : j < p => Due(s, j) = Due(r, j)
        /\ \A j \in 1 .. Len(s) : j >= p => Due(s, j) = Due(r, j + 1)
    BY <2>2 DEF Sets, Skips
  <2>4. \A j \in 1 .. Len(r) : Due(r, j) <= MaxInterval
    <3> TAKE j \in 1 .. Len(r)
    <3>1. CASE j < p
      <4>1. j \in 1 .. Len(s)
        BY <1>1, <2>3, <3>1
      <4> QED BY <1>1, <2>3, <3>1, <4>1
    <3>2. CASE j = p
      BY <2>3, <3>2, IntervalIs
    <3>3. CASE j > p
      <4>1. j - 1 \in 1 .. Len(s) /\ j - 1 >= p /\ (j - 1) + 1 = j
        BY <1>1, <2>3, <3>3
      <4>2. Due(s, j - 1) = Due(r, (j - 1) + 1)
        BY <2>3, <4>1
      <4> QED BY <1>1, <4>1, <4>2
    <3>4. j < p \/ j = p \/ j > p
      BY <1>1, <2>3
    <3> QED BY <3>1, <3>2, <3>3, <3>4
  <2> QED BY <2>4 DEF Bounded
<1>5. CASE \E pos \in 1 .. Len(s) : Skips(r, s, pos)
  <2>1. PICK pos \in 1 .. Len(s) : Skips(r, s, pos)
    BY <1>5
  <2>2. /\ Len(s) = Len(r) + 1
        /\ \A j \in 1 .. Len(r) : j < pos => Due(r, j) = Due(s, j)
        /\ \A j \in 1 .. Len(r) : j >= pos => Due(r, j) = Due(s, j + 1)
    BY <2>1 DEF Skips
  <2>3. \A j \in 1 .. Len(r) : Due(r, j) <= MaxInterval
    <3> TAKE j \in 1 .. Len(r)
    <3>1. j \in 1 .. Len(s) /\ j + 1 \in 1 .. Len(s) /\ (j < pos \/ j >= pos)
      BY <1>1, <2>2
    <3> QED BY <1>1, <2>2, <3>1
  <2> QED BY <2>3 DEF Bounded
<1>6. CASE s # <<>> /\ \E m \in 0 .. Due(s, 1) : Sooner(r, s, m)
  <2>1. PICK m \in 0 .. Due(s, 1) : Sooner(r, s, m)
    BY <1>6
  <2>2. Len(r) = Len(s) /\ \A j \in 1 .. Len(s) : Due(r, j) = Due(s, j) - m
    BY <2>1 DEF Sooner
  <2>3. \A j \in 1 .. Len(r) : Due(r, j) <= MaxInterval
    <3> TAKE j \in 1 .. Len(r)
    <3>1. j \in 1 .. Len(s) /\ 1 \in 1 .. Len(s)
      BY <1>1, <2>2
    <3>2. Due(s, j) \in Nat /\ Due(s, 1) \in Nat /\ Due(s, j) <= MaxInterval /\ Due(r, j) = Due(s, j) - m
      BY <1>1, <2>2, <3>1
    <3> QED BY ONLY <1>2, <2>1, <3>2
  <2> QED BY <2>3 DEF Bounded
<1>7. CASE Rests(r, s)
  <2>1. Len(s) = Len(r) + 1 /\ \A j \in 1 .. Len(r) : Due(r, j) = Due(s, j + 1) - Due(s, 1)
    BY <1>7 DEF Rests
  <2>2. \A j \in 1 .. Len(r) : Due(r, j) <= MaxInterval
    <3> TAKE j \in 1 .. Len(r)
    <3>1. j + 1 \in 1 .. Len(s) /\ 1 \in 1 .. Len(s)
      BY <1>1, <2>1
    <3>2. Due(s, j + 1) \in Nat /\ Due(s, 1) \in Nat /\ Due(s, j + 1) <= MaxInterval
          /\ Due(r, j) = Due(s, j + 1) - Due(s, 1)
      BY <1>1, <2>1, <3>1
    <3> QED BY ONLY <1>2, <3>2
  <2> QED BY <2>2 DEF Bounded
<1> QED BY <1>3, <1>4, <1>5, <1>6, <1>7 DEF ListStep

(* The times of a bounded list are within the bound.                       *)
LEMMA BoundedTimes ==
  ASSUME NEW s \in Lists, Bounded(s)
  PROVE  s \in Seq([h : Handlers, time : 0 .. MaxInterval])
<1> DEFINE R == [h : Handlers, time : 0 .. MaxInterval]
<1>1. /\ Len(s) \in Nat /\ s = [k \in 1 .. Len(s) |-> s[k]]
      /\ \A k \in 1 .. Len(s) : s[k] \in [h : Handlers, time : Nat] /\ s[k].time \in Nat
  <2>1. s = [k \in DOMAIN s |-> s[k]]
    BY DEF Lists
  <2> QED BY <2>1, ListFacts
<1>2. \A k \in 1 .. Len(s) : s[k].time <= MaxInterval
  <2> TAKE k \in 1 .. Len(s)
  <2>1. k - 1 \in 0 .. Len(s) /\ k \in 0 .. Len(s)
    BY <1>1
  <2>2. Due(s, k) = Due(s, k - 1) + s[k].time /\ Due(s, k - 1) \in Nat /\ Due(s, k) <= MaxInterval
        /\ s[k].time \in Nat
    BY <1>1, <2>1, DueAdds DEF Bounded
  <2>3. MaxInterval \in Nat
    BY TcpipThreadAssumption
  <2> QED BY ONLY <2>2, <2>3
<1>3. \A x \in [h : Handlers, time : Nat] : x.time <= MaxInterval => x \in R
  BY TcpipThreadAssumption
<1> HIDE DEF R
<1>4. \A k \in 1 .. Len(s) : s[k] \in R
  BY <1>1, <1>2, <1>3
<1>5. s \in [1 .. Len(s) -> R]
  BY <1>1, <1>4
<1>6. s \in Seq(R)
  BY <1>1, <1>5
<1> QED BY <1>6 DEF R

-----------------------------------------------------------------------------
(* The invariant.                                                          *)

(* The list is one of the lists above.                                     *)
ListKept == next_timeout \in Lists

Places == {"again", "pend", "wait", "got", "handle", "expire", "call"}

(* Types, but for the bounds of the pools, and where the thread has a      *)
(* message or a handler.                                                   *)
ThreadShape ==
  /\ tcpTimer \in BOOLEAN /\ pcbs \in BOOLEAN /\ OSTime \in 0 .. WordMod - 1
  /\ mbox \in Seq(Message)
  /\ thread \in [at : Places, msg : Message \cup {"none"}, h : Handlers \cup {"none"},
                 started : 0 .. WordMod - 1, dly : 0 .. MaxPend]
  /\ caller \in [Task -> [at : {"idle", "post", "wait"}, tries : 0 .. PostTries]]
  /\ inpkts \in Nat /\ apis \in Nat /\ lost \subseteq Task
  /\ thread.at = "call" <=> thread.h # "none"
  /\ thread.at \in {"got", "handle"} <=> thread.msg # "none"

(* The timeouts in the list and the one whose handler runs.                *)
Running(h) == Times(Calls(next_timeout), h) + One(thread.h = h)

Timers ==
  /\ \A h \in Cyclic : Running(h) = 1
  /\ Running("tcp") = One(tcpTimer) /\ Running("tick") <= MaxTick + 1
  /\ pcbs => tcpTimer

(* The messages in the mailbox and the one the thread has.                 *)
Underway(m) == Times(mbox, m) + One(thread.msg = m)

Messages ==
  /\ inpkts + Underway("inpkt") = InpktPool /\ apis + Underway("callback") = ApiPool
  /\ \A t \in Task : Underway(t) = One(caller[t].at = "wait" /\ t \notin lost)
  /\ \A t \in lost : caller[t].at = "wait"

(* What holds of the list until an operation on it is torn.                *)
Untorn == Bounded(next_timeout) /\ Timers

ThreadInv == ListKept /\ ThreadShape /\ Messages /\ torn \in BOOLEAN /\ (torn \/ Untorn)

untornVars == <<timerVars, OSTime, mbox, thread, caller, inpkts, apis, lost>>

-----------------------------------------------------------------------------
(* The names of handlers, messages and tasks are apart.                    *)
LEMMA HandlerNames ==
  /\ "tcp" \in Handlers /\ "tick" \in Handlers /\ "none" \notin Handlers
  /\ "tcp" \notin Cyclic /\ "tick" \notin Cyclic /\ Cyclic \subseteq Handlers
  /\ "none" \notin Message /\ "inpkt" \notin Task /\ "callback" \notin Task /\ "none" \notin Task
BY TcpipThreadAssumption DEF Handlers, Message

(* The time sys_arch_mbox_fetch tells is never negative, wrapped or not.   *)
LEMMA ToldIsNat ==
  ASSUME NEW from \in 0 .. WordMod - 1, NEW to \in 0 .. WordMod - 1
  PROVE  Told(from, to) \in Nat
<1>1. WordMod \in Nat \ {0} /\ MsPerSec \in Nat \ {0} /\ TicksPerSec \in Nat \ {0}
  BY TcpipThreadAssumption
<1> DEFINE ticks == IF to > from THEN to - from ELSE WordMod - 1 - from + to
           ms == ticks * MsPerSec
<1>2. ticks \in Nat
  BY <1>1
<1> HIDE DEF ticks
<1>3. ms \in Nat
  BY <1>1, <1>2
<1> HIDE DEF ms
<1>4. ms % WordMod \in Nat
  BY <1>1, <1>3
<1>5. (ms % WordMod) \div TicksPerSec \in Nat
  <2> DEFINE x == ms % WordMod
  <2>1. x \in Nat
    BY <1>4
  <2> HIDE DEF x
  <2>2. x \div TicksPerSec \in Nat
    BY <1>1, <2>1
  <2> QED BY <2>2 DEF x
<1> QED BY <1>5 DEF Told, ticks, ms

(* Every step does to the list what ListStep says.                         *)
LEMMA StepsList ==
  ASSUME ListKept, ThreadShape, [ThreadSteps]_untornVars
  PROVE  next_timeout' \in Lists /\ ListStep(next_timeout', next_timeout)
<1> DEFINE Goal == next_timeout' \in Lists /\ ListStep(next_timeout', next_timeout)
<1>1. next_timeout \in Lists
  BY DEF ListKept
<1>2. ASSUME next_timeout' = next_timeout PROVE Goal
  BY <1>1, <1>2 DEF ListStep
<1>3. ASSUME NEW h \in Handlers, next_timeout' = sys_timeout(next_timeout, h, Interval[h]) PROVE Goal
  BY ONLY <1>1, <1>3, TimeoutStep
<1>4. ASSUME next_timeout' = sys_untimeout(next_timeout, "tick") PROVE Goal
  BY ONLY <1>1, <1>4, UntimeoutStep
<1> SUFFICES Goal
  OBVIOUS
<1> HIDE DEF Goal
<1>5. CASE FetchReturns
  <2>1. CASE next_timeout = <<>>
    BY <1>2, <1>5, <2>1 DEF FetchReturns
  <2>2. CASE next_timeout # <<>>
    <3> DEFINE x == Told(thread.started, OSTime)
    <3>1. x \in Nat
      <4>1. thread.started \in 0 .. WordMod - 1 /\ OSTime \in 0 .. WordMod - 1
        BY DEF ThreadShape
      <4> QED BY ONLY <4>1, ToldIsNat
    <3>2. next_timeout' = [next_timeout EXCEPT ![1].time = Max({0, @ - x})]
      BY <1>5, <2>2 DEF FetchReturns
    <3> HIDE DEF x
    <3>3. next_timeout' \in Lists /\ \E m \in 0 .. Due(next_timeout, 1) : Sooner(next_timeout', next_timeout, m)
      BY ONLY <1>1, <2>2, <3>1, <3>2, WaitPasses
    <3> QED BY <2>2, <3>3 DEF ListStep, Goal
  <2> QED BY <2>1, <2>2
<1>6. CASE Expires
  <2>1. next_timeout # <<>> /\ next_timeout' = Tail(next_timeout)
    BY <1>6 DEF Expires
  <2>2. next_timeout' \in Lists /\ Rests(next_timeout', next_timeout)
    BY ONLY <1>1, <2>1, TailRests
  <2> QED BY <2>1, <2>2 DEF ListStep, Goal
<1>7. CASE CallsHandler
  <2>1. thread.h \in Handlers
    BY <1>7 DEF CallsHandler, ThreadShape
  <2>2. CASE tcpip_tcp_timer
    BY <1>2, <1>3, <2>2, HandlerNames DEF tcpip_tcp_timer
  <2>3. CASE CyclicTimer(thread.h)
    BY <1>3, <2>1, <2>3 DEF CyclicTimer
  <2>4. CASE UNCHANGED timerVars
    BY <1>2, <2>4 DEF timerVars
  <2> QED BY <1>7, <2>2, <2>3, <2>4 DEF CallsHandler
<1>8. CASE tcpip_thread
  <2>1. CASE Connections
    BY <1>2, <1>3, <2>1, HandlerNames DEF Connections, tcp_timer_needed
  <2>2. CASE UNCHANGED timerVars
    BY <1>2, <2>2 DEF timerVars
  <2> QED BY <1>8, <2>1, <2>2 DEF tcpip_thread
<1>9. CASE TickStarts
  BY <1>3, <1>9, HandlerNames DEF TickStarts
<1>10. CASE TickStops
  BY <1>4, <1>10 DEF TickStops
<1>11. CASE FetchStarts \/ OSQPend \/ OSTimeTick \/ tcpip_input \/ tcpip_callback
  BY <1>2, <1>11 DEF FetchStarts, OSQPend, OSTimeTick, tcpip_input, tcpip_callback, timerVars
<1>12. CASE \E t \in Task : tcpip_apimsg(t) \/ sys_mbox_post(t)
  BY <1>2, <1>12 DEF tcpip_apimsg, sys_mbox_post, timerVars
<1>13. CASE UNCHANGED untornVars
  BY <1>2, <1>13 DEF untornVars, timerVars
<1> QED BY <1>5, <1>6, <1>7, <1>8, <1>9, <1>10, <1>11, <1>12, <1>13 DEF ThreadSteps, StackThread

(* Every step keeps the list a list, and its timeouts within the longest   *)
(* interval if they are.                                                   *)
LEMMA ListKeptStep ==
  ASSUME ListKept, ThreadShape, [ThreadSteps]_untornVars
  PROVE  ListKept' /\ (Bounded(next_timeout) => Bounded(next_timeout'))
<1>1. next_timeout' \in Lists /\ ListStep(next_timeout', next_timeout)
  BY StepsList
<1>2. ASSUME Bounded(next_timeout) PROVE Bounded(next_timeout')
  <2>1. next_timeout \in Lists
    BY DEF ListKept
  <2> QED BY ONLY <1>1, <1>2, <2>1, StepBounded
<1> QED BY <1>1, <1>2 DEF ListKept

Threads == [at : Places, msg : Message \cup {"none"}, h : Handlers \cup {"none"},
            started : 0 .. WordMod - 1, dly : 0 .. MaxPend]

(* The record of a thread outside sys_arch_mbox_fetch.                     *)
LEMMA WorkingIs ==
  ASSUME NEW w \in Places, NEW m \in Message \cup {"none"}, NEW h \in Handlers \cup {"none"}
  PROVE  /\ Working(w, m, h) \in Threads
         /\ Working(w, m, h).at = w /\ Working(w, m, h).msg = m /\ Working(w, m, h).h = h
<1>1. 0 \in 0 .. WordMod - 1 /\ 0 \in 0 .. MaxPend
  BY TcpipThreadAssumption
<1> QED BY <1>1, Zenon DEF Working, Threads

(* The wait of OSQPend fits its 16 bits.                                   *)
LEMMA PendTicksIs ==
  ASSUME NEW ms \in Nat
  PROVE  PendTicks(ms) \in 0 .. MaxPend
<1>1. MaxPend \in Nat \ {0} /\ MsPerSec \in Nat \ {0} /\ TicksPerSec \in Nat \ {0}
  BY TcpipThreadAssumption
<1> DEFINE x == ms * TicksPerSec
           y == x \div MsPerSec
           z == Min({MaxPend, y})
<1>2. x \in Nat
  BY <1>1
<1> HIDE DEF x
<1>3. y \in Nat
  BY <1>1, <1>2
<1> HIDE DEF y
<1>4. z \in {MaxPend, y} /\ z <= MaxPend /\ z <= y
  <2>1. \E u \in {MaxPend, y} : \A v \in {MaxPend, y} : u <= v
    <3>1. CASE MaxPend <= y
      BY <1>1, <1>3, <3>1
    <3>2. CASE ~(MaxPend <= y)
      BY <1>1, <1>3, <3>2
    <3> QED BY <3>1, <3>2
  <2> QED BY <2>1 DEF Min
<1> HIDE DEF z
<1>5. \E u \in {1, z} : \A v \in {1, z} : u >= v
  <2>1. CASE z <= 1
    BY <1>1, <1>3, <1>4, <2>1
  <2>2. CASE ~(z <= 1)
    BY <1>1, <1>3, <1>4, <2>2
  <2> QED BY <2>1, <2>2
<1>6. Max({1, z}) \in {1, z}
  BY <1>5 DEF Max
<1>7. Max({1, z}) \in 0 .. MaxPend
  BY <1>1, <1>3, <1>4, <1>6
<1> QED BY <1>7 DEF PendTicks, x, y, z

(* The message of a post reaches the thread or the mailbox.                *)
LEMMA PostShape ==
  ASSUME ThreadShape, NEW m \in Message, OSQPost(m)
  PROVE  /\ mbox' \in Seq(Message) /\ thread' \in Threads
         /\ thread'.at = "call" <=> thread'.h # "none"
         /\ thread'.at \in {"got", "handle"} <=> thread'.msg # "none"
<1>1. /\ mbox \in Seq(Message) /\ thread \in Threads
      /\ thread.at = "call" <=> thread.h # "none"
      /\ thread.at \in {"got", "handle"} <=> thread.msg # "none"
  BY DEF ThreadShape, Threads
<1>2. CASE thread.at = "wait"
  <2>1. thread' = [thread EXCEPT !.at = "got", !.msg = m] /\ mbox' = mbox
    BY <1>2 DEF OSQPost
  <2>2. thread' \in Threads /\ thread'.at = "got" /\ thread'.msg = m /\ thread'.h = thread.h
    BY <1>1, <2>1, Zenon DEF Threads, Places
  <2> QED BY <1>1, <1>2, <2>1, <2>2, HandlerNames
<1>3. CASE thread.at # "wait"
  <2>1. mbox' = Append(mbox, m) /\ thread' = thread
    BY <1>3 DEF OSQPost
  <2> QED BY <1>1, <2>1
<1> QED BY <1>2, <1>3

(* Every step keeps the types, and the thread has a handler exactly while  *)
(* it calls one and a message exactly from its fetch to the end of its     *)
(* handling.                                                               *)
LEMMA ShapeStep ==
  ASSUME ListKept, ThreadShape, [ThreadSteps]_untornVars
  PROVE  ThreadShape'
<1> DEFINE Locals == /\ thread'.at = "call" <=> thread'.h # "none"
                     /\ thread'.at \in {"got", "handle"} <=> thread'.msg # "none"
           Goal == ThreadShape'
<1>0. /\ tcpTimer \in BOOLEAN /\ pcbs \in BOOLEAN /\ OSTime \in 0 .. WordMod - 1
      /\ mbox \in Seq(Message) /\ thread \in Threads
      /\ caller \in [Task -> [at : {"idle", "post", "wait"}, tries : 0 .. PostTries]]
      /\ inpkts \in Nat /\ apis \in Nat /\ lost \subseteq Task
      /\ thread.at = "call" <=> thread.h # "none"
      /\ thread.at \in {"got", "handle"} <=> thread.msg # "none"
  BY DEF ThreadShape, Threads
<1>t. WordMod \in Nat \ {0} /\ MaxPend \in Nat /\ PostTries \in Nat \ {0} /\ 0 \in 0 .. WordMod - 1
      /\ ClockStart \subseteq 0 .. WordMod - 1
  BY TcpipThreadAssumption
<1>l. ASSUME NEW w \in Places, NEW m \in Message \cup {"none"}, NEW h \in Handlers \cup {"none"},
             thread' = Working(w, m, h), w = "call" <=> h # "none",
             w \in {"got", "handle"} <=> m # "none"
      PROVE  thread' \in Threads /\ Locals
  BY <1>l, WorkingIs
<1>p. "again" \in Places /\ "expire" \in Places /\ "handle" \in Places /\ "call" \in Places /\ "pend" \in Places
  BY DEF Places
<1> SUFFICES Goal
  OBVIOUS
<1>g. ASSUME /\ tcpTimer' \in BOOLEAN /\ pcbs' \in BOOLEAN /\ OSTime' \in 0 .. WordMod - 1
             /\ mbox' \in Seq(Message) /\ thread' \in Threads /\ Locals
             /\ caller' \in [Task -> [at : {"idle", "post", "wait"}, tries : 0 .. PostTries]]
             /\ inpkts' \in Nat /\ apis' \in Nat /\ lost' \subseteq Task
      PROVE  Goal
  BY <1>g DEF ThreadShape, Threads
<1> HIDE DEF Goal
<1>1. CASE FetchStarts
  <2>0. UNCHANGED <<tcpTimer, pcbs, mbox, caller, inpkts, apis, lost>>
    BY <1>1 DEF FetchStarts, timerVars
  <2>1. CASE next_timeout # <<>> /\ next_timeout[1].time = 0
    <3>1. thread' = Working("expire", "none", "none") /\ OSTime' = OSTime
      BY <1>1, <2>1 DEF FetchStarts
    <3>2. thread' \in Threads /\ Locals
      BY <1>l, <1>p, <3>1
    <3> QED BY <1>0, <1>g, <2>0, <3>1, <3>2
  <2>2. CASE ~(next_timeout # <<>> /\ next_timeout[1].time = 0)
    <3> DEFINE d == IF next_timeout = <<>> THEN 0 ELSE PendTicks(next_timeout[1].time)
    <3>1. /\ OSTime' \in ClockStart
          /\ thread' = [Working("pend", "none", "none") EXCEPT !.started = OSTime', !.dly = d]
      BY <1>1, <2>2 DEF FetchStarts
    <3>2. d \in 0 .. MaxPend
      <4>1. CASE next_timeout = <<>>
        BY <1>t, <4>1
      <4>2. CASE next_timeout # <<>>
        <5>1. Len(next_timeout) \in Nat /\ Len(next_timeout) # 0
          BY <4>2 DEF ListKept, Lists
        <5>2. 1 \in 1 .. Len(next_timeout)
          BY <5>1
        <5>3. next_timeout[1].time \in Nat
          BY <5>2, ListFacts DEF ListKept
        <5> QED BY <4>2, <5>3, PendTicksIs
      <4> QED BY <4>1, <4>2
    <3>3. OSTime' \in 0 .. WordMod - 1
      BY <1>t, <3>1
    <3> HIDE DEF d
    <3> DEFINE w == Working("pend", "none", "none")
    <3>4. w \in Threads /\ w.at = "pend" /\ w.msg = "none" /\ w.h = "none"
      BY <1>p, WorkingIs
    <3>5. thread' = [w EXCEPT !.started = OSTime', !.dly = d]
      BY <3>1
    <3> HIDE DEF w
    <3>6. thread' \in Threads /\ thread'.at = "pend" /\ thread'.msg = "none" /\ thread'.h = "none"
      BY <3>2, <3>3, <3>4, <3>5, Zenon DEF Threads
    <3>7. Locals
      BY <3>6
    <3> QED BY <1>0, <1>g, <2>0, <3>3, <3>6, <3>7
  <2> QED BY <2>1, <2>2
<1>2. CASE OSQPend
  <2>0. UNCHANGED <<tcpTimer, pcbs, OSTime, caller, inpkts, apis, lost>> /\ thread.at = "pend"
    BY <1>2 DEF OSQPend, timerVars
  <2>1. CASE mbox = <<>>
    <3>1. thread' = [thread EXCEPT !.at = "wait"] /\ mbox' = mbox
      BY <1>2, <2>1 DEF OSQPend
    <3>2. thread' \in Threads /\ thread'.at = "wait" /\ thread'.msg = thread.msg /\ thread'.h = thread.h
      BY <1>0, <3>1, Zenon DEF Threads, Places
    <3>3. Locals
      BY <1>0, <2>0, <3>2
    <3> QED BY <1>0, <1>g, <2>0, <3>1, <3>2, <3>3
  <2>2. CASE mbox # <<>>
    <3>1. thread' = [thread EXCEPT !.at = "got", !.msg = Head(mbox)] /\ mbox' = Tail(mbox)
      BY <1>2, <2>2 DEF OSQPend
    <3>2. Head(mbox) \in Message /\ Tail(mbox) \in Seq(Message)
      BY ONLY <1>0, <2>2, HeadTailProperties
    <3>3. thread' \in Threads /\ thread'.at = "got" /\ thread'.msg = Head(mbox) /\ thread'.h = thread.h
      BY <1>0, <3>1, <3>2, Zenon DEF Threads, Places
    <3>4. Locals
      BY <1>0, <2>0, <3>2, <3>3, HandlerNames
    <3> QED BY <1>0, <1>g, <2>0, <3>1, <3>2, <3>3, <3>4
  <2> QED BY <2>1, <2>2
<1>3. CASE FetchReturns
  <2>1. UNCHANGED <<tcpTimer, pcbs, mbox, caller, inpkts, apis, lost>> /\ thread.at = "got" /\ OSTime' = 0
        /\ thread' = Working("handle", thread.msg, "none")
    BY <1>3 DEF FetchReturns
  <2>2. thread.msg \in Message \cup {"none"} /\ thread.msg # "none"
    BY <1>0, <2>1 DEF Threads
  <2>3. thread' \in Threads /\ Locals
    BY <1>l, <1>p, <2>1, <2>2
  <2> QED BY <1>0, <1>g, <1>t, <2>1, <2>3
<1>4. CASE Expires
  <2>1. UNCHANGED <<tcpTimer, pcbs, OSTime, mbox, caller, inpkts, apis, lost>>
        /\ thread' = Working("call", "none", next_timeout[1].h) /\ next_timeout # <<>>
    BY <1>4 DEF Expires
  <2>2. next_timeout[1].h \in Handlers
    <3>1. Len(next_timeout) \in Nat /\ Len(next_timeout) # 0
      BY <2>1 DEF ListKept, Lists
    <3>2. 1 \in 1 .. Len(next_timeout)
      BY <3>1
    <3> QED BY <3>2, ListFacts DEF ListKept
  <2>3. thread' \in Threads /\ Locals
    BY <1>l, <1>p, <2>1, <2>2, HandlerNames
  <2> QED BY <1>0, <1>g, <2>1, <2>3
<1>5. CASE CallsHandler
  <2>1. thread' = Working("again", "none", "none") /\ UNCHANGED <<OSTime, mbox, caller, inpkts, apis, lost>>
    BY <1>5 DEF CallsHandler
  <2>2. thread' \in Threads /\ Locals
    BY <1>l, <1>p, <2>1
  <2>3. tcpTimer' \in BOOLEAN /\ pcbs' \in BOOLEAN
    BY <1>0, <1>5, Zenon DEF CallsHandler, tcpip_tcp_timer, CyclicTimer, timerVars
  <2> QED BY <1>0, <1>g, <2>1, <2>2, <2>3
<1>6. CASE tcpip_thread
  <2>1. thread' = Working("again", "none", "none") /\ UNCHANGED <<OSTime, mbox, lost>>
    BY <1>6 DEF tcpip_thread
  <2>2. thread' \in Threads /\ Locals
    BY <1>l, <1>p, <2>1
  <2>3. tcpTimer' \in BOOLEAN /\ pcbs' \in BOOLEAN
    BY <1>0, <1>6, Zenon DEF tcpip_thread, Connections, tcp_timer_needed, timerVars
  <2>4. caller' \in [Task -> [at : {"idle", "post", "wait"}, tries : 0 .. PostTries]]
    <3>1. CASE caller' = caller
      BY <1>0, <3>1
    <3>2. CASE thread.msg \in Task /\ caller' = [caller EXCEPT ![thread.msg].at = "idle"]
      BY <1>0, <3>2, Zenon
    <3> QED BY <1>6, <3>1, <3>2 DEF tcpip_thread
  <2>5. inpkts' \in Nat /\ apis' \in Nat
    BY <1>0, <1>6 DEF tcpip_thread
  <2> QED BY <1>0, <1>g, <2>1, <2>2, <2>3, <2>4, <2>5
<1>7. CASE OSTimeTick
  <2>0. UNCHANGED <<tcpTimer, pcbs, mbox, caller, inpkts, apis, lost>>
    BY <1>7 DEF OSTimeTick, timerVars
  <2>1. (OSTime + 1) % WordMod \in 0 .. WordMod - 1
    BY <1>0, <1>t
  <2>2. CASE thread.at \in {"pend", "got"}
    <3>1. OSTime' = (OSTime + 1) % WordMod /\ thread' = thread
      BY <1>7, <2>2 DEF OSTimeTick
    <3> QED BY <1>0, <1>g, <2>0, <2>1, <3>1
  <2>3. CASE thread.at = "wait" /\ thread.dly # 1
    <3> DEFINE d == IF thread.dly = 0 THEN 0 ELSE thread.dly - 1
    <3>1. OSTime' = (OSTime + 1) % WordMod /\ thread' = [thread EXCEPT !.dly = d]
      BY <1>7, <2>3 DEF OSTimeTick
    <3>2. d \in 0 .. MaxPend
      <4>1. thread.dly \in 0 .. MaxPend
        BY <1>0 DEF Threads
      <4> QED BY <1>t, <4>1
    <3> HIDE DEF d
    <3>3. thread' \in Threads /\ thread'.at = thread.at /\ thread'.msg = thread.msg /\ thread'.h = thread.h
      BY <1>0, <3>1, <3>2, Zenon DEF Threads
    <3>4. Locals
      BY <1>0, <3>3
    <3> QED BY <1>0, <1>g, <2>0, <2>1, <3>1, <3>3, <3>4
  <2>4. CASE thread.at = "wait" /\ thread.dly = 1
    <3>1. OSTime' = 0 /\ thread' = Working("expire", "none", "none")
      BY <1>7, <2>4 DEF OSTimeTick
    <3>2. thread' \in Threads /\ Locals
      BY <1>l, <1>p, <3>1
    <3> QED BY <1>0, <1>g, <1>t, <2>0, <3>1, <3>2
  <2> QED BY <1>7, <2>2, <2>3, <2>4 DEF OSTimeTick
<1>8. CASE tcpip_input
  <2>1. inpkts' = inpkts - 1 /\ inpkts > 0 /\ OSQPost("inpkt") /\ UNCHANGED <<tcpTimer, pcbs, OSTime, caller, apis, lost>>
    BY <1>8 DEF tcpip_input, timerVars
  <2>2. mbox' \in Seq(Message) /\ thread' \in Threads /\ Locals
    BY <2>1, PostShape DEF Message
  <2>3. inpkts' \in Nat
    BY <1>0, <2>1
  <2> QED BY <1>0, <1>g, <2>1, <2>2, <2>3
<1>9. CASE tcpip_callback
  <2>1. apis' = apis - 1 /\ apis > 0 /\ OSQPost("callback") /\ UNCHANGED <<tcpTimer, pcbs, OSTime, caller, inpkts, lost>>
    BY <1>9 DEF tcpip_callback, timerVars
  <2>2. mbox' \in Seq(Message) /\ thread' \in Threads /\ Locals
    BY <2>1, PostShape DEF Message
  <2>3. apis' \in Nat
    BY <1>0, <2>1
  <2> QED BY <1>0, <1>g, <2>1, <2>2, <2>3
<1>10. ASSUME NEW t \in Task, tcpip_apimsg(t) PROVE Goal
  <2>1. /\ caller' = [caller EXCEPT ![t] = [at |-> "post", tries |-> 0]]
        /\ UNCHANGED <<tcpTimer, pcbs, OSTime, mbox, thread, inpkts, apis, lost>>
    BY <1>10 DEF tcpip_apimsg, timerVars
  <2>2. 0 \in 0 .. PostTries
    BY <1>t
  <2>3. caller' \in [Task -> [at : {"idle", "post", "wait"}, tries : 0 .. PostTries]]
    BY <1>0, <2>1, <2>2, Zenon
  <2> QED BY <1>0, <1>g, <2>1, <2>3
<1>11. ASSUME NEW t \in Task, sys_mbox_post(t) PROVE Goal
  <2>0. UNCHANGED <<tcpTimer, pcbs, OSTime, inpkts, apis>>
    BY <1>11 DEF sys_mbox_post, timerVars
  <2>1. 0 \in 0 .. PostTries
    BY <1>t
  <2>2. CASE ~MboxFull
    <3>1. OSQPost(t) /\ caller' = [caller EXCEPT ![t] = [at |-> "wait", tries |-> 0]] /\ lost' = lost
      BY <1>11, <2>2 DEF sys_mbox_post
    <3>2. mbox' \in Seq(Message) /\ thread' \in Threads /\ Locals
      BY <3>1, PostShape DEF Message
    <3>3. caller' \in [Task -> [at : {"idle", "post", "wait"}, tries : 0 .. PostTries]]
      BY <1>0, <2>1, <3>1, Zenon
    <3> QED BY <1>0, <1>g, <2>0, <3>1, <3>2, <3>3
  <2>3. CASE MboxFull
    <3> DEFINE n == caller[t].tries + 1
    <3>1. /\ caller' = [caller EXCEPT ![t] = IF n < PostTries THEN [caller[t] EXCEPT !.tries = n]
                                            ELSE [at |-> "wait", tries |-> 0]]
          /\ lost' = (IF n < PostTries THEN lost ELSE lost \cup {t}) /\ mbox' = mbox /\ thread' = thread
      BY <1>11, <2>3 DEF sys_mbox_post
    <3>2. caller[t].tries \in 0 .. PostTries
      BY <1>0
    <3>3. n < PostTries => n \in 0 .. PostTries
      BY <1>t, <3>2
    <3> HIDE DEF n
    <3>4. caller' \in [Task -> [at : {"idle", "post", "wait"}, tries : 0 .. PostTries]]
      BY <1>0, <2>1, <3>1, <3>3, Zenon
    <3>5. lost' \subseteq Task
      BY <1>0, <3>1
    <3> QED BY <1>0, <1>g, <2>0, <3>1, <3>4, <3>5
  <2> QED BY <2>2, <2>3
<1>12. CASE TickStarts \/ TickStops
  <2>1. UNCHANGED <<tcpTimer, pcbs, OSTime, mbox, thread, caller, inpkts, apis, lost>>
    BY <1>12 DEF TickStarts, TickStops
  <2> QED BY <1>0, <1>g, <2>1
<1>13. CASE UNCHANGED untornVars
  <2>1. UNCHANGED <<tcpTimer, pcbs, OSTime, mbox, thread, caller, inpkts, apis, lost>>
    BY <1>13 DEF untornVars, timerVars
  <2> QED BY <1>0, <1>g, <2>1
<1> QED BY <1>1, <1>2, <1>3, <1>4, <1>5, <1>6, <1>7, <1>8, <1>9, <1>10, <1>11, <1>12, <1>13
        DEF ThreadSteps, StackThread

(* sys_timeout counts its handler once more while the pool has an element. *)
LEMMA TimeoutCounts ==
  ASSUME NEW s \in Lists, NEW h \in Handlers, Len(s) # TimeoutPool,
         NEW r, r = sys_timeout(s, h, Interval[h]), NEW x
  PROVE  Times(Calls(r), x) = Times(Calls(s), x) + One(h = x)
<1>1. Interval[h] \in Nat
  BY IntervalIs
<1>2. r \in Lists /\ \E p \in 1 .. Len(s) + 1 : Sets(r, s, h, Interval[h], p)
  BY ONLY <1>1, s \in Lists, h \in Handlers, Len(s) # TimeoutPool, r = sys_timeout(s, h, Interval[h]), TimeoutSets
<1>3. PICK p \in 1 .. Len(s) + 1 : Sets(r, s, h, Interval[h], p)
  BY <1>2
<1>4. Skips(s, r, p) /\ r[p].h = h
  BY <1>3 DEF Sets
<1>5. Times(Calls(r), x) = Times(Calls(s), x) + One(r[p].h = x)
  BY ONLY <1>2, <1>4, s \in Lists, CallsSkips
<1> QED BY <1>4, <1>5

(* sys_untimeout counts its handler at most once less, and no other.       *)
LEMMA UntimeoutCounts ==
  ASSUME NEW s \in Lists, NEW h, NEW r, r = sys_untimeout(s, h), NEW x
  PROVE  \/ Times(Calls(r), x) = Times(Calls(s), x)
         \/ Times(Calls(s), x) = Times(Calls(r), x) + One(h = x)
<1>1. \/ r = s /\ \A j \in 1 .. Len(s) : s[j].h # h
      \/ r \in Lists /\ \E pos \in 1 .. Len(s) : /\ Skips(r, s, pos) /\ s[pos].h = h
                                               /\ \A j \in 1 .. pos - 1 : s[j].h # h
  BY ONLY s \in Lists, r = sys_untimeout(s, h), UntimeoutSkips
<1>2. CASE r = s
  BY <1>2
<1>3. CASE r # s
  <2>1. r \in Lists
    BY <1>1, <1>3
  <2>2. PICK pos \in 1 .. Len(s) : Skips(r, s, pos) /\ s[pos].h = h
    BY <1>1, <1>3
  <2>3. Times(Calls(s), x) = Times(Calls(r), x) + One(s[pos].h = x)
    BY ONLY <2>1, <2>2, s \in Lists, CallsSkips
  <2> QED BY <2>2, <2>3
<1> QED BY <1>2, <1>3

(* One counts what holds once.                                             *)
LEMMA OneIs == \A b : One(b) \in {0, 1} /\ (b => One(b) = 1) /\ (~b => One(b) = 0)
BY DEF One

(* The pool has an element for the timeout of a handler that runs, and for *)
(* the TCP timer while it is not set.                                      *)
LEMMA Room ==
  ASSUME ListKept, ThreadShape, Timers, thread.h # "none" \/ tcpTimer = FALSE
  PROVE  Len(next_timeout) # TimeoutPool
<1> DEFINE s == next_timeout
           C == Len(CyclicTimers)
<1>1. s \in Lists /\ Len(s) \in Nat /\ DOMAIN Calls(s) = 1 .. Len(s)
      /\ \A pos \in 1 .. Len(s) : Calls(s)[pos] = s[pos].h /\ Calls(s)[pos] \in Handlers
  <2>1. s \in Lists
    BY DEF ListKept
  <2> QED BY <2>1, CallsFacts
<1>2. \A x : Times(Calls(s), x) \in Nat
  BY ONLY <1>1, CallsFacts
<1>3. C \in Nat /\ MaxTick \in Nat /\ TimeoutPool \in Nat /\ C + MaxTick + 2 <= TimeoutPool
  BY TcpipThreadAssumption, TimeoutPoolAssumption
<1>4. /\ \A h \in Cyclic : Times(Calls(s), h) + One(thread.h = h) = 1
      /\ Times(Calls(s), "tcp") + One(thread.h = "tcp") = One(tcpTimer)
      /\ Times(Calls(s), "tick") + One(thread.h = "tick") <= MaxTick + 1
  BY DEF Timers, Running
<1> HIDE DEF C
<1>5. CASE thread.h # "none"
  <2> DEFINE g == Calls(s) \o <<thread.h>>
  <2>1. /\ \A x : Times(g, x) = Times(Calls(s), x) + One(thread.h = x)
        /\ DOMAIN g = 1 .. Len(s) + 1 /\ g[Len(s) + 1] = thread.h
        /\ \A pos \in 1 .. Len(s) : g[pos] = s[pos].h
    BY ONLY <1>1, CallsAndOne
  <2> HIDE DEF g
  <2>2. thread.h \in Handlers
    BY <1>5 DEF ThreadShape
  <2>3. \A pos \in 1 .. Len(s) + 1 : g[pos] \in Handlers
    <3> TAKE pos \in 1 .. Len(s) + 1
    <3>1. pos \in 1 .. Len(s) \/ pos = Len(s) + 1
      BY <1>1
    <3> QED BY <1>1, <2>1, <2>2, <3>1
  <2>4. \A h \in Cyclic : Times(g, h) <= 1
    BY <1>4, <2>1
  <2>5. Len(s) + 1 \in Nat
    BY <1>1
  <2>6. Len(s) + 1 <= C + Times(g, "tcp") + Times(g, "tick")
    BY ONLY <2>1, <2>3, <2>4, <2>5, Accounted DEF C
  <2>7. Times(g, "tcp") = One(tcpTimer) /\ One(tcpTimer) \in {0, 1}
    BY <1>4, <2>1, OneIs
  <2>8. Times(g, "tick") <= MaxTick + 1 /\ Times(g, "tick") \in Nat
    <3>1. One(thread.h = "tick") \in {0, 1} /\ Times(Calls(s), "tick") \in Nat
      BY <1>2, OneIs
    <3> QED BY <1>4, <2>1, <3>1
  <2>9. Len(s) < TimeoutPool
    BY ONLY <1>1, <1>3, <2>6, <2>7, <2>8
  <2> QED BY <1>1, <1>3, <2>9
<1>6. CASE tcpTimer = FALSE
  <2> DEFINE g == Calls(s)
  <2>1. One(thread.h = "tcp") \in {0, 1} /\ One(thread.h = "tick") \in {0, 1} /\ One(tcpTimer) = 0
    BY <1>6, OneIs
  <2>2. Times(g, "tcp") = 0 /\ Times(g, "tick") <= MaxTick + 1
        /\ Times(g, "tcp") \in Nat /\ Times(g, "tick") \in Nat
    BY <1>2, <1>3, <1>4, <2>1
  <2>3. \A h \in Cyclic : Times(g, h) <= 1
    <3> TAKE h \in Cyclic
    <3>1. Times(g, h) \in Nat /\ One(thread.h = h) \in {0, 1} /\ Times(g, h) + One(thread.h = h) = 1
      BY <1>2, <1>4, OneIs
    <3> QED BY ONLY <3>1
  <2>4. Len(s) <= C + Times(g, "tcp") + Times(g, "tick")
    <3>1. Len(s) \in Nat /\ DOMAIN g = 1 .. Len(s) /\ \A pos \in 1 .. Len(s) : g[pos] \in Handlers
      BY <1>1
    <3> HIDE DEF g
    <3> QED BY ONLY <2>3, <3>1, Accounted DEF C
  <2>5. Len(s) < TimeoutPool
    BY ONLY <1>1, <1>3, <2>2, <2>4
  <2> QED BY <1>1, <1>3, <2>5
<1> QED BY <1>5, <1>6

(* Outside its handlers' calls the thread has no handler.                  *)
LEMMA TimersStep ==
  ASSUME ListKept, ThreadShape, Timers, [ThreadSteps]_untornVars
  PROVE  Timers'
<1> DEFINE s == next_timeout
           r == next_timeout'
           c(x) == Times(Calls(s), x)
           e(x) == Times(Calls(r), x)
           o(x) == One(thread.h = x)
           q(x) == One(thread'.h = x)
           Goal == Timers'
<1>0. /\ \A h \in Cyclic : c(h) + o(h) = 1
      /\ c("tcp") + o("tcp") = One(tcpTimer) /\ c("tick") + o("tick") <= MaxTick + 1
      /\ pcbs => tcpTimer
  BY DEF Timers, Running
<1>t. tcpTimer \in BOOLEAN /\ pcbs \in BOOLEAN /\ (thread.at = "call" <=> thread.h # "none")
      /\ thread.h \in Handlers \cup {"none"}
  BY DEF ThreadShape
<1>1. s \in Lists /\ \A x : c(x) \in Nat
  <2>1. s \in Lists
    BY DEF ListKept
  <2> QED BY ONLY <2>1, CallsFacts
<1>r. r \in Lists /\ \A x : e(x) \in Nat
  <2>1. r \in Lists
    BY StepsList
  <2>2. \A y : y \in Lists => \A x : Times(Calls(y), x) \in Nat
    BY CallsFacts
  <2> QED BY <2>1, <2>2
<1>o. \A x : o(x) \in {0, 1} /\ q(x) \in {0, 1}
  BY OneIs
<1>2. "none" \notin Cyclic /\ "tcp" # "none" /\ "tick" # "none" /\ "tcp" \notin Cyclic /\ "tick" \notin Cyclic
  BY TcpipThreadAssumption
<1>m. MaxTick \in Nat
  BY TcpipThreadAssumption
<1> SUFFICES Goal
  OBVIOUS
<1>g. ASSUME /\ \A h \in Cyclic : e(h) + q(h) = 1
             /\ e("tcp") + q("tcp") = One(tcpTimer') /\ e("tick") + q("tick") <= MaxTick + 1
             /\ pcbs' => tcpTimer'
      PROVE  Goal
  BY <1>g DEF Timers, Running
<1> HIDE DEF Goal
<1>k. ASSUME \A x : x # "none" => e(x) + q(x) = c(x) + o(x), tcpTimer' = tcpTimer, pcbs' => pcbs
      PROVE  Goal
  <2>1. /\ \A h \in Cyclic : e(h) + q(h) = 1
        /\ e("tcp") + q("tcp") = One(tcpTimer') /\ e("tick") + q("tick") <= MaxTick + 1
    <3> HIDE DEF c, e, o, q
    <3>1. \A h \in Cyclic : e(h) + q(h) = c(h) + o(h)
      BY <1>2, <1>k
    <3>2. e("tcp") + q("tcp") = c("tcp") + o("tcp") /\ e("tick") + q("tick") = c("tick") + o("tick")
      BY <1>2, <1>k
    <3> QED BY <1>0, <1>k, <3>1, <3>2
  <2> QED BY <1>0, <1>g, <1>k, <2>1
<1>u. ASSUME next_timeout' = next_timeout, thread'.h = thread.h, tcpTimer' = tcpTimer, pcbs' => pcbs
      PROVE  Goal
  BY <1>k, <1>u
<1>3. CASE FetchReturns
  <2>1. thread'.h = "none" /\ thread.h = "none" /\ tcpTimer' = tcpTimer /\ pcbs' = pcbs
    BY <1>3, <1>t DEF FetchReturns, Working
  <2>2. Calls(r) = Calls(s)
    <3>1. CASE s = <<>>
      BY <1>3, <3>1 DEF FetchReturns
    <3>2. CASE s # <<>>
      <4> DEFINE y == Told(thread.started, OSTime)
      <4>1. y \in Nat
        <5>1. thread.started \in 0 .. WordMod - 1 /\ OSTime \in 0 .. WordMod - 1
          BY DEF ThreadShape
        <5> QED BY ONLY <5>1, ToldIsNat
      <4>2. r = [s EXCEPT ![1].time = Max({0, @ - y})]
        BY <1>3, <3>2 DEF FetchReturns
      <4> HIDE DEF y
      <4>3. r \in Lists /\ \E m \in 0 .. Due(s, 1) : Sooner(r, s, m)
        BY ONLY <1>1, <3>2, <4>1, <4>2, WaitPasses
      <4>4. PICK m \in 0 .. Due(s, 1) : Sooner(r, s, m)
        BY <4>3
      <4> QED BY ONLY <1>1, <1>r, <4>4, CallsSooner
    <3> QED BY <3>1, <3>2
  <2> QED BY <1>k, <2>1, <2>2
<1>4. CASE Expires
  <2>1. s # <<>> /\ r = Tail(s) /\ thread.at = "expire" /\ thread'.h = s[1].h /\ tcpTimer' = tcpTimer /\ pcbs' = pcbs
    BY <1>4 DEF Expires, Working
  <2>2. r \in Lists /\ Rests(r, s)
    BY ONLY <1>1, <2>1, TailRests
  <2>3. \A x : c(x) = e(x) + One(s[1].h = x)
    BY ONLY <1>1, <2>2, CallsRests
  <2>4. thread.h = "none"
    BY <1>t, <2>1
  <2>5. \A x : x # "none" => e(x) + q(x) = c(x) + o(x)
    <3> SUFFICES ASSUME NEW x, x # "none" PROVE e(x) + q(x) = c(x) + o(x)
      OBVIOUS
    <3>1. o(x) = 0 /\ q(x) = One(s[1].h = x)
      BY <2>1, <2>4, OneIs
    <3>2. c(x) = e(x) + One(s[1].h = x) /\ c(x) \in Nat
      BY <1>1, <2>3
    <3> HIDE DEF c, e, o, q
    <3> QED BY <3>1, <3>2
  <2> QED BY <1>k, <2>1, <2>5
<1>5. CASE CallsHandler
  <2>1. thread.at = "call" /\ thread'.h = "none" /\ thread.h \in Handlers /\ thread.h # "none"
    BY <1>5, <1>t DEF CallsHandler, Working
  <2>2. Len(s) # TimeoutPool
    BY <2>1, Room
  <2>3. \A x : x # "none" => q(x) = 0
    BY <2>1, OneIs
  <2>4. ASSUME NEW h \in Handlers, h = thread.h, r = sys_timeout(s, h, Interval[h])
        PROVE  \A x : x # "none" => e(x) + q(x) = c(x) + o(x)
    <3> SUFFICES ASSUME NEW x, x # "none" PROVE e(x) + q(x) = c(x) + o(x)
      OBVIOUS
    <3>1. e(x) = c(x) + One(h = x)
      BY ONLY <1>1, <2>2, <2>4, TimeoutCounts
    <3>2. q(x) = 0 /\ o(x) = One(h = x) /\ c(x) \in Nat /\ o(x) \in {0, 1}
      BY <1>1, <1>o, <2>3, <2>4
    <3> HIDE DEF c, e, o, q
    <3> QED BY <3>1, <3>2
  <2>5. CASE thread.h = "tcp" /\ tcpip_tcp_timer
    <3>1. /\ pcbs' \in {pcbs, FALSE} /\ tcpTimer' = pcbs'
          /\ r = IF pcbs' THEN sys_timeout(s, "tcp", Interval["tcp"]) ELSE s
      BY <2>5 DEF tcpip_tcp_timer
    <3>2. CASE pcbs' = TRUE
      <4>1. \A x : x # "none" => e(x) + q(x) = c(x) + o(x)
        BY <2>4, <2>5, <3>1, <3>2, HandlerNames
      <4>2. tcpTimer' = tcpTimer /\ (pcbs' => pcbs)
        BY <1>0, <1>t, <3>1, <3>2, Zenon
      <4> QED BY <1>k, <4>1, <4>2
    <3>3. CASE pcbs' = FALSE
      <4>1. tcpTimer' = FALSE /\ r = s
        BY <3>1, <3>3
      <4>2. One(tcpTimer') = 0 /\ o("tcp") = 1 /\ One(tcpTimer) \in {0, 1}
        BY <2>5, <4>1, OneIs
      <4>3. \A x : e(x) = c(x)
        BY <4>1
      <4>4. \A h \in Cyclic : o(h) = 0 /\ q(h) = 0
        BY <1>2, <2>3, <2>5, OneIs
      <4>5. o("tick") = 0 /\ q("tick") = 0 /\ q("tcp") = 0
        BY <1>2, <2>3, <2>5, OneIs
      <4>6. e("tcp") + q("tcp") = One(tcpTimer')
        <5>1. c("tcp") \in Nat /\ e("tcp") = c("tcp")
          BY <1>1, <4>3
        <5> HIDE DEF c, e, o, q
        <5> QED BY <1>0, <4>2, <4>5, <5>1
      <4>7. e("tick") + q("tick") <= MaxTick + 1 /\ \A h \in Cyclic : e(h) + q(h) = 1
        <5> HIDE DEF c, e, o, q
        <5> QED BY <1>0, <4>3, <4>4, <4>5
      <4> QED BY <1>g, <3>3, <4>6, <4>7
    <3>4. pcbs' = TRUE \/ pcbs' = FALSE
      BY <1>t, <3>1, Zenon
    <3> QED BY <3>2, <3>3, <3>4
  <2>6. CASE thread.h # "tcp" /\ CyclicTimer(thread.h)
    BY <1>k, <2>1, <2>4, <2>6 DEF CyclicTimer
  <2>7. CASE thread.h = "tick" /\ UNCHANGED timerVars
    <3>1. r = s /\ tcpTimer' = tcpTimer /\ pcbs' = pcbs
      BY <2>7 DEF timerVars
    <3>2. \A x : e(x) = c(x)
      BY <3>1
    <3>3. \A h \in Cyclic : o(h) = 0 /\ q(h) = 0
      BY <1>2, <2>3, <2>7, OneIs
    <3>4. o("tcp") = 0 /\ q("tcp") = 0 /\ q("tick") = 0 /\ o("tick") = 1 /\ c("tick") \in Nat
      BY <1>1, <1>2, <2>3, <2>7, OneIs
    <3>5. e("tick") + q("tick") <= MaxTick + 1
      <4>1. e("tick") = c("tick")
        BY <3>2
      <4> HIDE DEF c, e, o, q
      <4> QED BY <1>0, <1>m, <3>4, <4>1
    <3>6. e("tcp") + q("tcp") = One(tcpTimer') /\ \A h \in Cyclic : e(h) + q(h) = 1
      <4> HIDE DEF c, e, o, q
      <4> QED BY <1>0, <3>1, <3>2, <3>3, <3>4
    <3> QED BY <1>0, <1>g, <3>1, <3>5, <3>6
  <2> QED BY <1>5, <2>5, <2>6, <2>7 DEF CallsHandler
<1>6. CASE tcpip_thread
  <2>1. thread'.h = "none" /\ thread.h = "none"
    BY <1>6, <1>t DEF tcpip_thread, Working
  <2>2. CASE pcbs' = TRUE /\ tcp_timer_needed
    <3>1. tcpTimer' = TRUE /\ r = IF tcpTimer THEN s ELSE sys_timeout(s, "tcp", Interval["tcp"])
      BY <2>2 DEF tcp_timer_needed
    <3>2. CASE tcpTimer = TRUE
      <4>1. r = s
        BY <3>1, <3>2
      <4>2. \A x : e(x) + q(x) = c(x) + o(x)
        BY <2>1, <4>1
      <4>3. e("tcp") + q("tcp") = One(tcpTimer')
        <5>1. tcpTimer' = tcpTimer
          BY <3>1, <3>2
        <5> HIDE DEF c, e, o, q
        <5> QED BY <1>0, <4>2, <5>1
      <4>4. e("tick") + q("tick") <= MaxTick + 1 /\ \A h \in Cyclic : e(h) + q(h) = 1
        <5> HIDE DEF c, e, o, q
        <5> QED BY <1>0, <4>2
      <4> QED BY <1>g, <3>1, <4>3, <4>4
    <3>3. CASE tcpTimer = FALSE
      <4>1. r = sys_timeout(s, "tcp", Interval["tcp"])
        BY <3>1, <3>3
      <4>2. Len(s) # TimeoutPool
        BY <3>3, Room
      <4>3. "tcp" \in Handlers
        BY HandlerNames
      <4>4. \A x : e(x) = c(x) + One("tcp" = x)
        BY ONLY <1>1, <4>1, <4>2, <4>3, TimeoutCounts
      <4>5. \A x : x # "none" => o(x) = 0 /\ q(x) = 0
        BY <2>1, OneIs
      <4>6. e("tcp") + q("tcp") = One(tcpTimer')
        <5>1. One(tcpTimer') = 1 /\ One(tcpTimer) = 0 /\ e("tcp") = c("tcp") + 1 /\ c("tcp") \in Nat
          BY <1>1, <3>1, <3>3, <4>4, OneIs
        <5>2. o("tcp") = 0 /\ q("tcp") = 0
          BY <1>2, <4>5
        <5> HIDE DEF c, e, o, q
        <5> QED BY <1>0, <5>1, <5>2
      <4>7. \A h \in Cyclic : e(h) = c(h) /\ q(h) = o(h)
        <5> TAKE h \in Cyclic
        <5>1. h # "none" /\ One("tcp" = h) = 0 /\ c(h) \in Nat
          BY <1>1, <1>2, OneIs
        <5>2. e(h) = c(h) + One("tcp" = h) /\ q(h) = o(h)
          BY <4>4, <4>5, <5>1
        <5> HIDE DEF c, e, o, q
        <5> QED BY <5>1, <5>2
      <4>8. e("tick") = c("tick") /\ q("tick") = o("tick")
        <5>1. One("tcp" = "tick") = 0 /\ c("tick") \in Nat
          BY <1>1, OneIs
        <5>2. e("tick") = c("tick") + One("tcp" = "tick") /\ q("tick") = o("tick")
          BY <1>2, <4>4, <4>5
        <5> HIDE DEF c, e, o, q
        <5> QED BY <5>1, <5>2
      <4>9. e("tick") + q("tick") <= MaxTick + 1 /\ \A h \in Cyclic : e(h) + q(h) = 1
        <5> HIDE DEF c, e, o, q
        <5> QED BY <1>0, <4>7, <4>8
      <4> QED BY <1>g, <3>1, <4>6, <4>9
    <3> QED BY <1>t, <3>2, <3>3
  <2>3. CASE pcbs' \in {pcbs, FALSE} /\ UNCHANGED <<tcpTimer, next_timeout>>
    <3>1. pcbs' => pcbs
      BY <2>3, Zenon
    <3> QED BY <1>u, <2>1, <2>3, <3>1
  <2>4. CASE UNCHANGED timerVars
    BY <1>u, <2>1, <2>4 DEF timerVars
  <2> QED BY <1>6, <2>2, <2>3, <2>4 DEF tcpip_thread, Connections
<1>7. CASE TickStarts
  <2>1. /\ Cardinality({pos \in DOMAIN s : s[pos].h = "tick"}) < MaxTick
        /\ r = sys_timeout(s, "tick", Interval["tick"])
        /\ UNCHANGED <<tcpTimer, pcbs, thread>>
    BY <1>7 DEF TickStarts
  <2>2. c("tick") < MaxTick
    <3>1. {pos \in DOMAIN Calls(s) : Calls(s)[pos] = "tick"} = {pos \in DOMAIN s : s[pos].h = "tick"}
      BY DEF Calls
    <3> QED BY <2>1, <3>1 DEF Times
  <2>3. CASE Len(s) = TimeoutPool
    <3>1. r = s
      BY <2>1, <2>3 DEF sys_timeout
    <3> QED BY <1>u, <2>1, <3>1
  <2>4. CASE Len(s) # TimeoutPool
    <3>1. "tick" \in Handlers
      BY HandlerNames
    <3>2. \A x : e(x) = c(x) + One("tick" = x)
      <4>1. r = sys_timeout(s, "tick", Interval["tick"])
        BY <2>1
      <4> QED BY ONLY <1>1, <2>4, <3>1, <4>1, TimeoutCounts
    <3>3. \A x : q(x) = o(x)
      BY <2>1
    <3>4. e("tick") + q("tick") <= MaxTick + 1
      <4>0. One("tick" = "tick") = 1
        BY OneIs
      <4>1. e("tick") = c("tick") + One("tick" = "tick") /\ q("tick") \in {0, 1} /\ c("tick") \in Nat
        BY <1>1, <1>o, <3>2
      <4> HIDE DEF c, e, o, q
      <4> QED BY <1>m, <2>2, <4>0, <4>1
    <3>5. \A h \in Cyclic : e(h) = c(h)
      <4> TAKE h \in Cyclic
      <4>1. One("tick" = h) = 0 /\ c(h) \in Nat
        BY <1>1, <1>2, OneIs
      <4>2. e(h) = c(h) + One("tick" = h)
        BY <3>2
      <4> HIDE DEF c, e, o, q
      <4> QED BY <4>1, <4>2
    <3>6. e("tcp") = c("tcp")
      <4>1. One("tick" = "tcp") = 0 /\ c("tcp") \in Nat
        BY <1>1, OneIs
      <4>2. e("tcp") = c("tcp") + One("tick" = "tcp")
        BY <3>2
      <4> HIDE DEF c, e, o, q
      <4> QED BY <4>1, <4>2
    <3>7. e("tcp") + q("tcp") = One(tcpTimer') /\ \A h \in Cyclic : e(h) + q(h) = 1
      <4>1. tcpTimer' = tcpTimer
        BY <2>1
      <4> HIDE DEF c, e, o, q
      <4> QED BY <1>0, <3>3, <3>5, <3>6, <4>1
    <3> QED BY <1>0, <1>g, <2>1, <3>4, <3>7
  <2> QED BY <2>3, <2>4
<1>8. CASE TickStops
  <2>1. r = sys_untimeout(s, "tick") /\ UNCHANGED <<tcpTimer, pcbs, thread>>
    BY <1>8 DEF TickStops
  <2>2. \A x : e(x) = c(x) \/ c(x) = e(x) + One("tick" = x)
    BY ONLY <1>1, <2>1, UntimeoutCounts
  <2>3. \A x : q(x) = o(x)
    BY <2>1
  <2>4. \A h \in Cyclic : e(h) = c(h)
    <3> TAKE h \in Cyclic
    <3>1. One("tick" = h) = 0 /\ e(h) \in Nat
      BY <1>r, <1>2, OneIs
    <3>2. e(h) = c(h) \/ c(h) = e(h) + One("tick" = h)
      BY <2>2
    <3> HIDE DEF c, e, o, q
    <3> QED BY <3>1, <3>2
  <2>5. e("tcp") = c("tcp")
    <3>1. One("tick" = "tcp") = 0 /\ e("tcp") \in Nat
      BY <1>r, OneIs
    <3>2. e("tcp") = c("tcp") \/ c("tcp") = e("tcp") + One("tick" = "tcp")
      BY <2>2
    <3> HIDE DEF c, e, o, q
    <3> QED BY <3>1, <3>2
  <2>6. e("tick") + q("tick") <= MaxTick + 1
    <3>1. One("tick" = "tick") = 1 /\ e("tick") \in Nat /\ q("tick") = o("tick") /\ o("tick") \in {0, 1}
      BY <1>r, <1>o, <2>3, OneIs
    <3>2. e("tick") = c("tick") \/ c("tick") = e("tick") + One("tick" = "tick")
      BY <2>2
    <3> HIDE DEF c, e, o, q
    <3> QED BY <1>0, <1>m, <3>1, <3>2
  <2>7. e("tcp") + q("tcp") = One(tcpTimer') /\ \A h \in Cyclic : e(h) + q(h) = 1
    <3>1. tcpTimer' = tcpTimer
      BY <2>1
    <3> HIDE DEF c, e, o, q
    <3> QED BY <1>0, <2>3, <2>4, <2>5, <3>1
  <2> QED BY <1>0, <1>g, <2>1, <2>6, <2>7
<1>9. CASE FetchStarts
  <2>1. UNCHANGED <<next_timeout, tcpTimer, pcbs>> /\ thread.at = "again"
    BY <1>9 DEF FetchStarts, timerVars
  <2>2. \/ thread' = Working("expire", "none", "none")
        \/ \E x, y : thread' = [Working("pend", "none", "none") EXCEPT !.started = x, !.dly = y]
    BY <1>9, Zenon DEF FetchStarts
  <2>3. thread'.h = "none"
    <3>1. CASE thread' = Working("expire", "none", "none")
      BY <3>1 DEF Working
    <3>2. CASE \E x, y : thread' = [Working("pend", "none", "none") EXCEPT !.started = x, !.dly = y]
      <4>1. PICK x, y : thread' = [Working("pend", "none", "none") EXCEPT !.started = x, !.dly = y]
        BY <3>2
      <4> QED BY <4>1 DEF Working
    <3> QED BY <2>2, <3>1, <3>2
  <2> QED BY <1>t, <1>u, <2>1, <2>3
<1>10. CASE OSQPend
  <2>1. UNCHANGED <<next_timeout, tcpTimer, pcbs>> /\ thread'.h = thread.h
    BY <1>10 DEF OSQPend, timerVars, ThreadShape
  <2> QED BY <1>u, <2>1
<1>11. CASE OSTimeTick
  <2>1. UNCHANGED <<next_timeout, tcpTimer, pcbs>>
    BY <1>11 DEF OSTimeTick, timerVars
  <2>2. thread'.h = thread.h
    BY <1>11, <1>t DEF OSTimeTick, Working, ThreadShape
  <2> QED BY <1>u, <2>1, <2>2
<1>p. ASSUME NEW m, OSQPost(m) PROVE thread'.h = thread.h
  BY <1>p DEF OSQPost, ThreadShape
<1>12. CASE tcpip_input \/ tcpip_callback
  BY <1>p, <1>u, <1>12 DEF tcpip_input, tcpip_callback, timerVars
<1>13. CASE \E t \in Task : tcpip_apimsg(t) \/ sys_mbox_post(t)
  BY <1>p, <1>u, <1>13 DEF tcpip_apimsg, sys_mbox_post, timerVars
<1>14. CASE UNCHANGED untornVars
  BY <1>u, <1>14 DEF untornVars, timerVars
<1> QED BY <1>3, <1>4, <1>5, <1>6, <1>7, <1>8, <1>9, <1>10, <1>11, <1>12, <1>13, <1>14
        DEF ThreadSteps, StackThread

(* The messages of the mailbox can be counted.                             *)
LEMMA MboxCounts ==
  ASSUME NEW b \in Seq(Message), NEW x
  PROVE  Times(b, x) \in Nat
<1>1. Len(b) \in Nat /\ DOMAIN b = 1 .. Len(b)
  OBVIOUS
<1> QED BY ONLY <1>1, TimesIsNat

(* A message that is put into the mailbox is counted once more.            *)
LEMMA AppendCounts ==
  ASSUME NEW b \in Seq(Message), NEW m \in Message, NEW x
  PROVE  Times(Append(b, m), x) = Times(b, x) + One(m = x)
<1> DEFINE a == Append(b, m)
           p == Len(b) + 1
<1>1. Drops(b, a, p, Len(b)) /\ a[p] = m /\ Len(b) \in Nat
  BY ONLY b \in Seq(Message), m \in Message, AppendDrops
<1> HIDE DEF a, p
<1>2. Times(a, x) = Times(b, x) + (IF a[p] = x THEN 1 ELSE 0)
  BY ONLY <1>1, TimesDrops
<1>3. Times(a, x) = Times(b, x) + One(m = x)
  BY ONLY <1>1, <1>2 DEF One
<1> QED BY <1>3 DEF a

(* A message that is taken from the mailbox is counted once less.          *)
LEMMA TailCounts ==
  ASSUME NEW b \in Seq(Message), b # <<>>, NEW x
  PROVE  Times(b, x) = Times(Tail(b), x) + One(Head(b) = x)
<1>1. Drops(Tail(b), b, 1, Len(b) - 1) /\ b[1] = Head(b) /\ Len(b) - 1 \in Nat
  BY ONLY b \in Seq(Message), b # <<>>, TailDrops
<1>2. Times(b, x) = Times(Tail(b), x) + (IF b[1] = x THEN 1 ELSE 0)
  BY ONLY <1>1, TimesDrops
<1> QED BY ONLY <1>1, <1>2 DEF One

(* A post brings its message, and no other.                                *)
LEMMA PostCounts ==
  ASSUME ThreadShape, NEW m \in Message, OSQPost(m), NEW x, x # "none"
  PROVE  Times(mbox', x) + One(thread'.msg = x) = Underway(x) + One(m = x)
<1>1. mbox \in Seq(Message) /\ (thread.at \in {"got", "handle"} <=> thread.msg # "none")
  BY DEF ThreadShape
<1>2. Times(mbox, x) \in Nat /\ One(thread.msg = x) \in {0, 1} /\ One(m = x) \in {0, 1}
  BY <1>1, MboxCounts, OneIs
<1>3. CASE thread.at = "wait"
  <2>1. mbox' = mbox /\ thread'.msg = m
    BY <1>3 DEF OSQPost, ThreadShape
  <2>2. One(thread.msg = x) = 0
    BY <1>1, <1>3, OneIs
  <2>3. Times(mbox', x) = Times(mbox, x) /\ One(thread'.msg = x) = One(m = x)
    BY <2>1
  <2> QED BY <1>2, <2>2, <2>3 DEF Underway
<1>4. CASE thread.at # "wait"
  <2>1. mbox' = Append(mbox, m) /\ thread' = thread
    BY <1>4 DEF OSQPost
  <2>2. Times(mbox', x) = Times(mbox, x) + One(m = x) /\ One(thread'.msg = x) = One(thread.msg = x)
    BY <1>1, <2>1, AppendCounts
  <2> QED BY <1>2, <2>2 DEF Underway
<1> QED BY <1>3, <1>4

(* No step loses a message or makes one twice: what tcpip_input and        *)
(* tcpip_callback take from their pools is under way until tcpip_thread    *)
(* gives it back, and so is the message of each task that waits, unless    *)
(* sys_mbox_post gave up.                                                  *)
LEMMA MessagesStep ==
  ASSUME ListKept, ThreadShape, Messages, [ThreadSteps]_untornVars
  PROVE  Messages'
<1> DEFINE U(x) == Underway(x)
           V(x) == Times(mbox', x) + One(thread'.msg = x)
           W(t) == One(caller[t].at = "wait" /\ t \notin lost)
           X(t) == One(caller'[t].at = "wait" /\ t \notin lost')
           Goal == Messages'
<1>0. /\ inpkts + U("inpkt") = InpktPool /\ apis + U("callback") = ApiPool
      /\ \A t \in Task : U(t) = W(t)
      /\ \A t \in lost : caller[t].at = "wait"
  BY DEF Messages
<1>t. /\ mbox \in Seq(Message) /\ inpkts \in Nat /\ apis \in Nat /\ lost \subseteq Task
      /\ thread.msg \in Message \cup {"none"}
      /\ caller \in [Task -> [at : {"idle", "post", "wait"}, tries : 0 .. PostTries]]
      /\ (thread.at \in {"got", "handle"} <=> thread.msg # "none")
  BY DEF ThreadShape
<1>1. \A x : U(x) \in Nat
  <2> SUFFICES ASSUME NEW x PROVE U(x) \in Nat
    OBVIOUS
  <2>1. Times(mbox, x) \in Nat /\ One(thread.msg = x) \in {0, 1}
    BY <1>t, MboxCounts, OneIs
  <2> QED BY <2>1 DEF Underway
<1>n. /\ "inpkt" # "none" /\ "callback" # "none" /\ "none" \notin Task
      /\ "inpkt" \notin Task /\ "callback" \notin Task
  BY TcpipThreadAssumption
<1> SUFFICES Goal
  OBVIOUS
<1>g. ASSUME /\ inpkts' + V("inpkt") = InpktPool /\ apis' + V("callback") = ApiPool
             /\ \A t \in Task : V(t) = X(t)
             /\ \A t \in lost' : caller'[t].at = "wait"
      PROVE  Goal
  BY <1>g DEF Messages, Underway
<1> HIDE DEF Goal
<1>k. ASSUME \A x : x # "none" => V(x) = U(x), UNCHANGED <<caller, inpkts, apis, lost>>
      PROVE  Goal
  <2>1. \A t \in Task : X(t) = W(t) /\ V(t) = U(t)
    BY <1>k, <1>n
  <2>2. V("inpkt") = U("inpkt") /\ V("callback") = U("callback")
    BY <1>k, <1>n
  <2> HIDE DEF U, V, W, X
  <2> QED BY <1>0, <1>g, <1>k, <2>1, <2>2
<1>u. ASSUME mbox' = mbox, thread'.msg = thread.msg, UNCHANGED <<caller, inpkts, apis, lost>>
      PROVE  Goal
  <2>1. \A x : V(x) = U(x)
    BY <1>u DEF Underway
  <2> QED BY <1>k, <1>u, <2>1
<1>2. CASE FetchStarts
  <2>1. UNCHANGED <<mbox, caller, inpkts, apis, lost>> /\ thread.at = "again"
    BY <1>2 DEF FetchStarts
  <2>2. thread'.msg = "none"
    <3>1. CASE thread' = Working("expire", "none", "none")
      BY <3>1 DEF Working
    <3>2. CASE \E x, y : thread' = [Working("pend", "none", "none") EXCEPT !.started = x, !.dly = y]
      <4>1. PICK x, y : thread' = [Working("pend", "none", "none") EXCEPT !.started = x, !.dly = y]
        BY <3>2
      <4> QED BY <4>1 DEF Working
    <3>3. \/ thread' = Working("expire", "none", "none")
          \/ \E x, y : thread' = [Working("pend", "none", "none") EXCEPT !.started = x, !.dly = y]
      BY <1>2, Zenon DEF FetchStarts
    <3> QED BY <3>1, <3>2, <3>3
  <2>3. thread'.msg = thread.msg
    BY <1>t, <2>1, <2>2
  <2> QED BY <1>u, <2>1, <2>3
<1>3. CASE OSQPend
  <2>1. UNCHANGED <<caller, inpkts, apis, lost>> /\ thread.at = "pend"
    BY <1>3 DEF OSQPend
  <2>2. CASE mbox = <<>>
    <3>1. mbox' = mbox /\ thread'.msg = thread.msg
      BY <1>3, <2>2 DEF OSQPend, ThreadShape
    <3> QED BY <1>u, <2>1, <3>1
  <2>3. CASE mbox # <<>>
    <3>1. mbox' = Tail(mbox) /\ thread'.msg = Head(mbox)
      BY <1>3, <2>3 DEF OSQPend, ThreadShape
    <3>2. \A x : x # "none" => V(x) = U(x)
      <4> SUFFICES ASSUME NEW x, x # "none" PROVE V(x) = U(x)
        OBVIOUS
      <4>1. Times(mbox, x) = Times(Tail(mbox), x) + One(Head(mbox) = x) /\ Times(mbox, x) \in Nat
        BY <1>t, <2>3, TailCounts, MboxCounts
      <4>2. One(thread.msg = x) = 0
        BY <1>t, <2>1, OneIs
      <4>3. V(x) = Times(Tail(mbox), x) + One(Head(mbox) = x)
        BY <3>1
      <4> QED BY <4>1, <4>2, <4>3 DEF Underway
    <3> QED BY <1>k, <2>1, <3>2
  <2> QED BY <2>2, <2>3
<1>4. CASE FetchReturns
  <2>1. mbox' = mbox /\ thread'.msg = thread.msg /\ UNCHANGED <<caller, inpkts, apis, lost>>
    BY <1>4 DEF FetchReturns, Working
  <2> QED BY <1>u, <2>1
<1>5. CASE Expires
  <2>1. mbox' = mbox /\ thread'.msg = "none" /\ thread.at = "expire" /\ UNCHANGED <<caller, inpkts, apis, lost>>
    BY <1>5 DEF Expires, Working
  <2>2. thread'.msg = thread.msg
    BY <1>t, <2>1
  <2> QED BY <1>u, <2>1, <2>2
<1>6. CASE CallsHandler
  <2>1. mbox' = mbox /\ thread'.msg = "none" /\ thread.at = "call" /\ UNCHANGED <<caller, inpkts, apis, lost>>
    BY <1>6 DEF CallsHandler, Working
  <2>2. thread'.msg = thread.msg
    BY <1>t, <2>1
  <2> QED BY <1>u, <2>1, <2>2
<1>7. CASE tcpip_thread
  <2>1. mbox' = mbox /\ thread'.msg = "none" /\ lost' = lost
    BY <1>7 DEF tcpip_thread, Working
  <2>2. \A x : x # "none" => V(x) + One(thread.msg = x) = U(x) /\ V(x) \in Nat
    <3> SUFFICES ASSUME NEW x, x # "none" PROVE V(x) + One(thread.msg = x) = U(x) /\ V(x) \in Nat
      OBVIOUS
    <3>1. One(thread'.msg = x) = 0 /\ Times(mbox, x) \in Nat /\ One(thread.msg = x) \in {0, 1}
      BY <1>t, <2>1, MboxCounts, OneIs
    <3>2. V(x) = Times(mbox, x) + One(thread'.msg = x)
      BY <2>1
    <3> HIDE DEF V
    <3> QED BY <3>1, <3>2 DEF Underway
  <2>3. CASE thread.msg \in Task /\ caller' = [caller EXCEPT ![thread.msg].at = "idle"] /\ UNCHANGED <<inpkts, apis>>
    <3> DEFINE m == thread.msg
    <3>1. caller'[m].at = "idle" /\ \A t \in Task : t # m => caller'[t] = caller[t]
      BY <1>t, <2>3
    <3>2. One(thread.msg = "inpkt") = 0 /\ One(thread.msg = "callback") = 0
      BY <1>n, <2>3, OneIs
    <3>3. V("inpkt") = U("inpkt") /\ V("callback") = U("callback")
      <4>1. V("inpkt") + One(thread.msg = "inpkt") = U("inpkt") /\ V("inpkt") \in Nat
            /\ V("callback") + One(thread.msg = "callback") = U("callback") /\ V("callback") \in Nat
        BY <1>n, <2>2
      <4> HIDE DEF U, V
      <4> QED BY <3>2, <4>1
    <3>4. V(m) + 1 = U(m) /\ U(m) = W(m) /\ V(m) \in Nat
      <4>1. V(m) + One(thread.msg = m) = U(m) /\ V(m) \in Nat
        BY <1>n, <2>2, <2>3
      <4>2. One(thread.msg = m) = 1
        BY OneIs
      <4> HIDE DEF U, V, W
      <4> QED BY <1>0, <2>3, <4>1, <4>2
    <3>5. m \notin lost /\ V(m) = 0
      <4>1. W(m) \in {0, 1} /\ (m \in lost => W(m) = 0)
        BY OneIs
      <4> HIDE DEF U, V, W
      <4> QED BY <3>4, <4>1
    <3>6. \A t \in Task : V(t) = X(t)
      <4> TAKE t \in Task
      <4>1. CASE t = m
        <5>1. X(t) = 0
          BY <3>1, <4>1, OneIs
        <5> QED BY <3>5, <4>1, <5>1
      <4>2. CASE t # m
        <5>1. X(t) = W(t) /\ One(thread.msg = t) = 0
          BY <2>1, <3>1, <4>2, OneIs
        <5>2. V(t) + One(thread.msg = t) = U(t) /\ V(t) \in Nat /\ U(t) = W(t)
          BY <1>0, <1>n, <2>2
        <5> HIDE DEF U, V, W, X
        <5> QED BY <5>1, <5>2
      <4> QED BY <4>1, <4>2
    <3>7. \A t \in lost' : caller'[t].at = "wait"
      BY <1>0, <1>t, <2>1, <3>1, <3>5
    <3>8. inpkts' + V("inpkt") = InpktPool /\ apis' + V("callback") = ApiPool
      <4>1. inpkts' = inpkts /\ apis' = apis
        BY <2>3
      <4> HIDE DEF U, V
      <4> QED BY <1>0, <3>3, <4>1
    <3> QED BY <1>g, <3>6, <3>7, <3>8
  <2>c. ASSUME thread.msg \notin Task, caller' = caller
        PROVE  /\ \A t \in Task : V(t) = X(t)
               /\ \A t \in lost' : caller'[t].at = "wait"
    <3>1. \A t \in Task : V(t) = X(t)
      <4> TAKE t \in Task
      <4>1. X(t) = W(t) /\ One(thread.msg = t) = 0
        BY <2>1, <2>c, OneIs
      <4>2. V(t) + One(thread.msg = t) = U(t) /\ V(t) \in Nat /\ U(t) = W(t)
        BY <1>0, <1>n, <2>2
      <4> HIDE DEF U, V, W, X
      <4> QED BY <4>1, <4>2
    <3> QED BY <1>0, <2>1, <2>c, <3>1
  <2>4. CASE thread.msg = "inpkt" /\ inpkts' = inpkts + 1 /\ UNCHANGED <<caller, apis>>
    <3>1. One(thread.msg = "inpkt") = 1 /\ One(thread.msg = "callback") = 0
      BY <2>4, OneIs
    <3>2. V("inpkt") + One(thread.msg = "inpkt") = U("inpkt") /\ V("inpkt") \in Nat
          /\ V("callback") + One(thread.msg = "callback") = U("callback") /\ V("callback") \in Nat
      BY <1>n, <2>2
    <3>3. inpkts' + V("inpkt") = InpktPool /\ apis' + V("callback") = ApiPool
      <4>1. inpkts' = inpkts + 1 /\ apis' = apis
        BY <2>4
      <4> HIDE DEF U, V
      <4> QED BY <1>0, <1>t, <3>1, <3>2, <4>1
    <3> QED BY <1>g, <1>n, <2>4, <2>c, <3>3
  <2>5. CASE thread.msg = "callback" /\ apis' = apis + 1 /\ UNCHANGED <<caller, inpkts>>
    <3>1. One(thread.msg = "inpkt") = 0 /\ One(thread.msg = "callback") = 1
      BY <2>5, OneIs
    <3>2. V("inpkt") + One(thread.msg = "inpkt") = U("inpkt") /\ V("inpkt") \in Nat
          /\ V("callback") + One(thread.msg = "callback") = U("callback") /\ V("callback") \in Nat
      BY <1>n, <2>2
    <3>3. inpkts' + V("inpkt") = InpktPool /\ apis' + V("callback") = ApiPool
      <4>1. inpkts' = inpkts /\ apis' = apis + 1
        BY <2>5
      <4> HIDE DEF U, V
      <4> QED BY <1>0, <1>t, <3>1, <3>2, <4>1
    <3> QED BY <1>g, <1>n, <2>5, <2>c, <3>3
  <2> QED BY <1>7, <2>3, <2>4, <2>5 DEF tcpip_thread
<1>8. CASE OSTimeTick
  <2>1. UNCHANGED <<mbox, caller, inpkts, apis, lost>>
    BY <1>8 DEF OSTimeTick
  <2>2. thread'.msg = thread.msg
    BY <1>8, <1>t DEF OSTimeTick, Working, ThreadShape
  <2> QED BY <1>u, <2>1, <2>2
<1>9. CASE tcpip_input
  <2>1. inpkts > 0 /\ inpkts' = inpkts - 1 /\ OSQPost("inpkt") /\ UNCHANGED <<caller, apis, lost>>
    BY <1>9 DEF tcpip_input
  <2>2. \A x : x # "none" => V(x) = U(x) + One("inpkt" = x)
    BY <2>1, PostCounts DEF Message
  <2>3. One("inpkt" = "inpkt") = 1 /\ One("inpkt" = "callback") = 0 /\ \A t \in Task : One("inpkt" = t) = 0
    BY <1>n, OneIs
  <2>4. inpkts' + V("inpkt") = InpktPool /\ apis' + V("callback") = ApiPool
    <3>1. /\ V("inpkt") = U("inpkt") + One("inpkt" = "inpkt") /\ U("inpkt") \in Nat
          /\ V("callback") = U("callback") + One("inpkt" = "callback") /\ U("callback") \in Nat
      BY <1>1, <1>n, <2>2
    <3> HIDE DEF U, V
    <3> QED BY <1>0, <1>t, <2>1, <2>3, <3>1
  <2>5. \A t \in Task : V(t) = X(t)
    <3> TAKE t \in Task
    <3>1. X(t) = W(t) /\ V(t) = U(t) + One("inpkt" = t) /\ U(t) \in Nat /\ U(t) = W(t)
      BY <1>0, <1>1, <1>n, <2>1, <2>2
    <3> HIDE DEF U, V, W, X
    <3> QED BY <2>3, <3>1
  <2> QED BY <1>0, <1>g, <2>1, <2>4, <2>5
<1>10. CASE tcpip_callback
  <2>1. apis > 0 /\ apis' = apis - 1 /\ OSQPost("callback") /\ UNCHANGED <<caller, inpkts, lost>>
    BY <1>10 DEF tcpip_callback
  <2>2. \A x : x # "none" => V(x) = U(x) + One("callback" = x)
    BY <2>1, PostCounts DEF Message
  <2>3. One("callback" = "callback") = 1 /\ One("callback" = "inpkt") = 0 /\ \A t \in Task : One("callback" = t) = 0
    BY <1>n, OneIs
  <2>4. inpkts' + V("inpkt") = InpktPool /\ apis' + V("callback") = ApiPool
    <3>1. /\ V("inpkt") = U("inpkt") + One("callback" = "inpkt") /\ U("inpkt") \in Nat
          /\ V("callback") = U("callback") + One("callback" = "callback") /\ U("callback") \in Nat
      BY <1>1, <1>n, <2>2
    <3> HIDE DEF U, V
    <3> QED BY <1>0, <1>t, <2>1, <2>3, <3>1
  <2>5. \A t \in Task : V(t) = X(t)
    <3> TAKE t \in Task
    <3>1. X(t) = W(t) /\ V(t) = U(t) + One("callback" = t) /\ U(t) \in Nat /\ U(t) = W(t)
      BY <1>0, <1>1, <1>n, <2>1, <2>2
    <3> HIDE DEF U, V, W, X
    <3> QED BY <2>3, <3>1
  <2> QED BY <1>0, <1>g, <2>1, <2>4, <2>5
<1>11. ASSUME NEW t \in Task, tcpip_apimsg(t) PROVE Goal
  <2>1. /\ caller[t].at = "idle" /\ caller' = [caller EXCEPT ![t] = [at |-> "post", tries |-> 0]]
        /\ UNCHANGED <<mbox, thread, inpkts, apis, lost>>
    BY <1>11 DEF tcpip_apimsg
  <2>2. caller'[t].at = "post" /\ \A y \in Task : y # t => caller'[y] = caller[y]
    BY <1>t, <2>1
  <2>3. t \notin lost
    BY <1>0, <2>1
  <2>4. \A x : V(x) = U(x)
    BY <2>1 DEF Underway
  <2>5. \A y \in Task : X(y) = W(y)
    <3> TAKE y \in Task
    <3>1. CASE y = t
      BY <2>1, <2>2, <3>1, OneIs
    <3>2. CASE y # t
      BY <2>1, <2>2, <3>2
    <3> QED BY <3>1, <3>2
  <2>6. \A y \in lost' : caller'[y].at = "wait"
    BY <1>0, <1>t, <2>1, <2>2, <2>3
  <2>7. /\ inpkts' + V("inpkt") = InpktPool /\ apis' + V("callback") = ApiPool
        /\ \A y \in Task : V(y) = X(y)
    <3> HIDE DEF U, V, W, X
    <3> QED BY <1>0, <2>1, <2>4, <2>5
  <2> QED BY <1>g, <2>6, <2>7
<1>12. ASSUME NEW t \in Task, sys_mbox_post(t) PROVE Goal
  <2>1. caller[t].at = "post" /\ UNCHANGED <<inpkts, apis>>
    BY <1>12 DEF sys_mbox_post
  <2>2. t \notin lost /\ W(t) = 0
    BY <1>0, <2>1, OneIs
  <2>3. CASE ~MboxFull
    <3>1. OSQPost(t) /\ caller' = [caller EXCEPT ![t] = [at |-> "wait", tries |-> 0]] /\ lost' = lost
      BY <1>12, <2>3 DEF sys_mbox_post
    <3>2. \A x : x # "none" => V(x) = U(x) + One(t = x)
      BY <3>1, PostCounts DEF Message
    <3>3. caller'[t].at = "wait" /\ \A y \in Task : y # t => caller'[y] = caller[y]
      BY <1>t, <3>1
    <3>4. \A y \in Task : V(y) = X(y)
      <4> TAKE y \in Task
      <4>0. V(y) = U(y) + One(t = y) /\ U(y) \in Nat /\ U(y) = W(y)
        BY <1>0, <1>1, <1>n, <3>2
      <4>1. CASE y = t
        <5>1. X(y) = 1 /\ One(t = y) = 1 /\ W(y) = 0
          BY <2>2, <3>1, <3>3, <4>1, OneIs
        <5> HIDE DEF U, V, W, X
        <5> QED BY <4>0, <5>1
      <4>2. CASE y # t
        <5>1. X(y) = W(y) /\ One(t = y) = 0
          BY <3>1, <3>3, <4>2, OneIs
        <5> HIDE DEF U, V, W, X
        <5> QED BY <4>0, <5>1
      <4> QED BY <4>1, <4>2
    <3>5. inpkts' + V("inpkt") = InpktPool /\ apis' + V("callback") = ApiPool
      <4>1. One(t = "inpkt") = 0 /\ One(t = "callback") = 0
        BY <1>n, OneIs
      <4>2. /\ V("inpkt") = U("inpkt") + One(t = "inpkt") /\ U("inpkt") \in Nat
            /\ V("callback") = U("callback") + One(t = "callback") /\ U("callback") \in Nat
        BY <1>1, <1>n, <3>2
      <4> HIDE DEF U, V
      <4> QED BY <1>0, <2>1, <4>1, <4>2
    <3>6. \A y \in lost' : caller'[y].at = "wait"
      BY <1>0, <1>t, <3>1, <3>3
    <3> QED BY <1>g, <3>4, <3>5, <3>6
  <2>4. CASE MboxFull
    <3> DEFINE n == caller[t].tries + 1
    <3>1. /\ caller' = [caller EXCEPT ![t] = IF n < PostTries THEN [caller[t] EXCEPT !.tries = n]
                                            ELSE [at |-> "wait", tries |-> 0]]
          /\ lost' = (IF n < PostTries THEN lost ELSE lost \cup {t}) /\ mbox' = mbox /\ thread' = thread
      BY <1>12, <2>4 DEF sys_mbox_post
    <3> HIDE DEF n
    <3>2. \A y \in Task : y # t => caller'[y] = caller[y] /\ (y \in lost' <=> y \in lost)
      BY <1>t, <3>1
    <3>3. \/ caller'[t].at = "post" /\ t \notin lost'
          \/ caller'[t].at = "wait" /\ t \in lost'
      <4>1. CASE n < PostTries
        <5>1. caller'[t] = [caller[t] EXCEPT !.tries = n] /\ lost' = lost
          BY <1>t, <3>1, <4>1
        <5>2. caller[t] \in [at : {"idle", "post", "wait"}, tries : 0 .. PostTries]
          BY <1>t
        <5>3. caller'[t].at = "post"
          BY <2>1, <5>1, <5>2
        <5> QED BY <2>2, <5>1, <5>3
      <4>2. CASE ~(n < PostTries)
        <5>1. caller'[t] = [at |-> "wait", tries |-> 0] /\ lost' = lost \cup {t}
          BY <1>t, <3>1, <4>2
        <5> QED BY <5>1
      <4> QED BY <4>1, <4>2
    <3>4. \A x : V(x) = U(x)
      BY <3>1 DEF Underway
    <3>5. \A y \in Task : X(y) = W(y)
      <4> TAKE y \in Task
      <4>1. CASE y = t
        BY <2>2, <3>3, <4>1, OneIs
      <4>2. CASE y # t
        <5>1. caller'[y] = caller[y] /\ (y \in lost' <=> y \in lost)
          BY <3>2, <4>2
        <5>2. (caller'[y].at = "wait" /\ y \notin lost') <=> (caller[y].at = "wait" /\ y \notin lost)
          BY <5>1
        <5> QED BY <5>2 DEF One
      <4> QED BY <4>1, <4>2
    <3>6. \A y \in lost' : caller'[y].at = "wait"
      <4> SUFFICES ASSUME NEW y \in lost' PROVE caller'[y].at = "wait"
        OBVIOUS
      <4>1. y \in Task
        BY <1>t, <3>1
      <4>2. CASE y = t
        BY <3>3, <4>2
      <4>3. CASE y # t
        BY <1>0, <3>2, <4>1, <4>3
      <4> QED BY <4>2, <4>3
    <3>7. /\ inpkts' + V("inpkt") = InpktPool /\ apis' + V("callback") = ApiPool
          /\ \A y \in Task : V(y) = X(y)
      <4> HIDE DEF U, V, W, X
      <4> QED BY <1>0, <2>1, <3>4, <3>5
    <3> QED BY <1>g, <3>6, <3>7
  <2> QED BY <2>3, <2>4
<1>13. CASE TickStarts \/ TickStops
  BY <1>u, <1>13 DEF TickStarts, TickStops
<1>14. CASE UNCHANGED untornVars
  BY <1>u, <1>14 DEF untornVars
<1> QED BY <1>2, <1>3, <1>4, <1>5, <1>6, <1>7, <1>8, <1>9, <1>10, <1>11, <1>12, <1>13, <1>14
        DEF ThreadSteps, StackThread

-----------------------------------------------------------------------------
(* sys_timeouts_init.                                                      *)

(* f has the lists after each of the first n cyclic timers is set.         *)
Starting(f, n) ==
  f = [k \in 0 .. n |-> IF k = 0 THEN <<>>
                        ELSE sys_timeout(f[k - 1], CyclicTimers[k], Interval[CyclicTimers[k]])]

(* The lists that sys_timeouts_init goes through exist, by the least       *)
(* number of timers without them.                                          *)
LEMMA StartingExists ==
  ASSUME NEW n \in Nat
  PROVE  \E f : Starting(f, n)
<1> DEFINE T == {k \in 0 .. n : ~ \E f : Starting(f, k)}
<1>0. n \in 0 .. n
  OBVIOUS
<1> SUFFICES ASSUME T # {} PROVE FALSE
  BY <1>0, Zenon
<1>1. T \subseteq Nat
  OBVIOUS
<1>2. PICK k \in T : \A j \in T : k <= j
  <2> HIDE DEF T
  <2> QED BY <1>1, LeastElement
<1>3. k \in 0 .. n /\ k \in Nat
  OBVIOUS
<1>4. CASE k = 0
  <2>1. Starting([pos \in 0 .. 0 |-> <<>>], 0)
    BY DEF Starting
  <2> QED BY <1>4, <2>1
<1>5. CASE k # 0
  <2>1. k - 1 \in 0 .. n /\ ~(k <= k - 1)
    BY <1>3, <1>5
  <2>2. PICK f : Starting(f, k - 1)
    BY <1>2, <2>1
  <2> DEFINE A(s, j) == sys_timeout(s, CyclicTimers[j], Interval[CyclicTimers[j]])
             e == [pos \in 0 .. k |-> IF pos = k THEN A(f[k - 1], k) ELSE f[pos]]
  <2>3. f = [pos \in 0 .. k - 1 |-> IF pos = 0 THEN <<>> ELSE A(f[pos - 1], pos)]
    BY <2>2 DEF Starting
  <2> HIDE DEF A
  <2>4. e[k] = A(f[k - 1], k) /\ \A pos \in 0 .. k - 1 : e[pos] = f[pos]
    BY <1>3, <1>5
  <2>5. \A pos \in 0 .. k : e[pos] = IF pos = 0 THEN <<>> ELSE A(e[pos - 1], pos)
    <3> TAKE pos \in 0 .. k
    <3>1. CASE pos = k
      <4>1. k - 1 \in 0 .. k - 1
        BY <1>3, <1>5
      <4> HIDE DEF e
      <4> QED BY <1>5, <2>4, <3>1, <4>1
    <3>2. CASE pos # k /\ pos # 0
      <4>1. pos \in 0 .. k - 1 /\ pos - 1 \in 0 .. k - 1
        BY <1>3, <3>2
      <4>2. f[pos] = A(f[pos - 1], pos)
        BY <2>3, <3>2, <4>1
      <4> HIDE DEF e
      <4> QED BY <2>4, <3>2, <4>1, <4>2
    <3>3. CASE pos = 0
      <4>1. 0 \in 0 .. k - 1
        BY <1>3, <1>5
      <4>2. f[0] = <<>>
        BY <2>3, <4>1
      <4> HIDE DEF e
      <4> QED BY <2>4, <3>3, <4>1, <4>2
    <3> QED BY <3>1, <3>2, <3>3
  <2>6. e = [pos \in 0 .. k |-> e[pos]]
    OBVIOUS
  <2>7. Starting(e, k)
    <3> HIDE DEF e
    <3> QED BY <2>5, <2>6 DEF Starting, A
  <2> QED BY <2>7
<1> QED BY <1>4, <1>5

(* The list after the first n of them is set.                              *)
Started(s, n) ==
  /\ s \in Lists /\ Bounded(s) /\ Len(s) = n
  /\ \A x : Times(Calls(s), x) = One(\E k \in 1 .. n : CyclicTimers[k] = x)

(* It begins with the empty list.                                          *)
LEMMA EmptyStarted == Started(<<>>, 0)
<1>1. <<>> \in Lists /\ Len(<<>>) = 0
  BY DEF Lists
<1>2. Bounded(<<>>)
  BY DEF Bounded
<1>3. \A x : Times(Calls(<<>>), x) = 0
  <2> SUFFICES ASSUME NEW x PROVE Times(Calls(<<>>), x) = 0
    OBVIOUS
  <2>1. {pos \in DOMAIN Calls(<<>>) : Calls(<<>>)[pos] = x} = {}
    BY DEF Calls
  <2> QED BY <2>1, FS_EmptySet DEF Times
<1>4. \A x : One(\E k \in 1 .. 0 : CyclicTimers[k] = x) = 0
  <2> SUFFICES ASSUME NEW x PROVE One(\E k \in 1 .. 0 : CyclicTimers[k] = x) = 0
    OBVIOUS
  <2>1. ~ \E k \in 1 .. 0 : CyclicTimers[k] = x
    OBVIOUS
  <2> QED BY <2>1 DEF One
<1> QED BY <1>1, <1>2, <1>3, <1>4 DEF Started

(* Each timer it sets is there once and finds an element in the pool.      *)
LEMMA StartedNext ==
  ASSUME NEW n \in 1 .. Len(CyclicTimers), NEW s, Started(s, n - 1), NEW r,
         r = sys_timeout(s, CyclicTimers[n], Interval[CyclicTimers[n]])
  PROVE  Started(r, n)
<1> DEFINE h == CyclicTimers[n]
           L == Len(CyclicTimers)
<1>1. /\ s \in Lists /\ Bounded(s) /\ Len(s) = n - 1
      /\ \A x : Times(Calls(s), x) = One(\E k \in 1 .. n - 1 : CyclicTimers[k] = x)
  BY DEF Started
<1>2. /\ L \in Nat /\ DOMAIN CyclicTimers = 1 .. L /\ TimeoutPool \in Nat /\ MaxTick \in Nat
      /\ L + MaxTick + 2 <= TimeoutPool /\ n \in Nat /\ n <= L
  BY TcpipThreadAssumption, TimeoutPoolAssumption
<1>3. h \in Handlers /\ Interval[h] \in Nat
  <2>1. h \in Cyclic
    BY <1>2 DEF Cyclic
  <2> QED BY <2>1, HandlerNames, IntervalIs
<1>4. Len(s) # TimeoutPool
  <2>1. n - 1 # TimeoutPool
    BY ONLY <1>2
  <2> QED BY <1>1, <2>1
<1>5. r = sys_timeout(s, h, Interval[h])
  OBVIOUS
<1>6. \A k \in 1 .. n - 1 : CyclicTimers[k] # h
  <2> TAKE k \in 1 .. n - 1
  <2>1. k \in DOMAIN CyclicTimers /\ n \in DOMAIN CyclicTimers /\ k # n
    BY <1>2
  <2> QED BY <2>1, TcpipThreadAssumption
<1> DEFINE B(x) == \E k \in 1 .. n - 1 : CyclicTimers[k] = x
           E(x) == \E k \in 1 .. n : CyclicTimers[k] = x
<1>e. \A x : E(x) <=> B(x) \/ h = x
  <2> SUFFICES ASSUME NEW x PROVE E(x) <=> B(x) \/ h = x
    OBVIOUS
  <2>1. \A k : k \in 1 .. n <=> k \in 1 .. n - 1 \/ k = n
    BY <1>2
  <2> QED BY <2>1
<1>b. ~B(h)
  BY <1>6
<1> HIDE DEF h
<1>7. r \in Lists /\ ListStep(r, s)
  BY ONLY <1>1, <1>3, <1>5, TimeoutStep
<1>8. Bounded(r)
  BY ONLY <1>1, <1>7, StepBounded
<1>9. Len(r) = n
  <2>1. \E p \in 1 .. Len(s) + 1 : Sets(r, s, h, Interval[h], p)
    BY ONLY <1>1, <1>3, <1>4, <1>5, TimeoutSets
  <2>2. Len(r) = Len(s) + 1
    BY <2>1 DEF Sets, Skips
  <2> QED BY <1>1, <1>2, <2>2
<1>10. \A x : Times(Calls(r), x) = One(E(x))
  <2> SUFFICES ASSUME NEW x PROVE Times(Calls(r), x) = One(E(x))
    OBVIOUS
  <2>1. Times(Calls(r), x) = Times(Calls(s), x) + One(h = x)
    BY ONLY <1>1, <1>3, <1>4, <1>5, TimeoutCounts
  <2>2. Times(Calls(s), x) = One(B(x))
    BY <1>1
  <2>3. E(x) <=> B(x) \/ h = x
    BY <1>e
  <2> HIDE DEF B, E
  <2>4. CASE h = x
    <3>1. One(h = x) = 1 /\ One(B(x)) = 0 /\ One(E(x)) = 1
      BY <1>b, <2>3, <2>4 DEF One
    <3> QED BY <2>1, <2>2, <3>1
  <2>5. CASE h # x
    <3>1. One(h = x) = 0 /\ One(B(x)) \in {0, 1} /\ One(E(x)) = One(B(x))
      BY <2>3, <2>5 DEF One
    <3> QED BY <2>1, <2>2, <3>1
  <2> QED BY <2>4, <2>5
<1> QED BY <1>7, <1>8, <1>9, <1>10 DEF Started

(* sys_timeouts_init sets each cyclic timer once.                          *)
LEMMA InitStarted == Started(sys_timeouts_init, Len(CyclicTimers))
<1> DEFINE L == Len(CyclicTimers)
           g == CHOOSE f : Starting(f, L)
<1>0. L \in Nat
  BY TcpipThreadAssumption
<1>1. Starting(g, L)
  <2>1. \E f : Starting(f, L)
    BY <1>0, StartingExists
  <2> QED BY <2>1
<1>2. sys_timeouts_init = g[L]
  BY DEF sys_timeouts_init, Starting
<1> HIDE DEF g
<1>3. g[0] = <<>>
  BY <1>0, <1>1 DEF Starting
<1>4. \A k \in 1 .. L : g[k] = sys_timeout(g[k - 1], CyclicTimers[k], Interval[CyclicTimers[k]])
  BY <1>0, <1>1 DEF Starting
<1> DEFINE T == {k \in 0 .. L : ~Started(g[k], k)}
<1>5. T = {}
  <2> SUFFICES ASSUME T # {} PROVE FALSE
    OBVIOUS
  <2>1. T \subseteq Nat
    BY <1>0
  <2>2. PICK k \in T : \A j \in T : k <= j
    <3> HIDE DEF T
    <3> QED BY <2>1, LeastElement
  <2>3. k # 0
    BY <1>3, EmptyStarted
  <2>4. k \in 1 .. L /\ k - 1 \in 0 .. L /\ ~(k <= k - 1) /\ ~Started(g[k], k)
    BY <1>0, <2>3
  <2>5. Started(g[k - 1], k - 1)
    BY <2>2, <2>4
  <2>6. g[k] = sys_timeout(g[k - 1], CyclicTimers[k], Interval[CyclicTimers[k]])
    BY <1>4, <2>4
  <2>7. Started(g[k], k)
    BY ONLY <2>4, <2>5, <2>6, StartedNext DEF L
  <2> QED BY <2>4, <2>7
<1>6. L \in 0 .. L
  BY <1>0
<1> QED BY <1>2, <1>5, <1>6

(* The empty mailbox has no message.                                       *)
LEMMA EmptyCounts == \A x : Times(<<>>, x) = 0
<1> SUFFICES ASSUME NEW x PROVE Times(<<>>, x) = 0
  OBVIOUS
<1>1. {pos \in DOMAIN <<>> : <<>>[pos] = x} = {}
  OBVIOUS
<1> QED BY <1>1, FS_EmptySet DEF Times

(* The thread starts with its cyclic timeouts set and its pools full.      *)
LEMMA ThreadInvInit ==
  ASSUME ThreadInit
  PROVE  ThreadInv
<1> DEFINE s == next_timeout
           L == Len(CyclicTimers)
<1>0. /\ next_timeout = sys_timeouts_init
      /\ tcpTimer = FALSE /\ pcbs = FALSE /\ OSTime = 0
      /\ mbox = <<>> /\ thread = Working("again", "none", "none")
      /\ caller = [t \in Task |-> [at |-> "idle", tries |-> 0]]
      /\ inpkts = InpktPool /\ apis = ApiPool /\ lost = {}
  BY DEF ThreadInit
<1>1. /\ s \in Lists /\ Bounded(s)
      /\ \A x : Times(Calls(s), x) = One(\E k \in 1 .. L : CyclicTimers[k] = x)
  BY <1>0, InitStarted DEF Started
<1>2. ListKept
  BY <1>1 DEF ListKept
<1>3. thread \in Threads /\ thread.at = "again" /\ thread.msg = "none" /\ thread.h = "none"
  BY <1>0, WorkingIs DEF Places
<1>4. ThreadShape
  <2>0. tcpTimer \in BOOLEAN /\ pcbs \in BOOLEAN
    BY <1>0, Zenon
  <2>1. /\ OSTime \in 0 .. WordMod - 1
        /\ inpkts \in Nat /\ apis \in Nat /\ 0 \in 0 .. PostTries
    <3>1. WordMod \in Nat \ {0} /\ PostTries \in Nat \ {0} /\ InpktPool \in Nat /\ ApiPool \in Nat
      BY TcpipThreadAssumption
    <3> QED BY ONLY <1>0, <3>1
  <2>2. mbox \in Seq(Message) /\ lost \subseteq Task
    BY <1>0
  <2>3. caller \in [Task -> [at : {"idle", "post", "wait"}, tries : 0 .. PostTries]]
    BY <1>0, <2>1
  <2> QED BY <1>3, <2>0, <2>1, <2>2, <2>3 DEF ThreadShape, Threads, Places
<1>5. Timers
  <2>1. DOMAIN CyclicTimers = 1 .. L
    BY TcpipThreadAssumption
  <2>2. \A x : (\E k \in 1 .. L : CyclicTimers[k] = x) <=> x \in Cyclic
    BY <2>1 DEF Cyclic
  <2>3. \A x \in Handlers : Running(x) = Times(Calls(s), x) + 0
    <3> TAKE x \in Handlers
    <3>1. thread.h # x
      BY <1>3, HandlerNames
    <3> QED BY <3>1 DEF Running, One
  <2>4. \A x \in Cyclic : Times(Calls(s), x) = 1
    BY <1>1, <2>2 DEF One
  <2>5. \A x : x \notin Cyclic => Times(Calls(s), x) = 0
    BY <1>1, <2>2 DEF One
  <2>6. \A x \in Cyclic : Running(x) = 1
    BY <2>3, <2>4, HandlerNames
  <2>7. Running("tcp") = 0 /\ Running("tick") = 0
    BY <2>3, <2>5, HandlerNames
  <2>8. One(tcpTimer) = 0 /\ 0 <= MaxTick + 1
    BY <1>0, TcpipThreadAssumption DEF One
  <2> QED BY <1>0, <2>6, <2>7, <2>8 DEF Timers
<1>6. Messages
  <2>1. \A x \in Message : Underway(x) = 0
    <3> TAKE x \in Message
    <3>1. Times(mbox, x) = 0 /\ thread.msg # x
      BY <1>0, <1>3, EmptyCounts, HandlerNames
    <3> QED BY <3>1 DEF Underway, One
  <2>2. \A t \in Task : One(caller[t].at = "wait" /\ t \notin lost) = 0
    BY <1>0 DEF One
  <2>3. Underway("inpkt") = 0 /\ Underway("callback") = 0 /\ \A t \in Task : Underway(t) = 0
    BY <2>1 DEF Message
  <2>4. InpktPool + 0 = InpktPool /\ ApiPool + 0 = ApiPool
    BY TcpipThreadAssumption
  <2> QED BY <1>0, <2>2, <2>3, <2>4 DEF Messages
<1>7. torn = FALSE
  BY DEF ThreadInit
<1> QED BY <1>1, <1>2, <1>4, <1>5, <1>6, <1>7 DEF ThreadInv, Untorn

(* Only TickTears changes torn, and it changes only that and the list.     *)
LEMMA StepsOrTears ==
  ASSUME [ThreadNext]_threadVars
  PROVE  TickTears \/ (UNCHANGED torn /\ [ThreadSteps]_untornVars)
<1>1. CASE UNCHANGED threadVars
  BY <1>1 DEF threadVars, untornVars
<1>2. CASE StackThread
  BY <1>2 DEF StackThread, ThreadSteps, FetchStarts, OSQPend, FetchReturns, Expires, CallsHandler,
              tcpip_thread
<1>3. CASE OSTimeTick \/ tcpip_input \/ tcpip_callback
  BY <1>3 DEF ThreadSteps, OSTimeTick, tcpip_input, tcpip_callback
<1>4. CASE \E t \in Task : tcpip_apimsg(t) \/ sys_mbox_post(t)
  BY <1>4 DEF ThreadSteps, tcpip_apimsg, sys_mbox_post
<1>5. CASE TickStarts \/ TickStops
  BY <1>5 DEF ThreadSteps, TickStarts, TickStops
<1> QED BY <1>1, <1>2, <1>3, <1>4, <1>5 DEF ThreadNext, ThreadSteps

(* Every step of the thread and of the tasks around it keeps it.           *)
LEMMA ThreadInvStep ==
  ASSUME ThreadInv, [ThreadNext]_threadVars
  PROVE  ThreadInv'
<1>1. ListKept /\ ThreadShape /\ Messages /\ torn \in BOOLEAN /\ (torn \/ Untorn)
  BY DEF ThreadInv
<1>2. CASE UNCHANGED torn /\ [ThreadSteps]_untornVars
  <2>1. ListKept' /\ (Bounded(next_timeout) => Bounded(next_timeout'))
    BY <1>1, <1>2, ListKeptStep
  <2>2. ThreadShape'
    BY <1>1, <1>2, ShapeStep
  <2>3. Messages'
    BY <1>1, <1>2, MessagesStep
  <2>4. Timers => Timers'
    BY <1>1, <1>2, TimersStep
  <2>5. Untorn => Untorn'
    BY <2>1, <2>4 DEF Untorn, Bounded
  <2> QED BY <1>1, <1>2, <2>1, <2>2, <2>3, <2>5 DEF ThreadInv
<1>3. CASE TickTears
  <2>1. torn' = TRUE /\ next_timeout' \in Lists
    BY <1>3, TcpipThreadAssumption DEF TickTears, Lists
  <2>2. UNCHANGED <<tcpTimer, pcbs, OSTime, mbox, thread, caller, inpkts, apis, lost>>
    BY <1>3 DEF TickTears
  <2>3. ThreadShape'
    BY <1>1, <2>2 DEF ThreadShape
  <2>4. Messages'
    BY <1>1, <2>2 DEF Messages, Underway
  <2> QED BY <2>1, <2>3, <2>4 DEF ThreadInv, ListKept
<1> QED BY <1>2, <1>3, StepsOrTears

(* The invariant gives the types; the pools never have more than they      *)
(* began with.                                                             *)
LEMMA ThreadInvType ==
  ASSUME ThreadInv
  PROVE  ThreadTypeOK
<1>1. ListKept /\ ThreadShape /\ Messages /\ torn \in BOOLEAN /\ (torn \/ Untorn)
  BY DEF ThreadInv
<1>2. ASSUME ~torn PROVE next_timeout \in Seq([h : Handlers, time : 0 .. MaxInterval])
  <2>1. next_timeout \in Lists /\ Bounded(next_timeout)
    BY <1>1, <1>2 DEF ListKept, Untorn
  <2> QED BY ONLY <2>1, BoundedTimes
<1>3. \A x : Underway(x) \in Nat
  <2> SUFFICES ASSUME NEW x PROVE Underway(x) \in Nat
    OBVIOUS
  <2>1. mbox \in Seq(Message)
    BY <1>1 DEF ThreadShape
  <2>2. Times(mbox, x) \in Nat
    BY ONLY <2>1, MboxCounts
  <2>3. One(thread.msg = x) \in {0, 1}
    BY OneIs
  <2> QED BY <2>2, <2>3 DEF Underway
<1>4. inpkts \in 0 .. InpktPool /\ apis \in 0 .. ApiPool
  <2>1. /\ inpkts + Underway("inpkt") = InpktPool /\ apis + Underway("callback") = ApiPool
        /\ Underway("inpkt") \in Nat /\ Underway("callback") \in Nat
        /\ inpkts \in Nat /\ apis \in Nat /\ InpktPool \in Nat /\ ApiPool \in Nat
    BY <1>1, <1>3, TcpipThreadAssumption DEF Messages, ThreadShape
  <2> QED BY ONLY <2>1
<1> QED BY <1>1, <1>2, <1>4 DEF ThreadShape, ThreadTypeOK, Places, ListKept, Lists

(* InHand has the messages that are under way.                             *)
LEMMA InHandCounts ==
  ASSUME ThreadShape, NEW x \in Message
  PROVE  Times(InHand, x) = Underway(x)
<1>1. mbox \in Seq(Message) /\ thread.msg \in Message \cup {"none"}
  BY DEF ThreadShape
<1>2. Times(mbox, x) \in Nat
  BY ONLY <1>1, MboxCounts
<1>3. CASE thread.msg = "none"
  <2>1. InHand = mbox
    BY <1>1, <1>3 DEF InHand
  <2>2. thread.msg # x
    BY <1>3, HandlerNames
  <2> QED BY <1>2, <2>1, <2>2 DEF Underway, One
<1>4. CASE thread.msg # "none"
  <2>1. InHand = mbox \o <<thread.msg>> /\ thread.msg \in Message
    BY <1>1, <1>4 DEF InHand
  <2>2. mbox \o <<thread.msg>> = Append(mbox, thread.msg)
    BY ONLY <1>1, <2>1
  <2>3. Times(Append(mbox, thread.msg), x) = Times(mbox, x) + One(thread.msg = x)
    BY ONLY <1>1, <2>1, AppendCounts
  <2> QED BY <2>1, <2>2, <2>3 DEF Underway
<1> QED BY <1>3, <1>4

(* The invariant gives ThreadSound.                                        *)
LEMMA ThreadInvSound ==
  ASSUME ThreadInv
  PROVE  ThreadSound
<1>1. ListKept /\ ThreadShape /\ Messages /\ (torn \/ Untorn)
  BY DEF ThreadInv
<1> DEFINE handlers == [pos \in DOMAIN next_timeout |-> next_timeout[pos].h] \o <<thread.h>>
<1>2. \A x : Times(handlers, x) = Running(x)
  <2> SUFFICES ASSUME NEW x PROVE Times(handlers, x) = Running(x)
    OBVIOUS
  <2>1. next_timeout \in Lists
    BY <1>1 DEF ListKept
  <2>2. Times(Calls(next_timeout) \o <<thread.h>>, x) = Times(Calls(next_timeout), x) + One(thread.h = x)
    BY ONLY <2>1, CallsAndOne
  <2>3. handlers = Calls(next_timeout) \o <<thread.h>>
    BY DEF Calls
  <2> HIDE DEF handlers
  <2> QED BY <2>2, <2>3 DEF Running
<1> HIDE DEF handlers
<1>3. torn \/ /\ \A h \in Cyclic : Times(handlers, h) = 1
              /\ Times(handlers, "tcp") = IF tcpTimer THEN 1 ELSE 0
              /\ pcbs => tcpTimer
  BY <1>1, <1>2 DEF Untorn, Timers, One
<1>4. \A x \in Message : Times(InHand, x) = Underway(x)
  BY <1>1, InHandCounts
<1>5. "inpkt" \in Message /\ "callback" \in Message /\ Task \subseteq Message
  BY DEF Message
<1>6. /\ inpkts + Times(InHand, "inpkt") = InpktPool
      /\ apis + Times(InHand, "callback") = ApiPool
      /\ \A t \in Task :
           Times(InHand, t) = IF caller[t].at = "wait" /\ t \notin lost THEN 1 ELSE 0
  BY <1>1, <1>4, <1>5 DEF Messages, One
<1> QED BY <1>3, <1>6 DEF ThreadSound, handlers

(* The thread's variables keep their types in every state; the times in    *)
(* the list are within the longest interval, never below zero, until       *)
(* DHCPS_Start or DHCPS_Stop comes into an operation of the thread on it.  *)
THEOREM ThreadTypeCorrect == ThreadSpec => []ThreadTypeOK
<1>1. ThreadInit => ThreadInv
  BY ThreadInvInit
<1>2. ThreadInv /\ [ThreadNext]_threadVars => ThreadInv'
  BY ThreadInvStep
<1>3. ThreadInv => ThreadTypeOK
  BY ThreadInvType
<1> QED BY <1>1, <1>2, <1>3, PTL DEF ThreadSpec

(* Until DHCPS_Start or DHCPS_Stop comes into an operation of the thread   *)
(* on the list, every cyclic timeout of timers.c is in the list or its     *)
(* handler runs, once, and the TCP timer is exactly while its flag says    *)
(* so, and is while there are connections.  In any case no message of the  *)
(* pools is lost or doubled by tcpip_input, tcpip_callback and             *)
(* tcpip_thread; and a waiting task's message is under way unless          *)
(* sys_mbox_post gave up: for any number of tasks, cyclic timers,          *)
(* intervals, tries and sizes of the mailbox and the pools, if the pool of *)
(* timeouts has room for all.                                              *)
THEOREM ThreadCorrect == ThreadSpec => []ThreadSound
<1>1. ThreadInit => ThreadInv
  BY ThreadInvInit
<1>2. ThreadInv /\ [ThreadNext]_threadVars => ThreadInv'
  BY ThreadInvStep
<1>3. ThreadInv => ThreadSound
  BY ThreadInvSound
<1> QED BY <1>1, <1>2, <1>3, PTL DEF ThreadSpec

(* A step of the list is a step of Timeouts, or leaves its list alone.     *)
StartOf(q, p) ==
  \E pos \in DOMAIN q :
    /\ p = SubSeq(q, 1, pos - 1) \o SubSeq(q, pos + 1, Len(q))
    /\ \A j \in DOMAIN p : p[j].left <= q[pos].left <=> j < pos

StopOf(q, p) ==
  \E pos \in DOMAIN p :
    /\ \A j \in 1 .. pos - 1 : p[j].h # p[pos].h
    /\ q = SubSeq(p, 1, pos - 1) \o SubSeq(p, pos + 1, Len(p))

PassesOf(q, p) ==
  p # <<>> /\ \E ms \in 0 .. p[1].left : q = [pos \in DOMAIN p |-> [p[pos] EXCEPT !.left = @ - ms]]

GoesOffOf(q, p) ==
  p # <<>> /\ q = [pos \in DOMAIN Tail(p) |-> [Tail(p)[pos] EXCEPT !.left = @ - p[1].left]]

PendStep(q, p) == q = p \/ StartOf(q, p) \/ StopOf(q, p) \/ PassesOf(q, p) \/ GoesOffOf(q, p)

(* What a step does to the differences is a step of Timeouts for the sums. *)
LEMMA StepPends ==
  ASSUME NEW s \in Lists, NEW r \in Lists, ListStep(r, s)
  PROVE  PendStep(Pend(r), Pend(s))
<1> DEFINE P == Pend(s)
           Q == Pend(r)
<1>1. /\ DOMAIN P = 1 .. Len(s) /\ Len(s) \in Nat
      /\ \A pos \in 1 .. Len(s) : P[pos].h = s[pos].h /\ P[pos].left = Due(s, pos)
  BY PendIs, ListFacts
<1>2. /\ DOMAIN Q = 1 .. Len(r) /\ Len(r) \in Nat
      /\ \A pos \in 1 .. Len(r) : Q[pos].h = r[pos].h /\ Q[pos].left = Due(r, pos)
  BY PendIs, ListFacts
<1>3. CASE r = s
  BY <1>3 DEF PendStep
<1>4. CASE \E h \in Handlers : \E p \in 1 .. Len(s) + 1 : Sets(r, s, h, Interval[h], p)
  <2>1. PICK h \in Handlers : \E p \in 1 .. Len(s) + 1 : Sets(r, s, h, Interval[h], p)
    BY <1>4
  <2>2. PICK p \in 1 .. Len(s) + 1 : Sets(r, s, h, Interval[h], p)
    BY <2>1
  <2>3. Skips(s, r, p) /\ Due(r, p) = Interval[h]
        /\ \A j \in 1 .. Len(s) : Due(s, j) <= Interval[h] <=> j < p
    BY <2>2 DEF Sets
  <2>4. P = SubSeq(Q, 1, p - 1) \o SubSeq(Q, p + 1, Len(Q))
    BY ONLY <2>3, s \in Lists, r \in Lists, SkipsRemoves DEF P, Q
  <2>5. p \in 1 .. Len(r)
    BY <2>3 DEF Skips
  <2> HIDE DEF P, Q
  <2>6. p \in DOMAIN Q /\ \A j \in DOMAIN P : P[j].left <= Q[p].left <=> j < p
    BY <1>1, <1>2, <2>3, <2>5
  <2>7. StartOf(Q, P)
    BY <2>4, <2>6, Zenon DEF StartOf
  <2> QED BY <2>7 DEF PendStep, P, Q
<1>5. CASE \E pos \in 1 .. Len(s) : Skips(r, s, pos) /\ \A j \in 1 .. pos - 1 : s[j].h # s[pos].h
  <2>1. PICK pos \in 1 .. Len(s) : Skips(r, s, pos) /\ \A j \in 1 .. pos - 1 : s[j].h # s[pos].h
    BY <1>5
  <2>2. Q = SubSeq(P, 1, pos - 1) \o SubSeq(P, pos + 1, Len(P))
    BY ONLY <2>1, s \in Lists, r \in Lists, SkipsRemoves DEF P, Q
  <2> HIDE DEF P, Q
  <2>3. \A j \in 1 .. pos - 1 : P[j].h # P[pos].h
    <3> TAKE j \in 1 .. pos - 1
    <3>1. j \in 1 .. Len(s)
      BY <1>1
    <3> QED BY <1>1, <2>1, <3>1
  <2>4. StopOf(Q, P)
    BY <1>1, <2>2, <2>3, Zenon DEF StopOf
  <2> QED BY <2>4 DEF PendStep, P, Q
<1>6. CASE s # <<>> /\ \E m \in 0 .. Due(s, 1) : Sooner(r, s, m)
  <2>1. PICK m \in 0 .. Due(s, 1) : Sooner(r, s, m)
    BY <1>6
  <2>2. Q = [pos \in DOMAIN P |-> [P[pos] EXCEPT !.left = @ - m]]
    BY ONLY <2>1, s \in Lists, r \in Lists, SoonerPasses DEF P, Q
  <2>3. 1 \in 1 .. Len(s)
    <3>1. Len(s) # 0
      BY <1>6 DEF Lists
    <3> QED BY <1>1, <3>1
  <2> HIDE DEF P, Q
  <2>4. P # <<>> /\ P[1].left = Due(s, 1)
    BY <1>1, <2>3
  <2>5. PassesOf(Q, P)
    BY <2>1, <2>2, <2>4, Zenon DEF PassesOf
  <2> QED BY <2>5 DEF PendStep, P, Q
<1>7. CASE s # <<>> /\ Rests(r, s)
  <2>1. P # <<>> /\ Q = [pos \in DOMAIN Tail(P) |-> [Tail(P)[pos] EXCEPT !.left = @ - P[1].left]]
    BY ONLY <1>7, s \in Lists, r \in Lists, RestsGoesOff DEF P, Q
  <2> QED BY <2>1 DEF PendStep, GoesOffOf, P, Q
<1> QED BY <1>3, <1>4, <1>5, <1>6, <1>7 DEF ListStep

(* No timeout has longer to go than the longest interval.                  *)
LEMMA PendsBounded ==
  ASSUME NEW s \in Lists, Bounded(s)
  PROVE  Pend(s) \in Seq([h : Handlers, left : 0 .. MaxInterval])
<1> DEFINE P == Pend(s)
           R == [h : Handlers, left : 0 .. MaxInterval]
<1>1. /\ P \in Seq(Pends) /\ Len(P) = Len(s) /\ Len(s) \in Nat
      /\ \A pos \in 1 .. Len(s) : P[pos] \in Pends /\ P[pos].left = Due(s, pos)
  BY PendIs, ListFacts
<1>2. \A x \in Pends : x.left <= MaxInterval => x \in R
  BY TcpipThreadAssumption DEF Pends
<1>3. \A pos \in 1 .. Len(s) : Due(s, pos) <= MaxInterval
  BY DEF Bounded
<1> HIDE DEF P, R
<1>4. \A pos \in 1 .. Len(P) : P[pos] \in R
  BY <1>1, <1>2, <1>3
<1>5. P \in Seq(R)
  BY <1>1, <1>4
<1> QED BY <1>5 DEF P, R

(* The differences that sys_timeout, sys_untimeout and                     *)
(* sys_timeouts_mbox_fetch keep are the list of Timeouts, whichever        *)
(* timeouts are set, cancelled, shortened or gone off in between, and      *)
(* whatever wait is told, until DHCPS_Start or DHCPS_Stop comes into an    *)
(* operation of the thread: for any timers and intervals.                  *)
THEOREM ThreadRefinesTimeouts == ThreadSpec => ImplementsTimeouts
<1>1. ThreadInit => ThreadInv
  BY ThreadInvInit
<1>2. ThreadInv /\ [ThreadNext]_threadVars => ThreadInv'
  BY ThreadInvStep
<1> DEFINE pend == [pos \in DOMAIN next_timeout |->
                      [h |-> next_timeout[pos].h, left |-> Due(next_timeout, pos)]]
<1>3. ThreadInit => TimeoutList!TimeoutsInit
  <2> SUFFICES ASSUME ThreadInit PROVE TimeoutList!TimeoutsInit
    OBVIOUS
  <2>0. ThreadInv /\ ~torn
    BY <1>1 DEF ThreadInit
  <2>1. next_timeout \in Lists /\ Bounded(next_timeout)
    BY <2>0 DEF ThreadInv, ListKept, Untorn
  <2>2. Pend(next_timeout) \in Seq([h : Handlers, left : 0 .. MaxInterval])
    BY ONLY <2>1, PendsBounded
  <2> QED BY <2>2 DEF TimeoutList!TimeoutsInit, TimeoutList!Timeout, Pend
<1>4. ThreadInv /\ [ThreadNext]_threadVars => torn' \/ TimeoutList!TimeoutsNext \/ UNCHANGED pend
  <2> SUFFICES ASSUME ThreadInv, [ThreadNext]_threadVars, ~TickTears
               PROVE  TimeoutList!TimeoutsNext \/ UNCHANGED pend
    BY DEF TickTears
  <2>1. ListKept /\ ThreadShape /\ [ThreadSteps]_untornVars
    BY StepsOrTears DEF ThreadInv
  <2>2. next_timeout' \in Lists /\ ListStep(next_timeout', next_timeout)
    BY <2>1, StepsList
  <2>3. next_timeout \in Lists
    BY <2>1 DEF ListKept
  <2>4. PendStep(Pend(next_timeout'), Pend(next_timeout))
    BY ONLY <2>2, <2>3, StepPends
  <2> DEFINE P == Pend(next_timeout)
             Q == Pend(next_timeout')
  <2>5. CASE Q = P
    BY <2>5 DEF Pend
  <2>6. CASE StartOf(Q, P)
    BY <2>6 DEF StartOf, Pend, TimeoutList!TimeoutsNext, TimeoutList!Start, TimeoutList!RemoveAt
  <2>7. CASE StopOf(Q, P)
    BY <2>7 DEF StopOf, Pend, TimeoutList!TimeoutsNext, TimeoutList!Stop, TimeoutList!RemoveAt
  <2>8. CASE PassesOf(Q, P)
    BY <2>8 DEF PassesOf, Pend, TimeoutList!TimeoutsNext, TimeoutList!TimePasses, TimeoutList!Passed
  <2>9. CASE GoesOffOf(Q, P)
    BY <2>9 DEF GoesOffOf, Pend, TimeoutList!TimeoutsNext, TimeoutList!GoesOff, TimeoutList!Passed
  <2> QED BY <2>4, <2>5, <2>6, <2>7, <2>8, <2>9 DEF PendStep
<1> QED BY <1>1, <1>2, <1>3, <1>4, PTL DEF ThreadSpec, ImplementsTimeouts

-----------------------------------------------------------------------------
(* The TCP server of the LAN.                                              *)

(* Where the thread is tells what its locals hold: the slot the loop looks *)
(* at, the descriptor accept() gave, the listening socket.                 *)
LanLocals ==
  /\ pc = "scan" => i \in Slots
  /\ pc = "first" => new_fd \in Fds /\ conn[new_fd] # "none"
  /\ pc \in {"select", "scan", "accept", "first"} => TCPServerFd \in Fds

(* Connections are those of the clients' descriptors.                      *)
ConnsAreClients == \A f \in Fds : conn[f] # "none" <=> sockets[f] = "client"

(* Until the thread leaves its table, a slot names a client's descriptor,  *)
(* no two slots the same, and every open connection has a slot.            *)
TableKept ==
  /\ pc = "create" => \A f \in Fds : sockets[f] # "client"
  /\ pc \notin {"create", "undefined"} =>
       /\ \A s \in Slots : lan_client[s] # NoFd => sockets[lan_client[s]] = "client"
       /\ \A s, r \in Slots : lan_client[s] = lan_client[r] /\ lan_client[s] # NoFd => s = r
       /\ \A f \in Fds : conn[f] \in {"quiet", "data", "fin"} => InTable(f)

(* The UDP server's sockets: the one it knows, and descriptor 0.           *)
UdpSockets == \A f \in Fds : sockets[f] = "udp" => f \in {0, UDPServerFd}

(* The inductive invariant of the LAN server.                              *)
LanInv == TypeOK /\ LanLocals /\ ConnsAreClients /\ TableKept /\ UdpSockets

(* alloc_socket finds a free descriptor when there is one.                 *)
LEMMA LowestIsFree ==
  ASSUME FreeFds # {}
  PROVE  LowestFree \in Fds /\ sockets[LowestFree] = "free" /\ LowestFree \in Nat
         /\ LowestFree + 1 \in Fds \cup {NumSockets}
<1>1. FreeFds \subseteq Nat
  BY LanServerAssumption DEF FreeFds, Fds
<1>2. \E f \in FreeFds : \A g \in FreeFds : f <= g
  BY <1>1, LeastElement
<1>3. LowestFree \in FreeFds
  BY <1>2 DEF LowestFree
<1> QED BY <1>3, LanServerAssumption DEF FreeFds, Fds

(* The slot of a new client is empty.                                      *)
LEMMA EmptySlotIsEmpty ==
  ASSUME EmptySlot # MaxClients
  PROVE  EmptySlot \in Slots /\ lan_client[EmptySlot] = NoFd
<1>1. Empty # {} /\ Empty \subseteq Nat
  BY LanServerAssumption DEF EmptySlot, Empty, Slots
<1>2. \E s \in Empty : \A r \in Empty : s <= r
  BY <1>1, LeastElement
<1>3. EmptySlot \in Empty
  BY <1>1, <1>2 DEF EmptySlot
<1> QED BY <1>3 DEF Empty

(* The tasks exist and nothing is open.                                    *)
LEMMA LanInvInit == Init => LanInv
<1> SUFFICES ASSUME Init PROVE LanInv
  OBVIOUS
<1>0. NumSockets \in Nat \ {0} /\ MaxClients \in Nat \ {0} /\ MinCount \in Nat
  BY LanServerAssumption
<1>1. TypeOK
  <2>1. 0 \in Fds /\ 0 \in 0 .. MaxClients /\ 0 \in -MinCount .. 0
    BY <1>0 DEF Fds
  <2>2. lan_client \in [Slots -> Fds \cup {NoFd}]
    BY <2>1 DEF Init
  <2>3. sockets \in [Fds -> {"free", "other", "listen", "client", "udp"}]
    BY DEF Init
  <2> QED BY <2>1, <2>2, <2>3 DEF Init, TypeOK
<1> QED BY <1>1 DEF LanInv, Init, LanLocals, ConnsAreClients, TableKept, UdpSockets

(* Every step keeps the types.                                             *)
LEMMA LanTypeStep == LanInv /\ [Next]_vars => TypeOK'
<1> SUFFICES ASSUME LanInv, [Next]_vars PROVE TypeOK'
  OBVIOUS
<1> USE DEF LanInv
<1>0. NumSockets \in Nat \ {0} /\ MaxClients \in Nat \ {0} /\ MinCount \in Nat
  BY LanServerAssumption
<1>1. CASE Socket_CreateUDPServer
  BY <1>1, LowestIsFree DEF Socket_CreateUDPServer, TypeOK, tcpVars
<1>2. CASE Socket_CreateTCPServer
  BY <1>2, LowestIsFree DEF Socket_CreateTCPServer, TypeOK
<1>3. CASE Select
  <2>1. fdset' \in SUBSET Fds
    BY <1>3 DEF Select, Ready
  <2>2. i' \in 0 .. MaxClients
    BY <1>0, <1>3 DEF Select
  <2> QED BY <1>3, <2>1, <2>2 DEF Select, TypeOK
<1>4. CASE ScanSkip
  <2>1. i' \in 0 .. MaxClients /\ pc' \in {"accept", "scan"}
    BY <1>0, <1>4 DEF ScanSkip, NextSlot, LanLocals, Slots
  <2> QED BY <1>4, <2>1 DEF ScanSkip, TypeOK
<1>5. CASE ScanData
  <2>1. i' \in 0 .. MaxClients /\ pc' \in {"accept", "scan"}
    BY <1>0, <1>5 DEF ScanData, NextSlot, LanLocals, Slots
  <2> QED BY <1>5, <2>1 DEF ScanData, TypeOK
<1>6. CASE ScanClosed
  <2>1. i' \in 0 .. MaxClients /\ pc' \in {"accept", "scan"}
    BY <1>0, <1>6 DEF ScanClosed, NextSlot, LanLocals, Slots
  <2>2. count' \in -MinCount .. 0
    BY <1>0, <1>6 DEF ScanClosed, TypeOK
  <2>3. conn' \in [Fds -> {"none", "quiet", "data", "fin", "closed"}]
    BY <1>6 DEF ScanClosed, TypeOK
  <2>4. lan_client' \in [Slots -> Fds \cup {NoFd}] /\ fdset' \in SUBSET Fds
    BY <1>6 DEF ScanClosed, TypeOK
  <2> QED BY <1>6, <2>1, <2>2, <2>3, <2>4 DEF ScanClosed, TypeOK
<1>7. CASE AcceptNone
  BY <1>7 DEF AcceptNone, TypeOK
<1>8. CASE Accept
  <2>1. /\ LowestFree \in Fds /\ LowestFree + 1 \in Fds \cup {NumSockets}
    BY <1>8, LowestIsFree DEF Accept
  <2>2. lan_client' \in [Slots -> Fds \cup {NoFd}] /\ pc' \in {"undefined", "first"}
    BY <1>8, <2>1 DEF Accept, TypeOK
  <2>3. conn' \in [Fds -> {"none", "quiet", "data", "fin", "closed"}]
        /\ sockets' \in [Fds -> {"free", "other", "listen", "client", "udp"}]
        /\ max_sock' \in Fds \cup {NoFd, NumSockets}
    BY <1>8, <2>1 DEF Accept, TypeOK
  <2> QED BY <1>8, <2>1, <2>2, <2>3 DEF Accept, TypeOK
<1>9. CASE FirstRecv
  BY <1>9 DEF FirstRecv, TypeOK
<1>10. CASE PhoneConnects \/ PhoneActs
  BY <1>10 DEF PhoneConnects, PhoneActs, TypeOK, tcpVars
<1>11. CASE OtherOpen \/ OtherClose
  BY <1>11, LowestIsFree DEF OtherOpen, OtherClose, TypeOK, tcpVars
<1>12. CASE UNCHANGED vars
  BY <1>12 DEF vars, tcpVars, TypeOK
<1> QED
  BY <1>1, <1>2, <1>3, <1>4, <1>5, <1>6, <1>7, <1>8, <1>9, <1>10, <1>11, <1>12
  DEF Next, TcpServerStep

(* Every step keeps what the invariant says of locals, table and sockets.  *)
LEMMA LanStep == LanInv /\ [Next]_vars => LanInv'
<1> SUFFICES ASSUME LanInv, [Next]_vars
             PROVE  LanLocals' /\ ConnsAreClients' /\ TableKept' /\ UdpSockets'
  BY LanTypeStep DEF LanInv
<1>0. NumSockets \in Nat \ {0} /\ MaxClients \in Nat \ {0} /\ MinCount \in Nat
  BY LanServerAssumption
<1>t. /\ sockets \in [Fds -> {"free", "other", "listen", "client", "udp"}]
      /\ conn \in [Fds -> {"none", "quiet", "data", "fin", "closed"}]
      /\ lan_client \in [Slots -> Fds \cup {NoFd}]
      /\ i \in 0 .. MaxClients /\ new_fd \in Fds \cup {NoFd}
      /\ NoFd \notin Fds
      /\ TypeOK'
  BY LanTypeStep, <1>0 DEF LanInv, TypeOK, NoFd, Fds
<1>i. LanLocals /\ ConnsAreClients /\ TableKept /\ UdpSockets
  BY DEF LanInv
<1> USE DEF InTable
<1>1. CASE Socket_CreateUDPServer
  <2>1. LowestFree \in Fds /\ sockets[LowestFree] = "free"
    BY <1>1, LowestIsFree DEF Socket_CreateUDPServer
  <2>2. /\ UDPServerFd = NoFd
        /\ sockets' # sockets => /\ sockets' = [sockets EXCEPT ![LowestFree] = "udp"]
                                 /\ LowestFree \in {0, UDPServerFd'}
        /\ sockets' = sockets \/ sockets' = [sockets EXCEPT ![LowestFree] = "udp"]
        /\ UNCHANGED <<conn, TCPServerFd, lan_client, i, new_fd, pc>>
    BY <1>1, <2>1, <1>0 DEF Socket_CreateUDPServer, UdpRejects, Fds, tcpVars
  <2>3. UdpSockets'
    BY <1>t, <1>i, <2>1, <2>2 DEF UdpSockets
  <2>4. LanLocals' /\ ConnsAreClients'
    BY <1>t, <1>i, <2>1, <2>2 DEF LanLocals, ConnsAreClients
  <2>5. TableKept'
    BY <1>t, <1>i, <2>1, <2>2 DEF TableKept
  <2> QED BY <2>3, <2>4, <2>5
<1>2. CASE Socket_CreateTCPServer
  <2>1. LowestFree \in Fds /\ sockets[LowestFree] = "free"
    BY <1>2, LowestIsFree DEF Socket_CreateTCPServer
  <2>2. UdpSockets' /\ LanLocals' /\ ConnsAreClients'
    BY <1>t, <1>i, <1>2, <2>1
    DEF UdpSockets, LanLocals, ConnsAreClients, Socket_CreateTCPServer
  <2>3. \A f \in Fds : conn[f] = "none"
    BY <1>2, <1>t, <1>i DEF ConnsAreClients, TableKept, Socket_CreateTCPServer
  <2>4. TableKept'
    BY <1>t, <1>2, <2>3 DEF TableKept, Socket_CreateTCPServer
  <2> QED BY <2>2, <2>4
<1>3. CASE Select
  <2>1. i' \in Slots
    BY <1>0, <1>3 DEF Select, Slots
  <2> QED BY <1>t, <1>i, <1>3, <2>1
          DEF Select, UdpSockets, LanLocals, ConnsAreClients, TableKept
<1>4. CASE ScanSkip
  <2>1. pc = "scan" /\ pc' \in {"scan", "accept"} /\ (pc' = "scan" => i' \in Slots)
    BY <1>0, <1>i, <1>4 DEF ScanSkip, NextSlot, LanLocals, Slots
  <2> QED BY <1>t, <1>i, <1>4, <2>1
          DEF ScanSkip, UdpSockets, LanLocals, ConnsAreClients, TableKept
<1>5. CASE ScanData
  <2>1. pc = "scan" /\ pc' \in {"scan", "accept"} /\ (pc' = "scan" => i' \in Slots)
    BY <1>0, <1>i, <1>5 DEF ScanData, NextSlot, LanLocals, Slots
  <2>2. /\ lan_client[i] \in Fds /\ conn[lan_client[i]] = "data"
        /\ conn' = [conn EXCEPT ![lan_client[i]] = "quiet"]
        /\ UNCHANGED <<sockets, UDPServerFd, TCPServerFd, lan_client, new_fd>>
    BY <1>t, <1>i, <1>5 DEF ScanData, HasData, LanLocals
  <2>3. UdpSockets' /\ LanLocals' /\ ConnsAreClients'
    BY <1>t, <1>i, <2>1, <2>2 DEF UdpSockets, LanLocals, ConnsAreClients
  <2>4. TableKept'
    BY <1>t, <1>i, <2>1, <2>2 DEF TableKept
  <2> QED BY <2>3, <2>4
<1>6. CASE ScanClosed
  <2>1. pc = "scan" /\ pc' \in {"scan", "accept"} /\ (pc' = "scan" => i' \in Slots)
    BY <1>0, <1>i, <1>6 DEF ScanClosed, NextSlot, LanLocals, Slots
  <2>2. /\ i \in Slots /\ lan_client' = [lan_client EXCEPT ![i] = NoFd]
        /\ UNCHANGED <<sockets, UDPServerFd, TCPServerFd, new_fd>>
        /\ conn' = IF lan_client[i] = NoFd THEN conn
                   ELSE [conn EXCEPT ![lan_client[i]] = "closed"]
    BY <1>i, <1>6 DEF ScanClosed, LanLocals
  <2>3. UdpSockets' /\ LanLocals'
    BY <1>t, <1>i, <2>1, <2>2 DEF UdpSockets, LanLocals
  <2>4. ConnsAreClients'
    BY <1>t, <1>i, <2>1, <2>2 DEF ConnsAreClients, TableKept
  <2>5. \A f \in Fds : conn'[f] \in {"quiet", "data", "fin"} =>
                        conn'[f] = conn[f] /\ f # lan_client[i]
    BY <1>t, <2>2
  <2>6. TableKept'
    BY <1>t, <1>i, <2>1, <2>2, <2>5 DEF TableKept
  <2> QED BY <2>3, <2>4, <2>6
<1>7. CASE AcceptNone
  BY <1>t, <1>i, <1>7 DEF AcceptNone, UdpSockets, LanLocals, ConnsAreClients, TableKept
<1>8. CASE Accept
  <2>1. LowestFree \in Fds /\ sockets[LowestFree] = "free"
    BY <1>8, LowestIsFree DEF Accept
  <2>2. /\ pc = "accept" /\ new_fd' = LowestFree
        /\ sockets' = [sockets EXCEPT ![LowestFree] = "client"]
        /\ conn' = [conn EXCEPT ![LowestFree] = "quiet"]
        /\ UNCHANGED <<UDPServerFd, TCPServerFd>>
    BY <1>8 DEF Accept
  <2>3. UdpSockets' /\ ConnsAreClients'
    BY <1>t, <1>i, <2>1, <2>2 DEF UdpSockets, ConnsAreClients
  <2>4. CASE EmptySlot = MaxClients
    <3>1. pc' = "undefined"
      BY <1>8, <2>4 DEF Accept
    <3> QED BY <2>3, <3>1 DEF LanLocals, TableKept
  <2>5. CASE EmptySlot # MaxClients
    <3> DEFINE e == EmptySlot
               l == LowestFree
    <3>1. pc' = "first" /\ lan_client' = [lan_client EXCEPT ![e] = l]
      BY <1>8, <2>5 DEF Accept
    <3>2. e \in Slots /\ lan_client[e] = NoFd
      BY <2>5, EmptySlotIsEmpty
    <3> HIDE DEF e
    <3>3. LanLocals'
      BY <1>t, <1>i, <2>1, <2>2, <3>1 DEF LanLocals
    <3>4. \A s \in Slots : lan_client[s] # LowestFree
      BY <1>t, <1>i, <2>1, <2>2 DEF TableKept
    <3>5. TableKept'
      BY <1>t, <1>i, <2>1, <2>2, <3>1, <3>2, <3>4 DEF TableKept
    <3> QED BY <2>3, <3>3, <3>5
  <2> QED BY <2>4, <2>5
<1>9. CASE FirstRecv
  <2>1. /\ pc = "first" /\ pc' = "select" /\ new_fd \in Fds /\ conn[new_fd] # "none"
        /\ conn[new_fd] # "quiet"
        /\ conn' = [conn EXCEPT ![new_fd] = IF conn[new_fd] = "data" THEN "quiet" ELSE "closed"]
        /\ UNCHANGED <<sockets, UDPServerFd, TCPServerFd, lan_client, i, new_fd>>
    BY <1>i, <1>9 DEF FirstRecv, LanLocals
  <2>2. UdpSockets' /\ LanLocals' /\ ConnsAreClients'
    BY <1>t, <1>i, <2>1 DEF UdpSockets, LanLocals, ConnsAreClients
  <2>3. TableKept'
    BY <1>t, <1>i, <2>1 DEF TableKept
  <2> QED BY <2>2, <2>3
<1>10. CASE PhoneConnects
  BY <1>t, <1>i, <1>10
  DEF PhoneConnects, tcpVars, UdpSockets, LanLocals, ConnsAreClients, TableKept
<1>11. CASE PhoneActs
  <2>1. PICK f \in Fds, c \in {"data", "fin"} :
          conn[f] = "quiet" /\ conn' = [conn EXCEPT ![f] = c]
    BY <1>11 DEF PhoneActs
  <2>2. UNCHANGED <<sockets, UDPServerFd, TCPServerFd, lan_client, i, new_fd, pc>>
    BY <1>11 DEF PhoneActs, tcpVars
  <2>3. UdpSockets' /\ LanLocals' /\ ConnsAreClients'
    BY <1>t, <1>i, <2>1, <2>2 DEF UdpSockets, LanLocals, ConnsAreClients
  <2>4. TableKept'
    BY <1>t, <1>i, <2>1, <2>2 DEF TableKept
  <2> QED BY <2>3, <2>4
<1>12. CASE OtherOpen \/ OtherClose
  <2>1. PICK f \in Fds, u \in {"free", "other"} :
          sockets[f] \in {"free", "other"} /\ sockets' = [sockets EXCEPT ![f] = u]
    BY <1>12, LowestIsFree DEF OtherOpen, OtherClose
  <2>2. UNCHANGED <<conn, UDPServerFd, TCPServerFd, lan_client, i, new_fd, pc>>
    BY <1>12 DEF OtherOpen, OtherClose, tcpVars
  <2>3. UdpSockets' /\ LanLocals' /\ ConnsAreClients'
    BY <1>t, <1>i, <2>1, <2>2 DEF UdpSockets, LanLocals, ConnsAreClients
  <2>4. TableKept'
    BY <1>t, <1>i, <2>1, <2>2 DEF TableKept
  <2> QED BY <2>3, <2>4
<1>13. CASE UNCHANGED vars
  BY <1>i, <1>13 DEF vars, tcpVars, UdpSockets, LanLocals, ConnsAreClients, TableKept
<1> QED
  BY <1>1, <1>2, <1>3, <1>4, <1>5, <1>6, <1>7, <1>8, <1>9, <1>10, <1>11, <1>12, <1>13
  DEF Next, TcpServerStep

(* Two descriptors are the most a set within {0, UDPServerFd} can hold.    *)
LEMMA AtMostTwo ==
  ASSUME NEW a, NEW b, NEW T, T \subseteq {a, b}
  PROVE  Cardinality(T) <= 2
<1>1. IsFiniteSet({a}) /\ Cardinality({a}) = 1
  BY FS_Singleton
<1>2. IsFiniteSet({a} \cup {b}) /\ Cardinality({a} \cup {b}) \in {1, 2}
  BY <1>1, FS_AddElement
<1>3. {a, b} = {a} \cup {b}
  OBVIOUS
<1>4. Cardinality(T) <= Cardinality({a, b}) /\ Cardinality(T) \in Nat
  BY <1>2, <1>3, FS_Subset, FS_CardinalityType
<1> QED BY <1>2, <1>3, <1>4

(* The LAN server keeps every client it accepted in exactly one slot, and  *)
(* the UDP server's test for descriptor 0 costs at most one descriptor:    *)
(* for any number of sockets and slots.                                    *)
THEOREM DescriptorsCorrect == Spec => []DescriptorsKept
<1>1. LanInv => DescriptorsKept
  <2> SUFFICES ASSUME LanInv PROVE KeepsClients /\ UdpLosesOne
    BY DEF DescriptorsKept
  <2>1. ASSUME pc # "undefined", NEW f \in Fds, conn[f] \in {"quiet", "data", "fin"}
        PROVE  Cardinality({s \in Slots : lan_client[s] = f}) = 1
    <3>1. pc # "create" /\ f # NoFd
      BY <2>1, LanServerAssumption DEF LanInv, TableKept, ConnsAreClients, Fds, NoFd
    <3>2. PICK s \in Slots : lan_client[s] = f
      BY <2>1, <3>1 DEF LanInv, TableKept, InTable
    <3>3. {r \in Slots : lan_client[r] = f} = {s}
      BY <2>1, <3>1, <3>2 DEF LanInv, TableKept
    <3> QED BY <3>3, FS_Singleton
  <2>2. UdpLosesOne
    <3>1. {f \in Fds : sockets[f] = "udp"} \subseteq {0, UDPServerFd}
      BY DEF LanInv, UdpSockets
    <3> QED BY <3>1, AtMostTwo DEF UdpLosesOne
  <2> QED BY <2>1, <2>2 DEF KeepsClients
<1> QED BY <1>1, LanInvInit, LanStep, PTL DEF Spec

-----------------------------------------------------------------------------
(* The DHCP client.                                                        *)

(* The states that hold a lease; the types of the record.                  *)
LeasedStates == {"BOUND", "RENEWING", "REBINDING"}
AnyLease == LeaseAddr \cup {AnyAddr}
LeaseTicks == {0, Forever} \cup UNION {{p[1], p[2]} : p \in LeaseTimes}
ClientRecord ==
  [state : ClientState, tries : 0 .. TriesMod - 1, timeout : BOOLEAN, offered : AnyLease,
   t1 : 0 .. CoarseMod - 1, t2 : 0 .. CoarseMod - 1, renew : LeaseTicks, rebind : LeaseTicks,
   asked : SUBSET Requests, addr : AnyLease, up : BOOLEAN]

(* The interface has an address only in the states that hold a lease, or   *)
(* after ifUpWhenDhcp has given up, and it is the one the client works     *)
(* with.                                                                   *)
AddressOf(c, f) ==
  /\ c.addr # AnyAddr => c.state \in LeasedStates \cup {"OFF"} /\ c.addr = c.offered
  /\ c.addr # AnyAddr /\ c.state = "OFF" => f = "failed"
  /\ f = "idle" => c.state = "OFF" /\ c.addr = AnyAddr

(* As long as no transaction number was used for two states, what may      *)
(* still be acknowledged is the offer the client works with.               *)
OnlyOffered(c) ==
  c.state \in {"REQUESTING", "RENEWING", "REBINDING"} =>
    \A r \in c.asked : r.type = "REQUEST" => r.addr \in {AnyAddr, c.offered}

LeaseOf(c, ack) ==
  /\ c.state = "CHECKING" => c.offered = ack
  /\ c.addr # AnyAddr => c.addr = ack

(* The inductive invariant of the client.                                  *)
ClientInv ==
  /\ ClientTypeOK /\ AddressOf(client, ifUp)
  /\ ~reused => OnlyOffered(client) /\ LeaseOf(client, acked)

(* What the constants are.                                                 *)
LEMMA ClientFacts ==
  /\ CoarseMod \in Nat \ {0, 1} /\ TriesMod \in Nat \ {0, 1} /\ AnyAddr \notin LeaseAddr
  /\ MaxNoMem \in Nat /\ SelectTries \in Nat /\ RebindTries \in Nat
  /\ Forever \notin Nat /\ LeaseTicks \subseteq Nat \cup {Forever}
  /\ \A p \in LeaseTimes : p[1] \in LeaseTicks /\ p[2] \in LeaseTicks
<1>1. LeaseTimes \subseteq (Nat \cup {Forever}) \X (Nat \cup {Forever})
  BY DhcpClientAssumption
<1>2. \A p \in LeaseTimes : p[1] \in Nat \cup {Forever} /\ p[2] \in Nat \cup {Forever}
  BY <1>1
<1>3. LeaseTicks \subseteq Nat \cup {Forever}
  BY <1>2 DEF LeaseTicks
<1>4. \A p \in LeaseTimes : p[1] \in LeaseTicks /\ p[2] \in LeaseTicks
  BY DEF LeaseTicks
<1> QED BY <1>3, <1>4, DhcpClientAssumption

(* dhcp_set_state touches nothing but the state, tries and the timeout.    *)
LEMMA SetState ==
  ASSUME NEW c \in ClientRecord, NEW s \in ClientState
  PROVE  LET d == dhcp_set_state(c, s)
         IN  /\ d \in ClientRecord /\ d.state = s
             /\ d.offered = c.offered /\ d.addr = c.addr /\ d.asked = c.asked
             /\ d.tries = 0 \/ d = c
             /\ c.state # s => d.tries = 0
<1>0. 0 \in 0 .. TriesMod - 1
  BY ClientFacts
<1>1. CASE c.state = s
  BY <1>1 DEF dhcp_set_state
<1>2. CASE c.state # s
  <2> DEFINE d == [c EXCEPT !.state = s, !.tries = 0, !.timeout = FALSE]
  <2>1. d \in ClientRecord
    BY <1>0, Zenon DEF ClientRecord
  <2>2. /\ d.state = s /\ d.tries = 0
        /\ d.offered = c.offered /\ d.addr = c.addr /\ d.asked = c.asked
    BY Zenon DEF ClientRecord
  <2>3. dhcp_set_state(c, s) = d
    BY <1>2 DEF dhcp_set_state
  <2> HIDE DEF d
  <2> QED BY <1>2, <2>1, <2>2, <2>3
<1> QED BY <1>1, <1>2

(* dhcp_create_msg adds the request, under a new number if it is the first *)
(* of its state.                                                           *)
LEMMA SentFields ==
  ASSUME NEW c \in ClientRecord, NEW R \in SUBSET Requests, NEW mem \in BOOLEAN
  PROVE  LET d == Sent(c, R, mem)
         IN  /\ d \in ClientRecord /\ d.state = c.state /\ d.tries = c.tries
             /\ d.offered = c.offered /\ d.addr = c.addr
             /\ d.asked = IF ~mem THEN c.asked
                          ELSE IF c.tries = 0 THEN R ELSE c.asked \cup R
<1>1. CASE ~mem
  BY <1>1 DEF Sent
<1>2. CASE mem
  <2> DEFINE a == IF c.tries = 0 THEN R ELSE c.asked \cup R
             d == [c EXCEPT !.asked = a]
  <2>1. c.asked \in SUBSET Requests /\ a \in SUBSET Requests
    BY DEF ClientRecord
  <2>2. Sent(c, R, mem) = d
    <3>1. (IF c.tries = 0 THEN {} ELSE c.asked) \cup R = a
      OBVIOUS
    <3> QED BY <1>2, <3>1, Zenon DEF Sent
  <2> HIDE DEF a
  <2>3. d \in ClientRecord
    BY <2>1, Zenon DEF ClientRecord
  <2>4. /\ d.state = c.state /\ d.tries = c.tries
        /\ d.offered = c.offered /\ d.addr = c.addr /\ d.asked = a
    BY Zenon DEF ClientRecord
  <2> HIDE DEF d
  <2> QED BY <1>2, <2>2, <2>3, <2>4 DEF a
<1> QED BY <1>1, <1>2

(* The end of a function that sends touches tries and the timeout only.    *)
LEMMA TriedFields ==
  ASSUME NEW c \in ClientRecord, NEW d, d \in {Tried(c), TriedLonger(c)}
  PROVE  /\ d \in ClientRecord /\ d.state = c.state /\ d.asked = c.asked
         /\ d.offered = c.offered /\ d.addr = c.addr
<1> DEFINE n == (c.tries + 1) % TriesMod
           e(b) == [c EXCEPT !.tries = n, !.timeout = b]
<1>1. n \in 0 .. TriesMod - 1
  <2>1. c.tries \in 0 .. TriesMod - 1
    BY DEF ClientRecord
  <2> QED BY <2>1, ClientFacts
<1>2. Tried(c) = e(TRUE)
  BY DEF Tried
<1> HIDE DEF n
<1>3. \A b \in BOOLEAN : /\ e(b) \in ClientRecord /\ e(b).state = c.state
                         /\ e(b).asked = c.asked /\ e(b).offered = c.offered
                         /\ e(b).addr = c.addr
  BY <1>1, Zenon DEF ClientRecord
<1>4. \E b \in BOOLEAN : TriedLonger(c) = e(b)
  <2> DEFINE b == Tried(c).tries # 0
  <2>1. TriedLonger(c) = [e(TRUE) EXCEPT !.timeout = b]
    BY <1>2 DEF TriedLonger
  <2>2. [e(TRUE) EXCEPT !.timeout = b] = e(b)
    BY Zenon DEF ClientRecord
  <2>3. b \in BOOLEAN
    BY Zenon
  <2> QED BY <2>1, <2>2, <2>3
<1> HIDE DEF e
<1> QED BY <1>2, <1>3, <1>4

(* The record d after client c has sent R from state s.                    *)
AfterSending(d, c, s, R, mem) ==
  d \in {Tried(Sent(dhcp_set_state(c, s), R, mem)),
         TriedLonger(Sent(dhcp_set_state(c, s), R, mem))}

(* A function that sends from state s: what is asked afterwards.           *)
LEMMA Asks ==
  ASSUME NEW c \in ClientRecord, NEW s \in ClientState, NEW R \in SUBSET Requests,
         NEW mem \in BOOLEAN, NEW d, AfterSending(d, c, s, R, mem)
  PROVE  /\ d \in ClientRecord /\ d.state = s /\ d.offered = c.offered /\ d.addr = c.addr
         /\ ~mem => d.asked = c.asked
         /\ mem => d.asked \subseteq (IF c.state = s THEN c.asked ELSE {}) \cup R
<1> DEFINE a == dhcp_set_state(c, s)
           b == Sent(a, R, mem)
<1>1. /\ a \in ClientRecord /\ a.state = s
      /\ a.offered = c.offered /\ a.addr = c.addr /\ a.asked = c.asked
      /\ c.state # s => a.tries = 0
  BY SetState, Zenon
<1> HIDE DEF a
<1>2. /\ b \in ClientRecord /\ b.state = a.state
      /\ b.offered = a.offered /\ b.addr = a.addr
      /\ b.asked = IF ~mem THEN a.asked ELSE IF a.tries = 0 THEN R ELSE a.asked \cup R
  BY <1>1, SentFields, Zenon
<1>0. d \in {Tried(b), TriedLonger(b)}
  BY DEF a, AfterSending
<1> HIDE DEF b
<1>3. /\ d \in ClientRecord /\ d.state = b.state /\ d.asked = b.asked
      /\ d.offered = b.offered /\ d.addr = b.addr
  BY ONLY <1>0, <1>2, TriedFields, Zenon
<1>4. mem => d.asked \subseteq (IF c.state = s THEN c.asked ELSE {}) \cup R
  BY <1>1, <1>2, <1>3
<1> QED BY <1>1, <1>2, <1>3, <1>4

(* The requests of the functions below.                                    *)
LEMMA RequestType ==
  \A t \in {"DISCOVER", "REQUEST"}, a \in AnyLease :
    /\ {Request(t, a)} \in SUBSET Requests
    /\ Request(t, a).type = t /\ Request(t, a).addr = a
BY DEF Request, Requests, AnyLease

(* dhcp_discover leaves the interface alone.                               *)
LEMMA Discovers ==
  ASSUME NEW c \in ClientRecord, NEW mem \in BOOLEAN
  PROVE  LET d == dhcp_discover(c, mem)
         IN  d \in ClientRecord /\ d.state = "SELECTING" /\ d.addr = c.addr
<1> DEFINE e == [c EXCEPT !.offered = AnyAddr]
           d == dhcp_discover(c, mem)
<1>1. e \in ClientRecord /\ e.addr = c.addr
  BY Zenon DEF ClientRecord, AnyLease
<1>2. AnyAddr \in AnyLease /\ "SELECTING" \in ClientState
  BY DEF AnyLease, ClientState
<1>3. {Request("DISCOVER", AnyAddr)} \in SUBSET Requests
  BY <1>2, RequestType
<1>4. d = Tried(Sent(dhcp_set_state(e, "SELECTING"), {Request("DISCOVER", AnyAddr)}, mem))
  BY DEF dhcp_discover
<1> HIDE DEF e, d
<1>5. d \in ClientRecord /\ d.state = "SELECTING" /\ d.addr = e.addr
  <2> DEFINE R == {Request("DISCOVER", AnyAddr)}
  <2>1. AfterSending(d, e, "SELECTING", R, mem) /\ R \in SUBSET Requests
    BY <1>3, <1>4 DEF AfterSending
  <2> HIDE DEF R
  <2> QED BY ONLY <1>1, <1>2, <2>1, mem \in BOOLEAN, Asks
<1> QED BY <1>1, <1>5 DEF d

(* Asking for an address: the client's offer, or that of the interface.    *)
LEMMA AsksFor ==
  ASSUME NEW c \in ClientRecord, NEW mem \in BOOLEAN, NEW s \in ClientState, NEW x \in AnyLease,
         NEW d, AfterSending(d, c, s, {Request("REQUEST", x)}, mem)
  PROVE  /\ d \in ClientRecord /\ d.state = s /\ d.offered = c.offered /\ d.addr = c.addr
         /\ (x \in {AnyAddr, c.offered} /\ (c.state = s => OnlyOffered(c))
             /\ ~(~mem /\ d.state # c.state /\ d.asked # {})) => OnlyOffered(d)
<1> DEFINE R == {Request("REQUEST", x)}
<1>1. R \in SUBSET Requests /\ \A r \in R : r.addr = x
  BY RequestType
<1>2. AfterSending(d, c, s, R, mem)
  OBVIOUS
<1> HIDE DEF R
<1>3. /\ d \in ClientRecord /\ d.state = s /\ d.offered = c.offered /\ d.addr = c.addr
      /\ ~mem => d.asked = c.asked
      /\ mem => d.asked \subseteq (IF c.state = s THEN c.asked ELSE {}) \cup R
  BY ONLY <1>1, <1>2, c \in ClientRecord, mem \in BOOLEAN, s \in ClientState, Asks
<1>4. ASSUME x \in {AnyAddr, c.offered}, c.state = s => OnlyOffered(c),
             ~(~mem /\ d.state # c.state /\ d.asked # {})
      PROVE  OnlyOffered(d)
  <2> SUFFICES ASSUME d.state \in {"REQUESTING", "RENEWING", "REBINDING"},
                      NEW r \in d.asked, r.type = "REQUEST"
               PROVE  r.addr \in {AnyAddr, d.offered}
    BY DEF OnlyOffered
  <2>1. CASE r \in R
    BY <1>1, <1>3, <1>4, <2>1
  <2>2. CASE r \notin R
    <3>1. c.state = s /\ r \in c.asked
      BY <1>3, <1>4, <2>2
    <3> QED BY <1>3, <1>4, <3>1 DEF OnlyOffered
  <2> QED BY <2>1, <2>2
<1> QED BY <1>3, <1>4

(* The interface loses its address.                                        *)
LEMMA Unconfigures ==
  ASSUME NEW c \in ClientRecord
  PROVE  LET d == Unconfigured(c)
         IN  d \in ClientRecord /\ d.state = c.state /\ d.addr = AnyAddr
             /\ d.offered = c.offered
BY Zenon DEF Unconfigured, ClientRecord, AnyLease

(* After dhcp_release the interface has no address.                        *)
LEMMA Releases ==
  ASSUME NEW c \in ClientRecord, NEW mem \in BOOLEAN
  PROVE  LET d == dhcp_release(c, mem)
         IN  d \in ClientRecord /\ d.addr = AnyAddr
<1> DEFINE a == dhcp_set_state(c, "OFF")
           off == [a EXCEPT !.offered = AnyAddr, !.renew = 0, !.rebind = 0]
           b == Sent(off, {}, mem)
           e == TriedLonger(b)
<1>1. a \in ClientRecord
  BY SetState, Zenon DEF ClientState
<1> HIDE DEF a
<1>2. off \in ClientRecord
  <2>1. 0 \in LeaseTicks /\ AnyAddr \in AnyLease
    BY DEF LeaseTicks, AnyLease
  <2> QED BY <1>1, <2>1, Zenon DEF ClientRecord
<1>d. dhcp_release(c, mem) = Unconfigured(e)
  BY DEF dhcp_release, a
<1> HIDE DEF off
<1>3. b \in ClientRecord
  <2>1. {} \in SUBSET Requests
    OBVIOUS
  <2> QED BY <1>2, <2>1, SentFields, Zenon
<1> HIDE DEF b
<1>4. e \in ClientRecord
  BY <1>3, TriedFields
<1> HIDE DEF e
<1> QED BY <1>d, <1>4, Unconfigures

(* Binding: the times of the lease are in range.                           *)
LEMMA TicksType ==
  ASSUME NEW n \in LeaseTicks, NEW old \in 0 .. CoarseMod - 1
  PROVE  Ticks(n, old) \in 0 .. CoarseMod - 1
BY ClientFacts DEF Ticks

(* dhcp_bind gives the interface the address of the offer.                 *)
LEMMA Binds ==
  ASSUME NEW c \in ClientRecord
  PROVE  LET d == dhcp_bind(c)
         IN  d \in ClientRecord /\ d.state = "BOUND" /\ d.addr = c.offered
             /\ d.offered = c.offered
<1> DEFINE t1 == Ticks(c.renew, c.t1)
           t2 == Ticks(c.rebind, c.t2)
           t  == IF t1 >= t2 /\ t2 > 0 THEN 0 ELSE t1
           e  == [c EXCEPT !.t1 = t, !.t2 = t2, !.addr = c.offered, !.up = TRUE]
<1>1. /\ c.renew \in LeaseTicks /\ c.rebind \in LeaseTicks /\ c.offered \in AnyLease
      /\ c.t1 \in 0 .. CoarseMod - 1 /\ c.t2 \in 0 .. CoarseMod - 1
  BY DEF ClientRecord
<1>2. t1 \in 0 .. CoarseMod - 1 /\ t2 \in 0 .. CoarseMod - 1
  BY <1>1, TicksType
<1>3. dhcp_bind(c) = dhcp_set_state(e, "BOUND")
  BY DEF dhcp_bind
<1> HIDE DEF t1, t2
<1>4. t \in 0 .. CoarseMod - 1
  BY <1>2, ClientFacts
<1> HIDE DEF t
<1>5. e \in ClientRecord /\ e.addr = c.offered /\ e.offered = c.offered
  BY <1>1, <1>2, <1>4, Zenon DEF ClientRecord
<1> HIDE DEF e
<1>6. "BOUND" \in ClientState
  BY DEF ClientState
<1>7. LET d == dhcp_set_state(e, "BOUND")
      IN  d \in ClientRecord /\ d.state = "BOUND" /\ d.offered = e.offered /\ d.addr = e.addr
  BY <1>5, <1>6, SetState, Zenon
<1> QED BY <1>3, <1>5, <1>7, Zenon

(* dhcp_check leaves the offer and the interface alone.                    *)
LEMMA Checks ==
  ASSUME NEW c \in ClientRecord
  PROVE  LET d == dhcp_check(c)
         IN  d \in ClientRecord /\ d.state = "CHECKING" /\ d.addr = c.addr
             /\ d.offered = c.offered
<1> DEFINE a == dhcp_set_state(c, "CHECKING")
<1>1. a \in ClientRecord /\ a.state = "CHECKING" /\ a.addr = c.addr /\ a.offered = c.offered
  BY SetState, Zenon DEF ClientState
<1>2. dhcp_check(c) = Tried(a)
  BY DEF dhcp_check
<1> HIDE DEF a
<1> QED BY <1>1, <1>2, TriedFields

(* dhcp_decline leaves the interface alone.                                *)
LEMMA Declines ==
  ASSUME NEW c \in ClientRecord, NEW mem \in BOOLEAN
  PROVE  LET d == dhcp_decline(c, mem)
         IN  d \in ClientRecord /\ d.state = "BACKING_OFF" /\ d.addr = c.addr
<1> DEFINE d == dhcp_decline(c, mem)
           R == {}
<1>1. AfterSending(d, c, "BACKING_OFF", R, mem)
  BY DEF dhcp_decline, AfterSending
<1>2. "BACKING_OFF" \in ClientState /\ R \in SUBSET Requests
  BY DEF ClientState
<1> HIDE DEF d, R
<1>3. d \in ClientRecord /\ d.state = "BACKING_OFF" /\ d.addr = c.addr
  BY ONLY <1>1, <1>2, c \in ClientRecord, mem \in BOOLEAN, Asks
<1> QED BY <1>3 DEF d

(* The types, with the names used here.                                    *)
LEMMA ClientTypes ==
  ClientTypeOK <=> /\ client \in ClientRecord
                   /\ ifUp \in {"idle", "wait", "up", "failed"} /\ linkReady \in BOOLEAN
                   /\ noMem \in 0 .. MaxNoMem /\ reused \in BOOLEAN /\ acked \in AnyLease
BY DEF ClientTypeOK, ClientRecord, LeaseTicks, AnyLease

(* The same of the state after a step.                                     *)
LEMMA TypeLater ==
  ASSUME client' \in ClientRecord, ifUp' \in {"idle", "wait", "up", "failed"},
         linkReady' \in BOOLEAN, noMem' \in 0 .. MaxNoMem, reused' \in BOOLEAN,
         acked' \in AnyLease
  PROVE  ClientTypeOK'
BY DEF ClientTypeOK, ClientRecord, LeaseTicks, AnyLease

(* The history of the memory keeps its type.                               *)
LEMMA MemoryType ==
  ASSUME ClientTypeOK, NEW mem \in BOOLEAN, NEW c, Memory(mem, c)
  PROVE  /\ noMem' \in 0 .. MaxNoMem /\ reused' \in BOOLEAN
         /\ ~reused' => ~reused /\ ~(~mem /\ c.state # client.state /\ c.asked # {})
<1>1. noMem \in 0 .. MaxNoMem /\ MaxNoMem \in Nat
  BY ClientTypes, ClientFacts
<1>2. noMem' \in 0 .. MaxNoMem
  BY <1>1 DEF Memory
<1>3. reused' = (reused \/ (~mem /\ c.state # client.state /\ c.asked # {}))
  BY DEF Memory
<1>4. reused' \in BOOLEAN
  BY <1>3, Zenon
<1> QED BY <1>2, <1>3, <1>4

(* The client is off and the interface has no address.                     *)
LEMMA ClientInvInit == ClientInit => ClientInv
<1> SUFFICES ASSUME ClientInit PROVE ClientInv
  OBVIOUS
<1>1. /\ 0 \in 0 .. TriesMod - 1 /\ 0 \in 0 .. CoarseMod - 1 /\ 0 \in 0 .. MaxNoMem
      /\ 0 \in LeaseTicks /\ AnyAddr \in AnyLease /\ {} \in SUBSET Requests
  BY ClientFacts DEF LeaseTicks, AnyLease
<1>2. NoClient \in ClientRecord
  BY <1>1, Zenon DEF NoClient, ClientRecord, ClientState
<1>3. ClientTypeOK
  BY <1>1, <1>2, ClientTypes DEF ClientInit
<1>4. /\ client.addr = AnyAddr /\ client.state = "OFF"
  BY DEF ClientInit, NoClient
<1>5. AddressOf(client, ifUp) /\ OnlyOffered(client) /\ LeaseOf(client, acked)
  BY <1>4 DEF AddressOf, OnlyOffered, LeaseOf
<1> QED BY <1>3, <1>5 DEF ClientInv

(* dhcp_fine_tmr.                                                          *)
LEMMA FineStep == ClientInv /\ dhcp_fine_tmr => ClientInv'
<1> SUFFICES ASSUME ClientInv, dhcp_fine_tmr PROVE ClientInv'
  OBVIOUS
<1> DEFINE c == [client EXCEPT !.timeout = FALSE]
<1>1. PICK mem \in BOOLEAN : SendStep(dhcp_timeout(c, mem), mem)
  BY DEF dhcp_fine_tmr
<1> DEFINE d == dhcp_timeout(c, mem)
<1>2. /\ client' = d /\ Memory(mem, d) /\ ifUp' = ifUp /\ linkReady' = linkReady
      /\ acked' = IF d.addr = AnyAddr /\ client.addr # AnyAddr THEN AnyAddr ELSE acked
  BY <1>1 DEF dhcp_fine_tmr, SendStep, StackStep
<1>3. /\ client \in ClientRecord /\ ClientTypeOK /\ acked' \in AnyLease
  BY <1>2, ClientTypes DEF ClientInv, AnyLease
<1>4. /\ c \in ClientRecord /\ c.state = client.state /\ c.addr = client.addr
      /\ c.offered = client.offered /\ c.asked = client.asked /\ c.tries = client.tries
  BY <1>3, Zenon DEF ClientRecord
<1>5. /\ noMem' \in 0 .. MaxNoMem /\ reused' \in BOOLEAN
      /\ ~reused' => ~reused /\ ~(~mem /\ d.state # client.state /\ d.asked # {})
  BY <1>2, <1>3, MemoryType
<1>6. AddressOf(client, ifUp) /\ (~reused => OnlyOffered(client) /\ LeaseOf(client, acked))
  BY DEF ClientInv
<1>7. OnlyOffered(client) <=> OnlyOffered(c)
  BY <1>4 DEF OnlyOffered
<1> HIDE DEF c, d
<1> SUFFICES /\ d \in ClientRecord /\ AddressOf(d, ifUp)
             /\ ~reused' => OnlyOffered(d) /\ LeaseOf(d, acked')
  <2> SUFFICES ASSUME d \in ClientRecord, AddressOf(d, ifUp),
                      ~reused' => OnlyOffered(d) /\ LeaseOf(d, acked')
               PROVE  ClientInv'
    OBVIOUS
  <2>1. AddressOf(client', ifUp') /\ (~reused' => OnlyOffered(client') /\ LeaseOf(client', acked'))
    BY <1>2
  <2> QED BY ONLY <1>2, <1>3, <1>5, <2>1, d \in ClientRecord, TypeLater, ClientTypes DEF ClientInv
<1>a. CASE d \in ClientRecord /\ d.state = "SELECTING" /\ d.addr = AnyAddr /\ c.state # "OFF"
  BY <1>a, <1>2, <1>4, <1>6 DEF AddressOf, OnlyOffered, LeaseOf
<1>8. CASE c.state \in {"BACKING_OFF", "SELECTING"}
  <2>1. d = dhcp_discover(c, mem)
    BY <1>8 DEF dhcp_timeout, d
  <2>2. d \in ClientRecord /\ d.state = "SELECTING" /\ d.addr = c.addr
    BY <1>4, <2>1, Discovers
  <2> QED BY <1>4, <1>6, <1>8, <1>a, <2>2 DEF AddressOf, LeasedStates
<1>9. CASE c.state \in {"REQUESTING", "REBINDING"} /\ d = dhcp_discover(dhcp_release(c, mem), mem)
  <2> DEFINE e == dhcp_release(c, mem)
  <2>1. e \in ClientRecord /\ e.addr = AnyAddr
    BY <1>4, Releases
  <2> HIDE DEF e
  <2>2. d = dhcp_discover(e, mem)
    BY <1>9 DEF e
  <2>3. d \in ClientRecord /\ d.state = "SELECTING" /\ d.addr = e.addr
    BY <2>1, <2>2, Discovers
  <2> QED BY <1>9, <1>a, <2>1, <2>3
<1>10. CASE c.state = "REQUESTING" /\ d = dhcp_select(c, mem)
  <2>1. AfterSending(d, c, "REQUESTING", {Request("REQUEST", c.offered)}, mem)
    BY <1>10 DEF dhcp_select, AfterSending
  <2>2. "REQUESTING" \in ClientState /\ c.offered \in AnyLease
    BY <1>4 DEF ClientState, ClientRecord
  <2>3. /\ d \in ClientRecord /\ d.state = "REQUESTING" /\ d.offered = c.offered /\ d.addr = c.addr
        /\ (c.state = "REQUESTING" => OnlyOffered(c))
           /\ ~(~mem /\ d.state # c.state /\ d.asked # {}) => OnlyOffered(d)
    BY <1>4, <2>1, <2>2, AsksFor
  <2>4. c.addr = AnyAddr
    BY <1>4, <1>6, <1>10 DEF AddressOf, LeasedStates
  <2> QED BY <1>2, <1>4, <1>5, <1>6, <1>7, <1>10, <2>3, <2>4 DEF AddressOf, LeaseOf
<1>11. CASE c.state = "CHECKING" /\ d = dhcp_check(c)
  <2>1. d \in ClientRecord /\ d.state = "CHECKING" /\ d.addr = c.addr /\ d.offered = c.offered
    BY <1>4, <1>11, Checks
  <2>2. c.addr = AnyAddr
    BY <1>4, <1>6, <1>11 DEF AddressOf, LeasedStates
  <2> QED BY <1>2, <1>4, <1>5, <1>6, <1>11, <2>1, <2>2 DEF AddressOf, LeaseOf, OnlyOffered
<1>12. CASE c.state = "CHECKING" /\ d = dhcp_bind(c)
  <2>1. d \in ClientRecord /\ d.state = "BOUND" /\ d.addr = c.offered /\ d.offered = c.offered
    BY <1>4, <1>12, Binds
  <2>2. c.addr = AnyAddr /\ ifUp # "idle"
    BY <1>4, <1>6, <1>12 DEF AddressOf, LeasedStates
  <2> QED BY <1>2, <1>4, <1>5, <1>6, <1>12, <2>1, <2>2
          DEF AddressOf, LeaseOf, OnlyOffered, LeasedStates
<1>13. CASE \/ c.state = "RENEWING" /\ d = dhcp_renew(c, mem)
            \/ c.state = "REBINDING" /\ d = dhcp_rebind(c, mem)
  <2>1. AfterSending(d, c, c.state, {Request("REQUEST", c.addr)}, mem)
    BY <1>13 DEF dhcp_renew, dhcp_rebind, AfterSending
  <2>2. c.state \in ClientState /\ c.addr \in AnyLease
    BY <1>4 DEF ClientState, ClientRecord
  <2>3. c.addr \in {AnyAddr, c.offered}
    BY <1>4, <1>6 DEF AddressOf
  <2>4. /\ d \in ClientRecord /\ d.state = c.state /\ d.offered = c.offered /\ d.addr = c.addr
        /\ OnlyOffered(c) /\ ~(~mem /\ d.state # c.state /\ d.asked # {}) => OnlyOffered(d)
    BY <1>4, <2>1, <2>2, <2>3, AsksFor
  <2> QED BY <1>2, <1>4, <1>5, <1>6, <1>7, <1>13, <2>4 DEF AddressOf, LeaseOf
<1>14. CASE d = c
  BY <1>2, <1>4, <1>5, <1>6, <1>7, <1>14 DEF AddressOf, LeaseOf
<1>15. c.state = "RENEWING" => d = dhcp_renew(c, mem)
  BY DEF dhcp_timeout, d
<1>16. c.state = "REBINDING" => d \in {dhcp_rebind(c, mem), dhcp_discover(dhcp_release(c, mem), mem)}
  BY <1>4, ClientFacts DEF dhcp_timeout, d, ClientRecord
<1>17. c.state = "REQUESTING" => d \in {dhcp_select(c, mem), dhcp_discover(dhcp_release(c, mem), mem)}
  BY <1>4, ClientFacts DEF dhcp_timeout, d, ClientRecord
<1>18. c.state = "CHECKING" => d \in {dhcp_check(c), dhcp_bind(c)}
  BY DEF dhcp_timeout, d
<1>19. c.state \in {"BOUND", "OFF"} => d = c
  BY DEF dhcp_timeout, d
<1>20. c.state \in ClientState
  BY <1>4 DEF ClientRecord
<1> QED BY <1>8, <1>9, <1>10, <1>11, <1>12, <1>13, <1>14, <1>15, <1>16, <1>17, <1>18, <1>19, <1>20
    DEF ClientState

(* A step of the stack that leaves client d.                               *)
LEMMA StackSteps ==
  ASSUME ClientInv, NEW d \in ClientRecord, client' = d, ifUp' = ifUp, linkReady' = linkReady,
         noMem' \in 0 .. MaxNoMem, reused' \in BOOLEAN, acked' \in AnyLease,
         AddressOf(d, ifUp), ~reused' => OnlyOffered(d) /\ LeaseOf(d, acked')
  PROVE  ClientInv'
<1>1. ifUp' \in {"idle", "wait", "up", "failed"} /\ linkReady' \in BOOLEAN
  BY ClientTypes DEF ClientInv
<1>2. ClientTypeOK'
  BY <1>1, TypeLater
<1>3. AddressOf(client', ifUp') /\ (~reused' => OnlyOffered(client') /\ LeaseOf(client', acked'))
  OBVIOUS
<1> QED BY <1>2, <1>3 DEF ClientInv

(* dhcp_coarse_tmr.                                                        *)
LEMMA CoarseStep == ClientInv /\ dhcp_coarse_tmr => ClientInv'
<1> SUFFICES ASSUME ClientInv, dhcp_coarse_tmr PROVE ClientInv'
  OBVIOUS
<1> DEFINE two == [client EXCEPT !.t2 = (@ - 1) % CoarseMod]
           one == [two EXCEPT !.t1 = (@ - 1) % CoarseMod]
           next(mem) == CASE client.t2 = 1 /\ client.state \in Renewable -> dhcp_rebind(two, mem)
                          [] client.t2 = 1 /\ client.state \notin Renewable -> two
                          [] client.t2 # 1 /\ client.t1 = 1 /\ client.state \in Renewable ->
                               dhcp_renew(one, mem)
                          [] OTHER -> one
<1>1. PICK mem \in BOOLEAN : SendStep(next(mem), mem)
  BY Zenon DEF dhcp_coarse_tmr
<1> DEFINE d == next(mem)
<1>2. client' = d /\ Memory(mem, d) /\ ifUp' = ifUp /\ linkReady' = linkReady /\ acked' = acked
  BY <1>1 DEF dhcp_coarse_tmr, SendStep, StackStep
<1>3. client \in ClientRecord /\ ClientTypeOK /\ acked' \in AnyLease
  BY <1>2, ClientTypes DEF ClientInv
<1>4. /\ two \in ClientRecord /\ two.state = client.state /\ two.addr = client.addr
      /\ two.offered = client.offered /\ two.asked = client.asked
  <2> DEFINE x == (client.t2 - 1) % CoarseMod
  <2>1. x \in 0 .. CoarseMod - 1
    <3>1. client.t2 \in 0 .. CoarseMod - 1
      BY <1>3 DEF ClientRecord
    <3> QED BY <3>1, ClientFacts
  <2>2. two = [client EXCEPT !.t2 = x]
    OBVIOUS
  <2> HIDE DEF x, two
  <2> QED BY <1>3, <2>1, <2>2, Zenon DEF ClientRecord
<1>5. /\ one \in ClientRecord /\ one.state = client.state /\ one.addr = client.addr
      /\ one.offered = client.offered /\ one.asked = client.asked
  <2> HIDE DEF two
  <2> DEFINE x == (two.t1 - 1) % CoarseMod
  <2>1. x \in 0 .. CoarseMod - 1
    <3>1. two.t1 \in 0 .. CoarseMod - 1
      BY <1>4 DEF ClientRecord
    <3> QED BY <3>1, ClientFacts
  <2>2. one = [two EXCEPT !.t1 = x]
    OBVIOUS
  <2> HIDE DEF x, one
  <2>3. /\ one \in ClientRecord /\ one.state = two.state /\ one.addr = two.addr
        /\ one.offered = two.offered /\ one.asked = two.asked
    BY <1>4, <2>1, <2>2, Zenon DEF ClientRecord
  <2> QED BY <1>4, <2>3
<1>6. /\ noMem' \in 0 .. MaxNoMem /\ reused' \in BOOLEAN
      /\ ~reused' => ~reused /\ ~(~mem /\ d.state # client.state /\ d.asked # {})
  BY <1>2, <1>3, MemoryType
<1>7. AddressOf(client, ifUp) /\ (~reused => OnlyOffered(client) /\ LeaseOf(client, acked))
  BY DEF ClientInv
<1>8. \/ d \in {one, two}
      \/ /\ client.state \in Renewable
         /\ \E c \in {one, two} : d \in {dhcp_renew(c, mem), dhcp_rebind(c, mem)}
  BY Zenon
<1> HIDE DEF d, one, two
<1>9. CASE d \in {one, two}
  <2>1. AddressOf(d, ifUp) /\ (~reused' => OnlyOffered(d) /\ LeaseOf(d, acked'))
    BY <1>2, <1>4, <1>5, <1>6, <1>7, <1>9 DEF AddressOf, OnlyOffered, LeaseOf
  <2> QED BY <1>2, <1>3, <1>4, <1>5, <1>6, <1>9, <2>1, StackSteps
<1>10. CASE /\ client.state \in Renewable
            /\ \E c \in {one, two} : d \in {dhcp_renew(c, mem), dhcp_rebind(c, mem)}
  <2>1. PICK c \in {one, two} : d \in {dhcp_renew(c, mem), dhcp_rebind(c, mem)}
    BY <1>10
  <2>2. PICK s \in {"RENEWING", "REBINDING"} :
          AfterSending(d, c, s, {Request("REQUEST", c.addr)}, mem)
    BY <2>1 DEF dhcp_renew, dhcp_rebind, AfterSending
  <2>3. /\ c \in ClientRecord /\ c.state = client.state /\ c.addr = client.addr
        /\ c.offered = client.offered /\ c.asked = client.asked
    BY <1>4, <1>5
  <2>4. s \in ClientState /\ c.addr \in AnyLease
    BY <2>3 DEF ClientState, ClientRecord
  <2>5. c.addr \in {AnyAddr, c.offered}
    BY <1>7, <2>3 DEF AddressOf
  <2>6. /\ d \in ClientRecord /\ d.state = s /\ d.offered = c.offered /\ d.addr = c.addr
        /\ OnlyOffered(c) /\ ~(~mem /\ d.state # c.state /\ d.asked # {}) => OnlyOffered(d)
    BY <2>2, <2>3, <2>4, <2>5, AsksFor
  <2>7. OnlyOffered(client) <=> OnlyOffered(c)
    BY <2>3 DEF OnlyOffered
  <2>8. AddressOf(d, ifUp)
    BY <1>7, <1>10, <2>3, <2>6 DEF AddressOf, LeasedStates, Renewable
  <2>9. ~reused' => OnlyOffered(d) /\ LeaseOf(d, acked')
    BY <1>2, <1>6, <1>7, <2>3, <2>6, <2>7 DEF LeaseOf
  <2> QED BY <1>2, <1>3, <1>6, <2>6, <2>8, <2>9, StackSteps
<1> QED BY <1>8, <1>9, <1>10

(* dhcp_recv with an OFFER.                                                *)
LEMMA OfferStep == ClientInv /\ RecvOffer => ClientInv'
<1> SUFFICES ASSUME ClientInv, RecvOffer PROVE ClientInv'
  OBVIOUS
<1> DEFINE c == [client EXCEPT !.timeout = FALSE]
<1>1. /\ client.state = "SELECTING" /\ acked' = acked
      /\ \/ \E a \in LeaseAddr, mem \in BOOLEAN :
              SendStep(dhcp_select([c EXCEPT !.offered = a], mem), mem)
         \/ StackStep(c) /\ UNCHANGED <<noMem, reused>>
  BY Zenon DEF RecvOffer
<1>2. client \in ClientRecord /\ ClientTypeOK /\ acked' \in AnyLease
      /\ noMem \in 0 .. MaxNoMem /\ reused \in BOOLEAN
  BY <1>1, ClientTypes DEF ClientInv
<1>3. /\ c \in ClientRecord /\ c.state = client.state /\ c.addr = client.addr
      /\ c.offered = client.offered /\ c.asked = client.asked
  BY <1>2, Zenon DEF ClientRecord
<1>4. AddressOf(client, ifUp) /\ client.addr = AnyAddr /\ ifUp # "idle"
  BY <1>1 DEF ClientInv, AddressOf, LeasedStates
<1> HIDE DEF c
<1>5. CASE StackStep(c) /\ UNCHANGED <<noMem, reused>>
  <2>1. AddressOf(c, ifUp) /\ OnlyOffered(c) /\ LeaseOf(c, acked')
    BY <1>1, <1>3, <1>4 DEF AddressOf, OnlyOffered, LeaseOf
  <2> QED BY <1>2, <1>3, <1>5, <2>1, StackSteps DEF StackStep
<1>6. ASSUME NEW a \in LeaseAddr, NEW mem \in BOOLEAN,
             SendStep(dhcp_select([c EXCEPT !.offered = a], mem), mem)
      PROVE  ClientInv'
  <2> DEFINE e == [c EXCEPT !.offered = a]
             d == dhcp_select(e, mem)
  <2>1. /\ e \in ClientRecord /\ e.state = c.state /\ e.addr = c.addr /\ e.offered = a
    BY <1>3, Zenon DEF ClientRecord, AnyLease
  <2> HIDE DEF e
  <2>2. client' = d /\ Memory(mem, d) /\ ifUp' = ifUp /\ linkReady' = linkReady
    BY <1>6 DEF SendStep, StackStep, e
  <2>3. AfterSending(d, e, "REQUESTING", {Request("REQUEST", e.offered)}, mem)
    BY DEF dhcp_select, AfterSending
  <2> HIDE DEF d
  <2>4. "REQUESTING" \in ClientState /\ e.offered \in AnyLease
    BY <2>1 DEF ClientState, AnyLease
  <2>5. /\ d \in ClientRecord /\ d.state = "REQUESTING" /\ d.offered = e.offered
        /\ d.addr = e.addr
        /\ (e.state = "REQUESTING" => OnlyOffered(e))
           /\ ~(~mem /\ d.state # e.state /\ d.asked # {}) => OnlyOffered(d)
    BY <2>1, <2>3, <2>4, AsksFor
  <2>6. /\ noMem' \in 0 .. MaxNoMem /\ reused' \in BOOLEAN
        /\ ~reused' => ~reused /\ ~(~mem /\ d.state # client.state /\ d.asked # {})
    BY <1>2, <2>2, MemoryType
  <2>7. AddressOf(d, ifUp) /\ (~reused' => OnlyOffered(d) /\ LeaseOf(d, acked'))
    BY <1>1, <1>3, <1>4, <2>1, <2>5, <2>6 DEF AddressOf, LeaseOf
  <2> QED BY <1>2, <2>2, <2>5, <2>6, <2>7, StackSteps
<1> QED BY <1>1, <1>5, <1>6

(* dhcp_recv with an ACK.                                                  *)
LEMMA AckStep == ClientInv /\ RecvAck => ClientInv'
<1> SUFFICES ASSUME ClientInv, RecvAck PROVE ClientInv'
  OBVIOUS
<1>1. PICK r \in client.asked :
        /\ r.type = "REQUEST" /\ r.addr # AnyAddr
        /\ acked' = r.addr /\ UNCHANGED <<noMem, reused>>
        /\ \/ /\ client.state = "REQUESTING"
              /\ \E times \in LeaseTimes :
                   StackStep(dhcp_check(dhcp_handle_ack(client, r.addr, times)))
           \/ /\ client.state \in {"REBINDING", "RENEWING"}
              /\ StackStep(dhcp_bind(client))
  BY DEF RecvAck
<1>2. /\ client \in ClientRecord /\ ClientTypeOK /\ acked' \in AnyLease
      /\ noMem' \in 0 .. MaxNoMem /\ reused' \in BOOLEAN /\ (reused' <=> reused)
  BY <1>1, ClientTypes DEF ClientInv, ClientRecord, Requests, AnyLease
<1>3. AddressOf(client, ifUp) /\ (~reused => OnlyOffered(client))
  BY DEF ClientInv
<1>4. ASSUME client.state = "REQUESTING", NEW times \in LeaseTimes,
             StackStep(dhcp_check(dhcp_handle_ack(client, r.addr, times)))
      PROVE  ClientInv'
  <2> DEFINE e == dhcp_handle_ack(client, r.addr, times)
             d == dhcp_check(e)
  <2>1. e \in ClientRecord /\ e.offered = r.addr /\ e.addr = client.addr
    <3>1. r.addr \in AnyLease /\ times[1] \in LeaseTicks /\ times[2] \in LeaseTicks
      BY <1>1, <1>2, ClientFacts
    <3> QED BY <1>2, <3>1, Zenon DEF ClientRecord, dhcp_handle_ack
  <2>2. client' = d /\ ifUp' = ifUp /\ linkReady' = linkReady
    BY <1>4 DEF StackStep
  <2> HIDE DEF e
  <2>3. d \in ClientRecord /\ d.state = "CHECKING" /\ d.addr = e.addr /\ d.offered = e.offered
    BY <2>1, Checks
  <2> HIDE DEF d
  <2>4. client.addr = AnyAddr /\ ifUp # "idle"
    BY <1>3, <1>4 DEF AddressOf, LeasedStates
  <2>5. AddressOf(d, ifUp) /\ OnlyOffered(d) /\ LeaseOf(d, acked')
    BY <1>1, <2>1, <2>3, <2>4 DEF AddressOf, OnlyOffered, LeaseOf
  <2> QED BY <1>2, <2>2, <2>3, <2>5, StackSteps
<1>5. ASSUME client.state \in {"REBINDING", "RENEWING"}, StackStep(dhcp_bind(client))
      PROVE  ClientInv'
  <2> DEFINE d == dhcp_bind(client)
  <2>1. client' = d /\ ifUp' = ifUp /\ linkReady' = linkReady
    BY <1>5 DEF StackStep
  <2>2. d \in ClientRecord /\ d.state = "BOUND" /\ d.addr = client.offered
        /\ d.offered = client.offered
    BY <1>2, Binds
  <2> HIDE DEF d
  <2>3. ifUp # "idle"
    BY <1>3, <1>5 DEF AddressOf
  <2>4. ~reused => r.addr = client.offered
    BY <1>1, <1>3, <1>5 DEF OnlyOffered
  <2>5. AddressOf(d, ifUp) /\ (~reused => OnlyOffered(d) /\ LeaseOf(d, acked'))
    BY <1>1, <2>2, <2>3, <2>4 DEF AddressOf, OnlyOffered, LeaseOf, LeasedStates
  <2> QED BY <1>2, <2>1, <2>2, <2>5, StackSteps
<1> QED BY <1>1, <1>4, <1>5

(* dhcp_recv with a NAK, and another host at the offered address.          *)
LEMMA NakStep == ClientInv /\ (RecvNak \/ dhcp_arp_reply) => ClientInv'
<1> SUFFICES ASSUME ClientInv, RecvNak \/ dhcp_arp_reply PROVE ClientInv'
  OBVIOUS
<1>1. PICK mem \in BOOLEAN :
        \E d \in {dhcp_handle_nak(client, mem), dhcp_decline(client, mem)} :
           /\ SendStep(d, mem) /\ acked' = AnyAddr
           /\ d = dhcp_handle_nak(client, mem) \/ client.state = "CHECKING"
           /\ client.state # "OFF"
  BY DEF RecvNak, dhcp_arp_reply
<1>d. PICK d \in {dhcp_handle_nak(client, mem), dhcp_decline(client, mem)} :
        /\ SendStep(d, mem) /\ acked' = AnyAddr
        /\ d = dhcp_handle_nak(client, mem) \/ client.state = "CHECKING"
        /\ client.state # "OFF"
  BY <1>1
<1>2. client' = d /\ Memory(mem, d) /\ ifUp' = ifUp /\ linkReady' = linkReady
  BY <1>d DEF SendStep, StackStep
<1>3. client \in ClientRecord /\ ClientTypeOK /\ acked' \in AnyLease
  BY <1>d, ClientTypes DEF ClientInv, AnyLease
<1>4. noMem' \in 0 .. MaxNoMem /\ reused' \in BOOLEAN
  BY <1>2, <1>3, MemoryType
<1>5. ifUp # "idle" /\ (client.state = "CHECKING" => client.addr = AnyAddr)
  BY <1>d DEF ClientInv, AddressOf, LeasedStates
<1>6. d \in ClientRecord /\ d.state \in {"SELECTING", "BACKING_OFF"} /\ d.addr = AnyAddr
  <2>1. CASE d = dhcp_handle_nak(client, mem)
    <3> DEFINE u == Unconfigured(client)
               b == dhcp_set_state(u, "BACKING_OFF")
    <3>1. u \in ClientRecord /\ u.addr = AnyAddr
      BY <1>3, Unconfigures
    <3> HIDE DEF u
    <3>2. b \in ClientRecord /\ b.addr = u.addr
      BY <3>1, SetState, Zenon DEF ClientState
    <3>3. d = dhcp_discover(b, mem)
      BY <2>1 DEF dhcp_handle_nak, u
    <3> HIDE DEF b
    <3> QED BY <3>1, <3>2, <3>3, Discovers
  <2>2. CASE d = dhcp_decline(client, mem) /\ client.state = "CHECKING"
    BY <1>3, <1>5, <2>2, Declines
  <2> QED BY <1>d, <2>1, <2>2
<1>7. AddressOf(d, ifUp) /\ OnlyOffered(d) /\ LeaseOf(d, acked')
  BY <1>5, <1>6 DEF AddressOf, OnlyOffered, LeaseOf
<1> QED BY <1>2, <1>3, <1>4, <1>6, <1>7, StackSteps

(* dhcp_stop leaves the address where it is.                               *)
LEMMA Stops ==
  ASSUME NEW c \in ClientRecord
  PROVE  LET d == dhcp_stop(c)
         IN  d \in ClientRecord /\ d.state = "OFF" /\ d.addr = c.addr /\ d.offered = c.offered
<1> DEFINE a == dhcp_set_state(c, "OFF")
<1>1. a \in ClientRecord /\ a.state = "OFF" /\ a.addr = c.addr /\ a.offered = c.offered
  BY SetState, Zenon DEF ClientState
<1>2. dhcp_stop(c) = [a EXCEPT !.asked = {}]
  BY DEF dhcp_stop
<1> HIDE DEF a
<1> DEFINE d == [a EXCEPT !.asked = {}]
<1>3. {} \in SUBSET Requests
  OBVIOUS
<1>4. d \in ClientRecord /\ d.state = a.state /\ d.addr = a.addr /\ d.offered = a.offered
  BY <1>1, <1>3, Zenon DEF ClientRecord
<1> HIDE DEF d
<1>5. dhcp_stop(c) = d
  BY <1>2 DEF d
<1> QED BY <1>1, <1>4, <1>5

(* L2LinkUp starts the client: nothing was asked yet.                      *)
LEMMA LinkUpStep == ClientInv /\ ClientLinkUp => ClientInv'
<1> SUFFICES ASSUME ClientInv, ClientLinkUp PROVE ClientInv'
  OBVIOUS
<1>1. PICK pcb \in BOOLEAN, mem \in BOOLEAN :
        Memory(mem, dhcp_start(client, pcb, mem)) /\ client' = dhcp_start(client, pcb, mem)
  BY DEF ClientLinkUp
<1> DEFINE d == dhcp_start(client, pcb, mem)
           new == [NoClient EXCEPT !.addr = client.addr, !.up = client.up]
<1>2. ifUp = "idle" /\ ifUp' = "wait" /\ linkReady' = TRUE /\ acked' = acked
  BY DEF ClientLinkUp
<1>3. client \in ClientRecord /\ ClientTypeOK /\ acked' \in AnyLease
  BY <1>2, ClientTypes DEF ClientInv
<1>4. client.addr = AnyAddr
  BY <1>2 DEF ClientInv, AddressOf
<1>5. /\ 0 \in 0 .. TriesMod - 1 /\ 0 \in 0 .. CoarseMod - 1
      /\ 0 \in LeaseTicks /\ AnyAddr \in AnyLease /\ {} \in SUBSET Requests
      /\ client.up \in BOOLEAN
  BY <1>3, ClientFacts DEF LeaseTicks, AnyLease, ClientRecord
<1>6. new \in ClientRecord /\ new.addr = AnyAddr /\ new.state = "OFF"
  <2>1. NoClient \in ClientRecord /\ NoClient.state = "OFF"
    BY <1>5, Zenon DEF NoClient, ClientRecord, ClientState
  <2> QED BY <1>4, <1>5, <2>1, Zenon DEF ClientRecord
<1>7. d = IF pcb /\ mem THEN dhcp_discover(new, TRUE) ELSE new
  BY DEF dhcp_start
<1> HIDE DEF new
<1>8. d \in ClientRecord /\ d.addr = AnyAddr /\ d.state \in {"SELECTING", "OFF"}
  <2> HIDE DEF d
  <2>1. CASE pcb /\ mem
    <3>1. d = dhcp_discover(new, TRUE)
      BY <1>7, <2>1
    <3> QED BY <1>6, <3>1, Discovers
  <2>2. CASE ~(pcb /\ mem)
    <3>1. d = new
      BY <1>7, <2>2
    <3> QED BY <1>6, <3>1
  <2> QED BY <2>1, <2>2
<1>9. noMem' \in 0 .. MaxNoMem /\ reused' \in BOOLEAN
  BY <1>1, <1>3, MemoryType
<1>10. client' = d
  BY <1>1
<1> HIDE DEF d
<1>11. AddressOf(client', ifUp') /\ OnlyOffered(client') /\ LeaseOf(client', acked')
  BY <1>2, <1>8, <1>10 DEF AddressOf, OnlyOffered, LeaseOf
<1>12. ClientTypeOK'
  BY <1>2, <1>3, <1>8, <1>9, <1>10, TypeLater
<1> QED BY <1>11, <1>12 DEF ClientInv

(* The management task polls, gives up, or takes the interface down.       *)
LEMMA TaskStep == ClientInv /\ (IfUpPolls \/ LinkLost \/ ClientLinkDown) => ClientInv'
<1> SUFFICES ASSUME ClientInv, IfUpPolls \/ LinkLost \/ ClientLinkDown PROVE ClientInv'
  OBVIOUS
<1>1. /\ client \in ClientRecord /\ linkReady \in BOOLEAN
      /\ ifUp \in {"idle", "wait", "up", "failed"}
      /\ noMem \in 0 .. MaxNoMem /\ reused \in BOOLEAN /\ acked \in AnyLease
  BY ClientTypes DEF ClientInv
<1>2. AddressOf(client, ifUp) /\ (~reused => OnlyOffered(client) /\ LeaseOf(client, acked))
  BY DEF ClientInv
<1>3. CASE IfUpPolls /\ client' = dhcp_stop(client) /\ ifUp' = "failed"
  <2>1. client' \in ClientRecord /\ client'.state = "OFF" /\ client'.addr = client.addr
        /\ client'.offered = client.offered
    BY <1>1, <1>3, Stops
  <2>2. UNCHANGED <<linkReady, noMem, reused, acked>>
    BY <1>3 DEF IfUpPolls
  <2>3. AddressOf(client', ifUp') /\ (~reused' => OnlyOffered(client') /\ LeaseOf(client', acked'))
    BY <1>2, <1>3, <2>1, <2>2 DEF AddressOf, OnlyOffered, LeaseOf
  <2>4. ClientTypeOK'
    BY <1>1, <1>3, <2>1, <2>2, TypeLater
  <2> QED BY <2>3, <2>4 DEF ClientInv
<1>4. CASE IfUpPolls /\ client.addr # AnyAddr /\ client' = [client EXCEPT !.up = TRUE]
           /\ ifUp' = "up"
  <2> DEFINE d == [client EXCEPT !.up = TRUE]
  <2>1. /\ d \in ClientRecord /\ d.state = client.state /\ d.addr = client.addr
        /\ d.offered = client.offered /\ d.asked = client.asked
    BY <1>1, Zenon DEF ClientRecord
  <2>2. client' = d
    BY <1>4
  <2> HIDE DEF d
  <2>3. ifUp = "wait" /\ UNCHANGED <<linkReady, noMem, reused, acked>>
    BY <1>4 DEF IfUpPolls
  <2>4. AddressOf(client', ifUp') /\ (~reused' => OnlyOffered(client') /\ LeaseOf(client', acked'))
    BY <1>2, <1>4, <2>1, <2>2, <2>3 DEF AddressOf, OnlyOffered, LeaseOf
  <2>5. ClientTypeOK'
    BY <1>1, <1>4, <2>1, <2>2, <2>3, TypeLater
  <2> QED BY <2>4, <2>5 DEF ClientInv
<1>5. CASE LinkLost
  <2>1. UNCHANGED <<client, ifUp, noMem, reused, acked>> /\ linkReady' = FALSE
    BY <1>5 DEF LinkLost
  <2>2. ClientTypeOK'
    BY <1>1, <2>1, TypeLater
  <2> QED BY <1>2, <2>1, <2>2 DEF ClientInv
<1>6. CASE ClientLinkDown
  <2> DEFINE u == Unconfigured(client)
  <2>1. u \in ClientRecord /\ u.addr = AnyAddr
    BY <1>1, Unconfigures
  <2>2. /\ client' = dhcp_stop(u) /\ ifUp' = "idle" /\ linkReady' = FALSE /\ acked' = AnyAddr
        /\ UNCHANGED <<noMem, reused>>
    BY <1>6 DEF ClientLinkDown
  <2> HIDE DEF u
  <2>3. client' \in ClientRecord /\ client'.state = "OFF" /\ client'.addr = AnyAddr
    BY <2>1, <2>2, Stops
  <2>4. AddressOf(client', ifUp') /\ OnlyOffered(client') /\ LeaseOf(client', acked')
    BY <2>2, <2>3 DEF AddressOf, OnlyOffered, LeaseOf
  <2>5. AnyAddr \in AnyLease
    BY DEF AnyLease
  <2>6. ClientTypeOK'
    BY <1>1, <2>2, <2>3, <2>5, TypeLater
  <2> QED BY <2>4, <2>6 DEF ClientInv
<1> QED BY <1>3, <1>4, <1>5, <1>6 DEF IfUpPolls

(* Every step of the client keeps the invariant.                           *)
LEMMA ClientStep == ClientInv /\ [ClientNext]_clientVars => ClientInv'
<1> SUFFICES ASSUME ClientInv, UNCHANGED clientVars PROVE ClientInv'
  BY FineStep, CoarseStep, OfferStep, AckStep, NakStep, LinkUpStep, TaskStep DEF ClientNext
<1>1. UNCHANGED <<client, ifUp, linkReady, noMem, reused, acked>>
  BY DEF clientVars
<1>2. ClientTypeOK'
  BY <1>1, ClientTypes, TypeLater DEF ClientInv
<1> QED BY <1>1, <1>2 DEF ClientInv

(* The interface has no address but the one dhcp_recv saw acknowledged     *)
(* last, unless a state of the client began under the transaction number   *)
(* of another for want of memory; and it has one only while dhcp.c renews  *)
(* it or ifUpWhenDhcp has given up: for any addresses, lease times, number *)
(* of tries and messages lost, late or doubled.                            *)
THEOREM AddressBackedCorrect == ClientSpec => []AddressBacked
<1>1. ClientInv => AddressBacked
  BY DEF ClientInv, AddressOf, LeaseOf, LeasedStates, AddressBacked
<1> QED BY <1>1, ClientInvInit, ClientStep, PTL DEF ClientSpec

-----------------------------------------------------------------------------
(* The parts side by side.                                                 *)

StackInv == role \in {"lan", "dhcpc", "thread"} /\ LanInv /\ ClientInv /\ ThreadInv

(* In StackInit every part is in a first state of its own.                 *)
LEMMA StackInvInit == StackInit => StackInv
BY LanInvInit, ClientInvInit, ThreadInvInit DEF StackInit, StackInv

(* A step of one part leaves the variables of the others alone.            *)
LEMMA StackInvStep == StackInv /\ [StackNext]_stackVars => StackInv'
<1> SUFFICES ASSUME StackInv, [StackNext]_stackVars PROVE StackInv'
  OBVIOUS
<1>1. UNCHANGED role /\ [Next]_vars /\ [ClientNext]_clientVars /\ [ThreadNext]_threadVars
  BY DEF StackNext, LanPart, ClientPart, ThreadPart, stackVars
<1>2. role \in {"lan", "dhcpc", "thread"} /\ LanInv /\ ClientInv /\ ThreadInv
  BY DEF StackInv
<1>3. LanInv' /\ ClientInv' /\ ThreadInv'
  BY <1>1, <1>2, LanStep, ClientStep, ThreadInvStep
<1> QED BY <1>1, <1>2, <1>3 DEF StackInv

(* The descriptors of the LAN server, the client of dhcp.c and the thread  *)
(* of tcpip.c keep their types in every state: for every number of         *)
(* descriptors, clients, tries, timers and tasks and every size of the     *)
(* mailbox and the pools.                                                  *)
THEOREM StackTypeCorrect == StackSpec => []StackTypeOK
<1>1. StackInv => StackTypeOK
  BY ThreadInvType DEF StackInv, StackTypeOK, LanInv, ClientInv
<1> QED BY <1>1, StackInvInit, StackInvStep, PTL DEF StackSpec
=============================================================================
