---------------------------- MODULE Lists_proofs ----------------------------
(* Lemmas about lists and about what a DELETE leaves of them, for the other  *)
(* modules' theorems.                                                        *)
EXTENDS Lists, Integers, SequenceTheorems, FiniteSetTheorems, WellFoundedInduction, TLAPS

(* Lists without some of their elements, by the least-number principle: the *)
(* library's induction takes an operator and cannot be used.                *)
LEMMA Climb ==
  \A top \in Nat : \A U :
    0 \in U /\ (\A i \in 0 .. top - 1 : i \in U => i + 1 \in U) => top \in U
<1> SUFFICES ASSUME NEW top \in Nat, NEW U, 0 \in U, top \notin U,
                    \A i \in 0 .. top - 1 : i \in U => i + 1 \in U
             PROVE  FALSE
  OBVIOUS
<1> DEFINE T == {n \in 0 .. top : n \notin U}
<1>1. T \subseteq Nat /\ T # {} OBVIOUS
<1>2. PICK n \in T : \A y \in T : ~(<<y, n>> \in OpToRel(<, Nat))
  BY <1>1, NatLessThanWellFounded, WFMin
<1>3. \A y \in T : ~(y < n)
  BY <1>1, <1>2 DEF OpToRel
<1>4. n # 0 OBVIOUS
<1>5. n - 1 \in U BY <1>3, <1>4
<1> QED BY <1>4, <1>5

(* g[k] is what is left of the first k elements of list.                    *)
Filters(list, gone, g, n) ==
  \A k \in 0 .. n :
    g[k] = IF k = 0 THEN <<>>
           ELSE IF list[k] \in gone THEN g[k - 1] ELSE Append(g[k - 1], list[k])

LEMMA FilterExists ==
  ASSUME NEW S, NEW list \in Seq(S), NEW gone
  PROVE  \E g \in [0 .. Len(list) -> Seq(S)] : Filters(list, gone, g, Len(list))
<1> DEFINE top == Len(list)
           U == {m \in 0 .. top : \E g \in [0 .. m -> Seq(S)] : Filters(list, gone, g, m)}
<1>1. top \in Nat /\ \A k \in 1 .. top : list[k] \in S OBVIOUS
<1>2. 0 \in U
  <2> DEFINE h == [k \in 0 .. 0 |-> <<>>]
  <2>1. h \in [0 .. 0 -> Seq(S)] /\ Filters(list, gone, h, 0) BY DEF Filters
  <2> HIDE DEF h
  <2>2. \E g \in [0 .. 0 -> Seq(S)] : Filters(list, gone, g, 0) BY <2>1
  <2>3. 0 \in 0 .. top BY <1>1
  <2> QED BY <2>2, <2>3
<1>3. ASSUME NEW m \in 0 .. top - 1, m \in U PROVE m + 1 \in U
  <2>1. PICK g \in [0 .. m -> Seq(S)] : Filters(list, gone, g, m) BY <1>3
  <2>2. m \in Nat /\ m + 1 \in 1 .. top /\ list[m + 1] \in S BY <1>1
  <2> DEFINE last == IF list[m + 1] \in gone THEN g[m] ELSE Append(g[m], list[m + 1])
             h == [k \in 0 .. m + 1 |-> IF k = m + 1 THEN last ELSE g[k]]
  <2>3. last \in Seq(S)
    <3>1. g[m] \in Seq(S) BY <2>2
    <3> QED BY <2>2, <3>1
  <2>4. h \in [0 .. m + 1 -> Seq(S)]
    <3> HIDE DEF last
    <3> QED BY <2>2, <2>3
  <2>5. Filters(list, gone, h, m + 1)
    <3> SUFFICES ASSUME NEW k \in 0 .. m + 1
                 PROVE  h[k] = IF k = 0 THEN <<>>
                               ELSE IF list[k] \in gone THEN h[k - 1]
                                    ELSE Append(h[k - 1], list[k])
      BY DEF Filters
    <3>1. CASE k = m + 1
      <4>1. h[k] = last /\ h[k - 1] = g[m] /\ k # 0 BY <2>2, <3>1
      <4> QED BY <3>1, <4>1
    <3>2. CASE k # m + 1
      <4>1. k \in 0 .. m /\ (k # 0 => k - 1 \in 0 .. m /\ k - 1 # m + 1) BY <2>2, <3>2
      <4>2. h[k] = g[k] /\ (k # 0 => h[k - 1] = g[k - 1]) BY <2>2, <3>2, <4>1
      <4> QED BY <2>1, <4>1, <4>2 DEF Filters
    <3> QED BY <3>1, <3>2
  <2> HIDE DEF h
  <2>6. \E f \in [0 .. m + 1 -> Seq(S)] : Filters(list, gone, f, m + 1) BY <2>4, <2>5
  <2>7. m + 1 \in 0 .. top BY <2>2
  <2> QED BY <2>6, <2>7
<1> HIDE DEF U
<1>4. \A m \in 0 .. top - 1 : m \in U => m + 1 \in U BY <1>3
<1>5. top \in U BY <1>1, <1>2, <1>4, Climb
<1> QED BY <1>5 DEF U

LEMMA WithoutIs ==
  ASSUME NEW S, NEW list \in Seq(S), NEW gone
  PROVE  \E g \in [0 .. Len(list) -> Seq(S)] :
            Filters(list, gone, g, Len(list)) /\ Without(list, gone) = g[Len(list)]
<1> DEFINE top == Len(list)
           Body(g) == [k \in 0 .. top |->
                         IF k = 0 THEN <<>>
                         ELSE IF list[k] \in gone THEN g[k - 1] ELSE Append(g[k - 1], list[k])]
           u == CHOOSE g : g = Body(g)
<1>1. PICK g \in [0 .. top -> Seq(S)] : Filters(list, gone, g, top) BY FilterExists
<1>2. g = Body(g) BY <1>1 DEF Filters
<1>3. u = Body(u) BY <1>2
<1>4. Without(list, gone) = u[top] BY DEF Without
<1> HIDE DEF u
<1>5. top \in Nat /\ Filters(list, gone, u, top)
  <2>1. top \in Nat OBVIOUS
  <2> HIDE DEF top
  <2>2. ASSUME NEW k \in 0 .. top
        PROVE  u[k] = IF k = 0 THEN <<>>
                      ELSE IF list[k] \in gone THEN u[k - 1] ELSE Append(u[k - 1], list[k])
    BY <1>3
  <2> QED BY <2>1, <2>2 DEF Filters
<1> DEFINE U == {k \in 0 .. top : u[k] = g[k]}
<1>6. 0 \in U BY <1>1, <1>5 DEF Filters
<1>7. ASSUME NEW k \in 0 .. top - 1, k \in U PROVE k + 1 \in U
  <2>1. k + 1 \in 0 .. top /\ k + 1 # 0 /\ (k + 1) - 1 = k BY <1>5
  <2>2. u[k + 1] = IF list[k + 1] \in gone THEN u[k] ELSE Append(u[k], list[k + 1])
    BY <2>1, <1>5 DEF Filters
  <2>3. g[k + 1] = IF list[k + 1] \in gone THEN g[k] ELSE Append(g[k], list[k + 1])
    BY <2>1, <1>1 DEF Filters
  <2> QED BY <1>7, <2>1, <2>2, <2>3
<1> HIDE DEF U, Body, top
<1>8. \A k \in 0 .. top - 1 : k \in U => k + 1 \in U BY <1>7
<1>9. top \in U BY <1>5, <1>6, <1>8, Climb
<1> QED BY <1>1, <1>4, <1>9 DEF U, top

LEMMA WithoutTyped ==
  ASSUME NEW S, NEW list \in Seq(S), NEW gone
  PROVE  Without(list, gone) \in Seq(S)
<1>1. PICK g \in [0 .. Len(list) -> Seq(S)] : Without(list, gone) = g[Len(list)]
  BY WithoutIs
<1>2. Len(list) \in 0 .. Len(list) OBVIOUS
<1> QED BY <1>1, <1>2

(* What is left is everything else, once if it was there once.              *)
LEMMA WithoutElements ==
  ASSUME NEW S, NEW list \in Seq(S), NEW gone
  PROVE  /\ Range(Without(list, gone)) = Range(list) \ gone
         /\ IsInjective(list) => IsInjective(Without(list, gone))
<1> DEFINE top == Len(list)
           First(k) == {list[i] : i \in 1 .. k}
<1>1. PICK g \in [0 .. top -> Seq(S)] :
        Filters(list, gone, g, top) /\ Without(list, gone) = g[top]
  BY WithoutIs
<1>2. /\ top \in Nat /\ DOMAIN list = 1 .. top /\ Range(list) = First(top)
      /\ \A k \in 1 .. top : list[k] \in S
  BY DEF Range
<1> HIDE DEF top
<1> DEFINE U == {k \in 0 .. top : /\ Range(g[k]) = First(k) \ gone
                                  /\ IsInjective(list) => IsInjective(g[k])}
<1>3. 0 \in U
  <2>1. g[0] = <<>> BY <1>1, <1>2 DEF Filters
  <2>2. DOMAIN g[0] = {} BY <2>1
  <2>3. Range(g[0]) = {} /\ IsInjective(g[0]) BY <2>2 DEF Range, IsInjective
  <2>4. First(0) = {} OBVIOUS
  <2>5. 0 \in 0 .. top BY <1>2
  <2> QED BY <2>3, <2>4, <2>5
<1>4. ASSUME NEW k \in 0 .. top - 1, k \in U PROVE k + 1 \in U
  <2>1. /\ k \in Nat /\ k \in 0 .. top /\ k + 1 \in 0 .. top /\ k + 1 \in 1 .. top
        /\ k + 1 # 0 /\ (k + 1) - 1 = k
    BY <1>2
  <2> DEFINE x == list[k + 1]
  <2>2. g[k + 1] = IF x \in gone THEN g[k] ELSE Append(g[k], x)
    BY <1>1, <2>1 DEF Filters
  <2>3. /\ Range(g[k]) = First(k) \ gone
        /\ IsInjective(list) => IsInjective(g[k])
        /\ g[k] \in Seq(S) /\ x \in S
    BY <1>2, <1>4, <2>1
  <2>4. First(k + 1) = First(k) \cup {x}
    <3>1. 1 .. k + 1 = (1 .. k) \cup {k + 1} BY <2>1
    <3> QED BY <3>1
  <2>5. IsInjective(list) => x \notin First(k)
    <3> SUFFICES ASSUME IsInjective(list), NEW i \in 1 .. k PROVE list[i] # x
      OBVIOUS
    <3>1. i \in DOMAIN list /\ k + 1 \in DOMAIN list /\ i # k + 1 BY <1>2, <2>1
    <3> QED BY <3>1 DEF IsInjective
  <2>6. CASE x \in gone BY <2>1, <2>2, <2>3, <2>4, <2>6
  <2>7. CASE x \notin gone
    <3> DEFINE n == Len(g[k])
    <3>1. /\ n \in Nat /\ DOMAIN g[k] = 1 .. n /\ DOMAIN g[k + 1] = (1 .. n) \cup {n + 1}
          /\ g[k + 1][n + 1] = x /\ \A i \in 1 .. n : g[k + 1][i] = g[k][i]
      BY <2>2, <2>3, <2>7
    <3> HIDE DEF n
    <3>2. Range(g[k + 1]) = Range(g[k]) \cup {x} BY <3>1 DEF Range
    <3>3. IsInjective(list) => IsInjective(g[k + 1])
      <4> SUFFICES ASSUME IsInjective(list), NEW i \in DOMAIN g[k + 1],
                          NEW j \in DOMAIN g[k + 1], g[k + 1][i] = g[k + 1][j]
                   PROVE  i = j
        BY DEF IsInjective
      <4>1. x \notin Range(g[k]) BY <2>3, <2>5
      <4>2. \A l \in 1 .. n : g[k][l] # x BY <3>1, <4>1 DEF Range
      <4>3. CASE i \in 1 .. n /\ j \in 1 .. n
        BY <2>3, <3>1, <4>3 DEF IsInjective
      <4>4. CASE i = n + 1 \/ j = n + 1 BY <3>1, <4>2, <4>4
      <4> QED BY <3>1, <4>3, <4>4
    <3> QED BY <2>1, <2>3, <2>4, <2>7, <3>2, <3>3
  <2> QED BY <2>6, <2>7
<1> HIDE DEF U
<1>5. \A k \in 0 .. top - 1 : k \in U => k + 1 \in U BY <1>4
<1>6. top \in U BY <1>2, <1>3, <1>5, Climb
<1> QED BY <1>1, <1>2, <1>6 DEF U

(* A row that is read or written again comes first.                         *)
LEMMA FirstElements ==
  ASSUME NEW S, NEW list \in Seq(S), NEW r \in S, IsInjective(list)
  PROVE  LET used == <<r>> \o Without(list, {r})
         IN  /\ used \in Seq(S) /\ IsInjective(used)
             /\ Range(used) = Range(list) \cup {r}
<1> DEFINE rest == Without(list, {r})
           used == <<r>> \o rest
<1>1. rest \in Seq(S) BY WithoutTyped
<1>2. Range(rest) = Range(list) \ {r} /\ IsInjective(rest) BY WithoutElements
<1> HIDE DEF rest
<1>3. /\ used \in Seq(S) /\ Len(rest) \in Nat /\ Len(used) = 1 + Len(rest)
      /\ DOMAIN rest = 1 .. Len(rest) /\ DOMAIN used = 1 .. 1 + Len(rest)
  BY <1>1
<1>4. used[1] = r /\ \A i \in 1 .. Len(rest) : used[i + 1] = rest[i] BY <1>1
<1>5. \A i \in DOMAIN used : i = 1 \/ (i - 1 \in DOMAIN rest /\ used[i] = rest[i - 1])
  BY <1>1, <1>3
<1> HIDE DEF used
<1>6. Range(used) = Range(rest) \cup {r}
  <2>1. ASSUME NEW x \in Range(used) PROVE x \in Range(rest) \cup {r}
    <3>1. PICK i \in DOMAIN used : x = used[i] BY DEF Range
    <3> QED BY <1>4, <1>5, <3>1 DEF Range
  <2>2. ASSUME NEW x \in Range(rest) PROVE x \in Range(used)
    <3>1. PICK i \in DOMAIN rest : x = rest[i] BY DEF Range
    <3>2. i + 1 \in DOMAIN used /\ used[i + 1] = x BY <1>3, <1>4, <3>1
    <3> QED BY <3>2 DEF Range
  <2>3. r \in Range(used)
    <3>1. 1 \in DOMAIN used BY <1>3
    <3> QED BY <1>4, <3>1 DEF Range
  <2> QED BY <2>1, <2>2, <2>3
<1>7. IsInjective(used)
  <2> SUFFICES ASSUME NEW i \in DOMAIN used, NEW j \in DOMAIN used, used[i] = used[j]
               PROVE  i = j
    BY DEF IsInjective
  <2>1. \A l \in DOMAIN rest : rest[l] # r BY <1>2 DEF Range
  <2>2. CASE i = 1 /\ j = 1 BY <2>2
  <2>3. CASE i = 1 /\ j # 1 BY <1>4, <1>5, <2>1, <2>3
  <2>4. CASE i # 1 /\ j = 1 BY <1>4, <1>5, <2>1, <2>4
  <2>5. CASE i # 1 /\ j # 1
    <3>1. i - 1 = j - 1 BY <1>2, <1>5, <2>5 DEF IsInjective
    <3> QED BY <1>3, <3>1
  <2> QED BY <2>2, <2>3, <2>4, <2>5
<1> QED BY <1>2, <1>3, <1>6, <1>7 DEF used, rest

Begins(a, b) == Len(a) <= Len(b) /\ \A i \in 1 .. Len(a) : a[i] = b[i]

LEMMA BeginsTransitive ==
  ASSUME NEW S, NEW a \in Seq(S), NEW b \in Seq(S), NEW c \in Seq(S),
         Begins(a, b), Begins(b, c)
  PROVE  Begins(a, c)
  BY DEF Begins

(* What is left of a beginning is a beginning of what is left.              *)
LEMMA WithoutBegins ==
  ASSUME NEW S, NEW a \in Seq(S), NEW b \in Seq(S), NEW gone, Begins(a, b)
  PROVE  Begins(Without(a, gone), Without(b, gone))
<1> DEFINE n == Len(a)
           m == Len(b)
<1>1. PICK g \in [0 .. n -> Seq(S)] :
        Filters(a, gone, g, n) /\ Without(a, gone) = g[n]
  BY WithoutIs
<1>2. PICK h \in [0 .. m -> Seq(S)] :
        Filters(b, gone, h, m) /\ Without(b, gone) = h[m]
  BY WithoutIs
<1>3. n \in Nat /\ m \in Nat /\ n <= m /\ \A k \in 1 .. n : a[k] = b[k]
  BY DEF Begins
<1>4. \A k \in 1 .. m : b[k] \in S OBVIOUS
<1> HIDE DEF n, m
<1>5. g[n] = h[n]
  <2> DEFINE U == {k \in 0 .. n : g[k] = h[k]}
  <2>1. 0 \in U BY <1>1, <1>2, <1>3 DEF Filters
  <2>2. ASSUME NEW k \in 0 .. n - 1, k \in U PROVE k + 1 \in U
    <3>1. /\ k + 1 \in 0 .. n /\ k + 1 \in 1 .. n /\ k + 1 \in 0 .. m
          /\ k + 1 # 0 /\ (k + 1) - 1 = k
      <4>1. n \in Nat /\ m \in Nat /\ n <= m /\ k \in 0 .. n - 1 BY <1>3
      <4> QED BY ONLY <4>1
    <3>4. a[k + 1] = b[k + 1] BY <1>3, <3>1
    <3>2. g[k + 1] = IF a[k + 1] \in gone THEN g[k] ELSE Append(g[k], a[k + 1])
      BY <1>1, <3>1 DEF Filters
    <3>3. h[k + 1] = IF b[k + 1] \in gone THEN h[k] ELSE Append(h[k], b[k + 1])
      BY <1>2, <3>1 DEF Filters
    <3> QED BY <2>2, <3>1, <3>2, <3>3, <3>4
  <2> HIDE DEF U
  <2>3. \A k \in 0 .. n - 1 : k \in U => k + 1 \in U BY <2>2
  <2>4. n \in U BY <1>3, <2>1, <2>3, Climb
  <2> QED BY <2>4 DEF U
<1>6. Begins(h[n], h[m])
  <2> DEFINE top == m - n
             U == {k \in 0 .. top : Begins(h[n], h[n + k])}
  <2>1. top \in Nat /\ n + top = m BY <1>3
  <2>2. 0 \in U
    <3>1. n + 0 = n /\ Len(h[n]) \in Nat BY <1>3
    <3> QED BY <2>1, <3>1 DEF Begins
  <2>3. ASSUME NEW k \in 0 .. top - 1, k \in U PROVE k + 1 \in U
    <3>1. /\ n + k \in 0 .. m /\ n + k + 1 \in 0 .. m /\ n + k + 1 # 0
          /\ (n + k + 1) - 1 = n + k /\ n \in 0 .. m /\ n + (k + 1) = n + k + 1
          /\ k + 1 \in 0 .. top /\ n + k + 1 \in 1 .. m
      <4>1. n \in Nat /\ m \in Nat /\ top \in Nat /\ n + top = m /\ k \in 0 .. top - 1
        BY <1>3, <2>1
      <4> HIDE DEF top
      <4> QED BY ONLY <4>1
    <3>2. h[n + k + 1] = IF b[n + k + 1] \in gone THEN h[n + k]
                         ELSE Append(h[n + k], b[n + k + 1])
      BY <1>2, <3>1 DEF Filters
    <3>3. /\ h[n] \in Seq(S) /\ h[n + k] \in Seq(S) /\ b[n + k + 1] \in S
          /\ Begins(h[n], h[n + k])
      BY <1>4, <2>3, <3>1
    <3>4. Begins(h[n + k], Append(h[n + k], b[n + k + 1]))
      BY <3>3, AppendProperties DEF Begins
    <3>5. Append(h[n + k], b[n + k + 1]) \in Seq(S) BY <3>3
    <3>6. Begins(h[n], h[n + k + 1])
      BY <3>2, <3>3, <3>4, <3>5, BeginsTransitive
    <3> QED BY <3>1, <3>6
  <2> HIDE DEF U, top
  <2>4. \A k \in 0 .. top - 1 : k \in U => k + 1 \in U BY <2>3
  <2>5. top \in U BY <2>1, <2>2, <2>4, Climb
  <2> QED BY <2>1, <2>5 DEF U
<1> QED BY <1>1, <1>2, <1>5, <1>6

(* What is left depends on which rows are deleted, and on nothing else that *)
(* was to be deleted; and it is no more than there was.                     *)
LEMMA WithoutSame ==
  ASSUME NEW S, NEW list \in Seq(S), NEW gone, NEW too,
         \A i \in 1 .. Len(list) : list[i] \in gone <=> list[i] \in too
  PROVE  /\ Without(list, gone) = Without(list, too)
         /\ Len(Without(list, gone)) <= Len(list)
<1> DEFINE n == Len(list)
<1>1. PICK g \in [0 .. n -> Seq(S)] :
        Filters(list, gone, g, n) /\ Without(list, gone) = g[n]
  BY WithoutIs
<1>2. PICK h \in [0 .. n -> Seq(S)] :
        Filters(list, too, h, n) /\ Without(list, too) = h[n]
  BY WithoutIs
<1>3. n \in Nat /\ \A k \in 1 .. n : list[k] \in S
  OBVIOUS
<1> HIDE DEF n
<1> DEFINE U == {k \in 0 .. n : g[k] = h[k] /\ Len(g[k]) <= k}
<1>4. 0 \in U
  <2>1. g[0] = <<>> /\ h[0] = <<>> /\ 0 \in 0 .. n BY <1>1, <1>2, <1>3 DEF Filters
  <2>2. Len(<<>>) <= 0 OBVIOUS
  <2> QED BY <2>1, <2>2
<1>5. ASSUME NEW k \in 0 .. n - 1, k \in U PROVE k + 1 \in U
  <2>1. /\ k \in Nat /\ k \in 0 .. n /\ k + 1 \in 0 .. n /\ k + 1 \in 1 .. n
        /\ k + 1 # 0 /\ (k + 1) - 1 = k
    BY <1>3
  <2> DEFINE x == list[k + 1]
  <2>2. x \in gone <=> x \in too BY <2>1 DEF n
  <2>3. g[k + 1] = IF x \in gone THEN g[k] ELSE Append(g[k], x)
    BY <1>1, <2>1 DEF Filters
  <2>4. h[k + 1] = IF x \in too THEN h[k] ELSE Append(h[k], x)
    BY <1>2, <2>1 DEF Filters
  <2>5. g[k] = h[k] /\ Len(g[k]) <= k /\ g[k] \in Seq(S) /\ x \in S
    BY <1>3, <1>5, <2>1
  <2> HIDE DEF x
  <2>6. Len(Append(g[k], x)) <= k + 1 /\ Len(g[k]) <= k + 1 BY <2>1, <2>5
  <2> QED BY <2>1, <2>2, <2>3, <2>4, <2>5, <2>6
<1> HIDE DEF U
<1>6. \A k \in 0 .. n - 1 : k \in U => k + 1 \in U BY <1>5
<1>7. n \in U BY <1>3, <1>4, <1>6, Climb
<1> QED BY <1>1, <1>2, <1>7 DEF U, n

LEMMA ConcatBegins ==
  ASSUME NEW S, NEW a \in Seq(S), NEW b \in Seq(S), NEW c \in Seq(S), Begins(a, b)
  PROVE  Begins(c \o a, c \o b)
<1>1. /\ Len(a) \in Nat /\ Len(b) \in Nat /\ Len(c) \in Nat
      /\ Len(c \o a) = Len(c) + Len(a) /\ Len(c \o b) = Len(c) + Len(b)
  OBVIOUS
<1>2. ASSUME NEW i \in 1 .. Len(c) + Len(a) PROVE (c \o a)[i] = (c \o b)[i]
  <2>1. CASE i <= Len(c) BY <1>1, <2>1 DEF Begins
  <2>2. CASE i > Len(c)
    <3>1. i - Len(c) \in 1 .. Len(a) BY <1>1, <2>2
    <3>2. (c \o a)[i] = a[i - Len(c)] /\ (c \o b)[i] = b[i - Len(c)]
      BY <1>1, <2>2 DEF Begins
    <3> QED BY <3>1, <3>2 DEF Begins
  <2>3. i <= Len(c) \/ i > Len(c) BY <1>1
  <2> QED BY <2>1, <2>2, <2>3
<1> QED BY <1>1, <1>2 DEF Begins
=============================================================================
