-------------------------- MODULE SelectionProofs ---------------------------
(***************************************************************************)
(* The selection of reviewers is fair, for any number of candidates and    *)
(* any limit.  The draws and the orders of the candidates are in           *)
(* one-to-one correspondence (DrawsAreOrders); an order is a list of       *)
(* selected reviewers and the rest, and what follows one list can follow   *)
(* any other under new names, so that the draws that select a given list,  *)
(* paired with the lists, are the draws (WaysTimesLists).                  *)
(***************************************************************************)
EXTENDS Selection, FiniteSetTheorems, FunctionTheorems, WellFoundedInduction,
        TLAPS

\* The orders of n candidates.
Orders(n) == {s \in [1 .. n -> 1 .. n] : \A i, j \in 1 .. n : s[i] = s[j] => i = j}

\* What holds of the last place, and of each place before one it holds of, holds
\* of every place.
LEMMA FromTheEnd ==
    ASSUME NEW n \in Nat, NEW S, n \in S,
           \A i \in 1 .. n - 1 : i + 1 \in S => i \in S
    PROVE  1 .. n \subseteq S
<1> DEFINE gaps == {m \in Nat : m < n /\ n - m \notin S}
<1> SUFFICES ASSUME NEW p \in 1 .. n, p \notin S PROVE FALSE
  OBVIOUS
<1>1. n - p \in gaps
  <2>1. n - (n - p) = p /\ n - p \in Nat /\ n - p < n
    OBVIOUS
  <2> QED BY <2>1
<1>2. gaps \in SUBSET Nat /\ gaps # {}
  <2>1. gaps \in SUBSET Nat
    OBVIOUS
  <2> HIDE DEF gaps
  <2> QED BY <1>1, <2>1
<1>3. PICK m \in gaps : \A k \in gaps : ~ (<<k, m>> \in OpToRel(<, Nat))
  <2> HIDE DEF gaps
  <2> QED BY <1>2, NatLessThanWellFounded, WFMin, Zenon
<1>4. m # 0
  OBVIOUS
<1>5. m - 1 \notin gaps
  <2>1. \A k \in gaps : <<k, m>> \notin {ss \in Nat \X Nat : ss[1] < ss[2]}
    BY <1>3 DEF OpToRel
  <2>2. m \in Nat /\ m - 1 \in Nat
    BY <1>4
  <2>3. <<m - 1, m>> \in {ss \in Nat \X Nat : ss[1] < ss[2]}
    BY <2>2
  <2> HIDE DEF gaps
  <2> QED BY <2>1, <2>3
<1>6. n - (m - 1) = (n - m) + 1 /\ n - (m - 1) \in S /\ n - m \in 1 .. n - 1
  BY <1>4, <1>5
<1> QED BY <1>6

-----------------------------------------------------------------------------
(* The shuffle.                                                            *)

\* An order has the length of its domain.
LEMMA OrderLen ==
    ASSUME NEW n \in Nat, NEW s \in Orders(n)
    PROVE  s \in Seq(1 .. n) /\ Len(s) = n /\ s \in [1 .. n -> 1 .. n]
BY DEF Orders

\* f holds the lists of the places first .. n.
ShuffleRun(f, first, n, users, draw) ==
    /\ f = [i \in first .. n |-> f[i]]
    /\ f[n] = users
    /\ \A i \in first .. n - 1 : f[i] = Swap(f[i + 1], i + 1, draw[i + 1])

\* There is a list for each place the shuffle comes to.
LEMMA ShuffleRuns ==
    ASSUME NEW n \in Nat \ {0}, NEW users, NEW draw
    PROVE  \E f : ShuffleRun(f, 1, n, users, draw)
<1> DEFINE Runs(f, m) == ShuffleRun(f, m, n, users, draw)
    S == {m \in 1 .. n : \E f : Runs(f, m)}
<1>1. n \in S
  <2> DEFINE f == [i \in n .. n |-> users]
  <2>1. Runs(f, n)
    BY DEF ShuffleRun
  <2> QED BY <2>1
<1>2. ASSUME NEW m \in 1 .. n - 1, m + 1 \in S
      PROVE  m \in S
  <2>1. PICK f : Runs(f, m + 1)
    BY <1>2
  <2> DEFINE g == [i \in m .. n |-> IF i = m THEN Swap(f[m + 1], m + 1, draw[m + 1])
                                             ELSE f[i]]
  <2>2. g = [i \in m .. n |-> g[i]] /\ g[n] = users
    BY <2>1 DEF ShuffleRun
  <2>3. ASSUME NEW i \in m .. n - 1
        PROVE  g[i] = Swap(g[i + 1], i + 1, draw[i + 1])
    <3>1. g[i + 1] = f[i + 1]
      OBVIOUS
    <3>2. CASE i = m
      BY <3>1, <3>2
    <3>3. CASE i # m
      <4>1. i \in m + 1 .. n - 1 /\ g[i] = f[i]
        BY <3>3
      <4> QED BY <4>1, <3>1, <2>1 DEF ShuffleRun
    <3> QED BY <3>2, <3>3
  <2>4. Runs(g, m)
    <3> HIDE DEF g
    <3> QED BY <2>2, <2>3 DEF ShuffleRun
  <2>5. m \in 1 .. n
    OBVIOUS
  <2> HIDE DEF g, Runs
  <2> QED BY <2>4, <2>5
<1>3. 1 .. n \subseteq S
  <2> HIDE DEF S
  <2> QED BY <1>1, <1>2, FromTheEnd
<1>4. 1 \in S
  BY <1>3
<1> QED BY <1>4

\* The list of a place is that of the place behind it, with a swap.
LEMMA ShuffledSteps ==
    ASSUME NEW n \in Nat \ {0}, NEW users \in Orders(n), NEW draw
    PROVE  /\ Shuffled(users, draw, n) = users
           /\ \A i \in 1 .. n - 1 :
                 Shuffled(users, draw, i) =
                    Swap(Shuffled(users, draw, i + 1), i + 1, draw[i + 1])
<1>1. Len(users) = n
  BY OrderLen
<1>2. PICK f : ShuffleRun(f, 1, n, users, draw)
  BY ShuffleRuns, Zenon
<1>3. /\ f[n] = users
      /\ \A i \in 1 .. n - 1 : f[i] = Swap(f[i + 1], i + 1, draw[i + 1])
  BY <1>2 DEF ShuffleRun
<1>4. ASSUME NEW last \in 1 .. n
      PROVE  Shuffled(users, draw, last) = f[last]
  <2> DEFINE Steps(h) ==
        [i \in last .. n |-> IF i = n THEN users ELSE Swap(h[i + 1], i + 1, draw[i + 1])]
      g == [i \in last .. n |-> f[i]]
      after == CHOOSE h : h = Steps(h)
  <2>1. Shuffled(users, draw, last) = after[last]
    BY <1>1, Zenon DEF Shuffled
  <2>2. g = Steps(g)
    <3>1. ASSUME NEW i \in last .. n
          PROVE  f[i] = IF i = n THEN users ELSE Swap(g[i + 1], i + 1, draw[i + 1])
      <4>1. CASE i = n
        BY <1>3, <4>1
      <4>2. CASE i # n
        <5>1. i \in 1 .. n - 1 /\ i + 1 \in last .. n
          BY <4>2
        <5>2. g[i + 1] = f[i + 1]
          BY <5>1
        <5> HIDE DEF g
        <5> QED BY <4>2, <5>1, <5>2, <1>3
      <4> QED BY <4>1, <4>2
    <3> QED BY <3>1
  <2>3. after = Steps(after)
    <3> HIDE DEF g, Steps
    <3> QED BY <2>2
  <2> DEFINE S == {i \in 1 .. n : i >= last => after[i] = f[i]}
  <2> HIDE DEF after
  <2>4. n \in S
    BY <2>3, <1>3
  <2>5. ASSUME NEW i \in 1 .. n - 1, i + 1 \in S
        PROVE  i \in S
    <3>1. CASE i >= last
      <4>1. i \in last .. n /\ i # n /\ i \in 1 .. n
        BY <3>1
      <4>2. after[i] = Swap(after[i + 1], i + 1, draw[i + 1])
        BY <2>3, <4>1
      <4>3. after[i + 1] = f[i + 1]
        BY <2>5, <3>1
      <4> QED BY <4>1, <4>2, <4>3, <1>3
    <3> QED BY <3>1
  <2>6. 1 .. n \subseteq S
    <3> HIDE DEF S
    <3> QED BY <2>4, <2>5, FromTheEnd
  <2> QED BY <2>1, <2>6
<1>5. n \in 1 .. n /\ \A i \in 1 .. n - 1 : i \in 1 .. n /\ i + 1 \in 1 .. n
  OBVIOUS
<1> QED BY <1>3, <1>4, <1>5

\* A swap leaves an order an order.
LEMMA SwapOrders ==
    ASSUME NEW n \in Nat, NEW s \in Orders(n), NEW i \in 1 .. n, NEW j \in 1 .. n
    PROVE  /\ Swap(s, i, j) \in Orders(n)
           /\ Swap(s, i, j)[i] = s[j]
           /\ \A m \in 1 .. n : m # i /\ m # j => Swap(s, i, j)[m] = s[m]
<1>1. s \in [1 .. n -> 1 .. n] /\ \A a, b \in 1 .. n : s[a] = s[b] => a = b
  BY DEF Orders
<1>2. \A m \in 1 .. n :
         Swap(s, i, j)[m] = IF m = j THEN s[i] ELSE IF m = i THEN s[j] ELSE s[m]
  BY <1>1 DEF Swap
<1>3. Swap(s, i, j) \in [1 .. n -> 1 .. n]
  BY <1>1 DEF Swap
<1>4. \A a, b \in 1 .. n : Swap(s, i, j)[a] = Swap(s, i, j)[b] => a = b
  BY <1>1, <1>2
<1> QED BY <1>2, <1>3, <1>4 DEF Orders

\* Every list on the way is an order of the candidates.
LEMMA ShuffledOrders ==
    ASSUME NEW n \in Nat \ {0}, NEW users \in Orders(n), NEW draw \in Draws(n)
    PROVE  \A last \in 1 .. n : Shuffled(users, draw, last) \in Orders(n)
<1> DEFINE S == {i \in 1 .. n : Shuffled(users, draw, i) \in Orders(n)}
<1>1. n \in S
  BY ShuffledSteps
<1>2. ASSUME NEW i \in 1 .. n - 1, i + 1 \in S
      PROVE  i \in S
  <2>1. i \in 1 .. n /\ i + 1 \in 1 .. n /\ i + 1 \in 2 .. n
    OBVIOUS
  <2>2. draw[i + 1] \in 1 .. n
    BY <2>1 DEF Draws
  <2>3. Shuffled(users, draw, i + 1) \in Orders(n)
    BY <1>2
  <2>4. Swap(Shuffled(users, draw, i + 1), i + 1, draw[i + 1]) \in Orders(n)
    BY <2>1, <2>2, <2>3, SwapOrders
  <2> QED BY <2>1, <2>4, ShuffledSteps
<1>3. 1 .. n \subseteq S
  <2> HIDE DEF S
  <2> QED BY <1>1, <1>2, FromTheEnd
<1> QED BY <1>3

\* A place keeps what its draw gave it.
LEMMA Settled ==
    ASSUME NEW n \in Nat \ {0}, NEW users \in Orders(n), NEW draw \in Draws(n)
    PROVE  \A last \in 1 .. n : \A j \in last + 1 .. n :
              Shuffled(users, draw, last)[j] = Shuffled(users, draw, j)[draw[j]]
<1> DEFINE list(i) == Shuffled(users, draw, i)
    S == {i \in 1 .. n : \A j \in i + 1 .. n : list(i)[j] = list(j)[draw[j]]}
<1>1. n \in S
  OBVIOUS
<1>2. ASSUME NEW i \in 1 .. n - 1, i + 1 \in S
      PROVE  i \in S
  <2>1. i \in 1 .. n /\ i + 1 \in 1 .. n /\ i + 1 \in 2 .. n
    OBVIOUS
  <2>2. draw[i + 1] \in 1 .. n /\ draw[i + 1] <= i + 1
    BY <2>1 DEF Draws
  <2>3. list(i + 1) \in Orders(n)
    BY <2>1, ShuffledOrders
  <2>4. list(i) = Swap(list(i + 1), i + 1, draw[i + 1])
    BY ShuffledSteps
  <2> HIDE DEF list
  <2>5. /\ list(i)[i + 1] = list(i + 1)[draw[i + 1]]
        /\ \A m \in 1 .. n :
              m # i + 1 /\ m # draw[i + 1] => list(i)[m] = list(i + 1)[m]
    <3>1. ASSUME NEW a \in 1 .. n, NEW b \in 1 .. n
          PROVE  /\ Swap(list(i + 1), a, b)[a] = list(i + 1)[b]
                 /\ \A m \in 1 .. n :
                       m # a /\ m # b => Swap(list(i + 1), a, b)[m] = list(i + 1)[m]
      BY <2>3, SwapOrders
    <3> QED BY <2>1, <2>2, <2>4, <3>1
  <2>6. ASSUME NEW j \in i + 2 .. n
        PROVE  list(i)[j] = list(j)[draw[j]]
    <3>1. j \in 1 .. n /\ j # i + 1 /\ j # draw[i + 1] /\ j \in (i + 1) + 1 .. n
      BY <2>2
    <3>2. list(i)[j] = list(i + 1)[j]
      BY <2>5, <3>1
    <3> QED BY <1>2, <3>1, <3>2
  <2>7. \A j \in i + 1 .. n : j = i + 1 \/ j \in i + 2 .. n
    OBVIOUS
  <2> QED BY <2>1, <2>5, <2>6, <2>7
<1>3. 1 .. n \subseteq S
  <2> HIDE DEF S
  <2> QED BY <1>1, <1>2, FromTheEnd
<1> QED BY <1>3

\* A list depends on the draws behind it only.
LEMMA ShuffledLocal ==
    ASSUME NEW n \in Nat \ {0}, NEW users \in Orders(n), NEW draw, NEW other,
           NEW last \in 1 .. n, \A j \in last + 1 .. n : draw[j] = other[j]
    PROVE  Shuffled(users, draw, last) = Shuffled(users, other, last)
<1> DEFINE same(i) == Shuffled(users, draw, i) = Shuffled(users, other, i)
    S == {i \in 1 .. n : i >= last => same(i)}
<1>1. n \in S
  BY ShuffledSteps
<1>2. ASSUME NEW i \in 1 .. n - 1, i + 1 \in S
      PROVE  i \in S
  <2>1. i \in 1 .. n
    OBVIOUS
  <2>2. CASE i >= last
    <3>1. same(i + 1) /\ draw[i + 1] = other[i + 1]
      BY <1>2, <2>2
    <3>2. same(i)
      BY <3>1, ShuffledSteps
    <3> HIDE DEF same
    <3> QED BY <2>1, <3>2
  <2> QED BY <2>1, <2>2
<1>3. 1 .. n \subseteq S
  <2> HIDE DEF S
  <2> QED BY <1>1, <1>2, FromTheEnd
<1> QED BY <1>3

\* Different draws end in different orders.
LEMMA DrawsDiffer ==
    ASSUME NEW n \in Nat \ {0}, NEW users \in Orders(n),
           NEW draw \in Draws(n), NEW other \in Draws(n),
           Shuffled(users, draw, 1) = Shuffled(users, other, 1)
    PROVE  draw = other
<1> DEFINE list(i) == Shuffled(users, draw, i)
    olist(i) == Shuffled(users, other, i)
    S == {i \in 1 .. n : list(i) = olist(i) /\ \A j \in i + 1 .. n : draw[j] = other[j]}
<1>1. n \in S
  BY ShuffledSteps
<1>2. ASSUME NEW i \in 1 .. n - 1, i + 1 \in S
      PROVE  i \in S
  <2>1. i \in 1 .. n /\ i + 1 \in 1 .. n /\ i + 1 \in 2 .. n /\ 1 \in 1 .. n
    OBVIOUS
  <2>2. draw[i + 1] \in 1 .. n /\ other[i + 1] \in 1 .. n
    BY <2>1 DEF Draws
  <2>3. list(i + 1) \in Orders(n)
    BY <2>1, ShuffledOrders
  <2>4. /\ list(1)[i + 1] = list(i + 1)[draw[i + 1]]
        /\ olist(1)[i + 1] = olist(i + 1)[other[i + 1]]
    BY <2>1, Settled
  <2>5. list(i) = Swap(list(i + 1), i + 1, draw[i + 1])
        /\ olist(i) = Swap(olist(i + 1), i + 1, other[i + 1])
    BY ShuffledSteps
  <2>6. list(1) = olist(1)
    OBVIOUS
  <2> HIDE DEF list, olist
  <2>7. draw[i + 1] = other[i + 1]
    BY <1>2, <2>2, <2>3, <2>4, <2>6 DEF Orders
  <2>8. list(i) = olist(i)
    BY <1>2, <2>5, <2>7
  <2>9. \A j \in i + 1 .. n : j = i + 1 \/ j \in (i + 1) + 1 .. n
    OBVIOUS
  <2> QED BY <1>2, <2>1, <2>7, <2>8, <2>9
<1>3. 1 .. n \subseteq S
  <2> HIDE DEF S
  <2> QED BY <1>1, <1>2, FromTheEnd
<1>4. 1 \in S
  BY <1>3
<1>5. \A j \in 2 .. n : draw[j] = other[j]
  BY <1>4
<1> QED BY <1>5 DEF Draws

\* Everyone has a place in an order.
LEMMA OrderHasAll ==
    ASSUME NEW n \in Nat, NEW s \in Orders(n), NEW v \in 1 .. n
    PROVE  \E c \in 1 .. n : s[c] = v
<1>1. s \in Injection(1 .. n, 1 .. n)
  BY Fun_IsInj DEF Orders
<1>2. IsFiniteSet(1 .. n)
  BY FS_Interval
<1>3. s \in Surjection(1 .. n, 1 .. n)
  BY <1>1, <1>2, FS_Injection
<1> QED BY <1>3 DEF Surjection

\* Two orders that agree behind the first place are one.
LEMMA OrderByRest ==
    ASSUME NEW n \in Nat \ {0}, NEW s \in Orders(n), NEW t \in Orders(n),
           \A j \in 2 .. n : s[j] = t[j]
    PROVE  s = t
<1>1. 1 \in 1 .. n /\ t[1] \in 1 .. n
  BY DEF Orders
<1>2. PICK c \in 1 .. n : s[c] = t[1]
  BY <1>1, OrderHasAll
<1>3. c = 1
  <2>1. CASE c \in 2 .. n
    <3>1. t[c] = t[1]
      BY <1>2, <2>1
    <3> QED BY <1>1, <3>1 DEF Orders
  <2> QED BY <2>1
<1>4. \A j \in 1 .. n : s[j] = t[j]
  BY <1>2, <1>3
<1> QED BY <1>4 DEF Orders

\* Every order comes from some draws.
LEMMA DrawsReach ==
    ASSUME NEW n \in Nat \ {0}, NEW users \in Orders(n), NEW order \in Orders(n)
    PROVE  \E draw \in Draws(n) : Shuffled(users, draw, 1) = order
<1> DEFINE Reaches(draw, i) ==
      \A j \in i + 1 .. n : Shuffled(users, draw, i)[j] = order[j]
    S == {i \in 1 .. n : \E draw \in Draws(n) : Reaches(draw, i)}
<1>1. n \in S
  <2>1. [i \in 2 .. n |-> 1] \in Draws(n)
    BY DEF Draws
  <2>2. Reaches([i \in 2 .. n |-> 1], n)
    OBVIOUS
  <2> HIDE DEF Reaches
  <2> QED BY <2>1, <2>2
<1>2. ASSUME NEW i \in 1 .. n - 1, i + 1 \in S
      PROVE  i \in S
  <2>1. i \in 1 .. n /\ i + 1 \in 1 .. n /\ i + 1 \in 2 .. n
    OBVIOUS
  <2>2. PICK draw \in Draws(n) : Reaches(draw, i + 1)
    BY <1>2
  <2> DEFINE list == Shuffled(users, draw, i + 1)
  <2>3. list \in Orders(n)
    BY <2>1, ShuffledOrders
  <2>4. order[i + 1] \in 1 .. n
    BY <2>1 DEF Orders
  <2>5. PICK c \in 1 .. n : list[c] = order[i + 1]
    <3> HIDE DEF list
    <3> QED BY <2>3, <2>4, OrderHasAll
  <2>6. \A j \in i + 2 .. n : list[j] = order[j]
    BY <2>2
  <2> DEFINE next == [draw EXCEPT ![i + 1] = c]
  <2>7. c <= i + 1
    <3> SUFFICES ASSUME c \in i + 2 .. n PROVE FALSE
      OBVIOUS
    <3>1. order[c] = order[i + 1]
      BY <2>5, <2>6
    <3> QED BY <2>1, <3>1 DEF Orders
  <2>8. next \in Draws(n) /\ next[i + 1] = c
    BY <2>1, <2>7 DEF Draws
  <2>9. Shuffled(users, next, i + 1) = list
    <3>1. \A j \in (i + 1) + 1 .. n : next[j] = draw[j]
      BY <2>1 DEF Draws
    <3> HIDE DEF next
    <3> QED BY <2>1, <3>1, ShuffledLocal
  <2> HIDE DEF next, list
  <2>10. Shuffled(users, next, i) = Swap(list, i + 1, c)
    BY <2>8, <2>9, ShuffledSteps
  <2>11. ASSUME NEW j \in i + 1 .. n
         PROVE  Swap(list, i + 1, c)[j] = order[j]
    <3>1. CASE j = i + 1
      BY <2>1, <2>3, <2>5, <3>1, SwapOrders
    <3>2. CASE j # i + 1
      <4>1. j \in 1 .. n /\ j # c /\ j \in i + 2 .. n
        BY <2>7, <3>2
      <4>2. Swap(list, i + 1, c)[j] = list[j]
        BY <2>1, <2>3, <3>2, <4>1, SwapOrders
      <4> QED BY <2>6, <4>1, <4>2
    <3> QED BY <3>1, <3>2
  <2>12. Reaches(next, i)
    BY <2>10, <2>11
  <2> HIDE DEF Reaches
  <2> QED BY <2>1, <2>8, <2>12
<1>3. 1 .. n \subseteq S
  <2> HIDE DEF S
  <2> QED BY <1>1, <1>2, FromTheEnd
<1>4. 1 \in S
  BY <1>3
<1>5. PICK draw \in Draws(n) : Reaches(draw, 1)
  BY <1>4
<1>6. Shuffled(users, draw, 1) \in Orders(n)
  BY ShuffledOrders
<1>7. \A j \in 2 .. n : Shuffled(users, draw, 1)[j] = order[j]
  BY <1>5
<1>8. Shuffled(users, draw, 1) = order
  BY <1>6, <1>7, OrderByRest
<1> QED BY <1>8

\* The draws and the orders of the candidates correspond one to one.
LEMMA DrawsAreOrders ==
    ASSUME NEW n \in Nat \ {0}, NEW users \in Orders(n)
    PROVE  [draw \in Draws(n) |-> Shuffled(users, draw, 1)] \in Bijection(Draws(n), Orders(n))
<1> DEFINE F == [draw \in Draws(n) |-> Shuffled(users, draw, 1)]
<1>1. F \in [Draws(n) -> Orders(n)]
  BY ShuffledOrders
<1>2. \A d, e \in Draws(n) : F[d] = F[e] => d = e
  BY DrawsDiffer
<1>3. \A order \in Orders(n) : \E d \in Draws(n) : F[d] = order
  BY DrawsReach
<1> HIDE DEF F
<1>4. F \in Bijection(Draws(n), Orders(n))
  BY <1>1, <1>2, <1>3, Fun_IsBij
<1> QED BY <1>4 DEF F

-----------------------------------------------------------------------------
(* Lists and orders.                                                       *)

\* The lists of k different ones of n candidates.
Picks(n, k) == {s \in [1 .. k -> 1 .. n] : \A i, j \in 1 .. k : s[i] = s[j] => i = j}

Picked(s) == {s[i] : i \in DOMAIN s}

\* As many candidates are left by one list as by any other.
LEMMA LeftOver ==
    ASSUME NEW n \in Nat, NEW k \in 0 .. n, NEW s \in Picks(n, k)
    PROVE  /\ IsFiniteSet(1 .. n \ Picked(s))
           /\ Cardinality(1 .. n \ Picked(s)) = n - k
<1>1. /\ s \in [1 .. k -> Picked(s)]
      /\ \A i, j \in 1 .. k : s[i] = s[j] => i = j
      /\ \A v \in Picked(s) : \E i \in 1 .. k : s[i] = v
      /\ Picked(s) \subseteq 1 .. n
  BY DEF Picks, Picked
<1>2. s \in Bijection(1 .. k, Picked(s))
  BY <1>1, Fun_IsBij
<1>3. IsFiniteSet(1 .. k) /\ Cardinality(1 .. k) = k
  BY FS_Interval
<1>4. Cardinality(Picked(s)) = k
  <2>1. ExistsBijection(1 .. k, Picked(s))
    BY <1>2 DEF ExistsBijection
  <2> QED BY <1>3, <2>1, FS_Bijection
<1>5. IsFiniteSet(1 .. n) /\ Cardinality(1 .. n) = n
  BY FS_Interval
<1>6. 1 .. n \cap Picked(s) = Picked(s)
  BY <1>1
<1>7. /\ IsFiniteSet(1 .. n \ Picked(s))
      /\ Cardinality(1 .. n \ Picked(s)) =
            Cardinality(1 .. n) - Cardinality(1 .. n \cap Picked(s))
  BY <1>5, FS_Difference, Zenon
<1> QED BY <1>4, <1>5, <1>6, <1>7

\* New names for the candidates make any list any other.
LEMMA Renaming ==
    ASSUME NEW n \in Nat, NEW k \in 0 .. n, NEW s \in Picks(n, k), NEW t \in Picks(n, k)
    PROVE  \E p \in Orders(n) : \A i \in 1 .. k : p[s[i]] = t[i]
<1>1. PICK g : g \in Bijection(1 .. n \ Picked(s), 1 .. n \ Picked(t))
  BY LeftOver, FS_SameCardinalityBij DEF ExistsBijection
<1>2. /\ g \in [1 .. n \ Picked(s) -> 1 .. n \ Picked(t)]
      /\ \A a, b \in 1 .. n \ Picked(s) : g[a] = g[b] => a = b
  BY <1>1, Fun_BijectionProperties
<1> DEFINE place(v) == CHOOSE i \in 1 .. k : s[i] = v
    p == [v \in 1 .. n |-> IF v \in Picked(s) THEN t[place(v)] ELSE g[v]]
<1>3. ASSUME NEW v \in Picked(s)
      PROVE  place(v) \in 1 .. k /\ s[place(v)] = v
  <2>1. \E i \in 1 .. k : s[i] = v
    BY DEF Picks, Picked
  <2> QED BY <2>1
<1>4. ASSUME NEW i \in 1 .. k
      PROVE  s[i] \in Picked(s) /\ s[i] \in 1 .. n /\ place(s[i]) = i
  <2>1. s[i] \in Picked(s) /\ s[i] \in 1 .. n
    BY DEF Picks, Picked
  <2>2. place(s[i]) \in 1 .. k /\ s[place(s[i])] = s[i]
    BY <1>3, <2>1
  <2> HIDE DEF place
  <2> QED BY <2>1, <2>2 DEF Picks
<1> HIDE DEF place
<1>5. \A v \in Picked(s) : t[place(v)] \in 1 .. n /\ t[place(v)] \in Picked(t)
  BY <1>3 DEF Picks, Picked
<1>6. p \in [1 .. n -> 1 .. n]
  BY <1>2, <1>5
<1>7. ASSUME NEW a \in 1 .. n, NEW b \in 1 .. n, p[a] = p[b]
      PROVE  a = b
  <2>1. CASE a \in Picked(s) /\ b \in Picked(s)
    <3>1. t[place(a)] = t[place(b)]
      BY <1>7, <2>1
    <3>2. place(a) = place(b)
      BY <1>3, <2>1, <3>1 DEF Picks
    <3> QED BY <1>3, <2>1, <3>2
  <2>2. CASE a \notin Picked(s) /\ b \notin Picked(s)
    BY <1>2, <1>7, <2>2
  <2>3. CASE a \in Picked(s) /\ b \notin Picked(s)
    BY <1>2, <1>5, <1>7, <2>3
  <2>4. CASE a \notin Picked(s) /\ b \in Picked(s)
    BY <1>2, <1>5, <1>7, <2>4
  <2> QED BY <2>1, <2>2, <2>3, <2>4
<1>8. \A i \in 1 .. k : p[s[i]] = t[i]
  BY <1>4
<1> HIDE DEF p
<1>9. p \in Orders(n)
  BY <1>6, <1>7 DEF Orders
<1> QED BY <1>8, <1>9

\* An order under new names is an order, ...
LEMMA RenamedOrder ==
    ASSUME NEW n \in Nat, NEW p \in Orders(n), NEW s \in Orders(n)
    PROVE  [i \in 1 .. n |-> p[s[i]]] \in Orders(n)
BY DEF Orders

\* ... orders that differ still do, ...
LEMMA RenamedApart ==
    ASSUME NEW n \in Nat, NEW p \in Orders(n), NEW s \in Orders(n), NEW t \in Orders(n),
           \A i \in 1 .. n : p[s[i]] = p[t[i]]
    PROVE  s = t
<1>1. \A i \in 1 .. n : s[i] = t[i]
  BY DEF Orders
<1> QED BY <1>1 DEF Orders

\* ... and every order is another one under new names.
LEMMA RenamedFrom ==
    ASSUME NEW n \in Nat, NEW p \in Orders(n), NEW t \in Orders(n)
    PROVE  \E s \in Orders(n) : \A i \in 1 .. n : p[s[i]] = t[i]
<1> DEFINE s == [i \in 1 .. n |-> CHOOSE c \in 1 .. n : p[c] = t[i]]
<1>1. ASSUME NEW i \in 1 .. n
      PROVE  s[i] \in 1 .. n /\ p[s[i]] = t[i]
  <2>1. t[i] \in 1 .. n
    BY DEF Orders
  <2>2. \E c \in 1 .. n : p[c] = t[i]
    BY <2>1, OrderHasAll
  <2> QED BY <2>2
<1>2. s = [i \in 1 .. n |-> s[i]]
  OBVIOUS
<1> HIDE DEF s
<1>3. ASSUME NEW i \in 1 .. n, NEW j \in 1 .. n, s[i] = s[j]
      PROVE  i = j
  <2>1. t[i] = t[j]
    BY <1>1, <1>3
  <2> QED BY <2>1 DEF Orders
<1>4. s \in [1 .. n -> 1 .. n]
  BY <1>1, <1>2
<1>5. s \in Orders(n)
  BY <1>3, <1>4 DEF Orders
<1> QED BY <1>1, <1>5

\* An order begins with a list.
LEMMA OrderBegins ==
    ASSUME NEW n \in Nat, NEW k \in 0 .. n, NEW s \in Orders(n)
    PROVE  [i \in 1 .. k |-> s[i]] \in Picks(n, k)
<1>1. 1 .. k \subseteq 1 .. n
  OBVIOUS
<1>2. \A i, j \in 1 .. k : s[i] \in 1 .. n /\ (s[i] = s[j] => i = j)
  BY <1>1 DEF Orders
<1> QED BY <1>2 DEF Picks

-----------------------------------------------------------------------------
(* Counting.                                                               *)

\* There are finitely many functions from a finite set to a finite one.
LEMMA FinitelyManyFunctions ==
    ASSUME NEW S, NEW T, IsFiniteSet(S), IsFiniteSet(T)
    PROVE  IsFiniteSet([S -> T])
<1> DEFINE graph(f) == {x \in S \X T : x[2] = f[x[1]]}
    H == [f \in [S -> T] |-> graph(f)]
<1>1. H \in [[S -> T] -> SUBSET (S \X T)]
  OBVIOUS
<1>2. ASSUME NEW f \in [S -> T], NEW g \in [S -> T], H[f] = H[g]
      PROVE  f = g
  <2>1. ASSUME NEW x \in S
        PROVE  f[x] = g[x]
    <3>1. <<x, f[x]>> \in graph(f)
      OBVIOUS
    <3>2. <<x, f[x]>> \in graph(g)
      BY <1>2, <3>1
    <3> QED BY <3>2
  <2> QED BY <2>1
<1>3. IsFiniteSet(SUBSET (S \X T))
  BY FS_Product, FS_SUBSET
<1> HIDE DEF H
<1>4. H \in Injection([S -> T], SUBSET (S \X T))
  BY <1>1, <1>2, Fun_IsInj
<1> QED BY <1>3, <1>4, FS_Injection

\* The draws that begin with a list, one for each list, are all draws.
LEMMA WaysTimesLists ==
    ASSUME NEW n \in Nat \ {0}, NEW k \in 0 .. n, NEW s \in Picks(n, k),
           NEW F \in Bijection(Draws(n), Orders(n)), NEW W,
           W = {d \in Draws(n) : \A i \in 1 .. k : F[d][i] = s[i]}
    PROVE  Cardinality(W) * Cardinality(Picks(n, k)) = Cardinality(Draws(n))
<1> DEFINE Renames(p, t) == p \in Orders(n) /\ \A i \in 1 .. k : p[s[i]] = t[i]
    r(t) == CHOOSE p : Renames(p, t)
    To(e, d, t) == e \in Draws(n) /\ \A i \in 1 .. n : F[e][i] = r(t)[F[d][i]]
    to(d, t) == CHOOSE e : To(e, d, t)
<1>1. ASSUME NEW t \in Picks(n, k)
      PROVE  Renames(r(t), t)
  <2>1. \E p : Renames(p, t)
    BY Renaming
  <2> HIDE DEF Renames
  <2> QED BY <2>1
<1>2. /\ F \in [Draws(n) -> Orders(n)]
      /\ \A d, e \in Draws(n) : F[d] = F[e] => d = e
      /\ \A o \in Orders(n) : \E d \in Draws(n) : F[d] = o
  BY Fun_BijectionProperties
<1> HIDE DEF r
<1>3. ASSUME NEW d \in W, NEW t \in Picks(n, k)
      PROVE  To(to(d, t), d, t)
  <2> DEFINE o == [i \in 1 .. n |-> r(t)[F[d][i]]]
  <2>1. o \in Orders(n)
    <3>1. r(t) \in Orders(n) /\ F[d] \in Orders(n)
      BY <1>1, <1>2
    <3> QED BY <3>1, RenamedOrder
  <2>2. PICK e \in Draws(n) : F[e] = o
    BY <1>2, <2>1
  <2>3. To(e, d, t)
    BY <2>2
  <2> HIDE DEF To
  <2> QED BY <2>3
<1> HIDE DEF to
<1>4. ASSUME NEW d \in W, NEW t \in Picks(n, k), NEW e \in W, NEW u \in Picks(n, k),
             to(d, t) = to(e, u)
      PROVE  d = e /\ t = u
  <2>1. \A i \in 1 .. n : r(t)[F[d][i]] = r(u)[F[e][i]]
    BY <1>3, <1>4
  <2>2. ASSUME NEW i \in 1 .. k
        PROVE  t[i] = u[i]
    <3>1. i \in 1 .. n /\ F[d][i] = s[i] /\ F[e][i] = s[i]
      OBVIOUS
    <3>2. r(t)[s[i]] = t[i] /\ r(u)[s[i]] = u[i]
      BY <1>1
    <3> QED BY <2>1, <3>1, <3>2
  <2>3. t = u
    BY <2>2 DEF Picks
  <2>4. r(t) \in Orders(n) /\ F[d] \in Orders(n) /\ F[e] \in Orders(n)
    BY <1>1, <1>2
  <2>5. F[d] = F[e]
    <3>1. \A i \in 1 .. n : r(t)[F[d][i]] = r(t)[F[e][i]]
      BY <2>1, <2>3
    <3> QED BY <2>4, <3>1, RenamedApart, Zenon
  <2> QED BY <1>2, <2>3, <2>5
<1>5. ASSUME NEW e \in Draws(n)
      PROVE  \E d \in W, t \in Picks(n, k) : to(d, t) = e
  <2> DEFINE t == [i \in 1 .. k |-> F[e][i]]
  <2>1. F[e] \in Orders(n)
    BY <1>2
  <2>2. t \in Picks(n, k)
    BY <2>1, OrderBegins
  <2>3. \A i \in 1 .. k : t[i] = F[e][i]
    OBVIOUS
  <2> HIDE DEF t
  <2>4. Renames(r(t), t)
    BY <1>1, <2>2
  <2>5. PICK o \in Orders(n) : \A i \in 1 .. n : r(t)[o[i]] = F[e][i]
    <3>1. r(t) \in Orders(n)
      BY <2>4
    <3> QED BY <2>1, <3>1, RenamedFrom, Zenon
  <2>6. PICK d \in Draws(n) : F[d] = o
    BY <1>2
  <2>7. ASSUME NEW i \in 1 .. k
        PROVE  F[d][i] = s[i]
    <3>1. i \in 1 .. n /\ o[i] \in 1 .. n /\ s[i] \in 1 .. n
      BY DEF Orders, Picks
    <3>2. r(t)[o[i]] = r(t)[s[i]]
      BY <2>3, <2>4, <2>5, <3>1
    <3>3. o[i] = s[i]
      BY <2>4, <3>1, <3>2 DEF Orders
    <3> QED BY <2>6, <3>3
  <2>8. d \in W
    BY <2>7
  <2>9. To(to(d, t), d, t)
    BY <1>3, <2>2, <2>8
  <2>10. \A i \in 1 .. n : F[to(d, t)][i] = F[e][i]
    BY <2>5, <2>6, <2>9
  <2>11. F[to(d, t)] = F[e]
    <3>1. F[to(d, t)] \in Orders(n)
      BY <1>2, <2>9
    <3>2. \A o1, o2 \in Orders(n) : (\A i \in 1 .. n : o1[i] = o2[i]) => o1 = o2
      BY DEF Orders
    <3> QED BY <2>1, <2>10, <3>1, <3>2, Zenon
  <2>12. to(d, t) = e
    BY <1>2, <2>9, <2>11
  <2> QED BY <2>2, <2>8, <2>12
<1> DEFINE G == [x \in W \X Picks(n, k) |-> to(x[1], x[2])]
<1>6. G \in Bijection(W \X Picks(n, k), Draws(n))
  <2>1. G \in [W \X Picks(n, k) -> Draws(n)]
    BY <1>3
  <2>2. \A x, y \in W \X Picks(n, k) : G[x] = G[y] => x = y
    BY <1>4
  <2>3. ASSUME NEW e \in Draws(n)
        PROVE  \E x \in W \X Picks(n, k) : G[x] = e
    <3>1. PICK d \in W, t \in Picks(n, k) : to(d, t) = e
      BY <1>5
    <3>2. <<d, t>> \in W \X Picks(n, k) /\ G[<<d, t>>] = e
      BY <3>1
    <3> QED BY <3>2
  <2> HIDE DEF G
  <2> QED BY <2>1, <2>2, <2>3, Fun_IsBij
<1>7. IsFiniteSet(Draws(n)) /\ IsFiniteSet(Picks(n, k)) /\ IsFiniteSet(W)
  <2>1. IsFiniteSet(1 .. n) /\ IsFiniteSet(2 .. n) /\ IsFiniteSet(1 .. k)
    BY FS_Interval
  <2>2. IsFiniteSet([2 .. n -> 1 .. n]) /\ IsFiniteSet([1 .. k -> 1 .. n])
    BY <2>1, FinitelyManyFunctions
  <2>3. /\ Draws(n) \in SUBSET [2 .. n -> 1 .. n]
        /\ Picks(n, k) \in SUBSET [1 .. k -> 1 .. n]
    BY DEF Draws, Picks
  <2>4. IsFiniteSet(Draws(n)) /\ IsFiniteSet(Picks(n, k))
    BY <2>2, <2>3, FS_Subset
  <2>5. W \in SUBSET Draws(n)
    OBVIOUS
  <2> QED BY <2>4, <2>5, FS_Subset
<1>8. ExistsBijection(W \X Picks(n, k), Draws(n))
  <2> HIDE DEF G
  <2> QED BY <1>6 DEF ExistsBijection
<1>9. /\ IsFiniteSet(W \X Picks(n, k))
      /\ Cardinality(W \X Picks(n, k)) = Cardinality(W) * Cardinality(Picks(n, k))
  BY <1>7, FS_Product
<1> QED BY <1>8, <1>9, FS_Bijection

-----------------------------------------------------------------------------
(* The service.                                                            *)

\* The first reviewers of the list the shuffle ends in, or stops at.
LEMMA SelectsFirst ==
    ASSUME NEW n \in Nat \ {0}, NEW users \in Orders(n), NEW count \in Nat,
           NEW draw \in Draws(n), NEW last \in 1 .. n, NEW k, k = Count(users, count)
    PROVE  /\ k \in 0 .. n
           /\ selectRandomReviewers(users, count, draw, last) =
                 [i \in 1 .. k |-> Shuffled(users, draw, last)[i]]
           /\ selectRandomReviewers(users, count, draw, last) \in Picks(n, k)
<1>1. Len(users) = n /\ users # <<>>
  BY OrderLen
<1>2. k \in 0 .. n
  BY <1>1 DEF Count
<1> DEFINE list == Shuffled(users, draw, last)
<1>3. list \in Orders(n)
  BY ShuffledOrders
<1> HIDE DEF list
<1>4. list \in Seq(1 .. n) /\ Len(list) = n
  BY <1>3, OrderLen
<1>5. SubSeq(list, 1, k) = [i \in 1 .. k |-> list[i]]
  BY <1>2, <1>4
<1>6. selectRandomReviewers(users, count, draw, last) = SubSeq(list, 1, k)
  BY <1>1 DEF selectRandomReviewers, list
<1>7. [i \in 1 .. k |-> list[i]] \in Picks(n, k)
  BY <1>2, <1>3, OrderBegins
<1> QED BY <1>2, <1>5, <1>6, <1>7 DEF list

\* The candidates are different ones.
CandidatesKnown ==
    candidates # <<>> => maxCount \in Nat /\ \E n \in Nat \ {0} : candidates \in Orders(n)

LEMMA CandidatesAreKnown == SelectionSpec => []CandidatesKnown
<1>1. SelectionInit => CandidatesKnown
  BY DEF SelectionInit, CandidatesKnown
<1>2. CandidatesKnown /\ [Ask]_selectionVars => CandidatesKnown'
  <2> SUFFICES ASSUME CandidatesKnown, [Ask]_selectionVars PROVE CandidatesKnown'
    OBVIOUS
  <2>1. CASE Ask
    <3>1. maxCount' \in Nat
      BY <2>1 DEF Ask
    <3>2. PICK n \in 1 .. MaxCandidates : candidates' = [i \in 1 .. n |-> i]
      BY <2>1 DEF Ask
    <3>3. n \in Nat \ {0} /\ candidates' \in Orders(n)
      BY <3>2 DEF Orders
    <3> QED BY <3>1, <3>3 DEF CandidatesKnown
  <2>2. CASE UNCHANGED selectionVars
    BY <2>2 DEF CandidatesKnown, selectionVars
  <2> QED BY <2>1, <2>2
<1> QED BY <1>1, <1>2, PTL DEF SelectionSpec

\* Of any number of candidates, and for any limit, every list of reviewers comes
\* from equally many draws of shuffleUsers, and every draw, cut short or not,
\* gives a list of different candidates (selectRandomReviewers).
THEOREM SelectionFairness == SelectionSpec => []SelectionIsFair
<1>1. CandidatesKnown => SelectionIsFair
  <2> SUFFICES ASSUME CandidatesKnown, candidates # <<>>
               PROVE  SelectionIsFair
    BY DEF SelectionIsFair
  <2>1. PICK n \in Nat \ {0} : candidates \in Orders(n)
    BY DEF CandidatesKnown
  <2>2. Len(candidates) = n /\ DOMAIN candidates = 1 .. n /\ maxCount \in Nat
    BY <2>1, OrderLen DEF CandidatesKnown, Orders
  <2> DEFINE k == Count(candidates, maxCount)
      lists == Lists(k)
      select(d, last) == selectRandomReviewers(candidates, maxCount, d, last)
      selected == [d \in Draws(n) |-> select(d, 1)]
      ways(s) == Cardinality({d \in Draws(n) : selected[d] = s})
      F == [d \in Draws(n) |-> Shuffled(candidates, d, 1)]
  <2>3. lists = Picks(n, k)
    BY <2>2 DEF Lists, Picks
  <2>4. \A d \in Draws(n), last \in 1 .. n : select(d, last) \in lists
    BY <2>1, <2>2, <2>3, SelectsFirst
  <2>5. ASSUME NEW s \in lists
        PROVE  ways(s) * Cardinality(lists) = Cardinality(Draws(n))
    <3> DEFINE W == {d \in Draws(n) : selected[d] = s}
    <3>1. F \in Bijection(Draws(n), Orders(n))
      BY <2>1, DrawsAreOrders
    <3>2. k \in 0 .. n
      <4>1. Count(candidates, maxCount) \in 0 .. n
        BY <2>2 DEF Count
      <4> QED BY <4>1
    <3>3. ASSUME NEW d \in Draws(n)
          PROVE  selected[d] = s <=> \A i \in 1 .. k : F[d][i] = s[i]
      <4>1. selected[d] = [i \in 1 .. k |-> F[d][i]]
        <5>1. 1 \in 1 .. n
          OBVIOUS
        <5> QED BY <2>1, <2>2, <5>1, SelectsFirst
      <4>2. s = [i \in 1 .. k |-> s[i]]
        BY <2>3 DEF Picks
      <4> HIDE DEF selected, F, k, lists
      <4> QED BY <4>1, <4>2
    <3> HIDE DEF selected, F, k, lists
    <3>4. W = {d \in Draws(n) : \A i \in 1 .. k : F[d][i] = s[i]}
      BY <3>3
    <3> HIDE DEF W
    <3>5. Cardinality(W) * Cardinality(lists) = Cardinality(Draws(n))
      BY <2>3, <2>5, <3>1, <3>2, <3>4, WaysTimesLists
    <3> QED BY <3>5 DEF W
  <2> QED BY <2>2, <2>4, <2>5 DEF SelectionIsFair
<1> QED BY <1>1, CandidatesAreKnown, PTL
=============================================================================
