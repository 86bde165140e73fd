------------------------ MODULE BridgeClientsProofs -------------------------
(***************************************************************************)
(* What GattFrameParser.feed and LineParser.feed return of any bytes, and  *)
(* of the stream that a server writes, however recv cuts it: both loops are*)
(* functions of the bytes left, so the proofs go by strong induction over  *)
(* these.  Then the inductive invariant of a connection, for any number of *)
(* requests and any sizes, what follows from it for the clients, and that  *)
(* their parsers implement Framing.                                        *)
(***************************************************************************)
EXTENDS BridgeClients, FiniteSetTheorems, SequenceTheorems, WellFoundedInduction, TLAPS

-----------------------------------------------------------------------------
(* Induction over sets of numbers.                                           *)

\* A non-empty set of natural numbers has a least element.
LEMMA LeastNumber ==
    ASSUME NEW T \in SUBSET Nat, T # {}
    PROVE  \E n \in T : \A m \in T : ~ (m < n)
<1>1. \E n \in T : \A m \in T : <<m, n>> \notin OpToRel(<, Nat)
  BY NatLessThanWellFounded, WFMin
<1> QED
  BY <1>1 DEF OpToRel

\* Induction over all smaller numbers, with a set rather than a predicate of them.
LEMMA StrongInduction ==
    ASSUME NEW T \in SUBSET Nat, \A n \in Nat : (\A m \in 0..(n - 1) : m \in T) => n \in T
    PROVE  T = Nat
<1> SUFFICES ASSUME Nat \ T # {} PROVE FALSE
  OBVIOUS
<1>1. PICK n \in Nat \ T : \A m \in Nat \ T : ~ (m < n)
  BY LeastNumber
<1>2. \A m \in 0..(n - 1) : m \in Nat /\ m < n
  BY <1>1
<1> QED
  BY <1>1, <1>2

\* The same, one step at a time.
LEMMA SetInduction ==
    ASSUME NEW T \in SUBSET Nat, 0 \in T, \A n \in T : n + 1 \in T
    PROVE  T = Nat
<1>1. ASSUME NEW n \in Nat, \A m \in 0..(n - 1) : m \in T PROVE n \in T
  <2>1. CASE n = 0
    BY <2>1
  <2>2. CASE n # 0
    <3>1. n - 1 \in 0..(n - 1) /\ (n - 1) + 1 = n
      BY <2>2
    <3> QED
      BY <1>1, <3>1
  <2> QED
    BY <2>1, <2>2
<1> QED
  BY <1>1, StrongInduction

-----------------------------------------------------------------------------
(* Chosen.                                                                  *)

\* One step of it, and the first n of them.
TakeStep(f, n, items, places) ==
    IF n = 0 THEN <<>>
    ELSE IF n \in places THEN Append(f[n - 1], items[n]) ELSE f[n - 1]
Takes(f, n, items, places) == f = [i \in 0..n |-> TakeStep(f, i, items, places)]

\* The steps are those of some function.
LEMMA TakesExist == \A items, places : \A n \in Nat : \E f : Takes(f, n, items, places)
<1> SUFFICES ASSUME NEW items, NEW places PROVE \A n \in Nat : \E f : Takes(f, n, items, places)
  OBVIOUS
<1> DEFINE T == {n \in Nat : \E f : Takes(f, n, items, places)}
<1>1. 0 \in T
  <2> DEFINE f == [i \in 0..0 |-> <<>>]
  <2>1. Takes(f, 0, items, places)
    BY DEF Takes, TakeStep
  <2> QED
    BY <2>1
<1>2. ASSUME NEW n \in T PROVE n + 1 \in T
  <2>1. n \in Nat /\ \E f : Takes(f, n, items, places)
    OBVIOUS
  <2>2. PICK f : Takes(f, n, items, places)
    BY <2>1
  <2> HIDE DEF T
  <2> DEFINE g == [i \in 0..(n + 1) |-> TakeStep(f, i, items, places)]
             h == [i \in 0..(n + 1) |-> TakeStep(g, i, items, places)]
  <2>3. f = [i \in 0..n |-> TakeStep(f, i, items, places)]
    BY <2>2 DEF Takes
  <2>4. \A i \in 0..n : f[i] = TakeStep(f, i, items, places)
    BY <2>3
  <2>5. \A i \in 0..n : g[i] = f[i]
    BY <2>1, <2>4
  <2>6. \A i \in 0..(n + 1) : TakeStep(g, i, items, places) = TakeStep(f, i, items, places)
    <3> SUFFICES ASSUME NEW i \in 0..(n + 1), i # 0 PROVE g[i - 1] = f[i - 1]
      BY DEF TakeStep
    <3>1. i - 1 \in 0..n
      BY <2>1
    <3> QED
      BY <3>1, <2>5
  <2>7. h = g
    BY <2>6
  <2>8. Takes(g, n + 1, items, places)
    BY <2>7 DEF Takes
  <2> QED
    BY <2>1, <2>8 DEF T
<1> QED
  BY SetInduction, <1>1, <1>2

\* Chosen is the last of these steps.
LEMMA ChosenTakes ==
    ASSUME NEW S, NEW items \in Seq(S), NEW places
    PROVE  \E f : Takes(f, Len(items), items, places) /\ Chosen(items, places) = f[Len(items)]
<1> DEFINE take[n \in 0..Len(items)] ==
            IF n = 0 THEN <<>>
            ELSE IF n \in places THEN Append(take[n - 1], items[n]) ELSE take[n - 1]
<1>1. \E f : Takes(f, Len(items), items, places)
  <2>1. Len(items) \in Nat
    OBVIOUS
  <2> QED
    BY <2>1, TakesExist
<1>2. Takes(take, Len(items), items, places)
  BY <1>1, Zenon DEF Takes, TakeStep
<1>3. Chosen(items, places) = take[Len(items)]
  BY Zenon DEF Chosen
<1> QED
  BY <1>2, <1>3

\* The steps depend on the items and places that they have come to.
Agree(p, q, P, Q, k) == \A i \in 1..k : p[i] = q[i] /\ (i \in P <=> i \in Q)

\* So two sequences that agree up to some place have the same steps up to it.
LEMMA TakesAgree ==
    ASSUME NEW p, NEW q, NEW P, NEW Q, NEW m \in Nat, NEW n \in Nat, NEW k \in Nat,
           k <= m, k <= n, NEW f, NEW g, Takes(f, m, p, P), Takes(g, n, q, Q),
           Agree(p, q, P, Q, k)
    PROVE  f[k] = g[k]
<1> DEFINE T == {i \in Nat : i <= k => f[i] = g[i]}
<1>1. \A i \in 0..m : f[i] = TakeStep(f, i, p, P)
  BY DEF Takes
<1>2. \A i \in 0..n : g[i] = TakeStep(g, i, q, Q)
  BY DEF Takes
<1>3. 0 \in T
  BY <1>1, <1>2 DEF TakeStep
<1>4. ASSUME NEW i \in T PROVE i + 1 \in T
  <2> SUFFICES ASSUME i \in Nat, i + 1 <= k, f[i] = g[i] PROVE f[i + 1] = g[i + 1]
    OBVIOUS
  <2>1. i + 1 \in 0..m /\ i + 1 \in 0..n /\ i + 1 \in 1..k /\ i + 1 # 0 /\ (i + 1) - 1 = i
    OBVIOUS
  <2> HIDE DEF T
  <2>2. f[i + 1] = TakeStep(f, i + 1, p, P) /\ g[i + 1] = TakeStep(g, i + 1, q, Q)
    BY <1>1, <1>2, <2>1
  <2>3. p[i + 1] = q[i + 1] /\ (i + 1 \in P <=> i + 1 \in Q)
    BY <2>1 DEF Agree
  <2> QED
    BY <2>1, <2>2, <2>3 DEF TakeStep
<1>5. T = Nat
  BY SetInduction, <1>3, <1>4
<1> QED
  BY <1>5

\* Of no items none is chosen.
LEMMA ChosenEmpty == ASSUME NEW places PROVE Chosen(<<>>, places) = <<>>
<1>1. <<>> \in Seq({}) /\ Len(<<>>) = 0
  OBVIOUS
<1>2. PICK f : Takes(f, 0, <<>>, places) /\ Chosen(<<>>, places) = f[0]
  BY <1>1, ChosenTakes
<1>3. f[0] = TakeStep(f, 0, <<>>, places)
  BY <1>2 DEF Takes
<1> QED
  BY <1>2, <1>3 DEF TakeStep

\* What is chosen of a sequence depends on its own places only.
LEMMA ChosenLocal ==
    ASSUME NEW S, NEW p \in Seq(S), NEW P, NEW Q, \A i \in 1..Len(p) : i \in P <=> i \in Q
    PROVE  Chosen(p, P) = Chosen(p, Q)
<1>1. PICK f : Takes(f, Len(p), p, P) /\ Chosen(p, P) = f[Len(p)]
  BY ChosenTakes
<1>2. PICK g : Takes(g, Len(p), p, Q) /\ Chosen(p, Q) = g[Len(p)]
  BY ChosenTakes
<1>3. Len(p) \in Nat /\ Len(p) <= Len(p)
  OBVIOUS
<1>4. Agree(p, p, P, Q, Len(p))
  BY DEF Agree
<1>5. f[Len(p)] = g[Len(p)]
  BY <1>1, <1>2, <1>3, <1>4, TakesAgree
<1> QED
  BY <1>1, <1>2, <1>5

\* An item more: it comes last if its place is one of those, or not at all.
LEMMA ChosenAppend ==
    ASSUME NEW S, NEW p \in Seq(S), NEW x \in S, NEW P
    PROVE  Chosen(Append(p, x), P) =
               IF Len(p) + 1 \in P THEN Append(Chosen(p, P), x) ELSE Chosen(p, P)
<1> DEFINE q == Append(p, x)
<1>1. q \in Seq(S) /\ Len(q) = Len(p) + 1 /\ q[Len(p) + 1] = x /\ Len(p) \in Nat
      /\ \A i \in 1..Len(p) : q[i] = p[i]
  OBVIOUS
<1> HIDE DEF q
<1>2. PICK f : Takes(f, Len(p), p, P) /\ Chosen(p, P) = f[Len(p)]
  BY ChosenTakes
<1>3. PICK g : Takes(g, Len(q), q, P) /\ Chosen(q, P) = g[Len(q)]
  BY <1>1, ChosenTakes
<1>4. g[Len(p)] = f[Len(p)]
  <2>1. Len(p) <= Len(q) /\ Len(p) <= Len(p) /\ Len(p) \in Nat /\ Len(q) \in Nat
    BY <1>1
  <2>2. Agree(q, p, P, P, Len(p))
    BY <1>1 DEF Agree
  <2> QED
    BY <1>2, <1>3, <2>1, <2>2, TakesAgree
<1>5. g[Len(q)] = TakeStep(g, Len(q), q, P)
  <2>1. Len(q) \in 0..Len(q)
    BY <1>1
  <2> QED
    BY <1>3, <2>1 DEF Takes
<1>6. Len(q) # 0 /\ Len(q) - 1 = Len(p)
  BY <1>1
<1>7. Chosen(q, P) = IF Len(p) + 1 \in P THEN Append(Chosen(p, P), x) ELSE Chosen(p, P)
  BY <1>1, <1>2, <1>3, <1>4, <1>5, <1>6 DEF TakeStep
<1> QED
  BY <1>7 DEF q

\* The first items of a sequence, one more at a time.
LEMMA Prefixes ==
    ASSUME NEW S, NEW p \in Seq(S)
    PROVE  /\ SubSeq(p, 1, 0) = <<>> /\ SubSeq(p, 1, Len(p)) = p
           /\ \A n \in Nat : n + 1 <= Len(p) =>
                  /\ SubSeq(p, 1, n) \in Seq(S) /\ Len(SubSeq(p, 1, n)) = n
                  /\ p[n + 1] \in S
                  /\ SubSeq(p, 1, n + 1) = Append(SubSeq(p, 1, n), p[n + 1])
  OBVIOUS

\* What is chosen are items of the sequence.
LEMMA ChosenTyped ==
    ASSUME NEW S, NEW p \in Seq(S), NEW P
    PROVE  Chosen(p, P) \in Seq(S)
<1> DEFINE T == {n \in Nat : n <= Len(p) => Chosen(SubSeq(p, 1, n), P) \in Seq(S)}
<1>1. 0 \in T
  <2>1. SubSeq(p, 1, 0) = <<>> /\ Chosen(<<>>, P) = <<>> /\ <<>> \in Seq(S)
    BY Prefixes, ChosenEmpty
  <2> QED
    BY <2>1
<1>2. ASSUME NEW n \in T PROVE n + 1 \in T
  <2> SUFFICES ASSUME n \in Nat, n + 1 <= Len(p), Chosen(SubSeq(p, 1, n), P) \in Seq(S)
               PROVE  Chosen(SubSeq(p, 1, n + 1), P) \in Seq(S)
    OBVIOUS
  <2> HIDE DEF T
  <2> DEFINE q == SubSeq(p, 1, n)
  <2>1. q \in Seq(S) /\ p[n + 1] \in S /\ SubSeq(p, 1, n + 1) = Append(q, p[n + 1])
    BY Prefixes
  <2> HIDE DEF q
  <2>2. Chosen(Append(q, p[n + 1]), P) =
            IF Len(q) + 1 \in P THEN Append(Chosen(q, P), p[n + 1]) ELSE Chosen(q, P)
    BY <2>1, ChosenAppend
  <2> DEFINE c == Chosen(q, P)
  <2>3. c \in Seq(S)
    BY DEF q
  <2> HIDE DEF c
  <2>4. Append(c, p[n + 1]) \in Seq(S)
    BY <2>1, <2>3
  <2> QED
    BY <2>1, <2>2, <2>3, <2>4 DEF c
<1>3. T = Nat
  <2> HIDE DEF T
  <2>1. T \in SUBSET Nat
    BY DEF T
  <2> QED
    BY <1>1, <1>2, <2>1, SetInduction
<1>4. Len(p) \in Nat /\ Len(p) <= Len(p) /\ SubSeq(p, 1, Len(p)) = p
  BY Prefixes
<1>5. Len(p) \in T
  BY <1>3, <1>4
<1> QED
  BY <1>4, <1>5

\* An item at the end of the second of two sequences is one at the end of both.
LEMMA ConcatAppend ==
    ASSUME NEW S, NEW p \in Seq(S), NEW q \in Seq(S), NEW x \in S
    PROVE  p \o Append(q, x) = Append(p \o q, x)
<1>1. <<x>> \in Seq(S) /\ p \o q \in Seq(S)
  OBVIOUS
<1>2. Append(q, x) = q \o <<x>> /\ Append(p \o q, x) = (p \o q) \o <<x>>
  BY <1>1, AppendIsConcat
<1> QED
  BY <1>1, <1>2, ConcatAssociative

\* Choosing from two sequences, one after the other.
LEMMA ChosenConcat ==
    ASSUME NEW S, NEW p \in Seq(S), NEW q \in Seq(S), NEW P, NEW Q, NEW R,
           \A i \in 1..Len(p) : i \in P <=> i \in R,
           \A i \in 1..Len(q) : i \in Q <=> Len(p) + i \in R
    PROVE  Chosen(p \o q, R) = Chosen(p, P) \o Chosen(q, Q)
<1> DEFINE T == {n \in Nat : n <= Len(q) =>
                    Chosen(p \o SubSeq(q, 1, n), R) = Chosen(p, P) \o Chosen(SubSeq(q, 1, n), Q)}
<1>1. 0 \in T
  <2>1. p \o <<>> = p
    OBVIOUS
  <2>2. Chosen(p, P) = Chosen(p, R)
    BY ChosenLocal
  <2>3. Chosen(p, P) \o <<>> = Chosen(p, P)
    BY ChosenTyped
  <2>4. SubSeq(q, 1, 0) = <<>>
    BY Prefixes
  <2>5. Chosen(<<>>, Q) = <<>>
    BY ChosenEmpty
  <2> QED
    BY <2>1, <2>2, <2>3, <2>4, <2>5
<1>2. ASSUME NEW n \in T PROVE n + 1 \in T
  <2> DEFINE r == SubSeq(q, 1, n)
             x == q[n + 1]
  <2> SUFFICES ASSUME n \in Nat, n + 1 <= Len(q), Chosen(p \o r, R) = Chosen(p, P) \o Chosen(r, Q)
               PROVE  Chosen(p \o SubSeq(q, 1, n + 1), R) = Chosen(p, P) \o Chosen(SubSeq(q, 1, n + 1), Q)
    OBVIOUS
  <2> HIDE DEF T
  <2>1. r \in Seq(S) /\ Len(r) = n /\ x \in S /\ SubSeq(q, 1, n + 1) = Append(r, x)
    BY Prefixes
  <2>2. n + 1 \in Q <=> Len(p) + (n + 1) \in R
    BY <2>1
  <2> HIDE DEF r, x
  <2>3. /\ p \o Append(r, x) = Append(p \o r, x)
        /\ p \o r \in Seq(S) /\ Len(p \o r) + 1 = Len(p) + (n + 1)
    <3>1. p \o Append(r, x) = Append(p \o r, x)
      BY <2>1, ConcatAppend
    <3>2. p \o r \in Seq(S) /\ Len(p \o r) = Len(p) + Len(r)
      BY <2>1
    <3> QED
      BY <2>1, <3>1, <3>2
  <2> DEFINE pr == p \o r
  <2>4. Chosen(Append(pr, x), R) =
            IF Len(pr) + 1 \in R THEN Append(Chosen(pr, R), x) ELSE Chosen(pr, R)
    <3>1. pr \in Seq(S)
      BY <2>3
    <3> HIDE DEF pr
    <3> QED
      BY <2>1, <3>1, ChosenAppend
  <2>5. Chosen(Append(r, x), Q) = IF Len(r) + 1 \in Q THEN Append(Chosen(r, Q), x) ELSE Chosen(r, Q)
    BY <2>1, ChosenAppend
  <2>6. Chosen(p, P) \in Seq(S) /\ Chosen(r, Q) \in Seq(S)
    BY <2>1, ChosenTyped
  <2>7. Chosen(p, P) \o Append(Chosen(r, Q), x) = Append(Chosen(p, P) \o Chosen(r, Q), x)
    <3> DEFINE cp == Chosen(p, P)
               cr == Chosen(r, Q)
    <3>1. cp \in Seq(S) /\ cr \in Seq(S) /\ x \in S
      BY <2>1, <2>6
    <3> HIDE DEF cp, cr
    <3>2. cp \o Append(cr, x) = Append(cp \o cr, x)
      BY <3>1, ConcatAppend
    <3> QED
      BY <3>2 DEF cp, cr
  <2>8. CASE n + 1 \in Q
    BY <2>1, <2>2, <2>3, <2>4, <2>5, <2>7, <2>8
  <2>9. CASE n + 1 \notin Q
    BY <2>1, <2>2, <2>3, <2>4, <2>5, <2>9
  <2> QED
    BY <2>8, <2>9
<1>3. T = Nat
  <2> HIDE DEF T
  <2>1. T \in SUBSET Nat
    BY DEF T
  <2> QED
    BY <1>1, <1>2, <2>1, SetInduction
<1>4. Len(q) \in Nat /\ Len(q) <= Len(q) /\ SubSeq(q, 1, Len(q)) = q
  BY Prefixes
<1>5. Len(q) \in T
  BY <1>3, <1>4
<1> QED
  BY <1>4, <1>5

\* m says which items c has, in their order.
Picks(m, c, items, places) ==
    /\ m \in [1..Len(c) -> Nat]
    /\ \A i \in 1..Len(c) : m[i] \in 1..Len(items) /\ m[i] \in places /\ c[i] = items[m[i]]
    /\ \A i, j \in 1..Len(c) : i < j => m[i] < m[j]
    /\ \A k \in 1..Len(items) : k \in places => \E i \in 1..Len(c) : m[i] = k

\* Each of the chosen items has a place of its own, in the order of the places.
LEMMA ChosenPicks ==
    ASSUME NEW S, NEW p \in Seq(S), NEW P
    PROVE  \E m : Picks(m, Chosen(p, P), p, P)
<1> DEFINE T == {n \in Nat : n <= Len(p) =>
                    \E m : Picks(m, Chosen(SubSeq(p, 1, n), P), SubSeq(p, 1, n), P)}
<1>1. 0 \in T
  <2> DEFINE m == [i \in 1..0 |-> 0]
  <2>1. Picks(m, <<>>, <<>>, P)
    BY DEF Picks
  <2>2. Picks(m, Chosen(SubSeq(p, 1, 0), P), SubSeq(p, 1, 0), P)
    BY <2>1, Prefixes, ChosenEmpty
  <2> QED
    BY <2>2
<1>2. ASSUME NEW n \in T PROVE n + 1 \in T
  <2> DEFINE q == SubSeq(p, 1, n)
             x == p[n + 1]
             c == Chosen(q, P)
  <2> SUFFICES ASSUME n \in Nat, n + 1 <= Len(p), NEW m, Picks(m, c, q, P)
               PROVE  \E l : Picks(l, Chosen(SubSeq(p, 1, n + 1), P), SubSeq(p, 1, n + 1), P)
    OBVIOUS
  <2> HIDE DEF T
  <2>1. q \in Seq(S) /\ Len(q) = n /\ x \in S /\ SubSeq(p, 1, n + 1) = Append(q, x)
    BY Prefixes
  <2>2. Chosen(Append(q, x), P) = IF n + 1 \in P THEN Append(c, x) ELSE c
    <3> HIDE DEF q, x
    <3> QED
      BY <2>1, ChosenAppend
  <2>3. c \in Seq(S)
    BY <2>1, ChosenTyped
  <2> HIDE DEF q, x, c
  <2>4. /\ Len(Append(q, x)) = n + 1 /\ Append(q, x)[n + 1] = x
        /\ \A i \in 1..n : Append(q, x)[i] = q[i]
    BY <2>1
  <2>5. CASE n + 1 \notin P
    <3>1. Picks(m, c, Append(q, x), P)
      BY <2>1, <2>4, <2>5 DEF Picks
    <3> QED
      BY <2>1, <2>2, <2>5, <3>1
  <2>6. CASE n + 1 \in P
    <3> DEFINE d == Append(c, x)
               l == [i \in 1..Len(d) |-> IF i = Len(c) + 1 THEN n + 1 ELSE m[i]]
    <3>1. /\ Len(d) = Len(c) + 1 /\ Len(c) \in Nat /\ d[Len(c) + 1] = x
          /\ \A i \in 1..Len(c) : d[i] = c[i]
      BY <2>1, <2>3
    <3> HIDE DEF d
    <3>2. l[Len(c) + 1] = n + 1 /\ \A i \in 1..Len(c) : l[i] = m[i]
      BY <3>1
    <3>3. \A i \in 1..Len(c) : m[i] \in 1..n
      BY <2>1 DEF Picks
    <3>4. l \in [1..Len(d) -> Nat]
      BY <3>1, <3>3
    <3> HIDE DEF l
    <3>5. \A i \in 1..Len(d) :
             l[i] \in 1..(n + 1) /\ l[i] \in P /\ d[i] = Append(q, x)[l[i]]
      <4> SUFFICES ASSUME NEW i \in 1..Len(d)
                   PROVE  l[i] \in 1..(n + 1) /\ l[i] \in P /\ d[i] = Append(q, x)[l[i]]
        OBVIOUS
      <4>1. CASE i = Len(c) + 1
        BY <2>4, <2>6, <3>1, <3>2, <4>1
      <4>2. CASE i # Len(c) + 1
        <5>1. i \in 1..Len(c)
          BY <3>1, <4>2
        <5>2. m[i] \in 1..n /\ m[i] \in P /\ c[i] = q[m[i]]
          BY <2>1, <5>1 DEF Picks
        <5> QED
          BY <2>4, <3>1, <3>2, <5>1, <5>2
      <4> QED
        BY <4>1, <4>2
    <3>6. \A i, j \in 1..Len(d) : i < j => l[i] < l[j]
      <4> SUFFICES ASSUME NEW i \in 1..Len(d), NEW j \in 1..Len(d), i < j PROVE l[i] < l[j]
        OBVIOUS
      <4>1. i \in 1..Len(c) /\ l[i] = m[i] /\ m[i] \in 1..n
        BY <3>1, <3>2, <3>3
      <4>2. CASE j = Len(c) + 1
        BY <3>2, <4>1, <4>2
      <4>3. CASE j # Len(c) + 1
        <5>1. j \in 1..Len(c) /\ l[j] = m[j]
          BY <3>1, <3>2, <4>3
        <5> QED
          BY <4>1, <5>1 DEF Picks
      <4> QED
        BY <4>2, <4>3
    <3>7. \A k \in 1..(n + 1) : k \in P => \E i \in 1..Len(d) : l[i] = k
      <4> SUFFICES ASSUME NEW k \in 1..(n + 1), k \in P PROVE \E i \in 1..Len(d) : l[i] = k
        OBVIOUS
      <4>1. CASE k = n + 1
        <5>1. Len(c) + 1 \in 1..Len(d)
          BY <3>1
        <5> QED
          BY <3>2, <4>1, <5>1
      <4>2. CASE k # n + 1
        <5>1. PICK i \in 1..Len(c) : m[i] = k
          BY <2>1, <4>2 DEF Picks
        <5>2. i \in 1..Len(d) /\ l[i] = k
          BY <3>1, <3>2, <5>1
        <5> QED
          BY <5>2
      <4> QED
        BY <4>1, <4>2
    <3>8. Picks(l, d, Append(q, x), P)
      BY <2>4, <3>4, <3>5, <3>6, <3>7 DEF Picks
    <3> QED
      BY <2>1, <2>2, <2>6, <3>8 DEF d
  <2> QED
    BY <2>5, <2>6
<1>3. T = Nat
  <2> HIDE DEF T
  <2>1. T \in SUBSET Nat
    BY DEF T
  <2> QED
    BY <1>1, <1>2, <2>1, SetInduction
<1>4. Len(p) \in Nat /\ Len(p) <= Len(p) /\ SubSeq(p, 1, Len(p)) = p
  BY Prefixes
<1>5. Len(p) \in T
  BY <1>3, <1>4
<1> QED
  BY <1>4, <1>5

-----------------------------------------------------------------------------
(* The stream of a connection, and what the server writes into it.           *)

\* The bytes of a stream: the items w follow each other, byte by byte, up to the
\* last.  It may begin in the middle of one.
Size(x) == Len(Encoded(x))

Streams(s, w) ==
    \A i \in 1..Len(s) :
        /\ s[i].of \in 1..Len(w)
        /\ s[i].at \in 1..Size(w[s[i].of]) /\ s[i].is = Encoded(w[s[i].of])[s[i].at]
        /\ \A d \in 0..(Size(w[s[i].of]) - s[i].at) :
               i + d <= Len(s) /\ s[i + d].of = s[i].of /\ s[i + d].at = s[i].at + d
        /\ s[i].at = Size(w[s[i].of]) /\ i < Len(s) =>
               s[i + 1].of = s[i].of + 1 /\ s[i + 1].at = 1
        /\ \A j \in i..Len(s) : s[i].of <= s[j].of
        /\ i = Len(s) => s[i].of = Len(w)

\* All bytes of an item come before the place p of a stream.
Before(k, s, p) == \A i \in (p + 1)..Len(s) : k < s[i].of

Aligned(s, p) == p < Len(s) => s[p + 1].at = 1

\* Items that answer a request.
Answers(k) == written[k].kind \in {"response", "line"}

\* The server serves requests in their order, those that want an answer once.
ServerInv ==
    /\ \A i, j \in 1..Len(toServer) : i < j => toServer[i] < toServer[j]
    /\ \A k \in 1..Len(written) :
           /\ written[k].kind \in IF Gatt THEN {"response", "notification"} ELSE {"line", "blank"}
           /\ Answers(k) =>
                  written[k].id \in 1..sent
                    /\ \A i \in 1..Len(toServer) : written[k].id < toServer[i]
    /\ \A j, k \in 1..Len(written) :
           Answers(j) /\ Answers(k) /\ j < k => written[j].id < written[k].id

\* The items that a parser is to return, and that c of them come before the place p.
CarriedOf(w) == Chosen([k \in DOMAIN w |-> k], {k \in DOMAIN w : w[k].kind # "blank"})

Counted(c, s, p, w) ==
    /\ c \in 0..Len(CarriedOf(w))
    /\ \A i \in 1..Len(CarriedOf(w)) : i <= c <=> Before(CarriedOf(w)[i], s, p)

-----------------------------------------------------------------------------
(* Streams of bytes.                                                        *)

\* What the items are does not matter, only that each has a byte.
Sized(w) == \A k \in 1..Len(w) : Size(w[k]) \in Nat \ {0}

\* What is left of a stream is a stream.
LEMMA StreamSuffix ==
    ASSUME NEW B, NEW s \in Seq(B), NEW w, Streams(s, w), Len(w) \in Nat, Sized(w),
           NEW p \in 0..Len(s)
    PROVE  LET t == SubSeq(s, p + 1, Len(s))
           IN  /\ t \in Seq(B) /\ Len(t) = Len(s) - p /\ \A i \in 1..Len(t) : t[i] = s[p + i]
               /\ Streams(t, w)
               /\ \A q \in 0..Len(t) : Aligned(t, q) <=> Aligned(s, p + q)
               /\ \A k, q \in Nat : Before(k, t, q) <=> Before(k, s, p + q)
<1> DEFINE t == SubSeq(s, p + 1, Len(s))
<1>1. t \in Seq(B) /\ Len(t) = Len(s) - p /\ \A i \in 1..Len(t) : t[i] = s[p + i]
  OBVIOUS
<1>2. Len(s) \in Nat /\ Len(t) \in Nat
  BY <1>1
<1> HIDE DEF t
<1>3. Streams(t, w)
  <2> SUFFICES ASSUME NEW i \in 1..Len(t)
               PROVE  /\ t[i].of \in 1..Len(w)
                      /\ t[i].at \in 1..Size(w[t[i].of]) /\ t[i].is = Encoded(w[t[i].of])[t[i].at]
                      /\ \A d \in 0..(Size(w[t[i].of]) - t[i].at) :
                             i + d <= Len(t) /\ t[i + d].of = t[i].of /\ t[i + d].at = t[i].at + d
                      /\ t[i].at = Size(w[t[i].of]) /\ i < Len(t) =>
                             t[i + 1].of = t[i].of + 1 /\ t[i + 1].at = 1
                      /\ \A j \in i..Len(t) : t[i].of <= t[j].of
                      /\ i = Len(t) => t[i].of = Len(w)
    BY DEF Streams
  <2>1. p + i \in 1..Len(s) /\ t[i] = s[p + i]
    BY <1>1, <1>2
  <2>2. t[i].of \in 1..Len(w) /\ t[i].at \in 1..Size(w[t[i].of]) /\ t[i].is = Encoded(w[t[i].of])[t[i].at]
    BY <2>1 DEF Streams
  <2>3. ASSUME NEW d \in 0..(Size(w[t[i].of]) - t[i].at)
        PROVE  i + d <= Len(t) /\ t[i + d].of = t[i].of /\ t[i + d].at = t[i].at + d
    <3>1. (p + i) + d <= Len(s) /\ s[(p + i) + d].of = t[i].of /\ s[(p + i) + d].at = t[i].at + d
      BY <2>1 DEF Streams
    <3>2. Size(w[t[i].of]) \in Nat
      BY <2>2 DEF Sized
    <3>3. d \in Nat /\ (p + i) + d = p + (i + d)
      BY <2>2, <3>2
    <3>4. i + d \in 1..Len(t)
      BY <1>1, <1>2, <3>1, <3>3
    <3> QED
      BY <1>1, <3>1, <3>3, <3>4
  <2>4. t[i].at = Size(w[t[i].of]) /\ i < Len(t) => t[i + 1].of = t[i].of + 1 /\ t[i + 1].at = 1
    <3> SUFFICES ASSUME t[i].at = Size(w[t[i].of]), i < Len(t)
                 PROVE  t[i + 1].of = t[i].of + 1 /\ t[i + 1].at = 1
      OBVIOUS
    <3>1. i + 1 \in 1..Len(t) /\ p + i < Len(s) /\ p + (i + 1) = (p + i) + 1
      BY <1>1, <1>2
    <3>2. s[(p + i) + 1].of = s[p + i].of + 1 /\ s[(p + i) + 1].at = 1
      BY <2>1, <3>1 DEF Streams
    <3> QED
      BY <1>1, <2>1, <3>1, <3>2
  <2>5. ASSUME NEW j \in i..Len(t) PROVE t[i].of <= t[j].of
    <3>1. p + j \in (p + i)..Len(s) /\ t[j] = s[p + j]
      BY <1>1, <1>2
    <3> QED
      BY <2>1, <3>1 DEF Streams
  <2>6. i = Len(t) => t[i].of = Len(w)
    <3>1. i = Len(t) => p + i = Len(s)
      BY <1>1, <1>2
    <3> QED
      BY <2>1, <3>1 DEF Streams
  <2> QED
    BY <2>2, <2>3, <2>4, <2>5, <2>6
<1>4. ASSUME NEW q \in 0..Len(t) PROVE Aligned(t, q) <=> Aligned(s, p + q)
  <2>1. q < Len(t) <=> p + q < Len(s)
    BY <1>1, <1>2
  <2>2. q < Len(t) => t[q + 1] = s[(p + q) + 1]
    BY <1>1, <1>2
  <2> QED
    BY <2>1, <2>2 DEF Aligned
<1>5. ASSUME NEW k \in Nat, NEW q \in Nat PROVE Before(k, t, q) <=> Before(k, s, p + q)
  <2>1. ASSUME Before(k, t, q), NEW i \in ((p + q) + 1)..Len(s) PROVE k < s[i].of
    <3>1. i - p \in (q + 1)..Len(t) /\ i - p \in 1..Len(t) /\ p + (i - p) = i
      BY <1>1, <1>2
    <3> QED
      BY <1>1, <2>1, <3>1 DEF Before
  <2>2. ASSUME Before(k, s, p + q), NEW i \in (q + 1)..Len(t) PROVE k < t[i].of
    <3>1. p + i \in ((p + q) + 1)..Len(s) /\ i \in 1..Len(t)
      BY <1>1, <1>2
    <3> QED
      BY <1>1, <2>2, <3>1 DEF Before
  <2> QED
    BY <2>1, <2>2 DEF Before
<1> QED
  BY <1>1, <1>3, <1>4, <1>5 DEF t

\* From any byte of a stream, the rest of its item and what comes then.
LEMMA StreamItem ==
    ASSUME NEW B, NEW s \in Seq(B), NEW w, Streams(s, w), Len(w) \in Nat, Sized(w),
           NEW p \in Nat, p < Len(s)
    PROVE  LET k == s[p + 1].of
               a == s[p + 1].at
               t == Size(w[k]) - a + 1
           IN  /\ k \in 1..Len(w) /\ a \in 1..Size(w[k]) /\ t \in Nat /\ t >= 1 /\ p + t <= Len(s)
               /\ \A d \in 1..t : /\ s[p + d].of = k /\ s[p + d].at = a + d - 1
                                  /\ s[p + d].is = Encoded(w[k])[a + d - 1]
               /\ Aligned(s, p + t)
               /\ \A x \in 1..Len(w) : Before(x, s, p) <=> x < k
               /\ \A x \in 1..Len(w) : Before(x, s, p + t) <=> x <= k
<1> DEFINE k == s[p + 1].of
           a == s[p + 1].at
           z == Size(w[k])
           t == z - a + 1
<1>1. p + 1 \in 1..Len(s) /\ Len(s) \in Nat
  OBVIOUS
<1>2. k \in 1..Len(w) /\ a \in 1..z
  BY <1>1 DEF Streams
<1>3. z \in Nat
  BY <1>2 DEF Sized
<1> HIDE DEF z
<1>4. t \in Nat /\ t >= 1
  BY <1>2, <1>3
<1>5. ASSUME NEW d \in 1..t
      PROVE  /\ p + d <= Len(s) /\ s[p + d].of = k /\ s[p + d].at = a + d - 1
             /\ s[p + d].is = Encoded(w[k])[a + d - 1]
  <2>1. d - 1 \in 0..(z - a) /\ (p + 1) + (d - 1) = p + d /\ a + (d - 1) = a + d - 1
    <3>1. a \in Nat /\ a >= 1 /\ a <= z
      BY <1>2, <1>3
    <3> HIDE DEF a
    <3>2. d \in Int /\ d >= 1 /\ d <= z - a + 1
      BY <1>3, <3>1
    <3> QED
      BY <1>3, <3>1, <3>2
  <2>2. \A e \in 0..(z - a) : (p + 1) + e <= Len(s) /\ s[(p + 1) + e].of = k /\ s[(p + 1) + e].at = a + e
    BY <1>1 DEF Streams, z
  <2>3. p + d <= Len(s) /\ s[p + d].of = k /\ s[p + d].at = a + d - 1
    <3> HIDE DEF k, a
    <3> QED
      BY <2>1, <2>2
  <2>4. p + d \in 1..Len(s)
    BY <2>3, <1>4
  <2>5. s[p + d].is = Encoded(w[s[p + d].of])[s[p + d].at]
    BY <2>4 DEF Streams
  <2> QED
    BY <2>3, <2>5
<1>6. p + t <= Len(s) /\ s[p + t].of = k /\ s[p + t].at = z /\ p + t \in 1..Len(s)
  <2>1. t \in 1..t /\ a + t - 1 = z
    <3>1. a \in Nat
      BY <1>2, <1>3
    <3> HIDE DEF a
    <3>2. a + (z - a + 1) - 1 = z
      BY <1>3, <3>1
    <3> QED
      BY <1>4, <3>2
  <2>2. p + t <= Len(s) /\ s[p + t].of = k /\ s[p + t].at = z
    BY <1>5, <2>1
  <2> QED
    BY <2>2, <1>1, <1>4
<1>7. p + t < Len(s) => s[(p + t) + 1].of = k + 1 /\ s[(p + t) + 1].at = 1
  BY <1>6 DEF Streams, z
<1>8. p + t = Len(s) => k = Len(w)
  BY <1>6 DEF Streams
<1>9. \A i \in (p + 1)..Len(s) : s[p + 1].of <= s[i].of /\ s[i].of \in Nat
  <2>1. \A i \in (p + 1)..Len(s) : s[p + 1].of <= s[i].of
    BY <1>1 DEF Streams
  <2>2. \A i \in (p + 1)..Len(s) : s[i].of \in 1..Len(w)
    BY DEF Streams
  <2> QED
    BY <2>1, <2>2
<1>10. Aligned(s, p + t)
  BY <1>7 DEF Aligned
<1>11. ASSUME NEW x \in 1..Len(w) PROVE Before(x, s, p) <=> x < k
  <2>1. k \in Nat /\ x \in Nat /\ p + 1 \in (p + 1)..Len(s)
    BY <1>1, <1>2
  <2>2. Before(x, s, p) => x < k
    BY <2>1 DEF Before
  <2>3. ASSUME x < k, NEW i \in (p + 1)..Len(s) PROVE x < s[i].of
    <3>1. k <= s[i].of /\ s[i].of \in Nat
      BY <1>9
    <3> HIDE DEF k
    <3> QED
      BY <2>1, <2>3, <3>1
  <2> QED
    BY <2>2, <2>3 DEF Before
<1>12. ASSUME NEW x \in 1..Len(w) PROVE Before(x, s, p + t) <=> x <= k
  <2>0. k \in Nat /\ x \in Nat /\ x <= Len(w) /\ p + t \in Nat
    BY <1>2, <1>4
  <2>1. CASE p + t = Len(s)
    <3>1. x <= k
      BY <1>8, <2>0, <2>1
    <3>2. Before(x, s, p + t)
      BY <1>1, <2>1 DEF Before
    <3> QED
      BY <3>1, <3>2
  <2>2. CASE p + t < Len(s)
    <3> DEFINE j == (p + t) + 1
    <3>1. j \in 1..Len(s) /\ j \in ((p + t) + 1)..Len(s)
      BY <1>1, <2>0, <2>2
    <3>2. s[j].of = k + 1
      BY <1>7, <2>2
    <3> HIDE DEF j
    <3>3. Before(x, s, p + t) => x < k + 1
      BY <3>1, <3>2 DEF Before
    <3>4. ASSUME x <= k, NEW i \in ((p + t) + 1)..Len(s) PROVE x < s[i].of
      <4>1. i \in j..Len(s)
        BY DEF j
      <4>2. s[j].of <= s[i].of
        BY <3>1, <4>1 DEF Streams
      <4>3. i \in 1..Len(s)
        BY <1>1, <2>0
      <4>4. s[i].of \in Nat
        BY <4>3 DEF Streams
      <4> HIDE DEF k, t
      <4> QED
        BY <2>0, <3>2, <3>4, <4>2, <4>4
    <3> QED
      BY <2>0, <3>3, <3>4 DEF Before
  <2> QED
    BY <1>6, <2>1, <2>2, <1>1, <2>0
<1> QED
  BY <1>2, <1>4, <1>5, <1>6, <1>10, <1>11, <1>12 DEF z

\* Another item is written.
LEMMA StreamGrows ==
    ASSUME NEW B, NEW s \in Seq(B), NEW I, NEW w \in Seq(I), Streams(s, w), Sized(w), NEW x \in I,
           Size(x) \in Nat \ {0}, NEW b \in Seq(B), b = Bytes(x, Len(w) + 1), Len(b) = Size(x)
    PROVE  /\ Streams(s \o b, Append(w, x)) /\ Sized(Append(w, x))
           /\ Aligned(s, 0) => Aligned(s \o b, 0)
           /\ \A k \in 1..Len(w) : Before(k, s \o b, 0) <=> Before(k, s, 0)
           /\ ~Before(Len(w) + 1, s \o b, 0)
<1> DEFINE n == Len(w)
           m == Len(s)
           z == Size(x)
           u == s \o b
           v == Append(w, x)
<1>1. n \in Nat /\ m \in Nat /\ z \in Nat \ {0} /\ Len(b) = z
  OBVIOUS
<1>2. Len(v) = n + 1 /\ v[n + 1] = x /\ \A k \in 1..n : v[k] = w[k]
  OBVIOUS
<1>3. /\ u \in Seq(B) /\ Len(u) = m + z
      /\ \A i \in 1..m : u[i] = s[i]
      /\ \A i \in 1..z : u[m + i] = b[i]
  OBVIOUS
<1>4. \A i \in 1..z : b[i].of = n + 1 /\ b[i].at = i /\ b[i].is = Encoded(x)[i]
  <2> SUFFICES ASSUME NEW i \in 1..z
               PROVE  b[i].of = n + 1 /\ b[i].at = i /\ b[i].is = Encoded(x)[i]
    OBVIOUS
  <2>1. i \in DOMAIN b
    BY <1>1
  <2>2. b = [j \in DOMAIN Encoded(x) |-> [is |-> Encoded(x)[j], of |-> n + 1, at |-> j]]
    BY DEF Bytes
  <2> QED
    BY <2>1, <2>2
<1> HIDE DEF n, m, z, u, v
<1>5. \A i \in 1..m : s[i].of \in 1..n
  BY DEF Streams, m, n
<1>6. Sized(v)
  <2> SUFFICES ASSUME NEW k \in 1..Len(v) PROVE Size(v[k]) \in Nat \ {0}
    BY DEF Sized
  <2>1. CASE k = n + 1
    BY <1>1, <1>2, <2>1 DEF z
  <2>2. CASE k # n + 1
    <3>1. k \in 1..n
      BY <1>1, <1>2, <2>2
    <3> QED
      BY <1>2, <3>1 DEF Sized, n
  <2> QED
    BY <2>1, <2>2
<1>7. Streams(u, v)
  <2> SUFFICES ASSUME NEW i \in 1..Len(u)
               PROVE  /\ u[i].of \in 1..Len(v)
                      /\ u[i].at \in 1..Size(v[u[i].of]) /\ u[i].is = Encoded(v[u[i].of])[u[i].at]
                      /\ \A d \in 0..(Size(v[u[i].of]) - u[i].at) :
                             i + d <= Len(u) /\ u[i + d].of = u[i].of /\ u[i + d].at = u[i].at + d
                      /\ u[i].at = Size(v[u[i].of]) /\ i < Len(u) =>
                             u[i + 1].of = u[i].of + 1 /\ u[i + 1].at = 1
                      /\ \A j \in i..Len(u) : u[i].of <= u[j].of
                      /\ i = Len(u) => u[i].of = Len(v)
    BY DEF Streams
  <2>1. CASE i <= m
    <3>1. i \in 1..m /\ i \in 1..Len(s) /\ u[i] = s[i] /\ s[i].of \in 1..n
      BY <1>1, <1>3, <1>5, <2>1 DEF m
    <3>2. v[s[i].of] = w[s[i].of]
      BY <1>2, <3>1
    <3> DEFINE zz == Size(w[s[i].of])
    <3>3. zz \in Nat /\ s[i].at \in 1..zz /\ s[i].is = Encoded(w[s[i].of])[s[i].at]
      BY <3>1 DEF Streams, Sized, n
    <3>4. ASSUME NEW d \in 0..(zz - s[i].at)
          PROVE  i + d <= Len(u) /\ u[i + d].of = u[i].of /\ u[i + d].at = u[i].at + d
      <4>1. i + d <= m /\ s[i + d].of = s[i].of /\ s[i + d].at = s[i].at + d
        BY <3>1 DEF Streams, m
      <4>2. i + d \in 1..m
        <5>1. d \in Nat
          BY <3>3
        <5> QED
          BY <3>1, <4>1, <5>1
      <4>3. u[i + d] = s[i + d]
        BY <1>3, <4>2
      <4>4. i + d <= Len(u)
        BY <1>1, <1>3, <4>2
      <4> QED
        BY <3>1, <4>1, <4>3, <4>4
    <3>5. u[i].at = zz /\ i < Len(u) => u[i + 1].of = u[i].of + 1 /\ u[i + 1].at = 1
      <4>1. CASE i < m
        <5>1. u[i + 1] = s[i + 1]
          BY <1>1, <1>3, <4>1
        <5> QED
          BY <3>1, <4>1, <5>1 DEF Streams, m
      <4>2. CASE i = m
        <5>1. s[i].of = n
          BY <3>1, <4>2 DEF Streams, m, n
        <5>2. u[i + 1] = b[1] /\ 1 \in 1..z
          <6>1. 1 \in 1..z
            BY <1>1
          <6>2. u[m + 1] = b[1]
            BY <1>3, <6>1
          <6> QED
            BY <4>2, <6>1, <6>2
        <5> QED
          BY <1>4, <3>1, <5>1, <5>2
      <4> QED
        BY <1>1, <2>1, <4>1, <4>2
    <3>6. ASSUME NEW j \in i..Len(u) PROVE u[i].of <= u[j].of
      <4>1. CASE j <= m
        <5>1. j \in i..m /\ u[j] = s[j]
          BY <1>1, <1>3, <4>1
        <5> QED
          BY <3>1, <5>1 DEF Streams, m
      <4>2. CASE j > m
        <5>1. j - m \in 1..z /\ m + (j - m) = j
          BY <1>1, <1>3, <4>2
        <5>2. u[j] = b[j - m] /\ b[j - m].of = n + 1
          BY <1>3, <1>4, <5>1
        <5> QED
          BY <1>1, <3>1, <5>2
      <4> QED
        BY <1>1, <4>1, <4>2
    <3>7. i # Len(u)
      BY <1>1, <1>3, <2>1
    <3>8. u[i].of \in 1..Len(v)
      BY <1>1, <1>2, <3>1
    <3> QED
      BY <3>1, <3>2, <3>3, <3>4, <3>5, <3>6, <3>7, <3>8
  <2>2. CASE i > m
    <3> DEFINE e == i - m
    <3>1. e \in 1..z /\ m + e = i
      BY <1>1, <1>3, <2>2
    <3> HIDE DEF e
    <3>2. u[i].of = n + 1 /\ u[i].at = e /\ u[i].is = Encoded(x)[e]
      BY <1>3, <1>4, <3>1
    <3>3. v[u[i].of] = x /\ Size(v[u[i].of]) = z
      BY <1>2, <3>2 DEF z
    <3>4. ASSUME NEW d \in 0..(z - e)
          PROVE  i + d <= Len(u) /\ u[i + d].of = u[i].of /\ u[i + d].at = u[i].at + d
      <4>1. e + d \in 1..z /\ i + d = m + (e + d)
        BY <1>1, <3>1
      <4>2. u[i + d] = b[e + d]
        BY <1>3, <4>1
      <4> QED
        BY <1>1, <1>3, <1>4, <3>2, <4>1, <4>2
    <3>5. u[i].at = z => ~ (i < Len(u))
      BY <1>1, <1>3, <3>1, <3>2
    <3>6. ASSUME NEW j \in i..Len(u) PROVE u[i].of <= u[j].of
      <4>1. j - m \in 1..z /\ m + (j - m) = j
        BY <1>1, <1>3, <2>2
      <4>2. u[j] = b[j - m] /\ b[j - m].of = n + 1
        BY <1>3, <1>4, <4>1
      <4> QED
        BY <1>1, <3>2, <4>2
    <3>7. u[i].of \in 1..Len(v)
      BY <1>1, <1>2, <3>2
    <3>8. u[i].at \in 1..Size(v[u[i].of]) /\ u[i].is = Encoded(v[u[i].of])[u[i].at]
      BY <3>1, <3>2, <3>3
    <3>9. i = Len(u) => u[i].of = Len(v)
      BY <1>2, <3>2
    <3>10. \A d \in 0..(Size(v[u[i].of]) - u[i].at) :
              i + d <= Len(u) /\ u[i + d].of = u[i].of /\ u[i + d].at = u[i].at + d
      BY <3>2, <3>3, <3>4
    <3>11. u[i].at = Size(v[u[i].of]) /\ i < Len(u) => u[i + 1].of = u[i].of + 1 /\ u[i + 1].at = 1
      BY <3>3, <3>5
    <3> QED
      BY <3>6, <3>7, <3>8, <3>9, <3>10, <3>11
  <2> QED
    BY <1>1, <1>3, <2>1, <2>2
<1>8. Aligned(s, 0) => Aligned(u, 0)
  <2>1. CASE m = 0
    <3>1. u[1] = b[1] /\ 1 \in 1..z
      BY <1>1, <1>3, <2>1
    <3> QED
      BY <1>4, <3>1 DEF Aligned
  <2>2. CASE m # 0
    <3>1. u[1] = s[1]
      BY <1>1, <1>3, <2>2
    <3> QED
      BY <1>1, <2>2, <3>1 DEF Aligned, m
  <2> QED
    BY <2>1, <2>2
<1>9. ASSUME NEW k \in 1..n PROVE Before(k, u, 0) <=> Before(k, s, 0)
  <2>1. ASSUME Before(k, s, 0), NEW i \in 1..Len(u) PROVE k < u[i].of
    <3>1. CASE i <= m
      <4>1. i \in 1..m /\ u[i] = s[i]
        BY <1>1, <1>3, <3>1
      <4> QED
        BY <2>1, <4>1 DEF Before, m
    <3>2. CASE i > m
      <4>1. i - m \in 1..z /\ m + (i - m) = i
        BY <1>1, <1>3, <3>2
      <4>2. u[i].of = n + 1
        BY <1>3, <1>4, <4>1
      <4> QED
        BY <1>1, <4>2
    <3> QED
      BY <1>1, <1>3, <3>1, <3>2
  <2>2. ASSUME Before(k, u, 0), NEW i \in 1..m PROVE k < s[i].of
    <3>1. i \in 1..Len(u) /\ u[i] = s[i]
      BY <1>1, <1>3
    <3> QED
      BY <2>2, <3>1 DEF Before
  <2> QED
    BY <2>1, <2>2 DEF Before, m
<1>10. ~Before(n + 1, u, 0)
  <2>1. m + 1 \in 1..Len(u) /\ u[m + 1] = b[1] /\ 1 \in 1..z
    BY <1>1, <1>3
  <2>2. u[m + 1].of = n + 1
    BY <1>4, <2>1
  <2> QED
    BY <1>1, <2>1, <2>2 DEF Before
<1> QED
  BY <1>6, <1>7, <1>8, <1>9, <1>10 DEF u, v, n

-----------------------------------------------------------------------------
(* The items that a parser is to return.                                    *)

\* Of the items written, a parser is to return all but the empty lines, in their order.
LEMMA CarriedFacts ==
    ASSUME NEW I, NEW w \in Seq(I)
    PROVE  LET C == CarriedOf(w)
           IN  /\ C \in Seq(1..Len(w))
               /\ \A i \in 1..Len(C) : C[i] \in 1..Len(w) /\ w[C[i]].kind # "blank"
               /\ \A i, j \in 1..Len(C) : i < j => C[i] < C[j]
               /\ \A k \in 1..Len(w) : w[k].kind # "blank" => \E i \in 1..Len(C) : C[i] = k
<1> DEFINE C == CarriedOf(w)
           p == [k \in DOMAIN w |-> k]
           P == {k \in DOMAIN w : w[k].kind # "blank"}
<1>1. p \in Seq(1..Len(w)) /\ Len(p) = Len(w) /\ Len(w) \in Nat /\ \A k \in 1..Len(w) : p[k] = k
  OBVIOUS
<1>2. \A k \in 1..Len(w) : k \in P <=> w[k].kind # "blank"
  OBVIOUS
<1>3. C = Chosen(p, P)
  BY DEF CarriedOf
<1> HIDE DEF C, p, P
<1>4. C \in Seq(1..Len(w))
  BY <1>1, <1>3, ChosenTyped
<1>5. PICK m : Picks(m, C, p, P)
  BY <1>1, <1>3, ChosenPicks
<1>6. \A i \in 1..Len(C) : C[i] = m[i] /\ m[i] \in 1..Len(w) /\ m[i] \in P
  BY <1>1, <1>5 DEF Picks
<1>7. \A i, j \in 1..Len(C) : i < j => C[i] < C[j]
  BY <1>5, <1>6 DEF Picks
<1>8. \A k \in 1..Len(w) : w[k].kind # "blank" => \E i \in 1..Len(C) : C[i] = k
  <2> SUFFICES ASSUME NEW k \in 1..Len(w), k \in P PROVE \E i \in 1..Len(C) : C[i] = k
    BY <1>2
  <2>1. PICK i \in 1..Len(C) : m[i] = k
    BY <1>1, <1>5 DEF Picks
  <2> QED
    BY <1>6, <2>1
<1> QED
  BY <1>2, <1>4, <1>6, <1>7, <1>8 DEF C

\* One more item written is one more to return, unless it is an empty line.
LEMMA CarriedGrows ==
    ASSUME NEW I, NEW w \in Seq(I), NEW x \in I
    PROVE  CarriedOf(Append(w, x)) =
               IF x.kind # "blank" THEN Append(CarriedOf(w), Len(w) + 1) ELSE CarriedOf(w)
<1> DEFINE v == Append(w, x)
           n == Len(w)
           p == [k \in DOMAIN w |-> k]
           P == {k \in DOMAIN w : w[k].kind # "blank"}
           q == [k \in DOMAIN v |-> k]
           Q == {k \in DOMAIN v : v[k].kind # "blank"}
<1>1. n \in Nat /\ DOMAIN w = 1..n /\ DOMAIN v = 1..(n + 1) /\ v[n + 1] = x /\ \A k \in 1..n : v[k] = w[k]
  OBVIOUS
<1>2. p \in Seq(Nat) /\ Len(p) = n /\ n + 1 \in Nat
  BY <1>1
<1>3. q = Append(p, n + 1)
  <2>1. q \in Seq(Nat) /\ Append(p, n + 1) \in Seq(Nat) /\ Len(q) = n + 1 /\ Len(Append(p, n + 1)) = n + 1
    BY <1>1, <1>2
  <2>2. \A k \in 1..(n + 1) : q[k] = k
    BY <1>1
  <2>3. \A k \in 1..(n + 1) : Append(p, n + 1)[k] = k
    BY <1>1, <1>2
  <2> HIDE DEF p, q
  <2> QED
    BY <2>1, <2>2, <2>3, SeqEqual
<1>4. \A k \in 1..n : k \in Q <=> k \in P
  BY <1>1
<1>5. n + 1 \in Q <=> x.kind # "blank"
  BY <1>1
<1>6. CarriedOf(w) = Chosen(p, P) /\ CarriedOf(v) = Chosen(q, Q)
  BY DEF CarriedOf
<1> HIDE DEF n, p, q, P, Q, v
<1>7. Chosen(Append(p, n + 1), Q) = IF Len(p) + 1 \in Q THEN Append(Chosen(p, Q), n + 1) ELSE Chosen(p, Q)
  <2>1. \A y \in Nat :
           Chosen(Append(p, y), Q) = IF Len(p) + 1 \in Q THEN Append(Chosen(p, Q), y) ELSE Chosen(p, Q)
    BY <1>2, ChosenAppend
  <2> QED
    BY <1>2, <2>1
<1>8. Chosen(p, Q) = Chosen(p, P)
  BY <1>2, <1>4, ChosenLocal
<1> QED
  BY <1>2, <1>3, <1>5, <1>6, <1>7, <1>8 DEF v, n

\* Before the place p come c of them; and one more, unless it is empty, before the
\* place q at which the item at p ends.
LEMMA CountStep ==
    ASSUME NEW I, NEW w \in Seq(I), NEW s, NEW p, NEW q, NEW c, NEW k \in 1..Len(w),
           Counted(c, s, p, w),
           \A x \in 1..Len(w) : Before(x, s, p) <=> x < k,
           \A x \in 1..Len(w) : Before(x, s, q) <=> x <= k
    PROVE  /\ w[k].kind # "blank" =>
                  c + 1 \in 1..Len(CarriedOf(w)) /\ CarriedOf(w)[c + 1] = k /\ Counted(c + 1, s, q, w)
           /\ w[k].kind = "blank" => Counted(c, s, q, w)
<1> DEFINE C == CarriedOf(w)
<1>1. /\ \A i \in 1..Len(C) : C[i] \in 1..Len(w) /\ w[C[i]].kind # "blank"
      /\ \A i, j \in 1..Len(C) : i < j => C[i] < C[j]
      /\ \A j \in 1..Len(w) : w[j].kind # "blank" => \E i \in 1..Len(C) : C[i] = j
      /\ Len(C) \in Nat
  <2>1. C \in Seq(1..Len(w)) => Len(C) \in Nat
    OBVIOUS
  <2> QED
    BY <2>1, CarriedFacts
<1>2. c \in 0..Len(C) /\ \A i \in 1..Len(C) : i <= c <=> Before(C[i], s, p)
  BY DEF Counted
<1> HIDE DEF C
<1>3. \A i \in 1..Len(C) : i <= c <=> C[i] < k
  BY <1>1, <1>2
<1>4. ASSUME w[k].kind # "blank"
      PROVE  c + 1 \in 1..Len(C) /\ C[c + 1] = k /\ Counted(c + 1, s, q, w)
  <2>1. PICK i \in 1..Len(C) : C[i] = k
    BY <1>1, <1>4
  <2>2. k \in Nat /\ c \in Nat /\ i \in Nat /\ i <= Len(C) /\ ~ (C[i] < k)
    BY <1>2, <2>1
  <2>3. i >= c + 1
    BY <1>3, <2>2
  <2>4. c + 1 \in 1..Len(C)
    BY <1>1, <2>2, <2>3
  <2>5. i = c + 1
    <3> SUFFICES ASSUME c + 1 < i PROVE FALSE
      BY <2>2, <2>3
    <3>1. C[c + 1] < C[i]
      BY <1>1, <2>4
    <3> QED
      BY <1>3, <2>1, <2>2, <2>4, <3>1
  <2>6. ASSUME NEW j \in 1..Len(C) PROVE j <= c + 1 <=> Before(C[j], s, q)
    <3>1. Before(C[j], s, q) <=> C[j] <= k
      BY <1>1
    <3>2. C[j] \in Nat
      BY <1>1
    <3>3. CASE j < i
      BY <1>1, <2>1, <2>2, <2>5, <3>1, <3>2, <3>3
    <3>4. CASE j = i
      BY <2>1, <2>2, <2>5, <3>1, <3>4
    <3>5. CASE j > i
      <4>1. C[i] < C[j]
        BY <1>1, <3>5
      <4> QED
        BY <2>1, <2>2, <2>5, <3>1, <3>2, <3>5, <4>1
    <3> QED
      BY <2>2, <3>3, <3>4, <3>5
  <2>7. Counted(c + 1, s, q, w)
    <3>1. c + 1 \in 0..Len(C)
      BY <1>1, <2>4
    <3> QED
      BY <2>6, <3>1 DEF Counted, C
  <2> QED
    BY <2>1, <2>4, <2>5, <2>7
<1>5. ASSUME w[k].kind = "blank" PROVE Counted(c, s, q, w)
  <2>1. ASSUME NEW i \in 1..Len(C) PROVE i <= c <=> Before(C[i], s, q)
    <3>1. C[i] \in 1..Len(w) /\ C[i] # k
      BY <1>1, <1>5
    <3>2. Before(C[i], s, q) <=> C[i] <= k
      BY <3>1
    <3>3. C[i] <= k <=> C[i] < k
      BY <3>1
    <3> QED
      BY <1>3, <3>2, <3>3
  <2> QED
    BY <1>2, <2>1 DEF Counted, C
<1> QED
  BY <1>4, <1>5 DEF C

-----------------------------------------------------------------------------
(* What is written.                                                         *)

\* A byte is a number below 256.
LEMMA ByteFacts == \A y : y \in Byte <=> y \in Nat /\ y < 256
  BY DEF Byte

\* Two bytes make up a size.
LEMMA SizeBytes ==
    ASSUME NEW z \in Nat, z < 65536
    PROVE  z % 256 \in Byte /\ z \div 256 \in Byte /\ (z % 256) + 256 * (z \div 256) = z
<1>1. z % 256 \in Nat /\ z % 256 < 256 /\ (z % 256) + 256 * (z \div 256) = z
  OBVIOUS
<1>2. z \div 256 \in Nat /\ z \div 256 < 256
  OBVIOUS
<1> QED
  BY <1>1, <1>2, ByteFacts

\* The sizes that the bridge writes into two bytes fit there.
LEMMA PayloadFacts ==
    ASSUME NEW x \in Payloads
    PROVE  x.size \in Nat /\ x.size < 65536 /\ x.fill \in {0, Marker}
<1>1. \A y \in Sizes : y \in Nat /\ y < 65536
  BY ClientsAssumption
<1>2. CASE x \in [size : Sizes, fill : {0}]
  BY <1>1, <1>2
<1>3. CASE x \in [size : {y \in Sizes : TooLarge(y)}, fill : {Marker}]
  BY <1>1, <1>3
<1> QED
  BY <1>2, <1>3 DEF Payloads

ItemOf(x, k) == x \in Response(k) \cup Notification(k) \cup Answered(k) \cup Blank(k)

\* All that has been written is an item of one of the four kinds.
LEMMA WrittenItems ==
    ASSUME TypeOK
    PROVE  Len(written) \in Nat /\ DOMAIN written = 1..Len(written)
           /\ \A i \in 1..Len(written) : \E k \in Nat : ItemOf(written[i], k)
<1> DEFINE J == (UNION {Response(k) \cup Answered(k) : k \in 1..sent})
                  \cup (UNION {Notification(k) \cup Blank(k) : k \in 1..MaxAsides})
<1>1. written \in Seq(J) /\ sent \in Nat /\ MaxAsides \in Nat
  BY ClientsAssumption DEF TypeOK
<1>2. \A x \in J : \E k \in Nat : ItemOf(x, k)
  <2> SUFFICES ASSUME NEW x \in J PROVE \E k \in Nat : ItemOf(x, k)
    OBVIOUS
  <2>1. \/ \E k \in 1..sent : x \in Response(k) \cup Answered(k)
        \/ \E k \in 1..MaxAsides : x \in Notification(k) \cup Blank(k)
    <3>1. CASE x \in UNION {Response(k) \cup Answered(k) : k \in 1..sent}
      BY <3>1
    <3>2. CASE x \in UNION {Notification(k) \cup Blank(k) : k \in 1..MaxAsides}
      BY <3>2
    <3> QED
      BY <3>1, <3>2, Zenon
  <2>2. 1..sent \subseteq Nat /\ 1..MaxAsides \subseteq Nat
    BY <1>1
  <2> QED
    BY <2>1, <2>2, Zenon DEF ItemOf
<1> HIDE DEF J
<1> QED
  BY <1>1, <1>2

\* A frame of the bridge: a header that says how many bytes follow.
HeaderOf(x) == IF x.kind = "notification" THEN 4 ELSE 3

\* Its first byte tells the kind of a frame, and two more bytes how long it is.
LEMMA FrameItem ==
    ASSUME NEW x, NEW k, ItemOf(x, k), x.kind \in {"response", "notification"}
    PROVE  /\ x.payload.size \in Nat
           /\ Encoded(x) \in Seq(Byte) /\ Size(x) = HeaderOf(x) + x.payload.size
           /\ Encoded(x)[1] = Marker <=> x.kind = "notification"
           /\ Encoded(x)[HeaderOf(x) - 1] + 256 * Encoded(x)[HeaderOf(x)] = x.payload.size
<1> DEFINE z == x.payload.size
           f == x.payload.fill
<1>1. /\ x.payload \in Payloads /\ x.kind # "line" /\ x.kind # "blank"
      /\ x.kind = "notification" => x.characteristic \in {Known, Unknown}
  BY DEF ItemOf, Response, Notification, Answered, Blank
<1>2. z \in Nat /\ z < 65536 /\ f \in {0, Marker}
  BY <1>1, PayloadFacts
<1>3. z % 256 \in Byte /\ z \div 256 \in Byte /\ (z % 256) + 256 * (z \div 256) = z
  BY <1>2, SizeBytes
<1>4. f \in Byte
  BY <1>2, ByteFacts DEF Marker
<1> DEFINE lo == z % 256
           hi == z \div 256
           pay == [i \in 1..z |-> f]
<1>5. Encoded(x) = Header(x) \o pay
  BY <1>1 DEF Encoded
<1>6. lo \in Byte /\ hi \in Byte /\ lo + 256 * hi = z
  BY <1>3
<1>7. Header(x) = IF x.kind = "response" THEN <<0, lo, hi>>
                  ELSE <<Marker, x.characteristic, lo, hi>>
  BY DEF Header
<1> HIDE DEF z, f, lo, hi
<1>8. pay \in Seq(Byte) /\ Len(pay) = z
  <2>1. z \in Nat
    BY <1>2
  <2> QED
    BY <1>4, <2>1
<1> HIDE DEF pay
<1>9. CASE x.kind = "response"
  <2>1. Header(x) = <<0, lo, hi>>
    BY <1>7, <1>9
  <2>2. Encoded(x) = <<0, lo, hi>> \o pay
    BY <1>5, <2>1
  <2>3. <<0, lo, hi>> \in Seq(Byte)
    BY <1>6, ByteFacts
  <2>4. /\ Encoded(x) \in Seq(Byte) /\ Len(Encoded(x)) = 3 + z
        /\ Encoded(x)[1] = 0 /\ Encoded(x)[2] = lo /\ Encoded(x)[3] = hi
    BY <1>2, <1>8, <2>2, <2>3
  <2>5. HeaderOf(x) = 3 /\ x.kind # "notification"
    BY <1>9 DEF HeaderOf
  <2> QED
    BY <1>2, <1>6, <2>4, <2>5 DEF Marker, Size, z
<1>10. CASE x.kind = "notification"
  <2> DEFINE c == x.characteristic
  <2>0. c \in Byte
    BY <1>1, <1>10, ByteFacts DEF Known, Unknown
  <2>1. Header(x) = <<Marker, c, lo, hi>>
    BY <1>7, <1>10
  <2> HIDE DEF c
  <2>2. Encoded(x) = <<Marker, c, lo, hi>> \o pay
    BY <1>5, <2>1
  <2>3. <<Marker, c, lo, hi>> \in Seq(Byte)
    BY <1>6, <2>0, ByteFacts DEF Marker
  <2>4. /\ Encoded(x) \in Seq(Byte) /\ Len(Encoded(x)) = 4 + z
        /\ Encoded(x)[1] = Marker /\ Encoded(x)[3] = lo /\ Encoded(x)[4] = hi
    BY <1>2, <1>8, <2>2, <2>3
  <2>5. HeaderOf(x) = 4
    BY <1>10 DEF HeaderOf
  <2> QED
    BY <1>2, <1>6, <1>10, <2>4, <2>5 DEF Size, z
<1> QED
  BY <1>9, <1>10

\* A line ends in its only newline; without that and a carriage return it is not
\* empty, unless it is one of those that the server keeps the connection busy with.
LineBytes == {"text", "cr", "binary", "newline"}

\* The text of a line begins with a character that is kept, and only one has a
\* byte that is no text.
LEMMA TextFacts ==
    ASSUME NEW t \in Lines \cup {"blank"}
    PROVE  /\ Text(t) \in Seq({"text", "cr", "binary"}) /\ Len(Text(t)) >= 1
           /\ t = "blank" => Text(t) = <<"cr">>
           /\ t # "blank" => Text(t)[1] # "cr"
           /\ t = "binary" <=> \E i \in 1..Len(Text(t)) : Text(t)[i] = "binary"
<1>0. MaxLine \in Nat /\ MaxLine >= 1
  BY LineAssumption
<1> USE DEF Lines
<1>1. CASE t = "short"
  BY <1>1 DEF Text
<1>2. CASE t = "crlf"
  BY <1>2 DEF Text
<1>3. CASE t = "full"
  BY <1>0, <1>3 DEF Text
<1>4. CASE t = "full_crlf"
  BY <1>0, <1>4 DEF Text
<1>5. CASE t = "long"
  BY <1>0, <1>5 DEF Text
<1>6. CASE t = "binary"
  BY <1>6 DEF Text
<1>7. CASE t = "blank"
  BY <1>7 DEF Text
<1> QED
  BY <1>1, <1>2, <1>3, <1>4, <1>5, <1>6, <1>7

\* A line ends with its only newline, and is good if it is neither too long nor no text.
LEMMA LineItem ==
    ASSUME NEW x, NEW k, ItemOf(x, k), x.kind \in {"line", "blank"}
    PROVE  /\ Encoded(x) \in Seq(LineBytes) /\ Size(x) \in Nat /\ Size(x) >= 2
           /\ Encoded(x)[Size(x)] = "newline"
           /\ \A i \in 1..(Size(x) - 1) : Encoded(x)[i] # "newline"
           /\ x.kind = "blank" => Size(x) = 2 /\ Encoded(x)[1] = "cr"
           /\ x.kind = "line" =>
                 /\ Encoded(x)[1] # "cr"
                 /\ Good(x) <=> /\ Size(x) - 1 <= MaxLine
                                /\ \A i \in 1..(Size(x) - 1) : Encoded(x)[i] # "binary"
<1> DEFINE t == Text(x.text)
           b == {"text", "cr", "binary"}
<1>1. x.text \in Lines \cup {"blank"} /\ (x.kind = "blank" <=> x.text = "blank")
  BY DEF ItemOf, Response, Notification, Answered, Blank, Lines
<1>2. /\ t \in Seq(b) /\ Len(t) >= 1
      /\ x.text = "blank" => t = <<"cr">>
      /\ x.text # "blank" => t[1] # "cr"
      /\ x.text = "binary" <=> \E i \in 1..Len(t) : t[i] = "binary"
  BY <1>1, TextFacts
<1>3. Encoded(x) = Append(t, "newline")
  BY DEF Encoded
<1> HIDE DEF t
<1>4. /\ Len(t) \in Nat /\ Size(x) = Len(t) + 1 /\ Encoded(x)[Size(x)] = "newline"
      /\ \A i \in 1..Len(t) : Encoded(x)[i] = t[i] /\ t[i] \in b
  BY <1>2, <1>3 DEF Size
<1>5. Encoded(x) \in Seq(LineBytes)
  <2>1. t \in Seq(LineBytes)
    BY <1>2, SeqMonotonic DEF LineBytes
  <2> QED
    BY <1>3, <2>1 DEF LineBytes
<1>6. \A i \in 1..(Size(x) - 1) : Encoded(x)[i] # "newline"
  BY <1>4
<1>7. ASSUME x.kind = "blank" PROVE Size(x) = 2 /\ Encoded(x)[1] = "cr"
  BY <1>1, <1>2, <1>4, <1>7
<1>8. ASSUME x.kind = "line"
      PROVE  /\ Encoded(x)[1] # "cr"
             /\ Good(x) <=> /\ Size(x) - 1 <= MaxLine
                            /\ \A i \in 1..(Size(x) - 1) : Encoded(x)[i] # "binary"
  <2>1. Encoded(x)[1] = t[1] /\ t[1] # "cr"
    BY <1>1, <1>2, <1>4, <1>8
  <2>2. Good(x) <=> x.text # "binary" /\ Len(t) <= MaxLine
    BY <1>8 DEF Good, t
  <2>3. Size(x) - 1 = Len(t)
    BY <1>4
  <2>4. x.text = "binary" <=> \E i \in 1..(Size(x) - 1) : Encoded(x)[i] = "binary"
    BY <1>2, <1>4, <2>3
  <2> QED
    BY <2>1, <2>2, <2>3, <2>4
<1> QED
  BY <1>2, <1>4, <1>5, <1>6, <1>7, <1>8

\* The last bytes of a buffer.
Suffix(buf, left) == SubSeq(buf, Len(buf) - left + 1, Len(buf))

\* They are the bytes that a parser still has before it when left of them are left.
LEMMA SuffixFacts ==
    ASSUME NEW B, NEW buf \in Seq(B), NEW left \in 0..Len(buf)
    PROVE  /\ Suffix(buf, left) \in Seq(B) /\ Len(Suffix(buf, left)) = left
           /\ \A i \in 1..left : Suffix(buf, left)[i] = buf[Len(buf) - left + i]
  BY DEF Suffix

-----------------------------------------------------------------------------
(* GattFrameParser.feed.                                                    *)

\* One turn of its loop.
FrameStep(turn, left, buf) ==
    LET b     == Suffix(buf, left)
        total == HeaderSize(b) + PayloadSize(b)
        after == left - total
        next  == IF More(after) THEN turn[after] ELSE Stops(Suffix(buf, after))
        frame == [notifies |-> NotifiesAt(b), characteristic |-> b[2].is,
                  bytes |-> SubSeq(b, 1, total)]
    IN  IF left < HeaderSize(b) THEN Stops(b)
        ELSE IF TooLarge(PayloadSize(b))
             THEN [found |-> <<>>, rest |-> <<>>, raised |-> TRUE]
        ELSE IF left < total THEN Stops(b)
        ELSE [found  |-> IF next.raised THEN <<>> ELSE <<frame>> \o next.found,
              rest   |-> next.rest, raised |-> next.raised]

FrameTurns(turn, n, buf) == turn = [left \in 0..n |-> FrameStep(turn, left, buf)]

\* The header says how many bytes a frame has.
LEMMA HeaderFacts ==
    ASSUME NEW b \in Seq(GattByte)
    PROVE  /\ HeaderSize(b) \in {3, 4}
           /\ Len(b) >= HeaderSize(b) => PayloadSize(b) \in Nat
<1>1. HeaderSize(b) \in {3, 4}
  BY DEF HeaderSize
<1>2. ASSUME Len(b) >= HeaderSize(b) PROVE PayloadSize(b) \in Nat
  <2> DEFINE h == HeaderSize(b)
  <2>1. \A i \in 1..Len(b) : b[i] \in GattByte
    OBVIOUS
  <2>2. \A x \in GattByte : x.is \in Nat
    BY ByteFacts DEF GattByte
  <2>3. h \in 1..Len(b) /\ h - 1 \in 1..Len(b)
    <3>1. Len(b) \in Nat
      OBVIOUS
    <3> HIDE DEF h
    <3> QED
      BY <1>1, <1>2, <3>1 DEF h
  <2>4. b[h].is \in Nat /\ b[h - 1].is \in Nat
    BY <2>1, <2>2, <2>3
  <2>5. PayloadSize(b) = b[h - 1].is + 256 * b[h].is
    BY DEF PayloadSize
  <2> DEFINE low  == b[h - 1].is
             high == b[h].is
  <2>6. low \in Nat /\ high \in Nat /\ PayloadSize(b) = low + 256 * high
    BY <2>4, <2>5
  <2> HIDE DEF low, high
  <2> QED
    BY <2>6
<1> QED
  BY <1>1, <1>2

\* A turn depends on the turns with fewer bytes left only.
LEMMA FrameStepLocal ==
    ASSUME NEW buf \in Seq(GattByte), NEW left \in 0..Len(buf), NEW f, NEW g,
           \A i \in 0..(left - 1) : f[i] = g[i]
    PROVE  FrameStep(f, left, buf) = FrameStep(g, left, buf)
<1> DEFINE b == Suffix(buf, left)
           total == HeaderSize(b) + PayloadSize(b)
<1>1. b \in Seq(GattByte) /\ Len(b) = left
  BY SuffixFacts
<1>2. left >= HeaderSize(b) => total \in Nat /\ total >= 3
  <2>1. HeaderSize(b) \in {3, 4} /\ (left >= HeaderSize(b) => PayloadSize(b) \in Nat)
    BY <1>1, HeaderFacts
  <2> QED
    BY <2>1
<1>3. left >= HeaderSize(b) /\ left >= total /\ More(left - total) => f[left - total] = g[left - total]
  BY <1>2 DEF More
<1>4. left < HeaderSize(b) \/ ~(left < HeaderSize(b))
  OBVIOUS
<1>5. left >= HeaderSize(b) /\ left >= total =>
         (IF More(left - total) THEN f[left - total] ELSE Stops(Suffix(buf, left - total)))
           = (IF More(left - total) THEN g[left - total] ELSE Stops(Suffix(buf, left - total)))
  BY <1>3
<1>6. left >= HeaderSize(b) <=> ~(left < HeaderSize(b))
  BY <1>1, HeaderFacts
<1>7. ~(left < HeaderSize(b)) => (left >= total <=> ~(left < total))
  BY <1>2, <1>6
<1>8. CASE left < HeaderSize(b)
  BY <1>8, Zenon DEF FrameStep
<1>9. CASE ~(left < HeaderSize(b)) /\ left < total
  BY <1>9, Zenon DEF FrameStep
<1>10. CASE ~(left < HeaderSize(b)) /\ ~(left < total)
  <2>1. (IF More(left - total) THEN f[left - total] ELSE Stops(Suffix(buf, left - total)))
           = (IF More(left - total) THEN g[left - total] ELSE Stops(Suffix(buf, left - total)))
    BY <1>5, <1>6, <1>7, <1>10, Zenon
  <2> QED
    BY <1>10, <2>1, Zenon DEF FrameStep
<1> QED
  BY <1>8, <1>9, <1>10, Zenon

\* So there is a function of the bytes left whose values are these turns.
LEMMA FramesExist ==
    ASSUME NEW buf \in Seq(GattByte)
    PROVE  \A n \in Nat : n <= Len(buf) => \E f : FrameTurns(f, n, buf)
<1> DEFINE T == {n \in Nat : n <= Len(buf) => \E f : FrameTurns(f, n, buf)}
<1>1. ASSUME NEW n \in Nat, \A m \in 0..(n - 1) : m \in T PROVE n \in T
  <2> SUFFICES ASSUME n <= Len(buf) PROVE \E f : FrameTurns(f, n, buf)
    OBVIOUS
  <2>1. \E f : \A i \in 0..(n - 1) : f[i] = FrameStep(f, i, buf)
    <3>1. CASE n = 0
      BY <3>1
    <3>2. CASE n # 0
      <4>1. n - 1 \in 0..(n - 1) /\ n - 1 <= Len(buf)
        BY <3>2
      <4>2. PICK f : FrameTurns(f, n - 1, buf)
        BY <1>1, <4>1
      <4> QED
        BY <4>2 DEF FrameTurns
    <3> QED
      BY <3>1, <3>2
  <2>2. PICK f : \A i \in 0..(n - 1) : f[i] = FrameStep(f, i, buf)
    BY <2>1
  <2> HIDE DEF T
  <2> DEFINE g == [i \in 0..n |-> FrameStep(f, i, buf)]
             h == [i \in 0..n |-> FrameStep(g, i, buf)]
  <2>3. \A i \in 0..(n - 1) : g[i] = f[i]
    BY <2>2
  <2>4. \A i \in 0..n : FrameStep(g, i, buf) = FrameStep(f, i, buf)
    <3> SUFFICES ASSUME NEW i \in 0..n PROVE FrameStep(g, i, buf) = FrameStep(f, i, buf)
      OBVIOUS
    <3>1. i \in 0..Len(buf) /\ \A j \in 0..(i - 1) : g[j] = f[j]
      BY <2>3
    <3> HIDE DEF g
    <3> QED
      BY <3>1, FrameStepLocal
  <2>5. h = g
    BY <2>4
  <2>6. FrameTurns(g, n, buf)
    BY <2>5 DEF FrameTurns
  <2> QED
    BY <2>6
<1>2. T = Nat
  <2> HIDE DEF T
  <2>1. T \in SUBSET Nat
    BY DEF T
  <2> QED
    BY <1>1, <2>1, StrongInduction
<1> QED
  BY <1>2

\* feed is the last of these turns.
LEMMA FeedFramesTurns ==
    ASSUME NEW buf \in Seq(GattByte)
    PROVE  \E turn : FrameTurns(turn, Len(buf), buf) /\ FeedFrames(buf) = turn[Len(buf)]
<1> DEFINE Last(left) == SubSeq(buf, Len(buf) - left + 1, Len(buf))
           turn[left \in 0..Len(buf)] ==
              LET b     == Last(left)
                  total == HeaderSize(b) + PayloadSize(b)
                  after == left - total
                  next  == IF More(after) THEN turn[after] ELSE Stops(Last(after))
                  frame == [notifies |-> NotifiesAt(b), characteristic |-> b[2].is,
                            bytes |-> SubSeq(b, 1, total)]
              IN  IF left < HeaderSize(b) THEN Stops(b)
                  ELSE IF TooLarge(PayloadSize(b))
                       THEN [found |-> <<>>, rest |-> <<>>, raised |-> TRUE]
                  ELSE IF left < total THEN Stops(b)
                  ELSE [found  |-> IF next.raised THEN <<>> ELSE <<frame>> \o next.found,
                        rest   |-> next.rest, raised |-> next.raised]
<1>1. \E f : FrameTurns(f, Len(buf), buf)
  <2>1. Len(buf) \in Nat /\ Len(buf) <= Len(buf)
    OBVIOUS
  <2> QED
    BY <2>1, FramesExist
<1>2. FrameTurns(turn, Len(buf), buf)
  BY <1>1, Zenon DEF FrameTurns, FrameStep, Suffix
<1>3. FeedFrames(buf) = turn[Len(buf)]
  BY Zenon DEF FeedFrames
<1> QED
  BY <1>2, <1>3

\* What a turn returns of any bytes.
Starts(B, buf) == {f \in Seq(B) : Len(f) >= 1 /\ \E i \in 1..Len(buf) : f[1] = buf[i]}
FoundFrames(buf) == [notifies : BOOLEAN, characteristic : Byte, bytes : Starts(GattByte, buf)]

FrameTyped(buf, left, r) ==
    /\ r.raised \in BOOLEAN /\ r.found \in Seq(FoundFrames(buf))
    /\ Len(r.rest) \in 0..left /\ r.rest = Suffix(buf, Len(r.rest))
    /\ r.raised => r.found = <<>> /\ r.rest = <<>>
    /\ ~r.raised => Len(r.rest) <= 3 + MaxPayload

\* One turn, if the turns after it return what they may.
LEMMA FrameTypedStep ==
    ASSUME NEW buf \in Seq(GattByte), NEW left \in 0..Len(buf), NEW turn,
           \A i \in 0..(left - 1) : FrameTyped(buf, i, turn[i])
    PROVE  FrameTyped(buf, left, FrameStep(turn, left, buf))
<1> DEFINE b     == Suffix(buf, left)
           h     == HeaderSize(b)
           z     == PayloadSize(b)
           total == h + z
           after == left - total
           next  == IF More(after) THEN turn[after] ELSE Stops(Suffix(buf, after))
           frame == [notifies |-> NotifiesAt(b), characteristic |-> b[2].is,
                     bytes |-> SubSeq(b, 1, total)]
           step  == FrameStep(turn, left, buf)
<1>1. /\ b \in Seq(GattByte) /\ Len(b) = left /\ left \in Nat /\ Len(buf) \in Nat
      /\ \A i \in 1..left : b[i] = buf[Len(buf) - left + i]
  BY SuffixFacts
<1>2. h \in {3, 4} /\ (left >= h => z \in Nat)
  BY <1>1, HeaderFacts
<1>3. step = IF left < h THEN Stops(b)
             ELSE IF TooLarge(z) THEN [found |-> <<>>, rest |-> <<>>, raised |-> TRUE]
             ELSE IF left < total THEN Stops(b)
             ELSE [found  |-> IF next.raised THEN <<>> ELSE <<frame>> \o next.found,
                   rest   |-> next.rest, raised |-> next.raised]
  BY DEF FrameStep
<1>4. <<>> \in Seq(FoundFrames(buf)) /\ Suffix(buf, 0) = <<>> /\ 0 \in 0..left
  BY <1>1 DEF Suffix
<1>5. \A l \in 0..left : l <= 3 + MaxPayload => FrameTyped(buf, l, Stops(Suffix(buf, l)))
  <2> SUFFICES ASSUME NEW l \in 0..left, l <= 3 + MaxPayload
               PROVE  FrameTyped(buf, l, Stops(Suffix(buf, l)))
    OBVIOUS
  <2>1. Len(Suffix(buf, l)) = l /\ l \in 0..l
    <3>1. l \in 0..Len(buf)
      BY <1>1
    <3> QED
      BY <3>1, SuffixFacts
  <2> QED
    BY <1>4, <2>1 DEF FrameTyped, Stops
<1> HIDE DEF step, b, h, z
<1>6. CASE left < h
  <2>1. left <= 3 + MaxPayload
    BY <1>1, <1>2, <1>6, PayloadAssumption
  <2> QED
    BY <1>1, <1>3, <1>5, <1>6, <2>1 DEF step, b
<1>7. CASE ~(left < h) /\ TooLarge(z)
  <2>1. Len(<<>>) = 0
    OBVIOUS
  <2>2. step = [found |-> <<>>, rest |-> <<>>, raised |-> TRUE]
    BY <1>3, <1>7
  <2>3. FrameTyped(buf, left, step)
    BY <1>4, <2>1, <2>2 DEF FrameTyped
  <2> QED
    BY <2>3 DEF step
<1>8. CASE ~(left < h) /\ ~TooLarge(z) /\ left < total
  <2>1. left <= 3 + MaxPayload
    BY <1>1, <1>2, <1>8, PayloadAssumption DEF TooLarge
  <2> QED
    BY <1>1, <1>3, <1>5, <1>8, <2>1 DEF step, b
<1>9. CASE ~(left < h) /\ ~TooLarge(z) /\ ~(left < total)
  <2>1. total \in Nat /\ total >= 3 /\ total <= left /\ after \in 0..(left - 1) /\ after \in 0..left
    BY <1>1, <1>2, <1>9
  <2> HIDE DEF total, after
  <2>2. FrameTyped(buf, after, next)
    <3>1. CASE More(after)
      BY <2>1, <3>1
    <3>2. CASE ~More(after)
      <4>1. after = 0 /\ 0 <= 3 + MaxPayload
        BY <2>1, <3>2, PayloadAssumption DEF More
      <4> QED
        BY <1>4, <1>5, <3>2, <4>1
    <3> QED
      BY <3>1, <3>2
  <2> HIDE DEF next
  <2>3. frame \in FoundFrames(buf)
    <3>1. b[2].is \in Byte
      <4>1. b[2] \in GattByte
        BY <1>1, <2>1
      <4> QED
        BY <4>1 DEF GattByte
    <3>2. SubSeq(b, 1, total) \in Seq(GattByte) /\ Len(SubSeq(b, 1, total)) = total
          /\ SubSeq(b, 1, total)[1] = b[1]
      BY <1>1, <2>1
    <3>3. b[1] = buf[Len(buf) - left + 1] /\ Len(buf) - left + 1 \in 1..Len(buf)
      BY <1>1, <2>1
    <3>4. SubSeq(b, 1, total) \in Starts(GattByte, buf)
      <4> DEFINE f == SubSeq(b, 1, total)
      <4>1. f \in Seq(GattByte) /\ Len(f) >= 1
        BY <2>1, <3>2
      <4>2. \E i \in 1..Len(buf) : f[1] = buf[i]
        BY <3>2, <3>3
      <4> HIDE DEF f
      <4>3. f \in Starts(GattByte, buf)
        BY <4>1, <4>2 DEF Starts
      <4> QED
        BY <4>3 DEF f
    <3>5. NotifiesAt(b) \in BOOLEAN
      BY DEF NotifiesAt
    <3> QED
      BY <3>1, <3>4, <3>5 DEF FoundFrames
  <2> HIDE DEF frame
  <2>4. step = [found  |-> IF next.raised THEN <<>> ELSE <<frame>> \o next.found,
                rest   |-> next.rest, raised |-> next.raised]
    BY <1>3, <1>9
  <2>5. <<frame>> \o next.found \in Seq(FoundFrames(buf))
    <3>1. next.found \in Seq(FoundFrames(buf))
      BY <2>2 DEF FrameTyped
    <3>2. <<frame>> \in Seq(FoundFrames(buf))
      BY <2>3
    <3> QED
      BY <3>1, <3>2, ConcatProperties
  <2>6. step.raised = next.raised /\ step.rest = next.rest
        /\ step.found = IF next.raised THEN <<>> ELSE <<frame>> \o next.found
    BY <2>4
  <2>7. Len(next.rest) \in 0..left
    BY <1>1, <2>1, <2>2 DEF FrameTyped
  <2>8. FrameTyped(buf, left, step)
    BY <1>4, <2>2, <2>5, <2>6, <2>7 DEF FrameTyped
  <2> QED
    BY <2>8 DEF step
<1> QED
  BY <1>6, <1>7, <1>8, <1>9

\* feed returns frames that were cut out of its bytes, and at most an unfinished one
\* is left over, whatever the bytes are.
LEMMA FramesTyped ==
    ASSUME NEW buf \in Seq(GattByte)
    PROVE  FrameTyped(buf, Len(buf), FeedFrames(buf))
<1>1. PICK turn : FrameTurns(turn, Len(buf), buf) /\ FeedFrames(buf) = turn[Len(buf)]
  BY FeedFramesTurns
<1>2. \A left \in 0..Len(buf) : turn[left] = FrameStep(turn, left, buf)
  BY <1>1 DEF FrameTurns
<1> DEFINE T == {n \in Nat : n <= Len(buf) => FrameTyped(buf, n, turn[n])}
<1>3. ASSUME NEW n \in Nat, \A m \in 0..(n - 1) : m \in T PROVE n \in T
  <2> SUFFICES ASSUME n <= Len(buf) PROVE FrameTyped(buf, n, turn[n])
    OBVIOUS
  <2>1. n \in 0..Len(buf) /\ \A m \in 0..(n - 1) : FrameTyped(buf, m, turn[m])
    BY <1>3
  <2> QED
    BY <1>2, <2>1, FrameTypedStep
<1>4. T = Nat
  <2> HIDE DEF T
  <2>1. T \in SUBSET Nat
    BY DEF T
  <2> QED
    BY <1>3, <2>1, StrongInduction
<1>5. Len(buf) \in T
  BY <1>4
<1> QED
  BY <1>1, <1>5

-----------------------------------------------------------------------------
(* What a parser owes to a stream.                                          *)

\* A frame or line is the item k, whole, acceptable, and taken for what it is.
Right(f, k) ==
    /\ Identify(f) = [id |-> k, whole |-> TRUE] /\ Good(written[k])
    /\ Gatt => (f.notifies <=> written[k].kind = "notification")

\* What is returned of the first n bytes of s, when c items came before: the next
\* items, up to one whose bytes are not all there.
Result(c, s, n, r) ==
    IF r.raised THEN \E i \in (c + 1)..Len(Carried) : ~Good(written[Carried[i]])
    ELSE LET q == n - Len(r.rest)
         IN  /\ Aligned(s, q)
             /\ r.rest # <<>> => Len(r.rest) < Size(written[s[q + 1].of])
             /\ Counted(c + Len(r.found), s, q, written)
             /\ \A j \in 1..Len(r.found) : Right(r.found[j], Carried[c + j])

\* One more frame or line in front of what the other turns return.
LEMMA ResultMore ==
    ASSUME NEW c \in Nat, NEW s, NEW n, NEW F, NEW x \in F, Right(x, Carried[c + 1]),
           NEW next, next.raised \in BOOLEAN, next.found \in Seq(F), Result(c + 1, s, n, next),
           NEW r, r.raised = next.raised, r.rest = next.rest,
           r.found = IF next.raised THEN <<>> ELSE <<x>> \o next.found
    PROVE  Result(c, s, n, r)
<1> DEFINE C == Carried
           u == next.found
<1>1. CASE next.raised
  <2>1. PICK i \in ((c + 1) + 1)..Len(C) : ~Good(written[C[i]])
    BY <1>1 DEF Result
  <2>2. i \in (c + 1)..Len(C)
    OBVIOUS
  <2> QED
    BY <1>1, <2>1, <2>2 DEF Result
<1>2. CASE ~next.raised
  <2> DEFINE v == r.found
  <2>1. v = <<x>> \o u /\ u \in Seq(F)
    BY <1>2
  <2> HIDE DEF u, v, C
  <2>2. Len(u) \in Nat /\ Len(v) = 1 + Len(u) /\ v[1] = x /\ \A j \in 1..Len(u) : v[1 + j] = u[j]
    BY <2>1
  <2>3. (c + 1) + Len(u) = c + Len(v)
    BY <2>2
  <2>4. ASSUME NEW j \in 1..Len(v) PROVE Right(v[j], C[c + j])
    <3>1. CASE j = 1
      BY <2>2, <3>1 DEF C
    <3>2. CASE j # 1
      <4>1. j - 1 \in 1..Len(u) /\ 1 + (j - 1) = j /\ (c + 1) + (j - 1) = c + j
        BY <2>2, <3>2
      <4>2. \A i \in 1..Len(u) : Right(u[i], C[(c + 1) + i])
        BY <1>2 DEF Result, u, C
      <4>3. Right(u[j - 1], C[c + j]) /\ v[j] = u[j - 1]
        BY <2>2, <4>1, <4>2
      <4> QED
        BY <4>3
    <3> QED
      BY <3>1, <3>2
  <2>5. LET q == n - Len(r.rest)
        IN  /\ Aligned(s, q)
            /\ r.rest # <<>> => Len(r.rest) < Size(written[s[q + 1].of])
            /\ Counted(c + Len(v), s, q, written)
    BY <1>2, <2>3 DEF Result, u
  <2> QED
    BY <1>2, <2>4, <2>5 DEF Result, v, C
<1> QED
  BY <1>1, <1>2

\* Nothing more to return.
LEMMA ResultNone ==
    ASSUME NEW B, NEW buf \in Seq(B), NEW c \in Nat, NEW s, NEW left \in 0..Len(buf),
           Aligned(s, Len(buf) - left), Counted(c, s, Len(buf) - left, written),
           left > 0 => left < Size(written[s[Len(buf) - left + 1].of]),
           NEW r, r = [found |-> <<>>, rest |-> Suffix(buf, left), raised |-> FALSE]
    PROVE  Result(c, s, Len(buf), r)
<1>1. Len(r.rest) = left /\ r.found = <<>> /\ ~r.raised /\ Len(buf) \in Nat
  BY SuffixFacts
<1>2. r.rest # <<>> => left > 0
  BY <1>1
<1>3. c + Len(r.found) = c
  BY <1>1
<1>4. \A j \in 1..Len(r.found) : Right(r.found[j], Carried[c + j])
  BY <1>1
<1> QED
  BY <1>1, <1>2, <1>3, <1>4 DEF Result

-----------------------------------------------------------------------------
(* The frame parser, between two items of a stream.                         *)

\* The first n bytes of a stream.
Reads(buf, s, n) == n \in 0..Len(s) /\ buf = SubSeq(s, 1, n)

\* The bytes that are left of it are the same bytes of the stream.
LEMMA ReadsFacts ==
    ASSUME NEW B, NEW s \in Seq(B), NEW n, NEW buf, Reads(buf, s, n), NEW left \in 0..n
    PROVE  /\ buf \in Seq(B) /\ Len(buf) = n /\ n \in Nat /\ n <= Len(s) /\ n - left \in Nat
           /\ Suffix(buf, left) \in Seq(B) /\ Len(Suffix(buf, left)) = left
           /\ \A i \in 1..left : Suffix(buf, left)[i] = s[(n - left) + i] /\ s[(n - left) + i] \in B
<1>1. buf \in Seq(B) /\ Len(buf) = n /\ n \in Nat /\ n <= Len(s) /\ \A i \in 1..n : buf[i] = s[i] /\ s[i] \in B
  BY DEF Reads
<1>2. /\ Suffix(buf, left) \in Seq(B) /\ Len(Suffix(buf, left)) = left
      /\ \A i \in 1..left : Suffix(buf, left)[i] = buf[n - left + i]
  BY <1>1, SuffixFacts
<1>3. ASSUME NEW i \in 1..left PROVE n - left + i \in 1..n /\ n - left + i = (n - left) + i
  BY <1>1
<1> QED
  BY <1>1, <1>2, <1>3

\* All that is written has a byte.
LEMMA WrittenSized ==
    ASSUME TypeOK, ServerInv
    PROVE  Sized(written)
<1> SUFFICES ASSUME NEW k \in 1..Len(written) PROVE Size(written[k]) \in Nat \ {0}
  BY DEF Sized
<1>1. PICK l \in Nat : ItemOf(written[k], l)
  BY WrittenItems
<1>2. CASE written[k].kind \in {"response", "notification"}
  BY <1>1, <1>2, FrameItem DEF HeaderOf
<1>3. CASE written[k].kind \in {"line", "blank"}
  BY <1>1, <1>3, LineItem
<1> QED
  BY <1>2, <1>3 DEF ServerInv

\* What the header of a frame in the stream says, and the frame.
LEMMA FrameAt ==
    ASSUME TypeOK, ServerInv, Gatt, NEW s \in Seq(GattByte), Streams(s, written),
           NEW n, NEW buf, Reads(buf, s, n), NEW left \in 1..n, Aligned(s, n - left)
    PROVE  LET b == Suffix(buf, left)
               k == s[(n - left) + 1].of
               x == written[k]
           IN  /\ k \in 1..Len(written) /\ x.kind \in {"response", "notification"}
               /\ NotifiesAt(b) <=> x.kind = "notification"
               /\ HeaderSize(b) = HeaderOf(x)
               /\ left >= HeaderSize(b) => PayloadSize(b) = x.payload.size
               /\ x.payload.size \in Nat /\ Size(x) = HeaderOf(x) + x.payload.size
               /\ left >= Size(x) => SubSeq(b, 1, Size(x)) = Bytes(x, k) /\ b[1].of = k
<1> DEFINE p == n - left
           b == Suffix(buf, left)
           k == s[p + 1].of
           x == written[k]
           e == Encoded(x)
<1>1. /\ b \in Seq(GattByte) /\ Len(b) = left /\ p \in Nat /\ p < Len(s) /\ left \in Nat /\ left >= 1
      /\ \A i \in 1..left : b[i] = s[p + i] /\ s[p + i] \in GattByte
  <2>1. left \in 0..n
    OBVIOUS
  <2> QED
    BY <2>1, ReadsFacts
<1>2. Len(written) \in Nat /\ Sized(written)
  BY WrittenItems, WrittenSized
<1>3. s[p + 1].at = 1
  BY <1>1 DEF Aligned
<1> HIDE DEF p
<1>4. /\ k \in 1..Len(written) /\ Size(x) \in Nat
      /\ \A d \in 1..Size(x) : s[p + d].of = k /\ s[p + d].at = d /\ s[p + d].is = e[d]
  <2>1. LET a == s[p + 1].at
            t == Size(written[k]) - a + 1
        IN  /\ k \in 1..Len(written)
            /\ \A d \in 1..t : s[p + d].of = k /\ s[p + d].at = a + d - 1
                               /\ s[p + d].is = Encoded(written[k])[a + d - 1]
    BY <1>1, <1>2, StreamItem
  <2>2. k \in 1..Len(written) /\ Size(x) \in Nat
    BY <1>2, <2>1 DEF Sized
  <2>3. Size(x) - 1 + 1 = Size(x) /\ \A d \in 1..Size(x) : 1 + d - 1 = d
    BY <2>2
  <2> QED
    BY <1>3, <2>1, <2>2, <2>3
<1>5. x.kind \in {"response", "notification"}
  BY <1>4 DEF ServerInv
<1>6. /\ x.payload.size \in Nat
      /\ e \in Seq(Byte) /\ Size(x) = HeaderOf(x) + x.payload.size
      /\ e[1] = Marker <=> x.kind = "notification"
      /\ e[HeaderOf(x) - 1] + 256 * e[HeaderOf(x)] = x.payload.size
  <2>1. PICK l \in Nat : ItemOf(x, l)
    BY <1>4, WrittenItems
  <2> QED
    BY <1>5, <2>1, FrameItem
<1> HIDE DEF b, k, x, e
<1>7. HeaderOf(x) \in {3, 4} /\ Size(x) >= 3
  BY <1>4, <1>6 DEF HeaderOf
<1>8. \A d \in 1..Size(x) : d <= left => b[d].is = e[d] /\ b[d].of = k /\ b[d].at = d
  BY <1>1, <1>4
<1>9. NotifiesAt(b) <=> x.kind = "notification"
  <2>1. 1 \in 1..Size(x) /\ 1 <= left
    BY <1>1, <1>4, <1>7
  <2>2. b[1].is = e[1]
    BY <1>8, <2>1
  <2> QED
    BY <1>6, <2>2 DEF NotifiesAt
<1>10. HeaderSize(b) = HeaderOf(x)
  BY <1>9 DEF HeaderSize, HeaderOf
<1>11. left >= HeaderSize(b) => PayloadSize(b) = x.payload.size
  <2> SUFFICES ASSUME left >= HeaderSize(b) PROVE PayloadSize(b) = x.payload.size
    OBVIOUS
  <2> DEFINE h == HeaderOf(x)
  <2>1. h \in {3, 4} /\ h <= left
    BY <1>7, <1>10
  <2>2. h <= Size(x)
    BY <1>6, <1>7
  <2> HIDE DEF h
  <2>3. h - 1 \in 1..Size(x) /\ h \in 1..Size(x) /\ h - 1 <= left
    BY <1>1, <1>4, <2>1, <2>2
  <2>4. b[h - 1].is = e[h - 1] /\ b[h].is = e[h]
    BY <1>8, <2>1, <2>3
  <2>5. PayloadSize(b) = b[h - 1].is + 256 * b[h].is
    BY <1>10 DEF PayloadSize, h
  <2> QED
    BY <1>6, <2>4, <2>5 DEF h
<1>12. left >= Size(x) => SubSeq(b, 1, Size(x)) = Bytes(x, k) /\ b[1].of = k
  <2> SUFFICES ASSUME left >= Size(x) PROVE SubSeq(b, 1, Size(x)) = Bytes(x, k) /\ b[1].of = k
    OBVIOUS
  <2> DEFINE f == SubSeq(b, 1, Size(x))
             g == Bytes(x, k)
  <2>1. f \in Seq(GattByte) /\ Len(f) = Size(x) /\ \A d \in 1..Size(x) : f[d] = b[d]
    BY <1>1, <1>4
  <2>2. g = [d \in 1..Size(x) |-> [is |-> e[d], of |-> k, at |-> d]]
    <3>1. DOMAIN e = 1..Size(x)
      BY <1>6 DEF Size, e
    <3> QED
      BY <3>1 DEF Bytes, e
  <2>3. \A d \in 1..Size(x) : b[d] = [is |-> e[d], of |-> k, at |-> d]
    <3> SUFFICES ASSUME NEW d \in 1..Size(x) PROVE b[d] = [is |-> e[d], of |-> k, at |-> d]
      OBVIOUS
    <3>1. d \in 1..left
      BY <1>1, <1>4
    <3>2. b[d] \in GattByte /\ b[d].is = e[d] /\ b[d].of = k /\ b[d].at = d
      BY <1>1, <1>8, <3>1
    <3> QED
      BY <3>2 DEF GattByte
  <2> HIDE DEF g
  <2>4. g \in Seq(GattByte) /\ Len(g) = Size(x) /\ \A d \in 1..Size(x) : g[d] = b[d]
    <3>1. \A d \in 1..Size(x) : [is |-> e[d], of |-> k, at |-> d] \in GattByte
      <4> SUFFICES ASSUME NEW d \in 1..Size(x) PROVE b[d] \in GattByte
        BY <2>3
      <4>1. d \in 1..left
        BY <1>1, <1>4
      <4> QED
        BY <1>1, <4>1
    <3>2. \A d \in 1..Size(x) : g[d] = [is |-> e[d], of |-> k, at |-> d]
      BY <2>2
    <3>3. g = [d \in 1..Size(x) |-> [is |-> e[d], of |-> k, at |-> d]]
      BY <2>2
    <3>4. g \in [1..Size(x) -> GattByte]
      BY <3>1, <3>3
    <3>5. g \in Seq(GattByte) /\ Len(g) = Size(x)
      BY <1>4, <3>4
    <3> QED
      BY <2>3, <3>2, <3>5
  <2> HIDE DEF f
  <2>5. f = g
    BY <1>4, <2>1, <2>4, SeqEqual
  <2>6. 1 \in 1..Size(x) /\ 1 <= left
    BY <1>1, <1>4, <1>7
  <2> QED
    BY <1>8, <2>5, <2>6 DEF f, g
<1> QED
  BY <1>4, <1>5, <1>6, <1>9, <1>10, <1>11, <1>12 DEF p, b, k, x, e

\* All that a turn of the frame parser can return when it starts between two items.
ExactAt(s, n, i, r) ==
    \A d \in Nat : Counted(d, s, n - i, written) /\ Aligned(s, n - i) => Result(d, s, n, r)

\* One turn of the frame parser, if the turns after it do what they owe.
LEMMA FrameExactStep ==
    ASSUME TypeOK, ServerInv, Gatt, NEW s \in Seq(GattByte), Streams(s, written),
           NEW n, NEW buf, Reads(buf, s, n), NEW left \in 0..n, NEW turn,
           \A i \in 0..(left - 1) : FrameTyped(buf, i, turn[i]) /\ ExactAt(s, n, i, turn[i])
    PROVE  ExactAt(s, n, left, FrameStep(turn, left, buf))
<1> SUFFICES ASSUME NEW c \in Nat, Counted(c, s, n - left, written), Aligned(s, n - left)
             PROVE  Result(c, s, n, FrameStep(turn, left, buf))
  BY DEF ExactAt
<1> DEFINE b     == Suffix(buf, left)
           h     == HeaderSize(b)
           z     == PayloadSize(b)
           total == h + z
           after == left - total
           next  == IF More(after) THEN turn[after] ELSE Stops(Suffix(buf, after))
           frame == [notifies |-> NotifiesAt(b), characteristic |-> b[2].is,
                     bytes |-> SubSeq(b, 1, total)]
           step  == FrameStep(turn, left, buf)
           p     == n - left
<1>1. /\ buf \in Seq(GattByte) /\ Len(buf) = n /\ n \in Nat /\ n <= Len(s) /\ p \in Nat /\ Len(s) \in Nat
      /\ b \in Seq(GattByte) /\ Len(b) = left /\ left \in Nat /\ left <= n
  BY ReadsFacts
<1>2. h \in {3, 4}
  BY <1>1, HeaderFacts
<1>3. step = IF left < h THEN Stops(b)
             ELSE IF TooLarge(z) THEN [found |-> <<>>, rest |-> <<>>, raised |-> TRUE]
             ELSE IF left < total THEN Stops(b)
             ELSE [found  |-> IF next.raised THEN <<>> ELSE <<frame>> \o next.found,
                   rest   |-> next.rest, raised |-> next.raised]
  BY DEF FrameStep
<1>4. ASSUME NEW l \in 0..n, NEW d \in Nat, Aligned(s, n - l), Counted(d, s, n - l, written),
             l > 0 => l < Size(written[s[n - l + 1].of])
      PROVE  Result(d, s, n, Stops(Suffix(buf, l)))
  <2>1. l \in 0..Len(buf)
    BY <1>1
  <2> QED
    BY <1>1, <1>4, <2>1, ResultNone DEF Stops
<1> HIDE DEF step, h, z
<1>5. CASE left = 0
  <2>1. left < h
    BY <1>2, <1>5
  <2>2. Result(c, s, n, Stops(b))
    BY <1>4, <1>5
  <2> QED
    BY <1>3, <2>1, <2>2 DEF step
<1>6. CASE left # 0
  <2> DEFINE k == s[p + 1].of
             x == written[k]
  <2>0. left \in 1..n
    BY <1>1, <1>6
  <2>1. /\ k \in 1..Len(written) /\ x.kind \in {"response", "notification"}
        /\ NotifiesAt(b) <=> x.kind = "notification"
        /\ h = HeaderOf(x)
        /\ left >= h => z = x.payload.size
        /\ x.payload.size \in Nat /\ Size(x) = HeaderOf(x) + x.payload.size
        /\ left >= Size(x) => SubSeq(b, 1, Size(x)) = Bytes(x, k) /\ b[1].of = k
    <3> HIDE DEF b, p
    <3> QED
      BY <2>0, FrameAt DEF b, h, z, p
  <2>2. /\ Aligned(s, p + Size(x))
        /\ \A y \in 1..Len(written) : Before(y, s, p) <=> y < k
        /\ \A y \in 1..Len(written) : Before(y, s, p + Size(x)) <=> y <= k
    <3>1. p < Len(s) /\ s[p + 1].at = 1
      <4>1. p < Len(s)
        BY <1>1, <2>0
      <4> QED
        BY <4>1 DEF Aligned
    <3>2. Len(written) \in Nat /\ Sized(written)
      BY WrittenItems, WrittenSized
    <3> HIDE DEF p
    <3>3. LET a == s[p + 1].at
              t == Size(written[k]) - a + 1
          IN  /\ Aligned(s, p + t)
              /\ \A y \in 1..Len(written) : Before(y, s, p) <=> y < k
              /\ \A y \in 1..Len(written) : Before(y, s, p + t) <=> y <= k
      BY <1>1, <3>1, <3>2, StreamItem
    <3>4. Size(x) - 1 + 1 = Size(x)
      BY <2>1 DEF HeaderOf
    <3> QED
      BY <3>1, <3>3, <3>4
  <2>3. /\ c + 1 \in 1..Len(Carried) /\ Carried[c + 1] = k
        /\ Counted(c + 1, s, p + Size(x), written)
    <3>1. x.kind # "blank" /\ Carried = CarriedOf(written)
      BY <2>1 DEF Carried, CarriedOf
    <3>2. PICK I : written \in Seq(I)
      BY Zenon DEF TypeOK
    <3> DEFINE q == p + Size(x)
    <3>3. \A y \in 1..Len(written) : Before(y, s, q) <=> y <= k
      BY <2>2
    <3>4. /\ k \in 1..Len(written) /\ x.kind # "blank" /\ Counted(c, s, p, written)
          /\ \A y \in 1..Len(written) : Before(y, s, p) <=> y < k
      BY <2>1, <2>2, <3>1
    <3> HIDE DEF p, q, k
    <3>5. c + 1 \in 1..Len(CarriedOf(written)) /\ CarriedOf(written)[c + 1] = k
          /\ Counted(c + 1, s, q, written)
      BY <3>2, <3>3, <3>4, CountStep
    <3> QED
      BY <3>1, <3>5 DEF q
  <2>4. Good(x) <=> ~TooLarge(x.payload.size)
    BY <2>1, PayloadAssumption DEF Good, TooLarge
  <2> HIDE DEF k
  <2>5. CASE left < h
    <3>1. left < Size(x)
      BY <1>1, <1>2, <2>1, <2>5
    <3>2. Result(c, s, n, Stops(b))
      BY <1>4, <3>1 DEF k
    <3> QED
      BY <1>3, <2>5, <3>2 DEF step
  <2>6. CASE ~(left < h) /\ TooLarge(z)
    <3>1. left >= h
      BY <1>1, <1>2, <2>6
    <3>2. ~Good(written[Carried[c + 1]])
      BY <2>1, <2>3, <2>4, <2>6, <3>1
    <3>3. step = [found |-> <<>>, rest |-> <<>>, raised |-> TRUE]
      BY <1>3, <2>6
    <3>4. c + 1 \in (c + 1)..Len(Carried)
      BY <2>3
    <3>5. Result(c, s, n, step)
      BY <3>2, <3>3, <3>4 DEF Result
    <3> QED
      BY <3>5 DEF step
  <2>7. CASE ~(left < h) /\ ~TooLarge(z) /\ left < total
    <3>1. left < Size(x)
      BY <1>1, <1>2, <2>1, <2>7
    <3>2. Result(c, s, n, Stops(b))
      BY <1>4, <3>1 DEF k
    <3> QED
      BY <1>3, <2>7, <3>2 DEF step
  <2>8. CASE ~(left < h) /\ ~TooLarge(z) /\ ~(left < total)
    <3>1. left >= h /\ z = x.payload.size /\ total = Size(x) /\ left >= Size(x) /\ Size(x) >= 3
      BY <1>1, <1>2, <2>1, <2>8
    <3>2. after \in 0..(left - 1) /\ after \in 0..n /\ n - after = p + Size(x)
      <4>1. after = left - Size(x) /\ Size(x) \in Nat /\ p = n - left
        BY <2>1, <3>1 DEF HeaderOf
      <4>2. left \in Nat /\ n \in Nat /\ left <= n /\ Size(x) >= 3 /\ left >= Size(x)
        BY <1>1, <3>1
      <4> DEFINE v == Size(x)
      <4> HIDE DEF after, total, p, v
      <4>3. after = left - v /\ v \in Nat /\ p = n - left /\ v >= 3 /\ left >= v
        BY <4>1, <4>2 DEF v
      <4>4. after \in 0..(left - 1) /\ after \in 0..n /\ n - after = p + v
        BY <4>2, <4>3
      <4> QED
        BY <4>4 DEF v
    <3> HIDE DEF total, after, p
    <3>3. Counted(c + 1, s, n - after, written) /\ Aligned(s, n - after) /\ c + 1 \in Nat
      BY <2>2, <2>3, <3>2
    <3>4. Result(c + 1, s, n, next) /\ next.raised \in BOOLEAN /\ next.found \in Seq(FoundFrames(buf))
      <4>1. CASE More(after)
        BY <3>2, <3>3, <4>1 DEF ExactAt, FrameTyped
      <4>2. CASE ~More(after)
        <5>1. ~(after > 0)
          BY <3>2, <4>2 DEF More
        <5>2. Result(c + 1, s, n, Stops(Suffix(buf, after)))
          BY <1>4, <3>2, <3>3, <5>1
        <5>3. <<>> \in Seq(FoundFrames(buf))
          OBVIOUS
        <5> QED
          BY <4>2, <5>2, <5>3 DEF Stops
      <4> QED
        BY <4>1, <4>2
    <3>5. Right(frame, Carried[c + 1])
      <4>1. frame.bytes = Bytes(x, k) /\ frame.bytes[1].of = k
        <5>1. frame.bytes[1] = b[1]
          <6>1. total \in Nat /\ 1 <= total /\ total <= Len(b)
            BY <1>1, <2>1, <3>1 DEF HeaderOf
          <6> HIDE DEF b
          <6> QED
            BY <1>1, <6>1
        <5> QED
          BY <2>1, <3>1, <5>1
      <4>2. Content(k) = Bytes(x, k)
        BY <2>1 DEF Content
      <4>3. Identify(frame) = [id |-> k, whole |-> TRUE]
        BY <4>1, <4>2 DEF Identify
      <4>4. Good(x) /\ (frame.notifies <=> x.kind = "notification")
        BY <2>1, <2>4, <2>8, <3>1
      <4> HIDE DEF frame
      <4> QED
        BY <2>3, <4>3, <4>4 DEF Right
    <3> DEFINE F == FoundFrames(buf) \cup {frame}
    <3>6. frame \in F /\ next.found \in Seq(F)
      <4>1. FoundFrames(buf) \subseteq F /\ frame \in F
        OBVIOUS
      <4> HIDE DEF F, next
      <4> QED
        BY <3>4, <4>1, SeqMonotonic
    <3> HIDE DEF frame, next
    <3>7. step = [found  |-> IF next.raised THEN <<>> ELSE <<frame>> \o next.found,
                  rest   |-> next.rest, raised |-> next.raised]
      BY <1>3, <2>8
    <3>8. step.raised = next.raised /\ step.rest = next.rest
          /\ step.found = IF next.raised THEN <<>> ELSE <<frame>> \o next.found
      BY <3>7
    <3> HIDE DEF F
    <3>9. Result(c, s, n, step)
      BY <3>4, <3>5, <3>6, <3>8, ResultMore
    <3> QED
      BY <3>9 DEF step
  <2> QED
    BY <2>5, <2>6, <2>7, <2>8
<1> QED
  BY <1>5, <1>6

\* GattFrameParser.feed, between two items, returns them whole and in their order,
\* up to one that is too large and raises.
LEMMA FramesExact ==
    ASSUME TypeOK, ServerInv, Gatt, NEW s \in Seq(GattByte), Streams(s, written),
           NEW n, NEW buf, Reads(buf, s, n),
           NEW c \in Nat, Counted(c, s, 0, written), Aligned(s, 0)
    PROVE  Result(c, s, n, FeedFrames(buf))
<1>1. buf \in Seq(GattByte) /\ Len(buf) = n /\ n \in Nat
  <2>1. n \in Nat /\ 0 \in 0..n
    BY DEF Reads
  <2> QED
    BY <2>1, ReadsFacts
<1>2. PICK turn : FrameTurns(turn, n, buf) /\ FeedFrames(buf) = turn[n]
  BY <1>1, FeedFramesTurns
<1>3. \A left \in 0..n : turn[left] = FrameStep(turn, left, buf)
  BY <1>2 DEF FrameTurns
<1> DEFINE T == {m \in Nat : m <= n => FrameTyped(buf, m, turn[m]) /\ ExactAt(s, n, m, turn[m])}
<1>4. ASSUME NEW m \in Nat, \A i \in 0..(m - 1) : i \in T PROVE m \in T
  <2> SUFFICES ASSUME m <= n PROVE FrameTyped(buf, m, turn[m]) /\ ExactAt(s, n, m, turn[m])
    OBVIOUS
  <2>1. m \in 0..n /\ m \in 0..Len(buf)
        /\ \A i \in 0..(m - 1) : FrameTyped(buf, i, turn[i]) /\ ExactAt(s, n, i, turn[i])
    BY <1>1, <1>4
  <2>2. FrameTyped(buf, m, turn[m])
    BY <1>1, <1>3, <2>1, FrameTypedStep
  <2>3. ExactAt(s, n, m, turn[m])
    <3> HIDE DEF T
    <3> QED
      BY <1>3, <2>1, FrameExactStep
  <2> QED
    BY <2>2, <2>3
<1>5. T = Nat
  <2> HIDE DEF T
  <2>1. T \in SUBSET Nat
    BY DEF T
  <2> QED
    BY <1>4, <2>1, StrongInduction
<1>6. n \in T /\ n - n = 0
  BY <1>1, <1>5
<1> QED
  BY <1>1, <1>2, <1>6 DEF ExactAt

-----------------------------------------------------------------------------
(* LineParser.feed.                                                         *)

\* One turn of its loop.
LineStep(turn, left, buf) ==
    LET b     == Suffix(buf, left)
        raw   == Stripped(SubSeq(b, 1, Newline(b) - 1))
        after == left - Newline(b)
        next  == turn[after]
        lines == IF raw = <<>> THEN <<>> ELSE <<[bytes |-> raw]>>
    IN  IF Overlong(b) THEN [found |-> <<>>, rest |-> <<>>, raised |-> TRUE]
        ELSE IF Newlines(b) = {} THEN [found |-> <<>>, rest |-> b, raised |-> FALSE]
        ELSE IF ~IsText(raw) THEN [found |-> <<>>, rest |-> Suffix(buf, after), raised |-> TRUE]
        ELSE [found  |-> IF next.raised THEN <<>> ELSE lines \o next.found,
              rest   |-> next.rest, raised |-> next.raised]

LineTurns(turn, n, buf) == turn = [left \in 0..n |-> LineStep(turn, left, buf)]

\* The first newline.
LEMMA NewlineFacts ==
    ASSUME NEW b \in Seq(LineByte)
    PROVE  /\ Newlines(b) # {} => Newline(b) \in 1..Len(b)
           /\ \A t \in 1..Len(b) : b[t].is = "newline" /\ (\A d \in 1..(t - 1) : b[d].is # "newline")
                  => Newlines(b) # {} /\ Newline(b) = t
<1> DEFINE N == Newlines(b)
<1>1. N \in SUBSET Nat /\ N \subseteq 1..Len(b) /\ \A i \in 1..Len(b) : i \in N <=> b[i].is = "newline"
  BY DEF Newlines
<1>2. Newline(b) = CHOOSE i \in N : \A j \in N : i <= j
  BY DEF Newline
<1> HIDE DEF N
<1>3. ASSUME N # {} PROVE Newline(b) \in 1..Len(b)
  <2>1. PICK n \in N : \A m \in N : ~ (m < n)
    BY <1>1, <1>3, LeastNumber
  <2>2. \A j \in N : n <= j
    BY <1>1, <2>1
  <2>3. Newline(b) \in N
    BY <1>2, <2>2
  <2> QED
    BY <1>1, <2>3
<1>4. ASSUME NEW t \in 1..Len(b), b[t].is = "newline", \A d \in 1..(t - 1) : b[d].is # "newline"
      PROVE  N # {} /\ Newline(b) = t
  <2>1. t \in N
    BY <1>1, <1>4
  <2>2. \A j \in N : t <= j
    BY <1>1, <1>4
  <2>3. \A i \in N : (\A j \in N : i <= j) => i = t
    BY <1>1, <2>1, <2>2
  <2> QED
    BY <1>2, <2>1, <2>2, <2>3
<1> QED
  BY <1>3, <1>4 DEF N

\* A turn depends on the turns with fewer bytes left only.
LEMMA LineStepLocal ==
    ASSUME NEW buf \in Seq(LineByte), NEW left \in 0..Len(buf), NEW f, NEW g,
           \A i \in 0..(left - 1) : f[i] = g[i]
    PROVE  LineStep(f, left, buf) = LineStep(g, left, buf)
<1> DEFINE b == Suffix(buf, left)
<1>1. b \in Seq(LineByte) /\ Len(b) = left /\ left \in Nat
  BY SuffixFacts
<1>2. Newlines(b) # {} => f[left - Newline(b)] = g[left - Newline(b)]
  <2> SUFFICES ASSUME Newlines(b) # {} PROVE f[left - Newline(b)] = g[left - Newline(b)]
    OBVIOUS
  <2> HIDE DEF b
  <2>1. Newline(b) \in 1..left
    BY <1>1, NewlineFacts
  <2>2. left - Newline(b) \in 0..(left - 1)
    BY <1>1, <2>1
  <2> QED
    BY <2>2
<1>3. CASE Newlines(b) = {}
  BY <1>3, Zenon DEF LineStep
<1>4. CASE Newlines(b) # {}
  BY <1>2, <1>4, Zenon DEF LineStep
<1> QED
  BY <1>3, <1>4, Zenon

\* So there is a function of the bytes left whose values are these turns.
LEMMA LinesExist ==
    ASSUME NEW buf \in Seq(LineByte)
    PROVE  \A n \in Nat : n <= Len(buf) => \E f : LineTurns(f, n, buf)
<1> DEFINE T == {n \in Nat : n <= Len(buf) => \E f : LineTurns(f, n, buf)}
<1>1. ASSUME NEW n \in Nat, \A m \in 0..(n - 1) : m \in T PROVE n \in T
  <2> SUFFICES ASSUME n <= Len(buf) PROVE \E f : LineTurns(f, n, buf)
    OBVIOUS
  <2>1. \E f : \A i \in 0..(n - 1) : f[i] = LineStep(f, i, buf)
    <3>1. CASE n = 0
      BY <3>1
    <3>2. CASE n # 0
      <4>1. n - 1 \in 0..(n - 1) /\ n - 1 <= Len(buf)
        BY <3>2
      <4>2. PICK f : LineTurns(f, n - 1, buf)
        BY <1>1, <4>1
      <4> QED
        BY <4>2 DEF LineTurns
    <3> QED
      BY <3>1, <3>2
  <2>2. PICK f : \A i \in 0..(n - 1) : f[i] = LineStep(f, i, buf)
    BY <2>1
  <2> HIDE DEF T
  <2> DEFINE g == [i \in 0..n |-> LineStep(f, i, buf)]
             h == [i \in 0..n |-> LineStep(g, i, buf)]
  <2>3. \A i \in 0..(n - 1) : g[i] = f[i]
    BY <2>2
  <2>4. \A i \in 0..n : LineStep(g, i, buf) = LineStep(f, i, buf)
    <3> SUFFICES ASSUME NEW i \in 0..n PROVE LineStep(g, i, buf) = LineStep(f, i, buf)
      OBVIOUS
    <3>1. i \in 0..Len(buf) /\ \A j \in 0..(i - 1) : g[j] = f[j]
      BY <2>3
    <3> HIDE DEF g
    <3> QED
      BY <3>1, LineStepLocal
  <2>5. h = g
    BY <2>4
  <2>6. LineTurns(g, n, buf)
    BY <2>5 DEF LineTurns
  <2> QED
    BY <2>6
<1>2. T = Nat
  <2> HIDE DEF T
  <2>1. T \in SUBSET Nat
    BY DEF T
  <2> QED
    BY <1>1, <2>1, StrongInduction
<1> QED
  BY <1>2

\* feed is the last of these turns.
LEMMA FeedLinesTurns ==
    ASSUME NEW buf \in Seq(LineByte)
    PROVE  \E turn : LineTurns(turn, Len(buf), buf) /\ FeedLines(buf) = turn[Len(buf)]
<1> DEFINE Last(left) == SubSeq(buf, Len(buf) - left + 1, Len(buf))
           turn[left \in 0..Len(buf)] ==
              LET b     == Last(left)
                  raw   == Stripped(SubSeq(b, 1, Newline(b) - 1))
                  after == left - Newline(b)
                  next  == turn[after]
                  lines == IF raw = <<>> THEN <<>> ELSE <<[bytes |-> raw]>>
              IN  IF Overlong(b) THEN [found |-> <<>>, rest |-> <<>>, raised |-> TRUE]
                  ELSE IF Newlines(b) = {} THEN [found |-> <<>>, rest |-> b, raised |-> FALSE]
                  ELSE IF ~IsText(raw) THEN [found |-> <<>>, rest |-> Last(after), raised |-> TRUE]
                  ELSE [found  |-> IF next.raised THEN <<>> ELSE lines \o next.found,
                        rest   |-> next.rest, raised |-> next.raised]
<1>1. \E f : LineTurns(f, Len(buf), buf)
  <2>1. Len(buf) \in Nat /\ Len(buf) <= Len(buf)
    OBVIOUS
  <2> QED
    BY <2>1, LinesExist
<1>2. LineTurns(turn, Len(buf), buf)
  BY <1>1, Zenon DEF LineTurns, LineStep, Suffix
<1>3. FeedLines(buf) = turn[Len(buf)]
  BY Zenon DEF FeedLines
<1> QED
  BY <1>2, <1>3

-----------------------------------------------------------------------------
(* What a turn returns of any bytes.                                        *)

FoundLines(buf) == [bytes : Starts(LineByte, buf)]

LineTyped(buf, left, r) ==
    /\ r.raised \in BOOLEAN /\ r.found \in Seq(FoundLines(buf))
    /\ Len(r.rest) \in 0..left /\ r.rest = Suffix(buf, Len(r.rest))
    /\ r.raised => r.found = <<>>
    /\ ~r.raised => Len(r.rest) <= MaxLine

\* Without the carriage return at its end.
LEMMA StrippedFacts ==
    ASSUME NEW raw \in Seq(LineByte)
    PROVE  LET t == Stripped(raw)
               n == Len(raw)
           IN  /\ t \in Seq(LineByte) /\ Len(t) \in {n, n - 1} /\ Len(t) \in Nat
               /\ \A i \in 1..Len(t) : t[i] = raw[i] /\ i \in 1..n
               /\ IsText(t) <=> IsText(raw)
               /\ t = <<>> <=> n = 0 \/ (n = 1 /\ raw[1].is = "cr")
<1> DEFINE n == Len(raw)
           u == SubSeq(raw, 1, n - 1)
<1>1. n \in Nat /\ (raw = <<>> <=> n = 0)
  OBVIOUS
<1>2. CASE n # 0 /\ raw[n].is = "cr"
  <2>1. Stripped(raw) = u
    BY <1>1, <1>2 DEF Stripped
  <2>2. u \in Seq(LineByte) /\ Len(u) = n - 1 /\ \A i \in 1..(n - 1) : u[i] = raw[i]
    BY <1>1, <1>2
  <2>3. IsText(u) <=> IsText(raw)
    <3>1. DOMAIN raw = 1..n /\ DOMAIN u = 1..(n - 1)
      BY <2>2
    <3>2. \A i \in 1..n : i \in 1..(n - 1) \/ i = n
      BY <1>1
    <3>3. \A i \in 1..(n - 1) : i \in 1..n
      BY <1>1
    <3> QED
      BY <1>2, <2>2, <3>1, <3>2, <3>3 DEF IsText
  <2> HIDE DEF u, n
  <2>4. u = <<>> <=> n = 1
    <3>1. u = <<>> <=> Len(u) = 0
      BY <2>2, EmptySeq
    <3> QED
      BY <1>1, <1>2, <2>2, <3>1
  <2> USE DEF n
  <2>5. n - 1 \in Nat /\ \A i \in 1..(n - 1) : i \in 1..n
    BY <1>1, <1>2
  <2>6. u = <<>> <=> n = 0 \/ (n = 1 /\ raw[1].is = "cr")
    BY <1>2, <2>4
  <2> QED
    BY <2>1, <2>2, <2>3, <2>5, <2>6
<1>3. CASE ~(n # 0 /\ raw[n].is = "cr")
  <2>1. Stripped(raw) = raw
    BY <1>1, <1>3 DEF Stripped
  <2>2. raw = <<>> <=> n = 0 \/ (n = 1 /\ raw[1].is = "cr")
    BY <1>1, <1>3
  <2>3. \A i \in 1..n : i \in 1..n
    OBVIOUS
  <2> QED
    BY <1>1, <2>1, <2>2, <2>3
<1> QED
  BY <1>2, <1>3

\* One turn, if the turns after it return what they may.
LEMMA LineTypedStep ==
    ASSUME NEW buf \in Seq(LineByte), NEW left \in 0..Len(buf), NEW turn,
           \A i \in 0..(left - 1) : LineTyped(buf, i, turn[i])
    PROVE  LineTyped(buf, left, LineStep(turn, left, buf))
<1> DEFINE b     == Suffix(buf, left)
<1>1. /\ b \in Seq(LineByte) /\ Len(b) = left /\ left \in Nat /\ Len(buf) \in Nat
      /\ \A i \in 1..left : b[i] = buf[Len(buf) - left + i]
  <2>1. Len(buf) \in Nat /\ left \in Nat
    OBVIOUS
  <2>2. /\ b \in Seq(LineByte) /\ Len(b) = left
        /\ \A i \in 1..left : b[i] = buf[Len(buf) - left + i]
    BY SuffixFacts
  <2> QED
    BY <2>1, <2>2
<1> DEFINE nl    == Newline(b)
           raw   == Stripped(SubSeq(b, 1, nl - 1))
           after == left - nl
           next  == turn[after]
           line  == [bytes |-> raw]
           lines == IF raw = <<>> THEN <<>> ELSE <<line>>
           step  == LineStep(turn, left, buf)
<1>2. step = IF Overlong(b) THEN [found |-> <<>>, rest |-> <<>>, raised |-> TRUE]
             ELSE IF Newlines(b) = {} THEN [found |-> <<>>, rest |-> b, raised |-> FALSE]
             ELSE IF ~IsText(raw) THEN [found |-> <<>>, rest |-> Suffix(buf, after), raised |-> TRUE]
             ELSE [found  |-> IF next.raised THEN <<>> ELSE lines \o next.found,
                   rest   |-> next.rest, raised |-> next.raised]
  BY DEF LineStep
<1>3. <<>> \in Seq(FoundLines(buf)) /\ Suffix(buf, 0) = <<>> /\ 0 \in 0..left /\ Len(<<>>) = 0
  BY <1>1 DEF Suffix
<1> HIDE DEF step, b
<1>4. CASE Overlong(b)
  <2>1. step = [found |-> <<>>, rest |-> <<>>, raised |-> TRUE]
    BY <1>2, <1>4
  <2>2. LineTyped(buf, left, step)
    BY <1>3, <2>1 DEF LineTyped
  <2> QED
    BY <2>2 DEF step
<1>5. CASE ~Overlong(b) /\ Newlines(b) = {}
  <2>1. step = [found |-> <<>>, rest |-> b, raised |-> FALSE]
    BY <1>2, <1>5
  <2>2. left <= MaxLine
    BY <1>1, <1>5 DEF Overlong, Fits
  <2>3. LineTyped(buf, left, step)
    BY <1>1, <1>3, <2>1, <2>2 DEF LineTyped, b
  <2> QED
    BY <2>3 DEF step
<1>6. CASE ~Overlong(b) /\ Newlines(b) # {}
  <2>1. nl \in 1..left
    BY <1>1, <1>6, NewlineFacts
  <2> HIDE DEF nl
  <2>2. after \in 0..(left - 1) /\ after \in 0..left /\ after \in 0..Len(buf)
    BY <1>1, <2>1
  <2> HIDE DEF after
  <2>3. CASE ~IsText(raw)
    <3>1. step = [found |-> <<>>, rest |-> Suffix(buf, after), raised |-> TRUE]
      BY <1>2, <1>6, <2>3
    <3>2. Len(Suffix(buf, after)) = after
      BY <2>2, SuffixFacts
    <3>3. LineTyped(buf, left, step)
      BY <1>3, <2>2, <3>1, <3>2 DEF LineTyped
    <3> QED
      BY <3>3 DEF step
  <2>4. CASE IsText(raw)
    <3>1. LineTyped(buf, after, next)
      BY <2>2
    <3>2. lines \in Seq(FoundLines(buf))
      <4>1. CASE raw = <<>>
        BY <1>3, <4>1
      <4>2. CASE raw # <<>>
        <5> DEFINE r == SubSeq(b, 1, nl - 1)
        <5>1. r \in Seq(LineByte) /\ Len(r) = nl - 1 /\ Len(r) \in Nat /\ \A i \in 1..(nl - 1) : r[i] = b[i]
          BY <1>1, <2>1
        <5> HIDE DEF r
        <5>2. /\ raw \in Seq(LineByte) /\ Len(raw) \in Nat
              /\ \A i \in 1..Len(raw) : raw[i] = r[i] /\ i \in 1..Len(r)
          BY <5>1, StrippedFacts DEF r
        <5> HIDE DEF raw
        <5>3. Len(raw) >= 1
          BY <4>2, <5>2
        <5>4. 1 \in 1..Len(raw) /\ 1 \in 1..(nl - 1) /\ 1 \in 1..left
          BY <1>1, <2>1, <5>1, <5>2, <5>3
        <5>5. raw[1] = buf[Len(buf) - left + 1] /\ Len(buf) - left + 1 \in 1..Len(buf)
          BY <1>1, <5>1, <5>2, <5>4
        <5>6. raw \in Starts(LineByte, buf)
          BY <5>2, <5>3, <5>5 DEF Starts
        <5>7. line \in FoundLines(buf)
          BY <5>6 DEF FoundLines
        <5>8. lines = <<line>>
          BY <4>2
        <5> HIDE DEF line, lines
        <5> QED
          BY <5>7, <5>8
      <4> QED
        BY <4>1, <4>2
    <3> HIDE DEF lines
    <3>3. lines \o next.found \in Seq(FoundLines(buf))
      <4>1. next.found \in Seq(FoundLines(buf))
        BY <3>1 DEF LineTyped
      <4> QED
        BY <3>2, <4>1, ConcatProperties
    <3> HIDE DEF next
    <3>4. step = [found  |-> IF next.raised THEN <<>> ELSE lines \o next.found,
                  rest   |-> next.rest, raised |-> next.raised]
      BY <1>2, <1>6, <2>4
    <3>5. step.raised = next.raised /\ step.rest = next.rest
          /\ step.found = IF next.raised THEN <<>> ELSE lines \o next.found
      BY <3>4
    <3>6. Len(next.rest) \in 0..left
      BY <1>1, <2>2, <3>1 DEF LineTyped
    <3>7. LineTyped(buf, left, step)
      BY <1>3, <3>1, <3>3, <3>5, <3>6 DEF LineTyped
    <3> QED
      BY <3>7 DEF step
  <2> QED
    BY <2>3, <2>4
<1> QED
  BY <1>4, <1>5, <1>6

\* feed returns lines that were cut out of its bytes, and no more than a line may
\* have is left over, whatever the bytes are.
LEMMA LinesTyped ==
    ASSUME NEW buf \in Seq(LineByte)
    PROVE  LineTyped(buf, Len(buf), FeedLines(buf))
<1>1. PICK turn : LineTurns(turn, Len(buf), buf) /\ FeedLines(buf) = turn[Len(buf)]
  BY FeedLinesTurns
<1>2. \A left \in 0..Len(buf) : turn[left] = LineStep(turn, left, buf)
  BY <1>1 DEF LineTurns
<1> DEFINE T == {n \in Nat : n <= Len(buf) => LineTyped(buf, n, turn[n])}
<1>3. ASSUME NEW n \in Nat, \A m \in 0..(n - 1) : m \in T PROVE n \in T
  <2> SUFFICES ASSUME n <= Len(buf) PROVE LineTyped(buf, n, turn[n])
    OBVIOUS
  <2>1. n \in 0..Len(buf) /\ \A m \in 0..(n - 1) : LineTyped(buf, m, turn[m])
    BY <1>3
  <2> QED
    BY <1>2, <2>1, LineTypedStep
<1>4. T = Nat
  <2> HIDE DEF T
  <2>1. T \in SUBSET Nat
    BY DEF T
  <2> QED
    BY <1>3, <2>1, StrongInduction
<1>5. Len(buf) \in T
  BY <1>4
<1> QED
  BY <1>1, <1>5

\* What a turn of the line parser makes of the bytes of an item, from anywhere in it.
LineOf(b) == Stripped(SubSeq(b, 1, Newline(b) - 1))

\* The first newline is the one that ends the item, and between two items the line
\* is the text of that item.
LEMMA LineAt ==
    ASSUME TypeOK, ServerInv, ~Gatt, NEW s \in Seq(LineByte), Streams(s, written),
           NEW n, NEW buf, Reads(buf, s, n), NEW left \in 1..n
    PROVE  LET b == Suffix(buf, left)
               k == s[(n - left) + 1].of
               t == Size(written[k]) - s[(n - left) + 1].at + 1
               x == written[k]
           IN  /\ k \in 1..Len(written) /\ x.kind \in {"line", "blank"} /\ t \in Nat /\ t >= 1
               /\ left < t => Newlines(b) = {}
               /\ left >= t => Newlines(b) # {} /\ Newline(b) = t
                               /\ (LineOf(b) # <<>> => LineOf(b)[1].of = k /\ x.kind = "line")
               /\ Aligned(s, n - left) =>
                     /\ t = Size(x)
                     /\ x.kind = "blank" =>
                           ~Overlong(b) /\ (left >= t => LineOf(b) = <<>> /\ IsText(LineOf(b)))
                     /\ x.kind = "line" /\ Good(x) =>
                           ~Overlong(b) /\ (left >= t => IsText(LineOf(b)))
                     /\ x.kind = "line" /\ left >= t =>
                           /\ LineOf(b) = Content(k) /\ LineOf(b) # <<>>
                           /\ ~Overlong(b) /\ IsText(LineOf(b)) => Good(x)
<1> DEFINE p == n - left
           b == Suffix(buf, left)
           k == s[p + 1].of
           a == s[p + 1].at
           x == written[k]
           e == Encoded(x)
           z == Size(x)
           t == z - a + 1
<1>1. /\ b \in Seq(LineByte) /\ Len(b) = left /\ p \in Nat /\ p < Len(s) /\ left \in Nat /\ left >= 1
      /\ \A i \in 1..left : b[i] = s[p + i] /\ s[p + i] \in LineByte
  <2>1. left \in 0..n
    OBVIOUS
  <2>2. /\ Len(b) = left /\ p \in Nat /\ n <= Len(s) /\ n \in Nat
        /\ \A i \in 1..left : b[i] = s[p + i] /\ s[p + i] \in LineByte
    <3>1. /\ buf \in Seq(LineByte) /\ Len(buf) = n /\ n \in Nat /\ n <= Len(s) /\ n - left \in Nat
          /\ Suffix(buf, left) \in Seq(LineByte) /\ Len(Suffix(buf, left)) = left
          /\ \A i \in 1..left :
                Suffix(buf, left)[i] = s[(n - left) + i] /\ s[(n - left) + i] \in LineByte
      BY <2>1, ReadsFacts
    <3> QED
      BY <3>1, Zenon
  <2>3. b \in Seq(LineByte)
    BY <2>1, ReadsFacts
  <2>4. p < Len(s) /\ left \in Nat /\ left >= 1
    <3>1. Len(s) \in Nat
      OBVIOUS
    <3> QED
      BY <2>2, <3>1
  <2> QED
    BY <2>2, <2>3, <2>4
<1>2. Len(written) \in Nat /\ Sized(written)
  BY WrittenItems, WrittenSized
<1> HIDE DEF p
<1>3. /\ k \in 1..Len(written) /\ a \in 1..z /\ t \in Nat /\ t >= 1
      /\ \A d \in 1..t : s[p + d].of = k /\ s[p + d].at = a + d - 1 /\ s[p + d].is = e[a + d - 1]
  <2>1. /\ s \in Seq(LineByte) /\ Streams(s, written) /\ Len(written) \in Nat /\ Sized(written)
        /\ p \in Nat /\ p < Len(s)
    BY <1>1, <1>2
  <2>2. LET j == s[p + 1].of
            f == s[p + 1].at
            l == Size(written[j]) - f + 1
        IN  /\ j \in 1..Len(written) /\ f \in 1..Size(written[j]) /\ l \in Nat /\ l >= 1
            /\ \A d \in 1..l : /\ s[p + d].of = j /\ s[p + d].at = f + d - 1
                               /\ s[p + d].is = Encoded(written[j])[f + d - 1]
    BY <2>1, StreamItem
  <2> QED
    BY <2>2, Zenon
<1>4. x.kind \in {"line", "blank"}
  BY <1>3 DEF ServerInv
<1> HIDE DEF b, k, a, x
<1>5. /\ e \in Seq(LineBytes) /\ z \in Nat /\ z >= 2 /\ e[z] = "newline"
      /\ \A i \in 1..(z - 1) : e[i] # "newline"
      /\ x.kind = "blank" => z = 2 /\ e[1] = "cr"
      /\ x.kind = "line" =>
            /\ e[1] # "cr"
            /\ Good(x) <=> z - 1 <= MaxLine /\ \A i \in 1..(z - 1) : e[i] # "binary"
  <2>1. PICK l \in Nat : ItemOf(x, l)
    BY <1>3, WrittenItems DEF x
  <2> QED
    BY <1>4, <2>1, LineItem
<1> HIDE DEF e, z, t
<1>6. t = z - a + 1 /\ a \in Nat /\ a >= 1 /\ a <= z
  BY <1>3 DEF t
<1>7. \A d \in 1..t : d <= left => b[d].of = k /\ b[d].at = a + d - 1 /\ b[d].is = e[a + d - 1]
  <2> SUFFICES ASSUME NEW d \in 1..t, d <= left
               PROVE  b[d].of = k /\ b[d].at = a + d - 1 /\ b[d].is = e[a + d - 1]
    OBVIOUS
  <2>1. d \in 1..left
    BY <1>1, <1>3
  <2> QED
    BY <1>1, <1>3, <2>1
<1>8. \A d \in 1..(t - 1) : d <= left => b[d].is # "newline"
  <2> SUFFICES ASSUME NEW d \in 1..(t - 1), d <= left PROVE b[d].is # "newline"
    OBVIOUS
  <2>1. d \in 1..t /\ a + d - 1 \in 1..(z - 1)
    BY <1>3, <1>5, <1>6
  <2> QED
    BY <1>5, <1>7, <2>1
<1>9. ASSUME left < t PROVE Newlines(b) = {}
  <2>1. \A d \in 1..left : b[d].is # "newline"
    BY <1>1, <1>3, <1>8, <1>9
  <2> QED
    BY <1>1, <2>1 DEF Newlines
<1>10. ASSUME left >= t PROVE Newlines(b) # {} /\ Newline(b) = t
  <2>1. t \in 1..Len(b) /\ t \in 1..t /\ t <= left /\ a + t - 1 = z
    BY <1>1, <1>3, <1>5, <1>6, <1>10
  <2>2. b[t].is = "newline"
    BY <1>5, <1>7, <2>1
  <2>3. \A d \in 1..(t - 1) : b[d].is # "newline"
    <3>1. \A d \in 1..(t - 1) : d <= left
      BY <1>1, <1>3, <1>10
    <3> QED
      BY <1>8, <3>1
  <2> QED
    BY <1>1, <2>1, <2>2, <2>3, NewlineFacts
<1> DEFINE raw == SubSeq(b, 1, t - 1)
           line == LineOf(b)
<1>11. ASSUME left >= t
       PROVE  /\ raw \in Seq(LineByte) /\ Len(raw) = t - 1 /\ t - 1 \in Nat
              /\ \A d \in 1..(t - 1) : raw[d] = b[d] /\ raw[d].of = k /\ raw[d].at = a + d - 1
                                       /\ raw[d].is = e[a + d - 1]
              /\ line = Stripped(raw)
  <2>1. raw \in Seq(LineByte) /\ Len(raw) = t - 1 /\ t - 1 \in Nat /\ \A d \in 1..(t - 1) : raw[d] = b[d]
    BY <1>1, <1>3, <1>11
  <2>2. line = Stripped(raw)
    BY <1>10, <1>11 DEF LineOf
  <2>3. \A d \in 1..(t - 1) : d \in 1..t /\ d <= left
    BY <1>1, <1>3, <1>11
  <2> HIDE DEF raw
  <2> QED
    BY <1>7, <2>1, <2>2, <2>3
<1> HIDE DEF raw, line
<1>12. ASSUME left >= t
       PROVE  /\ line \in Seq(LineByte) /\ Len(line) \in {t - 1, (t - 1) - 1} /\ Len(line) \in Nat
              /\ \A i \in 1..Len(line) : line[i] = raw[i] /\ i \in 1..(t - 1)
              /\ IsText(line) <=> IsText(raw)
              /\ line = <<>> <=> t - 1 = 0 \/ (t - 1 = 1 /\ raw[1].is = "cr")
  <2>1. raw \in Seq(LineByte) /\ Len(raw) = t - 1 /\ line = Stripped(raw)
    BY <1>11, <1>12
  <2> HIDE DEF raw, line, t
  <2>2. LET u == Stripped(raw)
            m == Len(raw)
        IN  /\ u \in Seq(LineByte) /\ Len(u) \in {m, m - 1} /\ Len(u) \in Nat
            /\ \A i \in 1..Len(u) : u[i] = raw[i] /\ i \in 1..m
            /\ IsText(u) <=> IsText(raw)
            /\ u = <<>> <=> m = 0 \/ (m = 1 /\ raw[1].is = "cr")
    BY <2>1, StrippedFacts
  <2> QED
    BY <2>1, <2>2
<1>13. ASSUME left >= t, line # <<>> PROVE line[1].of = k /\ x.kind = "line"
  <2>1. line[1].of = k
    <3>1. Len(line) # 0
      BY <1>12, <1>13, EmptySeq
    <3>2. 1 \in 1..Len(line)
      BY <1>12, <1>13, <3>1
    <3> QED
      BY <1>11, <1>12, <1>13, <3>2
  <2>2. ASSUME x.kind = "blank" PROVE FALSE
    <3>1. z = 2 /\ e[1] = "cr"
      BY <1>5, <2>2
    <3>2. t - 1 = 0 \/ (t - 1 = 1 /\ a = 1)
      BY <1>6, <3>1
    <3>3. CASE t - 1 = 0
      BY <1>12, <1>13, <3>3
    <3>4. CASE t - 1 = 1 /\ a = 1
      <4>1. raw[1].is = e[1]
        BY <1>11, <1>13, <3>4
      <4> QED
        BY <1>12, <1>13, <3>1, <3>4, <4>1
    <3> QED
      BY <3>2, <3>3, <3>4
  <2> QED
    BY <1>4, <2>1, <2>2
<1>14. ASSUME Aligned(s, p)
       PROVE  /\ t = z
              /\ x.kind = "blank" =>
                    ~Overlong(b) /\ (left >= t => line = <<>> /\ IsText(line))
              /\ x.kind = "line" /\ Good(x) => ~Overlong(b) /\ (left >= t => IsText(line))
              /\ x.kind = "line" /\ left >= t =>
                    /\ line = Content(k) /\ line # <<>>
                    /\ ~Overlong(b) /\ IsText(line) => Good(x)
  <2>1. a = 1 /\ t = z
    <3>1. a = 1
      BY <1>1, <1>14 DEF Aligned, a
    <3> QED
      BY <1>5, <1>6, <3>1
  <2>2. MaxLine \in Nat /\ MaxLine >= 1
    BY LineAssumption
  <2>3. Overlong(b) <=> ~(IF left >= t THEN z - 1 <= MaxLine ELSE left <= MaxLine)
    <3>1. CASE left >= t
      BY <1>10, <2>1, <3>1 DEF Overlong, Fits
    <3>2. CASE left < t
      <4>1. Overlong(b) <=> ~(left <= MaxLine)
        BY <1>1, <1>9, <3>2 DEF Overlong, Fits
      <4>2. ~(left >= t)
        BY <1>1, <1>3, <3>2
      <4> QED
        BY <4>1, <4>2
    <3> QED
      BY <1>1, <1>3, <3>1, <3>2
  <2>4. ASSUME left >= t PROVE IsText(line) <=> \A i \in 1..(z - 1) : e[i] # "binary"
    <3>1. DOMAIN raw = 1..(z - 1)
      BY <1>11, <2>1, <2>4
    <3>2. \A i \in 1..(z - 1) : raw[i].is = e[i]
      <4>1. \A i \in 1..(z - 1) : 1 + i - 1 = i
        OBVIOUS
      <4> QED
        BY <1>11, <2>1, <2>4, <4>1
    <3>3. IsText(raw) <=> \A i \in 1..(z - 1) : e[i] # "binary"
      BY <3>1, <3>2 DEF IsText
    <3> QED
      BY <1>12, <2>4, <3>3
  <2>5. ASSUME x.kind = "blank"
        PROVE  ~Overlong(b) /\ (left >= t => line = <<>> /\ IsText(line))
    <3>1. z = 2 /\ e[1] = "cr"
      BY <1>5, <2>5
    <3>2. ~Overlong(b)
      BY <1>1, <2>1, <2>2, <2>3, <3>1
    <3>3. ASSUME left >= t PROVE line = <<>> /\ IsText(line)
      <4>1. t - 1 = 1 /\ raw[1].is = e[1]
        BY <1>11, <2>1, <3>1, <3>3
      <4>2. line = <<>>
        BY <1>12, <3>1, <3>3, <4>1
      <4>3. \A i \in 1..(z - 1) : e[i] # "binary"
        <5>1. \A i \in 1..(z - 1) : i = 1
          BY <3>1
        <5> QED
          BY <3>1, <5>1
      <4> QED
        BY <2>4, <3>3, <4>2, <4>3
    <3> QED
      BY <3>2, <3>3
  <2>6. ASSUME x.kind = "line", Good(x) PROVE ~Overlong(b) /\ (left >= t => IsText(line))
    <3>1. z - 1 <= MaxLine /\ \A i \in 1..(z - 1) : e[i] # "binary"
      BY <1>5, <2>6
    <3>2. ~Overlong(b)
      BY <1>1, <1>5, <2>1, <2>2, <2>3, <3>1
    <3> QED
      BY <2>4, <3>1, <3>2
  <2>7. ASSUME x.kind = "line", left >= t
        PROVE  /\ line = Content(k) /\ line # <<>>
               /\ ~Overlong(b) /\ IsText(line) => Good(x)
    <3>1. ~Overlong(b) /\ IsText(line) => Good(x)
      BY <1>5, <2>3, <2>4, <2>7
    <3>2. line # <<>>
      <4>1. t - 1 # 0 /\ 1 \in 1..(t - 1) /\ 1 + 1 - 1 = 1
        BY <1>5, <2>1
      <4>2. raw[1].is = e[1] /\ e[1] # "cr"
        BY <1>5, <1>11, <2>1, <2>7, <4>1
      <4> QED
        BY <1>12, <2>7, <4>1, <4>2
    <3>3. raw = SubSeq(Bytes(x, k), 1, Len(Bytes(x, k)) - 1)
      <4> DEFINE g == Bytes(x, k)
                 u == SubSeq(g, 1, Len(g) - 1)
      <4>1. g = [i \in 1..z |-> [is |-> e[i], of |-> k, at |-> i]]
        <5>1. DOMAIN e = 1..z
          BY <1>5 DEF z, e, Size
        <5> QED
          BY <5>1 DEF Bytes, e
      <4>2. \A i \in 1..z : g[i] \in LineByte
        <5> SUFFICES ASSUME NEW i \in 1..z PROVE [is |-> e[i], of |-> k, at |-> i] \in LineByte
          BY <4>1
        <5>1. e[i] \in LineBytes /\ k \in Nat /\ i \in Nat
          <6>1. Len(e) = z
            BY DEF z, e, Size
          <6> QED
            BY <1>2, <1>3, <1>5, <6>1
        <5> QED
          BY <5>1 DEF LineByte, LineBytes
      <4>3. g \in Seq(LineByte) /\ Len(g) = z
        <5>1. g \in [1..z -> LineByte]
          BY <4>1, <4>2
        <5> HIDE DEF g
        <5> QED
          BY <1>5, <5>1
      <4>4. \A i \in 1..z : g[i].is = e[i] /\ g[i].of = k /\ g[i].at = i
        BY <4>1
      <4> HIDE DEF g
      <4>5. u \in Seq(LineByte) /\ Len(u) = z - 1 /\ \A i \in 1..(z - 1) : u[i] = g[i]
        BY <1>5, <4>3
      <4>6. \A i \in 1..(z - 1) : raw[i] = u[i]
        <5> SUFFICES ASSUME NEW i \in 1..(z - 1) PROVE raw[i] = u[i]
          OBVIOUS
        <5>1. i \in 1..z /\ 1 + i - 1 = i /\ i \in 1..(t - 1)
          BY <1>5, <2>1
        <5> HIDE DEF u
        <5>2. raw[i].is = e[i] /\ raw[i].of = k /\ raw[i].at = i /\ raw[i] \in LineByte
          BY <1>11, <2>1, <2>7, <5>1
        <5>3. u[i] = g[i] /\ g[i].is = e[i] /\ g[i].of = k /\ g[i].at = i /\ g[i] \in LineByte
          BY <4>2, <4>4, <4>5, <5>1
        <5> DEFINE ri == raw[i]
                   ui == u[i]
        <5>4. ri \in LineByte /\ ui \in LineByte /\ ri.is = ui.is /\ ri.of = ui.of /\ ri.at = ui.at
          BY <5>2, <5>3
        <5> HIDE DEF ri, ui
        <5>5. ri = ui
          BY <5>4 DEF LineByte
        <5> QED
          BY <5>5 DEF ri, ui
      <4> HIDE DEF u
      <4>7. raw = u
        BY <1>5, <1>11, <2>1, <2>7, <4>5, <4>6, SeqEqual
      <4> QED
        BY <4>7 DEF u, g
    <3>4. Content(k) = Stripped(SubSeq(Bytes(x, k), 1, Len(Bytes(x, k)) - 1))
      BY <2>7, Zenon DEF Content, x
    <3> QED
      BY <1>11, <2>7, <3>1, <3>2, <3>3, <3>4
  <2> QED
    BY <2>1, <2>5, <2>6, <2>7
<1> QED
  BY <1>3, <1>4, <1>9, <1>10, <1>13, <1>14 DEF p, b, k, a, x, z, t, line

\* What comes before a place comes before the next, and before what does not.
LEMMA BeforeFacts ==
    ASSUME NEW s, Len(s) \in Nat, \A i \in 1..Len(s) : s[i].of \in Nat, NEW p \in Nat,
           NEW k \in Nat, Before(k, s, p)
    PROVE  /\ \A q \in Nat : p <= q => Before(k, s, q)
           /\ \A j \in Nat : ~Before(j, s, p) => k < j
<1>1. ASSUME NEW q \in Nat, p <= q PROVE Before(k, s, q)
  <2>1. \A i \in (q + 1)..Len(s) : i \in (p + 1)..Len(s)
    BY <1>1
  <2> QED
    BY <2>1 DEF Before
<1>2. ASSUME NEW j \in Nat, ~Before(j, s, p) PROVE k < j
  <2>1. PICK i \in (p + 1)..Len(s) : ~(j < s[i].of)
    BY <1>2 DEF Before
  <2>2. k < s[i].of /\ s[i].of \in Nat
    <3>1. i \in 1..Len(s)
      OBVIOUS
    <3> QED
      BY <3>1 DEF Before
  <2> QED
    BY <2>1, <2>2
<1> QED
  BY <1>1, <1>2

-----------------------------------------------------------------------------
(* The order of what a parser finds, wherever it starts.                    *)

First(f) == f.bytes[1].of
Told(f) == Gatt /\ f.notifies

\* All that is found lies between two places of a stream.
InOrder(s, p, q, found) ==
    /\ \A j \in 1..Len(found) :
           /\ First(found[j]) \in 1..Len(written)
           /\ Answers(First(found[j])) <=> ~Told(found[j])
           /\ Before(First(found[j]), s, q) /\ ~Before(First(found[j]), s, p)
    /\ \A i, j \in 1..Len(found) : i < j => First(found[i]) < First(found[j])

OrderAt(s, n, i, r) == ~r.raised => InOrder(s, n - i, n - Len(r.rest), r.found)

\* One turn of the line parser, from anywhere in the stream: as a newline ends every
\* item, its lines are in order even after it has raised.
LEMMA LineOrderStep ==
    ASSUME TypeOK, ServerInv, ~Gatt, NEW s \in Seq(LineByte), Streams(s, written),
           NEW n, NEW buf, Reads(buf, s, n), NEW left \in 0..n, NEW turn,
           \A i \in 0..(left - 1) : LineTyped(buf, i, turn[i]) /\ OrderAt(s, n, i, turn[i])
    PROVE  OrderAt(s, n, left, LineStep(turn, left, buf))
<1> DEFINE b     == Suffix(buf, left)
           nl    == Newline(b)
           raw   == LineOf(b)
           after == left - nl
           next  == turn[after]
           line  == [bytes |-> raw]
           lines == IF raw = <<>> THEN <<>> ELSE <<line>>
           step  == LineStep(turn, left, buf)
           p     == n - left
<1>1. /\ buf \in Seq(LineByte) /\ Len(buf) = n /\ n \in Nat /\ n <= Len(s) /\ p \in Nat
      /\ b \in Seq(LineByte) /\ Len(b) = left
  BY ReadsFacts
<1>2. Len(s) \in Nat /\ left \in Nat /\ left <= n /\ \A i \in 1..Len(s) : s[i].of \in Nat
  <2>1. Len(s) \in Nat /\ \A i \in 1..Len(s) : s[i] \in LineByte
    OBVIOUS
  <2>2. \A y \in LineByte : y.of \in Nat
    BY DEF LineByte
  <2> QED
    BY <1>1, <2>1, <2>2
<1>3. step = IF Overlong(b) THEN [found |-> <<>>, rest |-> <<>>, raised |-> TRUE]
             ELSE IF Newlines(b) = {} THEN [found |-> <<>>, rest |-> b, raised |-> FALSE]
             ELSE IF ~IsText(raw) THEN [found |-> <<>>, rest |-> Suffix(buf, after), raised |-> TRUE]
             ELSE [found  |-> IF next.raised THEN <<>> ELSE lines \o next.found,
                   rest   |-> next.rest, raised |-> next.raised]
  BY DEF LineStep, LineOf
<1> SUFFICES ASSUME ~step.raised PROVE InOrder(s, p, n - Len(step.rest), step.found)
  BY DEF OrderAt
<1> HIDE DEF step, b
<1>4. CASE Newlines(b) = {}
  <2>1. step.found = <<>>
    BY <1>3, <1>4
  <2> HIDE DEF p
  <2> QED
    BY <2>1 DEF InOrder
<1>5. CASE Newlines(b) # {}
  <2>1. ~Overlong(b) /\ IsText(raw)
    BY <1>3, <1>5
  <2>2. step = [found  |-> IF next.raised THEN <<>> ELSE lines \o next.found,
                rest   |-> next.rest, raised |-> next.raised]
    BY <1>3, <1>5, <2>1
  <2>3. ~next.raised /\ step.found = lines \o next.found /\ step.rest = next.rest
    BY <2>2
  <2> DEFINE k == s[p + 1].of
             t == Size(written[k]) - s[p + 1].at + 1
  <2>4. left \in 1..n
    <3>1. left # 0
      BY <1>1, <1>5, NewlineFacts
    <3> QED
      BY <1>1, <1>2, <3>1
  <2>5. /\ k \in 1..Len(written) /\ t \in Nat /\ t >= 1 /\ left >= t /\ nl = t
        /\ raw # <<>> => raw[1].of = k /\ written[k].kind = "line"
    <3>1. /\ k \in 1..Len(written) /\ t \in Nat /\ t >= 1
          /\ left < t => Newlines(b) = {}
          /\ left >= t => Newlines(b) # {} /\ nl = t
                          /\ (raw # <<>> => raw[1].of = k /\ written[k].kind = "line")
      BY <2>4, LineAt DEF b
    <3>2. left >= t
      BY <1>2, <1>5, <3>1
    <3> QED
      BY <3>1, <3>2
  <2>6. /\ p + t \in Nat /\ Before(k, s, p + t) /\ ~Before(k, s, p)
    <3>1. Len(written) \in Nat /\ Sized(written) /\ p < Len(s)
      BY <1>1, <1>2, <2>4, WrittenItems, WrittenSized
    <3> HIDE DEF p
    <3>2. /\ \A y \in 1..Len(written) : Before(y, s, p) <=> y < k
          /\ \A y \in 1..Len(written) : Before(y, s, p + t) <=> y <= k
      BY <1>1, <3>1, StreamItem
    <3>3. k \in Nat /\ ~(k < k) /\ k <= k
      BY <2>5, <3>1
    <3> QED
      BY <1>1, <2>5, <3>2, <3>3
  <2> HIDE DEF k, t
  <2>7. after \in 0..(left - 1) /\ n - after = p + t
    <3>1. after = left - t /\ p = n - left /\ n \in Nat /\ left \in Nat /\ left <= n
          /\ t \in Nat /\ t >= 1 /\ left >= t
      BY <1>1, <1>2, <2>5
    <3> HIDE DEF after, p
    <3> QED
      BY <3>1
  <2> HIDE DEF after, p, raw
  <2>8. LineTyped(buf, after, next) /\ InOrder(s, p + t, n - Len(next.rest), next.found)
    BY <2>3, <2>7 DEF OrderAt
  <2> DEFINE q == n - Len(next.rest)
  <2>9. q \in Nat /\ p + t <= q /\ p <= p + t
    <3>1. Len(next.rest) \in 0..after
      BY <2>8 DEF LineTyped
    <3>2. after \in Nat /\ after <= n /\ n - after = p + t
      BY <1>1, <1>2, <2>7
    <3>3. p \in Nat /\ t \in Nat /\ n \in Nat
      BY <1>1, <2>5
    <3> DEFINE l == Len(next.rest)
    <3>4. l \in 0..after
      BY <3>1
    <3> HIDE DEF l
    <3>5. n - l \in Nat /\ p + t <= n - l /\ p <= p + t
      BY <3>2, <3>3, <3>4
    <3> QED
      BY <3>5 DEF l
  <2>10. \A y \in Nat : ~Before(y, s, p + t) => ~Before(y, s, p)
    BY <1>1, <1>2, <2>6, <2>9, BeforeFacts
  <2>11. Before(k, s, q) /\ \A y \in Nat : ~Before(y, s, p + t) => k < y
    <3>1. k \in Nat
      BY <2>5
    <3> QED
      BY <1>2, <2>6, <2>9, <3>1, BeforeFacts
  <2> DEFINE found == next.found
             u == step.found
  <2>12. found \in Seq(FoundLines(buf)) /\ InOrder(s, p + t, q, found) /\ u = lines \o found
    BY <2>3, <2>8 DEF LineTyped
  <2> HIDE DEF next, q, found, u
  <2>13. /\ \A j \in 1..Len(found) :
                /\ First(found[j]) \in 1..Len(written) /\ First(found[j]) \in Nat
                /\ Answers(First(found[j])) <=> ~Told(found[j])
                /\ Before(First(found[j]), s, q) /\ ~Before(First(found[j]), s, p)
                /\ k < First(found[j])
         /\ \A i, j \in 1..Len(found) : i < j => First(found[i]) < First(found[j])
    <3>1. \A y \in 1..Len(written) : y \in Nat
      OBVIOUS
    <3> QED
      BY <2>10, <2>11, <2>12, <3>1 DEF InOrder
  <2>14. InOrder(s, p, q, u)
    <3>1. CASE raw = <<>>
      <4>1. u = <<>> \o found
        BY <2>12, <3>1
      <4>2. u = found
        BY <2>12, <4>1
      <4> QED
        BY <2>13, <4>2 DEF InOrder
    <3>2. CASE raw # <<>>
      <4>1. u = <<line>> \o found
        BY <2>12, <3>2
      <4>2. First(line) = k /\ Answers(k) /\ ~Told(line)
        BY <2>5, <3>2 DEF First, Answers, Told
      <4> HIDE DEF line
      <4>3. /\ Len(found) \in Nat /\ Len(u) = 1 + Len(found) /\ u[1] = line
            /\ \A j \in 1..Len(found) : u[1 + j] = found[j]
        BY <2>12, <4>1
      <4>4. \A j \in 1..Len(u) : j = 1 \/ (j - 1 \in 1..Len(found) /\ u[j] = found[j - 1])
        <5> SUFFICES ASSUME NEW j \in 1..Len(u), j # 1
                     PROVE  j - 1 \in 1..Len(found) /\ u[j] = found[j - 1]
          OBVIOUS
        <5>1. j - 1 \in 1..Len(found) /\ 1 + (j - 1) = j
          BY <4>3
        <5> QED
          BY <4>3, <5>1
      <4>5. \A j \in 1..Len(u) :
                /\ First(u[j]) \in 1..Len(written)
                /\ Answers(First(u[j])) <=> ~Told(u[j])
                /\ Before(First(u[j]), s, q) /\ ~Before(First(u[j]), s, p)
        <5> SUFFICES ASSUME NEW j \in 1..Len(u)
                     PROVE  /\ First(u[j]) \in 1..Len(written)
                            /\ Answers(First(u[j])) <=> ~Told(u[j])
                            /\ Before(First(u[j]), s, q) /\ ~Before(First(u[j]), s, p)
          OBVIOUS
        <5>1. CASE j = 1
          BY <2>5, <2>6, <2>11, <4>2, <4>3, <5>1
        <5>2. CASE j # 1
          BY <2>13, <4>4, <5>2
        <5> QED
          BY <5>1, <5>2
      <4>6. \A i, j \in 1..Len(u) : i < j => First(u[i]) < First(u[j])
        <5> SUFFICES ASSUME NEW i \in 1..Len(u), NEW j \in 1..Len(u), i < j
                     PROVE  First(u[i]) < First(u[j])
          OBVIOUS
        <5>1. j - 1 \in 1..Len(found) /\ u[j] = found[j - 1]
          BY <4>3, <4>4
        <5>2. CASE i = 1
          BY <2>13, <4>2, <4>3, <5>1, <5>2
        <5>3. CASE i # 1
          <6>1. i - 1 \in 1..Len(found) /\ u[i] = found[i - 1] /\ i - 1 < j - 1
            BY <4>3, <4>4, <5>3
          <6> QED
            BY <2>13, <5>1, <6>1
        <5> QED
          BY <5>2, <5>3
      <4> QED
        BY <4>5, <4>6 DEF InOrder
    <3> QED
      BY <3>1, <3>2
  <2> QED
    BY <2>3, <2>14 DEF q, u
<1> QED
  BY <1>4, <1>5

-----------------------------------------------------------------------------
(* The line parser, between two items of a stream.                          *)

\* One turn of the line parser between two items, if the turns after it do what they owe.
LEMMA LineExactStep ==
    ASSUME TypeOK, ServerInv, ~Gatt, NEW s \in Seq(LineByte), Streams(s, written),
           NEW n, NEW buf, Reads(buf, s, n), NEW left \in 0..n, NEW turn,
           \A i \in 0..(left - 1) : LineTyped(buf, i, turn[i]) /\ ExactAt(s, n, i, turn[i])
    PROVE  ExactAt(s, n, left, LineStep(turn, left, buf))
<1> SUFFICES ASSUME NEW c \in Nat, Counted(c, s, n - left, written), Aligned(s, n - left)
             PROVE  Result(c, s, n, LineStep(turn, left, buf))
  BY DEF ExactAt
<1> DEFINE b     == Suffix(buf, left)
           nl    == Newline(b)
           raw   == LineOf(b)
           after == left - nl
           next  == turn[after]
           line  == [bytes |-> raw]
           lines == IF raw = <<>> THEN <<>> ELSE <<line>>
           step  == LineStep(turn, left, buf)
           p     == n - left
<1>1. /\ buf \in Seq(LineByte) /\ Len(buf) = n /\ n \in Nat /\ n <= Len(s) /\ p \in Nat
      /\ b \in Seq(LineByte) /\ Len(b) = left
  BY ReadsFacts
<1>2. Len(s) \in Nat /\ left \in Nat /\ left <= n
  BY <1>1
<1>3. step = IF Overlong(b) THEN [found |-> <<>>, rest |-> <<>>, raised |-> TRUE]
             ELSE IF Newlines(b) = {} THEN [found |-> <<>>, rest |-> b, raised |-> FALSE]
             ELSE IF ~IsText(raw) THEN [found |-> <<>>, rest |-> Suffix(buf, after), raised |-> TRUE]
             ELSE [found  |-> IF next.raised THEN <<>> ELSE lines \o next.found,
                   rest   |-> next.rest, raised |-> next.raised]
  BY DEF LineStep, LineOf
<1>4. ASSUME left > 0 => left < Size(written[s[p + 1].of])
      PROVE  Result(c, s, n, [found |-> <<>>, rest |-> b, raised |-> FALSE])
  <2>1. left \in 0..Len(buf)
    BY <1>1
  <2> QED
    BY <1>1, <1>4, <2>1, ResultNone
<1>5. CASE left = 0
  <2>1. Newlines(b) = {}
    <3> HIDE DEF b
    <3> QED
      BY <1>1, <1>5 DEF Newlines
  <2>2. ~Overlong(b)
    <3> HIDE DEF b
    <3> QED
      BY <1>1, <1>5, <2>1, LineAssumption DEF Overlong, Fits
  <2>3. Result(c, s, n, [found |-> <<>>, rest |-> b, raised |-> FALSE])
    BY <1>4, <1>5
  <2> HIDE DEF step, b
  <2> QED
    BY <1>3, <2>1, <2>2, <2>3 DEF step
<1> HIDE DEF step, b
<1>6. CASE left # 0
  <2> DEFINE k == s[p + 1].of
             x == written[k]
             t == Size(x)
  <2>0. left \in 1..n
    BY <1>1, <1>2, <1>6
  <2>1. /\ k \in 1..Len(written) /\ x.kind \in {"line", "blank"} /\ t \in Nat /\ t >= 1
        /\ left < t => Newlines(b) = {}
        /\ left >= t => Newlines(b) # {} /\ nl = t
                        /\ (raw # <<>> => raw[1].of = k /\ x.kind = "line")
        /\ x.kind = "blank" => ~Overlong(b) /\ (left >= t => raw = <<>> /\ IsText(raw))
        /\ x.kind = "line" /\ Good(x) => ~Overlong(b) /\ (left >= t => IsText(raw))
        /\ x.kind = "line" /\ left >= t =>
              /\ raw = Content(k) /\ raw # <<>>
              /\ ~Overlong(b) /\ IsText(raw) => Good(x)
    <3> DEFINE v == Size(x) - s[p + 1].at + 1
    <3>1. /\ k \in 1..Len(written) /\ x.kind \in {"line", "blank"} /\ v \in Nat /\ v >= 1
          /\ left < v => Newlines(b) = {}
          /\ left >= v => Newlines(b) # {} /\ nl = v
                          /\ (raw # <<>> => raw[1].of = k /\ x.kind = "line")
          /\ v = t
          /\ x.kind = "blank" => ~Overlong(b) /\ (left >= v => raw = <<>> /\ IsText(raw))
          /\ x.kind = "line" /\ Good(x) => ~Overlong(b) /\ (left >= v => IsText(raw))
          /\ x.kind = "line" /\ left >= v =>
                /\ raw = Content(k) /\ raw # <<>>
                /\ ~Overlong(b) /\ IsText(raw) => Good(x)
      BY <2>0, LineAt DEF b
    <3> HIDE DEF v, t, k, x
    <3> QED
      BY <3>1
  <2>2. /\ Aligned(s, p + t) /\ p + t \in Nat
        /\ \A y \in 1..Len(written) : Before(y, s, p) <=> y < k
        /\ \A y \in 1..Len(written) : Before(y, s, p + t) <=> y <= k
    <3>1. p < Len(s) /\ s[p + 1].at = 1
      <4>1. p < Len(s)
        BY <1>1, <1>2, <2>0
      <4> QED
        BY <4>1 DEF Aligned
    <3>2. Len(written) \in Nat /\ Sized(written)
      BY WrittenItems, WrittenSized
    <3> HIDE DEF p
    <3>3. LET a == s[p + 1].at
              u == Size(written[k]) - a + 1
          IN  /\ Aligned(s, p + u)
              /\ \A y \in 1..Len(written) : Before(y, s, p) <=> y < k
              /\ \A y \in 1..Len(written) : Before(y, s, p + u) <=> y <= k
      BY <1>1, <3>1, <3>2, StreamItem
    <3>4. t - 1 + 1 = t /\ p + t \in Nat
      BY <1>1, <2>1
    <3> QED
      BY <3>1, <3>3, <3>4
  <2> HIDE DEF t, k
  <2>3. /\ x.kind = "line" =>
               c + 1 \in 1..Len(Carried) /\ Carried[c + 1] = k /\ Counted(c + 1, s, p + t, written)
        /\ x.kind = "blank" => Counted(c, s, p + t, written)
    <3>1. Carried = CarriedOf(written)
      BY DEF Carried, CarriedOf
    <3>2. PICK I : written \in Seq(I)
      BY Zenon DEF TypeOK
    <3> DEFINE q == p + t
    <3>3. /\ k \in 1..Len(written) /\ Counted(c, s, p, written)
          /\ \A y \in 1..Len(written) : Before(y, s, p) <=> y < k
          /\ \A y \in 1..Len(written) : Before(y, s, q) <=> y <= k
      BY <2>1, <2>2
    <3> HIDE DEF p, q
    <3>4. /\ x.kind # "blank" =>
                 c + 1 \in 1..Len(CarriedOf(written)) /\ CarriedOf(written)[c + 1] = k
                 /\ Counted(c + 1, s, q, written)
          /\ x.kind = "blank" => Counted(c, s, q, written)
      BY <3>2, <3>3, CountStep
    <3> QED
      BY <3>1, <3>4 DEF q
  <2>4. CASE Overlong(b)
    <3>1. x.kind = "line" /\ ~Good(x)
      BY <2>1, <2>4
    <3>2. ~Good(written[Carried[c + 1]]) /\ c + 1 \in (c + 1)..Len(Carried)
      BY <2>3, <3>1
    <3>3. step.raised
      BY <1>3, <2>4
    <3>4. Result(c, s, n, step)
      BY <3>2, <3>3 DEF Result
    <3> QED
      BY <3>4 DEF step
  <2>5. CASE ~Overlong(b) /\ left < t
    <3>1. Newlines(b) = {}
      BY <2>1, <2>5
    <3>2. Result(c, s, n, [found |-> <<>>, rest |-> b, raised |-> FALSE])
      BY <1>4, <2>5 DEF t, k
    <3> QED
      BY <1>3, <2>5, <3>1, <3>2 DEF step
  <2>6. CASE ~Overlong(b) /\ left >= t /\ ~IsText(raw)
    <3>1. x.kind = "line" /\ ~Good(x) /\ Newlines(b) # {}
      BY <2>1, <2>6
    <3>2. ~Good(written[Carried[c + 1]]) /\ c + 1 \in (c + 1)..Len(Carried)
      BY <2>3, <3>1
    <3>3. step.raised
      BY <1>3, <2>6, <3>1
    <3>4. Result(c, s, n, step)
      BY <3>2, <3>3 DEF Result
    <3> QED
      BY <3>4 DEF step
  <2>7. CASE ~Overlong(b) /\ left >= t /\ IsText(raw)
    <3>1. Newlines(b) # {} /\ nl = t
      BY <2>1, <2>7
    <3>2. after \in 0..(left - 1) /\ n - after = p + t
      <4>1. after = left - t /\ p = n - left /\ n \in Nat /\ left \in Nat /\ left <= n
            /\ t \in Nat /\ t >= 1 /\ left >= t
        BY <1>1, <1>2, <2>1, <2>7, <3>1
      <4> HIDE DEF after, p
      <4> QED
        BY <4>1
    <3>3. step = [found  |-> IF next.raised THEN <<>> ELSE lines \o next.found,
                  rest   |-> next.rest, raised |-> next.raised]
      BY <1>3, <2>7, <3>1
    <3>4. /\ step.raised = next.raised /\ step.rest = next.rest
          /\ step.found = IF next.raised THEN <<>> ELSE lines \o next.found
      BY <3>3
    <3> HIDE DEF after, p, raw
    <3>5. LineTyped(buf, after, next) /\ ExactAt(s, n, after, next)
      BY <3>2
    <3>6. next.raised \in BOOLEAN /\ next.found \in Seq(FoundLines(buf))
      BY <3>5 DEF LineTyped
    <3>7. CASE x.kind = "blank"
      <4>1. Result(c, s, n, next)
        BY <2>2, <2>3, <3>2, <3>5, <3>7 DEF ExactAt
      <4>2. lines = <<>>
        BY <2>1, <2>7, <3>7
      <4> HIDE DEF lines, next
      <4>3. ~next.raised => step.found = next.found
        BY <3>4, <3>6, <4>2
      <4>4. Result(c, s, n, step)
        <5>1. CASE next.raised
          BY <3>4, <4>1, <5>1 DEF Result
        <5>2. CASE ~next.raised
          BY <3>4, <4>1, <4>3, <5>2 DEF Result
        <5> QED
          BY <5>1, <5>2
      <4> QED
        BY <4>4 DEF step
    <3>8. CASE x.kind = "line"
      <4>1. Result(c + 1, s, n, next)
        <5>1. c + 1 \in Nat
          OBVIOUS
        <5> QED
          BY <2>2, <2>3, <3>2, <3>5, <3>8, <5>1 DEF ExactAt
      <4>2. raw # <<>> /\ raw[1].of = k /\ raw = Content(k) /\ Good(x)
        BY <2>1, <2>7, <3>8
      <4>3. lines = <<line>>
        BY <4>2
      <4>4. Right(line, Carried[c + 1])
        <5>1. Identify(line) = [id |-> k, whole |-> TRUE]
          BY <4>2 DEF Identify
        <5> HIDE DEF line
        <5> QED
          BY <2>3, <3>8, <4>2, <5>1 DEF Right
      <4> DEFINE F == FoundLines(buf) \cup {line}
      <4>5. line \in F /\ next.found \in Seq(F)
        <5>1. FoundLines(buf) \subseteq F /\ line \in F
          OBVIOUS
        <5> HIDE DEF F, next
        <5> QED
          BY <3>6, <5>1, SeqMonotonic
      <4> HIDE DEF line, lines, next, F
      <4>6. step.found = IF next.raised THEN <<>> ELSE <<line>> \o next.found
        BY <3>4, <4>3
      <4>7. Result(c, s, n, step)
        BY <3>4, <3>6, <4>1, <4>4, <4>5, <4>6, ResultMore
      <4> QED
        BY <4>7 DEF step
    <3> QED
      BY <2>1, <3>7, <3>8
  <2> QED
    <3>1. left < t \/ left >= t
      BY <1>2, <2>1
    <3> QED
      BY <2>4, <2>5, <2>6, <2>7, <3>1
<1> QED
  BY <1>5, <1>6

\* LineParser.feed returns lines in their order, wherever it starts; and between two
\* items it returns them whole, up to one that is too long or no text and raises.
LEMMA LinesExact ==
    ASSUME TypeOK, ServerInv, ~Gatt, NEW s \in Seq(LineByte), Streams(s, written),
           NEW n, NEW buf, Reads(buf, s, n)
    PROVE  /\ OrderAt(s, n, n, FeedLines(buf))
           /\ ExactAt(s, n, n, FeedLines(buf))
<1>1. buf \in Seq(LineByte) /\ Len(buf) = n /\ n \in Nat
  <2>1. n \in Nat /\ 0 \in 0..n
    BY DEF Reads
  <2> QED
    BY <2>1, ReadsFacts
<1>2. PICK turn : LineTurns(turn, n, buf) /\ FeedLines(buf) = turn[n]
  BY <1>1, FeedLinesTurns
<1>3. \A left \in 0..n : turn[left] = LineStep(turn, left, buf)
  BY <1>2 DEF LineTurns
<1> DEFINE T == {m \in Nat : m <= n => /\ LineTyped(buf, m, turn[m])
                                      /\ OrderAt(s, n, m, turn[m]) /\ ExactAt(s, n, m, turn[m])}
<1>4. ASSUME NEW m \in Nat, \A i \in 0..(m - 1) : i \in T PROVE m \in T
  <2> SUFFICES ASSUME m <= n
               PROVE  /\ LineTyped(buf, m, turn[m])
                      /\ OrderAt(s, n, m, turn[m]) /\ ExactAt(s, n, m, turn[m])
    OBVIOUS
  <2>1. m \in 0..n /\ m \in 0..Len(buf)
        /\ \A i \in 0..(m - 1) : /\ LineTyped(buf, i, turn[i])
                                 /\ OrderAt(s, n, i, turn[i]) /\ ExactAt(s, n, i, turn[i])
    BY <1>1, <1>4
  <2>2. LineTyped(buf, m, turn[m])
    BY <1>1, <1>3, <2>1, LineTypedStep
  <2> HIDE DEF T
  <2>3. ExactAt(s, n, m, turn[m])
    BY <1>3, <2>1, LineExactStep
  <2>4. OrderAt(s, n, m, turn[m])
    BY <1>3, <2>1, LineOrderStep
  <2> QED
    BY <2>2, <2>3, <2>4
<1>5. T = Nat
  <2> HIDE DEF T
  <2>1. T \in SUBSET Nat
    BY DEF T
  <2> QED
    BY <1>4, <2>1, StrongInduction
<1>6. n \in T
  BY <1>1, <1>5
<1> QED
  BY <1>1, <1>2, <1>6

-----------------------------------------------------------------------------
(* The invariant.                                                            *)

\* What has been written and not been parsed yet.
Ahead == buffer \o wire

\* All bytes of an item have been parsed.
Past(k) == Before(k, Ahead, 0)

\* A parser that has not raised stands between two items.
WireInv ==
    /\ Streams(Ahead, written)
    /\ ~broken => NothingWithheld /\ Aligned(Ahead, 0)

\* Answers come in the order in which they were written: first those returned,
\* then those queued, then those to be parsed.
OrderInv ==
    ~(Gatt /\ broken) =>
        /\ NeverShuffled
        /\ \A i, j \in 1..Len(responses) : i < j => responses[i].id < responses[j].id
        /\ \A i \in 1..Len(answers), j \in 1..Len(responses) :
               answers[i].item.id < responses[j].id
        /\ \A i \in 1..Len(answers) : Answers(answers[i].item.id) /\ Past(answers[i].item.id)
        /\ \A i \in 1..Len(responses) : Answers(responses[i].id) /\ Past(responses[i].id)

\* Until a call raises, what is still to be answered, to be parsed or queued is for
\* the request in progress.
MatchInv ==
    ~troubled =>
        /\ MatchedUntilTrouble
        /\ \A i \in 1..Len(responses) :
               responses[i].whole /\ written[responses[i].id].id = sent /\ call = "request"
        /\ \A i \in 1..Len(toServer) :
               toServer[i] \notin mute => toServer[i] = sent /\ call = "request"
        /\ \A k \in 1..Len(written) :
               Answers(k) /\ ~Past(k) => written[k].id = sent /\ call = "request"

\* Until the parser raises it has returned all that is past, whole and in order.
ParsedInv ==
    ~broken =>
        /\ Counted(Len(parsed), Ahead, 0, written)
        /\ \A i \in 1..Len(parsed) :
               parsed[i] = [id |-> Carried[i], whole |-> TRUE] /\ Good(written[Carried[i]])

\* A parser has raised in a call that raised too; a request in progress was sent.
IInv ==
    /\ TypeOK /\ WireInv /\ ServerInv /\ OrderInv /\ MatchInv /\ ParsedInv /\ NotesKept
    /\ broken => troubled
    /\ call = "request" => sent > 0

-----------------------------------------------------------------------------
(* Steps that neither write nor parse.                                      *)

\* They leave the stream and what has been parsed of it as they are.
LEMMA Unparsed ==
    ASSUME IInv, UNCHANGED <<protocol, written, wire, buffer, parsed, broken>>
    PROVE  /\ Gatt' = Gatt /\ Ahead' = Ahead /\ Carried' = Carried
           /\ WireInv' /\ ParsedInv'
           /\ \A k : Past(k)' <=> Past(k)
           /\ \A k : Answers(k)' <=> Answers(k)
<1>1. Gatt' = Gatt /\ Ahead' = Ahead
  BY DEF Gatt, Ahead
<1>2. Carried' = Carried
  BY Zenon DEF Carried
<1>3. NothingWithheld' <=> NothingWithheld
  BY Zenon DEF NothingWithheld
<1>4. WireInv'
  BY <1>1, <1>3, Zenon DEF IInv, WireInv
<1>5. ParsedInv'
  BY <1>1, <1>2, Zenon DEF IInv, ParsedInv
<1>6. \A k : Past(k)' <=> Past(k)
  BY <1>1, Zenon DEF Past
<1>7. \A k : Answers(k)' <=> Answers(k)
  BY Zenon DEF Answers
<1> QED
  BY <1>1, <1>2, <1>4, <1>5, <1>6, <1>7

\* A new connection.
LEMMA InitIInv == Init => IInv
<1> SUFFICES ASSUME Init PROVE IInv
  OBVIOUS
<1> USE DEF Init
<1>1. TypeOK
  <2>1. sent \in 0..MaxRequests /\ mute \subseteq 1..sent
    BY ClientsAssumption
  <2>2. \A S : <<>> \in Seq(S)
    OBVIOUS
  <2>3. Len(buffer) <= IF Gatt THEN 3 + MaxPayload ELSE MaxLine
    BY PayloadAssumption, LineAssumption
  <2> QED
    BY <2>1, <2>2, <2>3, Zenon DEF TypeOK
<1>2. Ahead = <<>> /\ Carried = <<>> /\ CarriedOf(written) = <<>>
  <2>1. Ahead = <<>>
    BY DEF Ahead
  <2>2. [k \in DOMAIN written |-> k] = <<>>
    OBVIOUS
  <2> QED
    BY <2>1, <2>2, ChosenEmpty, Zenon DEF Carried, CarriedOf
<1>3. WireInv
  BY <1>2 DEF WireInv, Streams, Aligned, NothingWithheld
<1>4. ServerInv /\ OrderInv /\ MatchInv
  BY DEF ServerInv, OrderInv, NeverShuffled, MatchInv, MatchedUntilTrouble
<1>5. ParsedInv
  BY <1>2 DEF ParsedInv, Counted
<1>6. NotesKept
  <2>1. Chosen(parsed, {i \in DOMAIN parsed : written[parsed[i].id].kind = "notification"}) = <<>>
    BY ChosenEmpty, Zenon
  <2> QED
    BY <2>1 DEF NotesKept
<1> QED
  BY <1>1, <1>3, <1>4, <1>5, <1>6 DEF IInv

-----------------------------------------------------------------------------
(* Steps of the caller and of the server.                                    *)

\* What the types say of the queues and of what has been written.
LEMMA TypeFacts ==
    ASSUME TypeOK
    PROVE  /\ Len(written) \in Nat /\ DOMAIN written = 1..Len(written)
           /\ toServer \in Seq(Nat) /\ Len(toServer) \in Nat /\ DOMAIN toServer = 1..Len(toServer)
           /\ \A i \in 1..Len(toServer) : toServer[i] \in 1..sent
           /\ Len(answers) \in Nat /\ DOMAIN answers = 1..Len(answers)
           /\ \A i \in 1..Len(answers) : /\ answers[i].request \in 1..sent
                                         /\ answers[i].item.id \in 1..Len(written)
                                         /\ answers[i].item.whole \in BOOLEAN
           /\ Len(responses) \in Nat
           /\ \A i \in 1..Len(responses) : responses[i].id \in 1..Len(written)
           /\ sent \in Nat /\ MaxRequests \in Nat /\ sent <= MaxRequests
<1>1. sent \in Nat /\ MaxRequests \in Nat /\ sent <= MaxRequests
  BY ClientsAssumption DEF TypeOK
<1>2. Len(written) \in Nat /\ DOMAIN written = 1..Len(written)
  BY WrittenItems
<1>3. toServer \in Seq(Nat) /\ Len(toServer) \in Nat /\ DOMAIN toServer = 1..Len(toServer)
      /\ \A i \in 1..Len(toServer) : toServer[i] \in 1..sent
  <2>1. toServer \in Seq(1..sent)
    BY DEF TypeOK
  <2>2. 1..sent \subseteq Nat
    BY <1>1
  <2>3. toServer \in Seq(Nat)
    BY <2>1, <2>2, SeqMonotonic
  <2> DEFINE S == 1..sent
  <2> HIDE DEF S
  <2>4. toServer \in Seq(S)
    BY <2>1 DEF S
  <2>5. \A i \in 1..Len(toServer) : toServer[i] \in S
    BY <2>4
  <2> QED
    BY <2>3, <2>5 DEF S
<1>4. Len(answers) \in Nat /\ DOMAIN answers = 1..Len(answers)
      /\ \A i \in 1..Len(answers) : /\ answers[i].request \in 1..sent
                                    /\ answers[i].item.id \in 1..Len(written)
                                    /\ answers[i].item.whole \in BOOLEAN
  <2> DEFINE R == [request : 1..sent, item : Item]
  <2>1. answers \in Seq(R)
    BY DEF TypeOK
  <2>2. \A r \in R : r.request \in 1..sent /\ r.item.id \in 1..Len(written) /\ r.item.whole \in BOOLEAN
    BY <1>2 DEF Item
  <2> HIDE DEF R
  <2>3. Len(answers) \in Nat /\ DOMAIN answers = 1..Len(answers)
        /\ \A i \in 1..Len(answers) : answers[i] \in R
    BY <2>1
  <2> QED
    BY <2>2, <2>3
<1>5. Len(responses) \in Nat /\ \A i \in 1..Len(responses) : responses[i].id \in 1..Len(written)
  <2>1. responses \in Seq(Item)
    BY DEF TypeOK
  <2>2. \A i \in 1..Len(responses) : responses[i] \in Item
    BY <2>1
  <2> QED
    BY <1>2, <2>1, <2>2 DEF Item
<1> QED
  BY <1>1, <1>2, <1>3, <1>4, <1>5

\* A request, whether it waits for an answer or is one without response.
Sends == /\ call = "none" /\ sent < MaxRequests /\ sent' = sent + 1
         /\ toServer' = Append(toServer, sent')
         /\ \/ call' = "request" /\ UNCHANGED mute
            \/ call' = "none" /\ mute' = mute \cup {sent'}
         /\ UNCHANGED <<protocol, written, wire, hungUp, buffer, responses, notes,
                        answers, heard, parsed, broken, troubled>>

\* request, and command for one without an answer: the server gets one more request.
LEMMA SendsIInv == ASSUME IInv, Sends PROVE IInv'
<1> USE DEF Sends
<1>1. /\ Gatt' = Gatt /\ Ahead' = Ahead /\ Carried' = Carried
      /\ WireInv' /\ ParsedInv'
      /\ \A k : Past(k)' <=> Past(k)
      /\ \A k : Answers(k)' <=> Answers(k)
  BY Unparsed
<1>2. TypeOK /\ WireInv /\ ServerInv /\ OrderInv /\ MatchInv /\ ParsedInv /\ NotesKept
  BY DEF IInv
<1>3. /\ Len(written) \in Nat /\ DOMAIN written = 1..Len(written)
      /\ toServer \in Seq(Nat) /\ Len(toServer) \in Nat
      /\ \A i \in 1..Len(toServer) : toServer[i] \in 1..sent
      /\ sent \in Nat /\ MaxRequests \in Nat
      /\ Len(responses) \in Nat
  BY <1>2, TypeFacts
<1>4. /\ Len(toServer') = Len(toServer) + 1 /\ toServer'[Len(toServer) + 1] = sent + 1
      /\ \A i \in 1..Len(toServer) : toServer'[i] = toServer[i]
  <2>1. sent + 1 \in Nat
    BY <1>3
  <2> QED
    BY <1>3, <2>1
<1>5. 1..sent \subseteq 1..sent' /\ sent' \in 1..sent' /\ sent' \in 0..MaxRequests
  BY <1>3
<1>6. TypeOK'
  <2>1. toServer' \in Seq(1..sent')
    <3>1. toServer \in Seq(1..sent)
      BY <1>2 DEF TypeOK
    <3>2. toServer \in Seq(1..sent')
      BY <1>5, <3>1, SeqMonotonic
    <3> QED
      BY <1>5, <3>2
  <2> DEFINE J(n) == (UNION {Response(k) \cup Answered(k) : k \in 1..n})
                      \cup (UNION {Notification(k) \cup Blank(k) : k \in 1..MaxAsides})
  <2>2. written' \in Seq(J(sent'))
    <3>1. J(sent) \subseteq J(sent')
      BY <1>5, Zenon
    <3>2. written \in Seq(J(sent))
      BY <1>2, Zenon DEF TypeOK
    <3> HIDE DEF J
    <3>3. written \in Seq(J(sent'))
      BY <3>1, <3>2, SeqMonotonic
    <3> QED
      BY <3>3
  <2>3. answers' \in Seq([request : 1..sent', item : Item'])
    <3>1. Item' = Item
      BY Zenon DEF Item
    <3> DEFINE R == [request : 1..sent, item : Item]
               S == [request : 1..sent', item : Item]
    <3>2. R \subseteq S
      BY <1>5
    <3>3. answers \in Seq(R)
      BY <1>2 DEF TypeOK
    <3> HIDE DEF R, S
    <3>5. answers \in Seq(S)
      BY <3>2, <3>3, SeqMonotonic
    <3>4. answers \in Seq([request : 1..sent', item : Item])
      BY <3>5 DEF S
    <3> QED
      BY <3>1, <3>4
  <2>4. {responses', notes', heard', parsed'} \subseteq Seq(Item')
    <3>1. Item' = Item
      BY Zenon DEF Item
    <3> QED
      BY <1>2, <3>1 DEF TypeOK
  <2>5. sent' \in 0..MaxRequests /\ mute' \subseteq 1..sent'
    <3>1. mute \subseteq 1..sent
      BY <1>2 DEF TypeOK
    <3> QED
      BY <1>5, <3>1
  <2>6. /\ wire' \in Seq(IF Gatt' THEN GattByte ELSE LineByte)
        /\ buffer' \in Seq(IF Gatt' THEN GattByte ELSE LineByte)
        /\ ~broken' => Len(buffer') <= IF Gatt' THEN 3 + MaxPayload ELSE MaxLine
        /\ protocol' \in {"gatt", "control"} /\ call' \in {"none", "request", "next_notification"}
        /\ hungUp' \in BOOLEAN /\ broken' \in BOOLEAN /\ troubled' \in BOOLEAN
    BY <1>1, <1>2, Zenon DEF TypeOK
  <2> QED
    BY <2>1, <2>2, <2>3, <2>4, <2>5, <2>6, Zenon DEF TypeOK
<1>7. ServerInv'
  <2>1. \A i, j \in 1..Len(toServer') : i < j => toServer'[i] < toServer'[j]
    <3> SUFFICES ASSUME NEW i \in 1..Len(toServer'), NEW j \in 1..Len(toServer'), i < j
                 PROVE  toServer'[i] < toServer'[j]
      BY Zenon
    <3>1. i \in 1..Len(toServer) /\ toServer'[i] = toServer[i] /\ toServer[i] \in 1..sent
      BY <1>3, <1>4
    <3>2. CASE j = Len(toServer) + 1
      BY <1>3, <1>4, <3>1, <3>2
    <3>3. CASE j # Len(toServer) + 1
      <4>1. j \in 1..Len(toServer)
        <5>1. Len(toServer) \in Nat /\ Len(toServer') = Len(toServer) + 1
          BY <1>3, <1>4
        <5> QED
          BY <3>3, <5>1
      <4>2. toServer'[j] = toServer[j]
        BY <1>4, <4>1
      <4> QED
        BY <1>2, <3>1, <4>1, <4>2 DEF ServerInv
    <3> QED
      BY <3>2, <3>3
  <2>2. ASSUME NEW k \in 1..Len(written), Answers(k)
        PROVE  written[k].id \in 1..sent' /\ \A i \in 1..Len(toServer') : written[k].id < toServer'[i]
    <3>1. written[k].id \in 1..sent /\ \A i \in 1..Len(toServer) : written[k].id < toServer[i]
      BY <1>2, <2>2 DEF ServerInv
    <3>2. ASSUME NEW i \in 1..Len(toServer') PROVE written[k].id < toServer'[i]
      <4>1. CASE i = Len(toServer) + 1
        BY <1>3, <1>4, <3>1, <4>1
      <4>2. CASE i # Len(toServer) + 1
        <5>1. i \in 1..Len(toServer)
          BY <1>3, <1>4, <4>2
        <5> QED
          BY <1>4, <3>1, <5>1
      <4> QED
        BY <4>1, <4>2
    <3> QED
      BY <1>5, <3>1, <3>2
  <2>3. /\ \A k \in 1..Len(written') :
              written'[k].kind \in IF Gatt' THEN {"response", "notification"} ELSE {"line", "blank"}
        /\ \A j, k \in 1..Len(written') :
              Answers(j)' /\ Answers(k)' /\ j < k => written'[j].id < written'[k].id
    BY <1>1, <1>2, Zenon DEF ServerInv
  <2>4. \A k \in 1..Len(written') : Answers(k)' =>
           written'[k].id \in 1..sent' /\ \A i \in 1..Len(toServer') : written'[k].id < toServer'[i]
    BY <1>1, <2>2
  <2> QED
    BY <2>1, <2>3, <2>4, Zenon DEF ServerInv
<1>8. OrderInv'
  <2>1. NeverShuffled' <=> NeverShuffled
    BY <1>1, Zenon DEF NeverShuffled
  <2> QED
    BY <1>1, <1>2, <2>1, Zenon DEF OrderInv
<1>9. MatchInv'
  <2> SUFFICES ASSUME ~troubled PROVE MatchInv'
    BY DEF MatchInv
  <2>1. /\ MatchedUntilTrouble
        /\ \A i \in 1..Len(responses) : FALSE
        /\ \A i \in 1..Len(toServer) : toServer[i] \in mute
        /\ \A k \in 1..Len(written) : ~(Answers(k) /\ ~Past(k))
    BY <1>2 DEF MatchInv
  <2>2. MatchedUntilTrouble'
    BY <2>1, Zenon DEF MatchedUntilTrouble
  <2>3. \A i \in 1..Len(toServer') : toServer'[i] \notin mute' => toServer'[i] = sent' /\ call' = "request"
    <3> SUFFICES ASSUME NEW i \in 1..Len(toServer'), toServer'[i] \notin mute'
                 PROVE  toServer'[i] = sent' /\ call' = "request"
      BY Zenon
    <3>1. CASE i = Len(toServer) + 1
      BY <1>4, <3>1
    <3>2. CASE i # Len(toServer) + 1
      <4>1. i \in 1..Len(toServer)
        BY <1>3, <1>4, <3>2
      <4> QED
        BY <1>4, <2>1, <4>1
    <3> QED
      BY <3>1, <3>2
  <2>4. \A k \in 1..Len(written') : ~(Answers(k)' /\ ~Past(k)')
    BY <1>1, <2>1
  <2>5. \A i \in 1..Len(responses') : FALSE
    BY <2>1
  <2> QED
    BY <2>2, <2>3, <2>4, <2>5, Zenon DEF MatchInv
<1>10. NotesKept'
  BY <1>2, Zenon DEF NotesKept
<1>11. (broken' => troubled') /\ sent' > 0
  BY <1>3 DEF IInv
<1> QED
  BY <1>1, <1>6, <1>7, <1>8, <1>9, <1>10, <1>11 DEF IInv

\* What comes after the first.
LEMMA TailFacts ==
    ASSUME NEW S, NEW q \in Seq(S), q # <<>>
    PROVE  /\ Head(q) = q[1] /\ q[1] \in S /\ Tail(q) \in Seq(S) /\ Len(q) \in Nat \ {0}
           /\ Len(Tail(q)) = Len(q) - 1 /\ \A i \in 1..Len(Tail(q)) : Tail(q)[i] = q[i + 1]
           /\ q = <<Head(q)>> \o Tail(q)
<1>1. /\ Head(q) = q[1] /\ q[1] \in S /\ Tail(q) \in Seq(S) /\ Len(q) \in Nat \ {0}
      /\ Len(Tail(q)) = Len(q) - 1 /\ \A i \in 1..Len(Tail(q)) : Tail(q)[i] = q[i + 1]
  OBVIOUS
<1> DEFINE t == Tail(q)
           u == <<Head(q)>> \o t
<1>2. u \in Seq(S) /\ Len(u) = Len(q) /\ u[1] = q[1] /\ \A i \in 1..Len(t) : u[1 + i] = t[i]
  <2>1. <<Head(q)>> \in Seq(S) /\ Len(<<Head(q)>>) = 1
    BY <1>1
  <2> HIDE DEF t
  <2> QED
    BY <1>1, <2>1 DEF t
<1> HIDE DEF t, u
<1>3. \A i \in 1..Len(q) : u[i] = q[i]
  <2> SUFFICES ASSUME NEW i \in 1..Len(q), i # 1 PROVE u[i] = q[i]
    BY <1>2
  <2>1. i - 1 \in 1..Len(t) /\ 1 + (i - 1) = i /\ (i - 1) + 1 = i
    BY <1>1 DEF t
  <2> QED
    BY <1>1, <1>2, <2>1 DEF t
<1>4. u = q
  BY <1>2, <1>3, SeqEqual
<1> QED
  BY <1>1, <1>4 DEF t, u

\* Steps that leave all but the calls and the queues alone.
LEMMA QuietTyped ==
    ASSUME TypeOK, UNCHANGED <<protocol, sent, mute, toServer, written, wire, hungUp, buffer, parsed, broken>>,
           call' \in {"none", "request", "next_notification"}, troubled' \in BOOLEAN,
           responses' \in Seq(Item), notes' \in Seq(Item), heard' \in Seq(Item),
           answers' \in Seq([request : 1..sent, item : Item])
    PROVE  TypeOK'
<1>1. Item' = Item /\ Gatt' = Gatt
  BY Zenon DEF Item, Gatt
<1> QED
  BY <1>1, Zenon DEF TypeOK

\* What the server has to do and has written stays.
LEMMA ServerSame ==
    ASSUME ServerInv, UNCHANGED <<protocol, sent, toServer, written>>
    PROVE  ServerInv'
  BY Zenon DEF ServerInv, Answers, Gatt

\* So does the order of the answers.
LEMMA OrderSame ==
    ASSUME OrderInv, UNCHANGED <<protocol, written, wire, buffer, responses, answers, broken>>
    PROVE  OrderInv'
<1>1. (Gatt /\ broken)' <=> (Gatt /\ broken)
  BY Zenon DEF Gatt
<1>2. NeverShuffled' <=> NeverShuffled
  BY <1>1, Zenon DEF NeverShuffled
<1>3. \A k : (Answers(k)' <=> Answers(k)) /\ (Past(k)' <=> Past(k))
  BY Zenon DEF Answers, Past, Ahead
<1> QED
  BY <1>1, <1>2, <1>3, Zenon DEF OrderInv

\* So do the notifications, heard or queued.
LEMMA NotesSame ==
    ASSUME NotesKept, UNCHANGED <<written, parsed, troubled>>, heard' \o notes' = heard \o notes
    PROVE  NotesKept'
  BY Zenon DEF NotesKept

\* A call that does not change what is queued: it begins, or it raises.
LEMMA CallIInv ==
    ASSUME IInv, UNCHANGED <<protocol, server, sent, mute, buffer, responses, notes, answers,
                             heard, parsed, broken>>,
           call' \in {"none", "request", "next_notification"}, troubled' \in BOOLEAN,
           troubled' \/ (~troubled' /\ ~troubled /\ call = "none"), call' # "request"
    PROVE  IInv'
<1>1. /\ Gatt' = Gatt /\ Ahead' = Ahead /\ Carried' = Carried
      /\ WireInv' /\ ParsedInv'
      /\ \A k : Past(k)' <=> Past(k)
      /\ \A k : Answers(k)' <=> Answers(k)
  BY Unparsed DEF server
<1>2. TypeOK /\ WireInv /\ ServerInv /\ OrderInv /\ MatchInv /\ ParsedInv /\ NotesKept
  BY DEF IInv
<1>3. /\ protocol' = protocol /\ sent' = sent /\ mute' = mute /\ toServer' = toServer
      /\ written' = written /\ wire' = wire /\ hungUp' = hungUp /\ buffer' = buffer
      /\ responses' = responses /\ notes' = notes /\ answers' = answers /\ heard' = heard
      /\ parsed' = parsed /\ broken' = broken
  BY DEF server
<1>4. TypeOK'
  BY <1>2, <1>3, QuietTyped DEF TypeOK
<1>5. ServerInv'
  BY <1>2, <1>3, ServerSame
<1>6. OrderInv'
  BY <1>2, <1>3, OrderSame
<1>7. MatchInv'
  <2> SUFFICES ASSUME ~troubled' PROVE MatchInv'
    BY DEF MatchInv
  <2>1. /\ MatchedUntilTrouble
        /\ \A i \in 1..Len(responses) : FALSE
        /\ \A i \in 1..Len(toServer) : toServer[i] \in mute
        /\ \A k \in 1..Len(written) : ~(Answers(k) /\ ~Past(k))
    BY <1>2 DEF MatchInv
  <2>2. MatchedUntilTrouble'
    <3>1. \A i \in DOMAIN answers :
             LET item == answers[i].item
             IN  /\ item.whole /\ written[item.id].kind \in {"response", "line"}
                 /\ written[item.id].id = answers[i].request
      BY <2>1 DEF MatchedUntilTrouble
    <3> QED
      BY <1>3, <3>1, Zenon DEF MatchedUntilTrouble
  <2> QED
    BY <1>1, <1>3, <2>1, <2>2, Zenon DEF MatchInv
<1>8. NotesKept'
  BY <1>2, <1>3, Zenon DEF NotesKept
<1>9. (broken' => troubled') /\ call' # "request"
  BY <1>3 DEF IInv
<1> QED
  BY <1>1, <1>4, <1>5, <1>6, <1>7, <1>8, <1>9 DEF IInv

\* next_notification begins.
LEMMA NextNotificationIInv == ASSUME IInv, NextNotification PROVE IInv'
<1>1. troubled \in BOOLEAN
  BY DEF IInv, TypeOK
<1> QED
  BY <1>1, CallIInv DEF NextNotification

\* A deadline passes.
LEMMA TimesOutIInv == ASSUME IInv, TimesOut PROVE IInv'
  BY CallIInv DEF TimesOut, Raises

\* recv returns no bytes as the server has hung up.
LEMMA SeesCloseIInv == ASSUME IInv, SeesClose PROVE IInv'
  BY CallIInv DEF SeesClose, Raises

\* next_notification returns a queued notification.
LEMMA HearIInv == ASSUME IInv, Hear PROVE IInv'
<1> USE DEF Hear
<1>1. /\ Gatt' = Gatt /\ Ahead' = Ahead /\ Carried' = Carried
      /\ WireInv' /\ ParsedInv'
      /\ \A k : Past(k)' <=> Past(k)
      /\ \A k : Answers(k)' <=> Answers(k)
  BY Unparsed DEF server
<1>2. TypeOK /\ WireInv /\ ServerInv /\ OrderInv /\ MatchInv /\ ParsedInv /\ NotesKept
  BY DEF IInv
<1>3. /\ protocol' = protocol /\ sent' = sent /\ mute' = mute /\ toServer' = toServer
      /\ written' = written /\ wire' = wire /\ hungUp' = hungUp /\ buffer' = buffer
      /\ responses' = responses /\ answers' = answers
      /\ parsed' = parsed /\ broken' = broken /\ troubled' = troubled
  BY DEF server
<1>4. notes \in Seq(Item) /\ heard \in Seq(Item) /\ notes # <<>>
  BY <1>2 DEF TypeOK
<1>5. Head(notes) \in Item /\ notes' \in Seq(Item) /\ notes = <<Head(notes)>> \o notes'
  BY <1>4, TailFacts
<1>6. heard' \in Seq(Item) /\ heard' \o notes' = heard \o notes
  <2> DEFINE h == Head(notes)
  <2>1. h \in Item /\ heard' = Append(heard, h) /\ notes = <<h>> \o notes'
    BY <1>5
  <2> HIDE DEF h
  <2>2. <<h>> \in Seq(Item) /\ heard' = heard \o <<h>> /\ heard' \in Seq(Item)
    BY <1>4, <2>1, AppendIsConcat
  <2>3. (heard \o <<h>>) \o notes' = heard \o (<<h>> \o notes')
    BY <1>4, <1>5, <2>2, ConcatAssociative
  <2> QED
    BY <2>1, <2>2, <2>3
<1>7. TypeOK'
  <2>1. responses \in Seq(Item) /\ answers \in Seq([request : 1..sent, item : Item]) /\ troubled \in BOOLEAN
    BY <1>2 DEF TypeOK
  <2> QED
    BY <1>2, <1>3, <1>5, <1>6, <2>1, QuietTyped
<1>8. ServerInv'
  BY <1>2, <1>3, ServerSame
<1>9. OrderInv'
  BY <1>2, <1>3, OrderSame
<1>10. MatchInv'
  <2> SUFFICES ASSUME ~troubled PROVE MatchInv'
    BY <1>3 DEF MatchInv
  <2>1. /\ MatchedUntilTrouble
        /\ \A i \in 1..Len(responses) : FALSE
        /\ \A i \in 1..Len(toServer) : toServer[i] \in mute
        /\ \A k \in 1..Len(written) : ~(Answers(k) /\ ~Past(k))
    BY <1>2 DEF MatchInv
  <2>2. MatchedUntilTrouble'
    BY <1>3, <2>1, Zenon DEF MatchedUntilTrouble
  <2> QED
    BY <1>1, <1>3, <2>1, <2>2, Zenon DEF MatchInv
<1>11. NotesKept'
  BY <1>2, <1>3, <1>6, NotesSame
<1>12. (broken' => troubled') /\ call' # "request"
  BY <1>3 DEF IInv
<1> QED
  BY <1>1, <1>7, <1>8, <1>9, <1>10, <1>11, <1>12 DEF IInv

\* request returns a queued response.
LEMMA CompleteIInv == ASSUME IInv, Complete PROVE IInv'
<1> USE DEF Complete, Returns
<1>1. /\ Gatt' = Gatt /\ Ahead' = Ahead /\ Carried' = Carried
      /\ WireInv' /\ ParsedInv'
      /\ \A k : Past(k)' <=> Past(k)
      /\ \A k : Answers(k)' <=> Answers(k)
  BY Unparsed DEF server
<1>2. TypeOK /\ WireInv /\ ServerInv /\ OrderInv /\ MatchInv /\ ParsedInv /\ NotesKept
  BY DEF IInv
<1>3. /\ protocol' = protocol /\ sent' = sent /\ mute' = mute /\ toServer' = toServer
      /\ written' = written /\ wire' = wire /\ hungUp' = hungUp /\ buffer' = buffer
      /\ notes' = notes /\ heard' = heard
      /\ parsed' = parsed /\ broken' = broken /\ troubled' = troubled
  BY DEF server
<1>4. responses \in Seq(Item) /\ responses # <<>>
  BY <1>2 DEF TypeOK
<1> DEFINE h == Head(responses)
           n == Len(answers)
           A == [request |-> sent, item |-> h]
<1>5. /\ h = responses[1] /\ h \in Item /\ responses' \in Seq(Item) /\ Len(responses) \in Nat \ {0}
      /\ Len(responses') = Len(responses) - 1
      /\ \A i \in 1..Len(responses') : responses'[i] = responses[i + 1]
  BY <1>4, TailFacts
<1>6. /\ Len(written) \in Nat /\ DOMAIN written = 1..Len(written)
      /\ toServer \in Seq(Nat) /\ Len(toServer) \in Nat /\ DOMAIN toServer = 1..Len(toServer)
      /\ n \in Nat /\ DOMAIN answers = 1..n
      /\ \A i \in 1..n : /\ answers[i].request \in 1..sent
                         /\ answers[i].item.id \in 1..Len(written)
                         /\ answers[i].item.whole \in BOOLEAN
      /\ \A i \in 1..Len(responses) : responses[i].id \in 1..Len(written)
      /\ sent \in Nat
  BY <1>2, TypeFacts
<1>7. 1 \in 1..Len(responses) /\ h.id \in 1..Len(written)
  BY <1>5, <1>6
<1>8. sent \in 1..sent
  BY <1>6 DEF IInv
<1>9. answers' = Append(answers, A)
  OBVIOUS
<1>10. A.request = sent /\ A.item = h /\ A \in [request : 1..sent, item : Item]
  BY <1>5, <1>8
<1> HIDE DEF h, A
<1>11. /\ answers' \in Seq([request : 1..sent, item : Item]) /\ Len(answers') = n + 1
       /\ answers'[n + 1] = A /\ \A i \in 1..n : answers'[i] = answers[i]
  <2> DEFINE R == [request : 1..sent, item : Item]
  <2>1. answers \in Seq(R) /\ A \in R
    BY <1>2, <1>10 DEF TypeOK
  <2> HIDE DEF R
  <2>2. answers' \in Seq(R) /\ Len(answers') = n + 1 /\ answers'[n + 1] = A
        /\ \A i \in 1..n : answers'[i] = answers[i]
    BY <1>9, <2>1
  <2> QED
    BY <2>2 DEF R
<1>12. DOMAIN answers' = 1..(n + 1)
  BY <1>6, <1>11
<1>13. TypeOK'
  <2>1. notes \in Seq(Item) /\ heard \in Seq(Item) /\ troubled \in BOOLEAN
    BY <1>2 DEF TypeOK
  <2> QED
    BY <1>2, <1>3, <1>5, <1>11, <2>1, QuietTyped
<1>14. ServerInv'
  BY <1>2, <1>3, ServerSame
<1>15. ASSUME NEW i \in 1..Len(responses') PROVE i + 1 \in 1..Len(responses) /\ responses'[i] = responses[i + 1]
  BY <1>5
<1>16. \A i \in 1..(n + 1) : i # n + 1 => i \in 1..n
  <2>1. n \in Nat
    BY <1>6
  <2> HIDE DEF n
  <2> QED
    BY <2>1
<1>17. OrderInv'
  <2> SUFFICES ASSUME ~(Gatt /\ broken) PROVE OrderInv'
    BY <1>1, <1>3 DEF OrderInv
  <2>1. /\ \A i, j \in 1..n : i < j => answers[i].item.id < answers[j].item.id
        /\ \A i \in 1..n : written[answers[i].item.id].id <= answers[i].request
        /\ \A i, j \in 1..Len(responses) : i < j => responses[i].id < responses[j].id
        /\ \A i \in 1..n, j \in 1..Len(responses) : answers[i].item.id < responses[j].id
        /\ \A i \in 1..n : Answers(answers[i].item.id) /\ Past(answers[i].item.id)
        /\ \A i \in 1..Len(responses) : Answers(responses[i].id) /\ Past(responses[i].id)
    BY <1>2, <1>6 DEF OrderInv, NeverShuffled
  <2>2. Answers(h.id) /\ Past(h.id) /\ written[h.id].id <= sent
    <3>1. Answers(h.id) /\ Past(h.id)
      BY <1>5, <1>7, <2>1
    <3>2. written[h.id].id \in 1..sent
      BY <1>2, <1>7, <3>1 DEF ServerInv
    <3> QED
      BY <1>6, <3>1, <3>2
  <2>3. \A i, j \in 1..(n + 1) : i < j => answers'[i].item.id < answers'[j].item.id
    <3> SUFFICES ASSUME NEW i \in 1..(n + 1), NEW j \in 1..(n + 1), i < j
                 PROVE  answers'[i].item.id < answers'[j].item.id
      BY Zenon
    <3>1. i \in 1..n
      BY <1>6
    <3>2. CASE j = n + 1
      BY <1>5, <1>7, <1>10, <1>11, <2>1, <3>1, <3>2
    <3>3. CASE j # n + 1
      BY <1>11, <1>16, <2>1, <3>1, <3>3
    <3> QED
      BY <3>2, <3>3
  <2>4. ASSUME NEW i \in 1..(n + 1)
        PROVE  /\ written[answers'[i].item.id].id <= answers'[i].request
               /\ Answers(answers'[i].item.id) /\ Past(answers'[i].item.id)
    <3>1. CASE i = n + 1
      BY <1>10, <1>11, <2>2, <3>1
    <3>2. CASE i # n + 1
      BY <1>11, <1>16, <2>1, <3>2
    <3> QED
      BY <3>1, <3>2
  <2>5. \A i, j \in 1..Len(responses') : i < j => responses'[i].id < responses'[j].id
    <3> SUFFICES ASSUME NEW i \in 1..Len(responses'), NEW j \in 1..Len(responses'), i < j
                 PROVE  responses'[i].id < responses'[j].id
      BY Zenon
    <3>1. i + 1 < j + 1
      BY <1>5
    <3> QED
      BY <1>15, <2>1, <3>1
  <2>6. ASSUME NEW i \in 1..(n + 1), NEW j \in 1..Len(responses')
        PROVE  answers'[i].item.id < responses'[j].id
    <3>1. j + 1 \in 1..Len(responses) /\ responses'[j] = responses[j + 1] /\ 1 < j + 1
      BY <1>15, <1>5
    <3>2. CASE i = n + 1
      BY <1>5, <1>7, <1>10, <1>11, <2>1, <3>1, <3>2
    <3>3. CASE i # n + 1
      BY <1>11, <1>16, <2>1, <3>1, <3>3
    <3> QED
      BY <3>2, <3>3
  <2>7. \A i \in 1..Len(responses') : Answers(responses'[i].id) /\ Past(responses'[i].id)
    BY <1>15, <2>1
  <2>8. NeverShuffled'
    <3>1. \A i, j \in DOMAIN answers' : i < j => answers'[i].item.id < answers'[j].item.id
      BY <1>12, <2>3
    <3>2. \A i \in DOMAIN answers' : written'[answers'[i].item.id].id <= answers'[i].request
      BY <1>3, <1>12, <2>4
    <3> QED
      BY <3>1, <3>2, Zenon DEF NeverShuffled
  <2> DEFINE Done(k) == written'[k].kind \in {"response", "line"} /\ Before(k, Ahead', 0)
  <2>9. \A k : Answers(k) /\ Past(k) => Done(k)
    BY <1>1, <1>3, Zenon DEF Answers, Past
  <2> HIDE DEF Done
  <2>10. /\ \A i \in 1..Len(answers'), j \in 1..Len(responses') : answers'[i].item.id < responses'[j].id
         /\ \A i \in 1..Len(answers') : Done(answers'[i].item.id)
         /\ \A i \in 1..Len(responses') : Done(responses'[i].id)
    BY <1>11, <2>4, <2>6, <2>7, <2>9
  <2> QED
    BY <2>5, <2>8, <2>10, Zenon DEF OrderInv, Answers, Past, Done
<1>18. MatchInv'
  <2> SUFFICES ASSUME ~troubled PROVE MatchInv'
    BY <1>3 DEF MatchInv
  <2>1. /\ \A i \in 1..n : LET item == answers[i].item
                           IN  /\ item.whole /\ written[item.id].kind \in {"response", "line"}
                               /\ written[item.id].id = answers[i].request
        /\ \A i \in 1..Len(responses) : responses[i].whole /\ written[responses[i].id].id = sent
        /\ \A i \in 1..Len(toServer) : toServer[i] \notin mute => toServer[i] = sent
        /\ \A k \in 1..Len(written) : Answers(k) /\ ~Past(k) => written[k].id = sent
    BY <1>2, <1>6 DEF MatchInv, MatchedUntilTrouble
  <2>2. ~broken
    BY DEF IInv
  <2>3. /\ \A i, j \in 1..Len(responses) : i < j => responses[i].id < responses[j].id
        /\ \A i \in 1..Len(responses) : Answers(responses[i].id) /\ Past(responses[i].id)
    BY <1>2, <2>2 DEF OrderInv
  <2>4. /\ \A i, j \in 1..Len(written) : Answers(i) /\ Answers(j) /\ i < j => written[i].id < written[j].id
        /\ \A k \in 1..Len(written) : Answers(k) => \A i \in 1..Len(toServer) : written[k].id < toServer[i]
    BY <1>2 DEF ServerInv
  <2>5. Answers(h.id) /\ Past(h.id) /\ h.whole /\ written[h.id].id = sent
    BY <1>5, <1>7, <2>1, <2>3
  <2>6. ASSUME NEW i \in 1..Len(responses') PROVE FALSE
    <3>1. i + 1 \in 1..Len(responses) /\ 1 < i + 1
      BY <1>15
    <3>2. h.id < responses[i + 1].id /\ Answers(responses[i + 1].id)
          /\ responses[i + 1].id \in 1..Len(written) /\ written[responses[i + 1].id].id = sent
      BY <1>5, <1>6, <1>7, <2>1, <2>3, <3>1
    <3>3. sent < sent
      BY <1>7, <2>4, <2>5, <3>2
    <3> QED
      BY <1>6, <3>3
  <2>7. ASSUME NEW i \in 1..Len(toServer) PROVE toServer[i] \in mute
    <3>1. sent < toServer[i]
      BY <1>7, <2>4, <2>5
    <3> QED
      BY <1>6, <2>1, <3>1
  <2>8. ASSUME NEW k \in 1..Len(written), Answers(k), ~Past(k) PROVE FALSE
    <3>1. written[k].id = sent /\ k # h.id
      BY <2>1, <2>5, <2>8
    <3>2. k < h.id \/ h.id < k
      BY <1>6, <1>7, <3>1
    <3>3. sent < sent
      BY <1>7, <2>4, <2>5, <2>8, <3>1, <3>2
    <3> QED
      BY <1>6, <3>3
  <2>9. MatchedUntilTrouble'
    <3>1. ASSUME NEW i \in 1..(n + 1)
          PROVE  LET item == answers'[i].item
                 IN  /\ item.whole /\ written[item.id].kind \in {"response", "line"}
                     /\ written[item.id].id = answers'[i].request
      <4>1. CASE i = n + 1
        BY <1>10, <1>11, <2>5, <4>1 DEF Answers
      <4>2. CASE i # n + 1
        BY <1>11, <1>16, <2>1, <4>2
      <4> QED
        BY <4>1, <4>2
    <3> QED
      BY <1>3, <1>12, <3>1 DEF MatchedUntilTrouble
  <2> QED
    BY <1>1, <1>3, <2>6, <2>7, <2>8, <2>9, Zenon DEF MatchInv
<1>19. NotesKept'
  BY <1>2, <1>3, NotesSame
<1>20. (broken' => troubled') /\ call' # "request"
  BY <1>3 DEF IInv
<1> QED
  BY <1>1, <1>13, <1>14, <1>17, <1>18, <1>19, <1>20 DEF IInv

StreamByte == IF Gatt THEN GattByte ELSE LineByte

\* The kinds of items on a connection.
Fit(x) == x.kind \in IF Gatt THEN {"response", "notification"} ELSE {"line", "blank"}

\* The bytes of an item, numbered from one.
LEMMA BytesFacts ==
    ASSUME NEW x, NEW m, ItemOf(x, m), Fit(x), NEW k \in Nat
    PROVE  /\ Size(x) \in Nat \ {0} /\ Bytes(x, k) \in Seq(StreamByte) /\ Len(Bytes(x, k)) = Size(x)
           /\ \A i \in 1..Size(x) : Bytes(x, k)[i] = [is |-> Encoded(x)[i], of |-> k, at |-> i]
<1> DEFINE e == Encoded(x)
           z == Size(x)
           g == Bytes(x, k)
           B == IF Gatt THEN Byte ELSE LineBytes
<1>1. e \in Seq(B) /\ z \in Nat \ {0}
  <2>1. CASE Gatt
    <3>1. x.kind \in {"response", "notification"}
      BY <2>1 DEF Fit
    <3>2. e \in Seq(Byte) /\ z = HeaderOf(x) + x.payload.size /\ x.payload.size \in Nat
      BY <3>1, FrameItem
    <3>3. z \in Nat \ {0}
      BY <3>2 DEF HeaderOf
    <3> QED
      BY <2>1, <3>2, <3>3
  <2>2. CASE ~Gatt
    <3>1. x.kind \in {"line", "blank"}
      BY <2>2 DEF Fit
    <3>2. e \in Seq(LineBytes) /\ z \in Nat /\ z >= 2
      BY <3>1, LineItem
    <3> QED
      BY <2>2, <3>2
  <2> QED
    BY <2>1, <2>2
<1>2. z = Len(e)
  BY DEF Size
<1> HIDE DEF e, B, z
<1>3. DOMAIN e = 1..z /\ \A i \in 1..z : e[i] \in B
  BY <1>1, <1>2
<1>4. g = [i \in 1..z |-> [is |-> e[i], of |-> k, at |-> i]]
  BY <1>3 DEF Bytes, e
<1>5. \A i \in 1..z : [is |-> e[i], of |-> k, at |-> i] \in StreamByte
  <2> SUFFICES ASSUME NEW i \in 1..z PROVE [is |-> e[i], of |-> k, at |-> i] \in StreamByte
    OBVIOUS
  <2>1. e[i] \in B /\ i \in Nat
    BY <1>1, <1>3
  <2>2. CASE Gatt
    <3>1. e[i] \in Byte
      BY <2>1, <2>2 DEF B
    <3> QED
      BY <2>1, <2>2, <3>1 DEF StreamByte, GattByte
  <2>3. CASE ~Gatt
    <3>1. e[i] \in LineBytes
      BY <2>1, <2>3 DEF B
    <3> QED
      BY <2>1, <2>3, <3>1 DEF StreamByte, LineByte, LineBytes
  <2> QED
    BY <2>2, <2>3
<1>6. g \in [1..z -> StreamByte]
  BY <1>4, <1>5
<1>7. g \in Seq(StreamByte) /\ Len(g) = z
  <2> HIDE DEF g
  <2> QED
    BY <1>1, <1>6
<1>8. \A i \in 1..z : g[i] = [is |-> e[i], of |-> k, at |-> i]
  BY <1>4
<1> QED
  BY <1>1, <1>7, <1>8 DEF z, e

\* What has arrived and what is under way make up one stream.
LEMMA AheadTyped ==
    ASSUME TypeOK
    PROVE  /\ buffer \in Seq(StreamByte) /\ wire \in Seq(StreamByte) /\ Ahead \in Seq(StreamByte)
           /\ Len(buffer) \in Nat /\ Len(wire) \in Nat /\ Len(Ahead) = Len(buffer) + Len(wire)
           /\ \A i \in 1..Len(buffer) : Ahead[i] = buffer[i]
           /\ \A i \in 1..Len(wire) : Ahead[Len(buffer) + i] = wire[i]
<1>1. buffer \in Seq(StreamByte) /\ wire \in Seq(StreamByte)
  BY DEF TypeOK, StreamByte
<1> QED
  BY <1>1 DEF Ahead

WrittenSet(n) == (UNION {Response(k) \cup Answered(k) : k \in 1..n})
                  \cup (UNION {Notification(k) \cup Blank(k) : k \in 1..MaxAsides})

\* What the server writes comes last in the stream, and changes nothing before it.
LEMMA WritesFacts ==
    ASSUME IInv, NEW x \in WrittenSet(sent), Fit(x), Writes(x)
    PROVE  LET n == Len(written)
           IN  /\ Len(written') = n + 1 /\ written'[n + 1] = x
               /\ \A k \in 1..n : written'[k] = written[k]
               /\ written' \in Seq(WrittenSet(sent)) /\ wire' \in Seq(StreamByte)
               /\ WireInv' /\ ParsedInv'
               /\ \A k \in 1..n : Before(k, Ahead', 0) <=> Past(k)
<1> DEFINE n == Len(written)
           b == Bytes(x, n + 1)
           u == Ahead'
<1> USE DEF Writes
<1>1. TypeOK /\ WireInv /\ ServerInv /\ ParsedInv
  BY DEF IInv
<1>2. protocol' = protocol /\ buffer' = buffer /\ parsed' = parsed /\ broken' = broken
  BY DEF client
<1>3. written \in Seq(WrittenSet(sent)) /\ n \in Nat /\ DOMAIN written = 1..n
  BY <1>1 DEF TypeOK, WrittenSet
<1>4. PICK m : ItemOf(x, m)
  <2>1. \/ \E k \in 1..sent : x \in Response(k) \cup Answered(k)
        \/ \E k \in 1..MaxAsides : x \in Notification(k) \cup Blank(k)
    <3>1. CASE x \in UNION {Response(k) \cup Answered(k) : k \in 1..sent}
      BY <3>1
    <3>2. CASE x \in UNION {Notification(k) \cup Blank(k) : k \in 1..MaxAsides}
      BY <3>2
    <3> QED
      BY <3>1, <3>2, Zenon DEF WrittenSet
  <2> QED
    BY <2>1, Zenon DEF ItemOf
<1>5. /\ written' \in Seq(WrittenSet(sent)) /\ Len(written') = n + 1 /\ written'[n + 1] = x
      /\ \A k \in 1..n : written'[k] = written[k]
  BY <1>3
<1>6. Size(x) \in Nat \ {0} /\ b \in Seq(StreamByte) /\ Len(b) = Size(x)
  <2>1. n + 1 \in Nat
    BY <1>3
  <2> QED
    BY <1>4, <2>1, BytesFacts
<1>7. wire' = wire \o b /\ wire' \in Seq(StreamByte)
  <2>1. wire' = wire \o b
    BY <1>5
  <2> HIDE DEF b
  <2> QED
    BY <1>1, <1>6, <2>1, AheadTyped
<1>8. u = Ahead \o b
  <2> HIDE DEF b
  <2>1. (buffer \o wire) \o b = buffer \o (wire \o b)
    <3>1. buffer \in Seq(StreamByte) /\ wire \in Seq(StreamByte) /\ b \in Seq(StreamByte)
      BY <1>1, <1>6, AheadTyped
    <3> QED
      BY <3>1, ConcatAssociative, SMTT(20)
  <2> QED
    BY <1>2, <1>7, <2>1 DEF Ahead
<1>9. Ahead \in Seq(StreamByte) /\ Streams(Ahead, written) /\ Sized(written)
  BY <1>1, AheadTyped, WrittenSized DEF WireInv
<1> HIDE DEF b, u
<1>10. /\ Streams(u, written')
       /\ Aligned(Ahead, 0) => Aligned(u, 0)
       /\ \A k \in 1..n : Before(k, u, 0) <=> Before(k, Ahead, 0)
       /\ ~Before(n + 1, u, 0)
  BY <1>3, <1>6, <1>8, <1>9, StreamGrows DEF b
<1>11. ASSUME ~broken PROVE NothingWithheld'
  <2> SUFFICES ASSUME buffer # <<>> PROVE NothingWithheld'
    BY <1>2 DEF NothingWithheld
  <2> DEFINE k == buffer[1].of
             g == Bytes(written[k], k)
  <2>1. Len(buffer) < Len(g) /\ buffer = SubSeq(g, 1, Len(buffer))
    BY <1>1, <1>11 DEF WireInv, NothingWithheld
  <2>2. k \in 1..n
    <3>1. 1 \in 1..Len(Ahead) /\ Ahead[1] = buffer[1]
      <4>1. Len(buffer) # 0
        BY <1>1, AheadTyped, EmptySeq
      <4>2. 1 \in 1..Len(buffer)
        BY <1>1, <4>1, AheadTyped
      <4> QED
        BY <1>1, <4>2, AheadTyped
    <3> QED
      BY <1>9, <3>1 DEF Streams
  <2>3. Bytes(written'[k], k) = g
    BY <1>5, <2>2
  <2> HIDE DEF k, g
  <2> QED
    BY <1>2, <2>1, <2>3 DEF NothingWithheld, k
<1>12. WireInv'
  <2>1. ~broken => Aligned(Ahead, 0)
    BY <1>1 DEF WireInv
  <2> QED
    BY <1>2, <1>10, <1>11, <2>1 DEF WireInv, u
<1>13. ParsedInv'
  <2> SUFFICES ASSUME ~broken PROVE ParsedInv'
    BY <1>2 DEF ParsedInv
  <2> DEFINE C == CarriedOf(written)
             D == CarriedOf(written')
             c == Len(parsed)
  <2>1. D = IF x.kind # "blank" THEN Append(C, n + 1) ELSE C
    BY <1>3, CarriedGrows
  <2>2. C \in Seq(1..n) /\ \A i \in 1..Len(C) : C[i] \in 1..n
    BY <1>3, CarriedFacts
  <2>3. /\ c \in 0..Len(C)
        /\ \A i \in 1..Len(C) : i <= c <=> Before(C[i], Ahead, 0)
        /\ \A i \in 1..c : parsed[i] = [id |-> C[i], whole |-> TRUE] /\ Good(written[C[i]])
    BY <1>1 DEF ParsedInv, Counted, Carried, CarriedOf
  <2> HIDE DEF C, D, c
  <2>4. /\ Len(C) \in Nat /\ Len(D) \in {Len(C), Len(C) + 1} /\ \A i \in 1..Len(C) : D[i] = C[i]
        /\ Len(D) = Len(C) + 1 => D[Len(C) + 1] = n + 1
    <3>1. n + 1 \in Nat /\ C \in Seq(Nat)
      <4>1. 1..n \subseteq Nat
        BY <1>3
      <4> QED
        BY <1>3, <2>2, <4>1, SeqMonotonic
    <3>2. CASE D = Append(C, n + 1)
      BY <3>1, <3>2
    <3>3. CASE D = C
      <4>1. Len(C) \in Nat /\ Len(C) # Len(C) + 1
        BY <3>1
      <4> QED
        BY <3>3, <4>1
    <3> QED
      BY <2>1, <3>2, <3>3
  <2>5. c \in 0..Len(D)
    BY <2>3, <2>4
  <2>6. \A i \in 1..Len(D) : i <= c <=> Before(D[i], u, 0)
    <3> SUFFICES ASSUME NEW i \in 1..Len(D) PROVE i <= c <=> Before(D[i], u, 0)
      OBVIOUS
    <3>1. CASE i \in 1..Len(C)
      BY <1>10, <2>2, <2>3, <2>4, <3>1
    <3>2. CASE i \notin 1..Len(C)
      <4>1. i = Len(C) + 1 /\ D[i] = n + 1
        BY <2>4, <3>2
      <4>2. ~(i <= c)
        BY <2>3, <2>4, <4>1
      <4> QED
        BY <1>10, <4>1, <4>2
    <3> QED
      BY <3>1, <3>2
  <2>7. \A i \in 1..c : parsed[i] = [id |-> D[i], whole |-> TRUE] /\ Good(written'[D[i]])
    <3> SUFFICES ASSUME NEW i \in 1..c
                 PROVE  parsed[i] = [id |-> D[i], whole |-> TRUE] /\ Good(written'[D[i]])
      OBVIOUS
    <3>1. i \in 1..Len(C)
      BY <2>3, <2>4
    <3>2. D[i] = C[i] /\ written'[C[i]] = written[C[i]]
      BY <1>5, <2>2, <2>4, <3>1
    <3> QED
      BY <2>3, <3>2
  <2>8. Counted(c, u, 0, written')
    BY <2>5, <2>6 DEF Counted, D
  <2>9. Carried' = D
    BY DEF Carried, CarriedOf, D
  <2> QED
    BY <1>2, <2>7, <2>8, <2>9 DEF ParsedInv, u, c
<1>14. \A k \in 1..n : Before(k, u, 0) <=> Past(k)
  BY <1>10 DEF Past
<1> QED
  BY <1>5, <1>7, <1>12, <1>13, <1>14 DEF u

\* The server writes an item, and if it is an answer, then to the next request.
LEMMA WritesIInv ==
    ASSUME IInv, NEW x \in WrittenSet(sent), Fit(x), Writes(x), toServer' \in Seq(1..sent),
           \A i, j \in 1..Len(toServer') : i < j => toServer'[i] < toServer'[j],
           \A i \in 1..Len(toServer') : \E j \in 1..Len(toServer) : toServer'[i] = toServer[j],
           x.kind \in {"response", "line"} =>
              /\ x.id \in 1..sent
              /\ \A k \in 1..Len(written) : Answers(k) => written[k].id < x.id
              /\ \A i \in 1..Len(toServer') : x.id < toServer'[i]
              /\ ~troubled => x.id = sent /\ call = "request"
    PROVE  IInv'
<1> DEFINE n == Len(written)
<1>1. TypeOK /\ WireInv /\ ServerInv /\ OrderInv /\ MatchInv /\ ParsedInv /\ NotesKept
  BY DEF IInv
<1>2. /\ protocol' = protocol /\ call' = call /\ sent' = sent /\ mute' = mute /\ hungUp' = hungUp
      /\ buffer' = buffer /\ responses' = responses /\ notes' = notes /\ answers' = answers
      /\ heard' = heard /\ parsed' = parsed /\ broken' = broken /\ troubled' = troubled
  BY DEF Writes, client
<1>3. /\ Len(written') = n + 1 /\ written'[n + 1] = x
      /\ \A k \in 1..n : written'[k] = written[k]
      /\ written' \in Seq(WrittenSet(sent)) /\ wire' \in Seq(StreamByte)
      /\ WireInv' /\ ParsedInv'
      /\ \A k \in 1..n : Before(k, Ahead', 0) <=> Past(k)
  BY WritesFacts
<1>4. /\ n \in Nat /\ DOMAIN written = 1..n
      /\ Len(answers) \in Nat /\ DOMAIN answers = 1..Len(answers)
      /\ \A i \in 1..Len(answers) : answers[i].item.id \in 1..n
      /\ Len(responses) \in Nat
      /\ \A i \in 1..Len(responses) : responses[i].id \in 1..n
  BY <1>1, TypeFacts
<1> DEFINE v == written'
           u == Ahead'
<1>5. DOMAIN v = 1..(n + 1)
  BY <1>3
<1> HIDE DEF n, v, u
<1>6. 1..n \subseteq 1..(n + 1) /\ \A k \in 1..(n + 1) : k # n + 1 => k \in 1..n
  BY <1>4
<1>7. Gatt' = Gatt
  BY <1>2 DEF Gatt
<1>8. TypeOK'
  <2>1. Item \subseteq Item'
    BY <1>4, <1>5, <1>6 DEF Item, v
  <2>2. {responses', notes', heard', parsed'} \subseteq Seq(Item')
    <3>1. responses \in Seq(Item) /\ notes \in Seq(Item) /\ heard \in Seq(Item) /\ parsed \in Seq(Item)
      BY <1>1 DEF TypeOK
    <3> DEFINE I == Item
               J == Item'
    <3>2. I \subseteq J /\ responses \in Seq(I) /\ notes \in Seq(I) /\ heard \in Seq(I) /\ parsed \in Seq(I)
      BY <2>1, <3>1
    <3> HIDE DEF I, J
    <3>3. responses \in Seq(J) /\ notes \in Seq(J) /\ heard \in Seq(J) /\ parsed \in Seq(J)
      BY <3>2, SeqMonotonic
    <3> QED
      BY <1>2, <3>3 DEF J
  <2>3. answers' \in Seq([request : 1..sent', item : Item'])
    <3> DEFINE R == [request : 1..sent, item : Item]
               S == [request : 1..sent, item : Item']
    <3>1. R \subseteq S
      BY <2>1
    <3>2. answers \in Seq(R)
      BY <1>1 DEF TypeOK
    <3> HIDE DEF R, S
    <3>3. answers \in Seq(S)
      BY <3>1, <3>2, SeqMonotonic
    <3> QED
      BY <1>2, <3>3 DEF S
  <2>4. /\ protocol' \in {"gatt", "control"}
        /\ call' \in {"none", "request", "next_notification"}
        /\ sent' \in 0..MaxRequests /\ mute' \subseteq 1..sent'
        /\ hungUp' \in BOOLEAN /\ broken' \in BOOLEAN /\ troubled' \in BOOLEAN
        /\ buffer' \in Seq(IF Gatt' THEN GattByte ELSE LineByte)
        /\ ~broken' => Len(buffer') <= IF Gatt' THEN 3 + MaxPayload ELSE MaxLine
    BY <1>1, <1>2, <1>7 DEF TypeOK
  <2>5. /\ toServer' \in Seq(1..sent') /\ wire' \in Seq(IF Gatt' THEN GattByte ELSE LineByte)
        /\ written' \in Seq((UNION {Response(k) \cup Answered(k) : k \in 1..sent'})
                             \cup (UNION {Notification(k) \cup Blank(k) : k \in 1..MaxAsides}))
    BY <1>2, <1>3, <1>7 DEF StreamByte, WrittenSet
  <2> QED
    BY <2>2, <2>3, <2>4, <2>5, Zenon DEF TypeOK
<1>9. ServerInv'
  <2>1. /\ \A k \in 1..n : written[k].kind \in IF Gatt THEN {"response", "notification"} ELSE {"line", "blank"}
        /\ \A k \in 1..n : Answers(k) =>
              written[k].id \in 1..sent /\ \A i \in 1..Len(toServer) : written[k].id < toServer[i]
        /\ \A j, k \in 1..n : Answers(j) /\ Answers(k) /\ j < k => written[j].id < written[k].id
    BY <1>1 DEF ServerInv, n
  <2> DEFINE A(k) == v[k].kind \in {"response", "line"}
  <2>2. \A k \in 1..n : v[k] = written[k] /\ (A(k) <=> Answers(k))
    BY <1>3 DEF Answers, v
  <2>3. v[n + 1] = x
    BY <1>3 DEF v
  <2>4. ASSUME NEW k \in 1..(n + 1)
        PROVE  /\ v[k].kind \in IF Gatt THEN {"response", "notification"} ELSE {"line", "blank"}
               /\ A(k) => v[k].id \in 1..sent /\ \A i \in 1..Len(toServer') : v[k].id < toServer'[i]
    <3>1. CASE k = n + 1
      BY <2>3, <3>1 DEF Fit
    <3>2. CASE k # n + 1
      BY <1>6, <2>1, <2>2, <3>2
    <3> QED
      BY <3>1, <3>2
  <2>5. ASSUME NEW j \in 1..(n + 1), NEW k \in 1..(n + 1), A(j), A(k), j < k PROVE v[j].id < v[k].id
    <3>1. j \in 1..n
      BY <1>4, <2>5
    <3>2. CASE k = n + 1
      BY <2>2, <2>3, <2>5, <3>1, <3>2 DEF n
    <3>3. CASE k # n + 1
      BY <1>6, <2>1, <2>2, <2>5, <3>1, <3>3
    <3> QED
      BY <3>2, <3>3
  <2>6. \A k : Answers(k)' <=> A(k)
    BY DEF Answers, v
  <2>7. Len(written') = n + 1
    BY <1>3
  <2> HIDE DEF A
  <2> QED
    BY <1>2, <1>7, <2>4, <2>5, <2>6, <2>7 DEF ServerInv, v
<1>10. \A k \in 1..n : Answers(k) => v[k].kind \in {"response", "line"}
  BY <1>3 DEF Answers, v
<1>11. OrderInv'
  <2> SUFFICES ASSUME ~(Gatt /\ broken) PROVE OrderInv'
    BY <1>2, <1>7 DEF OrderInv
  <2> DEFINE Done(k) == v[k].kind \in {"response", "line"} /\ Before(k, u, 0)
  <2>1. \A k \in 1..n : Answers(k) /\ Past(k) => Done(k)
    BY <1>3, <1>10 DEF u
  <2>2. /\ \A i, j \in 1..Len(answers) : i < j => answers[i].item.id < answers[j].item.id
        /\ \A i \in 1..Len(answers) : written[answers[i].item.id].id <= answers[i].request
        /\ \A i, j \in 1..Len(responses) : i < j => responses[i].id < responses[j].id
        /\ \A i \in 1..Len(answers), j \in 1..Len(responses) : answers[i].item.id < responses[j].id
        /\ \A i \in 1..Len(answers) : Answers(answers[i].item.id) /\ Past(answers[i].item.id)
        /\ \A i \in 1..Len(responses) : Answers(responses[i].id) /\ Past(responses[i].id)
    BY <1>1, <1>4 DEF OrderInv, NeverShuffled
  <2>3. \A i \in 1..Len(answers) : v[answers[i].item.id].id <= answers[i].request
    BY <1>3, <1>4, <2>2 DEF v
  <2> HIDE DEF Done
  <2>4. /\ \A i \in 1..Len(answers) : Done(answers[i].item.id)
        /\ \A i \in 1..Len(responses) : Done(responses[i].id)
    BY <1>4, <2>1, <2>2
  <2>5. NeverShuffled'
    BY <1>2, <1>4, <2>2, <2>3 DEF NeverShuffled, v
  <2> QED
    BY <1>2, <2>2, <2>4, <2>5 DEF OrderInv, Answers, Past, Done, v, u
<1>12. MatchInv'
  <2> SUFFICES ASSUME ~troubled PROVE MatchInv'
    BY <1>2 DEF MatchInv
  <2>1. /\ \A i \in 1..Len(answers) : LET item == answers[i].item
                           IN  /\ item.whole /\ written[item.id].kind \in {"response", "line"}
                               /\ written[item.id].id = answers[i].request
        /\ \A i \in 1..Len(responses) :
               responses[i].whole /\ written[responses[i].id].id = sent /\ call = "request"
        /\ \A i \in 1..Len(toServer) : toServer[i] \notin mute => toServer[i] = sent /\ call = "request"
        /\ \A k \in 1..n : Answers(k) /\ ~Past(k) => written[k].id = sent /\ call = "request"
    BY <1>1, <1>4 DEF MatchInv, MatchedUntilTrouble, n
  <2>2. MatchedUntilTrouble'
    <3>1. ASSUME NEW i \in 1..Len(answers)
          PROVE  LET item == answers[i].item
                 IN  /\ item.whole /\ v[item.id].kind \in {"response", "line"}
                     /\ v[item.id].id = answers[i].request
      BY <1>3, <1>4, <2>1 DEF v
    <3> QED
      BY <1>2, <1>4, <3>1 DEF MatchedUntilTrouble, v
  <2>3. \A i \in 1..Len(responses) :
               responses[i].whole /\ v[responses[i].id].id = sent /\ call = "request"
    BY <1>3, <1>4, <2>1 DEF v
  <2>4. \A i \in 1..Len(toServer') : toServer'[i] \notin mute => toServer'[i] = sent /\ call = "request"
    BY <2>1
  <2>5. ASSUME NEW k \in 1..(n + 1), v[k].kind \in {"response", "line"}, ~Before(k, u, 0)
        PROVE  v[k].id = sent /\ call = "request"
    <3>1. CASE k = n + 1
      BY <1>3, <2>5, <3>1 DEF v
    <3>2. CASE k # n + 1
      <4>1. k \in 1..n /\ v[k] = written[k] /\ ~Past(k)
        BY <1>3, <1>6, <2>5, <3>2 DEF v, u
      <4> QED
        BY <2>1, <2>5, <4>1 DEF Answers
    <3> QED
      BY <3>1, <3>2
  <2>6. Len(written') = n + 1
    BY <1>3
  <2> QED
    BY <1>2, <2>2, <2>3, <2>4, <2>5, <2>6 DEF MatchInv, Answers, Past, v, u
<1>13. NotesKept'
  <2> SUFFICES ASSUME ~troubled PROVE NotesKept'
    BY <1>2 DEF NotesKept
  <2>1. parsed \in Seq(Item) /\ \A i \in 1..Len(parsed) : parsed[i].id \in 1..n
    <3>1. parsed \in Seq(Item)
      BY <1>1 DEF TypeOK
    <3>2. \A y \in Item : y.id \in 1..n
      BY <1>4 DEF Item
    <3> QED
      BY <3>1, <3>2
  <2> DEFINE P == {i \in DOMAIN parsed : written[parsed[i].id].kind = "notification"}
             Q == {i \in DOMAIN parsed : v[parsed[i].id].kind = "notification"}
  <2>2. \A i \in 1..Len(parsed) : i \in P <=> i \in Q
    BY <1>3, <2>1 DEF v
  <2>3. heard \o notes = Chosen(parsed, P)
    BY <1>1 DEF NotesKept
  <2> HIDE DEF P, Q
  <2>4. Chosen(parsed, P) = Chosen(parsed, Q)
    BY <2>1, <2>2, ChosenLocal
  <2> QED
    BY <1>2, <2>3, <2>4, Zenon DEF NotesKept, Q, v
<1>14. (broken' => troubled') /\ (call' = "request" => sent' > 0)
  BY <1>2 DEF IInv
<1> QED
  BY <1>3, <1>8, <1>9, <1>11, <1>12, <1>13, <1>14 DEF IInv

\* The server notifies, or keeps the connection busy with an empty line.
LEMMA NotifyIInv == ASSUME IInv, Notify PROVE IInv'
<1>1. TypeOK /\ ServerInv
  BY DEF IInv
<1> DEFINE a == Asides + 1
<1>2. a \in 1..MaxAsides
  <2>1. Asides < MaxAsides /\ MaxAsides \in Nat
    BY ClientsAssumption DEF Notify
  <2>2. Asides \in Nat
    <3> DEFINE K == {k \in DOMAIN written : written[k].kind \in {"notification", "blank"}}
    <3>1. DOMAIN written = 1..Len(written) /\ Len(written) \in Nat
      BY <1>1, WrittenItems
    <3>2. IsFiniteSet(1..Len(written))
      BY <3>1, FS_Interval
    <3>3. IsFiniteSet(K)
      BY <3>1, <3>2, FS_Subset
    <3>4. Cardinality(K) \in Nat
      BY <3>3, FS_CardinalityType
    <3> QED
      BY <3>4, Zenon DEF Asides
  <2> QED
    BY <2>1, <2>2
<1> HIDE DEF a
<1>3. PICK x \in (IF Gatt THEN Notification(a) ELSE Blank(a)) : Writes(x)
  BY DEF Notify, a
<1>4. x \in Notification(a) \cup Blank(a) /\ Fit(x) /\ x.kind \in {"notification", "blank"}
  BY <1>3 DEF Notification, Blank, Fit
<1>5. x \in WrittenSet(sent)
  <2>1. x \in UNION {Notification(k) \cup Blank(k) : k \in 1..MaxAsides}
    BY <1>2, <1>4, Zenon
  <2> QED
    BY <2>1, Zenon DEF WrittenSet
<1>6. toServer' = toServer /\ toServer \in Seq(1..sent)
      /\ \A i, j \in 1..Len(toServer) : i < j => toServer[i] < toServer[j]
  BY <1>1 DEF Notify, TypeOK, ServerInv
<1> QED
  BY <1>3, <1>4, <1>5, <1>6, WritesIInv

\* A request that has been served is gone.
LEMMA ServedFacts ==
    ASSUME IInv, toServer # <<>>, NEW q, q = Tail(toServer)
    PROVE  /\ q \in Seq(1..sent) /\ 1 \in 1..Len(toServer) /\ Head(toServer) = toServer[1]
           /\ \A i, j \in 1..Len(q) : i < j => q[i] < q[j]
           /\ \A i \in 1..Len(q) : \E j \in 1..Len(toServer) : q[i] = toServer[j]
           /\ \A i \in 1..Len(q) : toServer[1] < q[i]
<1>1. TypeOK /\ ServerInv /\ toServer \in Seq(1..sent)
  BY DEF IInv, TypeOK
<1>2. /\ Head(toServer) = toServer[1] /\ q \in Seq(1..sent) /\ Len(toServer) \in Nat \ {0}
      /\ Len(q) = Len(toServer) - 1 /\ \A i \in 1..Len(q) : q[i] = toServer[i + 1]
  BY <1>1, TailFacts
<1>3. \A i \in 1..Len(q) : i + 1 \in 1..Len(toServer) /\ 1 < i + 1
  BY <1>2
<1>4. 1 \in 1..Len(toServer)
  BY <1>2
<1>5. \A i, j \in 1..Len(toServer) : i < j => toServer[i] < toServer[j]
  BY <1>1 DEF ServerInv
<1>6. \A i, j \in 1..Len(q) : i < j => i + 1 < j + 1
  OBVIOUS
<1> QED
  BY <1>2, <1>3, <1>4, <1>5, <1>6

\* The server answers the oldest request.
LEMMA AnswerIInv == ASSUME IInv, Answer PROVE IInv'
<1>1. TypeOK /\ ServerInv /\ MatchInv /\ toServer # <<>> /\ toServer' = Tail(toServer)
  BY DEF IInv, Answer
<1> DEFINE h == Head(toServer)
<1>2. /\ toServer' \in Seq(1..sent) /\ 1 \in 1..Len(toServer) /\ h = toServer[1]
      /\ \A i, j \in 1..Len(toServer') : i < j => toServer'[i] < toServer'[j]
      /\ \A i \in 1..Len(toServer') : \E j \in 1..Len(toServer) : toServer'[i] = toServer[j]
      /\ \A i \in 1..Len(toServer') : toServer[1] < toServer'[i]
  BY <1>1, ServedFacts
<1>3. h \in 1..sent
  BY <1>1, <1>2, TypeFacts
<1>4. h \notin mute
  BY DEF Answer
<1>5. PICK x \in (IF Gatt THEN Response(h) ELSE Answered(h)) : Writes(x)
  BY DEF Answer
<1> HIDE DEF h
<1>6. x \in Response(h) \cup Answered(h) /\ Fit(x) /\ x.id = h
  BY <1>5 DEF Response, Answered, Fit
<1>7. x \in WrittenSet(sent)
  <2>1. x \in UNION {Response(k) \cup Answered(k) : k \in 1..sent}
    BY <1>3, <1>6, Zenon
  <2> QED
    BY <2>1, Zenon DEF WrittenSet
<1>8. \A k \in 1..Len(written) : Answers(k) => written[k].id < x.id
  BY <1>1, <1>2, <1>6 DEF ServerInv
<1>9. ~troubled => x.id = sent /\ call = "request"
  BY <1>1, <1>2, <1>4, <1>6 DEF MatchInv
<1> QED
  BY <1>2, <1>3, <1>5, <1>6, <1>7, <1>8, <1>9, WritesIInv

\* The server has no answer to the oldest request.
LEMMA ObeyIInv == ASSUME IInv, Obey PROVE IInv'
<1>1. TypeOK /\ WireInv /\ ServerInv /\ OrderInv /\ MatchInv /\ ParsedInv /\ NotesKept
  BY DEF IInv
<1>2. /\ protocol' = protocol /\ call' = call /\ sent' = sent /\ mute' = mute /\ hungUp' = hungUp
      /\ written' = written /\ wire' = wire
      /\ buffer' = buffer /\ responses' = responses /\ notes' = notes /\ answers' = answers
      /\ heard' = heard /\ parsed' = parsed /\ broken' = broken /\ troubled' = troubled
  BY DEF Obey, client
<1>3. /\ Gatt' = Gatt /\ WireInv' /\ ParsedInv'
      /\ \A k : Past(k)' <=> Past(k)
      /\ \A k : Answers(k)' <=> Answers(k)
  BY <1>2, Unparsed
<1>4. /\ toServer' \in Seq(1..sent)
      /\ \A i, j \in 1..Len(toServer') : i < j => toServer'[i] < toServer'[j]
      /\ \A i \in 1..Len(toServer') : \E j \in 1..Len(toServer) : toServer'[i] = toServer[j]
  BY ServedFacts DEF Obey
<1>5. TypeOK'
  <2>1. Item' = Item
    BY <1>2, Zenon DEF Item
  <2>2. toServer' \in Seq(1..sent')
    BY <1>2, <1>4
  <2> QED
    BY <1>1, <1>2, <1>3, <2>1, <2>2, Zenon DEF TypeOK
<1>6. ServerInv'
  <2>1. /\ \A k \in 1..Len(written) : written[k].kind \in IF Gatt THEN {"response", "notification"} ELSE {"line", "blank"}
        /\ \A k \in 1..Len(written) : Answers(k) =>
              written[k].id \in 1..sent /\ \A i \in 1..Len(toServer) : written[k].id < toServer[i]
        /\ \A j, k \in 1..Len(written) : Answers(j) /\ Answers(k) /\ j < k => written[j].id < written[k].id
    BY <1>1 DEF ServerInv
  <2>2. \A k \in 1..Len(written) : Answers(k) =>
              written[k].id \in 1..sent /\ \A i \in 1..Len(toServer') : written[k].id < toServer'[i]
    BY <1>4, <2>1
  <2> QED
    BY <1>2, <1>3, <1>4, <2>1, <2>2, Zenon DEF ServerInv
<1>7. OrderInv'
  BY <1>1, <1>2, OrderSame
<1>8. MatchInv'
  <2> SUFFICES ASSUME ~troubled PROVE MatchInv'
    BY <1>2 DEF MatchInv
  <2>1. /\ MatchedUntilTrouble
        /\ \A i \in 1..Len(responses) :
               responses[i].whole /\ written[responses[i].id].id = sent /\ call = "request"
        /\ \A i \in 1..Len(toServer) : toServer[i] \notin mute => toServer[i] = sent /\ call = "request"
        /\ \A k \in 1..Len(written) : Answers(k) /\ ~Past(k) => written[k].id = sent /\ call = "request"
    BY <1>1 DEF MatchInv
  <2>2. MatchedUntilTrouble'
    BY <1>2, <2>1 DEF MatchedUntilTrouble
  <2>3. \A i \in 1..Len(toServer') : toServer'[i] \notin mute => toServer'[i] = sent /\ call = "request"
    BY <1>4, <2>1
  <2> QED
    BY <1>2, <1>3, <2>1, <2>2, <2>3, Zenon DEF MatchInv
<1>9. NotesKept'
  BY <1>1, <1>2, NotesSame
<1>10. (broken' => troubled') /\ (call' = "request" => sent' > 0)
  BY <1>2 DEF IInv
<1> QED
  BY <1>3, <1>5, <1>6, <1>7, <1>8, <1>9, <1>10 DEF IInv

\* The server hangs up.
LEMMA HangUpIInv == ASSUME IInv, UNCHANGED <<protocol, client, toServer, written, wire>>, hungUp' \in BOOLEAN
                    PROVE  IInv'
<1>1. TypeOK /\ WireInv /\ ServerInv /\ OrderInv /\ MatchInv /\ ParsedInv /\ NotesKept
  BY DEF IInv
<1>2. /\ protocol' = protocol /\ call' = call /\ sent' = sent /\ mute' = mute
      /\ toServer' = toServer /\ written' = written /\ wire' = wire
      /\ buffer' = buffer /\ responses' = responses /\ notes' = notes /\ answers' = answers
      /\ heard' = heard /\ parsed' = parsed /\ broken' = broken /\ troubled' = troubled
  BY DEF client
<1>3. /\ Gatt' = Gatt /\ WireInv' /\ ParsedInv'
      /\ \A k : Past(k)' <=> Past(k)
      /\ \A k : Answers(k)' <=> Answers(k)
  BY <1>2, Unparsed
<1>4. TypeOK'
  <2>1. Item' = Item
    BY <1>2, Zenon DEF Item
  <2> QED
    BY <1>1, <1>2, <1>3, <2>1, Zenon DEF TypeOK
<1>5. ServerInv'
  BY <1>1, <1>2, ServerSame
<1>6. OrderInv'
  BY <1>1, <1>2, OrderSame
<1>7. MatchInv'
  <2>1. MatchedUntilTrouble' <=> MatchedUntilTrouble
    BY <1>2 DEF MatchedUntilTrouble
  <2> QED
    BY <1>1, <1>2, <1>3, <2>1, Zenon DEF MatchInv
<1>8. NotesKept'
  BY <1>1, <1>2, NotesSame
<1>9. (broken' => troubled') /\ (call' = "request" => sent' > 0)
  BY <1>2 DEF IInv
<1> QED
  BY <1>3, <1>4, <1>5, <1>6, <1>7, <1>8, <1>9 DEF IInv

\* A new connection after an old one.
LEMMA ReconnectIInv == ASSUME IInv, Reconnect PROVE IInv'
<1> USE DEF Reconnect
<1>0. protocol \in {"gatt", "control"}
  BY DEF IInv, TypeOK
<1>1. TypeOK'
  <2>1. sent' \in 0..MaxRequests /\ mute' \subseteq 1..sent'
    BY ClientsAssumption
  <2>2. \A S : <<>> \in Seq(S)
    OBVIOUS
  <2>3. Len(buffer') <= IF Gatt' THEN 3 + MaxPayload ELSE MaxLine
    BY PayloadAssumption, LineAssumption
  <2> QED
    BY <1>0, <2>1, <2>2, <2>3, Zenon DEF TypeOK
<1>2. Ahead' = <<>> /\ Carried' = <<>> /\ CarriedOf(written') = <<>>
  <2>1. Ahead' = <<>>
    BY DEF Ahead
  <2>2. [k \in DOMAIN written' |-> k] = <<>>
    OBVIOUS
  <2> QED
    BY <2>1, <2>2, ChosenEmpty, Zenon DEF Carried, CarriedOf
<1>3. WireInv'
  BY <1>2 DEF WireInv, Streams, Aligned, NothingWithheld
<1>4. ServerInv' /\ OrderInv' /\ MatchInv'
  BY DEF ServerInv, OrderInv, NeverShuffled, MatchInv, MatchedUntilTrouble
<1>5. ParsedInv'
  BY <1>2 DEF ParsedInv, Counted
<1>6. NotesKept'
  <2>1. Chosen(parsed', {i \in DOMAIN parsed' : written'[parsed'[i].id].kind = "notification"}) = <<>>
    BY ChosenEmpty, Zenon
  <2> QED
    BY <2>1 DEF NotesKept
<1> QED
  BY <1>1, <1>3, <1>4, <1>5, <1>6 DEF IInv

-----------------------------------------------------------------------------
(* _receive: a recv, feed, and what the queues get.                          *)

Feed(chunk) == IF Gatt THEN FeedFrames(chunk) ELSE FeedLines(chunk)

\* Two sequences, one after the other.
LEMMA Joined ==
    ASSUME NEW B, NEW a \in Seq(B), NEW b \in Seq(B)
    PROVE  /\ a \o b \in Seq(B) /\ Len(a \o b) = Len(a) + Len(b)
           /\ \A i \in 1..Len(a) : (a \o b)[i] = a[i]
           /\ \A i \in 1..Len(b) : (a \o b)[Len(a) + i] = b[i]
  OBVIOUS

\* A chunk is the beginning of what is ahead.
LEMMA ChunkReads ==
    ASSUME TypeOK, NEW n \in 1..Len(wire)
    PROVE  Reads(buffer \o SubSeq(wire, 1, n), Ahead, Len(buffer) + n)
<1> DEFINE w == SubSeq(wire, 1, n)
           c == buffer \o w
           m == Len(buffer) + n
           d == SubSeq(Ahead, 1, m)
<1>1. /\ buffer \in Seq(StreamByte) /\ wire \in Seq(StreamByte) /\ Ahead \in Seq(StreamByte)
      /\ Len(buffer) \in Nat /\ Len(wire) \in Nat /\ Len(Ahead) = Len(buffer) + Len(wire)
      /\ \A i \in 1..Len(buffer) : Ahead[i] = buffer[i]
      /\ \A i \in 1..Len(wire) : Ahead[Len(buffer) + i] = wire[i]
  BY AheadTyped
<1>2. m \in 0..Len(Ahead) /\ m \in Nat /\ n \in Nat
  BY <1>1
<1>3. w \in Seq(StreamByte) /\ Len(w) = n /\ \A i \in 1..n : w[i] = wire[i]
  BY <1>1
<1> HIDE DEF w
<1>4. /\ c \in Seq(StreamByte) /\ Len(c) = m /\ \A i \in 1..Len(buffer) : c[i] = buffer[i]
      /\ \A i \in 1..n : c[Len(buffer) + i] = w[i]
  <2>1. /\ c \in Seq(StreamByte) /\ Len(c) = Len(buffer) + Len(w)
        /\ \A i \in 1..Len(buffer) : c[i] = buffer[i]
        /\ \A i \in 1..Len(w) : c[Len(buffer) + i] = w[i]
    <3>1. buffer \in Seq(StreamByte) /\ w \in Seq(StreamByte)
      BY <1>1, <1>3
    <3> QED
      BY <3>1, Joined
  <2> HIDE DEF c
  <2> QED
    BY <1>3, <2>1
<1>5. d \in Seq(StreamByte) /\ Len(d) = m /\ \A i \in 1..m : d[i] = Ahead[i]
  BY <1>1, <1>2
<1> HIDE DEF c, d
<1>6. \A i \in 1..m : c[i] = d[i]
  <2> SUFFICES ASSUME NEW i \in 1..m PROVE c[i] = d[i]
    OBVIOUS
  <2>1. CASE i \in 1..Len(buffer)
    BY <1>1, <1>4, <1>5, <2>1
  <2>2. CASE i \notin 1..Len(buffer)
    <3>1. i - Len(buffer) \in 1..n /\ i - Len(buffer) \in 1..Len(wire) /\ Len(buffer) + (i - Len(buffer)) = i
      BY <1>1, <1>2, <2>2
    <3>2. c[i] = w[i - Len(buffer)] /\ d[i] = wire[i - Len(buffer)]
      BY <1>1, <1>4, <1>5, <3>1
    <3> QED
      BY <1>3, <3>1, <3>2
  <2> QED
    BY <2>1, <2>2
<1>7. c = d
  BY <1>4, <1>5, <1>6, SeqEqual
<1> QED
  BY <1>2, <1>7 DEF Reads, c, w, d

\* What feed leaves, and what is still on its way.
LEMMA RestAhead ==
    ASSUME TypeOK, NEW n \in 1..Len(wire), NEW l \in 0..(Len(buffer) + n)
    PROVE  LET c == buffer \o SubSeq(wire, 1, n)
               q == Len(buffer) + n - l
               t == SubSeq(wire, n + 1, Len(wire))
           IN  /\ q \in 0..Len(Ahead) /\ t \in Seq(StreamByte) /\ Suffix(c, l) \in Seq(StreamByte)
               /\ Len(Suffix(c, l)) = l
               /\ Suffix(c, l) \o t = SubSeq(Ahead, q + 1, Len(Ahead))
<1> DEFINE c == buffer \o SubSeq(wire, 1, n)
           m == Len(buffer) + n
           q == m - l
           t == SubSeq(wire, n + 1, Len(wire))
           r == Suffix(c, l)
           u == r \o t
           d == SubSeq(Ahead, q + 1, Len(Ahead))
<1>1. /\ wire \in Seq(StreamByte) /\ Ahead \in Seq(StreamByte)
      /\ Len(buffer) \in Nat /\ Len(wire) \in Nat /\ Len(Ahead) = Len(buffer) + Len(wire)
      /\ \A i \in 1..Len(wire) : Ahead[Len(buffer) + i] = wire[i]
  BY AheadTyped
<1>2. Reads(c, Ahead, m)
  BY ChunkReads
<1> HIDE DEF c
<1>3. m \in Nat /\ n \in Nat /\ l \in Nat /\ q \in Nat /\ q \in 0..Len(Ahead) /\ q <= m /\ q + l = m
  BY <1>1
<1>4. r \in Seq(StreamByte) /\ Len(r) = l /\ \A i \in 1..l : r[i] = Ahead[(m - l) + i]
  <2> DEFINE k == m
  <2>1. l \in 0..k /\ Reads(c, Ahead, k)
    BY <1>2, <1>3
  <2> HIDE DEF k, m
  <2>2. r \in Seq(StreamByte) /\ Len(r) = l /\ \A i \in 1..l : r[i] = Ahead[(k - l) + i]
    <3>1. /\ Suffix(c, l) \in Seq(StreamByte) /\ Len(Suffix(c, l)) = l
          /\ \A i \in 1..l : Suffix(c, l)[i] = Ahead[(k - l) + i] /\ Ahead[(k - l) + i] \in StreamByte
      <4> DEFINE A == Ahead
      <4>1. A \in Seq(StreamByte) /\ l \in 0..k /\ Reads(c, A, k)
        BY <1>1, <2>1
      <4> HIDE DEF A
      <4>2. /\ Suffix(c, l) \in Seq(StreamByte) /\ Len(Suffix(c, l)) = l
            /\ \A i \in 1..l : Suffix(c, l)[i] = A[(k - l) + i] /\ A[(k - l) + i] \in StreamByte
        BY <4>1, ReadsFacts, SMTT(20)
      <4> QED
        BY <4>2 DEF A
    <3> QED
      BY <3>1, Zenon DEF r
  <2>3. k = m
    BY DEF k
  <2> HIDE DEF r
  <2> QED
    BY <2>2, <2>3
<1>5. t \in Seq(StreamByte) /\ Len(t) = Len(wire) - n /\ \A i \in 1..Len(t) : t[i] = wire[n + i]
  BY <1>1
<1> HIDE DEF r, t
<1>6. /\ u \in Seq(StreamByte) /\ Len(u) = l + (Len(wire) - n) /\ \A i \in 1..l : u[i] = r[i]
      /\ \A i \in 1..Len(t) : u[l + i] = t[i]
  <2>1. /\ u \in Seq(StreamByte) /\ Len(u) = Len(r) + Len(t) /\ \A i \in 1..Len(r) : u[i] = r[i]
        /\ \A i \in 1..Len(t) : u[Len(r) + i] = t[i]
    <3>1. r \in Seq(StreamByte) /\ t \in Seq(StreamByte)
      BY <1>4, <1>5
    <3> QED
      BY <3>1, Joined
  <2> HIDE DEF u
  <2> QED
    BY <1>4, <1>5, <2>1
<1>7. d \in Seq(StreamByte) /\ Len(d) = Len(Ahead) - q /\ \A i \in 1..Len(d) : d[i] = Ahead[q + i]
  <2>1. Ahead \in Seq(StreamByte) /\ q \in 0..Len(Ahead) /\ q \in Nat
    BY <1>1, <1>3
  <2> HIDE DEF q
  <2> QED
    BY <2>1
<1> HIDE DEF u, d
<1>8. Len(u) = Len(d) /\ Len(u) \in Nat
  BY <1>1, <1>3, <1>6, <1>7
<1>9. \A i \in 1..Len(u) : u[i] = d[i]
  <2> SUFFICES ASSUME NEW i \in 1..Len(u) PROVE u[i] = d[i]
    OBVIOUS
  <2>1. CASE i \in 1..l
    BY <1>4, <1>6, <1>7, <1>8, <2>1
  <2>2. CASE i \notin 1..l
    <3> DEFINE j == i - l
    <3>1. j \in 1..Len(t) /\ l + j = i /\ n + j \in 1..Len(wire) /\ Len(buffer) + (n + j) = q + i
      BY <1>1, <1>3, <1>5, <1>6, <2>2
    <3> HIDE DEF j
    <3>2. u[i] = t[j] /\ t[j] = wire[n + j] /\ Ahead[Len(buffer) + (n + j)] = wire[n + j]
      BY <1>1, <1>5, <1>6, <3>1
    <3> QED
      BY <1>7, <1>8, <3>1, <3>2
  <2> QED
    BY <2>1, <2>2
<1>10. u = d
  BY <1>6, <1>7, <1>8, <1>9, SeqEqual
<1>11. q = Len(buffer) + n - l
  BY <1>1, <1>3
<1>12. r \o t = SubSeq(Ahead, q + 1, Len(Ahead))
  BY <1>10 DEF u, d
<1> HIDE DEF q, m
<1>13. /\ q \in 0..Len(Ahead) /\ t \in Seq(StreamByte) /\ r \in Seq(StreamByte) /\ Len(r) = l
       /\ r \o t = SubSeq(Ahead, q + 1, Len(Ahead))
  BY <1>3, <1>4, <1>5, <1>12
<1> QED
  BY <1>11, <1>13, Zenon DEF r, t, c

\* What a parser that has not raised returns is in the order of the stream.
LEMMA ResultOrder ==
    ASSUME TypeOK, ServerInv, NEW s, NEW n, NEW c, Counted(c, s, 0, written), NEW r, ~r.raised,
           NEW F, r.found \in Seq(F), Result(c, s, n, r), Gatt
    PROVE  InOrder(s, 0, n - Len(r.rest), r.found)
<1> DEFINE C == Carried
           q == n - Len(r.rest)
           found == r.found
<1>1. /\ Counted(c + Len(found), s, q, written)
      /\ \A j \in 1..Len(found) : Right(found[j], C[c + j])
  BY DEF Result
<1>2. PICK I : written \in Seq(I)
  BY Zenon DEF TypeOK
<1>3. C = CarriedOf(written)
  BY DEF Carried, CarriedOf
<1>4. /\ C \in Seq(1..Len(written)) /\ \A i \in 1..Len(C) : C[i] \in 1..Len(written)
      /\ \A i, j \in 1..Len(C) : i < j => C[i] < C[j]
  BY <1>2, <1>3, CarriedFacts
<1> HIDE DEF C, q, found
<1>5. /\ c \in 0..Len(C) /\ \A i \in 1..Len(C) : i <= c <=> Before(C[i], s, 0)
      /\ c + Len(found) \in 0..Len(C)
      /\ \A i \in 1..Len(C) : i <= c + Len(found) <=> Before(C[i], s, q)
  BY <1>1, <1>3 DEF Counted
<1>6. Len(found) \in Nat /\ Len(C) \in Nat
  BY <1>4 DEF found
<1>7. \A j \in 1..Len(found) : c + j \in 1..Len(C) /\ ~(c + j <= c) /\ c + j <= c + Len(found)
  BY <1>5, <1>6
<1>8. \A j \in 1..Len(found) : First(found[j]) = C[c + j]
  <2> SUFFICES ASSUME NEW j \in 1..Len(found) PROVE First(found[j]) = C[c + j]
    OBVIOUS
  <2>1. Identify(found[j]) = [id |-> C[c + j], whole |-> TRUE]
    BY <1>1 DEF Right
  <2>2. Identify(found[j]).id = First(found[j])
    BY DEF Identify, First
  <2> QED
    BY <2>1, <2>2
<1>9. ASSUME NEW j \in 1..Len(found)
      PROVE  /\ First(found[j]) \in 1..Len(written)
             /\ Answers(First(found[j])) <=> ~Told(found[j])
             /\ Before(First(found[j]), s, q) /\ ~Before(First(found[j]), s, 0)
  <2>1. First(found[j]) \in 1..Len(written) /\ Before(First(found[j]), s, q) /\ ~Before(First(found[j]), s, 0)
    BY <1>4, <1>5, <1>7, <1>8
  <2>2. found[j].notifies <=> written[C[c + j]].kind = "notification"
    BY <1>1 DEF Right
  <2>3. written[First(found[j])].kind \in {"response", "notification"}
    BY <2>1 DEF ServerInv
  <2> QED
    BY <1>8, <2>1, <2>2, <2>3 DEF Answers, Told
<1>10. ASSUME NEW i \in 1..Len(found), NEW j \in 1..Len(found), i < j
       PROVE  First(found[i]) < First(found[j])
  <2>1. c + i < c + j
    BY <1>5, <1>10
  <2> QED
    BY <1>4, <1>7, <1>8, <2>1
<1> QED
  BY <1>9, <1>10 DEF InOrder, q, found

\* feed, after a recv that returned n bytes: what its parser returns and leaves.
LEMMA FedFacts ==
    ASSUME IInv, NEW n \in 1..Len(wire)
    PROVE  LET m    == Len(buffer) + n
               fed  == Feed(buffer \o SubSeq(wire, 1, n))
               q    == m - Len(fed.rest)
               left == SubSeq(wire, n + 1, Len(wire))
           IN  /\ fed.raised \in BOOLEAN /\ \E F : fed.found \in Seq(F)
               /\ \A j \in 1..Len(fed.found) : First(fed.found[j]) \in 1..Len(written)
               /\ fed.rest \in Seq(StreamByte) /\ left \in Seq(StreamByte) /\ q \in 0..Len(Ahead)
               /\ fed.rest \o left = SubSeq(Ahead, q + 1, Len(Ahead))
               /\ fed.raised => fed.found = <<>>
               /\ ~fed.raised => Len(fed.rest) <= IF Gatt THEN 3 + MaxPayload ELSE MaxLine
               /\ ~(Gatt /\ broken) /\ ~fed.raised => InOrder(Ahead, 0, q, fed.found)
               /\ ~broken => Result(Len(parsed), Ahead, m, fed)
<1> DEFINE c    == buffer \o SubSeq(wire, 1, n)
           m    == Len(buffer) + n
           fed  == Feed(c)
           q    == m - Len(fed.rest)
           left == SubSeq(wire, n + 1, Len(wire))
<1>1. TypeOK /\ WireInv /\ ServerInv /\ ParsedInv
  BY DEF IInv
<1>2. Reads(c, Ahead, m)
  BY <1>1, ChunkReads
<1>3. Ahead \in Seq(StreamByte) /\ Len(buffer) \in Nat /\ Len(Ahead) = Len(buffer) + Len(wire)
  BY <1>1, AheadTyped
<1>4. m \in Nat /\ m <= Len(Ahead) /\ m \in 0..m
  BY <1>3
<1>5. c \in Seq(StreamByte) /\ Len(c) = m /\ \A i \in 1..m : c[i] = Ahead[i]
  <2> HIDE DEF c, m
  <2> QED
    BY <1>2, <1>3, <1>4 DEF Reads
<1>6. Streams(Ahead, written)
  BY <1>1 DEF WireInv
<1>7. ~broken => Aligned(Ahead, 0) /\ Counted(Len(parsed), Ahead, 0, written)
  BY <1>1 DEF WireInv, ParsedInv
<1>8. Len(parsed) \in Nat
  BY <1>1 DEF TypeOK
<1>9. \A b \in StreamByte : \A f \in Starts(StreamByte, c) : f[1].of \in 1..Len(written)
  <2> SUFFICES ASSUME NEW f \in Starts(StreamByte, c) PROVE f[1].of \in 1..Len(written)
    OBVIOUS
  <2> HIDE DEF c, m
  <2>1. PICK i \in 1..Len(c) : f[1] = c[i]
    BY DEF Starts
  <2>2. i \in 1..Len(Ahead) /\ c[i] = Ahead[i]
    BY <1>4, <1>5, <2>1
  <2> QED
    BY <1>6, <2>1, <2>2 DEF Streams
<1> HIDE DEF c, m, fed
\* What is returned and what is left.
<1>10. /\ fed.raised \in BOOLEAN /\ \E F : fed.found \in Seq(F)
       /\ \A j \in 1..Len(fed.found) : fed.found[j].bytes \in Starts(StreamByte, c)
       /\ Len(fed.rest) \in 0..m /\ fed.rest = Suffix(c, Len(fed.rest))
       /\ fed.raised => fed.found = <<>>
       /\ ~fed.raised => Len(fed.rest) <= IF Gatt THEN 3 + MaxPayload ELSE MaxLine
  <2>1. CASE Gatt
    <3>1. StreamByte = GattByte /\ fed = FeedFrames(c)
      BY <2>1 DEF StreamByte, fed, Feed
    <3>2. FrameTyped(c, m, fed)
      BY <1>5, <3>1, FramesTyped
    <3>3. fed.found \in Seq(FoundFrames(c))
      BY <3>2 DEF FrameTyped
    <3>4. \A j \in 1..Len(fed.found) : fed.found[j] \in FoundFrames(c)
      BY <3>3
    <3>5. \A x \in FoundFrames(c) : x.bytes \in Starts(StreamByte, c)
      BY <3>1 DEF FoundFrames
    <3> QED
      BY <2>1, <3>2, <3>3, <3>4, <3>5 DEF FrameTyped
  <2>2. CASE ~Gatt
    <3>1. StreamByte = LineByte /\ fed = FeedLines(c)
      BY <2>2 DEF StreamByte, fed, Feed
    <3>2. LineTyped(c, m, fed)
      BY <1>5, <3>1, LinesTyped
    <3>3. fed.found \in Seq(FoundLines(c))
      BY <3>2 DEF LineTyped
    <3>4. \A j \in 1..Len(fed.found) : fed.found[j] \in FoundLines(c)
      BY <3>3
    <3>5. \A x \in FoundLines(c) : x.bytes \in Starts(StreamByte, c)
      BY <3>1 DEF FoundLines
    <3> QED
      BY <2>2, <3>2, <3>3, <3>4, <3>5 DEF LineTyped
  <2> QED
    BY <2>1, <2>2
<1>11. \A j \in 1..Len(fed.found) : First(fed.found[j]) \in 1..Len(written)
  <2> SUFFICES ASSUME NEW j \in 1..Len(fed.found) PROVE First(fed.found[j]) \in 1..Len(written)
    OBVIOUS
  <2> DEFINE f == fed.found[j].bytes
  <2>1. f \in Starts(StreamByte, c)
    BY <1>10
  <2>2. f \in Seq(StreamByte) /\ Len(f) >= 1
    BY <2>1 DEF Starts
  <2> HIDE DEF f
  <2>3. f[1] \in StreamByte
    BY <2>2
  <2> QED
    BY <1>9, <2>1, <2>3 DEF First, f
<1>12. /\ fed.rest \in Seq(StreamByte) /\ left \in Seq(StreamByte) /\ q \in 0..Len(Ahead)
       /\ fed.rest \o left = SubSeq(Ahead, q + 1, Len(Ahead))
  <2> DEFINE l == Len(fed.rest)
  <2>1. l \in 0..(Len(buffer) + n) /\ fed.rest = Suffix(c, l)
    BY <1>10 DEF m
  <2> HIDE DEF l
  <2>2. /\ Len(buffer) + n - l \in 0..Len(Ahead) /\ left \in Seq(StreamByte) /\ Suffix(c, l) \in Seq(StreamByte)
        /\ Suffix(c, l) \o left = SubSeq(Ahead, Len(buffer) + n - l + 1, Len(Ahead))
    BY <1>1, <2>1, RestAhead DEF c
  <2> HIDE DEF left
  <2>3. /\ q = Len(buffer) + n - l /\ q + 1 = Len(buffer) + n - l + 1
    BY DEF m, l
  <2> QED
    BY <2>1, <2>2, <2>3, Zenon
<1>13. ~broken => Result(Len(parsed), Ahead, m, fed)
  <2> SUFFICES ASSUME ~broken PROVE Result(Len(parsed), Ahead, m, fed)
    OBVIOUS
  <2>1. CASE Gatt
    <3>1. Ahead \in Seq(GattByte) /\ fed = FeedFrames(c)
      BY <1>3, <2>1 DEF StreamByte, fed, Feed
    <3> QED
      BY <1>1, <1>2, <1>6, <1>7, <1>8, <2>1, <3>1, FramesExact
  <2>2. CASE ~Gatt
    <3>1. Ahead \in Seq(LineByte) /\ fed = FeedLines(c)
      BY <1>3, <2>2 DEF StreamByte, fed, Feed
    <3>2. ExactAt(Ahead, m, m, fed)
      BY <1>1, <1>2, <1>6, <2>2, <3>1, LinesExact
    <3>3. m - m = 0
      BY <1>4
    <3> QED
      BY <1>7, <1>8, <3>2, <3>3 DEF ExactAt
  <2> QED
    BY <2>1, <2>2
<1>14. ~(Gatt /\ broken) /\ ~fed.raised => InOrder(Ahead, 0, q, fed.found)
  <2> SUFFICES ASSUME ~(Gatt /\ broken), ~fed.raised PROVE InOrder(Ahead, 0, q, fed.found)
    OBVIOUS
  <2>1. CASE Gatt
    <3>1. \E F : fed.found \in Seq(F)
      BY <1>10
    <3> QED
      BY <1>1, <1>7, <1>13, <2>1, <3>1, ResultOrder
  <2>2. CASE ~Gatt
    <3>1. Ahead \in Seq(LineByte) /\ fed = FeedLines(c)
      BY <1>3, <2>2 DEF StreamByte, fed, Feed
    <3>2. OrderAt(Ahead, m, m, fed)
      BY <1>1, <1>2, <1>6, <2>2, <3>1, LinesExact
    <3>3. m - m = 0
      BY <1>4
    <3> QED
      BY <3>2, <3>3 DEF OrderAt
  <2> QED
    BY <2>1, <2>2
<1> QED
  BY <1>10, <1>11, <1>12, <1>13, <1>14 DEF fed, m, c

\* A recv and the feed that follows it: what is ahead moves on to the place q.
Took(fed, q) ==
    /\ Waits
    /\ fed.raised \in BOOLEAN /\ \E F : fed.found \in Seq(F)
    /\ \A j \in 1..Len(fed.found) : First(fed.found[j]) \in 1..Len(written)
    /\ q \in 0..Len(Ahead) /\ Ahead' = SubSeq(Ahead, q + 1, Len(Ahead))
    /\ buffer' = fed.rest /\ fed.rest \in Seq(StreamByte) /\ wire' \in Seq(StreamByte)
    /\ broken' = (broken \/ fed.raised)
    /\ parsed' = parsed \o Identified(fed.found)
    /\ UNCHANGED <<protocol, sent, mute, toServer, written, hungUp, answers, heard>>
    /\ fed.raised => fed.found = <<>> /\ Raises /\ UNCHANGED <<responses, notes>>
    /\ ~fed.raised => /\ Len(fed.rest) <= IF Gatt THEN 3 + MaxPayload ELSE MaxLine
                      /\ IF Gatt THEN Dispatch(fed.found) ELSE Extend(fed.found)
    /\ ~(Gatt /\ broken) /\ ~fed.raised => InOrder(Ahead, 0, q, fed.found)
    /\ ~broken /\ fed.raised => \E i \in (Len(parsed) + 1)..Len(Carried) : ~Good(written[Carried[i]])
    /\ ~broken /\ ~fed.raised =>
          /\ Aligned(Ahead, q)
          /\ fed.rest # <<>> => Len(fed.rest) < Size(written[Ahead[q + 1].of])
          /\ Counted(Len(parsed) + Len(fed.found), Ahead, q, written)
          /\ \A j \in 1..Len(fed.found) : Right(fed.found[j], Carried[Len(parsed) + j])

\* Receive is such a step, whatever recv returns.
LEMMA ReceiveTakes == ASSUME IInv, Receive PROVE \E fed, q : Took(fed, q)
<1>1. wire \in Seq(StreamByte) /\ DOMAIN wire = 1..Len(wire)
  BY AheadTyped DEF IInv
<1>2. PICK n \in 1..Len(wire) :
          LET chunk == buffer \o SubSeq(wire, 1, n)
              fed   == IF Gatt THEN FeedFrames(chunk) ELSE FeedLines(chunk)
          IN  /\ wire' = SubSeq(wire, n + 1, Len(wire))
              /\ buffer' = fed.rest
              /\ broken' = (broken \/ fed.raised)
              /\ parsed' = parsed \o Identified(fed.found)
              /\ IF fed.raised THEN Raises /\ UNCHANGED <<responses, notes>>
                 ELSE IF Gatt THEN Dispatch(fed.found) ELSE Extend(fed.found)
  BY <1>1, Zenon DEF Receive
<1> DEFINE chunk == buffer \o SubSeq(wire, 1, n)
           fed   == Feed(chunk)
           m     == Len(buffer) + n
           q     == m - Len(fed.rest)
           left  == SubSeq(wire, n + 1, Len(wire))
<1>3. /\ wire' = left /\ buffer' = fed.rest
      /\ broken' = (broken \/ fed.raised)
      /\ parsed' = parsed \o Identified(fed.found)
      /\ IF fed.raised THEN Raises /\ UNCHANGED <<responses, notes>>
         ELSE IF Gatt THEN Dispatch(fed.found) ELSE Extend(fed.found)
  BY <1>2, Zenon DEF Feed
<1>4. /\ fed.raised \in BOOLEAN /\ \E F : fed.found \in Seq(F)
      /\ \A j \in 1..Len(fed.found) : First(fed.found[j]) \in 1..Len(written)
      /\ fed.rest \in Seq(StreamByte) /\ left \in Seq(StreamByte) /\ q \in 0..Len(Ahead)
      /\ fed.rest \o left = SubSeq(Ahead, q + 1, Len(Ahead))
      /\ fed.raised => fed.found = <<>>
  BY FedFacts, Zenon
<1>5. /\ ~fed.raised => Len(fed.rest) <= IF Gatt THEN 3 + MaxPayload ELSE MaxLine
      /\ ~(Gatt /\ broken) /\ ~fed.raised => InOrder(Ahead, 0, q, fed.found)
      /\ ~broken => Result(Len(parsed), Ahead, m, fed)
  BY FedFacts, Zenon
<1> HIDE DEF fed, left
<1>6. Ahead' = SubSeq(Ahead, q + 1, Len(Ahead))
  BY <1>3, <1>4 DEF Ahead
<1>7. /\ ~broken /\ fed.raised => \E i \in (Len(parsed) + 1)..Len(Carried) : ~Good(written[Carried[i]])
      /\ ~broken /\ ~fed.raised =>
          /\ Aligned(Ahead, q)
          /\ fed.rest # <<>> => Len(fed.rest) < Size(written[Ahead[q + 1].of])
          /\ Counted(Len(parsed) + Len(fed.found), Ahead, q, written)
          /\ \A j \in 1..Len(fed.found) : Right(fed.found[j], Carried[Len(parsed) + j])
  BY <1>5, Zenon DEF Result
<1>8. Waits /\ UNCHANGED <<protocol, sent, mute, toServer, written, hungUp, answers, heard>>
  BY Zenon DEF Receive
<1> HIDE DEF q, m
<1>9. Took(fed, q)
  <2>1. wire' \in Seq(StreamByte)
    BY <1>3, <1>4
  <2>2. /\ fed.raised => fed.found = <<>> /\ Raises /\ UNCHANGED <<responses, notes>>
        /\ ~fed.raised => /\ Len(fed.rest) <= IF Gatt THEN 3 + MaxPayload ELSE MaxLine
                          /\ IF Gatt THEN Dispatch(fed.found) ELSE Extend(fed.found)
    BY <1>3, <1>4, <1>5, Zenon
  <2> QED
    BY <1>3, <1>4, <1>5, <1>6, <1>7, <1>8, <2>1, <2>2, Zenon DEF Took
<1> QED
  BY <1>9, Zenon

\* What is ahead afterwards.
LEMMA TookStream ==
    ASSUME IInv, NEW fed, NEW q, Took(fed, q)
    PROVE  /\ Streams(Ahead', written) /\ Ahead' \in Seq(StreamByte) /\ Len(Ahead') \in Nat
           /\ Aligned(Ahead', 0) <=> Aligned(Ahead, q)
           /\ \A k \in Nat : Past(k)' <=> Before(k, Ahead, q)
           /\ \A k \in Nat : Past(k) => Past(k)'
           /\ q < Len(Ahead) => Ahead'[1] = Ahead[q + 1]
           /\ Len(Ahead') = Len(Ahead) - q
<1> DEFINE t == SubSeq(Ahead, q + 1, Len(Ahead))
<1>1. TypeOK /\ WireInv /\ ServerInv
  BY DEF IInv
<1>2. /\ Ahead \in Seq(StreamByte) /\ Len(Ahead) \in Nat /\ Streams(Ahead, written) /\ Sized(written)
      /\ Len(written) \in Nat /\ q \in 0..Len(Ahead) /\ q \in Nat
  <2>1. Ahead \in Seq(StreamByte) /\ Streams(Ahead, written) /\ Sized(written) /\ q \in 0..Len(Ahead)
    BY <1>1, AheadTyped, WrittenSized DEF WireInv, Took
  <2>2. Len(Ahead) \in Nat
    BY <2>1
  <2> QED
    BY <1>1, <2>1, <2>2, TypeFacts
<1>3. /\ t \in Seq(StreamByte) /\ Len(t) = Len(Ahead) - q /\ \A i \in 1..Len(t) : t[i] = Ahead[q + i]
      /\ Streams(t, written)
      /\ \A p \in 0..Len(t) : Aligned(t, p) <=> Aligned(Ahead, q + p)
      /\ \A k, p \in Nat : Before(k, t, p) <=> Before(k, Ahead, q + p)
  BY <1>2, StreamSuffix
<1>4. Ahead' = t
  BY DEF Took
<1> HIDE DEF t
<1>5. q + 0 = q /\ 0 \in Nat /\ Len(t) \in Nat /\ 0 \in 0..Len(t) /\ (q < Len(Ahead) => 1 \in 1..Len(t))
  BY <1>2, <1>3
<1>6. Aligned(t, 0) <=> Aligned(Ahead, q)
  BY <1>3, <1>5
<1>7. \A k \in Nat : Before(k, t, 0) <=> Before(k, Ahead, q)
  BY <1>3, <1>5
<1>8. \A k \in Nat : Before(k, Ahead, 0) => Before(k, Ahead, q)
  <2>1. \A i \in (q + 1)..Len(Ahead) : i \in (0 + 1)..Len(Ahead)
    BY <1>2
  <2> QED
    BY <2>1 DEF Before
<1>9. \A k : Past(k)' <=> Before(k, t, 0)
  BY <1>4 DEF Past
<1> QED
  BY <1>2, <1>3, <1>4, <1>5, <1>6, <1>7, <1>8, <1>9 DEF Past

\* The parser stands between two items again, unless it has raised.
LEMMA TookWire == ASSUME IInv, NEW fed, NEW q, Took(fed, q) PROVE WireInv'
<1>1. TypeOK /\ ServerInv
  BY DEF IInv
<1>2. /\ Streams(Ahead', written) /\ Ahead' \in Seq(StreamByte) /\ Len(Ahead') \in Nat
      /\ Aligned(Ahead', 0) <=> Aligned(Ahead, q)
  BY TookStream
<1>3. written' = written /\ protocol' = protocol /\ buffer' \in Seq(StreamByte) /\ wire' \in Seq(StreamByte)
  BY DEF Took
<1> SUFFICES ASSUME ~broken' PROVE NothingWithheld' /\ Aligned(Ahead', 0)
  BY <1>2, <1>3 DEF WireInv
<1>4. /\ Aligned(Ahead, q)
      /\ buffer' # <<>> => Len(buffer') < Size(written[Ahead[q + 1].of])
  BY DEF Took
<1>5. NothingWithheld'
  <2> SUFFICES ASSUME buffer' # <<>> PROVE NothingWithheld'
    BY DEF NothingWithheld
  <2> DEFINE u == Ahead'
             f == buffer'
             k == f[1].of
             x == written[k]
             b == Bytes(x, k)
             l == Len(f)
  <2>1. l \in Nat /\ l >= 1 /\ l <= Len(u) /\ \A i \in 1..l : u[i] = f[i] /\ f[i] \in StreamByte
    <3>1. u = buffer' \o wire'
      BY DEF Ahead
    <3>2. l \in Nat /\ l # 0
      BY <1>3, EmptySeq
    <3> HIDE DEF l, u
    <3>3. Len(u) = l + Len(wire') /\ Len(wire') \in Nat /\ \A i \in 1..l : u[i] = f[i] /\ f[i] \in StreamByte
      BY <1>3, <3>1 DEF l
    <3> QED
      BY <3>2, <3>3
  <2>2. u[1] = f[1] /\ u[1].at = 1 /\ u[1] = Ahead[q + 1] /\ 0 < Len(u)
    <3>1. u[1] = f[1] /\ 0 < Len(u)
      BY <1>2, <2>1
    <3>2. q \in Nat /\ Len(Ahead) \in Nat /\ q <= Len(Ahead) /\ Len(u) = Len(Ahead) - q
      <4>1. q \in 0..Len(Ahead) /\ Ahead \in Seq(StreamByte)
        BY <1>1, AheadTyped DEF Took
      <4>2. Len(Ahead) \in Nat
        BY <4>1
      <4> QED
        BY <4>1, <4>2, TookStream
    <3> HIDE DEF u, f
    <3>3. q < Len(Ahead)
      BY <1>2, <3>1, <3>2 DEF u
    <3>4. u[1] = Ahead[q + 1]
      BY <3>3, TookStream DEF u
    <3> QED
      BY <1>4, <3>1, <3>3, <3>4 DEF Aligned
  <2> HIDE DEF u, l, f
  <2>3. /\ k \in 1..Len(written) /\ Size(x) \in Nat
        /\ \A d \in 1..Size(x) : u[d].of = k /\ u[d].at = d /\ u[d].is = Encoded(x)[d]
    <3>1. Sized(written) /\ Len(written) \in Nat
      BY <1>1, WrittenSized, TypeFacts
    <3> DEFINE p == 0
    <3>2. u \in Seq(StreamByte) /\ Streams(u, written) /\ p \in Nat /\ p < Len(u) /\ Len(u) \in Nat
      BY <1>2, <2>2 DEF u
    <3> HIDE DEF p
    <3>3. LET j == u[p + 1].of
              a == u[p + 1].at
              t == Size(written[j]) - a + 1
          IN  /\ j \in 1..Len(written)
              /\ \A d \in 1..t : /\ u[p + d].of = j /\ u[p + d].at = a + d - 1
                                 /\ u[p + d].is = Encoded(written[j])[a + d - 1]
      BY <3>1, <3>2, StreamItem
    <3>4. u[1].of = k /\ u[1].at = 1
      BY <2>2
    <3>5. /\ k \in 1..Len(written)
          /\ \A d \in 1..(Size(x) - 1 + 1) :
                 u[0 + d].of = k /\ u[0 + d].at = 1 + d - 1 /\ u[0 + d].is = Encoded(x)[1 + d - 1]
      BY <3>3, <3>4 DEF p
    <3>6. Size(x) \in Nat
      BY <3>1, <3>5 DEF Sized
    <3> DEFINE z == Size(x)
               e == Encoded(x)
    <3> HIDE DEF z, e
    <3>7. \A d \in 1..z : d \in 1..(z - 1 + 1) /\ 0 + d = d /\ 1 + d - 1 = d
      BY <3>6 DEF z
    <3>8. \A d \in 1..(z - 1 + 1) :
                 u[0 + d].of = k /\ u[0 + d].at = 1 + d - 1 /\ u[0 + d].is = e[1 + d - 1]
      BY <3>5 DEF z, e
    <3> HIDE DEF k
    <3>9. \A d \in 1..z : u[d].of = k /\ u[d].at = d /\ u[d].is = e[d]
      BY <3>7, <3>8
    <3> QED
      BY <3>5, <3>6, <3>9 DEF z, e
  <2>4. /\ b \in Seq(StreamByte) /\ Len(b) = Size(x)
        /\ \A i \in 1..Size(x) : b[i] = [is |-> Encoded(x)[i], of |-> k, at |-> i]
    <3>1. PICK m \in Nat : ItemOf(x, m)
      BY <1>1, <2>3, WrittenItems
    <3>2. Fit(x)
      BY <1>1, <2>3 DEF ServerInv, Fit
    <3>3. k \in Nat
      BY <2>3
    <3> HIDE DEF x, k
    <3> QED
      BY <3>1, <3>2, <3>3, BytesFacts DEF b
  <2>5. l < Size(x)
    BY <1>4, <2>2 DEF f, l
  <2> HIDE DEF b, x, k
  <2>6. \A i \in 1..l : b[i] = f[i]
    <3> SUFFICES ASSUME NEW i \in 1..l PROVE b[i] = f[i]
      OBVIOUS
    <3>1. i \in 1..Size(x)
      BY <2>1, <2>3, <2>5
    <3>2. f[i].of = k /\ f[i].at = i /\ f[i].is = Encoded(x)[i] /\ f[i] \in StreamByte
      BY <2>1, <2>3, <3>1
    <3>3. f[i] = [is |-> f[i].is, of |-> f[i].of, at |-> f[i].at]
      <4> DEFINE g == f[i]
      <4>1. g \in GattByte \/ g \in LineByte
        BY <3>2 DEF StreamByte
      <4> HIDE DEF g
      <4> QED
        BY <4>1 DEF g, GattByte, LineByte
    <3> QED
      BY <2>4, <3>1, <3>2, <3>3
  <2>7. f = SubSeq(b, 1, l)
    <3>1. l \in 0..Len(b) /\ Len(b) \in Nat
      BY <2>1, <2>3, <2>4, <2>5
    <3> DEFINE c == SubSeq(b, 1, l)
    <3>2. c \in Seq(StreamByte) /\ Len(c) = l /\ \A i \in 1..l : c[i] = b[i]
      BY <2>1, <2>4, <3>1
    <3> HIDE DEF c
    <3>3. f \in Seq(StreamByte) /\ Len(f) = l
      BY <1>3 DEF f, l
    <3> QED
      BY <2>6, <3>2, <3>3, SeqEqual DEF c
  <2> QED
    BY <1>3, <2>4, <2>5, <2>7, Zenon DEF NothingWithheld, b, x, k, f, l
<1> QED
  BY <1>2, <1>4, <1>5

\* All the places there are: the whole sequence.
LEMMA ChosenAll ==
    ASSUME NEW S, NEW p \in Seq(S), NEW P, 1..Len(p) \subseteq P
    PROVE  Chosen(p, P) = p
<1> DEFINE T == {n \in Nat : n <= Len(p) => Chosen(SubSeq(p, 1, n), P) = SubSeq(p, 1, n)}
<1>1. 0 \in T
  <2>1. SubSeq(p, 1, 0) = <<>> /\ Chosen(<<>>, P) = <<>>
    BY Prefixes, ChosenEmpty
  <2> QED
    BY <2>1
<1>2. ASSUME NEW n \in T PROVE n + 1 \in T
  <2> SUFFICES ASSUME n \in Nat, n + 1 <= Len(p), Chosen(SubSeq(p, 1, n), P) = SubSeq(p, 1, n)
               PROVE  Chosen(SubSeq(p, 1, n + 1), P) = SubSeq(p, 1, n + 1)
    OBVIOUS
  <2> HIDE DEF T
  <2> DEFINE r == SubSeq(p, 1, n)
  <2>1. r \in Seq(S) /\ Len(r) = n /\ p[n + 1] \in S /\ SubSeq(p, 1, n + 1) = Append(r, p[n + 1])
    BY Prefixes
  <2>2. n + 1 \in 1..Len(p)
    OBVIOUS
  <2> HIDE DEF r
  <2>3. Chosen(Append(r, p[n + 1]), P) = Append(Chosen(r, P), p[n + 1])
    BY <2>1, <2>2, ChosenAppend
  <2> QED
    BY <2>1, <2>3 DEF r
<1>3. T = Nat
  <2> HIDE DEF T
  <2>1. T \in SUBSET Nat
    BY DEF T
  <2> QED
    BY <1>1, <1>2, <2>1, SetInduction
<1>4. Len(p) \in Nat /\ Len(p) <= Len(p) /\ SubSeq(p, 1, Len(p)) = p
  BY Prefixes
<1>5. Len(p) \in T
  BY <1>3, <1>4
<1> QED
  BY <1>4, <1>5

\* None of its places: nothing.
LEMMA ChosenNone ==
    ASSUME NEW S, NEW p \in Seq(S), NEW P, \A i \in 1..Len(p) : i \notin P
    PROVE  Chosen(p, P) = <<>>
<1> DEFINE c == Chosen(p, P)
<1>1. c \in Seq(S) /\ \E m : Picks(m, c, p, P)
  BY ChosenTyped, ChosenPicks
<1> HIDE DEF c
<1>2. PICK m : Picks(m, c, p, P)
  BY <1>1
<1>3. \A i \in 1..Len(c) : FALSE
  BY <1>2 DEF Picks
<1>4. Len(c) \in Nat
  BY <1>1
<1>5. Len(c) = 0
  BY <1>3, <1>4
<1> QED
  BY <1>1, <1>5, EmptySeq DEF c

\* The frames or lines by what they are.
LEMMA IdentifiedFacts ==
    ASSUME Len(written) \in Nat, DOMAIN written = 1..Len(written), NEW F, NEW found \in Seq(F),
           \A j \in 1..Len(found) : First(found[j]) \in 1..Len(written)
    PROVE  /\ Identified(found) \in Seq(Item) /\ Len(Identified(found)) = Len(found)
           /\ Len(found) \in Nat
           /\ \A j \in 1..Len(found) : /\ Identified(found)[j] = Identify(found[j])
                                       /\ Identified(found)[j].id = First(found[j])
<1> DEFINE n == Len(found)
<1>1. n \in Nat /\ DOMAIN found = 1..n
  OBVIOUS
<1> HIDE DEF n
<1>2. Identified(found) = [i \in 1..n |-> Identify(found[i])]
  BY <1>1 DEF Identified
<1>3. \A i \in 1..n : Identify(found[i]) \in Item /\ Identify(found[i]).id = First(found[i])
  <2> SUFFICES ASSUME NEW i \in 1..n
               PROVE  Identify(found[i]) \in Item /\ Identify(found[i]).id = First(found[i])
    OBVIOUS
  <2> DEFINE k == found[i].bytes[1].of
             w == (found[i].bytes = Content(k))
  <2>1. Identify(found[i]) = [id |-> k, whole |-> w]
    BY DEF Identify
  <2>2. k = First(found[i]) /\ k \in DOMAIN written
    BY DEF First, n
  <2>3. w \in BOOLEAN
    OBVIOUS
  <2> HIDE DEF k, w
  <2> QED
    BY <2>1, <2>2, <2>3 DEF Item
<1> DEFINE h == [i \in 1..n |-> Identify(found[i])]
<1>4. h \in [1..n -> Item] /\ \A i \in 1..n : h[i] = Identify(found[i])
  BY <1>3
<1> HIDE DEF h
<1>5. h \in Seq(Item) /\ Len(h) = n
  BY <1>1, <1>4
<1>6. Identified(found) = h
  BY <1>2 DEF h
<1> QED
  BY <1>1, <1>3, <1>4, <1>5, <1>6 DEF n

\* What the queues get.
LEMMA TookQueues ==
    ASSUME IInv, NEW fed, NEW q, Took(fed, q)
    PROVE  LET new == Identified(fed.found)
           IN  /\ new \in Seq(Item) /\ Len(new) = Len(fed.found) /\ Len(fed.found) \in Nat
               /\ \A j \in 1..Len(fed.found) :
                      new[j] = Identify(fed.found[j]) /\ new[j].id = First(fed.found[j])
               /\ \E P, Q :
                    /\ responses' = responses \o Chosen(new, P) /\ notes' = notes \o Chosen(new, Q)
                    /\ \A i \in 1..Len(fed.found) :
                          /\ i \in P => ~Told(fed.found[i])
                          /\ i \in Q => Told(fed.found[i])
                    /\ ~troubled' => \A i \in 1..Len(fed.found) :
                          (i \in P <=> ~Told(fed.found[i])) /\ (i \in Q <=> Told(fed.found[i]))
               /\ \/ call' = call /\ troubled' = troubled /\ ~fed.raised
                  \/ call' = "none" /\ troubled' = TRUE
<1> DEFINE new == Identified(fed.found)
           found == fed.found
           n == Len(found)
<1>1. TypeOK
  BY DEF IInv
<1>2. /\ new \in Seq(Item) /\ Len(new) = n /\ n \in Nat
      /\ \A j \in 1..n : new[j] = Identify(found[j]) /\ new[j].id = First(found[j])
  <2>1. PICK F : found \in Seq(F)
    BY DEF Took
  <2>2. \A j \in 1..Len(found) : First(found[j]) \in 1..Len(written)
    BY DEF Took
  <2>3. Len(written) \in Nat /\ DOMAIN written = 1..Len(written)
    BY <1>1, TypeFacts
  <2> HIDE DEF found
  <2>4. /\ Identified(found) \in Seq(Item) /\ Len(Identified(found)) = Len(found)
        /\ Len(found) \in Nat
        /\ \A j \in 1..Len(found) : /\ Identified(found)[j] = Identify(found[j])
                                    /\ Identified(found)[j].id = First(found[j])
    BY <2>1, <2>2, <2>3, IdentifiedFacts
  <2> QED
    BY <2>4 DEF found
<1>3. DOMAIN found = 1..n
  BY DEF Took
<1>4. responses \in Seq(Item) /\ notes \in Seq(Item)
  BY <1>1 DEF TypeOK
<1>5. responses \o <<>> = responses /\ notes \o <<>> = notes
  BY <1>4
<1> DEFINE Put(P, Q) ==
             /\ responses' = responses \o Chosen(new, P) /\ notes' = notes \o Chosen(new, Q)
             /\ \A i \in 1..n : (i \in P => ~Told(found[i])) /\ (i \in Q => Told(found[i]))
             /\ ~troubled' => \A i \in 1..n :
                   (i \in P <=> ~Told(found[i])) /\ (i \in Q <=> Told(found[i]))
           Calls == \/ call' = call /\ troubled' = troubled /\ ~fed.raised
                    \/ call' = "none" /\ troubled' = TRUE
<1>6. CASE fed.raised
  <2>1. found = <<>> /\ Raises /\ responses' = responses /\ notes' = notes
    BY <1>6 DEF Took
  <2>2. new = <<>>
    BY <1>2, <2>1, EmptySeq
  <2>3. Chosen(new, {}) = <<>>
    BY <2>2, ChosenEmpty
  <2>4. n = 0
    BY <2>1
  <2> HIDE DEF new, found, n
  <2>5. Put({}, {})
    BY <1>5, <2>1, <2>3, <2>4 DEF Raises
  <2>6. Calls
    BY <2>1 DEF Raises
  <2> HIDE DEF Put, Calls
  <2>7. Calls /\ \E P, Q : Put(P, Q)
    BY <2>5, <2>6
  <2> QED
    BY <1>2, <2>7 DEF Put, Calls, new, found, n
<1>7. CASE ~fed.raised /\ Gatt
  <2> DEFINE kept == Resolved(found)
             told == {i \in DOMAIN found : found[i].notifies}
  <2>1. /\ responses' = responses \o Chosen(new, kept \ told)
        /\ notes' = notes \o Chosen(new, kept \cap told)
        /\ IF kept = DOMAIN found THEN UNCHANGED <<call, troubled>> ELSE Raises
    BY <1>7, Zenon DEF Took, Dispatch
  <2>2. \A i \in 1..n : i \in told <=> Told(found[i])
    BY <1>3, <1>7 DEF Told
  <2>3. Calls
    BY <1>7, <2>1 DEF Raises
  <2>4. ~troubled' => \A i \in 1..n : i \in kept
    BY <1>3, <2>1 DEF Raises
  <2> HIDE DEF kept, told
  <2>5. /\ \A i \in 1..n : (i \in kept \ told => ~Told(found[i])) /\ (i \in kept \cap told => Told(found[i]))
        /\ ~troubled' => \A i \in 1..n :
               (i \in kept \ told <=> ~Told(found[i])) /\ (i \in kept \cap told <=> Told(found[i]))
    <3> HIDE DEF n, found
    <3> QED
      BY <2>2, <2>4
  <2> HIDE DEF new, found, n
  <2>6. Put(kept \ told, kept \cap told)
    BY <2>1, <2>5, Zenon
  <2> HIDE DEF Put, Calls
  <2>7. Calls /\ \E P, Q : Put(P, Q)
    BY <2>3, <2>6
  <2> QED
    BY <1>2, <2>7 DEF Put, Calls, new, found, n
<1>8. CASE ~fed.raised /\ ~Gatt
  <2>1. /\ responses' = responses \o new
        /\ UNCHANGED <<notes, call, troubled>>
    BY <1>8, Zenon DEF Took, Extend
  <2> HIDE DEF new, found, n
  <2>2. Chosen(new, 1..n) = new
    BY <1>2, ChosenAll
  <2>3. Chosen(new, {}) = <<>>
    BY <1>2, ChosenNone
  <2>4. \A i \in 1..n : ~Told(found[i])
    BY <1>8 DEF Told
  <2>5. Put(1..n, {})
    BY <1>5, <2>1, <2>2, <2>3, <2>4, Zenon
  <2>6. Calls
    BY <1>8, <2>1
  <2> HIDE DEF Put, Calls
  <2>7. Calls /\ \E P, Q : Put(P, Q)
    BY <2>5, <2>6
  <2> QED
    BY <1>2, <2>7 DEF Put, Calls, new, found, n
<1>9. fed.raised \in BOOLEAN
  BY DEF Took
<1> QED
  BY <1>6, <1>7, <1>8, <1>9

\* The queues get items only.
LEMMA TookTyped == ASSUME IInv, NEW fed, NEW q, Took(fed, q) PROVE TypeOK'
<1>1. TypeOK
  BY DEF IInv
<1>2. /\ protocol' = protocol /\ sent' = sent /\ mute' = mute /\ toServer' = toServer
      /\ written' = written /\ hungUp' = hungUp /\ answers' = answers /\ heard' = heard
      /\ buffer' = fed.rest /\ fed.rest \in Seq(StreamByte) /\ wire' \in Seq(StreamByte)
      /\ broken' = (broken \/ fed.raised)
      /\ parsed' = parsed \o Identified(fed.found)
      /\ ~fed.raised => Len(fed.rest) <= IF Gatt THEN 3 + MaxPayload ELSE MaxLine
  BY DEF Took
<1>3. Item' = Item /\ Gatt' = Gatt
  BY <1>2, Zenon DEF Item, Gatt
<1> DEFINE new == Identified(fed.found)
<1>4. /\ new \in Seq(Item)
      /\ \E P : responses' = responses \o Chosen(new, P)
      /\ \E Q : notes' = notes \o Chosen(new, Q)
      /\ \/ call' = call /\ troubled' = troubled
         \/ call' = "none" /\ troubled' = TRUE
  BY TookQueues, Zenon
<1>5. responses \in Seq(Item) /\ notes \in Seq(Item) /\ parsed \in Seq(Item)
  BY <1>1 DEF TypeOK
<1> HIDE DEF new
<1> DEFINE I == Item
<1>6. /\ new \in Seq(I) /\ responses \in Seq(I) /\ notes \in Seq(I) /\ parsed \in Seq(I)
      /\ \A P : Chosen(new, P) \in Seq(I)
  BY <1>4, <1>5, ChosenTyped
<1> HIDE DEF I
<1>7. responses' \in Seq(I) /\ notes' \in Seq(I) /\ parsed' \in Seq(I)
  <2>1. parsed' = parsed \o new
    BY <1>2 DEF new
  <2>2. PICK P : responses' = responses \o Chosen(new, P)
    BY <1>4
  <2>3. PICK Q : notes' = notes \o Chosen(new, Q)
    BY <1>4
  <2>4. /\ Chosen(new, P) \in Seq(I) /\ Chosen(new, Q) \in Seq(I)
    BY <1>6
  <2> DEFINE cp == Chosen(new, P)
             cq == Chosen(new, Q)
  <2>5. cp \in Seq(I) /\ cq \in Seq(I) /\ responses' = responses \o cp /\ notes' = notes \o cq
    BY <2>2, <2>3, <2>4
  <2> HIDE DEF cp, cq
  <2> QED
    BY <1>6, <2>1, <2>5, ConcatProperties
<1>8. heard \in Seq(Item) /\ broken' \in BOOLEAN /\ troubled' \in BOOLEAN
      /\ call' \in {"none", "request", "next_notification"}
  BY <1>1, <1>2, <1>4 DEF TypeOK, Took
<1>9. ~broken' => Len(buffer') <= IF Gatt THEN 3 + MaxPayload ELSE MaxLine
  BY <1>2
<1>10. {responses', notes', heard', parsed'} \subseteq Seq(Item')
  BY <1>2, <1>3, <1>7, <1>8 DEF I
<1>11. /\ buffer' \in Seq(IF Gatt' THEN GattByte ELSE LineByte)
       /\ wire' \in Seq(IF Gatt' THEN GattByte ELSE LineByte)
  BY <1>2, <1>3 DEF StreamByte
<1> QED
  BY <1>1, <1>2, <1>3, <1>8, <1>9, <1>10, <1>11, Zenon DEF TypeOK

\* The answers among what has been parsed.
LEMMA TookAnswers ==
    ASSUME IInv, NEW fed, NEW q, Took(fed, q), ~(Gatt /\ broken), NEW P,
           \A i \in 1..Len(fed.found) : i \in P => ~Told(fed.found[i])
    PROVE  LET new == Identified(fed.found)
               c   == Chosen(new, P)
           IN  /\ c \in Seq(Item) /\ Len(c) \in Nat
               /\ \A i \in 1..Len(c) :
                     /\ c[i].id \in 1..Len(written) /\ Answers(c[i].id)
                     /\ Before(c[i].id, Ahead, q) /\ ~Past(c[i].id)
                     /\ \E j \in 1..Len(fed.found) : c[i] = new[j]
               /\ \A i, j \in 1..Len(c) : i < j => c[i].id < c[j].id
<1> DEFINE new == Identified(fed.found)
           found == fed.found
           n == Len(found)
           c == Chosen(new, P)
<1>1. /\ new \in Seq(Item) /\ Len(new) = n /\ n \in Nat
      /\ \A j \in 1..n : new[j].id = First(found[j])
  BY TookQueues, Zenon
<1>2. fed.raised \in BOOLEAN /\ (fed.raised => found = <<>>)
  BY DEF Took
<1>3. n # 0 => InOrder(Ahead, 0, q, found)
  <2>1. CASE fed.raised
    <3>1. found = <<>>
      BY <1>2, <2>1
    <3>2. Len(found) = 0
      BY <3>1
    <3> QED
      BY <3>2
  <2>2. CASE ~fed.raised
    BY <2>2 DEF Took
  <2> QED
    BY <1>2, <2>1, <2>2
<1> HIDE DEF new, n
<1>4. c \in Seq(Item) /\ \E m : Picks(m, c, new, P)
  BY <1>1, ChosenTyped, ChosenPicks
<1> HIDE DEF c
<1>5. Len(c) \in Nat
  BY <1>4
<1>6. PICK m : Picks(m, c, new, P)
  BY <1>4
<1>7. /\ \A i \in 1..Len(c) : m[i] \in 1..n /\ m[i] \in P /\ c[i] = new[m[i]]
      /\ \A i, j \in 1..Len(c) : i < j => m[i] < m[j]
  BY <1>1, <1>6 DEF Picks
<1>8. \A i \in 1..Len(c) : c[i].id = First(found[m[i]]) /\ ~Told(found[m[i]])
  BY <1>1, <1>7 DEF n
<1> DEFINE G(j) == /\ First(found[j]) \in 1..Len(written)
                   /\ Answers(First(found[j])) <=> ~Told(found[j])
                   /\ Before(First(found[j]), Ahead, q) /\ ~Before(First(found[j]), Ahead, 0)
<1>9. /\ \A j \in 1..n : G(j)
      /\ \A i, j \in 1..n : i < j => First(found[i]) < First(found[j])
  <2>1. CASE n = 0
    BY <2>1
  <2>2. CASE n # 0
    BY <1>3, <2>2 DEF InOrder, n
  <2> QED
    BY <2>1, <2>2
<1>10. ASSUME NEW i \in 1..Len(c)
       PROVE  /\ c[i].id \in 1..Len(written) /\ Answers(c[i].id)
              /\ Before(c[i].id, Ahead, q) /\ ~Past(c[i].id)
              /\ \E j \in 1..n : c[i] = new[j]
  <2>1. m[i] \in 1..n /\ c[i] = new[m[i]]
    BY <1>7
  <2>2. G(m[i]) /\ c[i].id = First(found[m[i]]) /\ ~Told(found[m[i]])
    BY <1>8, <1>9, <2>1
  <2> DEFINE k == c[i].id
  <2>3. k \in 1..Len(written) /\ Answers(k) /\ Before(k, Ahead, q) /\ ~Before(k, Ahead, 0)
    BY <2>2
  <2> QED
    BY <2>1, <2>3 DEF Past
<1>11. \A i, j \in 1..Len(c) : i < j => c[i].id < c[j].id
  <2> HIDE DEF G, found
  <2> QED
    BY <1>7, <1>8, <1>9
<1> QED
  BY <1>4, <1>5, <1>10, <1>11 DEF c, new, n, found

\* What a recv adds to the answers comes after those that were there.
LEMMA TookOrder == ASSUME IInv, NEW fed, NEW q, Took(fed, q) PROVE OrderInv'
<1> DEFINE new == Identified(fed.found)
<1>1. TypeOK /\ WireInv /\ ServerInv /\ OrderInv
  BY DEF IInv
<1>2. /\ protocol' = protocol /\ written' = written /\ answers' = answers
      /\ broken' = (broken \/ fed.raised)
  BY DEF Took
<1>3. Gatt' = Gatt
  BY <1>2 DEF Gatt
<1> SUFFICES ASSUME ~(Gatt /\ broken') PROVE OrderInv'
  BY <1>3 DEF OrderInv
<1>4. ~(Gatt /\ broken)
  BY <1>2
<1>5. PICK P : /\ responses' = responses \o Chosen(new, P)
               /\ \A i \in 1..Len(fed.found) : i \in P => ~Told(fed.found[i])
  BY TookQueues, Zenon
<1> DEFINE c == Chosen(new, P)
<1>6. /\ c \in Seq(Item) /\ Len(c) \in Nat
      /\ \A i \in 1..Len(c) :
            /\ c[i].id \in 1..Len(written) /\ Answers(c[i].id)
            /\ Before(c[i].id, Ahead, q) /\ ~Past(c[i].id)
      /\ \A i, j \in 1..Len(c) : i < j => c[i].id < c[j].id
  BY <1>4, <1>5, TookAnswers, Zenon
<1> HIDE DEF c, new
<1>7. /\ Len(written) \in Nat
      /\ Len(answers) \in Nat /\ \A i \in 1..Len(answers) : answers[i].item.id \in 1..Len(written)
      /\ Len(responses) \in Nat /\ \A i \in 1..Len(responses) : responses[i].id \in 1..Len(written)
      /\ DOMAIN answers = 1..Len(answers)
  BY <1>1, TypeFacts
<1>8. responses \in Seq(Item)
  BY <1>1 DEF TypeOK
<1> DEFINE r == responses'
           l == Len(responses)
<1>9. /\ r \in Seq(Item) /\ Len(r) = l + Len(c) /\ \A i \in 1..l : r[i] = responses[i]
      /\ \A i \in 1..Len(c) : r[l + i] = c[i]
  <2>1. r = responses \o c
    BY <1>5 DEF c
  <2> QED
    BY <1>6, <1>8, <2>1, Joined
<1>10. /\ NeverShuffled
       /\ \A i, j \in 1..l : i < j => responses[i].id < responses[j].id
       /\ \A i \in 1..Len(answers), j \in 1..l : answers[i].item.id < responses[j].id
       /\ \A i \in 1..Len(answers) : Answers(answers[i].item.id) /\ Past(answers[i].item.id)
       /\ \A i \in 1..l : Answers(responses[i].id) /\ Past(responses[i].id)
  BY <1>1, <1>4 DEF OrderInv
<1>11. \A j, k \in 1..Len(written) : Past(j) /\ ~Past(k) => j < k
  <2> SUFFICES ASSUME NEW j \in 1..Len(written), NEW k \in 1..Len(written), Past(j), ~Past(k)
               PROVE  j < k
    OBVIOUS
  <2>1. Ahead \in Seq(StreamByte) /\ Streams(Ahead, written)
    BY <1>1, AheadTyped DEF WireInv
  <2>2. Len(Ahead) \in Nat /\ \A i \in 1..Len(Ahead) : Ahead[i].of \in Nat
    BY <1>7, <2>1 DEF Streams
  <2>3. j \in Nat /\ k \in Nat /\ 0 \in Nat
    BY <1>7
  <2> QED
    BY <2>2, <2>3, BeforeFacts DEF Past
<1>12. \A k \in 1..Len(written) :
          /\ Past(k) => Past(k)'
          /\ Before(k, Ahead, q) => Past(k)'
          /\ Answers(k)' <=> Answers(k)
  <2>1. \A k \in Nat : (Past(k)' <=> Before(k, Ahead, q)) /\ (Past(k) => Past(k)')
    BY TookStream
  <2>2. \A k : Answers(k)' <=> Answers(k)
    BY <1>2 DEF Answers
  <2>3. \A k \in 1..Len(written) : k \in Nat
    BY <1>7
  <2> QED
    BY <2>1, <2>2, <2>3, Zenon
<1> DEFINE A(k) == written[k].kind \in {"response", "line"} /\ Before(k, Ahead', 0)
<1>13. \A k \in 1..Len(written) :
          (Answers(k) /\ Past(k) => A(k)) /\ (Answers(k) /\ Before(k, Ahead, q) => A(k))
  BY <1>12 DEF Answers, Past
<1> HIDE DEF A, l, r
<1>14. \A i \in 1..Len(r) : i \notin 1..l => i - l \in 1..Len(c) /\ l + (i - l) = i
  BY <1>6, <1>7, <1>9 DEF l
<1>15. \A i \in 1..Len(r) : A(r[i].id)
  <2> SUFFICES ASSUME NEW i \in 1..Len(r) PROVE A(r[i].id)
    OBVIOUS
  <2>1. CASE i \in 1..l
    BY <1>7, <1>9, <1>10, <1>13, <2>1 DEF l
  <2>2. CASE i \notin 1..l
    <3>1. i - l \in 1..Len(c) /\ r[i] = c[i - l]
      BY <1>9, <1>14, <2>2
    <3> QED
      BY <1>6, <1>13, <3>1
  <2> QED
    BY <2>1, <2>2
<1>16. ASSUME NEW i \in 1..Len(r), NEW j \in 1..Len(r), i < j PROVE r[i].id < r[j].id
  <2>1. l \in Nat
    BY <1>7 DEF l
  <2>2. CASE i \in 1..l /\ j \in 1..l
    BY <1>9, <1>10, <1>16, <2>2
  <2>3. CASE i \in 1..l /\ j \notin 1..l
    <3>1. j - l \in 1..Len(c) /\ r[j] = c[j - l]
      BY <1>9, <1>14, <2>3
    <3>2. responses[i].id \in 1..Len(written) /\ Past(responses[i].id)
      BY <1>7, <1>10, <2>3 DEF l
    <3>3. c[j - l].id \in 1..Len(written) /\ ~Past(c[j - l].id)
      BY <1>6, <3>1
    <3>4. responses[i].id < c[j - l].id
      BY <1>11, <3>2, <3>3
    <3> QED
      BY <1>9, <2>3, <3>1, <3>4
  <2>4. CASE i \notin 1..l
    <3>1. j \notin 1..l /\ i - l < j - l
      BY <1>16, <2>1, <2>4, <1>9, <1>6
    <3>2. i - l \in 1..Len(c) /\ r[i] = c[i - l] /\ j - l \in 1..Len(c) /\ r[j] = c[j - l]
      BY <1>9, <1>14, <2>4, <3>1
    <3> QED
      BY <1>6, <3>1, <3>2
  <2> QED
    BY <2>2, <2>3, <2>4
<1>17. ASSUME NEW i \in 1..Len(answers), NEW j \in 1..Len(r) PROVE answers[i].item.id < r[j].id
  <2>1. CASE j \in 1..l
    BY <1>9, <1>10, <2>1
  <2>2. CASE j \notin 1..l
    <3>1. j - l \in 1..Len(c) /\ r[j] = c[j - l]
      BY <1>9, <1>14, <2>2
    <3> QED
      BY <1>6, <1>7, <1>10, <1>11, <3>1
  <2> QED
    BY <2>1, <2>2
<1>18. \A i \in 1..Len(answers) : A(answers[i].item.id)
  BY <1>7, <1>10, <1>13
<1>19. NeverShuffled'
  BY <1>2, <1>4, <1>10, Zenon DEF NeverShuffled
<1> QED
  BY <1>2, <1>15, <1>16, <1>17, <1>18, <1>19, Zenon DEF OrderInv, Answers, Past, A, r

\* When no call raises, neither does the parser.
LEMMA TookCalm ==
    ASSUME IInv, NEW fed, NEW q, Took(fed, q), ~troubled'
    PROVE  /\ ~troubled /\ ~broken /\ ~fed.raised /\ call' = call
           /\ \E P, Q :
                /\ responses' = responses \o Chosen(Identified(fed.found), P)
                /\ notes' = notes \o Chosen(Identified(fed.found), Q)
                /\ \A i \in 1..Len(fed.found) :
                      (i \in P <=> ~Told(fed.found[i])) /\ (i \in Q <=> Told(fed.found[i]))
<1>1. \/ call' = call /\ troubled' = troubled /\ ~fed.raised
      \/ call' = "none" /\ troubled' = TRUE
  BY TookQueues, Zenon
<1>2. ~troubled /\ ~fed.raised /\ call' = call
  BY <1>1
<1>3. ~broken
  BY <1>2 DEF IInv
<1>4. \E P, Q :
         /\ responses' = responses \o Chosen(Identified(fed.found), P)
         /\ notes' = notes \o Chosen(Identified(fed.found), Q)
         /\ ~troubled' => \A i \in 1..Len(fed.found) :
               (i \in P <=> ~Told(fed.found[i])) /\ (i \in Q <=> Told(fed.found[i]))
  BY TookQueues, Zenon
<1> QED
  BY <1>2, <1>3, <1>4, Zenon

\* While no call raises, what a recv adds is for the request in progress.
LEMMA TookMatch == ASSUME IInv, NEW fed, NEW q, Took(fed, q) PROVE MatchInv'
<1> SUFFICES ASSUME ~troubled' PROVE MatchInv'
  BY DEF MatchInv
<1> DEFINE new == Identified(fed.found)
<1>1. TypeOK /\ MatchInv
  BY DEF IInv
<1>2. /\ sent' = sent /\ mute' = mute /\ toServer' = toServer
      /\ written' = written /\ answers' = answers
  BY DEF Took
<1>3. ~troubled /\ ~broken /\ ~fed.raised /\ call' = call
  BY TookCalm, Zenon
<1>4. PICK P : /\ responses' = responses \o Chosen(new, P)
               /\ \A i \in 1..Len(fed.found) : (i \in P <=> ~Told(fed.found[i]))
  BY TookCalm, Zenon
<1>5. \A j \in 1..Len(fed.found) : new[j].whole
  <2> SUFFICES ASSUME NEW j \in 1..Len(fed.found) PROVE new[j].whole
    OBVIOUS
  <2>1. Right(fed.found[j], Carried[Len(parsed) + j])
    BY <1>3 DEF Took
  <2>2. new[j] = Identify(fed.found[j])
    BY TookQueues, Zenon
  <2> DEFINE k == Carried[Len(parsed) + j]
  <2>3. Identify(fed.found[j]) = [id |-> k, whole |-> TRUE]
    BY <2>1 DEF Right
  <2> HIDE DEF new, k
  <2> QED
    BY <2>2, <2>3
<1> DEFINE c == Chosen(new, P)
<1>6. /\ c \in Seq(Item) /\ Len(c) \in Nat
      /\ \A i \in 1..Len(c) :
            /\ c[i].id \in 1..Len(written) /\ Answers(c[i].id) /\ ~Past(c[i].id)
            /\ \E j \in 1..Len(fed.found) : c[i] = new[j]
  <2>1. ~(Gatt /\ broken)
    BY <1>3
  <2> QED
    <3>1. \A i \in 1..Len(fed.found) : i \in P => ~Told(fed.found[i])
      BY <1>4
    <3> QED
      <4>1. /\ c \in Seq(Item) /\ Len(c) \in Nat
            /\ \A i \in 1..Len(c) :
                  /\ c[i].id \in 1..Len(written) /\ Answers(c[i].id)
                  /\ Before(c[i].id, Ahead, q) /\ ~Past(c[i].id)
                  /\ \E j \in 1..Len(fed.found) : c[i] = new[j]
        <5>1. LET x == Identified(fed.found)
                  y == Chosen(x, P)
              IN  /\ y \in Seq(Item) /\ Len(y) \in Nat
                  /\ \A i \in 1..Len(y) :
                        /\ y[i].id \in 1..Len(written) /\ Answers(y[i].id)
                        /\ Before(y[i].id, Ahead, q) /\ ~Past(y[i].id)
                        /\ \E j \in 1..Len(fed.found) : y[i] = x[j]
                  /\ \A i, j \in 1..Len(y) : i < j => y[i].id < y[j].id
          BY <2>1, <3>1, TookAnswers
        <5> QED
          BY <5>1
      <4> HIDE DEF c, new
      <4> QED
        BY <4>1, Zenon
<1> HIDE DEF c, new
<1>7. /\ MatchedUntilTrouble
      /\ \A i \in 1..Len(responses) :
             responses[i].whole /\ written[responses[i].id].id = sent /\ call = "request"
      /\ \A i \in 1..Len(toServer) :
             toServer[i] \notin mute => toServer[i] = sent /\ call = "request"
      /\ \A k \in 1..Len(written) :
             Answers(k) /\ ~Past(k) => written[k].id = sent /\ call = "request"
  BY <1>1, <1>3 DEF MatchInv
<1>8. responses \in Seq(Item) /\ Len(responses) \in Nat
  BY <1>1 DEF TypeOK
<1> DEFINE r == responses'
           l == Len(responses)
<1>9. /\ r \in Seq(Item) /\ Len(r) = l + Len(c) /\ \A i \in 1..l : r[i] = responses[i]
      /\ \A i \in 1..Len(c) : r[l + i] = c[i]
  <2>1. r = responses \o c
    BY <1>4 DEF c
  <2> QED
    BY <1>6, <1>8, <2>1, Joined
<1> HIDE DEF r, l
<1>10. \A i \in 1..Len(r) : r[i].whole /\ written[r[i].id].id = sent /\ call = "request"
  <2> SUFFICES ASSUME NEW i \in 1..Len(r)
               PROVE  r[i].whole /\ written[r[i].id].id = sent /\ call = "request"
    OBVIOUS
  <2>1. CASE i \in 1..l
    BY <1>7, <1>9, <2>1 DEF l
  <2>2. CASE i \notin 1..l
    <3>1. i - l \in 1..Len(c) /\ l + (i - l) = i
      BY <1>6, <1>8, <1>9, <2>2 DEF l
    <3>2. r[i] = c[i - l]
      BY <1>9, <3>1
    <3> DEFINE x == c[i - l]
    <3>3. /\ x.id \in 1..Len(written) /\ Answers(x.id) /\ ~Past(x.id)
          /\ \E j \in 1..Len(fed.found) : x = new[j]
      BY <1>6, <3>1
    <3> HIDE DEF x
    <3>4. x.whole /\ written[x.id].id = sent /\ call = "request"
      BY <1>5, <1>7, <3>3
    <3> QED
      BY <3>2, <3>4 DEF x
  <2> QED
    BY <2>1, <2>2
<1>11. MatchedUntilTrouble'
  BY <1>2, <1>3, <1>7, Zenon DEF MatchedUntilTrouble
<1>12. \A k \in 1..Len(written) : Answers(k)' /\ ~Past(k)' => Answers(k) /\ ~Past(k)
  <2>1. \A k \in Nat : Past(k) => Past(k)'
    BY TookStream
  <2>2. \A k : Answers(k)' <=> Answers(k)
    BY <1>2 DEF Answers
  <2>3. \A k \in 1..Len(written) : k \in Nat
    BY <1>1, TypeFacts
  <2> QED
    BY <2>1, <2>2, <2>3, Zenon
<1>13. \A k \in 1..Len(written) : Answers(k)' /\ ~Past(k)' => written[k].id = sent /\ call = "request"
  BY <1>7, <1>12, Zenon
<1> QED
  BY <1>2, <1>3, <1>7, <1>10, <1>11, <1>13, Zenon DEF MatchInv, r

\* What has been parsed is all that came before, whole.
LEMMA TookParsed == ASSUME IInv, NEW fed, NEW q, Took(fed, q) PROVE ParsedInv'
<1> SUFFICES ASSUME ~broken' PROVE ParsedInv'
  BY DEF ParsedInv
<1> DEFINE new == Identified(fed.found)
           n == Len(fed.found)
           c == Len(parsed)
           C == CarriedOf(written)
<1>1. TypeOK /\ ParsedInv
  BY DEF IInv
<1>2. written' = written /\ parsed' = parsed \o new /\ ~broken /\ ~fed.raised
  BY DEF Took
<1>3. Carried = C /\ Carried' = C
  BY <1>2 DEF Carried, CarriedOf
<1>4. /\ Counted(c + n, Ahead, q, written)
      /\ \A j \in 1..n : Right(fed.found[j], C[c + j])
  BY <1>2, <1>3 DEF Took
<1>5. \A i \in 1..c : parsed[i] = [id |-> C[i], whole |-> TRUE] /\ Good(written[C[i]])
  BY <1>1, <1>2, <1>3 DEF ParsedInv
<1>6. /\ new \in Seq(Item) /\ Len(new) = n /\ n \in Nat
      /\ \A j \in 1..n : new[j] = Identify(fed.found[j])
  BY TookQueues, Zenon
<1>7. parsed \in Seq(Item) /\ c \in Nat
  BY <1>1 DEF TypeOK
<1> DEFINE p == parsed'
<1> HIDE DEF new, n
<1>8. /\ Len(p) = c + n /\ \A i \in 1..c : p[i] = parsed[i]
      /\ \A i \in 1..n : p[c + i] = new[i]
  <2>1. parsed \o new = p
    BY <1>2
  <2>2. /\ Len(parsed \o new) = Len(parsed) + Len(new)
        /\ \A i \in 1..Len(parsed) : (parsed \o new)[i] = parsed[i]
        /\ \A i \in 1..Len(new) : (parsed \o new)[Len(parsed) + i] = new[i]
    <3>1. parsed \in Seq(Item) /\ new \in Seq(Item)
      BY <1>6, <1>7
    <3> QED
      BY <3>1, Joined
  <2> QED
    BY <1>6, <2>1, <2>2
<1>9. \A k \in Nat : Before(k, Ahead', 0) <=> Before(k, Ahead, q)
  <2>1. \A k \in Nat : Past(k)' <=> Before(k, Ahead, q)
    BY TookStream
  <2> QED
    BY <2>1 DEF Past
<1>10. \A i \in 1..Len(C) : C[i] \in Nat
  <2>1. PICK I : written \in Seq(I)
    BY <1>1, Zenon DEF TypeOK
  <2>2. \A i \in 1..Len(C) : C[i] \in 1..Len(written)
    BY <2>1, CarriedFacts
  <2>3. Len(written) \in Nat
    BY <1>1, TypeFacts
  <2> HIDE DEF C
  <2> QED
    BY <2>2, <2>3
<1> HIDE DEF c, p, C
<1>11. Counted(Len(p), Ahead', 0, written)
  <2>1. /\ c + n \in 0..Len(C)
        /\ \A i \in 1..Len(C) : i <= c + n <=> Before(C[i], Ahead, q)
    BY <1>4 DEF Counted, C
  <2>2. \A i \in 1..Len(C) : i <= c + n <=> Before(C[i], Ahead', 0)
    BY <1>9, <1>10, <2>1
  <2> QED
    BY <1>8, <2>1, <2>2, Zenon DEF Counted, C
<1>12. \A i \in 1..Len(p) : p[i] = [id |-> C[i], whole |-> TRUE] /\ Good(written[C[i]])
  <2> SUFFICES ASSUME NEW i \in 1..Len(p)
               PROVE  p[i] = [id |-> C[i], whole |-> TRUE] /\ Good(written[C[i]])
    OBVIOUS
  <2>1. CASE i \in 1..c
    BY <1>5, <1>8, <2>1
  <2>2. CASE i \notin 1..c
    <3>1. i - c \in 1..n /\ c + (i - c) = i
      BY <1>6, <1>7, <1>8, <2>2 DEF c
    <3>2. p[i] = Identify(fed.found[i - c])
      BY <1>6, <1>8, <3>1
    <3>3. Right(fed.found[i - c], C[i])
      BY <1>4, <3>1
    <3> QED
      BY <3>2, <3>3 DEF Right
  <2> QED
    BY <2>1, <2>2
<1> QED
  BY <1>2, <1>3, <1>11, <1>12, Zenon DEF ParsedInv, p

\* The notifications among it are queued, or heard, once.
LEMMA TookNotes == ASSUME IInv, NEW fed, NEW q, Took(fed, q) PROVE NotesKept'
<1> SUFFICES ASSUME ~troubled' PROVE NotesKept'
  BY DEF NotesKept
<1> DEFINE new == Identified(fed.found)
           n == Len(fed.found)
           p == parsed'
           T(x) == written[x.id].kind = "notification"
           R == {i \in DOMAIN parsed : T(parsed[i])}
           S == {i \in DOMAIN p : T(p[i])}
<1>1. TypeOK /\ NotesKept /\ ServerInv
  BY DEF IInv
<1>2. written' = written /\ heard' = heard /\ p = parsed \o new
  BY DEF Took
<1>3. ~troubled /\ ~broken /\ ~fed.raised
  BY TookCalm, Zenon
<1>4. PICK Q : /\ notes' = notes \o Chosen(new, Q)
               /\ \A i \in 1..n : (i \in Q <=> Told(fed.found[i]))
  BY TookCalm, Zenon
<1>5. /\ new \in Seq(Item) /\ Len(new) = n /\ n \in Nat
      /\ \A j \in 1..n : new[j].id = First(fed.found[j])
  BY TookQueues, Zenon
<1>6. parsed \in Seq(Item) /\ notes \in Seq(Item) /\ heard \in Seq(Item)
  BY <1>1 DEF TypeOK
<1>7. heard \o notes = Chosen(parsed, R)
  BY <1>1, <1>3 DEF NotesKept
<1>8. \A j \in 1..n : Told(fed.found[j]) <=> T(new[j])
  <2> SUFFICES ASSUME NEW j \in 1..n PROVE Told(fed.found[j]) <=> T(new[j])
    OBVIOUS
  <2> DEFINE k == First(fed.found[j])
  <2>1. k \in 1..Len(written) /\ (Answers(k) <=> ~Told(fed.found[j]))
    BY <1>3 DEF Took, InOrder
  <2> HIDE DEF k
  <2>2. written[k].kind \in IF Gatt THEN {"response", "notification"} ELSE {"line", "blank"}
    BY <1>1, <2>1 DEF ServerInv
  <2>3. new[j].id = k
    BY <1>5 DEF k
  <2>4. Told(fed.found[j]) => Gatt
    BY DEF Told
  <2>5. CASE Gatt
    BY <2>1, <2>2, <2>3, <2>5 DEF Answers
  <2>6. CASE ~Gatt
    BY <2>2, <2>3, <2>4, <2>6
  <2> QED
    BY <2>5, <2>6
<1> HIDE DEF n, new, T, p
<1>9. /\ \A i \in 1..Len(parsed) : i \in R <=> i \in S
      /\ \A i \in 1..Len(new) : i \in Q <=> Len(parsed) + i \in S
  <2>1. /\ p \in Seq(Item) /\ Len(p) = Len(parsed) + Len(new)
        /\ \A i \in 1..Len(parsed) : p[i] = parsed[i]
        /\ \A i \in 1..Len(new) : p[Len(parsed) + i] = new[i]
    <3>1. /\ parsed \o new \in Seq(Item) /\ Len(parsed \o new) = Len(parsed) + Len(new)
          /\ \A i \in 1..Len(parsed) : (parsed \o new)[i] = parsed[i]
          /\ \A i \in 1..Len(new) : (parsed \o new)[Len(parsed) + i] = new[i]
      <4>1. parsed \in Seq(Item) /\ new \in Seq(Item)
        BY <1>5, <1>6
      <4> QED
        BY <4>1, Joined
    <3> QED
      BY <1>2, <3>1
  <2>2. /\ DOMAIN p = 1..(Len(parsed) + n) /\ DOMAIN parsed = 1..Len(parsed) /\ Len(parsed) \in Nat
    BY <1>5, <1>6, <2>1
  <2>3. \A i \in 1..Len(parsed) : i \in DOMAIN p
    BY <1>5, <2>2
  <2>4. \A i \in 1..n : Len(parsed) + i \in DOMAIN p
    BY <1>5, <2>2
  <2>5. \A i \in 1..Len(parsed) : i \in R <=> i \in S
    BY <2>1, <2>2, <2>3
  <2>6. \A i \in 1..n : i \in Q <=> Len(parsed) + i \in S
    BY <1>4, <1>5, <1>8, <2>1, <2>4 DEF n
  <2> QED
    BY <1>5, <2>5, <2>6
<1> HIDE DEF R, S
<1>10. Chosen(parsed \o new, S) = Chosen(parsed, R) \o Chosen(new, Q)
  <2>1. parsed \in Seq(Item) /\ new \in Seq(Item)
    BY <1>5, <1>6
  <2> QED
    BY <1>9, <2>1, ChosenConcat
<1>11. heard \o (notes \o Chosen(new, Q)) = (heard \o notes) \o Chosen(new, Q)
  <2>1. Chosen(new, Q) \in Seq(Item)
    BY <1>5, ChosenTyped
  <2> QED
    <3> DEFINE e == Chosen(new, Q)
    <3>1. heard \in Seq(Item) /\ notes \in Seq(Item) /\ e \in Seq(Item)
      BY <1>6, <2>1
    <3> HIDE DEF e
    <3>2. (heard \o notes) \o e = heard \o (notes \o e)
      BY <3>1, ConcatAssociative
    <3> QED
      BY <3>2 DEF e
<1>12. heard \o notes' = Chosen(p, S)
  BY <1>2, <1>4, <1>7, <1>10, <1>11
<1>13. S = {i \in DOMAIN parsed' : written'[parsed'[i].id].kind = "notification"}
  BY <1>2 DEF S, T, p
<1> QED
  BY <1>2, <1>12, <1>13 DEF NotesKept, p

\* A recv, the feed that follows and the queues: every part of the invariant again.
LEMMA ReceiveIInv == ASSUME IInv, Receive PROVE IInv'
<1>1. PICK fed, q : Took(fed, q)
  BY ReceiveTakes
<1>2. TypeOK' /\ WireInv' /\ OrderInv' /\ MatchInv' /\ ParsedInv' /\ NotesKept'
  BY <1>1, TookTyped, TookWire, TookOrder, TookMatch, TookParsed, TookNotes
<1>3. ServerInv'
  BY <1>1, ServerSame DEF IInv, Took
<1>4. broken' => troubled'
  <2>1. broken' = (broken \/ fed.raised)
    BY <1>1, Zenon DEF Took
  <2>2. \/ call' = call /\ troubled' = troubled /\ ~fed.raised
        \/ call' = "none" /\ troubled' = TRUE
    BY <1>1, TookQueues, Zenon
  <2>3. broken => troubled
    BY DEF IInv
  <2> QED
    <3>1. CASE troubled' = TRUE
      BY <3>1
    <3>2. CASE troubled' = troubled /\ ~fed.raised
      <4>1. broken' => broken
        BY <2>1, <3>2
      <4> QED
        BY <2>3, <3>2, <4>1
    <3> QED
      BY <2>2, <3>1, <3>2
<1>5. call' = "request" => sent' > 0
  <2>1. \/ call' = call \/ call' = "none"
    BY <1>1, TookQueues, Zenon
  <2>2. sent' = sent /\ (call = "request" => sent > 0)
    BY <1>1 DEF Took, IInv
  <2> QED
    BY <2>1, <2>2
<1> QED
  BY <1>2, <1>3, <1>4, <1>5 DEF IInv

\* Every step keeps the invariant.
LEMMA NextIInv == ASSUME IInv, [Next]_vars PROVE IInv'
<1>1. CASE Request
  BY <1>1, SendsIInv DEF Request, Sends
<1>2. CASE Command
  BY <1>2, SendsIInv DEF Command, Sends
<1>3. CASE NextNotification
  BY <1>3, NextNotificationIInv
<1>4. CASE Complete
  BY <1>4, CompleteIInv
<1>5. CASE Hear
  BY <1>5, HearIInv
<1>6. CASE TimesOut
  BY <1>6, TimesOutIInv
<1>7. CASE SeesClose
  BY <1>7, SeesCloseIInv
<1>8. CASE Receive
  BY <1>8, ReceiveIInv
<1>9. CASE Answer
  BY <1>9, AnswerIInv
<1>10. CASE Obey
  BY <1>10, ObeyIInv
<1>11. CASE Notify
  BY <1>11, NotifyIInv
<1>12. CASE HangUp
  BY <1>12, HangUpIInv DEF HangUp
<1>13. CASE Reconnect
  BY <1>13, ReconnectIInv
<1>14. CASE UNCHANGED vars
  <2>1. UNCHANGED <<protocol, client, toServer, written, wire>> /\ hungUp' = hungUp
    BY <1>14 DEF vars, server
  <2>2. hungUp \in BOOLEAN
    BY DEF IInv, TypeOK
  <2> QED
    BY <2>1, <2>2, HangUpIInv
<1> QED
  BY <1>1, <1>2, <1>3, <1>4, <1>5, <1>6, <1>7, <1>8, <1>9, <1>10, <1>11, <1>12, <1>13, <1>14
     DEF Next, Client, Server

-----------------------------------------------------------------------------
(* The parsers deliver the stream.                                          *)

\* What Framing calls sent.
SendingsOf(w) ==
    [i \in DOMAIN CarriedOf(w) |->
        [id |-> CarriedOf(w)[i], good |-> Good(w[CarriedOf(w)[i]])]]

\* They are the items a parser is to return, each with whether it is acceptable.
LEMMA SendingsFacts ==
    ASSUME NEW I, NEW w \in Seq(I)
    PROVE  /\ Len(CarriedOf(w)) \in Nat
           /\ \E R : SendingsOf(w) \in Seq(R)
           /\ Len(SendingsOf(w)) = Len(CarriedOf(w))
           /\ \A i \in 1..Len(CarriedOf(w)) :
                 /\ CarriedOf(w)[i] \in 1..Len(w)
                 /\ SendingsOf(w)[i] = [id |-> CarriedOf(w)[i], good |-> Good(w[CarriedOf(w)[i]])]
<1> DEFINE C == CarriedOf(w)
           n == Len(C)
<1>1. C \in Seq(1..Len(w)) /\ \A i \in 1..n : C[i] \in 1..Len(w)
  BY CarriedFacts
<1> HIDE DEF C
<1>2. n \in Nat /\ DOMAIN C = 1..n
  BY <1>1
<1> HIDE DEF n
<1> DEFINE g(i) == [id |-> C[i], good |-> Good(w[C[i]])]
           R == {g(i) : i \in 1..n}
           h == [i \in 1..n |-> g(i)]
<1>3. \A i \in 1..n : g(i) \in R
  OBVIOUS
<1> HIDE DEF R, g
<1>4. h \in [1..n -> R] /\ \A i \in 1..n : h[i] = g(i)
  BY <1>3
<1> HIDE DEF h
<1>5. h \in Seq(R) /\ Len(h) = n
  BY <1>2, <1>4
<1>6. SendingsOf(w) = h
  BY <1>2, Zenon DEF SendingsOf, C, h, g
<1> QED
  BY <1>1, <1>2, <1>4, <1>5, <1>6 DEF C, n, g

\* A new connection has sent nothing and returned nothing.
LEMMA InitParses == Init => Stream!Init
<1> SUFFICES ASSUME Init PROVE Stream!Init
  OBVIOUS
<1>1. CarriedOf(written) = <<>> /\ written \in Seq({})
  <2>1. [k \in DOMAIN written |-> k] = <<>>
    BY DEF Init
  <2>2. written \in Seq({})
    BY DEF Init
  <2> QED
    BY <2>1, <2>2, ChosenEmpty, Zenon DEF CarriedOf
<1>2. (\E R : SendingsOf(written) \in Seq(R)) /\ Len(SendingsOf(written)) = 0
  BY <1>1, SendingsFacts
<1>3. SendingsOf(written) = <<>>
  BY <1>2, EmptySeq
<1> QED
  BY <1>3, Zenon DEF Init, Stream!Init, SendingsOf, Carried, CarriedOf

\* Steps that neither write nor parse.
LEMMA StreamStutters ==
    ASSUME written' = written, parsed' = parsed, broken' = broken
    PROVE  UNCHANGED Stream!vars
<1>1. SendingsOf(written)' = SendingsOf(written)
  BY Zenon
<1> QED
  BY <1>1, Zenon DEF Stream!vars, SendingsOf, Carried, CarriedOf

\* The server writes an item; an empty line is none to the parser's caller.
LEMMA WritesParses ==
    ASSUME TypeOK, NEW x, Writes(x)
    PROVE  [Stream!Next]_(Stream!vars)
<1> DEFINE n == Len(written)
           v == written'
           S == SendingsOf(written)
           T == SendingsOf(v)
           C == CarriedOf(written)
           D == CarriedOf(v)
<1>1. parsed' = parsed /\ broken' = broken /\ v = Append(written, x)
  BY DEF Writes, client
<1>2. PICK I : written \in Seq(I) /\ x \in I
  <2>1. PICK J : written \in Seq(J)
    BY Zenon DEF TypeOK
  <2> DEFINE I == J \cup {x}
  <2>2. J \subseteq I /\ x \in I
    OBVIOUS
  <2> HIDE DEF I
  <2>3. written \in Seq(I)
    BY <2>1, <2>2, SeqMonotonic
  <2> QED
    BY <2>2, <2>3
<1>3. /\ v \in Seq(I) /\ n \in Nat /\ \A k \in 1..n : v[k] = written[k]
  BY <1>1, <1>2
<1> HIDE DEF v
<1>4. D = IF x.kind # "blank" THEN Append(C, n + 1) ELSE C
  BY <1>1, <1>2, CarriedGrows
<1>5. /\ Len(C) \in Nat /\ (\E R : S \in Seq(R)) /\ Len(S) = Len(C)
      /\ \A i \in 1..Len(C) : C[i] \in 1..n /\ S[i] = [id |-> C[i], good |-> Good(written[C[i]])]
  BY <1>2, SendingsFacts
<1>6. /\ (\E R : T \in Seq(R)) /\ Len(T) = Len(D)
      /\ \A i \in 1..Len(D) : T[i] = [id |-> D[i], good |-> Good(v[D[i]])]
  BY <1>3, SendingsFacts
<1>7. PICK R : S \in Seq(R) /\ T \in Seq(R)
  <2>1. PICK P, Q : S \in Seq(P) /\ T \in Seq(Q)
    BY <1>5, <1>6
  <2> DEFINE R == P \cup Q
  <2>2. P \subseteq R /\ Q \subseteq R
    OBVIOUS
  <2> HIDE DEF R, S, T
  <2>3. S \in Seq(R) /\ T \in Seq(R)
    BY <2>1, <2>2, SeqMonotonic
  <2> QED
    BY <2>3
<1>8. C \in Seq(1..n)
  BY <1>2, CarriedFacts
<1> HIDE DEF C, D, S, T, n
<1>9. /\ Len(D) = Len(C) + (IF x.kind # "blank" THEN 1 ELSE 0)
      /\ \A i \in 1..Len(C) : D[i] = C[i]
  <2>1. CASE x.kind # "blank"
    <3> DEFINE a == n + 1
    <3>1. D = Append(C, a)
      BY <1>4, <2>1
    <3> HIDE DEF a
    <3>2. Len(D) = Len(C) + 1 /\ \A i \in 1..Len(C) : D[i] = C[i]
      BY <1>8, <3>1
    <3> QED
      BY <2>1, <3>2
  <2>2. CASE x.kind = "blank"
    <3>1. D = C
      BY <1>4, <2>2
    <3> QED
      BY <1>5, <2>2, <3>1
  <2> QED
    BY <2>1, <2>2
<1>10. \A i \in 1..Len(S) : T[i] = S[i]
  <2> SUFFICES ASSUME NEW i \in 1..Len(S) PROVE T[i] = S[i]
    OBVIOUS
  <2>1. i \in 1..Len(C) /\ i \in 1..Len(D)
    BY <1>5, <1>9
  <2>2. D[i] = C[i] /\ v[C[i]] = written[C[i]]
    BY <1>3, <1>5, <1>9, <2>1 DEF n
  <2>3. T[i] = [id |-> D[i], good |-> Good(v[D[i]])] /\ S[i] = [id |-> C[i], good |-> Good(written[C[i]])]
    BY <1>5, <1>6, <2>1
  <2> QED
    BY <2>2, <2>3
<1>11. CASE x.kind # "blank"
  <2>1. Len(T) = Len(S) + 1 /\ Len(S) \in Nat
    BY <1>5, <1>6, <1>9, <1>11
  <2> DEFINE U == SubSeq(T, 1, Len(S))
  <2>2. U \in Seq(R) /\ Len(U) = Len(S) /\ \A i \in 1..Len(S) : U[i] = T[i]
    BY <1>7, <2>1
  <2> HIDE DEF U
  <2>3. U = S
    BY <1>7, <1>10, <2>2, SeqEqual
  <2>4. Stream!Write
    BY <1>1, <2>1, <2>3, Zenon DEF Stream!Write, U, S, T, SendingsOf, Carried, CarriedOf, v
  <2> QED
    BY <2>4, Zenon DEF Stream!Next
<1>12. CASE x.kind = "blank"
  <2>1. Len(T) = Len(S)
    BY <1>5, <1>6, <1>9, <1>12
  <2>2. T = S
    BY <1>7, <1>10, <2>1, SeqEqual
  <2>3. UNCHANGED Stream!vars
    BY <1>1, <2>2, Zenon DEF Stream!vars, S, T, SendingsOf, Carried, CarriedOf, v
  <2> QED
    BY <2>3
<1> QED
  BY <1>11, <1>12

\* A recv delivers some of the items that are still to be returned, in order and
\* whole, or raises because of one that is not acceptable.
LEMMA ReceiveParses ==
    ASSUME IInv, NEW fed, NEW q, Took(fed, q)
    PROVE  [Stream!Next]_(Stream!vars)
<1> DEFINE new == Identified(fed.found)
           S == SendingsOf(written)
           C == CarriedOf(written)
           c == Len(parsed)
           n == Len(fed.found)
<1>1. TypeOK
  BY DEF IInv
<1>2. /\ written' = written /\ parsed' = parsed \o new
      /\ broken' = (broken \/ fed.raised) /\ fed.raised \in BOOLEAN
  BY DEF Took
<1>3. /\ new \in Seq(Item) /\ Len(new) = n /\ n \in Nat
      /\ \A j \in 1..n : new[j] = Identify(fed.found[j])
  BY TookQueues, Zenon
<1>4. parsed \in Seq(Item) /\ c \in Nat /\ broken \in BOOLEAN
  BY <1>1 DEF TypeOK
<1>5. Carried = C
  BY Zenon DEF Carried, CarriedOf
<1>6. /\ Len(C) \in Nat /\ (\E R : S \in Seq(R)) /\ Len(S) = Len(C)
      /\ \A i \in 1..Len(C) : S[i] = [id |-> C[i], good |-> Good(written[C[i]])]
  <2>1. PICK I : written \in Seq(I)
    BY <1>1, Zenon DEF TypeOK
  <2> QED
    BY <2>1, SendingsFacts
<1>7. SendingsOf(written)' = S
  BY <1>2, Zenon
<1>8. CASE broken
  <2>1. broken'
    BY <1>2, <1>8
  <2>2. Stream!Garbled
    BY <1>7, <1>8, <2>1, Zenon DEF Stream!Garbled, SendingsOf, Carried, CarriedOf
  <2> QED
    BY <2>2, Zenon DEF Stream!Next
<1>9. CASE ~broken /\ fed.raised
  <2>1. PICK i \in (c + 1)..Len(C) : ~Good(written[C[i]])
    BY <1>5, <1>9 DEF Took
  <2>2. fed.found = <<>>
    BY <1>9 DEF Took
  <2>3. n = 0
    BY <2>2
  <2>4. new = <<>>
    BY <1>3, <2>3, EmptySeq
  <2>5. parsed' = parsed
    <3> HIDE DEF new
    <3> QED
      BY <1>2, <1>4, <2>4
  <2>6. ~S[i].good
    <3>1. i \in 1..Len(C)
      BY <1>4, <1>6, <2>1
    <3> HIDE DEF S, C
    <3> QED
      <4>1. S[i] = [id |-> C[i], good |-> Good(written[C[i]])]
        BY <1>6, <3>1
      <4>2. S[i].good = Good(written[C[i]])
        BY <4>1
      <4> QED
        BY <2>1, <4>2, Zenon
  <2>7. i \in (Len(parsed) + 1)..Len(S)
    BY <1>6, <2>1
  <2>8. broken'
    BY <1>2, <1>9
  <2>9. Stream!Break
    BY <1>7, <1>9, <2>5, <2>6, <2>7, <2>8, Zenon DEF Stream!Break, S, SendingsOf, Carried, CarriedOf
  <2> QED
    BY <2>9, Zenon DEF Stream!Next
<1>10. CASE ~broken /\ ~fed.raised /\ n = 0
  <2>1. new = <<>>
    BY <1>3, <1>10, EmptySeq
  <2>2. parsed' = parsed
    <3> HIDE DEF new
    <3> QED
      BY <1>2, <1>4, <2>1
  <2>3. broken' = broken
    BY <1>2, <1>4, <1>10
  <2> QED
    BY <1>2, <2>2, <2>3, StreamStutters
<1>11. CASE ~broken /\ ~fed.raised /\ n # 0
  <2>1. /\ Counted(c + n, Ahead, q, written)
        /\ \A j \in 1..n : Right(fed.found[j], C[c + j])
    BY <1>5, <1>11 DEF Took
  <2>2. c + n \in 0..Len(C)
    BY <2>1 DEF Counted
  <2> DEFINE m == c + n
             next == SubSeq(S, c + 1, m)
             W == [i \in DOMAIN next |-> [id |-> next[i].id, whole |-> TRUE]]
  <2>3. \A j \in 1..n : Identify(fed.found[j]) = [id |-> C[c + j], whole |-> TRUE] /\ Good(written[C[c + j]])
    BY <2>1 DEF Right
  <2> HIDE DEF new, C, S, c, n
  <2>4. m \in (c + 1)..Len(S) /\ m \in Nat /\ \A j \in 1..n : c + j \in 1..Len(C)
    BY <1>3, <1>4, <1>6, <1>11, <2>2
  <2>5. DOMAIN next = 1..n /\ \A j \in 1..n : next[j] = S[c + j]
    <3>1. PICK R : S \in Seq(R)
      BY <1>6
    <3>2. /\ next \in Seq(R) /\ Len(next) = n /\ \A j \in 1..n : next[j] = S[c + j]
      BY <1>3, <1>4, <2>4, <3>1
    <3> HIDE DEF next
    <3> QED
      BY <3>2
  <2>6. \A j \in 1..n : next[j].good /\ next[j].id = C[c + j]
    <3> SUFFICES ASSUME NEW j \in 1..n PROVE next[j].good /\ next[j].id = C[c + j]
      OBVIOUS
    <3> HIDE DEF next
    <3>1. next[j] = [id |-> C[c + j], good |-> Good(written[C[c + j]])]
      BY <1>6, <2>4, <2>5
    <3>2. next[j].good = Good(written[C[c + j]]) /\ next[j].id = C[c + j]
      BY <3>1
    <3> QED
      BY <2>3, <3>2, Zenon
  <2> HIDE DEF next
  <2>7. W = [i \in 1..n |-> [id |-> C[c + i], whole |-> TRUE]]
    BY <2>5, <2>6
  <2>8. new = W
    <3>1. DOMAIN new = 1..n /\ new = [i \in 1..n |-> new[i]]
      BY <1>3
    <3>2. \A i \in 1..n : new[i] = [id |-> C[c + i], whole |-> TRUE]
      BY <1>3, <2>3
    <3> QED
      BY <2>7, <3>1, <3>2
  <2>9. broken' = broken
    BY <1>2, <1>4, <1>11
  <2>10. \A i \in DOMAIN next : next[i].good
    BY <2>5, <2>6
  <2>11. parsed' = parsed \o W
    BY <1>2, <2>8
  <2> HIDE DEF W, m
  <2>12. Stream!Deliver
    BY <1>7, <1>11, <2>4, <2>9, <2>10, <2>11, Zenon
       DEF Stream!Deliver, Stream!Whole, W, next, S, c, SendingsOf, Carried, CarriedOf
  <2> QED
    BY <2>12, Zenon DEF Stream!Next
<1> QED
  BY <1>2, <1>4, <1>8, <1>9, <1>10, <1>11

\* A new connection starts the stream anew.
LEMMA ReconnectParses == ASSUME Reconnect PROVE [Stream!Next]_(Stream!vars)
<1>1. written' = <<>> /\ parsed' = <<>> /\ ~broken'
  BY DEF Reconnect
<1>2. CarriedOf(written') = <<>> /\ written' \in Seq({})
  <2>1. [k \in DOMAIN written' |-> k] = <<>>
    BY <1>1
  <2>2. written' \in Seq({})
    BY <1>1
  <2> QED
    BY <1>1, <2>1, <2>2, ChosenEmpty, Zenon DEF CarriedOf
<1> DEFINE w == written'
<1>3. CarriedOf(w) = <<>> /\ w \in Seq({})
  BY <1>2
<1> HIDE DEF w
<1>4. (\E R : SendingsOf(w) \in Seq(R)) /\ Len(SendingsOf(w)) = 0
  BY <1>3, SendingsFacts
<1>5. SendingsOf(w) = <<>>
  BY <1>4, EmptySeq
<1>6. Stream!Reopen
  BY <1>1, <1>5, Zenon DEF Stream!Reopen, w, SendingsOf, Carried, CarriedOf
<1> QED
  BY <1>6, Zenon DEF Stream!Next

\* Every step of the connection is one of the stream, or none.
LEMMA StepParses == ASSUME IInv, [Next]_vars PROVE [Stream!Next]_(Stream!vars)
<1>1. TypeOK
  BY DEF IInv
<1>2. CASE Request \/ Command \/ NextNotification \/ Complete \/ Hear \/ TimesOut \/ SeesClose
           \/ Obey \/ HangUp \/ UNCHANGED vars
  <2>1. written' = written /\ parsed' = parsed /\ broken' = broken
    BY <1>2 DEF Request, Command, NextNotification, Complete, Hear, TimesOut, SeesClose, Obey,
                HangUp, vars, server, client
  <2> QED
    BY <2>1, StreamStutters
<1>3. CASE Receive
  <2>1. PICK fed, q : Took(fed, q)
    BY <1>3, ReceiveTakes
  <2> QED
    BY <2>1, ReceiveParses
<1>4. CASE Answer
  <2>1. PICK x : Writes(x)
    BY <1>4, Zenon DEF Answer
  <2> QED
    BY <1>1, <2>1, WritesParses
<1>5. CASE Notify
  <2>1. PICK x : Writes(x)
    BY <1>5, Zenon DEF Notify
  <2> QED
    BY <1>1, <2>1, WritesParses
<1>6. CASE Reconnect
  BY <1>6, ReconnectParses
<1> QED
  BY <1>2, <1>3, <1>4, <1>5, <1>6 DEF Next, Client, Server

-----------------------------------------------------------------------------
(* Theorems.                                                                *)

\* The strengthening that everything below follows from.
THEOREM ConnectionInvariant == Spec => []IInv
<1>1. Init => IInv
  BY InitIInv
<1>2. IInv /\ [Next]_vars => IInv'
  BY NextIInv
<1> QED
  BY <1>1, <1>2, PTL DEF Spec

\* The queues of GattBridgeClient and BleControlClient hold responses, answers and
\* notifications of what was written, and their parsers' buffers hold bytes.
THEOREM TypeCorrect == Spec => []TypeOK
<1>1. IInv => TypeOK
  BY DEF IInv
<1> QED
  BY <1>1, ConnectionInvariant, PTL

\* Until a call raises, request of both clients returns the answer to the request it
\* sent, whole: for any number of requests, any sizes of payloads and lines, and
\* however recv cuts the stream.
THEOREM AnswersMatch == Spec => []MatchedUntilTrouble
<1>1. IInv => MatchedUntilTrouble
  <2> SUFFICES ASSUME IInv PROVE MatchedUntilTrouble
    OBVIOUS
  <2>1. MatchInv
    BY DEF IInv
  <2>2. CASE troubled
    BY <2>2 DEF MatchedUntilTrouble
  <2>3. CASE ~troubled
    BY <2>1, <2>3 DEF MatchInv
  <2> QED
    BY <2>2, <2>3
<1> QED
  BY <1>1, ConnectionInvariant, PTL

\* Even after a timeout or another error, a client that goes on with its connection
\* never gets an older answer after a newer one, unless its frame parser has raised
\* in the middle of the stream.  The line parser finds its place again.
THEOREM AnswersInOrder == Spec => []NeverShuffled
<1>1. IInv => NeverShuffled
  <2> SUFFICES ASSUME IInv PROVE NeverShuffled
    OBVIOUS
  <2>1. OrderInv
    BY DEF IInv
  <2>2. CASE Gatt /\ broken
    BY <2>2 DEF NeverShuffled
  <2>3. CASE ~(Gatt /\ broken)
    BY <2>1, <2>3 DEF OrderInv
  <2> QED
    BY <2>2, <2>3
<1> QED
  BY <1>1, ConnectionInvariant, PTL

\* A notification that _receive has parsed is in the queue until next_notification
\* returns it, once and in order, whatever other calls come in between, until a call
\* raises.
THEOREM NotificationsKept == Spec => []NotesKept
<1>1. IInv => NotesKept
  BY DEF IInv
<1> QED
  BY <1>1, ConnectionInvariant, PTL

\* Neither GattFrameParser.feed nor LineParser.feed leaves a complete frame or line
\* in its buffer, unless it has raised: no caller waits for bytes it already has.
THEOREM FeedWithholdsNothing == Spec => []NothingWithheld
<1>1. IInv => NothingWithheld
  <2> SUFFICES ASSUME IInv PROVE NothingWithheld
    OBVIOUS
  <2>1. WireInv
    BY DEF IInv
  <2>2. CASE broken
    BY <2>2 DEF NothingWithheld
  <2>3. CASE ~broken
    BY <2>1, <2>3 DEF WireInv
  <2> QED
    BY <2>2, <2>3
<1> QED
  BY <1>1, ConnectionInvariant, PTL

\* The two parsers implement Framing: whatever recv returns at a time, they return
\* the items written, in order, each once and whole, up to the first that is not
\* acceptable.
THEOREM ParsersDeliver == Spec => ParsesTheStream
<1>1. Init => Stream!Init
  BY InitParses
<1>2. IInv /\ [Next]_vars => [Stream!Next]_(Stream!vars)
  BY StepParses
<1> QED
  BY <1>1, <1>2, ConnectionInvariant, PTL DEF Spec, ParsesTheStream, Stream!Spec

=============================================================================
