---------------------------- MODULE PrintfProofs ----------------------------
(***************************************************************************)
(* Proofs about Printf, for every buffer, format, terminal, set of         *)
(* arguments and set of sequences: what the recursive functions Course and *)
(* DigitsOf give, that an integer's field says the integer, and an         *)
(* inductive invariant each for the formatter, the cursor, the escape      *)
(* buffer and what is drawn.                                               *)
(***************************************************************************)
EXTENDS Printf, WellFoundedInduction, TLAPS

-----------------------------------------------------------------------------
(* Induction.  The library's theorems on it take the claim as an operator; *)
(* a claim that fails somewhere has a least number where it fails.         *)

LEMMA LeastNatural ==
    ASSUME NEW T \in SUBSET Nat, T # {}
    PROVE  \E n \in T : \A m \in T : n <= m
<1>1. PICK n \in T : \A m \in T : ~ (<<m, n>> \in OpToRel(<, Nat))
  BY NatLessThanWellFounded, WFMin, Zenon
<1>2. \A m \in T : ~(m < n) BY <1>1 DEF OpToRel
<1>. QED BY <1>2

-----------------------------------------------------------------------------
(* Courses                                                                 *)

LEMMA CourseIsDefined ==
    ASSUME NEW step, NEW base, NEW seq, Len(seq) \in Nat
    PROVE  /\ Course(step, base, seq) =
                  [k \in 0 .. Len(seq) |-> Course(step, base, seq)[k]]
           /\ \A k \in 0 .. Len(seq) :
                 Course(step, base, seq)[k] =
                     IF k = 0 THEN base
                     ELSE step[seq[k]][Course(step, base, seq)[k - 1]]
<1>. DEFINE IsCourse(f, n) ==
              f = [k \in 0 .. n |-> IF k = 0 THEN base ELSE step[seq[k]][f[k - 1]]]
            Missing == {n \in Nat : ~ \E f : IsCourse(f, n)}
<1>1. ASSUME NEW n \in Missing, \A m \in Missing : n <= m PROVE FALSE
  <2>1. CASE n = 0
    <3>. DEFINE g == [k \in 0 .. n |-> base]
    <3>1. \A k \in 0 .. n : g[k] = IF k = 0 THEN base ELSE step[seq[k]][g[k - 1]]
      BY <2>1
    <3>2. IsCourse(g, n) BY <3>1
    <3>. QED BY <3>2, Zenon
  <2>2. CASE n # 0
    <3>1. n \in Nat /\ n - 1 \in Nat BY <2>2
    <3>a. n - 1 \notin Missing
      <4>. HIDE DEF Missing
      <4>. QED BY <1>1, <3>1
    <3>2. PICK f : IsCourse(f, n - 1) BY <3>1, <3>a
    <3>. DEFINE g == [k \in 0 .. n |-> IF k < n THEN f[k] ELSE step[seq[n]][f[n - 1]]]
    <3>3. ASSUME NEW k \in 0 .. n
          PROVE  g[k] = IF k = 0 THEN base ELSE step[seq[k]][g[k - 1]]
      <4>1. CASE k = n BY <2>2, <4>1
      <4>2. CASE k < n
        <5>1. f[k] = IF k = 0 THEN base ELSE step[seq[k]][f[k - 1]]
          BY <3>1, <3>2, <4>2
        <5>2. k # 0 => k - 1 \in 0 .. n /\ k - 1 < n BY <2>2, <4>2
        <5>. QED BY <4>2, <5>1, <5>2
      <4>. QED BY <4>1, <4>2
    <3>4. IsCourse(g, n) BY <3>3
    <3>. QED BY <3>4, Zenon
  <2>. QED BY <2>1, <2>2
<1>2. Missing = {} BY <1>1, LeastNatural
<1>3. \E f : IsCourse(f, Len(seq)) BY <1>2
<1>. HIDE DEF Missing
<1>4. Course(step, base, seq) = CHOOSE f : IsCourse(f, Len(seq)) BY Zenon DEF Course
<1>5. IsCourse(Course(step, base, seq), Len(seq)) BY <1>3, <1>4, Zenon
<1>. QED BY <1>5

(* A course begins with its base, goes on by its step and keeps its type.  *)
LEMMA CourseBegins ==
    ASSUME NEW step, NEW base, NEW seq, Len(seq) \in Nat
    PROVE  Course(step, base, seq)[0] = base
<1>1. 0 \in 0 .. Len(seq) OBVIOUS
<1>. QED BY <1>1, CourseIsDefined

LEMMA CourseSteps ==
    ASSUME NEW step, NEW base, NEW seq, Len(seq) \in Nat, NEW k \in 1 .. Len(seq)
    PROVE  Course(step, base, seq)[k] = step[seq[k]][Course(step, base, seq)[k - 1]]
<1>1. k \in 0 .. Len(seq) /\ k # 0 OBVIOUS
<1>. QED BY <1>1, CourseIsDefined

LEMMA CourseIsTyped ==
    ASSUME NEW S, NEW A, NEW step \in [A -> [S -> S]], NEW base \in S, NEW seq \in Seq(A)
    PROVE  Course(step, base, seq) \in [0 .. Len(seq) -> S]
<1>. Len(seq) \in Nat OBVIOUS
<1>. DEFINE reached == Course(step, base, seq)
<1>1. reached = [k \in 0 .. Len(seq) |-> reached[k]] BY CourseIsDefined
<1>2. reached[0] = base BY CourseBegins
<1>3. \A k \in 1 .. Len(seq) : reached[k] = step[seq[k]][reached[k - 1]] BY CourseSteps
<1>. HIDE DEF reached
<1>. DEFINE Bad == {k \in 0 .. Len(seq) : reached[k] \notin S}
<1>4. ASSUME NEW k \in Bad, \A m \in Bad : k <= m PROVE FALSE
  <2>1. k # 0 BY <1>2
  <2>2. k - 1 \in 0 .. Len(seq) /\ reached[k - 1] \in S BY <1>4, <2>1
  <2>. QED BY <1>3, <2>1, <2>2
<1>5. Bad = {}
  <2>1. Bad \subseteq Nat OBVIOUS
  <2>. HIDE DEF Bad
  <2>. QED BY <1>4, <2>1, LeastNatural
<1>6. \A k \in 0 .. Len(seq) : reached[k] \in S BY <1>5
<1>. QED BY <1>1, <1>6 DEF reached

LEMMA OutcomeIsTyped ==
    ASSUME NEW S, NEW A, NEW step \in [A -> [S -> S]], NEW base \in S, NEW seq \in Seq(A)
    PROVE  Outcome(step, base, seq) \in S
<1>1. Len(seq) \in 0 .. Len(seq) OBVIOUS
<1>2. Course(step, base, seq) \in [0 .. Len(seq) -> S] BY CourseIsTyped
<1>. QED BY <1>1, <1>2 DEF Outcome

-----------------------------------------------------------------------------
(* IntegerField                                                            *)

Base == {8, 10, 16}

(* What digits are made of, and what says nothing about the size.          *)
Figure == 48 .. 57 \cup 65 .. 70 \cup 97 .. 102
Silent == {Blank, 43, 45, 88, 120}

LEMMA DigitSaysItself ==
    ASSUME NEW base \in Base, NEW d \in 0 .. base - 1, NEW upper
    PROVE  /\ Digit(d, upper) \in Figure
           /\ FigureOf(Digit(d, upper)) = d
BY DEF Base, Figure, Digit, FigureOf, Zero

LEMMA FiguresAreNotSilent ==
    ASSUME NEW d \in Figure
    PROVE  d \notin Silent /\ d \in Byte
BY DEF Figure, Silent, Blank, Byte

LEMMA Division ==
    ASSUME NEW base \in Base, NEW v \in Nat \ {0}
    PROVE  /\ v \div base \in Nat /\ v \div base < v
           /\ v % base \in 0 .. base - 1
           /\ v % base = v - base * (v \div base)
<1>1. v \div base \in Nat /\ v \div base < v BY DEF Base
<1>2. v % base \in 0 .. base - 1 BY DEF Base
<1>3. v % base = v - base * (v \div base) BY DEF Base
<1>. QED BY <1>1, <1>2, <1>3

(* The digits of all numbers to n.                                         *)
AreDigits(D, n, base, upper) ==
    \A v \in 0 .. n :
        D[v] = IF v = 0 THEN <<>> ELSE Append(D[v \div base], Digit(v % base, upper))

LEMMA DigitsAreDefined ==
    ASSUME NEW n \in Nat, NEW base \in Base, NEW upper
    PROVE  \E D : AreDigits(D, n, base, upper) /\ DigitsOf(n, base, upper) = D[n]
<1>. DEFINE IsIt(f, m) ==
              f = [v \in 0 .. m |->
                     IF v = 0 THEN <<>> ELSE Append(f[v \div base], Digit(v % base, upper))]
            Missing == {m \in Nat : ~ \E f : IsIt(f, m)}
<1>1. ASSUME NEW m \in Missing, \A k \in Missing : m <= k PROVE FALSE
  <2>1. CASE m = 0
    <3>. DEFINE g == [v \in 0 .. m |-> <<>>]
    <3>1. \A v \in 0 .. m :
            g[v] = IF v = 0 THEN <<>> ELSE Append(g[v \div base], Digit(v % base, upper))
      BY <2>1
    <3>2. IsIt(g, m) BY <3>1
    <3>. QED BY <3>2, Zenon
  <2>2. CASE m # 0
    <3>1. m \in Nat /\ m - 1 \in Nat BY <2>2
    <3>2. m - 1 \notin Missing
      <4>. HIDE DEF Missing
      <4>. QED BY <1>1, <3>1
    <3>3. PICK f : IsIt(f, m - 1) BY <3>1, <3>2
    <3>. DEFINE g == [v \in 0 .. m |->
                        IF v < m THEN f[v]
                        ELSE Append(f[m \div base], Digit(m % base, upper))]
    <3>4. ASSUME NEW v \in 0 .. m
          PROVE  g[v] = IF v = 0 THEN <<>>
                        ELSE Append(g[v \div base], Digit(v % base, upper))
      <4>1. v # 0 => v \div base \in 0 .. m /\ v \div base < v BY <3>1, Division
      <4>2. CASE v = m BY <2>2, <4>1, <4>2
      <4>3. CASE v < m
        <5>1. f[v] = IF v = 0 THEN <<>>
                     ELSE Append(f[v \div base], Digit(v % base, upper))
          <6>1. v \in 0 .. m - 1 BY <3>1, <4>3
          <6>. QED BY <3>3, <6>1
        <5>2. v # 0 => v \div base < m BY <4>1, <4>3
        <5>. QED BY <4>1, <4>3, <5>1, <5>2
      <4>. QED BY <4>2, <4>3
    <3>5. IsIt(g, m) BY <3>4
    <3>. QED BY <3>5, Zenon
  <2>. QED BY <2>1, <2>2
<1>2. Missing = {}
  <2>1. Missing \subseteq Nat OBVIOUS
  <2>. HIDE DEF Missing
  <2>. QED BY <1>1, <2>1, LeastNatural
<1>3. \E f : IsIt(f, n) BY <1>2
<1>. DEFINE D == CHOOSE f : IsIt(f, n)
<1>4. DigitsOf(n, base, upper) = D[n] BY Zenon DEF DigitsOf
<1>5. IsIt(D, n) BY <1>3, Zenon
<1>. HIDE DEF D
<1>6. AreDigits(D, n, base, upper) BY <1>5 DEF AreDigits
<1>. QED BY <1>4, <1>6

(* The digits of v, read from a place where the size is 0, say v.          *)
LEMMA DigitsAreFigures ==
    ASSUME NEW n \in Nat, NEW base \in Base, NEW upper,
           NEW D, AreDigits(D, n, base, upper)
    PROVE  \A v \in 0 .. n : D[v] \in Seq(Figure) /\ (v # 0 => Len(D[v]) > 0)
<1>. DEFINE Bad == {v \in 0 .. n : ~(D[v] \in Seq(Figure) /\ (v # 0 => Len(D[v]) > 0))}
<1>1. ASSUME NEW v \in Bad, \A u \in Bad : v <= u PROVE FALSE
  <2>1. v \in 0 .. n /\ v \in Nat /\ ~(D[v] \in Seq(Figure) /\ (v # 0 => Len(D[v]) > 0))
    OBVIOUS
  <2>2. v # 0
    <3>1. v = 0 => D[v] = <<>> BY <2>1 DEF AreDigits
    <3>2. <<>> \in Seq(Figure) OBVIOUS
    <3>. QED BY <2>1, <3>1, <3>2
  <2>3. D[v] = Append(D[v \div base], Digit(v % base, upper)) BY <2>1, <2>2 DEF AreDigits
  <2>4. v \div base \in 0 .. n /\ v \div base < v BY <2>1, <2>2, Division
  <2>5. v \div base \notin Bad
    <3>. HIDE DEF Bad
    <3>. QED BY <1>1, <2>1, <2>4
  <2>6. D[v \div base] \in Seq(Figure) BY <2>4, <2>5
  <2>7. Digit(v % base, upper) \in Figure
    <3>1. v % base \in 0 .. base - 1 BY <2>1, <2>2, Division
    <3>. QED BY <3>1, DigitSaysItself
  <2>8. D[v] \in Seq(Figure) /\ Len(D[v]) > 0 BY <2>3, <2>6, <2>7
  <2>. QED BY <2>1, <2>8
<1>2. Bad = {}
  <2>1. Bad \subseteq Nat OBVIOUS
  <2>. HIDE DEF Bad
  <2>. QED BY <1>1, <2>1, LeastNatural
<1>. QED BY <1>2

(* The course of a reader over a field.                                    *)
LEMMA ReaderGoesOn ==
    ASSUME NEW base \in Base, NEW field \in Seq(Nat)
    PROVE  /\ Course(Reads(base), 0, field) \in [0 .. Len(field) -> Int]
           /\ Course(Reads(base), 0, field)[0] = 0
           /\ \A k \in 1 .. Len(field) :
                 Course(Reads(base), 0, field)[k] =
                     IF field[k] \in Silent THEN Course(Reads(base), 0, field)[k - 1]
                     ELSE base * Course(Reads(base), 0, field)[k - 1] + FigureOf(field[k])
<1>. Len(field) \in Nat /\ 0 \in Int OBVIOUS
<1>. DEFINE reads == Reads(base)
            reached == Course(reads, 0, field)
<1>1. \A b \in Nat : FigureOf(b) \in Int BY DEF FigureOf
<1>2. reads \in [Nat -> [Int -> Int]] BY <1>1 DEF Reads, Base
<1>. HIDE DEF reads
<1>3. reached \in [0 .. Len(field) -> Int] BY <1>2, CourseIsTyped
<1>5. reached[0] = 0 BY CourseBegins
<1>6. ASSUME NEW k \in 1 .. Len(field)
      PROVE  reached[k] = reads[field[k]][reached[k - 1]]
  BY CourseSteps
<1>. HIDE DEF reached
<1>4. ASSUME NEW k \in 1 .. Len(field)
      PROVE  reached[k] = IF field[k] \in Silent THEN reached[k - 1]
                    ELSE base * reached[k - 1] + FigureOf(field[k])
  <2>1. field[k] \in Nat /\ reached[k - 1] \in Int BY <1>3
  <2>2. reads[field[k]][reached[k - 1]] =
            IF field[k] \in Silent THEN reached[k - 1] ELSE base * reached[k - 1] + FigureOf(field[k])
    BY <2>1 DEF reads, Reads, Silent
  <2>. QED BY <1>6, <2>2
<1>. QED BY <1>3, <1>4, <1>5 DEF reached, reads

(* d stands in the field, after the first p bytes.                         *)
Follows(field, p, d) ==
    p + Len(d) <= Len(field) /\ \A j \in 1 .. Len(d) : field[p + j] = d[j]

LEMMA DigitsAreRead ==
    ASSUME NEW n \in Nat, NEW base \in Base, NEW upper,
           NEW D, AreDigits(D, n, base, upper),
           NEW field \in Seq(Nat), NEW p \in 0 .. Len(field),
           Course(Reads(base), 0, field)[p] = 0
    PROVE  \A v \in 0 .. n :
              Follows(field, p, D[v]) => Course(Reads(base), 0, field)[p + Len(D[v])] = v
<1>. DEFINE reached == Course(Reads(base), 0, field)
            Bad == {v \in 0 .. n : ~(Follows(field, p, D[v]) => reached[p + Len(D[v])] = v)}
<1>1. ASSUME NEW v \in Bad, \A u \in Bad : v <= u PROVE FALSE
  <2>1. v \in 0 .. n /\ v \in Nat /\ Follows(field, p, D[v]) /\ reached[p + Len(D[v])] # v OBVIOUS
  <2>2. v # 0
    <3>1. v = 0 => D[v] = <<>> BY <2>1 DEF AreDigits
    <3>. QED BY <2>1, <3>1
  <2>. DEFINE u == v \div base
              d == Digit(v % base, upper)
              r == v % base
  <2>3. u \in 0 .. n /\ u < v /\ r \in 0 .. base - 1 /\ r = v - base * u
    BY <2>1, <2>2, Division
  <2>4. D[v] = Append(D[u], d) BY <2>1, <2>2 DEF AreDigits
  <2>5. D[u] \in Seq(Figure) BY <2>3, DigitsAreFigures
  <2>6. d \in Figure /\ FigureOf(d) = r BY <2>3, DigitSaysItself
  <2>7. u \notin Bad
    <3>. HIDE DEF Bad, u
    <3>. QED BY <1>1, <2>1, <2>3
  <2>. HIDE DEF u, d, r, reached
  <2>8. /\ Len(D[u]) \in Nat /\ Len(D[v]) = Len(D[u]) + 1
        /\ \A j \in 1 .. Len(D[u]) : D[v][j] = D[u][j]
        /\ D[v][Len(D[v])] = d
    BY <2>4, <2>5, <2>6
  <2>9. reached[p + Len(D[u])] = u
    <3>1. p + Len(D[v]) <= Len(field) /\ \A j \in 1 .. Len(D[v]) : field[p + j] = D[v][j]
      BY <2>1 DEF Follows
    <3>2. p + Len(D[u]) <= Len(field) BY <2>8, <3>1
    <3>3. \A j \in 1 .. Len(D[u]) : field[p + j] = D[u][j]
      <4>1. \A j \in 1 .. Len(D[u]) : j \in 1 .. Len(D[v]) BY <2>8
      <4>. QED BY <2>8, <3>1, <4>1
    <3>4. Follows(field, p, D[u]) BY <3>2, <3>3 DEF Follows
    <3>. QED BY <2>3, <2>7, <3>4
  <2>10. /\ p + Len(D[v]) \in 1 .. Len(field)
         /\ field[p + Len(D[v])] = d
         /\ p + Len(D[v]) - 1 = p + Len(D[u])
    <3>1. p \in Nat /\ Len(field) \in Nat OBVIOUS
    <3>2. p + Len(D[v]) <= Len(field) BY <2>1 DEF Follows
    <3>3. \A j \in 1 .. Len(D[v]) : field[p + j] = D[v][j] BY <2>1 DEF Follows
    <3>4. Len(D[v]) \in 1 .. Len(D[v]) BY <2>8
    <3>5. field[p + Len(D[v])] = D[v][Len(D[v])] BY <3>3, <3>4
    <3>. QED BY <2>8, <3>1, <3>2, <3>5
  <2>11. d \notin Silent BY <2>6, FiguresAreNotSilent
  <2>12. reached[p + Len(D[v])] = base * reached[p + Len(D[u])] + FigureOf(d)
    BY <2>10, <2>11, ReaderGoesOn DEF reached
  <2>13. base * u + r = v BY <2>1, <2>3 DEF Base
  <2>. QED BY <2>1, <2>6, <2>9, <2>12, <2>13
<1>2. Bad = {}
  <2>1. Bad \subseteq Nat OBVIOUS
  <2>. HIDE DEF Bad
  <2>. QED BY <1>1, <2>1, LeastNatural
<1>. QED BY <1>2

LEMMA Joined ==
    ASSUME NEW S, NEW p \in Seq(S), NEW q \in Seq(S)
    PROVE  /\ p \o q \in Seq(S)
           /\ Len(p \o q) = Len(p) + Len(q)
           /\ \A k \in 1 .. Len(p) : (p \o q)[k] = p[k]
           /\ \A k \in 1 .. Len(q) : (p \o q)[Len(p) + k] = q[k]
           /\ \A k \in 1 .. Len(p \o q) : (p \o q)[k] = IF k <= Len(p) THEN p[k] ELSE q[k - Len(p)]
OBVIOUS

LEMMA FollowsOn ==
    ASSUME NEW S, NEW f \in Seq(S), NEW q \in Seq(S), NEW d \in Seq(S), NEW p \in Nat, Follows(f, p, d)
    PROVE  Follows(f \o q, p, d)
<1>1. Len(f) \in Nat /\ Len(d) \in Nat /\ Len(q) \in Nat OBVIOUS
<1>2. \A j \in 1 .. Len(d) : p + j \in 1 .. Len(f) BY <1>1 DEF Follows
<1>3. Len(f \o q) = Len(f) + Len(q) /\ \A k \in 1 .. Len(f) : (f \o q)[k] = f[k] BY Joined
<1>4. \A j \in 1 .. Len(d) : (f \o q)[p + j] = d[j] BY <1>2, <1>3 DEF Follows
<1>5. p + Len(d) <= Len(f \o q) BY <1>1, <1>3 DEF Follows
<1>. QED BY <1>4, <1>5 DEF Follows

LEMMA JoinedFollows ==
    ASSUME NEW S, NEW f \in Seq(S), NEW q \in Seq(S)
    PROVE  /\ f \o q \in Seq(S)
           /\ Len(f \o q) = Len(f) + Len(q)
           /\ Follows(f \o q, Len(f), q)
           /\ \A d \in Seq(S), p \in Nat : Follows(f, p, d) => Follows(f \o q, p, d)
<1>1. f \o q \in Seq(S) /\ Len(f \o q) = Len(f) + Len(q) BY Joined
<1>2. Follows(f \o q, Len(f), q) BY Joined DEF Follows
<1>3. \A d \in Seq(S), p \in Nat : Follows(f, p, d) => Follows(f \o q, p, d)
  BY FollowsOn
<1>. QED BY <1>1, <1>2, <1>3

LEMMA Parts ==
    ASSUME NEW S, NEW a \in Seq(S), NEW h \in Seq(S), NEW z \in Seq(S), NEW d \in Seq(S), NEW b \in Seq(S)
    PROVE  LET f == a \o h \o z \o d \o b
           IN  /\ f \in Seq(S)
               /\ Len(f) = Len(a) + Len(h) + Len(z) + Len(d) + Len(b)
               /\ Follows(f, 0, a)
               /\ Follows(f, Len(a), h)
               /\ Follows(f, Len(a) + Len(h), z)
               /\ Follows(f, Len(a) + Len(h) + Len(z), d)
               /\ Follows(f, Len(a) + Len(h) + Len(z) + Len(d), b)
<1>. DEFINE f2 == a \o h
            f3 == f2 \o z
            f4 == f3 \o d
            f5 == f4 \o b
            p2 == Len(a) + Len(h)
            p3 == p2 + Len(z)
            p4 == p3 + Len(d)
<1>1. Follows(a, 0, a) /\ 0 \in Nat BY DEF Follows
<1>n. Len(a) \in Nat /\ p2 \in Nat /\ p3 \in Nat OBVIOUS
<1>2. /\ f2 \in Seq(S) /\ Len(f2) = p2
      /\ Follows(f2, Len(a), h)
  BY JoinedFollows
<1>2a. Follows(f2, 0, a) BY <1>1, JoinedFollows
<1>. HIDE DEF f2, p2
<1>3. /\ f3 \in Seq(S) /\ Len(f3) = p3
      /\ Follows(f3, p2, z)
  BY <1>2, JoinedFollows
<1>3a. Follows(f3, 0, a) /\ Follows(f3, Len(a), h)
  BY <1>1, <1>n, <1>2, <1>2a, JoinedFollows
<1>. HIDE DEF f3, p3
<1>4. /\ f4 \in Seq(S) /\ Len(f4) = p4
      /\ Follows(f4, p3, d)
  BY <1>3, JoinedFollows
<1>4a. Follows(f4, 0, a) /\ Follows(f4, Len(a), h) /\ Follows(f4, p2, z)
  BY <1>1, <1>n, <1>3, <1>3a, JoinedFollows
<1>. HIDE DEF f4, p4
<1>5. /\ f5 \in Seq(S) /\ Len(f5) = p4 + Len(b)
      /\ Follows(f5, p4, b)
  BY <1>4, JoinedFollows
<1>5a. Follows(f5, 0, a) /\ Follows(f5, Len(a), h) /\ Follows(f5, p2, z) /\ Follows(f5, p3, d)
  BY <1>1, <1>n, <1>4, <1>4a, JoinedFollows
<1>. QED BY <1>5, <1>5a DEF f2, f3, f4, p2, p3, p4

LEMMA PadIsTyped ==
    ASSUME NEW n \in Int, NEW b \in Byte
    PROVE  /\ Repeat(b, n) \in Seq(Byte)
           /\ Len(Repeat(b, n)) = Most(n, 0)
           /\ \A k \in 1 .. Len(Repeat(b, n)) : Repeat(b, n)[k] = b
<1>1. Most(n, 0) \in Nat BY DEF Most
<1>2. /\ [k \in 1 .. Most(n, 0) |-> b] \in Seq(Byte)
      /\ Len([k \in 1 .. Most(n, 0) |-> b]) = Most(n, 0)
  BY <1>1
<1>. QED BY <1>2 DEF Repeat

LEMMA CutField ==
    ASSUME NEW field \in Seq(Byte)
    PROVE  /\ Cut(field) \in Seq(Byte)
           /\ Len(field) >= MaxField => Len(Cut(field)) = MaxField
           /\ Len(field) < MaxField => Cut(field) = field
BY FieldAssumption DEF Cut

(* Bytes that say nothing, and zeros while the size is 0, leave the size.  *)
LEMMA SizeStays ==
    ASSUME NEW base \in Base, NEW field \in Seq(Nat),
           NEW p \in 0 .. Len(field), NEW q \in p .. Len(field),
           \A k \in p + 1 .. q :
              \/ field[k] \in Silent
              \/ field[k] = Zero /\ Course(Reads(base), 0, field)[p] = 0
    PROVE  Course(Reads(base), 0, field)[q] = Course(Reads(base), 0, field)[p]
<1>. DEFINE reached == Course(Reads(base), 0, field)
            Bad == {k \in p .. q : reached[k] # reached[p]}
<1>1. \A k \in 1 .. Len(field) :
         reached[k] = IF field[k] \in Silent THEN reached[k - 1]
                      ELSE base * reached[k - 1] + FigureOf(field[k])
  BY ReaderGoesOn
<1>. HIDE DEF reached
<1>2. ASSUME NEW k \in Bad, \A m \in Bad : k <= m PROVE FALSE
  <2>1. k \in p + 1 .. q /\ reached[k] # reached[p] OBVIOUS
  <2>2. k - 1 \in p .. q /\ k - 1 \notin Bad BY <1>2, <2>1
  <2>3. reached[k - 1] = reached[p] BY <2>2
  <2>4. k \in 1 .. Len(field) BY <2>1
  <2>5. CASE field[k] \in Silent BY <1>1, <2>1, <2>3, <2>4, <2>5
  <2>6. CASE field[k] \notin Silent
    <3>1. field[k] = Zero /\ reached[p] = 0 BY <2>1, <2>6 DEF reached
    <3>2. FigureOf(Zero) = 0 BY DEF FigureOf, Zero
    <3>3. base \in Int BY DEF Base
    <3>4. reached[k] = base * 0 + 0 BY <1>1, <2>3, <2>4, <2>6, <3>1, <3>2
    <3>. QED BY <2>1, <3>1, <3>3, <3>4
  <2>. QED BY <2>5, <2>6
<1>3. Bad = {}
  <2>1. Bad \subseteq Nat OBVIOUS
  <2>. HIDE DEF Bad
  <2>. QED BY <1>2, <2>1, LeastNatural
<1>. QED BY <1>3 DEF reached

LEMMA SeqWidens ==
    ASSUME NEW S, NEW T, S \subseteq T, NEW s \in Seq(S)
    PROVE  s \in Seq(T)
OBVIOUS

LEMMA BytesAreNumbers ==
    ASSUME NEW s \in Seq(Byte)
    PROVE  s \in Seq(Nat)
<1>1. Byte \subseteq Nat BY DEF Byte
<1>. QED BY <1>1, SeqWidens, Zenon

(* Bytes that are all x, or all in S.                                      *)
Pads(s, x) == s \in Seq(Byte) /\ \A k \in 1 .. Len(s) : s[k] = x
Consists(s, S) == s \in Seq(Byte) /\ \A k \in 1 .. Len(s) : s[k] \in S

(* Blanks, a sign, a prefix, zeros, the digits of v, blanks: the size is   *)
(* v, and the sign is the head's.                                          *)
LEMMA PartsAreRead ==
    ASSUME NEW base \in Base, NEW v \in Nat, NEW upper,
           NEW D, AreDigits(D, v, base, upper),
           NEW a, Pads(a, Blank), NEW h, Consists(h, Silent \cup {Zero}),
           NEW z, Pads(z, Zero), NEW b, Pads(b, Blank)
    PROVE  Outcome(Reads(base), 0, a \o h \o z \o D[v] \o b) = v
<1>a. /\ a \in Seq(Byte) /\ h \in Seq(Byte) /\ z \in Seq(Byte) /\ b \in Seq(Byte)
      /\ \A k \in 1 .. Len(a) : a[k] = Blank
      /\ \A k \in 1 .. Len(h) : h[k] \in Silent \cup {Zero}
      /\ \A k \in 1 .. Len(z) : z[k] = Zero
      /\ \A k \in 1 .. Len(b) : b[k] = Blank
  BY DEF Pads, Consists
<1>. DEFINE d == D[v]
            f == a \o h \o z \o d \o b
            reached == Course(Reads(base), 0, f)
            p == Len(a) + Len(h) + Len(z)
            q == p + Len(d)
<1>1. d \in Seq(Figure)
  <2>1. v \in 0 .. v OBVIOUS
  <2>. QED BY <2>1, DigitsAreFigures
<1>2. d \in Seq(Byte)
  <2>1. Figure \subseteq Byte BY FiguresAreNotSilent
  <2>. QED BY <1>1, <2>1
<1>. HIDE DEF d
<1>3. /\ f \in Seq(Byte)
      /\ Len(f) = Len(a) + Len(h) + Len(z) + Len(d) + Len(b)
      /\ Follows(f, 0, a)
      /\ Follows(f, Len(a), h)
      /\ Follows(f, Len(a) + Len(h), z)
      /\ Follows(f, p, d)
      /\ Follows(f, q, b)
  BY <1>a, <1>2, Parts
<1>5. Len(a) \in Nat /\ Len(h) \in Nat /\ Len(z) \in Nat /\ Len(d) \in Nat /\ Len(b) \in Nat
  BY <1>a, <1>2
<1>. HIDE DEF f
<1>4. f \in Seq(Nat) BY <1>3, BytesAreNumbers
<1>6. ASSUME NEW k \in 1 .. p PROVE f[k] \in Silent \/ f[k] = Zero
  <2>1. CASE k <= Len(a)
    <3>1. f[0 + k] = a[k] BY <1>3, <1>5, <2>1 DEF Follows
    <3>2. a[k] = Blank BY <1>a, <2>1
    <3>. QED BY <3>1, <3>2 DEF Silent
  <2>2. CASE k > Len(a) /\ k <= Len(a) + Len(h)
    <3>1. k - Len(a) \in 1 .. Len(h) BY <1>5, <2>2
    <3>2. f[Len(a) + (k - Len(a))] = h[k - Len(a)] BY <1>3, <3>1 DEF Follows
    <3>3. h[k - Len(a)] \in Silent \cup {Zero} BY <1>a, <3>1
    <3>4. Len(a) + (k - Len(a)) = k BY <1>5
    <3>. QED BY <3>2, <3>3, <3>4
  <2>3. CASE k > Len(a) + Len(h)
    <3>. DEFINE j == k - (Len(a) + Len(h))
    <3>1. j \in 1 .. Len(z) BY <1>5, <2>3
    <3>2. Len(a) + Len(h) + j = k BY <1>5
    <3>. HIDE DEF j
    <3>3. f[Len(a) + Len(h) + j] = z[j] BY <1>3, <3>1 DEF Follows
    <3>4. z[j] = Zero BY <1>a, <3>1
    <3>. QED BY <3>2, <3>3, <3>4
  <2>. QED BY <1>5, <2>1, <2>2, <2>3
<1>7. p \in 0 .. Len(f) /\ q \in 0 .. Len(f) /\ q \in p .. Len(f) /\ Len(f) = q + Len(b) /\ 0 \in 0 .. Len(f)
      /\ p \in 0 .. Len(f) /\ Len(f) \in q .. Len(f)
  BY <1>3, <1>5
<1>8. reached[0] = 0 BY <1>4, ReaderGoesOn
<1>9. reached[p] = reached[0]
  <2>1. \A k \in 0 + 1 .. p : f[k] \in Silent \/ (f[k] = Zero /\ reached[0] = 0)
    BY <1>6, <1>8
  <2>. QED BY <1>4, <1>7, <2>1, SizeStays
<1>10. reached[q] = v
  <2>1. Follows(f, p, D[v]) BY <1>3 DEF d
  <2>2. reached[p] = 0 BY <1>8, <1>9
  <2>3. v \in 0 .. v OBVIOUS
  <2>. HIDE DEF p
  <2>4. \A u \in 0 .. v :
           Follows(f, p, D[u]) => Course(Reads(base), 0, f)[p + Len(D[u])] = u
    BY <1>4, <1>7, <2>2, DigitsAreRead
  <2>. HIDE DEF reached
  <2>. QED BY <2>1, <2>3, <2>4 DEF d, reached
<1>11. reached[Len(f)] = reached[q]
  <2>1. ASSUME NEW k \in q + 1 .. Len(f) PROVE f[k] \in Silent
    <3>. DEFINE j == k - q
    <3>1. j \in 1 .. Len(b) /\ q + j = k BY <1>5, <1>7
    <3>. HIDE DEF j
    <3>2. f[q + j] = b[j] BY <1>3, <3>1 DEF Follows
    <3>3. b[j] = Blank BY <1>a, <3>1
    <3>. QED BY <3>1, <3>2, <3>3 DEF Silent
  <2>. HIDE DEF q, p
  <2>. HIDE DEF reached
  <2>2. \A k \in q + 1 .. Len(f) : f[k] \in Silent \/ (f[k] = Zero /\ reached[q] = 0)
    BY <2>1
  <2>3. q \in 0 .. Len(f) /\ Len(f) \in q .. Len(f) BY <1>7
  <2>. QED BY <1>4, <2>2, <2>3, SizeStays DEF reached
<1>. QED BY <1>10, <1>11 DEF Outcome, f, d

(* A call that TW_WriteInteger may get.                                    *)
IsCall(call) ==
    /\ call.size \in Nat \ {0, 1}
    /\ call.value \in 0 .. call.size - 1
    /\ call.signed \in BOOLEAN
    /\ call.base \in Base
    /\ call.width \in Int

LEMMA MagnitudeIsMeant ==
    ASSUME NEW call, IsCall(call), call.value # 0
    PROVE  /\ Magnitude(call) \in 1 .. call.size - 1
           /\ Meant(call) = IF IsNegative(call) THEN -Magnitude(call) ELSE Magnitude(call)
<1>. DEFINE s == call.size
            v == call.value
<1>1. s \in Nat \ {0} /\ v \in 1 .. s - 1 /\ s - v \in 1 .. s - 1 BY DEF IsCall
<1>. HIDE DEF s, v
<1>2. v % s = v /\ (s - v) % s = s - v BY <1>1
<1>3. Magnitude(call) = IF IsNegative(call) THEN s - v ELSE v BY <1>2 DEF Magnitude, s, v
<1>4. Meant(call) = IF IsNegative(call) THEN v - s ELSE v BY DEF Meant, IsNegative, s, v
<1>. QED BY <1>1, <1>3, <1>4 DEF s

(* What TW_WriteInteger puts before the zeros and the digits.              *)
LEMMA HeadOfField ==
    ASSUME NEW call
    PROVE  LET h == Sign(call) \o Prefix(call)
           IN  /\ h \in Seq(Byte)
               /\ \A k \in 1 .. Len(h) : h[k] \in (Silent \cup {Zero}) \ {Blank}
               /\ IF IsNegative(call)
                  THEN Len(h) > 0 /\ h[1] = 45
                  ELSE \A k \in 1 .. Len(h) : h[k] # 45
<1>1. 43 \in Byte /\ 45 \in Byte /\ 48 \in Byte /\ 88 \in Byte /\ 120 \in Byte
  BY DEF Byte
<1>2. /\ Sign(call) \in Seq(Byte)
      /\ \A k \in 1 .. Len(Sign(call)) : Sign(call)[k] \in {43, 45}
      /\ IF IsNegative(call)
         THEN Len(Sign(call)) = 1 /\ Sign(call)[1] = 45
         ELSE \A k \in 1 .. Len(Sign(call)) : Sign(call)[k] = 43
  <2>1. CASE IsNegative(call)
    <3>1. Sign(call) = <<45>> BY <2>1 DEF Sign
    <3>. QED BY <1>1, <2>1, <3>1
  <2>2. CASE ~IsNegative(call) /\ "sign" \in call.flags
    <3>1. Sign(call) = <<43>> BY <2>2 DEF Sign
    <3>. QED BY <1>1, <2>2, <3>1
  <2>3. CASE ~IsNegative(call) /\ "sign" \notin call.flags
    <3>1. Sign(call) = <<>> BY <2>3 DEF Sign
    <3>. QED BY <2>3, <3>1
  <2>. QED BY <2>1, <2>2, <2>3
<1>3. /\ Prefix(call) \in Seq(Byte)
      /\ \A k \in 1 .. Len(Prefix(call)) : Prefix(call)[k] \in {48, 88, 120}
  <2>1. CASE Prefix(call) = <<48, 88>> BY <1>1, <2>1
  <2>2. CASE Prefix(call) = <<48, 120>> BY <1>1, <2>2
  <2>3. CASE Prefix(call) = <<48>> BY <1>1, <2>3
  <2>4. CASE Prefix(call) = <<>> BY <2>4
  <2>. QED BY <2>1, <2>2, <2>3, <2>4 DEF Prefix, Zero
<1>. DEFINE s == Sign(call)
            x == Prefix(call)
            h == s \o x
<1>. HIDE DEF s, x
<1>4. /\ h \in Seq(Byte) /\ Len(h) = Len(s) + Len(x)
      /\ \A k \in 1 .. Len(s) : h[k] = s[k]
      /\ \A k \in 1 .. Len(h) : h[k] = IF k <= Len(s) THEN s[k] ELSE x[k - Len(s)]
  BY <1>2, <1>3, Joined DEF s, x
<1>5. Len(s) \in Nat /\ Len(x) \in Nat BY <1>2, <1>3 DEF s, x
<1>. HIDE DEF h
<1>6. \A k \in 1 .. Len(h) :
         IF k <= Len(s) THEN h[k] = s[k] /\ k \in 1 .. Len(s)
         ELSE h[k] = x[k - Len(s)] /\ k - Len(s) \in 1 .. Len(x)
  BY <1>4, <1>5
<1>7. ASSUME NEW k \in 1 .. Len(h) PROVE h[k] \in {43, 45, 48, 88, 120}
  <2>1. CASE k <= Len(s)
    <3>1. h[k] = s[k] /\ k \in 1 .. Len(s) BY <1>6, <2>1
    <3>. QED BY <1>2, <3>1 DEF s
  <2>2. CASE ~(k <= Len(s))
    <3>1. h[k] = x[k - Len(s)] /\ k - Len(s) \in 1 .. Len(x) BY <1>6, <2>2
    <3>. QED BY <1>3, <3>1 DEF x
  <2>. QED BY <2>1, <2>2
<1>8. CASE IsNegative(call)
  <2>1. Len(s) = 1 /\ s[1] = 45 BY <1>2, <1>8 DEF s
  <2>2. Len(h) > 0 /\ h[1] = 45 BY <1>4, <1>5, <2>1
  <2>. QED BY <1>4, <1>7, <1>8, <2>2 DEF Silent, Zero, Blank, h, s, x
<1>9. CASE ~IsNegative(call)
  <2>1. \A k \in 1 .. Len(s) : s[k] = 43 BY <1>2, <1>9 DEF s
  <2>2. \A k \in 1 .. Len(x) : x[k] \in {48, 88, 120} BY <1>3 DEF x
  <2>3. \A k \in 1 .. Len(h) : h[k] # 45 BY <1>6, <2>1, <2>2
  <2>. QED BY <1>4, <1>7, <1>9, <2>3 DEF Silent, Zero, Blank, h, s, x
<1>. QED BY <1>8, <1>9

(* A byte of a field is one of its parts'.                                 *)
IsByteOf(x, a, h, z, d, b) ==
    \/ \E j \in 1 .. Len(a) : x = a[j]
    \/ \E j \in 1 .. Len(h) : x = h[j]
    \/ \E j \in 1 .. Len(z) : x = z[j]
    \/ \E j \in 1 .. Len(d) : x = d[j]
    \/ \E j \in 1 .. Len(b) : x = b[j]

LEMMA ByteOfPart ==
    ASSUME NEW a \in Seq(Byte), NEW h \in Seq(Byte), NEW z \in Seq(Byte),
           NEW d \in Seq(Byte), NEW b \in Seq(Byte)
    PROVE  LET f == a \o h \o z \o d \o b
           IN  \A k \in 1 .. Len(f) : IsByteOf(f[k], a, h, z, d, b)
<1>. DEFINE f == a \o h \o z \o d \o b
            p2 == Len(a) + Len(h)
            p3 == p2 + Len(z)
            p4 == p3 + Len(d)
<1>1. /\ f \in Seq(Byte)
      /\ Len(f) = p4 + Len(b)
      /\ Follows(f, 0, a)
      /\ Follows(f, Len(a), h)
      /\ Follows(f, p2, z)
      /\ Follows(f, p3, d)
      /\ Follows(f, p4, b)
  BY Parts
<1>2. Len(a) \in Nat /\ Len(h) \in Nat /\ Len(z) \in Nat /\ Len(d) \in Nat /\ Len(b) \in Nat
  OBVIOUS
<1>. HIDE DEF f
<1>3. ASSUME NEW k \in 1 .. Len(f) PROVE IsByteOf(f[k], a, h, z, d, b)
  <2>3. k \in Int /\ 1 <= k /\ k <= p4 + Len(b) BY <1>1, <1>2
  <2>4. ASSUME NEW s \in Seq(Byte), NEW p \in Nat, Follows(f, p, s), p < k, k <= p + Len(s)
        PROVE  k - p \in 1 .. Len(s) /\ f[k] = s[k - p]
    <3>. DEFINE j == k - p
    <3>1. j \in 1 .. Len(s) /\ p + j = k BY <2>3, <2>4
    <3>. HIDE DEF j
    <3>2. f[p + j] = s[j] BY <2>4, <3>1 DEF Follows
    <3>. QED BY <3>1, <3>2 DEF j
  <2>5. CASE k <= Len(a)
    <3>1. k - 0 \in 1 .. Len(a) /\ f[k] = a[k - 0] BY <1>1, <1>2, <2>3, <2>4, <2>5
    <3>2. k - 0 = k BY <2>3
    <3>. QED BY <3>1, <3>2 DEF IsByteOf
  <2>6. CASE Len(a) < k /\ k <= p2
    <3>1. k - Len(a) \in 1 .. Len(h) /\ f[k] = h[k - Len(a)] BY <1>1, <1>2, <2>4, <2>6
    <3>. QED BY <3>1 DEF IsByteOf
  <2>7. CASE p2 < k /\ k <= p3
    <3>0. p2 \in Nat BY <1>2
    <3>1. k - p2 \in 1 .. Len(z) /\ f[k] = z[k - p2] BY <1>1, <2>4, <2>7, <3>0
    <3>. HIDE DEF p2
    <3>. QED BY <3>1 DEF IsByteOf
  <2>8. CASE p3 < k /\ k <= p4
    <3>0. p3 \in Nat BY <1>2
    <3>1. k - p3 \in 1 .. Len(d) /\ f[k] = d[k - p3] BY <1>1, <2>4, <2>8, <3>0
    <3>. HIDE DEF p3
    <3>. QED BY <3>1 DEF IsByteOf
  <2>9. CASE p4 < k
    <3>0. p4 \in Nat BY <1>2
    <3>1. k - p4 \in 1 .. Len(b) /\ f[k] = b[k - p4] BY <1>1, <2>3, <2>4, <2>9, <3>0
    <3>. HIDE DEF p4
    <3>. QED BY <3>1 DEF IsByteOf
  <2>10. k <= Len(a) \/ (Len(a) < k /\ k <= p2) \/ (p2 < k /\ k <= p3) \/ (p3 < k /\ k <= p4) \/ p4 < k
    BY <1>2, <2>3
  <2>. QED BY <2>5, <2>6, <2>7, <2>8, <2>9, <2>10
<1>. QED BY <1>3 DEF f

(* The sign of the head is the sign of the field.                          *)
LEMMA SignIsRead ==
    ASSUME NEW a, Pads(a, Blank), NEW h \in Seq(Byte), NEW z, Pads(z, Zero),
           NEW d, Consists(d, Figure), NEW b, Pads(b, Blank)
    PROVE  /\ Len(h) > 0 /\ h[1] = 45 => SaysMinus(a \o h \o z \o d \o b)
           /\ (\A k \in 1 .. Len(h) : h[k] # 45) => ~SaysMinus(a \o h \o z \o d \o b)
<1>a. /\ a \in Seq(Byte) /\ z \in Seq(Byte) /\ d \in Seq(Byte) /\ b \in Seq(Byte)
      /\ \A k \in 1 .. Len(a) : a[k] = Blank
      /\ \A k \in 1 .. Len(z) : z[k] = Zero
      /\ \A k \in 1 .. Len(d) : d[k] \in Figure
      /\ \A k \in 1 .. Len(b) : b[k] = Blank
  BY DEF Pads, Consists
<1>. DEFINE f == a \o h \o z \o d \o b
<1>1. /\ f \in Seq(Byte)
      /\ Len(f) = Len(a) + Len(h) + Len(z) + Len(d) + Len(b)
      /\ Follows(f, 0, a)
      /\ Follows(f, Len(a), h)
  BY <1>a, Parts
<1>2. Len(a) \in Nat /\ Len(h) \in Nat /\ Len(z) \in Nat /\ Len(d) \in Nat /\ Len(b) \in Nat
  BY <1>a
<1>3. Blank # 45 /\ Zero # 45 /\ 45 \notin Figure BY DEF Blank, Zero, Figure
<1>4. ASSUME Len(h) > 0 /\ h[1] = 45 PROVE SaysMinus(f)
  <2>. DEFINE k == Len(a) + 1
  <2>1. Len(h) > 0 /\ h[1] = 45 BY <1>4
  <2>2. f[k] = 45
    <3>1. 1 \in 1 .. Len(h) BY <1>2, <2>1
    <3>2. \A j \in 1 .. Len(h) : f[Len(a) + j] = h[j] BY <1>1 DEF Follows
    <3>. QED BY <2>1, <3>1, <3>2
  <2>3. \A j \in 1 .. k - 1 : f[j] = Blank
    <3>1. \A j \in 1 .. Len(a) : f[0 + j] = a[j] BY <1>1 DEF Follows
    <3>2. \A j \in 1 .. Len(a) : 0 + j = j OBVIOUS
    <3>3. \A j \in 1 .. Len(a) : f[j] = Blank BY <1>a, <3>1, <3>2
    <3>4. k - 1 = Len(a) BY <1>2
    <3>. QED BY <3>3, <3>4
  <2>4. k \in DOMAIN f BY <1>1, <1>2, <2>1
  <2>. HIDE DEF k, f
  <2>. QED BY <2>2, <2>3, <2>4 DEF SaysMinus
<1>5. ASSUME \A k \in 1 .. Len(h) : h[k] # 45, SaysMinus(f) PROVE FALSE
  <2>1. PICK k \in 1 .. Len(f) : f[k] = 45 BY <1>1, <1>5 DEF SaysMinus
  <2>2. IsByteOf(f[k], a, h, z, d, b) BY <1>a, ByteOfPart
  <2>3. \A j \in 1 .. Len(h) : h[j] # 45 BY <1>5
  <2>. HIDE DEF f
  <2>. QED BY <1>a, <1>3, <2>1, <2>2, <2>3 DEF IsByteOf
<1>. QED BY <1>4, <1>5

(* The digits are no blanks, nor is the head: without padding both ends    *)
(* are black.                                                              *)
LEMMA EndsAreBlack ==
    ASSUME NEW h \in Seq(Byte), NEW d \in Seq(Byte), Len(d) > 0,
           \A k \in 1 .. Len(h) : h[k] # Blank,
           \A k \in 1 .. Len(d) : d[k] # Blank
    PROVE  LET f == <<>> \o h \o <<>> \o d \o <<>>
           IN  f[1] # Blank /\ f[Len(f)] # Blank
<1>. DEFINE f == h \o d
<1>1. <<>> \o h \o <<>> \o d \o <<>> = f OBVIOUS
<1>2. /\ Len(f) = Len(h) + Len(d)
      /\ \A k \in 1 .. Len(f) : f[k] = IF k <= Len(h) THEN h[k] ELSE d[k - Len(h)]
  BY Joined
<1>3. Len(h) \in Nat /\ Len(d) \in Nat OBVIOUS
<1>. HIDE DEF f
<1>4. \A k \in 1 .. Len(f) :
         IF k <= Len(h) THEN f[k] = h[k] /\ k \in 1 .. Len(h)
         ELSE f[k] = d[k - Len(h)] /\ k - Len(h) \in 1 .. Len(d)
  BY <1>2, <1>3
<1>5. \A k \in 1 .. Len(f) : f[k] # Blank BY <1>4
<1>6. 1 \in 1 .. Len(f) /\ Len(f) \in 1 .. Len(f) BY <1>2, <1>3
<1>7. f[1] # Blank /\ f[Len(f)] # Blank BY <1>5, <1>6
<1>. QED BY <1>1, <1>7

LEMMA ZeroReadsBack ==
    ASSUME NEW call, IsCall(call), call.value = 0
    PROVE  /\ WriteInteger(call) \in Seq(Byte)
           /\ ReadsBack(call, WriteInteger(call))
<1>. DEFINE n == Most(call.width, 1)
            f == Repeat(Zero, n)
<1>1. call.width \in Int /\ call.base \in Base BY DEF IsCall
<1>2. n \in Nat \ {0} /\ n >= call.width /\ (n = call.width \/ n = 1) BY <1>1 DEF Most
<1>3. WriteInteger(call) = Cut(f) BY DEF WriteInteger
<1>. HIDE DEF n
<1>4. /\ f \in Seq(Byte) /\ Len(f) = n
      /\ \A k \in 1 .. Len(f) : f[k] = Zero
  <2>1. Zero \in Byte BY DEF Zero, Byte
  <2>2. Most(n, 0) = n BY <1>2 DEF Most
  <2>. QED BY <1>2, <2>1, <2>2, PadIsTyped
<1>. HIDE DEF f
<1>5. Meant(call) = 0
  <2>1. call.size \div 2 \in Int /\ 0 < call.size \div 2 BY DEF IsCall
  <2>2. ~(call.value >= call.size \div 2) BY <2>1
  <2>. QED BY <2>2 DEF Meant
<1>6. Outcome(Reads(call.base), 0, f) = 0
  <2>1. f \in Seq(Nat) BY <1>4, BytesAreNumbers
  <2>2. 0 \in 0 .. Len(f) /\ Len(f) \in 0 .. Len(f) BY <1>2, <1>4
  <2>3. Course(Reads(call.base), 0, f)[0] = 0 BY <1>1, <2>1, ReaderGoesOn
  <2>4. \A k \in 0 + 1 .. Len(f) : f[k] \in Silent \/ (f[k] = Zero /\ Course(Reads(call.base), 0, f)[0] = 0)
    BY <1>4, <2>3
  <2>5. Course(Reads(call.base), 0, f)[Len(f)] = Course(Reads(call.base), 0, f)[0]
    BY <1>1, <2>1, <2>2, <2>4, SizeStays
  <2>. QED BY <2>3, <2>5 DEF Outcome
<1>7. ~SaysMinus(f)
  <2>1. DOMAIN f = 1 .. Len(f) BY <1>4
  <2>. QED BY <1>4, <2>1 DEF SaysMinus, Zero
<1>8. ReadField(f, call.base) = 0 BY <1>6, <1>7 DEF ReadField
<1>9. CASE Len(f) >= MaxField
  <2>1. Len(Cut(f)) = MaxField /\ Cut(f) \in Seq(Byte) BY <1>4, <1>9, CutField
  <2>. QED BY <1>3, <2>1 DEF ReadsBack
<1>10. CASE Len(f) < MaxField
  <2>1. Cut(f) = f BY <1>4, <1>10, CutField
  <2>. QED BY <1>2, <1>3, <1>4, <1>5, <1>8, <2>1 DEF ReadsBack
<1>11. MaxField \in Nat /\ Len(f) \in Nat BY <1>2, <1>4, FieldAssumption
<1>. QED BY <1>9, <1>10, <1>11

LEMMA NumberReadsBack ==
    ASSUME NEW call, IsCall(call), call.value # 0
    PROVE  /\ WriteInteger(call) \in Seq(Byte)
           /\ ReadsBack(call, WriteInteger(call))
<1>. DEFINE upper == "upper" \in call.flags
            v == Magnitude(call)
            d == DigitsOf(v, call.base, upper)
            h == Sign(call) \o Prefix(call)
            fill == call.width - Len(h) - Len(d)
            isLeft == "left" \in call.flags
            isZero == "zero" \in call.flags
            a == IF ~isLeft /\ ~isZero THEN Repeat(Blank, fill) ELSE <<>>
            z == IF ~isLeft /\ isZero THEN Repeat(Zero, fill) ELSE <<>>
            b == IF isLeft THEN Repeat(Blank, fill) ELSE <<>>
            f == a \o h \o z \o d \o b
<1>1. WriteInteger(call) = Cut(f) BY DEF WriteInteger
<1>2. call.width \in Int /\ call.base \in Base BY DEF IsCall
<1>3. v \in Nat \ {0} /\ Meant(call) = IF IsNegative(call) THEN -v ELSE v
  <2>1. v \in 1 .. call.size - 1 BY MagnitudeIsMeant
  <2>2. v \in Nat \ {0} BY <2>1 DEF IsCall
  <2>. QED BY <2>2, MagnitudeIsMeant
<1>. HIDE DEF upper, v
<1>4. PICK D : AreDigits(D, v, call.base, upper) /\ d = D[v]
  BY <1>2, <1>3, DigitsAreDefined
<1>5. d \in Seq(Figure) /\ Len(d) > 0
  <2>1. v \in 0 .. v /\ v # 0 BY <1>3
  <2>. HIDE DEF d
  <2>. QED BY <1>2, <1>3, <1>4, <2>1, DigitsAreFigures
<1>. HIDE DEF d
<1>6. d \in Seq(Byte) /\ \A k \in 1 .. Len(d) : d[k] \in Figure /\ d[k] # Blank
  <2>1. Figure \subseteq Byte /\ Blank \notin Figure BY FiguresAreNotSilent DEF Silent
  <2>2. d \in Seq(Byte) BY <1>5, <2>1, SeqWidens
  <2>. QED BY <1>5, <2>1, <2>2
<1>7. /\ h \in Seq(Byte)
      /\ \A k \in 1 .. Len(h) : h[k] \in (Silent \cup {Zero}) \ {Blank}
      /\ IF IsNegative(call) THEN Len(h) > 0 /\ h[1] = 45 ELSE \A k \in 1 .. Len(h) : h[k] # 45
  BY HeadOfField
<1>. HIDE DEF h
<1>8. fill \in Int BY <1>2, <1>5, <1>7
<1>9. Blank \in Byte /\ Zero \in Byte BY DEF Blank, Zero, Byte
<1>. HIDE DEF fill, isLeft, isZero
<1>10. /\ Pads(a, Blank) /\ Pads(z, Zero) /\ Pads(b, Blank)
       /\ Len(a) + Len(z) + Len(b) = Most(fill, 0)
  <2>1. Pads(Repeat(Blank, fill), Blank) /\ Len(Repeat(Blank, fill)) = Most(fill, 0)
    BY <1>8, <1>9, PadIsTyped DEF Pads
  <2>2. Pads(Repeat(Zero, fill), Zero) /\ Len(Repeat(Zero, fill)) = Most(fill, 0)
    BY <1>8, <1>9, PadIsTyped DEF Pads
  <2>3. Most(fill, 0) \in Nat BY <1>8 DEF Most
  <2>4. Pads(<<>>, Blank) /\ Pads(<<>>, Zero) /\ Len(<<>>) = 0 BY DEF Pads
  <2>5. CASE isLeft
    <3>1. a = <<>> /\ z = <<>> /\ b = Repeat(Blank, fill) BY <2>5
    <3>. HIDE DEF a, z, b
    <3>. QED BY <2>1, <2>3, <2>4, <3>1
  <2>6. CASE ~isLeft /\ isZero
    <3>1. a = <<>> /\ z = Repeat(Zero, fill) /\ b = <<>> BY <2>6
    <3>. HIDE DEF a, z, b
    <3>. QED BY <2>2, <2>3, <2>4, <3>1
  <2>7. CASE ~isLeft /\ ~isZero
    <3>1. a = Repeat(Blank, fill) /\ z = <<>> /\ b = <<>> BY <2>7
    <3>. HIDE DEF a, z, b
    <3>. QED BY <2>1, <2>3, <2>4, <3>1
  <2>. QED BY <2>5, <2>6, <2>7
<1>. HIDE DEF a, z, b
<1>a. a \in Seq(Byte) /\ z \in Seq(Byte) /\ b \in Seq(Byte) BY <1>10 DEF Pads
<1>11. /\ f \in Seq(Byte)
       /\ Len(f) = Len(a) + Len(h) + Len(z) + Len(d) + Len(b)
  BY <1>a, <1>6, <1>7, Parts
<1>12. /\ Len(a) \in Nat /\ Len(h) \in Nat /\ Len(z) \in Nat /\ Len(d) \in Nat /\ Len(b) \in Nat
       /\ Len(f) \in Nat
  BY <1>a, <1>6, <1>7, <1>11
<1>13. Len(f) = Len(h) + Len(d) + Most(fill, 0)
  <2>. HIDE DEF f
  <2>1. Most(fill, 0) \in Int BY <1>8 DEF Most
  <2>. QED BY <1>10, <1>11, <1>12, <2>1
<1>14. Outcome(Reads(call.base), 0, f) = v
  <2>1. Outcome(Reads(call.base), 0, a \o h \o z \o D[v] \o b) = v
    <3>1. Consists(h, Silent \cup {Zero}) BY <1>7 DEF Consists
    <3>2. v \in Nat /\ call.base \in Base BY <1>2, <1>3
    <3>3. AreDigits(D, v, call.base, upper) BY <1>4
    <3>4. Pads(a, Blank) /\ Pads(z, Zero) /\ Pads(b, Blank) BY <1>10
    <3>. QED BY <3>1, <3>2, <3>3, <3>4, PartsAreRead
  <2>. QED BY <1>4, <2>1
<1>15. SaysMinus(f) <=> IsNegative(call)
  <2>1. Consists(d, Figure) BY <1>6 DEF Consists
  <2>2. /\ Len(h) > 0 /\ h[1] = 45 => SaysMinus(f)
        /\ (\A k \in 1 .. Len(h) : h[k] # 45) => ~SaysMinus(f)
    BY <1>7, <1>10, <2>1, SignIsRead
  <2>. HIDE DEF f
  <2>. QED BY <1>7, <2>2
<1>16. Len(f) >= call.width
  BY <1>2, <1>8, <1>12, <1>13 DEF fill, Most
<1>17. Len(f) = call.width \/ (f[1] # Blank /\ f[Len(f)] # Blank)
  <2>1. CASE fill >= 0
    BY <1>2, <1>8, <1>12, <1>13, <2>1 DEF fill, Most
  <2>2. CASE fill < 0
    <3>1. Len(a) = 0 /\ Len(z) = 0 /\ Len(b) = 0 BY <1>8, <1>10, <1>12, <2>2 DEF Most
    <3>2. a = <<>> /\ z = <<>> /\ b = <<>> BY <1>a, <3>1
    <3>3. \A k \in 1 .. Len(h) : h[k] # Blank BY <1>7
    <3>. QED BY <1>5, <1>6, <1>7, <3>2, <3>3, EndsAreBlack
  <2>. HIDE DEF f
  <2>. QED BY <1>8, <2>1, <2>2
<1>. HIDE DEF f
<1>18. ReadField(f, call.base) = Meant(call) BY <1>3, <1>14, <1>15 DEF ReadField
<1>19. CASE Len(f) >= MaxField
  <2>1. Len(Cut(f)) = MaxField /\ Cut(f) \in Seq(Byte) BY <1>11, <1>19, CutField
  <2>. QED BY <1>1, <2>1 DEF ReadsBack
<1>20. CASE Len(f) < MaxField
  <2>1. Cut(f) = f BY <1>11, <1>20, CutField
  <2>. QED BY <1>1, <1>11, <1>16, <1>17, <1>18, <2>1 DEF ReadsBack
<1>21. MaxField \in Nat BY FieldAssumption
<1>. QED BY <1>12, <1>19, <1>20, <1>21

LEMMA FieldReadsBack ==
    ASSUME NEW call, IsCall(call)
    PROVE  /\ WriteInteger(call) \in Seq(Byte)
           /\ ReadsBack(call, WriteInteger(call))
BY ZeroReadsBack, NumberReadsBack

-----------------------------------------------------------------------------
(* Format: after begin bytes of the output, the buffer and what is pending *)
(* are the rest of it.                                                     *)

Held(begin, buffer, pending, out) ==
    /\ Len(out) = begin + Len(buffer) + Len(pending)
    /\ \A k \in 1 .. Len(buffer) : buffer[k] = out[begin + k]
    /\ \A k \in 1 .. Len(pending) : pending[k] = out[begin + Len(buffer) + k]

LEMMA HeldAfterPut ==
    ASSUME NEW begin \in Nat, NEW buffer \in Seq(Byte), NEW out \in Seq(Byte), NEW b \in Byte,
           Held(begin, buffer, <<>>, out)
    PROVE  Held(begin, Append(buffer, b), <<>>, Append(out, b))
BY DEF Held

LEMMA HeldAfterFlush ==
    ASSUME NEW begin \in Nat, NEW buffer \in Seq(Byte), NEW out \in Seq(Byte), NEW pending \in Seq(Byte),
           Held(begin, buffer, pending, out)
    PROVE  Held(begin + Len(buffer), <<>>, pending, out)
<1>1. Len(buffer) \in Nat /\ Len(<<>>) = 0 OBVIOUS
<1>2. Len(out) = begin + Len(buffer) + Len(<<>>) + Len(pending) BY <1>1 DEF Held
<1>3. \A k \in 1 .. Len(pending) : pending[k] = out[begin + Len(buffer) + Len(<<>>) + k]
  BY <1>1 DEF Held
<1>. QED BY <1>1, <1>2, <1>3 DEF Held

LEMMA HeldAfterConvert ==
    ASSUME NEW begin \in Nat, NEW buffer \in Seq(Byte), NEW out \in Seq(Byte), NEW field \in Seq(Byte),
           Held(begin, buffer, <<>>, out)
    PROVE  Held(begin, buffer, field, out \o field)
<1>1. Len(buffer) \in Nat /\ Len(field) \in Nat /\ Len(<<>>) = 0 OBVIOUS
<1>2. /\ Len(out \o field) = Len(out) + Len(field)
      /\ \A k \in 1 .. Len(out) : (out \o field)[k] = out[k]
      /\ \A k \in 1 .. Len(field) : (out \o field)[Len(out) + k] = field[k]
  BY Joined
<1>3. Len(out) = begin + Len(buffer) BY <1>1 DEF Held
<1>4. \A k \in 1 .. Len(buffer) : buffer[k] = out[begin + k] /\ begin + k \in 1 .. Len(out)
  BY <1>1, <1>3 DEF Held
<1>. DEFINE new == out \o field
<1>. HIDE DEF new
<1>5. Len(new) = begin + Len(buffer) + Len(field) BY <1>2, <1>3 DEF new
<1>6. \A k \in 1 .. Len(buffer) : buffer[k] = new[begin + k] BY <1>2, <1>4 DEF new
<1>7. \A k \in 1 .. Len(field) : field[k] = new[begin + Len(buffer) + k] BY <1>2, <1>3 DEF new
<1>. QED BY <1>5, <1>6, <1>7 DEF Held, new

LEMMA HeldAfterCopy ==
    ASSUME NEW begin \in Nat, NEW buffer \in Seq(Byte), NEW out \in Seq(Byte), NEW pending \in Seq(Byte),
           Held(begin, buffer, pending, out)
    PROVE  Held(begin, buffer \o pending, <<>>, out)
<1>. DEFINE new == buffer \o pending
<1>1. Len(buffer) \in Nat /\ Len(pending) \in Nat /\ Len(<<>>) = 0 OBVIOUS
<1>2. /\ Len(new) = Len(buffer) + Len(pending)
      /\ \A k \in 1 .. Len(new) :
            new[k] = IF k <= Len(buffer) THEN buffer[k] ELSE pending[k - Len(buffer)]
  BY Joined
<1>. HIDE DEF new
<1>3. ASSUME NEW k \in 1 .. Len(new) PROVE new[k] = out[begin + k]
  <2>1. CASE k <= Len(buffer) BY <1>1, <1>2, <2>1 DEF Held
  <2>2. CASE k > Len(buffer)
    <3>. DEFINE j == k - Len(buffer)
    <3>1. j \in 1 .. Len(pending) /\ begin + Len(buffer) + j = begin + k BY <1>1, <1>2, <2>2
    <3>2. new[k] = pending[j] BY <1>1, <1>2, <2>2
    <3>. HIDE DEF j
    <3>3. pending[j] = out[begin + Len(buffer) + j] BY <3>1 DEF Held
    <3>. QED BY <3>1, <3>2, <3>3
  <2>. QED BY <1>1, <2>1, <2>2
<1>4. Len(out) = begin + Len(new) + Len(<<>>) BY <1>1, <1>2 DEF Held
<1>. QED BY <1>1, <1>3, <1>4 DEF Held, new

(* What fills the buffer is passed on with it.                             *)
LEMMA HeldAfterPart ==
    ASSUME NEW begin \in Nat, NEW buffer \in Seq(Byte), NEW out \in Seq(Byte), NEW pending \in Seq(Byte),
           Held(begin, buffer, pending, out),
           NEW left \in Nat, left < Len(pending)
    PROVE  /\ SubSeq(pending, left + 1, Len(pending)) \in Seq(Byte)
           /\ Held(begin + Len(buffer) + left, <<>>, SubSeq(pending, left + 1, Len(pending)), out)
<1>. DEFINE new == SubSeq(pending, left + 1, Len(pending))
            from == begin + Len(buffer) + left
<1>1. Len(buffer) \in Nat /\ Len(pending) \in Nat /\ Len(<<>>) = 0 OBVIOUS
<1>2. /\ new \in Seq(Byte) /\ Len(new) = Len(pending) - left
      /\ \A k \in 1 .. Len(new) : new[k] = pending[left + k]
  OBVIOUS
<1>. HIDE DEF new
<1>3. ASSUME NEW k \in 1 .. Len(new) PROVE new[k] = out[from + k]
  <2>1. left + k \in 1 .. Len(pending) BY <1>1, <1>2
  <2>2. pending[left + k] = out[begin + Len(buffer) + (left + k)] BY <2>1 DEF Held
  <2>3. begin + Len(buffer) + (left + k) = from + k BY <1>1
  <2>. QED BY <1>2, <2>2, <2>3
<1>4. from \in Nat /\ Len(out) = from + Len(new) BY <1>1, <1>2 DEF Held
<1>. HIDE DEF from
<1>5. Len(out) = from + Len(<<>>) + Len(new) BY <1>1, <1>2, <1>4
<1>6. \A k \in 1 .. Len(new) : new[k] = out[from + Len(<<>>) + k] BY <1>1, <1>3, <1>4
<1>7. \A k \in 1 .. Len(<<>>) : <<>>[k] = out[from + k] BY <1>1
<1>8. Held(from, <<>>, new, out) BY <1>5, <1>6, <1>7, Zenon DEF Held
<1>. QED BY <1>2, <1>8 DEF new, from

LEMMA HeldIsTheEnd ==
    ASSUME NEW begin \in Nat, NEW buffer \in Seq(Byte), NEW out \in Seq(Byte), NEW pending \in Seq(Byte),
           Held(begin, buffer, pending, out)
    PROVE  buffer \o pending = SubSeq(out, begin + 1, Len(out))
<1>. DEFINE p == buffer \o pending
            q == SubSeq(out, begin + 1, Len(out))
<1>1. Held(begin, p, <<>>, out) /\ p \in Seq(Byte) BY HeldAfterCopy, Joined
<1>2. Len(p) \in Nat /\ Len(<<>>) = 0 BY <1>1
<1>. HIDE DEF p
<1>3. Len(out) = begin + Len(p) /\ \A k \in 1 .. Len(p) : p[k] = out[begin + k]
  <2>1. Len(out) = begin + Len(p) + Len(<<>>) /\ \A k \in 1 .. Len(p) : p[k] = out[begin + k]
    BY <1>1 DEF Held
  <2>2. begin + Len(p) + Len(<<>>) = begin + Len(p) BY <1>2
  <2>. QED BY <2>1, <2>2
<1>4. q \in Seq(Byte) /\ Len(q) = Len(p) /\ \A k \in 1 .. Len(q) : q[k] = out[begin + k]
  BY <1>2, <1>3
<1>. HIDE DEF q
<1>5. p = [k \in 1 .. Len(p) |-> p[k]] /\ q = [k \in 1 .. Len(p) |-> q[k]] BY <1>1, <1>4
<1>. QED BY <1>3, <1>4, <1>5 DEF p, q

LEMMA ByteUnderWay ==
    ASSUME FormatTypeOK, Reading
    PROVE  c \in Byte /\ c \in Int /\ next + 1 \in 1 .. Len(str) + 1
<1>1. str \in Seq(Byte) /\ next \in 1 .. Len(str) BY DEF FormatTypeOK, Reading
<1>2. c \in Byte BY <1>1 DEF c
<1>. QED BY <1>1, <1>2 DEF Byte

LEMMA LengthsAreBits == BitsNow \in {8, 32, 64}
BY DEF BitsNow

LEMMA ReadingKeepsTypes ==
    ASSUME FormatTypeOK, stage = "idle" => next = 1, Reading,
           \/ PutLiteral \/ PercentBegins \/ TakeFlag \/ TakeWidth \/ TakeDot
           \/ TakePrecision \/ TakeLength
    PROVE  FormatTypeOK'
<1>1. c \in Byte /\ c \in Int /\ next + 1 \in 1 .. Len(str) + 1 BY ByteUnderWay
<1>. HIDE DEF c
<1>2. CASE PutLiteral
  <2>1. buf \in Seq(Byte) /\ meant \in Seq(Byte) /\ ~IsFull /\ Len(buf) \in Nat BY <1>2 DEF PutLiteral, FormatTypeOK
  <2>2. buf' \in Seq(Byte) /\ Len(buf') <= FmtBuffer /\ meant' \in Seq(Byte)
    BY <1>1, <1>2, <2>1, FormatAssumption DEF PutLiteral, Put, IsFull
  <2>3. /\ mode' \in {0, 1, 2, 4, 5} /\ formatFlags' \subseteq {45, 43, 32, 35, 48}
        /\ minWidth' \in Int /\ precision' \in Int
    <3>1. CASE c = Percent BY <1>2, <3>1 DEF PutLiteral, ResetSpec
    <3>2. CASE c # Percent BY <1>2, <3>2 DEF FormatTypeOK, PutLiteral, spec
    <3>. QED BY <3>1, <3>2
  <2>. QED BY <1>1, <1>2, <2>2, <2>3 DEF FormatTypeOK, PutLiteral
<1>3. CASE PercentBegins BY <1>1, <1>3 DEF FormatTypeOK, PercentBegins, output
<1>4. CASE TakeFlag BY <1>1, <1>4 DEF FormatTypeOK, TakeFlag, ContinueSpec, IsFlag, output
<1>5. CASE TakeWidth 
  <2>1. minWidth' \in Int BY <1>1, <1>5 DEF FormatTypeOK, TakeWidth, Extended
  <2>. QED BY <1>1, <1>5, <2>1 DEF FormatTypeOK, TakeWidth, ContinueSpec, output
<1>6. CASE TakeDot BY <1>1, <1>6 DEF FormatTypeOK, TakeDot, ContinueSpec, output
<1>7. CASE TakePrecision
  <2>1. precision' \in Int BY <1>1, <1>7 DEF FormatTypeOK, TakePrecision, Extended
  <2>. QED BY <1>1, <1>7, <2>1 DEF FormatTypeOK, TakePrecision, ContinueSpec, output
<1>8. CASE TakeLength BY <1>1, <1>8 DEF FormatTypeOK, TakeLength, ContinueSpec, output
<1>. QED BY <1>2, <1>3, <1>4, <1>5, <1>6, <1>7, <1>8

LEMMA RemainderFits ==
    ASSUME NEW v \in Nat, NEW n \in Nat \ {0}
    PROVE  v % n \in 0 .. n - 1
OBVIOUS

(* Every conversion but that of a string has a field, and an integer's     *)
(* says the integer.                                                       *)
Converts ==
    \E field \in Seq(Byte) : \E call :
        /\ Convert(field, call)
        /\ call # None => ReadsBack(call, field)

LEMMA IntegersConvert ==
    ASSUME FormatTypeOK, ConvertInteger
    PROVE  Converts
<1>1. PICK v \in IntegerArgs, w \in WidthChoices :
         LET isSigned == c \in {100, 105}
             call == [value |-> v % SizeOf[BitsNow], size |-> SizeOf[BitsNow],
                      signed |-> isSigned, base |-> BaseNow, width |-> w,
                      flags |-> IF isSigned THEN SignedFlags ELSE UnsignedFlags]
         IN  Convert(WriteInteger(call), call)
  BY DEF ConvertInteger
<1>. DEFINE call == [value |-> v % SizeOf[BitsNow], size |-> SizeOf[BitsNow],
                     signed |-> c \in {100, 105}, base |-> BaseNow, width |-> w,
                     flags |-> IF c \in {100, 105} THEN SignedFlags ELSE UnsignedFlags]
<1>2. Convert(WriteInteger(call), call) BY <1>1
<1>3. BitsNow \in {8, 16, 32, 64} BY LengthsAreBits
<1>4. SizeOf[BitsNow] \in Nat \ {0, 1} BY <1>3, FormatAssumption
<1>5. v \in Nat BY FormatAssumption
<1>6. w \in Int BY FormatAssumption DEF WidthChoices, FormatTypeOK
<1>7. v % SizeOf[BitsNow] \in 0 .. SizeOf[BitsNow] - 1 BY <1>4, <1>5, RemainderFits
<1>8. BaseNow \in Base BY DEF BaseNow, Base
<1>9. IsCall(call) BY <1>4, <1>6, <1>7, <1>8 DEF IsCall
<1>. HIDE DEF call
<1>10. WriteInteger(call) \in Seq(Byte) /\ ReadsBack(call, WriteInteger(call)) BY <1>9, FieldReadsBack
<1>. QED BY <1>2, <1>10 DEF Converts

LEMMA PointersConvert ==
    ASSUME FormatTypeOK, ConvertPointer
    PROVE  Converts
<1>1. PICK v \in IntegerArgs, w \in WidthChoices :
         LET call == [value |-> v % SizeOf[32], size |-> SizeOf[32],
                      signed |-> FALSE, base |-> 16, width |-> w, flags |-> {}]
         IN  Convert(IF call.value = 0 THEN NullText ELSE <<Zero, 120>> \o WriteInteger(call), None)
  BY DEF ConvertPointer
<1>. DEFINE call == [value |-> v % SizeOf[32], size |-> SizeOf[32],
                     signed |-> FALSE, base |-> 16, width |-> w, flags |-> {}]
            field == IF call.value = 0 THEN NullText ELSE <<Zero, 120>> \o WriteInteger(call)
<1>2. Convert(field, None) BY <1>1
<1>4. SizeOf[32] \in Nat \ {0, 1} BY FormatAssumption
<1>5. v \in Nat BY FormatAssumption
<1>6. w \in Int BY FormatAssumption DEF WidthChoices, FormatTypeOK
<1>7. v % SizeOf[32] \in 0 .. SizeOf[32] - 1 BY <1>4, <1>5, RemainderFits
<1>9. IsCall(call) BY <1>4, <1>6, <1>7 DEF IsCall, Base
<1>. HIDE DEF call
<1>10. WriteInteger(call) \in Seq(Byte) BY <1>9, FieldReadsBack
<1>11. <<Zero, 120>> \in Seq(Byte) BY DEF Zero, Byte
<1>12. NullText \in Seq(Byte) BY DEF NullText, Byte
<1>13. <<Zero, 120>> \o WriteInteger(call) \in Seq(Byte) BY <1>10, <1>11
<1>14. field \in Seq(Byte) BY <1>12, <1>13
<1>. HIDE DEF field
<1>. QED BY <1>2, <1>14 DEF Converts

LEMMA OthersConvert ==
    ASSUME FormatTypeOK, ConvertOther \/ ConvertNothing
    PROVE  Converts
<1>1. ASSUME NEW field \in Seq(Byte), Convert(field, None) PROVE Converts
  BY <1>1 DEF Converts
<1>2. ASSUME NEW v \in IntegerArgs, Convert(<<v % 256>>, None) PROVE Converts
  <2>1. v \in Nat BY FormatAssumption
  <2>2. v % 256 \in Byte BY <2>1 DEF Byte
  <2>3. <<v % 256>> \in Seq(Byte) BY <2>2
  <2>. QED BY <1>1, <1>2, <2>3
<1>3. ASSUME NEW n \in DoubleSizes, Convert(Repeat(Zero, n), None) PROVE Converts
  <2>1. n \in Int /\ Zero \in Byte BY FormatAssumption, FieldAssumption DEF Zero, Byte
  <2>2. Repeat(Zero, n) \in Seq(Byte) BY <2>1, PadIsTyped
  <2>. QED BY <1>1, <1>3, <2>2
<1>4. ASSUME Convert(<<>>, None) PROVE Converts
  <2>1. <<>> \in Seq(Byte) OBVIOUS
  <2>. QED BY <1>1, <1>4, <2>1
<1>. QED BY <1>2, <1>3, <1>4 DEF ConvertOther, ConvertNothing

LEMMA ConvertingKeepsTypes ==
    ASSUME FormatTypeOK, Reading, EndSpec,
           stage' \in {"copy", "string"},
           rest' \in Seq(Byte), meant' \in Seq(Byte), UNCHANGED <<buf, flushes>>
    PROVE  FormatTypeOK'
<1>1. c \in Byte /\ next + 1 \in 1 .. Len(str) + 1 BY ByteUnderWay
<1>2. BitsNow \in {8, 32, 64} BY LengthsAreBits
<1>. HIDE DEF c
<1>. QED BY <1>1, <1>2 DEF FormatTypeOK, EndSpec, ResetSpec

LEMMA OutputKeepsTypes ==
    ASSUME FormatTypeOK, stage = "idle" => next = 1,
           \/ Flush \/ StopAtLimit \/ PutStringByte \/ EndString
           \/ CopyPart \/ CopyRest \/ EndOfFormat \/ PutEnd \/ ReturnCount
    PROVE  FormatTypeOK'
<1>0. buf \in Seq(Byte) /\ Len(buf) \in Nat /\ rest \in Seq(Byte) /\ Len(rest) \in Nat /\ FmtBuffer \in Nat \ {0}
      /\ meant \in Seq(Byte) /\ flushes \in Nat
  BY FormatAssumption DEF FormatTypeOK
<1>1. CASE Flush
  <2>1. buf' \in Seq(Byte) /\ Len(buf') <= FmtBuffer /\ flushes' \in Nat
    BY <1>0, <1>1 DEF Flush, PassOn
  <2>. QED BY <1>1, <2>1 DEF FormatTypeOK, Flush, spec
<1>2. CASE StopAtLimit BY <1>2 DEF FormatTypeOK, StopAtLimit, spec, output
<1>3. CASE PutStringByte
  <2>1. Head(rest) \in Byte /\ Tail(rest) \in Seq(Byte) BY <1>0, <1>3 DEF PutStringByte
  <2>2. buf' \in Seq(Byte) /\ Len(buf') <= FmtBuffer /\ meant' \in Seq(Byte) /\ rest' \in Seq(Byte)
    BY <1>0, <1>3, <2>1 DEF PutStringByte, Put, IsFull
  <2>. QED BY <1>3, <2>2 DEF FormatTypeOK, PutStringByte, spec
<1>4. CASE EndString BY <1>4 DEF FormatTypeOK, EndString, spec
<1>5. CASE CopyPart
  <2>1. buf' \in Seq(Byte) /\ Len(buf') <= FmtBuffer /\ flushes' \in Nat
    BY <1>0, <1>5 DEF CopyPart, PassOn
  <2>2. rest' \in Seq(Byte)
    <3>1. LeftInBuffer \in Nat /\ LeftInBuffer < Len(rest) BY <1>0, <1>5 DEF CopyPart, LeftInBuffer, FormatTypeOK
    <3>2. \A k \in LeftInBuffer + 1 .. Len(rest) : k \in 1 .. Len(rest) BY <1>0, <3>1
    <3>3. SubSeq(rest, LeftInBuffer + 1, Len(rest)) \in Seq(Byte) BY <1>0, <3>1, <3>2
    <3>. QED BY <1>5, <3>3 DEF CopyPart
  <2>. QED BY <1>5, <2>1, <2>2 DEF FormatTypeOK, CopyPart, spec
<1>6. CASE CopyRest
  <2>1. Len(buf) + Len(rest) <= FmtBuffer BY <1>0, <1>6 DEF CopyRest, LeftInBuffer
  <2>2. buf' \in Seq(Byte) /\ Len(buf') <= FmtBuffer BY <1>0, <1>6, <2>1 DEF CopyRest
  <2>. QED BY <1>6, <2>2 DEF FormatTypeOK, CopyRest, spec
<1>7. CASE EndOfFormat BY <1>7 DEF FormatTypeOK, EndOfFormat, spec, output
<1>8. CASE PutEnd
  <2>1. Nul \in Byte BY DEF Nul, Byte
  <2>2. buf' \in Seq(Byte) /\ Len(buf') <= FmtBuffer BY <1>0, <1>8, <2>1 DEF PutEnd, IsFull
  <2>. QED BY <1>8, <2>2 DEF FormatTypeOK, PutEnd, spec
<1>9. CASE ReturnCount
  <2>1. Nul \in Byte /\ Len(<<>>) = 0 /\ <<>> \in Seq(Byte) BY DEF Nul, Byte
  <2>2. 1 \in 1 .. 0 + 1 OBVIOUS
  <2>. QED BY <1>0, <1>9, <2>1, <2>2 DEF FormatTypeOK, ReturnCount, ResetSpec
<1>. QED BY <1>1, <1>2, <1>3, <1>4, <1>5, <1>6, <1>7, <1>8, <1>9

(* What a call has still to copy of what counts as output already.         *)
Pending == IF stage = "string" THEN <<>> ELSE rest

FormatInv ==
    /\ FormatTypeOK
    /\ stage = "idle" => next = 1
    /\ stage \in {"idle", "read", "end"} => rest = <<>>
    /\ stage # "return" => Held(flushes * FmtBuffer, buf, Pending, meant)
    /\ asked # None => stage = "copy" /\ ReadsBack(asked, rest)

LEMMA FormatBegins == FormatInit => FormatInv
<1>. SUFFICES ASSUME FormatInit PROVE FormatInv OBVIOUS
<1>1. FormatTypeOK
  <2>1. <<>> \in Seq(Byte) /\ Len(<<>>) = 0 /\ Nul \in Byte /\ 1 \in 1 .. 0 + 1 BY DEF Nul, Byte
  <2>2. FmtBuffer >= 0 BY FormatAssumption
  <2>. QED BY <2>1, <2>2 DEF FormatInit, FormatTypeOK
<1>2. Held(flushes * FmtBuffer, buf, Pending, meant)
  <2>1. 0 * FmtBuffer = 0 BY FormatAssumption
  <2>2. buf = <<>> /\ Pending = <<>> /\ meant = <<>> /\ flushes = 0 BY DEF FormatInit, Pending
  <2>. QED BY <2>1, <2>2 DEF Held
<1>. QED BY <1>1, <1>2 DEF FormatInit, FormatInv

LEMMA FormatStutters == FormatInv /\ UNCHANGED formatVars => FormatInv'
<1>. SUFFICES ASSUME FormatInv, UNCHANGED formatVars PROVE FormatInv' OBVIOUS
<1>1. /\ UNCHANGED <<stage, str, limit, next, mode, formatFlags, minWidth, precision>>
      /\ UNCHANGED <<formatBits, prev, buf, flushes, rest, meant, asked>>
  BY DEF formatVars, spec, output
<1>2. FormatTypeOK' BY <1>1 DEF FormatInv, FormatTypeOK
<1>3. Pending' = Pending BY <1>1 DEF Pending
<1>. QED BY <1>1, <1>2, <1>3 DEF FormatInv

LEMMA CallingKeepsFormat ==
    ASSUME NEW s \in Formats, NEW l \in Limits, FormatInv, CallFormat(s, l)
    PROVE  FormatInv'
<1>1. /\ stage = "idle" /\ stage' = "read" /\ str' = s /\ limit' = l
      /\ UNCHANGED <<next, mode, formatFlags, minWidth, precision>>
      /\ UNCHANGED <<formatBits, prev, buf, flushes, rest, meant, asked>>
  BY DEF CallFormat, spec, output
<1>2. s \in Seq(Byte) /\ l \in Nat
  <2>1. s \in Seq(Byte \ {Nul}) /\ l \in Nat BY FormatAssumption
  <2>2. Byte \ {Nul} \subseteq Byte OBVIOUS
  <2>. QED BY <2>1, <2>2, SeqWidens
<1>3. next = 1 /\ 1 \in 1 .. Len(s) + 1
  <2>1. Len(s) \in Nat BY <1>2
  <2>. QED BY <1>1, <2>1 DEF FormatInv
<1>4. FormatTypeOK' BY <1>1, <1>2, <1>3 DEF FormatInv, FormatTypeOK
<1>5. Pending' = Pending BY <1>1 DEF Pending
<1>. QED BY <1>1, <1>4, <1>5 DEF FormatInv

(* The conversion leaves its field pending.                                *)
LEMMA ConvertingKeepsFormat ==
    ASSUME FormatInv, Reading, EndSpec, Converts
    PROVE  FormatInv'
<1>. PICK field \in Seq(Byte) : \E call :
        /\ Convert(field, call)
        /\ call # None => ReadsBack(call, field)
  BY DEF Converts
<1>1. PICK call :
        /\ Convert(field, call)
        /\ call # None => ReadsBack(call, field)
  OBVIOUS
<1>2. /\ stage = "read" /\ stage' = "copy" /\ rest' = field /\ meant' = meant \o field
      /\ asked' = call /\ UNCHANGED <<buf, flushes>>
  BY <1>1 DEF Convert, Reading
<1>3. FormatTypeOK
      /\ buf \in Seq(Byte) /\ meant \in Seq(Byte) /\ flushes \in Nat
  BY DEF FormatInv, FormatTypeOK
<1>4. FormatTypeOK'
  <2>1. meant' \in Seq(Byte) BY <1>2, <1>3
  <2>. QED BY <1>2, <1>3, <2>1, ConvertingKeepsTypes
<1>5. Held(flushes * FmtBuffer, buf, field, meant \o field)
  <2>1. Held(flushes * FmtBuffer, buf, <<>>, meant) BY <1>2 DEF FormatInv, Pending
  <2>2. flushes * FmtBuffer \in Nat BY <1>3, FormatAssumption
  <2>. QED BY <1>3, <2>1, <2>2, HeldAfterConvert
<1>6. Pending' = field BY <1>2 DEF Pending
<1>. QED BY <1>1, <1>2, <1>4, <1>5, <1>6 DEF FormatInv

LEMMA StringKeepsFormat ==
    ASSUME FormatInv, ConvertString
    PROVE  FormatInv'
<1>1. Reading /\ EndSpec BY DEF ConvertString, IsConversion, InSpec
<1>2. CASE Convert(NullText, None)
  <2>1. NullText \in Seq(Byte) BY DEF NullText, Byte
  <2>2. Converts BY <1>2, <2>1 DEF Converts
  <2>. QED BY <1>1, <2>2, ConvertingKeepsFormat
<1>3. ASSUME NEW s \in StringArgs, stage' = "string", rest' = s,
             UNCHANGED <<buf, flushes, meant, asked>>
      PROVE  FormatInv'
  <2>1. s \in Seq(Byte)
    <3>1. s \in Seq(Byte \ {Nul}) BY FormatAssumption
    <3>2. Byte \ {Nul} \subseteq Byte OBVIOUS
    <3>. QED BY <3>1, <3>2, SeqWidens
  <2>2. FormatTypeOK /\ meant' \in Seq(Byte) BY <1>3 DEF FormatInv, FormatTypeOK
  <2>3. FormatTypeOK' BY <1>1, <1>3, <2>1, <2>2, ConvertingKeepsTypes
  <2>4. stage = "read" BY <1>1 DEF Reading
  <2>5. Pending = <<>> /\ Pending' = <<>> BY <1>3, <2>4 DEF FormatInv, Pending
  <2>6. asked' = None BY <1>3, <2>4 DEF FormatInv
  <2>. QED BY <1>3, <2>3, <2>4, <2>5, <2>6 DEF FormatInv
<1>. QED BY <1>2, <1>3 DEF ConvertString

(* One byte more                                                           *)
LEMMA PuttingKeepsHeld ==
    ASSUME FormatInv, stage \in {"read", "string"}, NEW b \in Byte, Put(b), flushes' = flushes
    PROVE  Held(flushes' * FmtBuffer, buf', <<>>, meant')
<1>1. /\ buf \in Seq(Byte) /\ meant \in Seq(Byte) /\ flushes * FmtBuffer \in Nat
  BY FormatAssumption DEF FormatInv, FormatTypeOK
<1>2. Held(flushes * FmtBuffer, buf, <<>>, meant) BY DEF FormatInv, Pending
<1>. QED BY <1>1, <1>2, HeldAfterPut DEF Put

LEMMA ReadingKeepsFormat ==
    ASSUME FormatInv,
           \/ PutLiteral \/ PercentBegins \/ TakeFlag \/ TakeWidth \/ TakeDot
           \/ TakePrecision \/ TakeLength
    PROVE  FormatInv'
<1>1. Reading /\ stage = "read" /\ UNCHANGED <<stage, rest, flushes, asked>>
  BY DEF PutLiteral, PercentBegins, TakeFlag, TakeWidth, TakeDot, TakePrecision, TakeLength,
         InSpec, ContinueSpec, Reading, output
<1>2. FormatTypeOK' BY <1>1, ReadingKeepsTypes DEF FormatInv
<1>3. Held(flushes' * FmtBuffer, buf', <<>>, meant')
  <2>1. CASE PutLiteral
    <3>1. c \in Byte BY <1>1, ByteUnderWay DEF FormatInv
    <3>2. Put(c) BY <2>1 DEF PutLiteral
    <3>. QED BY <1>1, <3>1, <3>2, PuttingKeepsHeld
  <2>2. CASE ~PutLiteral
    <3>1. UNCHANGED <<buf, flushes, meant>>
      BY <2>2 DEF PercentBegins, TakeFlag, TakeWidth, TakeDot, TakePrecision, TakeLength,
         ContinueSpec, output
    <3>2. Held(flushes * FmtBuffer, buf, <<>>, meant) BY <1>1 DEF FormatInv, Pending
    <3>. QED BY <3>1, <3>2
  <2>. QED BY <2>1, <2>2
<1>4. Pending' = <<>> /\ rest' = <<>> BY <1>1 DEF FormatInv, Pending
<1>5. asked' = None BY <1>1 DEF FormatInv
<1>. QED BY <1>1, <1>2, <1>3, <1>4, <1>5 DEF FormatInv

(* What is passed on with a full buffer.                                   *)
LEMMA OneFlushMore ==
    ASSUME FormatTypeOK
    PROVE  /\ flushes * FmtBuffer \in Nat
           /\ (flushes + 1) * FmtBuffer = flushes * FmtBuffer + FmtBuffer
BY FormatAssumption DEF FormatTypeOK

LEMMA CopyingKeepsFormat ==
    ASSUME FormatInv, CopyPart \/ CopyRest
    PROVE  FormatInv'
<1>1. FormatTypeOK /\ FormatTypeOK' BY OutputKeepsTypes DEF FormatInv
<1>2. /\ buf \in Seq(Byte) /\ Len(buf) \in Nat /\ Len(buf) <= FmtBuffer /\ meant \in Seq(Byte)
      /\ rest \in Seq(Byte) /\ Len(rest) \in Nat /\ flushes * FmtBuffer \in Nat
      /\ FmtBuffer \in Nat
  <2>1. FmtBuffer \in Nat BY FormatAssumption
  <2>2. flushes * FmtBuffer \in Nat BY <1>1, OneFlushMore
  <2>3. /\ buf \in Seq(Byte) /\ Len(buf) <= FmtBuffer /\ meant \in Seq(Byte)
        /\ rest \in Seq(Byte)
    BY <1>1 DEF FormatTypeOK
  <2>. QED BY <2>1, <2>2, <2>3
<1>3. stage = "copy" BY DEF CopyPart, CopyRest
<1>4. Held(flushes * FmtBuffer, buf, rest, meant) BY <1>3 DEF FormatInv, Pending
<1>5. CASE CopyPart
  <2>. DEFINE left == FmtBuffer - Len(buf)
              new == SubSeq(rest, left + 1, Len(rest))
  <2>1. left \in Nat /\ left < Len(rest) BY <1>2, <1>5 DEF CopyPart, LeftInBuffer
  <2>2. /\ rest' = new /\ buf' = <<>> /\ flushes' = flushes + 1
        /\ stage' = "copy" /\ meant' = meant /\ asked' = None
    BY <1>3, <1>5 DEF CopyPart, PassOn, LeftInBuffer
  <2>3. flushes * FmtBuffer + Len(buf) + left = (flushes + 1) * FmtBuffer
    <3>1. (flushes + 1) * FmtBuffer = flushes * FmtBuffer + FmtBuffer BY <1>1, OneFlushMore
    <3>. QED BY <1>2, <3>1
  <2>4. Held(flushes * FmtBuffer + Len(buf) + left, <<>>, new, meant)
    <3>. HIDE DEF left
    <3>. QED BY <1>2, <1>4, <2>1, HeldAfterPart
  <2>5. Pending' = new BY <2>2 DEF Pending
  <2>. HIDE DEF left, new
  <2>6. Held(flushes' * FmtBuffer, buf', Pending', meant') BY <2>2, <2>3, <2>4, <2>5
  <2>. QED BY <1>1, <2>2, <2>6 DEF FormatInv
<1>6. CASE CopyRest
  <2>1. /\ rest' = <<>> /\ buf' = buf \o rest /\ flushes' = flushes
        /\ stage' = "read" /\ meant' = meant /\ asked' = None
    BY <1>6 DEF CopyRest
  <2>2. Held(flushes * FmtBuffer, buf \o rest, <<>>, meant) BY <1>2, <1>4, HeldAfterCopy
  <2>3. Pending' = <<>> BY <2>1 DEF Pending
  <2>4. Held(flushes' * FmtBuffer, buf', Pending', meant') BY <2>1, <2>2, <2>3
  <2>. QED BY <1>1, <2>1, <2>4 DEF FormatInv
<1>. QED BY <1>5, <1>6

LEMMA OutputKeepsFormat ==
    ASSUME FormatInv,
           \/ Flush \/ StopAtLimit \/ PutStringByte \/ EndString
           \/ EndOfFormat \/ PutEnd \/ ReturnCount
    PROVE  FormatInv'
<1>1. FormatTypeOK /\ FormatTypeOK' BY OutputKeepsTypes DEF FormatInv
<1>2. /\ buf \in Seq(Byte) /\ Len(buf) \in Nat /\ Len(buf) <= FmtBuffer /\ meant \in Seq(Byte)
      /\ rest \in Seq(Byte) /\ Len(rest) \in Nat /\ flushes * FmtBuffer \in Nat
      /\ FmtBuffer \in Nat
  <2>1. FmtBuffer \in Nat BY FormatAssumption
  <2>2. flushes * FmtBuffer \in Nat BY <1>1, OneFlushMore
  <2>3. /\ buf \in Seq(Byte) /\ Len(buf) <= FmtBuffer /\ meant \in Seq(Byte)
        /\ rest \in Seq(Byte)
    BY <1>1 DEF FormatTypeOK
  <2>. QED BY <2>1, <2>2, <2>3
<1>3. CASE Flush
  <2>1. /\ buf' = <<>> /\ flushes' = flushes + 1 /\ IsFull
        /\ UNCHANGED <<stage, next, rest, meant, asked>>
    BY <1>3 DEF Flush, PassOn
  <2>2. stage \in {"read", "string", "end"} BY <1>3 DEF Flush, PutsByte, Reading
  <2>3. Held(flushes * FmtBuffer, buf, Pending, meant) BY <2>2 DEF FormatInv
  <2>4. Pending \in Seq(Byte) BY <1>2 DEF Pending
  <2>5. Held(flushes * FmtBuffer + Len(buf), <<>>, Pending, meant)
    BY <1>2, <2>3, <2>4, HeldAfterFlush
  <2>6. Len(buf) = FmtBuffer BY <1>2, <2>1 DEF IsFull
  <2>7. flushes' * FmtBuffer = flushes * FmtBuffer + Len(buf) BY <1>1, <2>1, <2>6, OneFlushMore
  <2>8. Pending' = Pending BY <2>1 DEF Pending
  <2>9. Held(flushes' * FmtBuffer, buf', Pending', meant') BY <2>1, <2>5, <2>7, <2>8
  <2>. QED BY <1>1, <2>1, <2>9 DEF FormatInv
<1>4. CASE StopAtLimit \/ EndOfFormat
  <2>1. /\ stage = "read" /\ stage' = "end"
        /\ UNCHANGED <<buf, flushes, rest, meant, asked>>
    BY <1>4 DEF StopAtLimit, EndOfFormat, Reading, output
  <2>2. Held(flushes * FmtBuffer, buf, Pending, meant) BY <2>1 DEF FormatInv
  <2>3. Pending' = Pending BY <2>1 DEF Pending
  <2>. QED BY <1>1, <2>1, <2>2, <2>3 DEF FormatInv
<1>5. CASE PutStringByte
  <2>1. stage = "string" /\ rest # <<>> /\ Put(Head(rest)) /\ UNCHANGED <<stage, flushes, asked>>
    BY <1>5 DEF PutStringByte
  <2>2. Head(rest) \in Byte BY <1>2, <2>1
  <2>3. Held(flushes' * FmtBuffer, buf', <<>>, meant')
    <3>. HIDE DEF Put
    <3>. QED BY <2>1, <2>2, PuttingKeepsHeld
  <2>4. Pending' = <<>> BY <2>1 DEF Pending
  <2>. QED BY <1>1, <2>1, <2>3, <2>4 DEF FormatInv
<1>6. CASE EndString
  <2>1. /\ stage = "string" /\ stage' = "read" /\ rest' = <<>>
        /\ UNCHANGED <<buf, flushes, meant, asked>>
    BY <1>6 DEF EndString
  <2>2. Pending = <<>> /\ Pending' = <<>> BY <2>1 DEF Pending
  <2>3. Held(flushes * FmtBuffer, buf, <<>>, meant) BY <2>1, <2>2 DEF FormatInv
  <2>. QED BY <1>1, <2>1, <2>2, <2>3 DEF FormatInv
<1>7. CASE PutEnd
  <2>1. stage = "end" /\ stage' = "return" /\ asked' = asked BY <1>7 DEF PutEnd
  <2>. QED BY <1>1, <2>1 DEF FormatInv
<1>8. CASE ReturnCount
  <2>1. /\ stage = "return" /\ stage' = "idle" /\ next' = 1 /\ buf' = <<>> /\ flushes' = 0
        /\ rest' = <<>> /\ meant' = <<>> /\ asked' = asked
    BY <1>8 DEF ReturnCount
  <2>2. Pending' = <<>> /\ flushes' * FmtBuffer = 0 BY <1>2, <2>1 DEF Pending
  <2>3. Held(flushes' * FmtBuffer, buf', Pending', meant') BY <2>1, <2>2 DEF Held
  <2>. QED BY <1>1, <2>1, <2>3 DEF FormatInv
<1>. QED BY <1>3, <1>4, <1>5, <1>6, <1>7, <1>8

LEMMA FormattingKeepsFormat ==
    ASSUME FormatInv, TW_FormatStringV
    PROVE  FormatInv'
<1>1. ASSUME ConvertInteger \/ ConvertPointer \/ ConvertOther \/ ConvertNothing
      PROVE  FormatInv'
  <2>1. Reading /\ EndSpec
    BY <1>1 DEF ConvertInteger, ConvertPointer, ConvertOther, ConvertNothing, IsConversion, InSpec
  <2>2. FormatTypeOK BY DEF FormatInv
  <2>3. Converts BY <1>1, <2>2, IntegersConvert, PointersConvert, OthersConvert
  <2>. QED BY <2>1, <2>3, ConvertingKeepsFormat
<1>. QED BY <1>1, ReadingKeepsFormat, StringKeepsFormat, CopyingKeepsFormat, OutputKeepsFormat
     DEF TW_FormatStringV

(* Printf takes care of nothing else of Format's.                          *)
LEMMA StepsKeepFormat == FormatInv /\ [Next]_vars => FormatInv'
<1>. SUFFICES ASSUME FormatInv, [Next]_vars PROVE FormatInv' OBVIOUS
<1>1. ASSUME NEW s \in Formats, NEW l \in Limits, TW_Printf(s, l) PROVE FormatInv'
  <2>1. CallFormat(s, l) BY <1>1 DEF TW_Printf
  <2>. QED BY <2>1, CallingKeepsFormat
<1>2. ASSUME NEW bytes \in Writes, Write(bytes) PROVE FormatInv'
  <2>1. UNCHANGED formatVars BY <1>2 DEF Write
  <2>. QED BY <2>1, FormatStutters
<1>3. CASE Step
  <2>1. TW_FormatStringV \/ UNCHANGED formatVars BY <1>3 DEF Step
  <2>. QED BY <2>1, FormattingKeepsFormat, FormatStutters
<1>4. CASE UNCHANGED vars \/ GoAstray
  <2>1. UNCHANGED formatVars BY <1>4 DEF vars, GoAstray
  <2>. QED BY <2>1, FormatStutters
<1>. QED BY <1>1, <1>2, <1>3, <1>4 DEF Next

(* The inductive invariant of TW_FormatStringV: what a formatter has when  *)
(* it  reads, copies and flushes, in every place of its format.            *)
THEOREM FormatIsInvariant == Spec => []FormatInv
<1>1. Init => FormatInv BY FormatBegins DEF Init
<1>. QED BY <1>1, StepsKeepFormat, PTL DEF Spec

(* Whatever is flushed, copied in parts or dropped at the limit: what is   *)
(* in the buffer of TW_FormatStringV and what it still copies is the end of*)
(* the output, and the count is its length.                                *)
THEOREM NothingIsLostInTheBuffer == Spec => []BufferHoldsWhatIsMeant
<1>1. FormatInv => BufferHoldsWhatIsMeant
  <2>. SUFFICES ASSUME FormatInv, stage \in {"read", "copy", "end"}
                PROVE  buf \o rest = SubSeq(meant, flushes * FmtBuffer + 1, Len(meant))
    BY DEF BufferHoldsWhatIsMeant
  <2>1. /\ buf \in Seq(Byte) /\ rest \in Seq(Byte) /\ meant \in Seq(Byte)
        /\ flushes * FmtBuffer \in Nat
    BY FormatAssumption DEF FormatInv, FormatTypeOK
  <2>2. Held(flushes * FmtBuffer, buf, rest, meant) BY DEF FormatInv, Pending
  <2>. QED BY <2>1, <2>2, HeldIsTheEnd
<1>. QED BY <1>1, FormatIsInvariant, PTL

(* For integers of every width, base and set of flags: the field that      *)
(* TW_WriteInteger returns says the integer and is as wide as asked for.   *)
THEOREM FieldsReadBack == Spec => []IntegerReadsBack
<1>1. FormatInv => IntegerReadsBack BY DEF FormatInv, IntegerReadsBack
<1>. QED BY <1>1, FormatIsInvariant, PTL

LEMMA BoundsHold ==
    ASSUME NEW n \in Int
    PROVE  /\ BoundedColumn(n) \in Nat /\ BoundedColumn(n) < Cols
           /\ BoundedRow(n) \in Nat /\ BoundedRow(n) < Rows
BY TerminalAssumption DEF BoundedColumn, BoundedRow, Within

LEMMA NumbersAreNatural ==
    ASSUME NEW seq \in Seq(Byte)
    PROVE  Numbers(seq) \in [1 .. 8 -> Nat]
<1>. DEFINE reading == [at : 1 .. 8, nums : [1 .. 8 -> Nat]]
            Next1(b, r) == IF b \in Digits
                   THEN [r EXCEPT !.nums[r.at] = 10 * @ + b - 48]
                   ELSE IF b = 59 /\ r.at < 8 THEN [r EXCEPT !.at = @ + 1] ELSE r
            read == [b \in Byte |-> [r \in reading |-> Next1(b, r)]]
            start == [at |-> 1, nums |-> [k \in 1 .. 8 |-> 0]]
<1>1. ASSUME NEW b \in Byte, NEW r \in reading PROVE Next1(b, r) \in reading
  <2>1. CASE b \in Digits
    <3>1. 10 * r.nums[r.at] + b - 48 \in Nat
      <4>1. r.nums[r.at] \in Nat OBVIOUS
      <4>2. b \in Int /\ b - 48 \in Nat BY <2>1 DEF Digits
      <4>3. \A x \in Nat : 10 * x + b - 48 \in Nat BY <4>2
      <4>. QED BY <4>1, <4>3
    <3>2. Next1(b, r) = [r EXCEPT !.nums = [r.nums EXCEPT ![r.at] = 10 * r.nums[r.at] + b - 48]]
      BY <2>1
    <3>3. [r.nums EXCEPT ![r.at] = 10 * r.nums[r.at] + b - 48] \in [1 .. 8 -> Nat] BY <3>1
    <3>. QED BY <3>2, <3>3
  <2>2. CASE b \notin Digits
    <3>1. CASE b = 59 /\ r.at < 8
      <4>1. r.at + 1 \in 1 .. 8 BY <3>1
      <4>2. Next1(b, r) = [r EXCEPT !.at = r.at + 1] BY <2>2, <3>1
      <4>. QED BY <4>1, <4>2
    <3>2. CASE ~(b = 59 /\ r.at < 8) BY <2>2, <3>2
    <3>. QED BY <3>1, <3>2
  <2>. QED BY <2>1, <2>2
<1>. HIDE DEF Next1
<1>2. read \in [Byte -> [reading -> reading]] BY <1>1
<1>3. start \in reading OBVIOUS
<1>. HIDE DEF reading
<1>4. Outcome(read, start, seq) \in reading
  <2>. HIDE DEF read, start
  <2>. QED BY <1>2, <1>3, OutcomeIsTyped
<1>5. Outcome(read, start, seq).nums \in [1 .. 8 -> Nat] BY <1>4 DEF reading
<1>6. Numbers(seq) = Outcome(read, start, seq).nums BY Zenon DEF Numbers, read, start, reading, Next1
<1>. QED BY <1>5, <1>6

LEMMA ColoursAreSelected ==
    ASSUME NEW nums \in [1 .. 8 -> Nat], fore \in Seq(Nat), back \in Seq(Nat)
    PROVE  Coloured(nums)[1] \in Seq(Nat) /\ Coloured(nums)[2] \in Seq(Nat)
<1>1. ASSUME NEW old \in Seq(Nat) PROVE Chosen(nums, old) \in Seq(Nat)
  <2>1. nums \in Seq(Nat) /\ Len(nums) = 8
    <3>1. nums = [k \in 1 .. 8 |-> nums[k]] OBVIOUS
    <3>2. [k \in 1 .. 8 |-> nums[k]] \in Seq(Nat) /\ Len([k \in 1 .. 8 |-> nums[k]]) = 8 OBVIOUS
    <3>. QED BY <3>1, <3>2
  <2>2. SubSeq(nums, 3, 6) \in Seq(Nat) BY <2>1
  <2>3. <<nums[3]>> \in Seq(Nat) OBVIOUS
  <2>. QED BY <2>2, <2>3 DEF Chosen
<1>2. <<>> \in Seq(Nat) OBVIOUS
<1>3. nums[1] \in Nat OBVIOUS
<1>. DEFINE n == nums[1]
<1>. HIDE DEF n
<1>4. ASSUME NEW m \in Nat PROVE <<m>> \in Seq(Nat) OBVIOUS
<1>5. \A x, y \in Seq(Nat) : <<x, y>>[1] \in Seq(Nat) /\ <<x, y>>[2] \in Seq(Nat) OBVIOUS
<1>6. Coloured(nums) \in Seq(Nat) \X Seq(Nat)
  <2>1. n \in 30 .. 37 => <<n - 30>> \in Seq(Nat) BY <1>4
  <2>2. n \in 90 .. 97 => <<n - 90 + 8>> \in Seq(Nat) BY <1>4
  <2>3. n \in 40 .. 47 => <<n - 40>> \in Seq(Nat) BY <1>4
  <2>4. n \in 100 .. 107 => <<n - 100 + 8>> \in Seq(Nat) BY <1>4
  <2>. QED BY <1>1, <1>2, <2>1, <2>2, <2>3, <2>4 DEF Coloured, Default, colours, n
<1>. QED BY <1>6

LEMMA CursorStaysInside ==
    ASSUME NEW f, NEW n \in Nat, NEW m \in Nat, row \in Nat, column \in Nat
    PROVE  /\ Moved(f, n, m)[1] \in Nat /\ Moved(f, n, m)[2] \in Nat
           /\ Moved(f, n, m)[1] < Rows \/ Moved(f, n, m)[1] = row
           /\ Moved(f, n, m)[2] < Cols \/ Moved(f, n, m)[2] = column
<1>1. AtLeastOne(n) \in Int BY DEF AtLeastOne
<1>2. \A x \in Int : BoundedColumn(x) \in Nat /\ BoundedColumn(x) < Cols
                     /\ BoundedRow(x) \in Nat /\ BoundedRow(x) < Rows
  BY BoundsHold
<1>. DEFINE Right == {x \in Nat : x < Cols \/ x = column}
            Down == {x \in Nat : x < Rows \/ x = row}
<1>3. /\ row \in Down /\ column \in Right /\ 0 \in Right
      /\ BoundedRow(n) \in Down /\ BoundedColumn(m) \in Right /\ BoundedColumn(n) \in Right
      /\ BoundedRow(row - AtLeastOne(n)) \in Down /\ BoundedRow(row + AtLeastOne(n)) \in Down
      /\ BoundedColumn(column - AtLeastOne(n)) \in Right /\ BoundedColumn(column + AtLeastOne(n)) \in Right
  BY <1>1, <1>2, TerminalAssumption
<1>. HIDE DEF Right, Down
<1>4. Moved(f, n, m) \in Down \X Right BY <1>3 DEF Moved, cursor
<1>5. Moved(f, n, m)[1] \in Down /\ Moved(f, n, m)[2] \in Right BY <1>4
<1>. QED BY <1>5 DEF Down, Right

(* A span ends in the line it began in, and is cut at the edge.            *)
Fits(s) ==
    /\ "disableWrap" \notin flags => s.column + s.to - s.from < Cols
    /\ s.shown = Shown(s.column, s.to + 1 - s.from)

SpansFit == \A s \in drawn : Fits(s)

(* The terminal while and between calls.                                   *)
TermInv ==
    /\ TermTypeOK
    /\ chars \in Seq(Byte) /\ transferring \in BOOLEAN
    /\ ~transferring => at \in {"idle", "astray"}
    /\ at = "astray" => stage # "idle" \/ transferring
    /\ at \notin {"text", "astray"} => line = 0 /\ col = 0 /\ home = 0 /\ homeCol = 0 /\ i = 0
    /\ at = "idle" => offset = 0 /\ drawn = {}
    /\ home <= i
    /\ "disableScroll" \notin flags => line <= Rows + 1
    /\ "disableWrap" \notin flags => col < Cols /\ homeCol + (i - home) <= col + 1
    /\ SpansFit

LEMMA BytesOfTheCall ==
    ASSUME TermInv, NEW k \in Nat, k < Len0
    PROVE  Len0 \in Nat /\ At(k) \in Byte
<1>1. chars \in Seq(Byte) BY DEF TermInv
<1>2. k + 1 \in 1 .. Len(chars) BY <1>1 DEF Len0
<1>. QED BY <1>1, <1>2 DEF Len0, At

LEMMA EscapesKeepTerm ==
    ASSUME TermInv,
           EscapeBegins \/ EscapeOpens \/ EscapeIsNone \/ EscapeGoesOn \/ EscapeEnds
    PROVE  TermInv'
<1>1. at = "outer" /\ offset < Len0 /\ at' = at /\ UNCHANGED <<flags, line, col, home, homeCol, i>>
      /\ UNCHANGED <<escapeBefore, drawn, overwritten, chars, transferring>>
  BY DEF EscapeBegins, EscapeOpens, EscapeIsNone, EscapeGoesOn, EscapeEnds, Outer, TakeEscapeByte, loop
<1>2. TermTypeOK /\ offset \in Nat /\ Len0 \in Nat /\ Len0' = Len0
  BY <1>1 DEF TermInv, TermTypeOK, Len0
<1>3. At(offset) \in Byte BY <1>1, <1>2, BytesOfTheCall
<1>4. offset' \in 0 .. Len0'
  BY <1>1, <1>2 DEF EscapeBegins, EscapeOpens, EscapeIsNone, EscapeGoesOn, EscapeEnds, TakeEscapeByte
<1>5. escape' \in Seq(Byte) /\ Len(escape') < MaxEsc
  <2>1. <<>> \in Seq(Byte) /\ Len(<<>>) < MaxEsc BY TerminalAssumption
  <2>2. CASE EscapeBegins
    <3>1. escape' = <<Esc>> BY <2>2 DEF EscapeBegins, TakeEscapeByte
    <3>2. <<Esc>> \in Seq(Byte) /\ Len(<<Esc>>) = 1 BY DEF Esc, Byte
    <3>. QED BY <3>1, <3>2, TerminalAssumption
  <2>3. CASE EscapeOpens
    <3>1. escape' = <<Esc, 91>> BY <2>3 DEF EscapeOpens, TakeEscapeByte
    <3>2. <<Esc, 91>> \in Seq(Byte) /\ Len(<<Esc, 91>>) = 2 BY DEF Esc, Byte
    <3>. QED BY <3>1, <3>2, TerminalAssumption
  <2>4. CASE EscapeIsNone \/ EscapeEnds
    BY <2>1, <2>4 DEF EscapeIsNone, EscapeEnds, TakeEscapeByte
  <2>5. CASE EscapeGoesOn
    <3>1. escape \in Seq(Byte) BY <1>2 DEF TermTypeOK
    <3>. DEFINE new == Append(escape, At(offset))
    <3>2. new \in Seq(Byte) /\ Len(new) \in Nat BY <1>3, <3>1
    <3>3. escape' = IF Len(new) >= MaxEsc THEN <<>> ELSE new
      BY <2>5 DEF EscapeGoesOn, TakeEscapeByte
    <3>4. MaxEsc \in Nat BY TerminalAssumption
    <3>. HIDE DEF new
    <3>. QED BY <2>1, <3>2, <3>3, <3>4
  <2>. QED BY <2>2, <2>3, <2>4, <2>5
<1>6. /\ row' \in Nat /\ column' \in Nat /\ fore' \in Seq(Nat) /\ back' \in Seq(Nat)
      /\ "disableScroll" \notin flags => row' <= Rows + 1
      /\ "disableWrap" \notin flags => column' < Cols
  <2>0. /\ row \in Nat /\ column \in Nat /\ fore \in Seq(Nat) /\ back \in Seq(Nat)
        /\ "disableScroll" \notin flags => row <= Rows + 1
        /\ "disableWrap" \notin flags => column < Cols
    BY <1>2 DEF TermTypeOK
  <2>1. CASE ~EscapeEnds
    <3>1. UNCHANGED <<row, column, fore, back>>
      BY <2>1 DEF EscapeBegins, EscapeOpens, EscapeIsNone, EscapeGoesOn, cursor, colours
    <3>. QED BY <2>0, <3>1
  <2>2. CASE EscapeEnds
    <3>. DEFINE nums == Numbers(escape)
                target == Moved(At(offset), nums[1], nums[2])
                chosen == IF At(offset) = 109 THEN Coloured(nums) ELSE colours
    <3>1. /\ row' = target[1] /\ column' = target[2]
          /\ fore' = chosen[1] /\ back' = chosen[2]
      BY <2>2 DEF EscapeEnds, CarryOut
    <3>2. nums \in [1 .. 8 -> Nat] BY <1>2, NumbersAreNatural DEF TermTypeOK
    <3>. HIDE DEF nums
    <3>3. nums[1] \in Nat /\ nums[2] \in Nat BY <3>2
    <3>4. /\ target[1] \in Nat /\ target[2] \in Nat
          /\ target[1] < Rows \/ target[1] = row
          /\ target[2] < Cols \/ target[2] = column
      BY <2>0, <3>3, CursorStaysInside
    <3>5. chosen[1] \in Seq(Nat) /\ chosen[2] \in Seq(Nat)
      BY <2>0, <3>2, ColoursAreSelected DEF colours
    <3>. HIDE DEF target, chosen
    <3>6. Rows \in Nat BY TerminalAssumption
    <3>. QED BY <2>0, <3>1, <3>4, <3>5, <3>6
  <2>. QED BY <2>1, <2>2
<1>7. TermTypeOK' BY <1>1, <1>2, <1>4, <1>5, <1>6 DEF TermTypeOK
<1>8. SpansFit' BY <1>1 DEF TermInv, SpansFit, Fits
<1>. QED BY <1>1, <1>7, <1>8 DEF TermInv

LEMMA TermFacts ==
    ASSUME TermInv
    PROVE  /\ Len0 \in Nat /\ row \in Nat /\ column \in Nat /\ line \in Nat /\ col \in Nat
           /\ home \in Nat /\ i \in Nat /\ homeCol \in Nat /\ offset \in Nat
           /\ home <= i /\ i <= Len0 /\ offset <= Len0
           /\ Cols \in Nat /\ Rows \in Nat /\ Cols >= 2 /\ Rows >= 2
<1>1. Len0 \in Nat BY DEF TermInv, Len0
<1>. QED BY <1>1, TerminalAssumption DEF TermInv, TermTypeOK

LEMMA DrawingFits ==
    ASSUME TermInv, Draw
    PROVE  drawn' \subseteq Span /\ \A s \in drawn' : Fits(s)
<1>1. drawn \subseteq Span /\ SpansFit BY DEF TermInv, TermTypeOK
<1>2. CASE i <= home
  <2>1. drawn' = drawn BY <1>2, TermFacts DEF Draw
  <2>. QED BY <1>1, <2>1 DEF SpansFit
<1>3. CASE i > home
  <2>. DEFINE s == [from |-> home, to |-> i - 1, row |-> line % Rows,
                    column |-> homeCol, shown |-> Shown(homeCol, i - home)]
  <2>1. drawn' = drawn \cup {s} BY <1>3 DEF Draw
  <2>2. s \in Span
    <3>1. line \in Nat /\ Rows \in Nat \ {0} /\ home \in Nat /\ i - 1 \in Nat /\ homeCol \in Nat
      BY <1>3, TermFacts
    <3>2. line % Rows \in 0 .. Rows - 1 BY <3>1, RemainderFits
    <3>3. Shown(homeCol, i - home) \in 0 .. Cols BY <1>3, TermFacts DEF Shown, Cell
    <3>. HIDE DEF Shown
    <3>. QED BY <3>1, <3>2, <3>3 DEF Span
  <2>3. Fits(s)
    <3>1. /\ s.column = homeCol /\ s.to = i - 1 /\ s.from = home
          /\ s.shown = Shown(homeCol, i - home)
      OBVIOUS
    <3>2. "disableWrap" \notin flags => col < Cols /\ homeCol + (i - home) <= col + 1
      BY DEF TermInv
    <3>. HIDE DEF s
    <3>3. "disableWrap" \notin flags => s.column + s.to - s.from < Cols
      BY <3>1, <3>2, TermFacts
    <3>4. s.to + 1 - s.from = i - home BY <3>1, TermFacts
    <3>. QED BY <3>1, <3>3, <3>4 DEF Fits
  <2>. HIDE DEF s
  <2>. QED BY <1>1, <2>1, <2>2, <2>3 DEF SpansFit
<1>. QED BY <1>2, <1>3, TermFacts

LEMMA OverwrittenIsTyped ==
    ASSUME overwritten \in BOOLEAN,
           TextBegins \/ Advance \/ TextMeetsEscape \/ NewLine \/ GiveUp \/ TextEnds
    PROVE  overwritten' \in BOOLEAN
<1>1. CASE TextBegins \/ Advance \/ TextMeetsEscape \/ GiveUp \/ TextEnds
  BY <1>1 DEF TextBegins, Advance, TextMeetsEscape, GiveUp, TextEnds
<1>2. CASE NewLine
  <2>1. \/ overwritten' = (overwritten \/ LineAfter - Rows - 1 < 0)
        \/ overwritten' = overwritten
    BY <1>2 DEF NewLine
  <2>. QED BY <2>1
<1>. QED BY <1>1, <1>2

LEMMA TextKeepsTerm ==
    ASSUME TermInv,
           TextBegins \/ Advance \/ TextMeetsEscape \/ NewLine \/ GiveUp \/ TextEnds
    PROVE  TermInv'
<1>1. UNCHANGED <<flags, fore, back, escape, escapeBefore, chars, transferring>>
  BY DEF TextBegins, Advance, TextMeetsEscape, NewLine, GiveUp, TextEnds, colours
<1>2. at \in {"outer", "text"} /\ at' \in {"outer", "text", "return"}
  BY DEF TextBegins, Advance, TextMeetsEscape, NewLine, GiveUp, TextEnds, Outer, Text, Breaks
<1>3. TermTypeOK /\ Len0' = Len0 BY <1>1 DEF TermInv, Len0
<1>4. /\ row \in Nat /\ column \in Nat /\ drawn \subseteq Span /\ SpansFit
      /\ overwritten \in BOOLEAN
      /\ "disableScroll" \notin flags => row <= Rows + 1 /\ line <= Rows + 1
      /\ "disableWrap" \notin flags => column < Cols /\ col < Cols /\ homeCol + (i - home) <= col + 1
  BY DEF TermInv, TermTypeOK
<1>5. ASSUME row' \in Nat, column' \in Nat, offset' \in 0 .. Len0,
             line' \in Nat, col' \in Nat, home' \in Nat, i' \in Nat, homeCol' \in Nat,
             home' <= i', i' <= Len0,
             "disableScroll" \notin flags => row' <= Rows + 1 /\ line' <= Rows + 1,
             "disableWrap" \notin flags =>
                 column' < Cols /\ col' < Cols /\ homeCol' + (i' - home') <= col' + 1,
             at' # "text" => line' = 0 /\ col' = 0 /\ home' = 0 /\ homeCol' = 0 /\ i' = 0,
             drawn' = drawn \/ Draw
      PROVE  TermInv'
  <2>0. overwritten' \in BOOLEAN BY <1>4, OverwrittenIsTyped
  <2>1. drawn' \subseteq Span /\ \A s \in drawn' : Fits(s)
    BY <1>4, <1>5, DrawingFits DEF SpansFit
  <2>2. SpansFit' BY <1>1, <2>1 DEF SpansFit, Fits
  <2>3. home' \in 0 .. Len0 /\ i' \in 0 .. Len0 BY <1>5, TermFacts
  <2>4. Span' = Span BY DEF Span
  <2>5. TermTypeOK' BY <1>1, <1>2, <1>3, <1>5, <2>0, <2>1, <2>3, <2>4 DEF TermTypeOK
  <2>6. ~transferring => at \in {"idle", "astray"} BY DEF TermInv
  <2>. QED BY <1>1, <1>2, <1>5, <2>2, <2>5, <2>6 DEF TermInv
<1>6. CASE TextBegins
  <2>1. /\ at' = "text" /\ line' = row /\ col' = column /\ home' = offset /\ homeCol' = column
        /\ i' = offset /\ UNCHANGED <<row, column, offset, drawn>>
    BY <1>6 DEF TextBegins, cursor
  <2>. QED BY <1>4, <1>5, <2>1, TermFacts
<1>7. CASE Advance
  <2>1. /\ at' = at /\ at = "text" /\ col' = col + 1 /\ i' = i + 1
        /\ UNCHANGED <<row, column, offset, line, home, homeCol, drawn>>
    BY <1>7 DEF Advance, Text, cursor
  <2>2. i < Len0 /\ ("disableWrap" \notin flags => ~(col >= Cols - 1))
    BY <1>7 DEF Advance, Text, GoesOn, LineIsFull
  <2>. QED BY <1>4, <1>5, <2>1, <2>2, TermFacts
<1>8. CASE TextMeetsEscape \/ TextEnds
  <2>1. /\ at' = "outer" /\ row' = line /\ column' = col /\ offset' = i
        /\ line' = 0 /\ col' = 0 /\ home' = 0 /\ homeCol' = 0 /\ i' = 0
        /\ drawn' = drawn \/ Draw
    BY <1>8 DEF TextMeetsEscape, TextEnds, LeaveText, ClearLoop
  <2>. HIDE DEF Draw
  <2>. QED BY <1>4, <1>5, <2>1, TermFacts
<1>9. CASE NewLine
  <2>1. /\ at' = at /\ at = "text" /\ col' = 0 /\ homeCol' = 0 /\ i' = i + 1 /\ i < Len0
        /\ home' = IF At(i) \in {Return, Newline} THEN i + 1 ELSE i
        /\ line' = IF LineAfter >= Rows THEN LineAfter - (LineAfter - Rows - 1) ELSE LineAfter
        /\ UNCHANGED <<row, column, offset>> /\ Draw
    BY <1>9 DEF NewLine, Breaks, Text, cursor
  <2>2. LineAfter \in Nat BY TermFacts DEF LineAfter
  <2>3. line' \in Nat /\ line' <= Rows + 1 BY <2>1, <2>2, TermFacts
  <2>4. home' \in Nat /\ (home' = i \/ home' = i + 1) BY <2>1, TermFacts
  <2>. HIDE DEF Draw
  <2>. QED BY <1>4, <1>5, <2>1, <2>3, <2>4, TermFacts
<1>10. CASE GiveUp
  <2>1. /\ at' = "return" /\ row' = LineAfter /\ column' = 0 /\ offset' = offset
        /\ line' = 0 /\ col' = 0 /\ home' = 0 /\ homeCol' = 0 /\ i' = 0
        /\ Draw /\ "disableScroll" \in flags
    BY <1>10 DEF GiveUp, LeaveText, ClearLoop
  <2>2. LineAfter \in Nat BY TermFacts DEF LineAfter
  <2>. HIDE DEF Draw
  <2>. QED BY <1>4, <1>5, <2>1, <2>2, TermFacts
<1>. QED BY <1>6, <1>7, <1>8, <1>9, <1>10

LEMMA CallsKeepTerm ==
    ASSUME TermInv, Begin \/ Finish
    PROVE  TermInv'
<1>1. UNCHANGED <<row, column, flags, fore, back, escape, line, col, home, homeCol, i>>
      /\ offset' = 0 /\ drawn' = {} /\ overwritten' = overwritten
  BY DEF Begin, Finish, cursor, colours, loop
<1>2. TermTypeOK BY DEF TermInv
<1>3. Len0' \in Nat /\ chars' \in Seq(Byte) /\ transferring' \in BOOLEAN
      /\ escapeBefore' \in Seq(Byte) /\ at' \in {"idle", "outer"}
      /\ (~transferring' => at' = "idle")
  <2>1. CASE Begin
    <3>1. /\ chars' = chars /\ transferring' = transferring /\ transferring
          /\ escapeBefore' = escape /\ at' = "outer"
      BY <2>1 DEF Begin
    <3>2. chars \in Seq(Byte) /\ transferring \in BOOLEAN /\ escape \in Seq(Byte)
      BY DEF TermInv, TermTypeOK
    <3>. QED BY <3>1, <3>2 DEF Len0
  <2>2. CASE Finish
    <3>1. chars' = <<>> /\ transferring' = FALSE /\ escapeBefore' = <<>> /\ at' = "idle"
      BY <2>2 DEF Finish, Transferred
    <3>2. <<>> \in Seq(Byte) /\ Len(<<>>) = 0 OBVIOUS
    <3>3. Len0' \in Nat BY <3>1, <3>2 DEF Len0
    <3>. QED BY <3>1, <3>2, <3>3
  <2>. QED BY <2>1, <2>2
<1>4. at \notin {"text", "astray"} BY DEF Begin, Finish
<1>5. line = 0 /\ col = 0 /\ home = 0 /\ homeCol = 0 /\ i = 0 BY <1>4 DEF TermInv
<1>6. TermTypeOK' BY <1>1, <1>2, <1>3, <1>5 DEF TermTypeOK
<1>7. SpansFit' BY <1>1 DEF SpansFit
<1>8. 0 < Cols /\ 0 <= Rows + 1 BY TerminalAssumption
<1>9. line' = 0 /\ col' = 0 /\ home' = 0 /\ homeCol' = 0 /\ i' = 0 BY <1>1, <1>5
<1>10. home' <= i' /\ homeCol' + (i' - home') <= col' + 1 BY <1>9
<1>. QED BY <1>1, <1>3, <1>6, <1>7, <1>8, <1>9, <1>10 DEF TermInv

LEMMA IdleTakesCalls ==
    ASSUME TermInv, UNCHANGED termVars \/ NewFrames,
           at # "astray" \/ UNCHANGED <<stage, transferring>>,
           UNCHANGED <<chars, transferring>>
           \/ (~transferring /\ at # "astray" /\ chars' \in Seq(Byte) /\ transferring' = TRUE)
    PROVE  TermInv'
<1>1. UNCHANGED <<row, column, flags, fore, back, escape, at, offset>>
      /\ UNCHANGED <<line, col, home, homeCol, i, escapeBefore, drawn>>
  BY DEF termVars, cursor, colours, loop, NewFrames
<1>0. overwritten' \in BOOLEAN BY DEF TermInv, TermTypeOK, termVars, NewFrames
<1>2. CASE UNCHANGED <<chars, transferring>>
  <2>1. Len0' = Len0 BY <1>2 DEF Len0
  <2>2. TermTypeOK' BY <1>0, <1>1, <2>1 DEF TermInv, TermTypeOK
  <2>3. SpansFit' BY <1>1 DEF TermInv, SpansFit, Fits
  <2>. QED BY <1>1, <1>2, <2>2, <2>3 DEF TermInv
<1>3. CASE ~transferring /\ at # "astray" /\ chars' \in Seq(Byte) /\ transferring' = TRUE
  <2>1. Len0' \in Nat BY <1>3 DEF Len0
  <2>2. at = "idle" /\ offset = 0 /\ home = 0 /\ i = 0 BY <1>3 DEF TermInv
  <2>3. TermTypeOK' BY <1>0, <1>1, <2>1, <2>2 DEF TermInv, TermTypeOK
  <2>4. SpansFit' BY <1>1 DEF TermInv, SpansFit, Fits
  <2>. QED BY <1>1, <1>3, <2>2, <2>3, <2>4 DEF TermInv
<1>. QED BY <1>2, <1>3

(* What TW_FormatStringV passes on is bytes.                               *)
LEMMA FormatPassesBytes ==
    ASSUME FormatTypeOK, TW_FormatStringV
    PROVE  \/ UNCHANGED <<chars, transferring>>
           \/ ~transferring /\ chars' \in Seq(Byte) /\ transferring' = TRUE
<1>1. buf \in Seq(Byte) BY DEF FormatTypeOK
<1>2. CASE Flush \/ CopyPart
  BY <1>1, <1>2 DEF Flush, CopyPart, PassOn, Transfer
<1>3. CASE PutEnd
  <2>1. Append(buf, Nul) \in Seq(Byte) BY <1>1 DEF Nul, Byte
  <2>. QED BY <1>3, <2>1 DEF PutEnd, Transfer
<1>4. CASE PutLiteral \/ StopAtLimit \/ PercentBegins \/ TakeFlag \/ TakeWidth \/ TakeDot
           \/ TakePrecision \/ TakeLength \/ PutStringByte \/ EndString \/ CopyRest
           \/ EndOfFormat \/ ReturnCount
  BY <1>4 DEF PutLiteral, StopAtLimit, PercentBegins, TakeFlag, TakeWidth, TakeDot,
     TakePrecision, TakeLength, PutStringByte, EndString, CopyRest, EndOfFormat, ReturnCount, ContinueSpec
<1>5. CASE ConvertInteger \/ ConvertPointer \/ ConvertOther \/ ConvertString \/ ConvertNothing
  BY <1>5 DEF ConvertInteger, ConvertPointer, ConvertOther, ConvertString, ConvertNothing, EndSpec
<1>. QED BY <1>2, <1>3, <1>4, <1>5 DEF TW_FormatStringV

LEMMA StrayingKeepsTerm ==
    ASSUME TermInv, GoAstray
    PROVE  TermInv'
<1>1. /\ stage # "idle" \/ transferring
      /\ at' = "astray"
      /\ UNCHANGED <<row, column, flags, fore, back, escape, offset, chars, transferring, stage>>
      /\ UNCHANGED <<line, col, home, homeCol, i, escapeBefore, drawn, overwritten>>
  BY DEF GoAstray, cursor, colours, loop, printf, formatVars
<1>2. Len0' = Len0 BY <1>1 DEF Len0
<1>3. TermTypeOK' BY <1>1, <1>2 DEF TermInv, TermTypeOK
<1>4. SpansFit' BY <1>1 DEF TermInv, SpansFit, Fits
<1>. QED BY <1>1, <1>3, <1>4 DEF TermInv

LEMMA StepsKeepTerm == FormatInv /\ TermInv /\ [Next]_vars => TermInv'
<1>. SUFFICES ASSUME FormatInv, TermInv, [Next]_vars PROVE TermInv' OBVIOUS
<1>1. ASSUME NEW s \in Formats, NEW l \in Limits, TW_Printf(s, l) PROVE TermInv'
  <2>1. stage = "idle" /\ ~transferring /\ UNCHANGED <<chars, transferring>> /\ NewFrames
    BY <1>1 DEF TW_Printf, CallFormat
  <2>2. at # "astray" BY <2>1 DEF TermInv
  <2>. QED BY <2>1, <2>2, IdleTakesCalls
<1>2. ASSUME NEW bytes \in Writes, Write(bytes) PROVE TermInv'
  <2>1. bytes \in Seq(Byte) BY PrintfAssumption
  <2>2. /\ stage = "idle" /\ ~transferring /\ NewFrames
        /\ chars' = bytes /\ transferring' = TRUE
    BY <1>2 DEF Write, Transfer
  <2>3. at # "astray" BY <2>2 DEF TermInv
  <2>. QED BY <2>1, <2>2, <2>3, IdleTakesCalls
<1>3. CASE at # "astray" /\ TW_FormatStringV /\ UNCHANGED termVars
  <2>1. FormatTypeOK BY DEF FormatInv
  <2>. QED BY <1>3, <2>1, FormatPassesBytes, IdleTakesCalls
<1>4. CASE TW_PrintTerminal
  BY <1>4, CallsKeepTerm, EscapesKeepTerm, TextKeepsTerm DEF TW_PrintTerminal
<1>5. CASE UNCHANGED vars
  BY <1>5, IdleTakesCalls DEF vars, printf, formatVars
<1>6. CASE GoAstray
  BY <1>6, StrayingKeepsTerm
<1>. QED BY <1>1, <1>2, <1>3, <1>4, <1>5, <1>6 DEF Next, Step

LEMMA TermBegins == Init => TermInv
<1>. SUFFICES ASSUME Init PROVE TermInv OBVIOUS
<1>1. /\ chars = <<>> /\ transferring = FALSE /\ row = 0 /\ column = 0 /\ flags \in Flags
      /\ fore = <<>> /\ back = <<>> /\ escape = <<>> /\ at = "idle" /\ offset = 0
      /\ line = 0 /\ col = 0 /\ home = 0 /\ homeCol = 0 /\ i = 0
      /\ escapeBefore = <<>> /\ drawn = {}
  BY DEF Init, TermInit, Default
<1>0. overwritten \in BOOLEAN BY DEF Init, TermInit
<1>2. Len0 \in Nat BY <1>1 DEF Len0
<1>3. 0 < Cols /\ 0 <= Rows + 1 /\ 0 < MaxEsc BY TerminalAssumption
<1>4. <<>> \in Seq(Byte) /\ <<>> \in Seq(Nat) /\ Len(<<>>) = 0 OBVIOUS
<1>5. TermTypeOK BY <1>0, <1>1, <1>2, <1>3, <1>4 DEF TermTypeOK
<1>6. SpansFit BY <1>1 DEF SpansFit
<1>7. home <= i /\ homeCol + (i - home) <= col + 1 BY <1>1
<1>. QED BY <1>1, <1>3, <1>4, <1>5, <1>6, <1>7 DEF TermInv

(* The inductive invariant of TW_PrintTerminal's cursor: offset, span and  *)
(* column go together, for terminals of all sizes.                         *)
THEOREM TermIsInvariant == Spec => []TermInv
<1>1. Init => TermInv BY TermBegins
<1>. QED BY <1>1, FormatIsInvariant, StepsKeepTerm, PTL DEF Spec

(* Of any text, at any place, TW_DrawAsciiSpan cuts off at the right edge  *)
(* at most as many glyphs as the column of the span, for terminals of all  *)
(* sizes that wrap: what the doubling of the column pushes over the edge.  *)
THEOREM LossesAreBounded == Spec => []EdgeTakesAtMostTheColumn
<1>1. TermInv => EdgeTakesAtMostTheColumn
  <2>. SUFFICES ASSUME TermInv, "disableWrap" \notin flags, NEW s \in drawn
                PROVE  s.to + 1 - s.from - s.shown <= s.column
    BY DEF EdgeTakesAtMostTheColumn
  <2>1. s \in Span BY DEF TermInv, TermTypeOK
  <2>2. Fits(s) BY DEF TermInv, SpansFit
  <2>3. s.from \in Nat /\ s.to \in Nat /\ s.column \in Nat BY <2>1 DEF Span
  <2>4. s.column + s.to - s.from < Cols BY <2>2 DEF Fits
  <2>5. s.shown = Shown(s.column, s.to + 1 - s.from) BY <2>2 DEF Fits
  <2>. QED BY <2>3, <2>4, <2>5, TerminalAssumption DEF Shown, Cell
<1>. QED BY <1>1, TermIsInvariant, PTL

(* The variables of the formatter and of the terminal are in their ranges. *)
THEOREM PrintfIsTyped == Spec => []TypeOK
<1>1. FormatInv /\ TermInv => TypeOK BY DEF FormatInv, TermInv, TypeOK
<1>. QED BY <1>1, FormatIsInvariant, TermIsInvariant, PTL

-----------------------------------------------------------------------------
(* Terminal: the escape sequences                                          *)

HeardIn(before, bytes) ==
    Course([b \in Byte |-> [e \in Seq(Byte) |-> Hear(e, b)]], before, bytes)

LEMMA HeardIsCourse ==
    ASSUME NEW k
    PROVE  Heard(k) = HeardIn(escapeBefore, chars)[k]
BY Zenon DEF Heard, HeardIn

LEMMA HearIsTyped ==
    ASSUME NEW e \in Seq(Byte), NEW b \in Byte
    PROVE  Hear(e, b) \in Seq(Byte)
<1>1. <<>> \in Seq(Byte) /\ <<Esc>> \in Seq(Byte) /\ <<Esc, 91>> \in Seq(Byte) BY DEF Esc, Byte
<1>2. Append(e, b) \in Seq(Byte) OBVIOUS
<1>. QED BY <1>1, <1>2 DEF Hear

LEMMA HeardGoesOn ==
    ASSUME NEW before \in Seq(Byte), NEW bytes \in Seq(Byte)
    PROVE  /\ HeardIn(before, bytes)[0] = before
           /\ \A k \in 0 .. Len(bytes) : HeardIn(before, bytes)[k] \in Seq(Byte)
           /\ \A k \in 0 .. Len(bytes) - 1 :
                 HeardIn(before, bytes)[k + 1] = Hear(HeardIn(before, bytes)[k], bytes[k + 1])
<1>. DEFINE S == Seq(Byte)
            hears == [b \in Byte |-> [e \in S |-> Hear(e, b)]]
            heard == Course(hears, before, bytes)
<1>1. hears \in [Byte -> [S -> S]] BY HearIsTyped
<1>2. Len(bytes) \in Nat /\ before \in S OBVIOUS
<1>3. HeardIn(before, bytes) = heard BY Zenon DEF HeardIn
<1>. HIDE DEF hears, S
<1>4. heard[0] = before BY <1>2, CourseBegins
<1>5. heard \in [0 .. Len(bytes) -> S] BY <1>1, <1>2, CourseIsTyped
<1>6. ASSUME NEW k \in 1 .. Len(bytes) PROVE heard[k] = hears[bytes[k]][heard[k - 1]]
  BY <1>2, CourseSteps
<1>. HIDE DEF heard
<1>7. ASSUME NEW k \in 0 .. Len(bytes) - 1 PROVE heard[k + 1] = Hear(heard[k], bytes[k + 1])
  <2>1. k + 1 \in 1 .. Len(bytes) /\ k \in 0 .. Len(bytes) /\ k + 1 - 1 = k BY <1>2
  <2>2. heard[k + 1] = hears[bytes[k + 1]][heard[k]] BY <1>6, <2>1
  <2>3. bytes[k + 1] \in Byte BY <2>1
  <2>4. heard[k] \in S BY <1>5, <2>1
  <2>. QED BY <2>2, <2>3, <2>4 DEF hears
<1>8. \A k \in 0 .. Len(bytes) : heard[k] \in S BY <1>5
<1>. QED BY <1>3, <1>4, <1>7, <1>8 DEF S

LEMMA HearOutside ==
    ASSUME NEW e, e = <<>> \/ e = <<Esc>>, NEW b
    PROVE  /\ b = Esc => Hear(e, b) = <<Esc>>
           /\ e = <<Esc>> /\ b = 91 => Hear(e, b) = <<Esc, 91>>
           /\ b # Esc /\ ~(e = <<Esc>> /\ b = 91) => Hear(e, b) = <<>>
<1>1. Len(e) <= 1
  <2>1. CASE e = <<>>
    <3>1. Len(e) = 0 BY <2>1
    <3>. QED BY <3>1
  <2>2. CASE e = <<Esc>>
    <3>1. Len(e) = 1 BY <2>2
    <3>. QED BY <3>1
  <2>. QED BY <2>1, <2>2
<1>2. 91 # Esc BY DEF Esc
<1>. QED BY <1>1, <1>2 DEF Hear

(* What the terminal has collected where it looks for sequences, after n   *)
(* bytes, and where it looks for the end of a stretch of text that began   *)
(* after n bytes.                                                          *)
Collected(e, n, heard, bytes) ==
    \/ e = heard[n]
    \/ e = <<>> /\ heard[n] = <<Esc>> /\ n < Len(bytes) /\ bytes[n + 1] # 91

NoneCollected(n, k, heard, bytes) ==
    /\ n <= k
    /\ n = k => k < Len(bytes)
    /\ \/ heard[k] = <<>>
       \/ heard[k] = <<Esc>> /\ n = k /\ bytes[k + 1] # 91

EscapeInv ==
    /\ at = "outer" => Collected(escape, offset, HeardIn(escapeBefore, chars), chars)
    /\ at = "text" => /\ escape = <<>>
                      /\ NoneCollected(offset, i, HeardIn(escapeBefore, chars), chars)

(* A byte of a sequence                                                    *)
LEMMA EscapesAreHeard ==
    ASSUME TermInv, EscapeInv,
           EscapeBegins \/ EscapeOpens \/ EscapeIsNone \/ EscapeGoesOn \/ EscapeEnds
    PROVE  EscapeInv'
<1>. DEFINE heard == HeardIn(escapeBefore, chars)
            b == At(offset)
<1>1. /\ at = "outer" /\ at' = "outer" /\ offset < Len(chars) /\ offset \in Nat /\ Len(chars) \in Nat
      /\ UNCHANGED <<escapeBefore, chars>>
  BY TermFacts DEF EscapeBegins, EscapeOpens, EscapeIsNone, EscapeGoesOn, EscapeEnds, Outer,
     TakeEscapeByte, Len0
<1>2. /\ escapeBefore \in Seq(Byte) /\ chars \in Seq(Byte) /\ escape \in Seq(Byte)
      /\ Len(escape) < MaxEsc
  BY DEF TermInv, TermTypeOK
<1>3. heard[offset] \in Seq(Byte) /\ heard[offset + 1] = Hear(heard[offset], b)
  <2>1. offset \in 0 .. Len(chars) /\ offset \in 0 .. Len(chars) - 1 BY <1>1
  <2>. QED BY <1>2, <2>1, HeardGoesOn DEF At
<1>4. Collected(escape, offset, heard, chars) BY <1>1 DEF EscapeInv
<1>5. b = chars[offset + 1] BY DEF At
<1>. HIDE DEF heard, b
<1>6. Collected(escape', offset', heard, chars)
  <2>1. CASE EscapeBegins
    <3>1. escape = <<>> /\ b = Esc /\ escape' = <<Esc>> /\ offset' = offset + 1
      BY <2>1 DEF EscapeBegins, TakeEscapeByte, b
    <3>2. heard[offset] = <<>> \/ heard[offset] = <<Esc>> BY <1>4, <3>1 DEF Collected
    <3>3. heard[offset + 1] = <<Esc>> BY <1>3, <3>1, <3>2, HearOutside
    <3>. QED BY <3>1, <3>3 DEF Collected
  <2>2. CASE EscapeOpens
    <3>1. escape = <<Esc>> /\ b = 91 /\ escape' = <<Esc, 91>> /\ offset' = offset + 1
      BY <2>2 DEF EscapeOpens, TakeEscapeByte, b
    <3>2. heard[offset] = <<Esc>> BY <1>4, <3>1 DEF Collected
    <3>3. heard[offset + 1] = <<Esc, 91>> BY <1>3, <3>1, <3>2, HearOutside
    <3>. QED BY <3>1, <3>3 DEF Collected
  <2>3. CASE EscapeIsNone
    <3>1. escape = <<Esc>> /\ b # 91 /\ escape' = <<>> /\ offset' = offset
      BY <2>3 DEF EscapeIsNone, b
    <3>2. heard[offset] = <<Esc>> BY <1>4, <3>1 DEF Collected
    <3>. QED BY <1>1, <1>5, <3>1, <3>2 DEF Collected
  <2>4. CASE EscapeGoesOn \/ EscapeEnds
    <3>1. Len(escape) >= 2 BY <2>4 DEF EscapeGoesOn, EscapeEnds
    <3>2. heard[offset] = escape BY <1>4, <3>1 DEF Collected
    <3>3. heard[offset + 1] =
             IF Final(b) \/ Len(escape) + 1 = MaxEsc THEN <<>> ELSE Append(escape, b)
      BY <1>2, <1>3, <3>1, <3>2 DEF Hear
    <3>4. CASE EscapeGoesOn
      <4>1. /\ ~Final(b) /\ offset' = offset + 1
            /\ escape' = IF Len(Append(escape, b)) >= MaxEsc THEN <<>> ELSE Append(escape, b)
        BY <3>4 DEF EscapeGoesOn, TakeEscapeByte, b
      <4>2. Len(Append(escape, b)) = Len(escape) + 1 /\ Len(escape) \in Nat /\ MaxEsc \in Nat
        BY <1>2, TerminalAssumption
      <4>3. Len(Append(escape, b)) >= MaxEsc <=> Len(escape) + 1 = MaxEsc BY <1>2, <4>2
      <4>4. escape' = heard[offset + 1] BY <3>3, <4>1, <4>3
      <4>. QED BY <4>1, <4>4 DEF Collected
    <3>5. CASE EscapeEnds
      <4>1. Final(b) /\ escape' = <<>> /\ offset' = offset + 1
        BY <3>5 DEF EscapeEnds, TakeEscapeByte, b
      <4>. QED BY <3>3, <4>1 DEF Collected
    <3>. QED BY <2>4, <3>4, <3>5
  <2>. QED BY <2>1, <2>2, <2>3, <2>4
<1>. QED BY <1>1, <1>6 DEF EscapeInv, heard

(* A byte of text, and where text begins and ends                          *)
LEMMA TextIsNoEscape ==
    ASSUME TermInv, EscapeInv,
           TextBegins \/ Advance \/ TextMeetsEscape \/ NewLine \/ GiveUp \/ TextEnds
    PROVE  EscapeInv'
<1>. DEFINE heard == HeardIn(escapeBefore, chars)
<1>1. UNCHANGED <<escapeBefore, chars, escape>>
  BY DEF TextBegins, Advance, TextMeetsEscape, NewLine, GiveUp, TextEnds
<1>2. /\ escapeBefore \in Seq(Byte) /\ chars \in Seq(Byte) /\ Len(chars) \in Nat
      /\ offset \in Nat /\ i \in Nat /\ i <= Len(chars)
  <2>1. offset \in Nat /\ i \in Nat /\ i <= Len0 /\ Len0 \in Nat BY TermFacts
  <2>. QED BY <2>1 DEF TermInv, TermTypeOK, Len0
<1>. HIDE DEF heard
<1>3. CASE TextBegins
  <2>1. /\ at = "outer" /\ at' = "text" /\ i' = offset /\ offset' = offset
        /\ escape = <<>> /\ chars[offset + 1] # Esc /\ offset < Len(chars)
    BY <1>3 DEF TextBegins, Outer, At, Len0
  <2>2. Collected(escape, offset, heard, chars) BY <2>1 DEF EscapeInv, heard
  <2>3. NoneCollected(offset, offset, heard, chars) BY <1>2, <2>1, <2>2 DEF Collected, NoneCollected
  <2>. QED BY <1>1, <2>1, <2>3 DEF EscapeInv, heard
<1>4. CASE Advance \/ NewLine
  <2>1. /\ at = "text" /\ at' = "text" /\ i' = i + 1 /\ offset' = offset
        /\ i < Len(chars) /\ chars[i + 1] # Esc
    BY <1>4 DEF Advance, NewLine, Text, Breaks, GoesOn, At, Len0
  <2>2. escape = <<>> /\ NoneCollected(offset, i, heard, chars) BY <2>1 DEF EscapeInv, heard
  <2>3. heard[i + 1] = Hear(heard[i], chars[i + 1])
    <3>1. i \in 0 .. Len(chars) - 1 BY <1>2, <2>1
    <3>. QED BY <1>2, <3>1, HeardGoesOn DEF heard
  <2>4. heard[i + 1] = <<>>
    <3>1. heard[i] = <<>> \/ (heard[i] = <<Esc>> /\ chars[i + 1] # 91) BY <2>2 DEF NoneCollected
    <3>2. heard[i] = <<>> \/ heard[i] = <<Esc>> BY <3>1
    <3>3. ~(heard[i] = <<Esc>> /\ chars[i + 1] = 91)
      <4>1. <<>> # <<Esc>> OBVIOUS
      <4>. QED BY <3>1, <4>1
    <3>4. Hear(heard[i], chars[i + 1]) = <<>> BY <2>1, <3>2, <3>3, HearOutside
    <3>. QED BY <2>3, <3>4
  <2>5. NoneCollected(offset, i + 1, heard, chars) BY <1>2, <2>2, <2>4 DEF NoneCollected
  <2>. QED BY <1>1, <2>1, <2>2, <2>5 DEF EscapeInv, heard
<1>5. CASE TextMeetsEscape \/ TextEnds
  <2>1. /\ at = "text" /\ at' = "outer" /\ offset' = i /\ (TextEnds => i >= Len(chars))
        /\ (TextMeetsEscape => i < Len(chars))
    BY <1>5 DEF TextMeetsEscape, TextEnds, Text, Len0
  <2>2. escape = <<>> /\ NoneCollected(offset, i, heard, chars) BY <2>1 DEF EscapeInv, heard
  <2>3. Collected(escape, i, heard, chars) BY <1>2, <1>5, <2>1, <2>2 DEF NoneCollected, Collected
  <2>. QED BY <1>1, <2>1, <2>3 DEF EscapeInv, heard
<1>6. CASE GiveUp
  <2>1. at' = "return" BY <1>6 DEF GiveUp
  <2>. QED BY <2>1 DEF EscapeInv
<1>. QED BY <1>3, <1>4, <1>5, <1>6

LEMMA StepsKeepEscapes == TermInv /\ EscapeInv /\ [Next]_vars => EscapeInv'
<1>. SUFFICES ASSUME TermInv, EscapeInv, [Next]_vars PROVE EscapeInv' OBVIOUS
<1>1. CASE Begin
  <2>1. at' = "outer" /\ offset' = 0 /\ escapeBefore' = escape /\ chars' = chars /\ escape' = escape
    BY <1>1 DEF Begin
  <2>2. escape \in Seq(Byte) /\ chars \in Seq(Byte) BY DEF TermInv, TermTypeOK
  <2>3. HeardIn(escape, chars)[0] = escape BY <2>2, HeardGoesOn
  <2>. QED BY <2>1, <2>3 DEF EscapeInv, Collected
<1>2. CASE Finish
  <2>1. at' = "idle" BY <1>2 DEF Finish
  <2>. QED BY <2>1 DEF EscapeInv
<1>3. CASE TW_PrintTerminal
  BY <1>1, <1>2, <1>3, EscapesAreHeard, TextIsNoEscape DEF TW_PrintTerminal
<1>4. CASE UNCHANGED vars
  <2>1. UNCHANGED <<at, escape, offset, escapeBefore, chars, i>>
    BY <1>4 DEF vars, printf, termVars, loop
  <2>. QED BY <2>1 DEF EscapeInv
<1>5. ASSUME ~transferring, at' = at PROVE EscapeInv'
  <2>1. at' \in {"idle", "astray"} BY <1>5 DEF TermInv
  <2>. QED BY <2>1 DEF EscapeInv
<1>6. ASSUME NEW s \in Formats, NEW l \in Limits, TW_Printf(s, l) PROVE EscapeInv'
  BY <1>5, <1>6 DEF TW_Printf, CallFormat, NewFrames
<1>7. ASSUME NEW bytes \in Writes, Write(bytes) PROVE EscapeInv'
  BY <1>5, <1>7 DEF Write, Transfer, NewFrames
<1>8. CASE TW_FormatStringV /\ UNCHANGED termVars
  BY <1>5, <1>8 DEF TW_FormatStringV, termVars
<1>9. CASE GoAstray
  <2>1. at' = "astray" BY <1>9 DEF GoAstray
  <2>. QED BY <2>1 DEF EscapeInv
<1>. QED BY <1>3, <1>4, <1>6, <1>7, <1>8, <1>9 DEF Next, Step

(* The inductive invariant of the escape buffer: wherever TW_PrintTerminal *)
(* is in a call, it has collected what was heard up to there.              *)
THEOREM EscapeIsInvariant == Spec => []EscapeInv
<1>1. Init => EscapeInv BY DEF Init, TermInit, EscapeInv
<1>. QED BY <1>1, TermIsInvariant, StepsKeepEscapes, PTL DEF Spec

(* However sequences are cut into calls, of any bytes and any lengths, the *)
(* terminal has collected what a terminal that hears one byte at a time    *)
(* has.                                                                    *)
THEOREM EscapesAreCollected == Spec => []EscapesFollowBytes
<1>1. EscapeInv => EscapesFollowBytes
  <2>. SUFFICES ASSUME EscapeInv, at = "outer"
                PROVE  \/ escape = Heard(offset)
                       \/ /\ escape = <<>> /\ Heard(offset) = <<Esc>>
                          /\ offset < Len0 /\ At(offset) # 91
    BY DEF EscapesFollowBytes
  <2>1. Heard(offset) = HeardIn(escapeBefore, chars)[offset] BY Zenon DEF Heard, HeardIn
  <2>2. Collected(escape, offset, HeardIn(escapeBefore, chars), chars) BY DEF EscapeInv
  <2>. QED BY <2>1, <2>2 DEF Collected, Len0, At
<1>. QED BY <1>1, EscapeIsInvariant, PTL

-----------------------------------------------------------------------------
(* Terminal: the spans                                                     *)

TextAt(k, heard, bytes) ==
    /\ Len(heard[k]) <= 1
    /\ bytes[k + 1] \notin {Esc, Return, Newline}
    /\ ~(heard[k] = <<Esc>> /\ bytes[k + 1] = 91)

(* The spans are the text among the first n bytes, but for the last byte.  *)
Covers(spans, n, heard, bytes) ==
    /\ \A k \in Int :
          (\E s \in spans : k \in s.from .. s.to)
          <=> (k \in 0 .. n - 1 /\ k # Len(bytes) - 1 /\ TextAt(k, heard, bytes))
    /\ \A s, t \in spans : s # t => (s.from .. s.to) \cap (t.from .. t.to) = {}

LEMMA NothingIsCovered ==
    ASSUME NEW heard, NEW bytes
    PROVE  Covers({}, 0, heard, bytes)
BY DEF Covers

LEMMA NoTextIsCovered ==
    ASSUME NEW spans, NEW n \in Nat, NEW heard, NEW bytes,
           Covers(spans, n, heard, bytes),
           ~TextAt(n, heard, bytes) \/ n = Len(bytes) - 1
    PROVE  Covers(spans, n + 1, heard, bytes)
<1>1. \A k \in Int : k \in 0 .. n + 1 - 1 <=> k \in 0 .. n - 1 \/ k = n OBVIOUS
<1>. QED BY <1>1 DEF Covers

LEMMA SpanIsCovered ==
    ASSUME NEW spans, NEW n \in Nat, NEW m \in Nat, NEW heard, NEW bytes, Len(bytes) \in Nat,
           \A s \in spans : s.from \in Int /\ s.to \in Int,
           Covers(spans, n, heard, bytes), n < m, m < Len(bytes),
           \A k \in n .. m - 1 : TextAt(k, heard, bytes),
           NEW span, span.from = n, span.to = m - 1
    PROVE  Covers(spans \cup {span}, m, heard, bytes)
<1>. DEFINE new == spans \cup {span}
<1>1. ASSUME NEW k \in Int
      PROVE  (\E s \in new : k \in s.from .. s.to)
             <=> (k \in 0 .. m - 1 /\ k # Len(bytes) - 1 /\ TextAt(k, heard, bytes))
  <2>1. (\E s \in new : k \in s.from .. s.to)
        <=> (\E s \in spans : k \in s.from .. s.to) \/ k \in n .. m - 1
    OBVIOUS
  <2>2. (\E s \in spans : k \in s.from .. s.to)
        <=> (k \in 0 .. n - 1 /\ k # Len(bytes) - 1 /\ TextAt(k, heard, bytes))
    BY DEF Covers
  <2>3. k \in 0 .. m - 1 <=> k \in 0 .. n - 1 \/ k \in n .. m - 1 OBVIOUS
  <2>4. k \in n .. m - 1 => k # Len(bytes) - 1 /\ TextAt(k, heard, bytes) OBVIOUS
  <2>. HIDE DEF new
  <2>. QED BY <2>1, <2>2, <2>3, <2>4
<1>2. ASSUME NEW s \in spans PROVE (s.from .. s.to) \cap (n .. m - 1) = {}
  <2>1. ASSUME NEW k \in Int, k \in s.from .. s.to PROVE k \in 0 .. n - 1
    BY <2>1 DEF Covers
  <2>2. s.from \in Int /\ s.to \in Int OBVIOUS
  <2>3. \A k \in s.from .. s.to : k \in 0 .. n - 1 BY <2>1, <2>2
  <2>. QED BY <2>3
<1>3. ASSUME NEW s \in new, NEW t \in new, s # t
      PROVE  (s.from .. s.to) \cap (t.from .. t.to) = {}
  <2>1. CASE s \in spans /\ t \in spans BY <1>3, <2>1 DEF Covers
  <2>2. CASE s = span /\ t \in spans
    <3>1. (t.from .. t.to) \cap (n .. m - 1) = {} BY <1>2, <2>2
    <3>. QED BY <2>2, <3>1
  <2>3. CASE t = span /\ s \in spans
    <3>1. (s.from .. s.to) \cap (n .. m - 1) = {} BY <1>2, <2>3
    <3>. QED BY <2>3, <3>1
  <2>. QED BY <1>3, <2>1, <2>2, <2>3
<1>. HIDE DEF new
<1>4. Covers(new, m, heard, bytes) BY <1>1, <1>3 DEF Covers
<1>. QED BY <1>4 DEF new

DrawnInv ==
    /\ at = "outer" => Covers(drawn, offset, HeardIn(escapeBefore, chars), chars)
    /\ at = "text" =>
         /\ Covers(drawn, home, HeardIn(escapeBefore, chars), chars)
         /\ \A k \in home .. i - 1 : TextAt(k, HeardIn(escapeBefore, chars), chars)
         /\ i = Len(chars) => home >= Len(chars) - 1

LEMMA EscapesAreNotDrawn ==
    ASSUME TermInv, EscapeInv, DrawnInv,
           EscapeBegins \/ EscapeOpens \/ EscapeIsNone \/ EscapeGoesOn \/ EscapeEnds
    PROVE  DrawnInv'
<1>. DEFINE heard == HeardIn(escapeBefore, chars)
<1>1. /\ at = "outer" /\ at' = "outer" /\ offset \in Nat
      /\ UNCHANGED <<escapeBefore, chars, drawn>>
  BY TermFacts DEF EscapeBegins, EscapeOpens, EscapeIsNone, EscapeGoesOn, EscapeEnds, Outer,
     TakeEscapeByte
<1>2. Collected(escape, offset, heard, chars) /\ Covers(drawn, offset, heard, chars)
  BY <1>1 DEF EscapeInv, DrawnInv
<1>. HIDE DEF heard
<1>3. CASE EscapeIsNone
  <2>1. offset' = offset BY <1>3 DEF EscapeIsNone
  <2>. QED BY <1>1, <1>2, <2>1 DEF DrawnInv, heard
<1>4. CASE EscapeBegins \/ EscapeOpens \/ EscapeGoesOn \/ EscapeEnds
  <2>1. offset' = offset + 1
    BY <1>4 DEF EscapeBegins, EscapeOpens, EscapeGoesOn, EscapeEnds, TakeEscapeByte
  <2>2. ~TextAt(offset, heard, chars)
    <3>1. CASE EscapeBegins
      <4>1. chars[offset + 1] = Esc BY <3>1 DEF EscapeBegins, At
      <4>. QED BY <4>1 DEF TextAt
    <3>2. CASE EscapeOpens
      <4>1. chars[offset + 1] = 91 /\ escape = <<Esc>> BY <3>2 DEF EscapeOpens, At
      <4>2. heard[offset] = <<Esc>> BY <1>2, <4>1 DEF Collected
      <4>. QED BY <4>1, <4>2 DEF TextAt
    <3>3. CASE EscapeGoesOn \/ EscapeEnds
      <4>1. Len(escape) >= 2 BY <3>3 DEF EscapeGoesOn, EscapeEnds
      <4>2. heard[offset] = escape BY <1>2, <4>1 DEF Collected
      <4>3. Len(escape) \in Nat BY DEF TermInv, TermTypeOK
      <4>. QED BY <4>1, <4>2, <4>3 DEF TextAt
    <3>. QED BY <1>4, <3>1, <3>2, <3>3
  <2>3. Covers(drawn, offset + 1, heard, chars) BY <1>1, <1>2, <2>2, NoTextIsCovered
  <2>. QED BY <1>1, <2>1, <2>3 DEF DrawnInv, heard
<1>. QED BY <1>3, <1>4

(* Drawing at byte k: the text up to there is drawn.                       *)
LEMMA DrawingCovers ==
    ASSUME TermInv, DrawnInv, at = "text", i < Len(chars), Draw
    PROVE  Covers(drawn', i, HeardIn(escapeBefore, chars), chars)
<1>. DEFINE heard == HeardIn(escapeBefore, chars)
<1>1. /\ Covers(drawn, home, heard, chars)
      /\ \A k \in home .. i - 1 : TextAt(k, heard, chars)
  BY DEF DrawnInv
<1>2. home \in Nat /\ i \in Nat /\ home <= i /\ Len(chars) \in Nat BY TermFacts DEF Len0
<1>3. \A s \in drawn : s.from \in Int /\ s.to \in Int
  <2>1. drawn \subseteq Span BY DEF TermInv, TermTypeOK
  <2>. QED BY <2>1 DEF Span
<1>. HIDE DEF heard
<1>4. CASE i > home
  <2>. DEFINE span == [from |-> home, to |-> i - 1, row |-> line % Rows,
                       column |-> homeCol, shown |-> Shown(homeCol, i - home)]
  <2>1. drawn' = drawn \cup {span} BY <1>4 DEF Draw
  <2>2. span.from = home /\ span.to = i - 1 OBVIOUS
  <2>. HIDE DEF span
  <2>3. Covers(drawn \cup {span}, i, heard, chars) BY <1>1, <1>2, <1>3, <1>4, <2>2, SpanIsCovered
  <2>. QED BY <2>1, <2>3 DEF heard
<1>5. CASE i = home
  <2>1. drawn' = drawn BY <1>2, <1>5 DEF Draw
  <2>. QED BY <1>1, <1>5, <2>1 DEF heard
<1>. QED BY <1>2, <1>4, <1>5

(* What is not ESC and no new line is text where no sequence is collected. *)
LEMMA TextGoesOn ==
    ASSUME EscapeInv, at = "text", At(i) \notin {Esc, Return, Newline}
    PROVE  TextAt(i, HeardIn(escapeBefore, chars), chars)
<1>. DEFINE heard == HeardIn(escapeBefore, chars)
<1>1. NoneCollected(offset, i, heard, chars) BY DEF EscapeInv
<1>. HIDE DEF heard
<1>2. \/ heard[i] = <<>>
      \/ heard[i] = <<Esc>> /\ chars[i + 1] # 91
  BY <1>1 DEF NoneCollected
<1>3. <<>> # <<Esc>> OBVIOUS
<1>4. Len(heard[i]) <= 1
  <2>1. CASE heard[i] = <<>>
    <3>1. Len(heard[i]) = 0 BY <2>1
    <3>. QED BY <3>1
  <2>2. CASE heard[i] = <<Esc>>
    <3>1. Len(heard[i]) = 1 BY <2>2
    <3>. QED BY <3>1
  <2>. QED BY <1>2, <2>1, <2>2
<1>. QED BY <1>2, <1>3, <1>4 DEF TextAt, At, heard

LEMMA TextIsDrawn ==
    ASSUME TermInv, EscapeInv, DrawnInv,
           TextBegins \/ Advance \/ TextMeetsEscape \/ NewLine \/ GiveUp \/ TextEnds
    PROVE  DrawnInv'
<1>. DEFINE heard == HeardIn(escapeBefore, chars)
<1>1. UNCHANGED <<escapeBefore, chars>>
  BY DEF TextBegins, Advance, TextMeetsEscape, NewLine, GiveUp, TextEnds
<1>2. /\ home \in Nat /\ i \in Nat /\ home <= i /\ i <= Len(chars) /\ Len(chars) \in Nat
      /\ offset \in Nat
  BY TermFacts DEF Len0
<1>3. at = "text" =>
         /\ Covers(drawn, home, heard, chars)
         /\ \A k \in home .. i - 1 : TextAt(k, heard, chars)
         /\ i = Len(chars) => home >= Len(chars) - 1
  BY DEF DrawnInv
<1>4. at = "text" /\ At(i) \notin {Esc, Return, Newline} => TextAt(i, heard, chars)
  BY TextGoesOn
<1>5. at = "text" /\ i < Len(chars) /\ Draw => Covers(drawn', i, heard, chars)
  BY DrawingCovers
<1>. HIDE DEF heard, Draw
<1>6. CASE TextBegins
  <2>1. /\ at = "outer" /\ at' = "text" /\ home' = offset /\ i' = offset /\ drawn' = drawn
        /\ offset < Len(chars)
    BY <1>6 DEF TextBegins, Outer, Len0
  <2>2. Covers(drawn, offset, heard, chars) BY <2>1 DEF DrawnInv, heard
  <2>3. \A k \in offset .. offset - 1 : TextAt(k, heard, chars) BY <1>2
  <2>. QED BY <1>1, <1>2, <2>1, <2>2, <2>3 DEF DrawnInv, heard
<1>7. CASE Advance
  <2>1. /\ at = "text" /\ at' = "text" /\ home' = home /\ i' = i + 1 /\ drawn' = drawn
        /\ i < Len(chars) - 1 /\ At(i) \notin {Esc, Return, Newline}
    BY <1>7 DEF Advance, Text, GoesOn, Len0
  <2>2. \A k \in home .. i + 1 - 1 : TextAt(k, heard, chars) BY <1>2, <1>3, <1>4, <2>1
  <2>. QED BY <1>1, <1>2, <1>3, <2>1, <2>2 DEF DrawnInv, heard
<1>8. CASE TextMeetsEscape
  <2>1. at = "text" /\ at' = "outer" /\ offset' = i /\ i < Len(chars) /\ Draw
    BY <1>8 DEF TextMeetsEscape, Text, Len0
  <2>. QED BY <1>1, <1>5, <2>1 DEF DrawnInv, heard
<1>9. CASE NewLine
  <2>1. /\ at = "text" /\ at' = "text" /\ i' = i + 1 /\ i < Len(chars) /\ Draw /\ At(i) # Esc
        /\ home' = IF At(i) \in {Return, Newline} THEN i + 1 ELSE i
    BY <1>9 DEF NewLine, Breaks, Text, Len0
  <2>2. Covers(drawn', i, heard, chars) BY <1>5, <2>1
  <2>3. CASE At(i) \in {Return, Newline}
    <3>1. ~TextAt(i, heard, chars) BY <2>3 DEF TextAt, At
    <3>2. Covers(drawn', i + 1, heard, chars) BY <1>2, <2>2, <3>1, NoTextIsCovered
    <3>3. home' = i + 1 BY <2>1, <2>3
    <3>4. \A k \in i + 1 .. i + 1 - 1 : TextAt(k, heard, chars) BY <1>2
    <3>. QED BY <1>1, <1>2, <2>1, <3>2, <3>3, <3>4 DEF DrawnInv, heard
  <2>4. CASE At(i) \notin {Return, Newline}
    <3>1. TextAt(i, heard, chars) BY <1>4, <2>1, <2>4
    <3>2. home' = i BY <2>1, <2>4
    <3>3. \A k \in i .. i + 1 - 1 : TextAt(k, heard, chars) BY <1>2, <3>1
    <3>. QED BY <1>1, <1>2, <2>1, <2>2, <3>2, <3>3 DEF DrawnInv, heard
  <2>. QED BY <2>3, <2>4
<1>10. CASE GiveUp
  <2>1. at' = "return" BY <1>10 DEF GiveUp
  <2>. QED BY <2>1 DEF DrawnInv
<1>11. CASE TextEnds
  <2>1. at = "text" /\ at' = "outer" /\ offset' = i /\ i >= Len(chars) /\ drawn' = drawn
    BY <1>11 DEF TextEnds, Len0
  <2>2. i = Len(chars) /\ (home = i \/ home + 1 = i) BY <1>2, <1>3, <2>1
  <2>3. Covers(drawn, i, heard, chars)
    <3>1. CASE home = i BY <1>3, <2>1, <3>1
    <3>2. CASE home + 1 = i
      <4>1. home = Len(chars) - 1 BY <1>2, <2>2, <3>2
      <4>2. Covers(drawn, home + 1, heard, chars) BY <1>2, <1>3, <2>1, <4>1, NoTextIsCovered
      <4>. QED BY <3>2, <4>2
    <3>. QED BY <2>2, <3>1, <3>2
  <2>. QED BY <1>1, <2>1, <2>3 DEF DrawnInv, heard
<1>. QED BY <1>6, <1>7, <1>8, <1>9, <1>10, <1>11

LEMMA StepsKeepDrawn == TermInv /\ EscapeInv /\ DrawnInv /\ [Next]_vars => DrawnInv'
<1>. SUFFICES ASSUME TermInv, EscapeInv, DrawnInv, [Next]_vars PROVE DrawnInv' OBVIOUS
<1>1. CASE Begin
  <2>1. at' = "outer" /\ offset' = 0 /\ drawn' = {} BY <1>1 DEF Begin
  <2>2. Covers({}, 0, HeardIn(escapeBefore', chars'), chars') BY NothingIsCovered
  <2>. QED BY <2>1, <2>2 DEF DrawnInv
<1>2. CASE Finish
  <2>1. at' = "idle" BY <1>2 DEF Finish
  <2>. QED BY <2>1 DEF DrawnInv
<1>3. CASE TW_PrintTerminal
  BY <1>1, <1>2, <1>3, EscapesAreNotDrawn, TextIsDrawn DEF TW_PrintTerminal
<1>4. CASE UNCHANGED vars
  <2>1. UNCHANGED <<at, offset, escapeBefore, chars, home, i, drawn>>
    BY <1>4 DEF vars, printf, termVars, loop
  <2>. QED BY <2>1 DEF DrawnInv
<1>5. ASSUME ~transferring, at' = at PROVE DrawnInv'
  <2>1. at' \in {"idle", "astray"} BY <1>5 DEF TermInv
  <2>. QED BY <2>1 DEF DrawnInv
<1>6. ASSUME NEW s \in Formats, NEW l \in Limits, TW_Printf(s, l) PROVE DrawnInv'
  BY <1>5, <1>6 DEF TW_Printf, CallFormat, NewFrames
<1>7. ASSUME NEW bytes \in Writes, Write(bytes) PROVE DrawnInv'
  BY <1>5, <1>7 DEF Write, Transfer, NewFrames
<1>8. CASE TW_FormatStringV /\ UNCHANGED termVars
  BY <1>5, <1>8 DEF TW_FormatStringV, termVars
<1>9. CASE GoAstray
  <2>1. at' = "astray" BY <1>9 DEF GoAstray
  <2>. QED BY <2>1 DEF DrawnInv
<1>. QED BY <1>3, <1>4, <1>6, <1>7, <1>8, <1>9 DEF Next, Step

(* The inductive invariant of drawing: wherever TW_PrintTerminal is in a   *)
(* call, its spans cover the text behind it, once.                         *)
THEOREM DrawnIsInvariant == Spec => []DrawnInv
<1>1. Init => DrawnInv BY DEF Init, TermInit, DrawnInv
<1>. QED BY <1>1, TermIsInvariant, EscapeIsInvariant, StepsKeepDrawn, PTL DEF Spec

(* Of any bytes, in calls of any lengths: TW_PrintTerminal gives each byte *)
(* of text to TW_DrawAsciiSpan once, except for the last byte of a call,   *)
(* which it never does; and what is given is on the screen if its cell is. *)
THEOREM OneByteIsPassedOver == Spec => []OnlyTheLastIsPassedOver
<1>1. TermInv /\ DrawnInv => OnlyTheLastIsPassedOver
  <2>. SUFFICES ASSUME TermInv, DrawnInv, at = "outer"
                PROVE  /\ UNION {(s.from .. s.to) : s \in drawn} =
                              {k \in 0 .. offset - 1 : IsText(k)} \ {Len0 - 1}
                       /\ \A s, t \in drawn : s # t => (s.from .. s.to) \cap (t.from .. t.to) = {}
                       /\ \A s \in drawn : \A k \in s.from .. s.to :
                              k < s.from + s.shown <=> Cell(s.column) + k - s.from < Cols
    BY DEF OnlyTheLastIsPassedOver
  <2>. DEFINE heard == HeardIn(escapeBefore, chars)
  <2>1. Covers(drawn, offset, heard, chars) BY DEF DrawnInv
  <2>2. drawn \subseteq Span BY DEF TermInv, TermTypeOK
  <2>3. ASSUME NEW k PROVE IsText(k) <=> TextAt(k, heard, chars)
    <3>1. Heard(k) = heard[k] BY HeardIsCourse
    <3>. HIDE DEF heard
    <3>. QED BY <3>1 DEF IsText, TextAt, At
  <2>. HIDE DEF heard
  <2>4. UNION {(s.from .. s.to) : s \in drawn} \subseteq Int BY <2>2 DEF Span
  <2>5. \A k \in Int : (\E s \in drawn : k \in s.from .. s.to)
                       <=> (k \in 0 .. offset - 1 /\ k # Len0 - 1 /\ IsText(k))
    BY <2>1, <2>3 DEF Covers, Len0
  <2>6. \A k \in Int : k \in UNION {(s.from .. s.to) : s \in drawn}
                       <=> k \in {x \in 0 .. offset - 1 : IsText(x)} \ {Len0 - 1}
    BY <2>5
  <2>7. {x \in 0 .. offset - 1 : IsText(x)} \ {Len0 - 1} \subseteq Int BY TermFacts
  <2>8. UNION {(s.from .. s.to) : s \in drawn} = {k \in 0 .. offset - 1 : IsText(k)} \ {Len0 - 1}
    BY <2>4, <2>6, <2>7
  <2>9. ASSUME NEW s \in drawn, NEW k \in s.from .. s.to
        PROVE  k < s.from + s.shown <=> Cell(s.column) + k - s.from < Cols
    <3>1. s.from \in Nat /\ s.to \in Nat /\ s.column \in Nat BY <2>2 DEF Span
    <3>2. s.shown = Shown(s.column, s.to + 1 - s.from) BY DEF TermInv, SpansFit, Fits
    <3>. QED BY <3>1, <3>2, TerminalAssumption DEF Shown, Cell
  <2>. QED BY <2>1, <2>8, <2>9 DEF Covers
<1>. QED BY <1>1, TermIsInvariant, DrawnIsInvariant, PTL
=============================================================================
