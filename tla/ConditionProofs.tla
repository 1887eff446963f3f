--------------------------- MODULE ConditionProofs ---------------------------
(***************************************************************************)
(* Theorems about Condition, for expressions of any size over any columns: *)
(* what the overloads of condition.h build is a query that SQL's grammar   *)
(* reads as the expression it was built from.                              *)
(*                                                                         *)
(* The grammar is a recursive function.  That a function with its equation *)
(* exists is proved first; the rest uses the equation only.  Induction is  *)
(* over steps, with the invariant that each query on the stack is balanced *)
(* and means what it says, so the operators are proved one at a time.      *)
(***************************************************************************)
EXTENDS Condition, SequenceTheorems, FiniteSetTheorems, WellFoundedInduction, TLAPS

-----------------------------------------------------------------------------
(* Numbers                                                                  *)

(* Induction on numbers is by a smallest counterexample.                    *)
LEMMA LeastElement ==
  ASSUME NEW T \in SUBSET Nat, T # {}
  PROVE  \E x \in T : \A y \in T : x <= y
<1> DEFINE R == OpToRel(<, Nat)
<1>1. IsWellFoundedOn(R, Nat)
  BY NatLessThanWellFounded
<1>2. \A x, y \in Nat : y < x => <<y, x>> \in R
  BY DEF OpToRel
<1> HIDE DEF R
<1>3. \E x \in T : \A y \in T : ~ (<<y, x>> \in R)
  BY <1>1, WFMin, Zenon
<1>4. PICK x \in T : \A y \in T : ~ (<<y, x>> \in R)
  BY <1>3
<1>5. \A y \in T : x <= y
  <2> TAKE y \in T
  <2>1. x \in Nat /\ y \in Nat
    OBVIOUS
  <2>2. ~(y < x)
    BY <1>2, <1>4, <2>1
  <2> QED BY <2>1, <2>2
<1> QED BY <1>5

LEMMA GreatestElement ==
  ASSUME NEW b \in Nat, NEW T \in SUBSET (1 .. b), T # {}
  PROVE  Max(T) \in T /\ \A y \in T : Max(T) >= y
<1> DEFINE D == {b - x : x \in T}
<1>1. D \in SUBSET Nat
  <2>1. \A x \in T : b - x \in Nat
    OBVIOUS
  <2> QED BY <2>1
<1>2. D # {}
  OBVIOUS
<1>3. PICK d \in D : \A e \in D : d <= e
  BY <1>1, <1>2, LeastElement
<1>4. PICK x \in T : d = b - x
  OBVIOUS
<1>5. \A y \in T : x >= y
  <2> TAKE y \in T
  <2>1. b - y \in D
    OBVIOUS
  <2>2. b - x <= b - y
    BY <1>3, <1>4, <2>1
  <2>3. x \in Int /\ y \in Int
    OBVIOUS
  <2> QED BY <2>2, <2>3
<1> QED BY <1>5 DEF Max

LEMMA LesserOfTwo ==
  ASSUME NEW m \in Nat, NEW n \in Nat
  PROVE  Min({m, n}) = IF m <= n THEN m ELSE n
<1> DEFINE k == IF m <= n THEN m ELSE n
<1>1. k \in {m, n} /\ \A y \in {m, n} : k <= y
  OBVIOUS
<1>2. \A x \in {m, n} : (\A y \in {m, n} : x <= y) => x = k
  OBVIOUS
<1> QED BY <1>1, <1>2 DEF Min

-----------------------------------------------------------------------------
(* Parsed has the equation that defines it                                  *)

Sentences == Seq(Token) \X Seq(Nat)

LEMMA CountedFinite ==
  ASSUME NEW q, NEW t, NEW i \in Nat
  PROVE  IsFiniteSet({j \in 1 .. i : q[j] = t})
<1> DEFINE S == {j \in 1 .. i : q[j] = t}
<1>1. IsFiniteSet(1 .. i) /\ S \subseteq 1 .. i
  BY FS_Interval
<1> QED BY <1>1, FS_Subset

LEMMA CountedIsNat ==
  ASSUME NEW q, NEW t, NEW i \in Nat
  PROVE  Counted(q, t, i) \in Nat
BY CountedFinite, FS_CardinalityType DEF Counted

LEMMA MarksIsNat ==
  ASSUME NEW q \in Seq(Token)
  PROVE  Marks(q) \in Nat
BY CountedIsNat DEF Marks

LEMMA LastOutside ==
  ASSUME NEW q \in Seq(Token), NEW op, Outside(q, op) # {}
  PROVE  /\ Max(Outside(q, op)) \in Outside(q, op)
         /\ Max(Outside(q, op)) \in 1 .. Len(q)
<1>1. Outside(q, op) \in SUBSET (1 .. Len(q))
  BY DEF Outside
<1> DEFINE T == Outside(q, op)
<1>2. Len(q) \in Nat /\ T \in SUBSET (1 .. Len(q)) /\ T # {}
  BY <1>1
<1> HIDE DEF T
<1>3. Max(T) \in T /\ Max(T) \in 1 .. Len(q)
  BY <1>2, GreatestElement
<1> QED BY <1>3 DEF T

(* The parts that a query is split into are shorter than it.                *)
LEMMA SplitLooksAtShorter ==
  ASSUME NEW q \in Seq(Token), NEW ps \in Seq(Nat), NEW op, Outside(q, op) # {},
         NEW f, NEW g,
         \A x \in Sentences : Len(x[1]) < Len(q) => f[x] = g[x]
  PROVE  Split(f, q, ps, op) = Split(g, q, ps, op)
<1> DEFINE i == Max(Outside(q, op))
           l == SubSeq(q, 1, i - 1)
           r == SubSeq(q, i + 1, Len(q))
           n == Min({Marks(l), Len(ps)})
           lps == SubSeq(ps, 1, n)
           rps == SubSeq(ps, n + 1, Len(ps))
<1>1. i \in 1 .. Len(q)
  BY LastOutside
<1>2. l \in Seq(Token) /\ Len(l) < Len(q) /\ r \in Seq(Token) /\ Len(r) < Len(q)
  <2> HIDE DEF i
  <2> QED BY <1>1
<1>3. n \in Nat /\ n <= Len(ps)
  <2> HIDE DEF l
  <2>1. Marks(l) \in Nat /\ Len(ps) \in Nat
    BY <1>2, MarksIsNat
  <2> DEFINE marks == Marks(l)
             len == Len(ps)
  <2> HIDE DEF marks, len
  <2>2. Min({marks, len}) = IF marks <= len THEN marks ELSE len
    BY <2>1, LesserOfTwo DEF marks, len
  <2> QED BY <2>1, <2>2 DEF marks, len
<1>4. lps \in Seq(Nat) /\ rps \in Seq(Nat)
  <2> HIDE DEF n
  <2> QED BY <1>3
<1>5. f[<<l, lps>>] = g[<<l, lps>>] /\ f[<<r, rps>>] = g[<<r, rps>>]
  <2> HIDE DEF l, r, lps, rps
  <2> QED BY <1>2, <1>4 DEF Sentences
<1>6. Split(f, q, ps, op) = Junction(op, f[<<l, lps>>], f[<<r, rps>>])
  BY DEF Split
<1>7. Split(g, q, ps, op) = Junction(op, g[<<l, lps>>], g[<<r, rps>>])
  BY DEF Split
<1> HIDE DEF l, r, lps, rps
<1> QED BY <1>5, <1>6, <1>7

(* Reading applies its argument to queries that are shorter only.           *)
LEMMA ReadingLooksAtShorter ==
  ASSUME NEW s \in Sentences, NEW f, NEW g,
         \A x \in Sentences : Len(x[1]) < Len(s[1]) => f[x] = g[x]
  PROVE  Reading(f, s[1], s[2]) = Reading(g, s[1], s[2])
<1> DEFINE q == s[1]
           ps == s[2]
<1>0. /\ q \in Seq(Token) /\ ps \in Seq(Nat)
      /\ \A x \in Sentences : Len(x[1]) < Len(q) => f[x] = g[x]
  BY DEF Sentences
<1> SUFFICES Reading(f, q, ps) = Reading(g, q, ps)
  OBVIOUS
<1> HIDE DEF q, ps
<1>1. ASSUME NEW op, Outside(q, op) # {}
       PROVE  Split(f, q, ps, op) = Split(g, q, ps, op)
  <2>1. /\ q \in Seq(Token) /\ ps \in Seq(Nat)
        /\ \A x \in Sentences : Len(x[1]) < Len(q) => f[x] = g[x]
    BY <1>0
  <2> QED BY <1>1, <2>1, SplitLooksAtShorter
<1>2. CASE Outside(q, "OR") # {}
  <2>1. Split(f, q, ps, "OR") = Split(g, q, ps, "OR")
    BY <1>2, <1>1
  <2> QED BY <1>2, <2>1 DEF Reading
<1>3. CASE Outside(q, "OR") = {} /\ Outside(q, "AND") # {}
  <2>1. Split(f, q, ps, "AND") = Split(g, q, ps, "AND")
    BY <1>3, <1>1
  <2> QED BY <1>3, <2>1 DEF Reading
<1>4. CASE Outside(q, "OR") = {} /\ Outside(q, "AND") = {}
  <2>1. q # <<>> => /\ Tail(q) \in Seq(Token) /\ Len(Tail(q)) < Len(q)
                    /\ SubSeq(q, 2, Len(q) - 1) \in Seq(Token)
                    /\ Len(SubSeq(q, 2, Len(q) - 1)) < Len(q)
    BY <1>0
  <2>2. q # <<>> => /\ f[<<Tail(q), ps>>] = g[<<Tail(q), ps>>]
                    /\ f[<<SubSeq(q, 2, Len(q) - 1), ps>>]
                         = g[<<SubSeq(q, 2, Len(q) - 1), ps>>]
    BY <1>0, <2>1 DEF Sentences
  <2> QED BY <1>4, <2>2 DEF Reading
<1> QED BY <1>2, <1>3, <1>4

(* g reads every query of up to n tokens as the equation says.              *)
ReadsUpto(g, n) ==
  \A x \in Sentences : Len(x[1]) <= n => g[x] = Reading(g, x[1], x[2])

LEMMA SentenceParts ==
  ASSUME NEW x \in Sentences
  PROVE  x[1] \in Seq(Token) /\ x[2] \in Seq(Nat) /\ Len(x[1]) \in Nat
BY DEF Sentences

LEMMA ReadersExist ==
  ASSUME NEW n \in Nat
  PROVE  \E g : ReadsUpto(g, n)
<1> DEFINE Lacking == {m \in Nat : ~\E g : ReadsUpto(g, m)}
<1> SUFFICES ASSUME Lacking # {} PROVE FALSE
  OBVIOUS
<1>1. PICK m \in Lacking : \A k \in Lacking : m <= k
  BY LeastElement
<1>2. \E g : m # 0 => ReadsUpto(g, m - 1)
  BY <1>1
<1>3. PICK g : m # 0 => ReadsUpto(g, m - 1)
  BY <1>2
<1> DEFINE h == [x \in Sentences |-> Reading(g, x[1], x[2])]
<1>4. ASSUME NEW x \in Sentences, Len(x[1]) <= m
      PROVE  h[x] = Reading(h, x[1], x[2])
  <2>1. ASSUME NEW y \in Sentences, Len(y[1]) < Len(x[1])
        PROVE  h[y] = g[y]
    <3>1. m # 0 /\ Len(y[1]) <= m - 1
      BY <1>4, <2>1, SentenceParts
    <3>2. g[y] = Reading(g, y[1], y[2])
      BY <3>1, <1>3 DEF ReadsUpto
    <3> QED BY <3>2
  <2>2. Reading(h, x[1], x[2]) = Reading(g, x[1], x[2])
    <3> HIDE DEF h
    <3> QED BY <2>1, ReadingLooksAtShorter
  <2> QED BY <2>2
<1>5. ReadsUpto(h, m)
  BY <1>4 DEF ReadsUpto
<1> QED BY <1>1, <1>5

LEMMA ReadersAgree ==
  ASSUME NEW n \in Nat, NEW g, NEW h, ReadsUpto(g, n), ReadsUpto(h, n),
         NEW x \in Sentences, Len(x[1]) <= n
  PROVE  g[x] = h[x]
<1> DEFINE Differ == {m \in Nat : \E y \in Sentences :
                        Len(y[1]) = m /\ m <= n /\ g[y] # h[y]}
<1> SUFFICES ASSUME Differ # {} PROVE FALSE
  BY SentenceParts
<1>1. PICK m \in Differ : \A k \in Differ : m <= k
  BY LeastElement
<1>2. PICK y \in Sentences : Len(y[1]) = m /\ m <= n /\ g[y] # h[y]
  BY <1>1
<1>3. \A z \in Sentences : Len(z[1]) < Len(y[1]) => g[z] = h[z]
  BY <1>1, <1>2, SentenceParts
<1>4. Reading(g, y[1], y[2]) = Reading(h, y[1], y[2])
  BY <1>3, ReadingLooksAtShorter
<1> QED BY <1>2, <1>4 DEF ReadsUpto

LEMMA ParsedEquation ==
  ASSUME NEW q \in Seq(Token), NEW ps \in Seq(Nat)
  PROVE  Parsed[<<q, ps>>] = Reading(Parsed, q, ps)
<1> DEFINE Equation(h) == h = [x \in Sentences |-> Reading(h, x[1], x[2])]
           reader(n) == CHOOSE g : ReadsUpto(g, n)
           h == [x \in Sentences |-> reader(Len(x[1]))[x]]
<1>1. \A n \in Nat : ReadsUpto(reader(n), n)
  BY ReadersExist
<1>2. ASSUME NEW x \in Sentences
      PROVE  h[x] = Reading(h, x[1], x[2])
  <2> DEFINE g == reader(Len(x[1]))
  <2>1. ReadsUpto(g, Len(x[1]))
    BY <1>1, SentenceParts
  <2>2. g[x] = Reading(g, x[1], x[2])
    BY <2>1, SentenceParts DEF ReadsUpto
  <2>3. ASSUME NEW y \in Sentences, Len(y[1]) < Len(x[1])
        PROVE  h[y] = g[y]
    <3>1. ReadsUpto(g, Len(y[1]))
      BY <2>1, <2>3, SentenceParts DEF ReadsUpto
    <3>2. ReadsUpto(reader(Len(y[1])), Len(y[1]))
      BY <1>1, SentenceParts
    <3>3. reader(Len(y[1]))[y] = g[y]
      <4> HIDE DEF g, reader
      <4> QED BY <3>1, <3>2, SentenceParts, ReadersAgree
    <3> QED BY <3>3
  <2>4. Reading(h, x[1], x[2]) = Reading(g, x[1], x[2])
    <3> HIDE DEF h, g
    <3> QED BY <2>3, ReadingLooksAtShorter
  <2> QED BY <2>2, <2>4
<1>3. Equation(h)
  BY <1>2
<1>4. Parsed = CHOOSE f : Equation(f)
  BY DEF Parsed, Sentences
<1> HIDE DEF Equation, h
<1>5. Equation(Parsed)
  BY <1>3, <1>4
<1>6. <<q, ps>> \in Sentences
  BY DEF Sentences
<1> HIDE DEF Parsed
<1> USE DEF Equation
<1> QED BY <1>5, <1>6

(* The expression that SQLite makes of a query with its parameters.         *)
Meaning(q, ps) == Parsed[<<q, ps>>]

LEMMA MeaningEquation ==
  ASSUME NEW q \in Seq(Token), NEW ps \in Seq(Nat)
  PROVE  Meaning(q, ps) = Reading(Parsed, q, ps)
BY ParsedEquation DEF Meaning

-----------------------------------------------------------------------------
(* Question marks and parentheses of a query that is put together           *)

LEMMA ConcatenationTokens ==
  ASSUME NEW p \in Seq(Token), NEW q \in Seq(Token)
  PROVE  /\ p \o q \in Seq(Token)
         /\ Len(p \o q) = Len(p) + Len(q)
         /\ \A i \in 1 .. Len(p) : (p \o q)[i] = p[i]
         /\ \A i \in 1 .. Len(q) : (p \o q)[Len(p) + i] = q[i]
OBVIOUS

LEMMA CountedAppend ==
  ASSUME NEW p \in Seq(Token), NEW q \in Seq(Token), NEW t, NEW i \in 0 .. Len(q)
  PROVE  Counted(p \o q, t, Len(p) + i) = Counted(p, t, Len(p)) + Counted(q, t, i)
<1> DEFINE n == Len(p)
           w == p \o q
           A == {j \in 1 .. n : p[j] = t}
           B == {j \in 1 .. i : q[j] = t}
           C == {j \in (n + 1) .. (n + i) : w[j] = t}
           f == [j \in B |-> n + j]
<1>1. n \in Nat /\ i \in Nat
  OBVIOUS
<1>2. IsFiniteSet(A) /\ IsFiniteSet(B) /\ Cardinality(A) \in Nat
  BY <1>1, CountedFinite, FS_CardinalityType
<1>3. \A j \in 1 .. i : w[n + j] = q[j]
  BY ConcatenationTokens
<1>4. \A j \in 1 .. n : w[j] = p[j]
  BY ConcatenationTokens
<1> HIDE DEF w, n
<1>5. f \in Bijection(B, C)
  <2>1. \A j \in B : n + j \in C
    BY <1>1, <1>3
  <2>2. \A k \in C : k - n \in B /\ n + (k - n) = k
    <3> TAKE k \in C
    <3>1. k - n \in 1 .. i /\ n + (k - n) = k
      BY <1>1
    <3>2. w[n + (k - n)] = q[k - n]
      BY <1>3, <3>1
    <3> QED BY <3>1, <3>2
  <2>3. \A j, k \in B : n + j = n + k => j = k
    BY <1>1
  <2> QED BY <2>1, <2>2, <2>3 DEF Bijection, Injection, Surjection, IsInjective
<1>6. IsFiniteSet(C) /\ Cardinality(C) = Cardinality(B)
  <2>1. ExistsBijection(B, C)
    BY <1>5 DEF ExistsBijection
  <2> HIDE DEF B, C
  <2> QED BY <2>1, <1>2, FS_Bijection
<1>7. {j \in 1 .. n + i : w[j] = t} = A \cup C
  BY <1>1, <1>4
<1>8. A \cap C = {}
  BY <1>1
<1>9. Cardinality(A \cup C) = Cardinality(A) + Cardinality(C)
  <2> HIDE DEF A, C
  <2>1. Cardinality(A \cup C) = Cardinality(A) + Cardinality(C) - Cardinality({})
    BY <1>2, <1>6, <1>8, FS_Union
  <2> QED BY <2>1, <1>2, <1>6, FS_EmptySet, FS_CardinalityType
<1> QED BY <1>6, <1>7, <1>9 DEF Counted, n, w

LEMMA CountedFront ==
  ASSUME NEW p \in Seq(Token), NEW q \in Seq(Token), NEW t, NEW i \in 0 .. Len(p)
  PROVE  Counted(p \o q, t, i) = Counted(p, t, i)
<1>1. {j \in 1 .. i : (p \o q)[j] = t} = {j \in 1 .. i : p[j] = t}
  BY ConcatenationTokens
<1> QED BY <1>1 DEF Counted

LEMMA CountedOne ==
  ASSUME NEW q, NEW t
  PROVE  /\ Counted(q, t, 0) = 0
         /\ Counted(q, t, 1) = IF q[1] = t THEN 1 ELSE 0
<1>1. {j \in 1 .. 0 : q[j] = t} = {}
  OBVIOUS
<1>2. {j \in 1 .. 1 : q[j] = t} = IF q[1] = t THEN {1} ELSE {}
  OBVIOUS
<1> QED BY <1>1, <1>2, FS_EmptySet, FS_Singleton DEF Counted

LEMMA DepthAppend ==
  ASSUME NEW p \in Seq(Token), NEW q \in Seq(Token)
  PROVE  /\ \A i \in 0 .. Len(p) : Depth(p \o q, i) = Depth(p, i)
         /\ \A i \in 0 .. Len(q) :
              Depth(p \o q, Len(p) + i) = Depth(p, Len(p)) + Depth(q, i)
         /\ \A i \in 0 .. Len(p) : Depth(p, i) \in Int
         /\ Marks(p \o q) = Marks(p) + Marks(q)
<1>1. ASSUME NEW i \in 0 .. Len(p) PROVE Depth(p \o q, i) = Depth(p, i)
  BY CountedFront DEF Depth
<1>2. ASSUME NEW i \in 0 .. Len(q)
      PROVE  Depth(p \o q, Len(p) + i) = Depth(p, Len(p)) + Depth(q, i)
  <2> DEFINE n == Len(p)
             w == p \o q
  <2>1. Counted(w, "(", n + i) = Counted(p, "(", n) + Counted(q, "(", i)
    BY CountedAppend
  <2>2. Counted(w, ")", n + i) = Counted(p, ")", n) + Counted(q, ")", i)
    BY CountedAppend
  <2>3. /\ Counted(p, "(", n) \in Nat /\ Counted(q, "(", i) \in Nat
        /\ Counted(p, ")", n) \in Nat /\ Counted(q, ")", i) \in Nat
    BY CountedIsNat
  <2> HIDE DEF n, w
  <2> QED BY <2>1, <2>2, <2>3 DEF Depth, n, w
<1>3. ASSUME NEW i \in 0 .. Len(p) PROVE Depth(p, i) \in Int
  <2>1. Counted(p, "(", i) \in Nat /\ Counted(p, ")", i) \in Nat
    BY CountedIsNat
  <2> QED BY <2>1 DEF Depth
<1>4. Marks(p \o q) = Marks(p) + Marks(q)
  <2>1. Len(q) \in 0 .. Len(q)
    OBVIOUS
  <2>2. Counted(p \o q, "?", Len(p) + Len(q))
          = Counted(p, "?", Len(p)) + Counted(q, "?", Len(q))
    BY <2>1, CountedAppend
  <2> QED BY <2>2, ConcatenationTokens DEF Marks
<1> QED BY <1>1, <1>2, <1>3, <1>4

-----------------------------------------------------------------------------
(* Queries in parentheses                                                   *)

(* The query of a condition: its parentheses match, and a token that comes  *)
(* after it is not part of a BETWEEN of its own.                            *)
Balanced(q) ==
  /\ q \in Seq(Token)
  /\ q # <<>>
  /\ q[Len(q)] # "BETWEEN"
  /\ \A i \in 0 .. Len(q) : Depth(q, i) >= 0
  /\ Depth(q, Len(q)) = 0

(* A query between parentheses that belong together.                        *)
Enclosed(q) ==
  /\ q \in Seq(Token)
  /\ Len(q) > 2
  /\ q[1] = "("
  /\ q[Len(q) - 1] # "BETWEEN"
  /\ q[Len(q)] = ")"
  /\ \A i \in 1 .. Len(q) - 1 : Depth(q, i) >= 1
  /\ Depth(q, Len(q)) = 0

LEMMA OneToken ==
  ASSUME NEW t \in Token
  PROVE  /\ <<t>> \in Seq(Token)
         /\ Len(<<t>>) = 1
         /\ Depth(<<t>>, 0) = 0
         /\ Depth(<<t>>, 1) = IF t = "(" THEN 1 ELSE IF t = ")" THEN -1 ELSE 0
         /\ Marks(<<t>>) = IF t = "?" THEN 1 ELSE 0
BY CountedOne DEF Depth, Marks

LEMMA EnclosedIsBalanced ==
  ASSUME NEW q, Enclosed(q)
  PROVE  Balanced(q)
<1>1. Depth(q, 0) = 0
  BY CountedOne DEF Depth
<1>2. \A i \in 0 .. Len(q) : i = 0 \/ i \in 1 .. Len(q) - 1 \/ i = Len(q)
  BY DEF Enclosed
<1>3. \A i \in 0 .. Len(q) : Depth(q, i) >= 0
  <2> TAKE i \in 0 .. Len(q)
  <2>1. Depth(q, i) = 0 \/ Depth(q, i) >= 1
    BY <1>1, <1>2 DEF Enclosed
  <2>2. Depth(q, i) \in Int
    BY DepthAppend DEF Enclosed
  <2> QED BY <2>1, <2>2
<1> QED BY <1>3 DEF Enclosed, Balanced

LEMMA BalancedInParentheses ==
  ASSUME NEW q, Balanced(q)
  PROVE  LET w == <<"(">> \o q \o <<")">>
         IN  /\ Enclosed(w)
             /\ Marks(w) = Marks(q)
             /\ SubSeq(w, 2, Len(w) - 1) = q
<1> DEFINE o == <<"(">>
           c == <<")">>
           v == o \o q
           w == v \o c
           n == Len(q)
<1>1. /\ "(" \in Token /\ ")" \in Token /\ q \in Seq(Token) /\ n \in Nat \ {0}
      /\ q[n] # "BETWEEN"
  BY DEF Token, Symbols, Balanced
<1>2. /\ o \in Seq(Token) /\ Len(o) = 1 /\ Depth(o, 0) = 0 /\ Depth(o, 1) = 1
      /\ c \in Seq(Token) /\ Len(c) = 1 /\ Depth(c, 0) = 0 /\ Depth(c, 1) = -1
      /\ Marks(o) = 0 /\ Marks(c) = 0
  BY <1>1, OneToken
<1>3. o[1] = "(" /\ c[1] = ")"
  OBVIOUS
<1> HIDE DEF o, c
<1>4. /\ v \in Seq(Token) /\ Len(v) = n + 1
      /\ v[1] = "(" /\ \A i \in 1 .. n : v[i + 1] = q[i]
  <2>1. /\ v \in Seq(Token) /\ Len(v) = Len(o) + Len(q)
        /\ \A i \in 1 .. Len(o) : v[i] = o[i]
        /\ \A i \in 1 .. Len(q) : v[Len(o) + i] = q[i]
    BY <1>1, <1>2, ConcatenationTokens
  <2> HIDE DEF v
  <2> QED BY <2>1, <1>1, <1>2, <1>3
<1>5. /\ \A i \in 0 .. n : Depth(v, i + 1) = 1 + Depth(q, i) /\ Depth(q, i) \in Int
      /\ Marks(v) = Marks(q)
  <2>1. \A i \in 0 .. n : Depth(v, 1 + i) = 1 + Depth(q, i)
    <3>1. \A i \in 0 .. Len(q) : Depth(v, Len(o) + i) = Depth(o, Len(o)) + Depth(q, i)
      BY <1>1, <1>2, DepthAppend
    <3> QED BY <3>1, <1>2
  <2>2. Marks(v) = 0 + Marks(q) /\ Marks(q) \in Nat
    BY <1>1, <1>2, DepthAppend, MarksIsNat
  <2>3. \A i \in 0 .. n : Depth(q, i) \in Int
    BY <1>1, DepthAppend
  <2> QED BY <2>1, <2>2, <2>3, <1>1
<1> HIDE DEF v
<1>6. /\ w \in Seq(Token) /\ Len(w) = n + 2
      /\ w[n + 2] = ")" /\ \A i \in 1 .. n + 1 : w[i] = v[i]
  <2>1. /\ w \in Seq(Token) /\ Len(w) = Len(v) + Len(c)
        /\ \A i \in 1 .. Len(v) : w[i] = v[i]
        /\ \A i \in 1 .. Len(c) : w[Len(v) + i] = c[i]
    BY <1>2, <1>4, ConcatenationTokens
  <2>2. w[(n + 1) + 1] = c[1]
    <3>1. 1 \in 1 .. Len(c)
      BY <1>2
    <3> QED BY <2>1, <3>1, <1>4
  <2> HIDE DEF w
  <2> QED BY <2>1, <2>2, <1>1, <1>2, <1>3, <1>4
<1>7. /\ \A i \in 0 .. n + 1 : Depth(w, i) = Depth(v, i)
      /\ Depth(w, n + 2) = Depth(v, n + 1) - 1
      /\ Marks(w) = Marks(q)
  <2>1. Depth(w, (n + 1) + 1) = Depth(v, n + 1) + Depth(c, 1)
    BY <1>1, <1>2, <1>4, DepthAppend
  <2>2. \A i \in 0 .. n + 1 : Depth(w, i) = Depth(v, i) /\ Depth(v, i) \in Int
    BY <1>1, <1>2, <1>4, DepthAppend
  <2>3. Marks(w) = Marks(v) + 0 /\ Marks(v) \in Nat
    BY <1>2, <1>4, DepthAppend, MarksIsNat
  <2> QED BY <2>1, <2>2, <2>3, <1>1, <1>2, <1>5
<1>8. \A i \in 1 .. n + 1 : Depth(w, i) >= 1
  <2> TAKE i \in 1 .. n + 1
  <2>1. i - 1 \in 0 .. n /\ (i - 1) + 1 = i
    BY <1>1
  <2>2. Depth(v, (i - 1) + 1) = 1 + Depth(q, i - 1) /\ Depth(q, i - 1) \in Int
    BY <1>5, <2>1
  <2>3. Depth(q, i - 1) >= 0
    BY <2>1 DEF Balanced
  <2>4. Depth(w, i) = Depth(v, i)
    BY <1>7, <1>1
  <2> QED BY <2>1, <2>2, <2>3, <2>4
<1>9. Depth(w, n + 2) = 0
  <2>1. n \in 0 .. n
    BY <1>1
  <2>2. Depth(q, n) = 0
    BY DEF Balanced
  <2> QED BY <2>1, <2>2, <1>5, <1>7
<1>10. Enclosed(w)
  <2>1. w[1] = "(" /\ w[n + 1] = q[n]
    BY <1>1, <1>4, <1>6
  <2> HIDE DEF w, n
  <2> QED BY <2>1, <1>1, <1>6, <1>8, <1>9 DEF Enclosed
<1>11. SubSeq(w, 2, Len(w) - 1) = q
  <2>1. \A i \in 1 .. n : w[i + 1] = q[i]
    BY <1>1, <1>4, <1>6
  <2>2. /\ SubSeq(w, 2, n + 1) \in Seq(Token)
        /\ Len(SubSeq(w, 2, n + 1)) = n
        /\ \A i \in 1 .. n : SubSeq(w, 2, n + 1)[i] = w[i + 1]
    <3> HIDE DEF w
    <3> QED BY <1>1, <1>6
  <2>3. Len(w) - 1 = n + 1
    BY <1>1, <1>6
  <2> HIDE DEF w
  <2> QED BY <2>1, <2>2, <2>3, <1>1
<1> QED BY <1>7, <1>10, <1>11 DEF o, v, c

-----------------------------------------------------------------------------
(* How the queries of conditions are read                                   *)

Junctors == {"AND", "OR"}

LEMMA NoneOutsideEnclosed ==
  ASSUME NEW q, Enclosed(q), NEW op \in Junctors
  PROVE  Outside(q, op) = {}
<1> SUFFICES ASSUME NEW i \in Outside(q, op) PROVE FALSE
  OBVIOUS
<1>1. i \in 1 .. Len(q) /\ q[i] = op /\ Depth(q, i) = 0
  BY DEF Outside, Enclosed
<1>2. i # Len(q)
  BY <1>1 DEF Enclosed, Junctors
<1>3. i \in 1 .. Len(q) - 1
  BY <1>1, <1>2 DEF Enclosed
<1> QED BY <1>1, <1>3 DEF Enclosed

(* Parentheses around a query leave its meaning as it is.                   *)
LEMMA ParsedInParentheses ==
  ASSUME NEW q, Balanced(q), NEW ps \in Seq(Nat)
  PROVE  Meaning(<<"(">> \o q \o <<")">>, ps) = Meaning(q, ps)
<1> DEFINE w == <<"(">> \o q \o <<")">>
<1>1. Enclosed(w) /\ SubSeq(w, 2, Len(w) - 1) = q
  BY BalancedInParentheses
<1> HIDE DEF w
<1>2. Outside(w, "OR") = {} /\ Outside(w, "AND") = {}
  BY <1>1, NoneOutsideEnclosed DEF Junctors
<1>3. w \in Seq(Token) /\ w # <<>> /\ Head(w) = "("
  BY <1>1 DEF Enclosed
<1>4. Meaning(w, ps) = Reading(Parsed, w, ps)
  BY <1>3, MeaningEquation
<1>5. Reading(Parsed, w, ps) = Meaning(SubSeq(w, 2, Len(w) - 1), ps)
  BY <1>2, <1>3 DEF Reading, Meaning
<1> QED BY <1>1, <1>4, <1>5 DEF w

LEMMA ParsedNegation ==
  ASSUME NEW q, Enclosed(q), NEW ps \in Seq(Nat)
  PROVE  /\ Balanced(<<"NOT">> \o q)
         /\ Marks(<<"NOT">> \o q) = Marks(q)
         /\ Meaning(<<"NOT">> \o q, ps) = Negation(Meaning(q, ps))
<1> DEFINE o == <<"NOT">>
           w == o \o q
           n == Len(q)
<1>1. /\ o \in Seq(Token) /\ Len(o) = 1 /\ o[1] = "NOT"
      /\ Depth(o, 0) = 0 /\ Depth(o, 1) = 0 /\ Marks(o) = 0
  <2>1. "NOT" \in Token
    BY DEF Token, Symbols
  <2> QED BY <2>1, OneToken
<1>2. q \in Seq(Token) /\ n \in Nat /\ n > 2 /\ Balanced(q)
  BY EnclosedIsBalanced DEF Enclosed
<1> HIDE DEF o
<1>3. /\ w \in Seq(Token) /\ Len(w) = Len(o) + Len(q)
      /\ \A i \in 1 .. Len(o) : w[i] = o[i]
      /\ \A i \in 1 .. Len(q) : w[Len(o) + i] = q[i]
  BY <1>1, <1>2, ConcatenationTokens
<1>4. /\ \A i \in 0 .. Len(o) : Depth(w, i) = Depth(o, i)
      /\ \A i \in 0 .. Len(q) : Depth(w, Len(o) + i) = Depth(o, Len(o)) + Depth(q, i)
      /\ \A i \in 0 .. Len(q) : Depth(q, i) \in Int
      /\ Marks(w) = Marks(o) + Marks(q)
  BY <1>1, <1>2, DepthAppend
<1> HIDE DEF w
<1>5. /\ w[1] = "NOT" /\ \A i \in 1 .. n : w[1 + i] = q[i]
      /\ Depth(w, 0) = 0 /\ Depth(w, 1) = 0
      /\ \A i \in 0 .. n : Depth(w, 1 + i) = Depth(q, i)
  BY <1>1, <1>3, <1>4
<1>6. \A i \in 0 .. n + 1 : i = 0 \/ (i - 1 \in 0 .. n /\ 1 + (i - 1) = i)
  BY <1>2
<1>7. Balanced(w)
  <2>1. \A i \in 0 .. n : Depth(q, i) >= 0
    BY <1>2 DEF Balanced
  <2>2. \A i \in 0 .. n + 1 : Depth(w, i) >= 0
    <3> TAKE i \in 0 .. n + 1
    <3>1. CASE i = 0
      BY <3>1, <1>5
    <3>2. CASE i # 0
      BY <3>2, <1>5, <1>6, <2>1
    <3> QED BY <3>1, <3>2
  <2>3. Len(w) = n + 1 /\ n \in 1 .. n
    BY <1>1, <1>2, <1>3
  <2>4. w[1 + n] = q[n] /\ Depth(w, 1 + n) = 0
    BY <1>2, <1>5, <2>3 DEF Balanced
  <2> QED BY <1>2, <1>3, <2>2, <2>3, <2>4 DEF Balanced
<1>8. ASSUME NEW op \in Junctors PROVE Outside(w, op) = {}
  <2> SUFFICES ASSUME NEW i \in Outside(w, op) PROVE FALSE
    OBVIOUS
  <2>1. i \in 1 .. n + 1 /\ w[i] = op /\ Depth(w, i) = 0
    BY <1>1, <1>2, <1>3 DEF Outside
  <2>2. i # 1
    BY <2>1, <1>5 DEF Junctors
  <2>3. i - 1 \in 1 .. n /\ 1 + (i - 1) = i
    BY <2>1, <2>2, <1>2
  <2>4. q[i - 1] = op /\ Depth(q, i - 1) = 0
    BY <2>1, <2>3, <1>5
  <2>5. i - 1 # n
    BY <2>4 DEF Enclosed, Junctors
  <2>6. i - 1 \in 1 .. n - 1
    BY <2>3, <2>5, <1>2
  <2> QED BY <2>4, <2>6 DEF Enclosed
<1>9. w # <<>> /\ Head(w) = "NOT" /\ Tail(w) = q
  <2>1. w # <<>> /\ Head(w) = "NOT" /\ Tail(w) \in Seq(Token) /\ Len(Tail(w)) = n
        /\ \A i \in 1 .. n : Tail(w)[i] = w[1 + i]
    BY <1>1, <1>2, <1>3, <1>5
  <2> QED BY <2>1, <1>2, <1>5
<1>10. Meaning(w, ps) = Negation(Meaning(q, ps))
  <2>1. Meaning(w, ps) = Reading(Parsed, w, ps)
    BY <1>3, MeaningEquation
  <2>2. Outside(w, "OR") = {} /\ Outside(w, "AND") = {}
    BY <1>8 DEF Junctors
  <2> QED BY <2>1, <2>2, <1>9 DEF Reading, Meaning
<1>11. Marks(w) = Marks(q)
  BY <1>1, <1>2, <1>4, MarksIsNat
<1> QED BY <1>7, <1>10, <1>11 DEF w, o

(* Of two queries in parentheses, only the operator between them is outside *)
(* parentheses.                                                             *)
LEMMA TokensOfJunction ==
  ASSUME NEW l, Enclosed(l), NEW r, Enclosed(r), NEW op \in Junctors
  PROVE  LET w == l \o <<op>> \o r
             m == Len(l)
             n == Len(r)
         IN  /\ w \in Seq(Token) /\ Len(w) = m + 1 + n
             /\ \A i \in 1 .. m : w[i] = l[i]
             /\ w[m + 1] = op
             /\ \A i \in 1 .. n : w[m + 1 + i] = r[i]
             /\ \A i \in 0 .. m : Depth(w, i) = Depth(l, i)
             /\ Depth(w, m + 1) = 0
             /\ \A i \in 0 .. n : Depth(w, m + 1 + i) = Depth(r, i)
             /\ Marks(w) = Marks(l) + Marks(r)
<1> DEFINE o == <<op>>
           v == l \o o
           w == v \o r
           m == Len(l)
           n == Len(r)
<1>1. /\ o \in Seq(Token) /\ Len(o) = 1 /\ o[1] = op
      /\ Depth(o, 0) = 0 /\ Depth(o, 1) = 0 /\ Marks(o) = 0
  <2>1. op \in Token /\ op \notin {"(", ")", "?"}
    BY DEF Token, Symbols, Junctors
  <2> QED BY <2>1, OneToken
<1>2. /\ l \in Seq(Token) /\ r \in Seq(Token) /\ m \in Nat /\ n \in Nat
      /\ Depth(l, m) = 0
      /\ \A i \in 0 .. m : Depth(l, i) \in Int
      /\ \A i \in 0 .. n : Depth(r, i) \in Int
      /\ Marks(l) \in Nat /\ Marks(r) \in Nat
  <2>1. l \in Seq(Token) /\ r \in Seq(Token) /\ Depth(l, m) = 0
    BY DEF Enclosed
  <2>2. \A i \in 0 .. m : Depth(l, i) \in Int
    BY <2>1, DepthAppend
  <2>3. \A i \in 0 .. n : Depth(r, i) \in Int
    BY <2>1, DepthAppend
  <2>4. Marks(l) \in Nat /\ Marks(r) \in Nat
    BY <2>1, MarksIsNat
  <2> QED BY <2>1, <2>2, <2>3, <2>4
<1> HIDE DEF o
<1>3. /\ v \in Seq(Token) /\ Len(v) = Len(l) + Len(o)
      /\ \A i \in 1 .. Len(l) : v[i] = l[i]
      /\ \A i \in 1 .. Len(o) : v[Len(l) + i] = o[i]
  BY <1>1, <1>2, ConcatenationTokens
<1>4. /\ \A i \in 0 .. Len(l) : Depth(v, i) = Depth(l, i)
      /\ \A i \in 0 .. Len(o) : Depth(v, Len(l) + i) = Depth(l, Len(l)) + Depth(o, i)
      /\ Marks(v) = Marks(l) + Marks(o)
  BY <1>1, <1>2, DepthAppend
<1> HIDE DEF v
<1>5. /\ w \in Seq(Token) /\ Len(w) = Len(v) + Len(r)
      /\ \A i \in 1 .. Len(v) : w[i] = v[i]
      /\ \A i \in 1 .. Len(r) : w[Len(v) + i] = r[i]
  BY <1>3, <1>2, ConcatenationTokens
<1>6. /\ \A i \in 0 .. Len(v) : Depth(w, i) = Depth(v, i)
      /\ \A i \in 0 .. Len(r) : Depth(w, Len(v) + i) = Depth(v, Len(v)) + Depth(r, i)
      /\ Marks(w) = Marks(v) + Marks(r)
  BY <1>3, <1>2, DepthAppend
<1> HIDE DEF w, m, n
<1>7. Len(l) = m /\ Len(r) = n /\ Len(v) = m + 1
  BY <1>1, <1>3 DEF m, n
<1>8. v[m + 1] = op /\ Depth(v, m + 1) = 0
  <2>1. 1 \in 1 .. Len(o) /\ 1 \in 0 .. Len(o)
    BY <1>1
  <2>2. v[m + 1] = o[1] /\ Depth(v, m + 1) = Depth(l, m) + Depth(o, 1)
    BY <2>1, <1>3, <1>4, <1>7
  <2> QED BY <2>2, <1>1, <1>2
<1>9. \A i \in 1 .. m : w[i] = l[i]
  BY <1>2, <1>3, <1>5, <1>7
<1>10. w[m + 1] = op
  BY <1>2, <1>5, <1>7, <1>8
<1>11. \A i \in 1 .. n : w[m + 1 + i] = r[i]
  BY <1>5, <1>7
<1>12. \A i \in 0 .. m : Depth(w, i) = Depth(l, i)
  BY <1>2, <1>4, <1>6, <1>7
<1>13. Depth(w, m + 1) = 0
  BY <1>2, <1>6, <1>7, <1>8
<1>14. \A i \in 0 .. n : Depth(w, m + 1 + i) = Depth(r, i)
  BY <1>2, <1>6, <1>7, <1>8
<1>15. Marks(w) = Marks(l) + Marks(r)
  BY <1>1, <1>2, <1>4, <1>6
<1> QED BY <1>2, <1>5, <1>7, <1>9, <1>10, <1>11, <1>12, <1>13, <1>14, <1>15
        DEF w, v, o, m, n

LEMMA OutsideOfJunction ==
  ASSUME NEW l, Enclosed(l), NEW r, Enclosed(r), NEW op \in Junctors,
         NEW x \in Junctors
  PROVE  Outside(l \o <<op>> \o r, x) = IF x = op THEN {Len(l) + 1} ELSE {}
<1> DEFINE w == l \o <<op>> \o r
           m == Len(l)
           n == Len(r)
<1>1. /\ w \in Seq(Token) /\ Len(w) = m + 1 + n
      /\ \A i \in 1 .. m : w[i] = l[i]
      /\ w[m + 1] = op
      /\ \A i \in 1 .. n : w[m + 1 + i] = r[i]
      /\ \A i \in 0 .. m : Depth(w, i) = Depth(l, i)
      /\ Depth(w, m + 1) = 0
      /\ \A i \in 0 .. n : Depth(w, m + 1 + i) = Depth(r, i)
  BY TokensOfJunction
<1> HIDE DEF w
<1>2. m \in Nat /\ n \in Nat /\ m > 2 /\ n > 2
  BY DEF Enclosed
<1>3. ASSUME NEW i \in 1 .. m, w[i] = x, Depth(w, i) = 0 PROVE FALSE
  <2>1. l[i] = x /\ Depth(l, i) = 0
    BY <1>1, <1>3
  <2>2. i # m
    BY <2>1 DEF Enclosed, Junctors
  <2>3. i \in 1 .. m - 1
    BY <2>2, <1>2
  <2> QED BY <2>1, <2>3 DEF Enclosed
<1>4. ASSUME NEW i \in 1 .. n, w[m + 1 + i] = x, Depth(w, m + 1 + i) = 0
      PROVE  FALSE
  <2>1. r[i] = x /\ Depth(r, i) = 0
    BY <1>1, <1>4
  <2>2. i # n
    BY <2>1 DEF Enclosed, Junctors
  <2>3. i \in 1 .. n - 1
    BY <2>2, <1>2
  <2> QED BY <2>1, <2>3 DEF Enclosed
<1>5. ASSUME NEW i \in Outside(w, x) PROVE i = m + 1 /\ x = op
  <2>1. i \in 1 .. m + 1 + n /\ w[i] = x /\ Depth(w, i) = 0
    BY <1>1 DEF Outside
  <2>2. i \notin 1 .. m
    BY <2>1, <1>3
  <2>3. i - (m + 1) \notin 1 .. n
    <3> SUFFICES ASSUME i - (m + 1) \in 1 .. n PROVE FALSE
      OBVIOUS
    <3>1. m + 1 + (i - (m + 1)) = i
      BY <2>1, <1>2
    <3> QED BY <2>1, <3>1, <1>4
  <2>4. i = m + 1
    BY <2>1, <2>2, <2>3, <1>2
  <2> QED BY <2>1, <2>4, <1>1
<1>6. x = op => m + 1 \in Outside(w, x)
  <2>1. w[(m + 1) - 2] # "BETWEEN"
    <3>1. (m + 1) - 2 = m - 1 /\ m - 1 \in 1 .. m
      BY <1>2
    <3>2. l[m - 1] # "BETWEEN"
      BY DEF Enclosed
    <3> QED BY <3>1, <3>2, <1>1
  <2>2. m + 1 \in DOMAIN w
    BY <1>1, <1>2
  <2> QED BY <2>1, <2>2, <1>1 DEF Outside
<1> QED BY <1>5, <1>6 DEF w

LEMMA JunctionIsBalanced ==
  ASSUME NEW l, Enclosed(l), NEW r, Enclosed(r), NEW op \in Junctors
  PROVE  Balanced(l \o <<op>> \o r)
<1> DEFINE w == l \o <<op>> \o r
           m == Len(l)
           n == Len(r)
<1>1. /\ w \in Seq(Token) /\ Len(w) = m + 1 + n
      /\ \A i \in 1 .. n : w[m + 1 + i] = r[i]
      /\ \A i \in 0 .. m : Depth(w, i) = Depth(l, i)
      /\ Depth(w, m + 1) = 0
      /\ \A i \in 0 .. n : Depth(w, m + 1 + i) = Depth(r, i)
  BY TokensOfJunction
<1> HIDE DEF w
<1>2. m \in Nat /\ n \in Nat /\ n > 2 /\ r[n] = ")" /\ Depth(r, n) = 0
  BY DEF Enclosed
<1>3. /\ \A i \in 0 .. m : Depth(l, i) >= 0
      /\ \A i \in 0 .. n : Depth(r, i) >= 0
  BY EnclosedIsBalanced DEF Balanced
<1>4. ASSUME NEW i \in 0 .. m + 1 + n PROVE Depth(w, i) >= 0
  <2>1. CASE i \in 0 .. m
    BY <2>1, <1>1, <1>3
  <2>2. CASE i = m + 1
    BY <2>2, <1>1
  <2>3. CASE i > m + 1
    <3>1. i - (m + 1) \in 0 .. n /\ m + 1 + (i - (m + 1)) = i
      BY <2>3, <1>2
    <3> QED BY <3>1, <1>1, <1>3
  <2> QED BY <2>1, <2>2, <2>3, <1>2
<1>5. n \in 1 .. n /\ n \in 0 .. n
  BY <1>2
<1>6. w[Len(w)] = ")" /\ Depth(w, Len(w)) = 0
  BY <1>1, <1>2, <1>5
<1>7. w # <<>>
  BY <1>1, <1>2
<1> QED BY <1>1, <1>4, <1>6, <1>7 DEF Balanced, w

LEMMA SplitAt ==
  ASSUME NEW T, NEW p \in Seq(T), NEW q \in Seq(T)
  PROVE  /\ SubSeq(p \o q, 1, Len(p)) = p
         /\ SubSeq(p \o q, Len(p) + 1, Len(p \o q)) = q
OBVIOUS

(* A query of two in parentheses is read as the operator between them says, *)
(* and each of the two gets its own parameters.                             *)
LEMMA ParsedJunction ==
  ASSUME NEW l, Enclosed(l), NEW r, Enclosed(r), NEW op \in Junctors,
         NEW us \in Seq(Nat), Len(us) = Marks(l),
         NEW vs \in Seq(Nat), Len(vs) = Marks(r)
  PROVE  Meaning(l \o <<op>> \o r, us \o vs)
           = Junction(op, Meaning(l, us), Meaning(r, vs))
<1> DEFINE w == l \o <<op>> \o r
           ps == us \o vs
           m == Len(l)
<1>1. /\ w \in Seq(Token) /\ Len(w) = m + 1 + Len(r)
      /\ \A i \in 1 .. m : w[i] = l[i]
      /\ \A i \in 1 .. Len(r) : w[m + 1 + i] = r[i]
  BY TokensOfJunction
<1>2. Outside(w, op) = {m + 1} /\ (op = "AND" => Outside(w, "OR") = {})
  BY OutsideOfJunction DEF Junctors
<1> HIDE DEF w
<1>3. /\ l \in Seq(Token) /\ r \in Seq(Token) /\ m \in Nat /\ Len(r) \in Nat
  BY DEF Enclosed
<1>4. Max(Outside(w, op)) = m + 1
  BY <1>2, <1>3 DEF Max
<1>5. SubSeq(w, 1, (m + 1) - 1) = l
  <2>1. (m + 1) - 1 = m
    BY <1>3
  <2>2. /\ SubSeq(w, 1, m) \in Seq(Token) /\ Len(SubSeq(w, 1, m)) = m
        /\ \A i \in 1 .. m : SubSeq(w, 1, m)[i] = w[i]
    BY <1>1, <1>3
  <2> QED BY <2>1, <2>2, <1>1, <1>3
<1>6. SubSeq(w, (m + 1) + 1, Len(w)) = r
  <2> DEFINE s == SubSeq(w, m + 2, m + 1 + Len(r))
  <2>1. s \in Seq(Token) /\ Len(s) = Len(r)
        /\ \A i \in 1 .. Len(r) : s[i] = w[m + 1 + i]
    BY <1>1, <1>3
  <2>2. s = r
    <3> HIDE DEF s
    <3>1. \A i \in 1 .. Len(s) : s[i] = r[i]
      BY <2>1, <1>1
    <3> QED BY <2>1, <3>1, <1>3, SeqEqual
  <2> QED BY <2>2, <1>1, <1>3
<1>7. /\ ps \in Seq(Nat) /\ Len(ps) = Len(us) + Len(vs)
      /\ SubSeq(ps, 1, Len(us)) = us
      /\ SubSeq(ps, Len(us) + 1, Len(ps)) = vs
  <2>1. ps \in Seq(Nat) /\ Len(ps) = Len(us) + Len(vs)
    OBVIOUS
  <2>2. SubSeq(ps, 1, Len(us)) = us /\ SubSeq(ps, Len(us) + 1, Len(ps)) = vs
    BY SplitAt, Zenon
  <2> QED BY <2>1, <2>2
<1> HIDE DEF ps
<1>8. Min({Marks(l), Len(ps)}) = Len(us)
  <2>1. Len(us) \in Nat /\ Len(ps) \in Nat /\ Len(us) <= Len(ps)
    BY <1>7
  <2>2. Min({Len(us), Len(ps)})
          = IF Len(us) <= Len(ps) THEN Len(us) ELSE Len(ps)
    BY <2>1, LesserOfTwo
  <2> QED BY <2>1, <2>2
<1>9. Split(Parsed, w, ps, op) = Junction(op, Meaning(l, us), Meaning(r, vs))
  BY <1>4, <1>5, <1>6, <1>7, <1>8 DEF Split, Meaning
<1>10. Meaning(w, ps) = Reading(Parsed, w, ps)
  BY <1>1, <1>7, MeaningEquation
<1>11. Reading(Parsed, w, ps) = Split(Parsed, w, ps, op)
  BY <1>2 DEF Reading, Junctors
<1> QED BY <1>9, <1>10, <1>11 DEF w, ps

-----------------------------------------------------------------------------
(* Comparisons                                                              *)

LEMMA NoParentheses ==
  ASSUME NEW q \in Seq(Token), \A i \in 1 .. Len(q) : q[i] \notin {"(", ")"}
  PROVE  \A i \in 0 .. Len(q) : Depth(q, i) = 0
<1> TAKE i \in 0 .. Len(q)
<1>1. {j \in 1 .. i : q[j] = "("} = {} /\ {j \in 1 .. i : q[j] = ")"} = {}
  OBVIOUS
<1>2. Counted(q, "(", i) = 0 /\ Counted(q, ")", i) = 0
  BY <1>1, FS_EmptySet DEF Counted
<1> QED BY <1>2 DEF Depth

LEMMA NoMarks ==
  ASSUME NEW q \in Seq(Token), \A i \in 1 .. Len(q) : q[i] # "?"
  PROVE  Marks(q) = 0
<1>1. {j \in 1 .. Len(q) : q[j] = "?"} = {}
  OBVIOUS
<1> QED BY <1>1, FS_EmptySet DEF Marks, Counted

(* BETWEEN is the last token of an operator, and the second token after it  *)
(* is its AND.                                                              *)
LEMMA OperatorsOfColumns ==
  ASSUME NEW x \in Comparisons
  PROVE  /\ x.op \in Seq(Token)
         /\ Len(x.op) > 0
         /\ \A i \in 1 .. Len(x.op) : x.op[i] \notin {"(", ")", "?", "AND", "OR"}
         /\ x.right \in Seq(Token)
         /\ Len(x.right) > 0
         /\ x.right[Len(x.right)] # "BETWEEN"
         /\ \A i \in 1 .. Len(x.right) :
              /\ x.right[i] \notin {"(", ")", "OR"}
              /\ x.right[i] = "AND" => i = 2 /\ x.op[Len(x.op)] = "BETWEEN"
<1>1. /\ "?" \in Token /\ "=" \in Token /\ "LIKE" \in Token /\ "IS" \in Token
      /\ "NULL" \in Token /\ "NOT" \in Token /\ "BETWEEN" \in Token
      /\ "AND" \in Token
  BY DEF Token, Symbols
<1>2. CASE x = [op |-> <<"=">>, right |-> <<"?">>]
  BY <1>1, <1>2
<1>3. CASE x = [op |-> <<"LIKE">>, right |-> <<"?">>]
  BY <1>1, <1>3
<1>4. CASE x = [op |-> <<"IS">>, right |-> <<"NULL">>]
  BY <1>1, <1>4
<1>5. CASE x = [op |-> <<"IS", "NOT">>, right |-> <<"NULL">>]
  BY <1>1, <1>5
<1>6. CASE x = [op |-> <<"BETWEEN">>, right |-> <<"?", "AND", "?">>]
  BY <1>1, <1>6
<1>7. CASE x = [op |-> <<"NOT", "BETWEEN">>, right |-> <<"?", "AND", "?">>]
  BY <1>1, <1>7
<1> QED BY <1>2, <1>3, <1>4, <1>5, <1>6, <1>7 DEF Comparisons

LEMMA TokensOfComparison ==
  ASSUME NEW c \in Column, NEW x \in Comparisons
  PROVE  LET q == <<c>> \o x.op \o x.right
         IN  /\ q \in Seq(Token) /\ q # <<>>
             /\ Head(q) = c /\ Tail(q) = x.op \o x.right
             /\ q[Len(q)] # "BETWEEN"
             /\ \A i \in 1 .. Len(q) :
                  /\ q[i] \notin {"(", ")", "OR"}
                  /\ q[i] = "AND" => i > 2 /\ q[i - 2] = "BETWEEN"
             /\ Marks(q) = Marks(x.right)
<1> DEFINE o == <<c>>
           v == o \o x.op
           q == v \o x.right
           m == Len(x.op)
           n == Len(x.right)
<1>1. c \in Token /\ c \notin Symbols
  BY ConditionAssumption DEF Token
<1>2. o \in Seq(Token) /\ Len(o) = 1 /\ o[1] = c /\ Marks(o) = 0
  BY <1>1, OneToken DEF Symbols
<1>3. x.op \in Seq(Token) /\ x.right \in Seq(Token)
      /\ m \in Nat \ {0} /\ n \in Nat \ {0}
  BY OperatorsOfColumns
<1>4. Tail(q) = x.op \o x.right
  <2> DEFINE z == x.op
             y == x.right
  <2>1. z \in Seq(Token) /\ y \in Seq(Token)
    BY <1>3
  <2> HIDE DEF z, y
  <2>2. Tail(<<c>> \o z \o y) \in Seq(Token) /\ z \o y \in Seq(Token)
        /\ Len(Tail(<<c>> \o z \o y)) = Len(z \o y)
    BY <2>1, <1>1
  <2>3. \A i \in 1 .. Len(z \o y) : Tail(<<c>> \o z \o y)[i] = (z \o y)[i]
    BY <2>1, <1>1
  <2>4. Tail(<<c>> \o z \o y) = z \o y
    BY <2>2, <2>3, SeqEqual
  <2> QED BY <2>4 DEF z, y
<1> HIDE DEF o
<1>5. /\ v \in Seq(Token) /\ Len(v) = Len(o) + Len(x.op)
      /\ \A i \in 1 .. Len(o) : v[i] = o[i]
      /\ \A i \in 1 .. Len(x.op) : v[Len(o) + i] = x.op[i]
      /\ Marks(v) = Marks(o) + Marks(x.op)
  BY <1>2, <1>3, ConcatenationTokens, DepthAppend
<1> HIDE DEF v
<1>6. /\ q \in Seq(Token) /\ Len(q) = Len(v) + Len(x.right)
      /\ \A i \in 1 .. Len(v) : q[i] = v[i]
      /\ \A i \in 1 .. Len(x.right) : q[Len(v) + i] = x.right[i]
      /\ Marks(q) = Marks(v) + Marks(x.right)
  BY <1>5, <1>3, ConcatenationTokens, DepthAppend
<1>7. Marks(q) = Marks(x.right)
  <2>1. Marks(x.op) = 0
    BY <1>3, OperatorsOfColumns, NoMarks
  <2>2. Marks(x.right) \in Nat
    BY <1>3, MarksIsNat
  <2> QED BY <2>1, <2>2, <1>2, <1>5, <1>6
<1> HIDE DEF q, m, n
<1>8. Len(q) = 1 + m + n /\ q[1] = c
  <2>1. Len(v) = 1 + m
    BY <1>2, <1>5 DEF m
  <2>2. 1 \in 1 .. Len(o) /\ 1 \in 1 .. Len(v)
    BY <2>1, <1>2, <1>3
  <2>3. q[1] = v[1] /\ v[1] = o[1]
    <3>1. /\ \A i \in 1 .. Len(v) : q[i] = v[i]
          /\ \A i \in 1 .. Len(o) : v[i] = o[i]
      BY <1>5, <1>6
    <3> QED BY <2>2, <3>1, Zenon
  <2> QED BY <2>1, <2>3, <1>2, <1>6 DEF n
<1>9. \A i \in 1 .. m : q[1 + i] = x.op[i]
  <2> TAKE i \in 1 .. m
  <2>1. v[1 + i] = x.op[i]
    BY <1>2, <1>5 DEF m
  <2>2. 1 + i \in 1 .. Len(v)
    BY <1>2, <1>3, <1>5 DEF m
  <2> QED BY <2>1, <2>2, <1>6
<1>10. \A i \in 1 .. n : q[1 + m + i] = x.right[i]
  <2>1. Len(v) = 1 + m
    BY <1>2, <1>5 DEF m
  <2> QED BY <2>1, <1>6 DEF n
<1>11. ASSUME NEW i \in 1 .. Len(q)
       PROVE  /\ q[i] \notin {"(", ")", "OR"}
              /\ q[i] = "AND" => i > 2 /\ q[i - 2] = "BETWEEN"
  <2>1. CASE i = 1
    BY <2>1, <1>1, <1>8 DEF Symbols
  <2>2. CASE i \in 2 .. 1 + m
    <3>1. i - 1 \in 1 .. m /\ 1 + (i - 1) = i
      BY <2>2, <1>3
    <3>2. q[i] = x.op[i - 1]
      BY <3>1, <1>9
    <3> QED BY <3>1, <3>2, OperatorsOfColumns DEF m
  <2>3. CASE i > 1 + m
    <3>1. i - (1 + m) \in 1 .. n /\ 1 + m + (i - (1 + m)) = i
      BY <2>3, <1>3, <1>8
    <3>2. q[i] = x.right[i - (1 + m)]
      BY <3>1, <1>10
    <3>3. q[i] = "AND" => i = 3 + m /\ x.op[m] = "BETWEEN"
      <4> HAVE q[i] = "AND"
      <4>1. i - (1 + m) = 2 /\ x.op[Len(x.op)] = "BETWEEN"
        BY <3>1, <3>2, OperatorsOfColumns DEF n
      <4> QED BY <4>1, <1>3 DEF m
    <3>4. q[1 + m] = x.op[m]
      BY <1>3, <1>9
    <3> QED BY <3>1, <3>2, <3>3, <3>4, <1>3, OperatorsOfColumns DEF n
  <2> QED BY <2>1, <2>2, <2>3, <1>3, <1>8
<1>12. q[Len(q)] # "BETWEEN"
  <2>1. n \in 1 .. n
    BY <1>3
  <2>2. q[1 + m + n] = x.right[n]
    BY <2>1, <1>10
  <2> QED BY <2>2, <1>8, OperatorsOfColumns DEF n
<1>13. q # <<>> /\ Head(q) = c
  BY <1>3, <1>6, <1>8
<1> QED BY <1>4, <1>6, <1>7, <1>11, <1>12, <1>13 DEF q, v, o

LEMMA ParsedComparison ==
  ASSUME NEW c \in Column, NEW x \in Comparisons, NEW ps \in Seq(Nat)
  PROVE  LET q == <<c>> \o x.op \o x.right
         IN  /\ Balanced(q)
             /\ Marks(q) = Marks(x.right)
             /\ Meaning(q, ps) = Comparison(c, x.op \o x.right, ps)
<1> DEFINE q == <<c>> \o x.op \o x.right
<1>1. /\ q \in Seq(Token) /\ q # <<>>
      /\ Head(q) = c /\ Tail(q) = x.op \o x.right
      /\ q[Len(q)] # "BETWEEN"
      /\ \A i \in 1 .. Len(q) :
           /\ q[i] \notin {"(", ")", "OR"}
           /\ q[i] = "AND" => i > 2 /\ q[i - 2] = "BETWEEN"
      /\ Marks(q) = Marks(x.right)
  BY TokensOfComparison
<1> HIDE DEF q
<1>2. \A i \in 0 .. Len(q) : Depth(q, i) = 0
  BY <1>1, NoParentheses
<1>3. Balanced(q)
  BY <1>1, <1>2 DEF Balanced
<1>4. Outside(q, "OR") = {} /\ Outside(q, "AND") = {}
  BY <1>1 DEF Outside
<1>5. c \notin {"NOT", "("}
  BY ConditionAssumption DEF Symbols
<1>6. Meaning(q, ps) = Reading(Parsed, q, ps)
  BY <1>1, MeaningEquation
<1>7. Reading(Parsed, q, ps) = Comparison(c, x.op \o x.right, ps)
  BY <1>1, <1>4, <1>5 DEF Reading
<1> QED BY <1>1, <1>3, <1>6, <1>7 DEF q

-----------------------------------------------------------------------------
(* Conditions                                                               *)

(* A condition that SQLite reads as its expression, wherever it is put.     *)
Understood(cond, means) ==
  LET p == AsPartial(cond)
  IN  /\ Balanced(p.query)
      /\ p.params \in Seq(Nat)
      /\ Len(p.params) = Marks(p.query)
      /\ Meaning(p.query, p.params) = means

LEMMA CompareIsUnderstood ==
  ASSUME NEW c \in Column, NEW x \in Comparisons, NEW ps \in Seq(Nat),
         Len(ps) = Marks(x.right)
  PROVE  Understood(Compare(c, x.op, x.right, ps),
                    Comparison(c, x.op \o x.right, ps))
<1> DEFINE q == <<c>> \o x.op \o x.right
           p == AsPartial(Compare(c, x.op, x.right, ps))
<1>1. p.query = q /\ p.params = <<>> \o ps
  BY DEF AsPartial, Compare, Partial
<1>2. <<>> \o ps = ps
  OBVIOUS
<1>3. /\ Balanced(q) /\ Marks(q) = Marks(x.right)
      /\ Meaning(q, ps) = Comparison(c, x.op \o x.right, ps)
  BY ParsedComparison
<1> HIDE DEF q, p
<1> QED BY <1>1, <1>2, <1>3 DEF Understood, p

(* What is in parentheses is understood, and can stand next to AND and OR   *)
(* and behind NOT.                                                          *)
LEMMA PartInParentheses ==
  ASSUME NEW cond, NEW means, Understood(cond, means)
  PROVE  LET p == InParentheses(AsPartial(cond))
         IN  /\ Enclosed(p.query)
             /\ p.params \in Seq(Nat)
             /\ Len(p.params) = Marks(p.query)
             /\ Meaning(p.query, p.params) = means
<1> DEFINE r == AsPartial(cond)
           p == InParentheses(r)
           w == <<"(">> \o r.query \o <<")">>
<1>1. p.query = w /\ p.params = r.params
  BY DEF InParentheses, AsPartial, Partial
<1>2. /\ Balanced(r.query) /\ r.params \in Seq(Nat)
      /\ Len(r.params) = Marks(r.query)
      /\ Meaning(r.query, r.params) = means
  BY DEF Understood
<1> HIDE DEF p, r
<1>3. Enclosed(w) /\ Marks(w) = Marks(r.query)
  BY <1>2, BalancedInParentheses
<1>4. Meaning(w, r.params) = Meaning(r.query, r.params)
  BY <1>2, ParsedInParentheses
<1> HIDE DEF w
<1> QED BY <1>1, <1>2, <1>3, <1>4 DEF p, r

LEMMA JoinedIsUnderstood ==
  ASSUME NEW l, NEW lmeans, Understood(l, lmeans),
         NEW r, NEW rmeans, Understood(r, rmeans), NEW op \in Junctors
  PROVE  Understood(Joined(l, op, r), Junction(op, lmeans, rmeans))
<1> DEFINE p == AsPartial(Joined(l, op, r))
<1>1. PICK f \in Seq(Token), us \in Seq(Nat) :
        /\ f = InParentheses(AsPartial(l)).query
        /\ us = InParentheses(AsPartial(l)).params
        /\ Enclosed(f) /\ Len(us) = Marks(f) /\ Meaning(f, us) = lmeans
  BY PartInParentheses DEF Enclosed
<1>2. PICK g \in Seq(Token), vs \in Seq(Nat) :
        /\ g = InParentheses(AsPartial(r)).query
        /\ vs = InParentheses(AsPartial(r)).params
        /\ Enclosed(g) /\ Len(vs) = Marks(g) /\ Meaning(g, vs) = rmeans
  BY PartInParentheses DEF Enclosed
<1> DEFINE w == f \o <<op>> \o g
           ps == us \o vs
<1>3. p.query = w /\ p.params = ps
  BY <1>1, <1>2 DEF AsPartial, Joined, Partial
<1>4. Balanced(w) /\ Marks(w) = Marks(f) + Marks(g)
  BY <1>1, <1>2, JunctionIsBalanced, TokensOfJunction
<1>5. ps \in Seq(Nat) /\ Len(ps) = Len(us) + Len(vs)
  OBVIOUS
<1>6. Meaning(w, ps) = Junction(op, Meaning(f, us), Meaning(g, vs))
  <2>1. Enclosed(f) /\ Enclosed(g) /\ Len(us) = Marks(f) /\ Len(vs) = Marks(g)
    BY <1>1, <1>2
  <2> QED BY <2>1, ParsedJunction
<1> HIDE DEF w, ps, p
<1> QED BY <1>1, <1>2, <1>3, <1>4, <1>5, <1>6 DEF Understood, p

LEMMA NegatedIsUnderstood ==
  ASSUME NEW c, NEW means, Understood(c, means)
  PROVE  Understood(Negated(c), Negation(means))
<1> DEFINE a == InParentheses(AsPartial(c))
           p == AsPartial(Negated(c))
           w == <<"NOT">> \o a.query
<1>1. p.query = <<>> \o <<"NOT">> \o a.query /\ p.params = <<>> \o a.params
  BY DEF AsPartial, Negated, Partial, Empty
<1>2. /\ Enclosed(a.query) /\ a.params \in Seq(Nat)
      /\ Len(a.params) = Marks(a.query)
      /\ Meaning(a.query, a.params) = means
  BY PartInParentheses
<1> HIDE DEF a, p
<1>3. p.query = w /\ p.params = a.params
  <2>1. <<>> \o <<"NOT">> = <<"NOT">> /\ <<>> \o a.params = a.params
    BY <1>2
  <2> QED BY <1>1, <2>1
<1>4. /\ Balanced(w) /\ Marks(w) = Marks(a.query)
      /\ Meaning(w, a.params) = Negation(Meaning(a.query, a.params))
  BY <1>2, ParsedNegation
<1> HIDE DEF w
<1> QED BY <1>2, <1>3, <1>4 DEF Understood, p

-----------------------------------------------------------------------------
(* The evaluation of an expression                                          *)

(* The conditions on the stack.                                             *)
StackInv ==
  \E S : stack \in Seq(S) /\ \A e \in S : Understood(e.cond, e.means)

ConditionInv ==
  /\ atoms \in 0 .. MaxAtoms
  /\ params \in Nat
  /\ nots \in 0 .. MaxNots
  /\ StackInv

LEMMA ConditionInit == Init => ConditionInv
<1> SUFFICES ASSUME Init PROVE ConditionInv
  OBVIOUS
<1>1. stack \in Seq({})
  BY DEF Init
<1>2. StackInv
  BY <1>1 DEF StackInv
<1> QED BY <1>2, ConditionAssumption DEF Init, ConditionInv

LEMMA ConditionNext == ConditionInv /\ [Next]_vars => ConditionInv'
<1> SUFFICES ASSUME ConditionInv, [Next]_vars PROVE ConditionInv'
  OBVIOUS
<1>0. PICK S : stack \in Seq(S) /\ \A e \in S : Understood(e.cond, e.means)
  BY DEF ConditionInv, StackInv
<1>1. CASE UNCHANGED vars
  BY <1>1 DEF ConditionInv, StackInv, vars
<1>2. ASSUME NEW c \in Column, NEW x \in Comparisons, Compares(c, x)
      PROVE  ConditionInv'
  <2> DEFINE n == Marks(x.right)
             ps == [i \in 1 .. n |-> params + i]
             e == Evaluated(Compare(c, x.op, x.right, ps),
                            Comparison(c, x.op \o x.right, ps))
  <2>1. n \in Nat
    BY OperatorsOfColumns, MarksIsNat
  <2>2. ps \in Seq(Nat) /\ Len(ps) = n
    <3> HIDE DEF n
    <3> QED BY <2>1 DEF ConditionInv
  <2>3. /\ atoms < MaxAtoms /\ atoms' = atoms + 1
        /\ params' = params + n /\ nots' = nots
        /\ stack' = Append(stack, e)
    BY <1>2 DEF Compares
  <2> HIDE DEF n, ps
  <2>4. Understood(e.cond, e.means)
    <3>1. Understood(Compare(c, x.op, x.right, ps),
                     Comparison(c, x.op \o x.right, ps))
      BY <2>2, CompareIsUnderstood DEF n
    <3> QED BY <3>1 DEF Evaluated
  <2> HIDE DEF e
  <2>5. stack' \in Seq(S \cup {e}) /\ \A d \in S \cup {e} : Understood(d.cond, d.means)
    BY <1>0, <2>3, <2>4
  <2>6. StackInv'
    BY <2>5 DEF StackInv
  <2> QED BY <2>1, <2>3, <2>6, ConditionAssumption DEF ConditionInv
<1>3. ASSUME NEW op \in {"AND", "OR"}, Joins(op) PROVE ConditionInv'
  <2> DEFINE e == Evaluated(Joined(Below.cond, op, Top.cond),
                            Junction(op, Below.means, Top.means))
             rest == SubSeq(stack, 1, Len(stack) - 2)
  <2>1. Len(stack) >= 2 /\ UNCHANGED <<atoms, params, nots>>
        /\ stack' = Append(rest, e)
    BY <1>3 DEF Joins
  <2>2. Top \in S /\ Below \in S /\ rest \in Seq(S)
    BY <1>0, <2>1 DEF Top, Below
  <2>3. Understood(e.cond, e.means)
    <3>1. Understood(Joined(Below.cond, op, Top.cond),
                     Junction(op, Below.means, Top.means))
      BY <1>0, <2>2, JoinedIsUnderstood DEF Junctors
    <3> QED BY <3>1 DEF Evaluated
  <2> HIDE DEF e, rest
  <2>4. stack' \in Seq(S \cup {e}) /\ \A d \in S \cup {e} : Understood(d.cond, d.means)
    BY <1>0, <2>1, <2>2, <2>3
  <2>5. StackInv'
    BY <2>4 DEF StackInv
  <2> QED BY <2>1, <2>5 DEF ConditionInv
<1>4. CASE Negates
  <2> DEFINE e == Evaluated(Negated(Top.cond), Negation(Top.means))
  <2>1. /\ stack # <<>> /\ nots < MaxNots /\ nots' = nots + 1
        /\ UNCHANGED <<atoms, params>>
        /\ stack' = [stack EXCEPT ![Len(stack)] = e]
    BY <1>4 DEF Negates
  <2>2. Top \in S
    BY <1>0, <2>1 DEF Top
  <2>3. Understood(e.cond, e.means)
    <3>1. Understood(Negated(Top.cond), Negation(Top.means))
      BY <1>0, <2>2, NegatedIsUnderstood
    <3> QED BY <3>1 DEF Evaluated
  <2> HIDE DEF e
  <2>4. stack' \in Seq(S \cup {e}) /\ \A d \in S \cup {e} : Understood(d.cond, d.means)
    BY <1>0, <2>1, <2>3
  <2>5. StackInv'
    BY <2>4 DEF StackInv
  <2> QED BY <2>1, <2>5, ConditionAssumption DEF ConditionInv
<1> QED BY <1>1, <1>2, <1>3, <1>4 DEF Next

LEMMA ConditionAlways == Spec => []ConditionInv
BY ConditionInit, ConditionNext, PTL DEF Spec

LEMMA UnderstoodStack ==
  ASSUME ConditionInv, NEW i \in DOMAIN stack
  PROVE  Understood(stack[i].cond, stack[i].means)
<1> PICK S : stack \in Seq(S) /\ \A e \in S : Understood(e.cond, e.means)
  BY DEF ConditionInv, StackInv
<1> QED OBVIOUS

(* Every condition has one parameter for each question mark of its query,   *)
(* and the counters keep to their bounds, for any expression.               *)
THEOREM ParametersMatch == Spec => []TypeOK
<1>1. ConditionInv => TypeOK
  BY UnderstoodStack DEF ConditionInv, TypeOK, Understood
<1> QED BY <1>1, ConditionAlways, PTL

(* SQLite reads the query of every condition as the C++ expression that it  *)
(* was built by, with each comparison's own parameters, for any columns and *)
(* any nesting of &&, || and !.                                             *)
THEOREM QueriesMeanWhatTheySay == Spec => []MeansWhatItSays
<1>1. ConditionInv => MeansWhatItSays
  BY UnderstoodStack DEF MeansWhatItSays, Understood, Meaning
<1> QED BY <1>1, ConditionAlways, PTL
==============================================================================
