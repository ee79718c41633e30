------------------------- MODULE SubsequenceProofs -------------------------
(***************************************************************************)
(* Lists joined (FlattenSeq) and selected from (Select): what holds of     *)
(* them for lists of every length, by induction on sets of numbers and of  *)
(* lists.  FlattenSeq is defined by a recursive function; the first        *)
(* lemmas show that there is one such function, and only one.              *)
(***************************************************************************)
EXTENDS Subsequences, SequenceTheorems, WellFoundedInduction, TLAPS

-----------------------------------------------------------------------------
(* Induction. *)

LEMMA Least ==
    ASSUME NEW T, T \subseteq Nat, T # {}
    PROVE  \E x \in T : \A y \in T : x <= y
<1> DEFINE R == {p \in Nat \X Nat : p[1] < p[2]}
<1>1. \A x, y \in Nat : <<x, y>> \in R <=> x < y
  OBVIOUS
<1>2. IsWellFoundedOn(R, Nat)
  BY NatLessThanWellFounded, Zenon DEF OpToRel
<1>3. \E x \in T : \A y \in T : ~(<<y, x>> \in R)
  <2> HIDE DEF R
  <2> QED BY <1>2, WFMin
<1> HIDE DEF R
<1>4. PICK x \in T : \A y \in T : ~(<<y, x>> \in R)
  BY <1>3
<1>5. ASSUME NEW y \in T PROVE x <= y
  <2>1. x \in Nat /\ y \in Nat /\ ~(y < x)
    BY <1>1, <1>4
  <2> QED
    BY <2>1
<1> QED
  BY <1>5

LEMMA NatInduction1 ==
    ASSUME NEW T, 0 \in T, \A n \in Nat : n \in T => n + 1 \in T
    PROVE  Nat \subseteq T
<1> SUFFICES ASSUME ~(Nat \subseteq T) PROVE FALSE
  OBVIOUS
<1> DEFINE U == Nat \ T
<1>1. U \subseteq Nat /\ U # {}
  OBVIOUS
<1> HIDE DEF U
<1>2. PICK x \in U : \A y \in U : x <= y
  BY <1>1, Least
<1>3. x \in Nat /\ x \notin T /\ x # 0
  BY DEF U
<1>4. x - 1 \in Nat /\ x - 1 \notin U
  BY <1>2, <1>3, <1>1
<1>5. x - 1 \in T
  BY <1>4 DEF U
<1> QED
  BY <1>3, <1>4, <1>5

LEMMA DownInduction ==
    ASSUME NEW T, NEW a \in Nat, a \in T, \A n \in 0..a - 1 : n + 1 \in T => n \in T
    PROVE  0..a \subseteq T
<1> DEFINE U == {d \in Nat : d <= a => a - d \in T}
<1>1. 0 \in U
  OBVIOUS
<1>2. ASSUME NEW d \in Nat, d \in U PROVE d + 1 \in U
  <2>1. SUFFICES ASSUME d + 1 <= a PROVE a - (d + 1) \in T
    OBVIOUS
  <2>2. a - d \in T /\ a - (d + 1) \in 0..a - 1 /\ (a - (d + 1)) + 1 = a - d
    BY <1>2, <2>1
  <2> QED
    BY <2>2
<1> HIDE DEF U
<1>3. Nat \subseteq U
  BY <1>1, <1>2, NatInduction1
<1>4. ASSUME NEW n \in 0..a PROVE n \in T
  <2>1. a - n \in Nat /\ a - n <= a /\ a - (a - n) = n
    OBVIOUS
  <2> QED
    BY <1>3, <2>1 DEF U
<1> QED
  BY <1>4

LEMMA SeqInduction ==
    ASSUME NEW A, NEW T, <<>> \in T,
           \A s \in Seq(A), e \in A : s \in T => Append(s, e) \in T
    PROVE  Seq(A) \subseteq T
<1> DEFINE U == {n \in Nat : \A s \in Seq(A) : Len(s) = n => s \in T}
<1>1. 0 \in U
  <2>1. \A s \in Seq(A) : Len(s) = 0 => s = <<>>
    OBVIOUS
  <2> QED
    BY <2>1
<1>2. ASSUME NEW n \in Nat, n \in U PROVE n + 1 \in U
  <2>1. SUFFICES ASSUME NEW s \in Seq(A), Len(s) = n + 1 PROVE s \in T
    OBVIOUS
  <2>2. s # <<>>
    BY <2>1
  <2>3. PICK t \in Seq(A), e \in A : s = Append(t, e)
    BY <2>2, SequenceEmptyOrAppend
  <2>4. Len(t) = n
    BY <2>1, <2>3
  <2> QED
    BY <1>2, <2>3, <2>4
<1> HIDE DEF U
<1>3. Nat \subseteq U
  BY <1>1, <1>2, NatInduction1
<1> QED
  BY <1>3 DEF U
-----------------------------------------------------------------------------
(* FlattenSeq. *)

(* f[i] joins the first i lists of ss, for i up to n. *)
JoinsUpTo(ss, n, f) == \A i \in 1..n : f[i] = IF i = 1 THEN ss[i] ELSE f[i - 1] \o ss[i]

Joins(ss, f) ==
    f = [i \in 1..Len(ss) |-> IF i = 1 THEN ss[i] ELSE f[i - 1] \o ss[i]]

LEMMA JoinsMore ==
    ASSUME NEW A, NEW ss \in Seq(Seq(A)), NEW n \in Nat, n + 1 <= Len(ss),
           NEW g \in [1..n -> Seq(A)], JoinsUpTo(ss, n, g)
    PROVE  \E f \in [1..n + 1 -> Seq(A)] : JoinsUpTo(ss, n + 1, f)
<1> DEFINE last == IF n = 0 THEN ss[n + 1] ELSE g[n] \o ss[n + 1]
           f == [i \in 1..n + 1 |-> IF i = n + 1 THEN last ELSE g[i]]
<1>1. ss[n + 1] \in Seq(A)
  OBVIOUS
<1>2. last \in Seq(A)
  BY <1>1
<1>3. f \in [1..n + 1 -> Seq(A)] /\ f[n + 1] = last /\ \A i \in 1..n : f[i] = g[i]
  <2> HIDE DEF last
  <2>1. \A i \in 1..n + 1 : i # n + 1 => i \in 1..n
    OBVIOUS
  <2> QED
    BY <1>2, <2>1
<1>4. ASSUME NEW i \in 1..n + 1 PROVE f[i] = IF i = 1 THEN ss[i] ELSE f[i - 1] \o ss[i]
  <2> HIDE DEF f
  <2>1. CASE i = n + 1
    <3>1. i - 1 = n /\ (n # 0 => n \in 1..n)
      BY <2>1
    <3>2. n # 0 => f[i - 1] = g[n]
      BY <3>1, <1>3
    <3> QED
      BY <2>1, <3>1, <3>2, <1>3
  <2>2. CASE i # n + 1
    <3>1. i \in 1..n /\ (i # 1 => i - 1 \in 1..n)
      BY <2>2
    <3>2. f[i] = g[i] /\ (i # 1 => f[i - 1] = g[i - 1])
      BY <3>1, <1>3
    <3> QED
      BY <3>1, <3>2 DEF JoinsUpTo
  <2> QED
    BY <2>1, <2>2
<1> HIDE DEF f
<1> QED
  BY <1>3, <1>4 DEF JoinsUpTo

LEMMA JoinsExist ==
    ASSUME NEW A, NEW ss \in Seq(Seq(A))
    PROVE  \E f \in [1..Len(ss) -> Seq(A)] : Joins(ss, f)
<1> DEFINE T == {n \in Nat : n <= Len(ss) => \E f \in [1..n -> Seq(A)] : JoinsUpTo(ss, n, f)}
<1>1. 0 \in T
  <2>1. [i \in 1..0 |-> <<>>] \in [1..0 -> Seq(A)]
    OBVIOUS
  <2>2. \A f : JoinsUpTo(ss, 0, f)
    BY DEF JoinsUpTo
  <2> QED
    BY <2>1, <2>2
<1>2. ASSUME NEW n \in Nat, n \in T PROVE n + 1 \in T
  <2>1. ASSUME n + 1 <= Len(ss) PROVE \E f \in [1..n + 1 -> Seq(A)] : JoinsUpTo(ss, n + 1, f)
    <3>1. PICK g \in [1..n -> Seq(A)] : JoinsUpTo(ss, n, g)
      BY <1>2, <2>1
    <3> HIDE DEF T
    <3> QED
      BY <2>1, <3>1, JoinsMore
  <2> QED
    BY <2>1
<1>3. Nat \subseteq T
  <2> HIDE DEF T
  <2> QED
    BY <1>1, <1>2, NatInduction1
<1>4. Len(ss) \in Nat
  OBVIOUS
<1>5. PICK f \in [1..Len(ss) -> Seq(A)] : JoinsUpTo(ss, Len(ss), f)
  BY SMTT(30), <1>3, <1>4
<1>6. Joins(ss, f)
  BY <1>5 DEF Joins, JoinsUpTo
<1> QED
  BY <1>6

LEMMA JoinsAt ==
    ASSUME NEW ss, NEW f, Joins(ss, f), NEW i \in 1..Len(ss)
    PROVE  f[i] = IF i = 1 THEN ss[i] ELSE f[i - 1] \o ss[i]
BY DEF Joins

LEMMA JoinsUnique ==
    ASSUME NEW A, NEW ss \in Seq(Seq(A)), NEW f, NEW g, Joins(ss, f), Joins(ss, g)
    PROVE  f = g
<1> DEFINE T == {n \in Nat : n \in 1..Len(ss) => f[n] = g[n]}
<1>1. 0 \in T
  OBVIOUS
<1>2. ASSUME NEW n \in Nat, n \in T PROVE n + 1 \in T
  <2>1. SUFFICES ASSUME n + 1 \in 1..Len(ss) PROVE f[n + 1] = g[n + 1]
    OBVIOUS
  <2>2. n + 1 - 1 = n /\ (n + 1 # 1 => n \in 1..Len(ss))
    BY <2>1
  <2>3. /\ f[n + 1] = IF n + 1 = 1 THEN ss[n + 1] ELSE f[n] \o ss[n + 1]
        /\ g[n + 1] = IF n + 1 = 1 THEN ss[n + 1] ELSE g[n] \o ss[n + 1]
    BY <2>1, <2>2, JoinsAt
  <2> QED
    BY <1>2, <2>2, <2>3
<1>3. Nat \subseteq T
  <2> HIDE DEF T
  <2> QED
    BY <1>1, <1>2, NatInduction1
<1>4. \A i \in 1..Len(ss) : f[i] = g[i]
  BY <1>3
<1>5. DOMAIN f = 1..Len(ss) /\ DOMAIN g = 1..Len(ss)
  BY DEF Joins
<1>6. f = [i \in DOMAIN f |-> f[i]] /\ g = [i \in DOMAIN g |-> g[i]]
  BY DEF Joins
<1> QED
  BY <1>4, <1>5, <1>6

LEMMA FlattenIs ==
    ASSUME NEW A, NEW ss \in Seq(Seq(A)), NEW f, Joins(ss, f), Len(ss) # 0
    PROVE  FlattenSeq(ss) = f[Len(ss)]
<1> DEFINE F == CHOOSE h : Joins(ss, h)
<1>1. FlattenSeq(ss) = F[Len(ss)]
  BY DEF FlattenSeq, Joins
<1>2. Joins(ss, F)
  BY JoinsExist, Zenon
<1> QED
  BY <1>1, <1>2, JoinsUnique

LEMMA FlattenEmpty == FlattenSeq(<<>>) = <<>>
BY DEF FlattenSeq

LEMMA FlattenAppend ==
    ASSUME NEW A, NEW ss \in Seq(Seq(A)), NEW s \in Seq(A)
    PROVE  /\ FlattenSeq(ss) \in Seq(A)
           /\ FlattenSeq(Append(ss, s)) = FlattenSeq(ss) \o s
<1> DEFINE tt == Append(ss, s)
<1>1. /\ tt \in Seq(Seq(A)) /\ Len(tt) = Len(ss) + 1 /\ Len(ss) \in Nat
      /\ tt[Len(tt)] = s /\ \A i \in 1..Len(ss) : tt[i] = ss[i]
  OBVIOUS
<1> HIDE DEF tt
<1>2. PICK f \in [1..Len(tt) -> Seq(A)] : Joins(tt, f)
  BY <1>1, JoinsExist
<1>3. FlattenSeq(tt) = f[Len(tt)]
  BY <1>1, <1>2, FlattenIs
<1>6. \A i \in 1..Len(tt) : f[i] = IF i = 1 THEN tt[i] ELSE f[i - 1] \o tt[i]
  BY <1>2, JoinsAt
<1>4. CASE Len(ss) = 0
  <2>1. ss = <<>> /\ f[Len(tt)] = s
    BY <1>1, <1>2, <1>4, JoinsAt
  <2>2. <<>> \o s = s /\ <<>> \in Seq(A)
    BY ConcatEmptySeq
  <2>3. FlattenSeq(ss) = <<>> /\ FlattenSeq(tt) = s
    BY <1>3, <2>1, FlattenEmpty
  <2> QED
    BY <2>2, <2>3 DEF tt
<1>5. CASE Len(ss) # 0
  <2> DEFINE g == [i \in 1..Len(ss) |-> f[i]]
  <2>1. Joins(ss, g)
    <3>1. ASSUME NEW i \in 1..Len(ss)
          PROVE  f[i] = IF i = 1 THEN ss[i] ELSE g[i - 1] \o ss[i]
      <4>1. i \in 1..Len(tt) /\ (i # 1 => i - 1 \in 1..Len(ss))
        BY <1>1
      <4> QED
        BY <1>1, <1>6, <4>1
    <3> QED
      BY <3>1 DEF Joins
  <2>2. g[Len(ss)] = f[Len(ss)] /\ f[Len(ss)] \in Seq(A)
    BY <1>1, <1>5
  <2> HIDE DEF g
  <2>3. FlattenSeq(ss) = f[Len(ss)]
    BY <1>5, <2>1, <2>2, FlattenIs
  <2>4. f[Len(tt)] = f[Len(ss)] \o s
    <3>1. Len(tt) \in 1..Len(tt) /\ Len(tt) # 1 /\ Len(tt) - 1 = Len(ss)
      BY <1>1, <1>5
    <3> QED
      BY <1>1, <1>6, <3>1
  <2> QED
    BY <1>3, <2>2, <2>3, <2>4 DEF tt
<1> QED
  BY <1>4, <1>5

LEMMA FlattenConcat ==
    ASSUME NEW A, NEW ss \in Seq(Seq(A)), NEW tt \in Seq(Seq(A))
    PROVE  FlattenSeq(ss \o tt) = FlattenSeq(ss) \o FlattenSeq(tt)
<1> DEFINE T == {uu \in Seq(Seq(A)) : FlattenSeq(ss \o uu) = FlattenSeq(ss) \o FlattenSeq(uu)}
<1>0. \A uu \in Seq(Seq(A)) : FlattenSeq(uu) \in Seq(A)
  <2>1. <<>> \in Seq(A)
    OBVIOUS
  <2> QED
    BY <2>1, FlattenAppend
<1>1. <<>> \in T
  <2>1. ss \o <<>> = ss /\ FlattenSeq(ss) \o <<>> = FlattenSeq(ss) /\ <<>> \in Seq(Seq(A))
    BY <1>0, ConcatEmptySeq
  <2> QED
    BY <2>1, FlattenEmpty
<1>2. ASSUME NEW uu \in Seq(Seq(A)), NEW s \in Seq(A), uu \in T PROVE Append(uu, s) \in T
  <2>1. ss \o Append(uu, s) = Append(ss \o uu, s) /\ ss \o uu \in Seq(Seq(A))
        /\ Append(uu, s) \in Seq(Seq(A))
    BY SMTT(30)
  <2>2. FlattenSeq(ss \o Append(uu, s)) = (FlattenSeq(ss) \o FlattenSeq(uu)) \o s
    BY ZenonT(30), <1>2, <2>1, FlattenAppend
  <2>3. FlattenSeq(Append(uu, s)) = FlattenSeq(uu) \o s
    BY FlattenAppend
  <2>4. (FlattenSeq(ss) \o FlattenSeq(uu)) \o s = FlattenSeq(ss) \o (FlattenSeq(uu) \o s)
    <3>1. FlattenSeq(ss) \in Seq(A) /\ FlattenSeq(uu) \in Seq(A)
      BY <1>0
    <3> QED
      BY SMTT(30), <3>1, ConcatAssociative
  <2> QED
    BY <2>1, <2>2, <2>3, <2>4
<1> HIDE DEF T
<1>3. Seq(Seq(A)) \subseteq T
  BY <1>1, <1>2, SeqInduction
<1> QED
  BY <1>3 DEF T

LEMMA FlattenTypes == \A A : \A ss \in Seq(Seq(A)) : FlattenSeq(ss) \in Seq(A)
<1> SUFFICES ASSUME NEW A, NEW ss \in Seq(Seq(A)) PROVE FlattenSeq(ss) \in Seq(A)
  OBVIOUS
<1>1. <<>> \in Seq(A)
  OBVIOUS
<1> QED
  BY <1>1, FlattenAppend

-----------------------------------------------------------------------------
(* Select. *)

Taken(s, S) == [k \in DOMAIN s |-> IF s[k] \in S THEN <<s[k]>> ELSE <<>>]

LEMMA SelectIs == \A s, S : Select(s, S) = FlattenSeq(Taken(s, S))
BY DEF Select, Taken

LEMMA TakenLists ==
    ASSUME NEW A, NEW s \in Seq(A), NEW S
    PROVE  Taken(s, S) \in Seq(Seq(A))
<1>1. \A k \in 1..Len(s) : (IF s[k] \in S THEN <<s[k]>> ELSE <<>>) \in Seq(A)
  OBVIOUS
<1>2. Taken(s, S) \in [1..Len(s) -> Seq(A)]
  BY <1>1 DEF Taken
<1> QED
  BY <1>2, SeqDef

LEMMA TakenAppend ==
    ASSUME NEW A, NEW s \in Seq(A), NEW e \in A, NEW S
    PROVE  Taken(Append(s, e), S) = Append(Taken(s, S), IF e \in S THEN <<e>> ELSE <<>>)
<1> DEFINE t == Append(s, e)
           x == IF e \in S THEN <<e>> ELSE <<>>
<1>1. t \in Seq(A) /\ Len(t) = Len(s) + 1 /\ Len(s) \in Nat
      /\ t[Len(s) + 1] = e /\ \A k \in 1..Len(s) : t[k] = s[k]
  OBVIOUS
<1>2. x \in Seq(A)
  OBVIOUS
<1>3. Taken(s, S) \in Seq(Seq(A)) /\ Taken(t, S) \in Seq(Seq(A))
  BY <1>1, TakenLists
<1>4. Len(Taken(s, S)) = Len(s) /\ Len(Taken(t, S)) = Len(s) + 1
  BY <1>1, <1>3 DEF Taken
<1>5. /\ \A k \in 1..Len(s) : Taken(t, S)[k] = Taken(s, S)[k]
      /\ Taken(t, S)[Len(s) + 1] = x
  BY <1>1 DEF Taken
<1> HIDE DEF t, x
<1>6. /\ Append(Taken(s, S), x) \in Seq(Seq(A))
      /\ Len(Append(Taken(s, S), x)) = Len(s) + 1
      /\ \A k \in 1..Len(s) : Append(Taken(s, S), x)[k] = Taken(s, S)[k]
      /\ Append(Taken(s, S), x)[Len(s) + 1] = x
  BY <1>2, <1>3, <1>4, AppendProperties
<1>7. \A k \in 1..Len(s) + 1 : Taken(t, S)[k] = Append(Taken(s, S), x)[k]
  <2>1. \A k \in 1..Len(s) + 1 : k \in 1..Len(s) \/ k = Len(s) + 1
    BY <1>1
  <2> QED
    BY <2>1, <1>5, <1>6
<1>8. Taken(t, S) = Append(Taken(s, S), x)
  BY <1>3, <1>4, <1>6, <1>7, SeqEqual
<1> QED
  BY <1>8 DEF t, x

LEMMA SelectEmpty == \A S : Select(<<>>, S) = <<>>
<1> SUFFICES ASSUME NEW S PROVE Select(<<>>, S) = <<>>
  OBVIOUS
<1>1. Taken(<<>>, S) \in Seq(Seq({})) /\ Len(Taken(<<>>, S)) = 0
  <2>1. <<>> \in Seq({}) /\ DOMAIN <<>> = 1..0
    OBVIOUS
  <2>2. Taken(<<>>, S) \in Seq(Seq({})) /\ DOMAIN Taken(<<>>, S) = 1..0
    BY <2>1, TakenLists DEF Taken
  <2> QED
    BY <2>2
<1>2. Taken(<<>>, S) = <<>>
  BY <1>1
<1> QED
  BY <1>2, SelectIs, FlattenEmpty

LEMMA SelectAppend ==
    ASSUME NEW A, NEW s \in Seq(A), NEW e \in A, NEW S
    PROVE  /\ Select(s, S) \in Seq(A)
           /\ Select(Append(s, e), S) = IF e \in S THEN Append(Select(s, S), e) ELSE Select(s, S)
<1> DEFINE x == IF e \in S THEN <<e>> ELSE <<>>
<1>1. x \in Seq(A) /\ Taken(s, S) \in Seq(Seq(A))
  BY TakenLists
<1>2. Select(s, S) \in Seq(A)
  BY <1>1, FlattenTypes, SelectIs
<1>3. Select(Append(s, e), S) = Select(s, S) \o x
  <2>1. Taken(Append(s, e), S) = Append(Taken(s, S), x)
    BY TakenAppend
  <2>2. FlattenSeq(Append(Taken(s, S), x)) = FlattenSeq(Taken(s, S)) \o x
    BY <1>1, FlattenAppend
  <2> QED
    BY <2>1, <2>2, SelectIs
<1>4. Select(s, S) \o <<>> = Select(s, S) /\ Select(s, S) \o <<e>> = Append(Select(s, S), e)
  BY <1>2, ConcatEmptySeq, AppendIsConcat
<1> QED
  BY <1>2, <1>3, <1>4

LEMMA SelectTypes == \A A, S : \A s \in Seq(A) : Select(s, S) \in Seq(A)
BY TakenLists, FlattenTypes, SelectIs

LEMMA ConcatAppend ==
    \A A : \A s, t \in Seq(A), e \in A : s \o Append(t, e) = Append(s \o t, e)
OBVIOUS

LEMMA ConcatAssoc ==
    \A A : \A s, t, u \in Seq(A) : (s \o t) \o u = s \o (t \o u)
<1> SUFFICES ASSUME NEW A, NEW s \in Seq(A), NEW t \in Seq(A), NEW u \in Seq(A)
             PROVE  (s \o t) \o u = s \o (t \o u)
  OBVIOUS
<1> DEFINE a == (s \o t) \o u
           b == s \o (t \o u)
<1>1. s \o t \in Seq(A) /\ t \o u \in Seq(A)
  OBVIOUS
<1>2. a \in Seq(A) /\ b \in Seq(A)
  BY <1>1
<1>3. Len(a) = Len(b)
  OBVIOUS
<1>4. \A k \in 1..Len(a) : a[k] = b[k]
  BY SMTT(30)
<1> HIDE DEF a, b
<1>5. a = b
  BY <1>2, <1>3, <1>4, SeqEqual
<1> QED
  BY <1>5 DEF a, b

(* As an operator of its own, for the provers to take lists as they are. *)
Cat(s, t) == s \o t

LEMMA CatAssoc ==
    \A A : \A s, t, u \in Seq(A) : Cat(Cat(s, t), u) = Cat(s, Cat(t, u))
BY ConcatAssoc DEF Cat

LEMMA SetAppend ==
    ASSUME NEW A, NEW s \in Seq(A), NEW e \in A
    PROVE  /\ ToSet(Append(s, e)) = ToSet(s) \cup {e}
           /\ IsInjective(Append(s, e)) <=> IsInjective(s) /\ e \notin ToSet(s)
<1> DEFINE t == Append(s, e)
<1>1. /\ DOMAIN s = 1..Len(s) /\ DOMAIN t = 1..Len(s) + 1 /\ Len(s) \in Nat
      /\ t[Len(s) + 1] = e /\ \A k \in 1..Len(s) : t[k] = s[k]
  OBVIOUS
<1> HIDE DEF t
<1>2. \A k \in 1..Len(s) + 1 : k \in 1..Len(s) \/ k = Len(s) + 1
  BY <1>1
<1>3. ToSet(t) = ToSet(s) \cup {e}
  BY <1>1, <1>2 DEF ToSet
<1>4. IsInjective(t) => IsInjective(s) /\ e \notin ToSet(s)
  <2>1. ASSUME IsInjective(t), NEW k \in 1..Len(s), s[k] = e PROVE FALSE
    <3>1. k \in DOMAIN t /\ Len(s) + 1 \in DOMAIN t /\ k # Len(s) + 1
      BY <1>1
    <3> QED
      BY <1>1, <2>1, <3>1 DEF IsInjective
  <2>2. ASSUME IsInjective(t), NEW j \in 1..Len(s), NEW k \in 1..Len(s), s[j] = s[k] PROVE j = k
    BY <1>1, <2>2 DEF IsInjective
  <2> QED
    BY <1>1, <2>1, <2>2 DEF IsInjective, ToSet
<1>5. IsInjective(s) /\ e \notin ToSet(s) => IsInjective(t)
  BY <1>1, <1>2 DEF IsInjective, ToSet
<1> QED
  BY <1>3, <1>4, <1>5 DEF t

LEMMA SetConcat ==
    ASSUME NEW A, NEW s \in Seq(A), NEW t \in Seq(A)
    PROVE  ToSet(s \o t) = ToSet(s) \cup ToSet(t)
<1> DEFINE T == {u \in Seq(A) : ToSet(s \o u) = ToSet(s) \cup ToSet(u)}
<1>1. <<>> \in T
  <2>1. s \o <<>> = s /\ <<>> \in Seq(A)
    BY ConcatEmptySeq
  <2>2. ToSet(<<>>) = {}
    BY DEF ToSet
  <2> QED
    BY <2>1, <2>2
<1>2. ASSUME NEW u \in Seq(A), NEW e \in A, u \in T PROVE Append(u, e) \in T
  <2>0. s \o u \in Seq(A) /\ Append(u, e) \in Seq(A)
    OBVIOUS
  <2>1. s \o Append(u, e) = Append(s \o u, e)
    BY ConcatAppend
  <2>2. ToSet(s \o u) = ToSet(s) \cup ToSet(u)
    BY <1>2
  <2> HIDE DEF T
  <2>3. ToSet(Append(s \o u, e)) = ToSet(s \o u) \cup {e}
    <3> DEFINE v == s \o u
    <3>1. v \in Seq(A)
      BY <2>0
    <3> HIDE DEF v
    <3>2. ToSet(Append(v, e)) = ToSet(v) \cup {e}
      BY <3>1, SetAppend
    <3> QED
      BY <3>2 DEF v
  <2>4. ToSet(Append(u, e)) = ToSet(u) \cup {e}
    BY SetAppend
  <2>5. ToSet(s \o Append(u, e)) = ToSet(s) \cup ToSet(Append(u, e))
    BY <2>1, <2>2, <2>3, <2>4
  <2> QED
    BY <2>0, <2>5 DEF T
<1> HIDE DEF T
<1>3. Seq(A) \subseteq T
  BY <1>1, <1>2, SeqInduction
<1> QED
  BY <1>3 DEF T

LEMMA InjectiveConcat ==
    ASSUME NEW A, NEW s \in Seq(A), NEW t \in Seq(A)
    PROVE  IsInjective(s \o t)
              <=> IsInjective(s) /\ IsInjective(t) /\ ToSet(s) \cap ToSet(t) = {}
<1> DEFINE T == {u \in Seq(A) : IsInjective(s \o u)
              <=> IsInjective(s) /\ IsInjective(u) /\ ToSet(s) \cap ToSet(u) = {}}
<1>1. <<>> \in T
  <2>1. s \o <<>> = s /\ <<>> \in Seq(A)
    BY ConcatEmptySeq
  <2>2. IsInjective(<<>>) /\ ToSet(<<>>) = {}
    BY DEF IsInjective, ToSet
  <2> QED
    BY <2>1, <2>2
<1>2. ASSUME NEW u \in Seq(A), NEW e \in A, u \in T PROVE Append(u, e) \in T
  <2>1. s \o u \in Seq(A) /\ Append(u, e) \in Seq(A) /\ s \o Append(u, e) = Append(s \o u, e)
    BY ConcatAppend
  <2>2. IsInjective(s \o u)
           <=> IsInjective(s) /\ IsInjective(u) /\ ToSet(s) \cap ToSet(u) = {}
    BY <1>2
  <2> HIDE DEF T
  <2>3. IsInjective(Append(s \o u, e)) <=> IsInjective(s \o u) /\ e \notin ToSet(s \o u)
    BY <2>1, SetAppend
  <2>4. /\ IsInjective(Append(u, e)) <=> IsInjective(u) /\ e \notin ToSet(u)
        /\ ToSet(Append(u, e)) = ToSet(u) \cup {e}
    BY SetAppend
  <2>5. ToSet(s \o u) = ToSet(s) \cup ToSet(u)
    BY SetConcat
  <2>6. IsInjective(s \o Append(u, e))
           <=> IsInjective(s) /\ IsInjective(Append(u, e)) /\ ToSet(s) \cap ToSet(Append(u, e)) = {}
    BY <2>1, <2>2, <2>3, <2>4, <2>5
  <2> QED
    BY <2>1, <2>6 DEF T
<1> HIDE DEF T
<1>3. Seq(A) \subseteq T
  BY <1>1, <1>2, SeqInduction
<1> QED
  BY <1>3 DEF T

LEMMA SelectSet ==
    ASSUME NEW A, NEW S, NEW s \in Seq(A)
    PROVE  ToSet(Select(s, S)) = ToSet(s) \cap S
<1> DEFINE T == {t \in Seq(A) : ToSet(Select(t, S)) = ToSet(t) \cap S}
<1>1. <<>> \in T
  BY SelectEmpty DEF ToSet
<1>2. ASSUME NEW t \in Seq(A), NEW e \in A, t \in T PROVE Append(t, e) \in T
  <2>1. ToSet(Append(t, e)) = ToSet(t) \cup {e}
    BY SetAppend
  <2>2. ToSet(Append(Select(t, S), e)) = ToSet(Select(t, S)) \cup {e}
    BY SetAppend, SelectTypes
  <2>3. Select(Append(t, e), S) = IF e \in S THEN Append(Select(t, S), e) ELSE Select(t, S)
    BY SelectAppend
  <2>4. ToSet(Select(t, S)) = ToSet(t) \cap S /\ Append(t, e) \in Seq(A)
    BY <1>2
  <2> QED
    BY <2>1, <2>2, <2>3, <2>4
<1> HIDE DEF T
<1>3. Seq(A) \subseteq T
  BY <1>1, <1>2, SeqInduction
<1> QED
  BY <1>3 DEF T

LEMMA SelectInjective ==
    ASSUME NEW A, NEW S, NEW s \in Seq(A), IsInjective(s)
    PROVE  IsInjective(Select(s, S))
<1> DEFINE T == {t \in Seq(A) : IsInjective(t) => IsInjective(Select(t, S))}
<1>1. <<>> \in T
  BY SelectEmpty
<1>2. ASSUME NEW t \in Seq(A), NEW e \in A, t \in T PROVE Append(t, e) \in T
  <2>1. SUFFICES ASSUME IsInjective(Append(t, e)) PROVE IsInjective(Select(Append(t, e), S))
    OBVIOUS
  <2>2. IsInjective(t) /\ e \notin ToSet(t)
    BY <2>1, SetAppend
  <2>3. IsInjective(Select(t, S)) /\ e \notin ToSet(Select(t, S))
    BY <1>2, <2>2, SelectSet
  <2>4. IsInjective(Append(Select(t, S), e))
    BY <2>3, SetAppend, SelectTypes
  <2>5. Select(Append(t, e), S) = IF e \in S THEN Append(Select(t, S), e) ELSE Select(t, S)
    BY SelectAppend
  <2> QED
    BY <2>3, <2>4, <2>5
<1> HIDE DEF T
<1>3. Seq(A) \subseteq T
  BY <1>1, <1>2, SeqInduction
<1> QED
  BY <1>3 DEF T

LEMMA SelectStep ==
    \A A, S : \A s \in Seq(A), e \in A :
        /\ e \in S => Select(Append(s, e), S) = Append(Select(s, S), e)
        /\ e \notin S => Select(Append(s, e), S) = Select(s, S)
<1> SUFFICES ASSUME NEW A, NEW S, NEW s \in Seq(A), NEW e \in A
             PROVE  /\ e \in S => Select(Append(s, e), S) = Append(Select(s, S), e)
                    /\ e \notin S => Select(Append(s, e), S) = Select(s, S)
  OBVIOUS
<1>1. Select(Append(s, e), S) = IF e \in S THEN Append(Select(s, S), e) ELSE Select(s, S)
  BY SelectAppend
<1> QED
  BY <1>1

LEMMA SelectConcat ==
    ASSUME NEW A, NEW S, NEW s \in Seq(A), NEW t \in Seq(A)
    PROVE  Select(s \o t, S) = Select(s, S) \o Select(t, S)
<1> DEFINE T == {u \in Seq(A) : Select(s \o u, S) = Select(s, S) \o Select(u, S)}
<1>1. <<>> \in T
  <2>1. s \o <<>> = s /\ Select(s, S) \o <<>> = Select(s, S)
    BY ConcatEmptySeq, SelectTypes
  <2>2. Select(<<>>, S) = <<>> /\ <<>> \in Seq(A)
    BY SelectEmpty
  <2> QED
    BY <2>1, <2>2
<1>2. ASSUME NEW u \in Seq(A), NEW e \in A, u \in T PROVE Append(u, e) \in T
  <2>1. s \o u \in Seq(A) /\ Append(u, e) \in Seq(A)
    OBVIOUS
  <2>2. Select(s, S) \in Seq(A) /\ Select(u, S) \in Seq(A)
    BY SelectTypes
  <2>3. Select(s \o u, S) = Select(s, S) \o Select(u, S)
    BY <1>2
  <2> HIDE DEF T
  <2>4. s \o Append(u, e) = Append(s \o u, e)
    BY ConcatAppend
  <2>5. Select(s, S) \o Append(Select(u, S), e) = Append(Select(s, S) \o Select(u, S), e)
    BY <2>2, ConcatAppend
  <2>6. /\ e \in S => Select(Append(s \o u, e), S) = Append(Select(s \o u, S), e)
        /\ e \notin S => Select(Append(s \o u, e), S) = Select(s \o u, S)
    BY <2>1, SelectStep, Zenon
  <2>7. /\ e \in S => Select(Append(u, e), S) = Append(Select(u, S), e)
        /\ e \notin S => Select(Append(u, e), S) = Select(u, S)
    BY SelectStep, Zenon
  <2>8. Select(s \o Append(u, e), S) = Select(s, S) \o Select(Append(u, e), S)
    BY <2>3, <2>4, <2>5, <2>6, <2>7
  <2> QED
    BY <2>1, <2>8 DEF T
<1> HIDE DEF T
<1>3. Seq(A) \subseteq T
  BY <1>1, <1>2, SeqInduction
<1> QED
  BY <1>3 DEF T

LEMMA SelectCat ==
    \A A, S : \A s, t \in Seq(A) : Select(Cat(s, t), S) = Cat(Select(s, S), Select(t, S))
<1> SUFFICES ASSUME NEW A, NEW S, NEW s \in Seq(A), NEW t \in Seq(A)
             PROVE  Select(Cat(s, t), S) = Cat(Select(s, S), Select(t, S))
  OBVIOUS
<1>1. Select(s \o t, S) = Select(s, S) \o Select(t, S)
  BY SelectConcat
<1> QED
  BY <1>1 DEF Cat

(* What is selected from a list twice over is selected once. *)
LEMMA SelectSplit ==
    ASSUME NEW A, NEW S, NEW U, S \cap U = {}, NEW s \in Seq(A)
    PROVE  Len(Select(s, S \cup U)) = Len(Select(s, S)) + Len(Select(s, U))
<1> DEFINE T == {t \in Seq(A) : Len(Select(t, S \cup U)) = Len(Select(t, S)) + Len(Select(t, U))}
<1>1. <<>> \in T
  <2>1. Len(<<>>) = 0 /\ <<>> \in Seq(A)
    OBVIOUS
  <2> QED
    BY <2>1, SelectEmpty
<1>2. ASSUME NEW t \in Seq(A), NEW e \in A, t \in T PROVE Append(t, e) \in T
  <2>1. \A V : Select(t, V) \in Seq(A)
    BY SelectTypes
  <2>2. \A V : Len(Select(t, V)) \in Nat
    BY <2>1
  <2>3. ASSUME NEW V PROVE Len(Select(Append(t, e), V)) = Len(Select(t, V)) + IF e \in V THEN 1 ELSE 0
    <3>1. Len(Append(Select(t, V), e)) = Len(Select(t, V)) + 1
      BY <2>1
    <3> QED
      BY <2>2, <3>1, SelectStep
  <2>4. Len(Select(t, S \cup U)) = Len(Select(t, S)) + Len(Select(t, U)) /\ Append(t, e) \in Seq(A)
    BY <1>2
  <2>5. (e \in S \cup U <=> e \in S \/ e \in U) /\ ~(e \in S /\ e \in U)
    OBVIOUS
  <2> HIDE DEF T
  <2>6. Len(Select(Append(t, e), S \cup U))
          = Len(Select(Append(t, e), S)) + Len(Select(Append(t, e), U))
    BY <2>2, <2>3, <2>4, <2>5
  <2> QED
    BY <2>4, <2>6 DEF T
<1> HIDE DEF T
<1>3. Seq(A) \subseteq T
  BY <1>1, <1>2, SeqInduction
<1> QED
  BY <1>3 DEF T

LEMMA SelectAll ==
    ASSUME NEW A, NEW S, NEW s \in Seq(A), ToSet(s) \subseteq S
    PROVE  Select(s, S) = s
<1> DEFINE T == {t \in Seq(A) : ToSet(t) \subseteq S => Select(t, S) = t}
<1>1. <<>> \in T
  BY SelectEmpty
<1>2. ASSUME NEW t \in Seq(A), NEW e \in A, t \in T PROVE Append(t, e) \in T
  <2>1. SUFFICES ASSUME ToSet(Append(t, e)) \subseteq S PROVE Select(Append(t, e), S) = Append(t, e)
    OBVIOUS
  <2>2. ToSet(t) \subseteq S /\ e \in S
    BY <2>1, SetAppend
  <2>3. Select(t, S) = t
    BY <1>2, <2>2
  <2> QED
    BY <2>2, <2>3, SelectStep
<1> HIDE DEF T
<1>3. Seq(A) \subseteq T
  BY <1>1, <1>2, SeqInduction
<1> QED
  BY <1>3 DEF T

(* The first elements of two lists joined. *)
LEMMA PrefixWithin ==
    ASSUME NEW A, NEW s \in Seq(A), NEW t \in Seq(A), NEW n \in Nat, n <= Len(s)
    PROVE  /\ SubSeq(s \o t, 1, n) \in Seq(A) /\ DOMAIN SubSeq(s \o t, 1, n) = 1..n
           /\ \A k \in 1..n : SubSeq(s \o t, 1, n)[k] = s[k] /\ k \in DOMAIN s
<1>1. s \o t \in Seq(A) /\ Len(s \o t) = Len(s) + Len(t) /\ Len(s) \in Nat /\ Len(t) \in Nat
      /\ DOMAIN s = 1..Len(s) /\ \A k \in 1..Len(s) : (s \o t)[k] = s[k]
  OBVIOUS
<1> DEFINE u == s \o t
<1> HIDE DEF u
<1>2. u \in Seq(A) /\ n <= Len(u) /\ \A k \in 1..n : u[k] = s[k] /\ k \in DOMAIN s
  BY <1>1 DEF u
<1>3. SubSeq(u, 1, n) \in Seq(A) /\ DOMAIN SubSeq(u, 1, n) = 1..n
      /\ \A k \in 1..n : SubSeq(u, 1, n)[k] = u[k]
  BY <1>2
<1> QED
  BY <1>2, <1>3 DEF u

LEMMA PrefixBeyond ==
    ASSUME NEW A, NEW s \in Seq(A), NEW t \in Seq(A), NEW n \in Nat,
           Len(s) <= n, n <= Len(s) + Len(t)
    PROVE  /\ SubSeq(t, 1, n - Len(s)) \in Seq(A)
           /\ SubSeq(s \o t, 1, n) = s \o SubSeq(t, 1, n - Len(s))
<1> DEFINE u == s \o t
           w == SubSeq(t, 1, n - Len(s))
           p == SubSeq(u, 1, n)
           q == s \o w
<1>1. u \in Seq(A) /\ Len(u) = Len(s) + Len(t) /\ Len(s) \in Nat /\ Len(t) \in Nat
      /\ \A k \in 1..Len(u) : u[k] = IF k <= Len(s) THEN s[k] ELSE t[k - Len(s)]
  OBVIOUS
<1>2. w \in Seq(A) /\ Len(w) = n - Len(s) /\ \A k \in 1..n - Len(s) : w[k] = t[k]
  OBVIOUS
<1> HIDE DEF u, w
<1>3. p \in Seq(A) /\ Len(p) = n /\ \A k \in 1..n : p[k] = u[k]
  BY <1>1
<1>4. q \in Seq(A) /\ Len(q) = n
      /\ \A k \in 1..n : q[k] = IF k <= Len(s) THEN s[k] ELSE w[k - Len(s)]
  BY <1>1, <1>2
<1> HIDE DEF p, q
<1>5. \A k \in 1..n : p[k] = q[k]
  <2> SUFFICES ASSUME NEW k \in 1..n PROVE p[k] = q[k]
    OBVIOUS
  <2>1. k \in 1..Len(u) /\ p[k] = u[k]
    BY <1>1, <1>3
  <2>2. CASE k <= Len(s)
    BY <1>1, <1>4, <2>1, <2>2
  <2>3. CASE k > Len(s)
    <3>1. k - Len(s) \in 1..n - Len(s) /\ ~(k <= Len(s))
      BY <1>1, <2>3
    <3>2. w[k - Len(s)] = t[k - Len(s)]
      BY <1>2, <3>1
    <3> QED
      BY <1>1, <1>4, <2>1, <3>1, <3>2
  <2> QED
    BY <1>1, <2>2, <2>3
<1>6. p = q
  BY <1>3, <1>4, <1>5
<1> QED
  BY <1>2, <1>6 DEF p, q, u, w
=============================================================================
