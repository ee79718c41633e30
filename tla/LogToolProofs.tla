---------------------------- MODULE LogToolProofs ----------------------------
(***************************************************************************)
(* Theorems about the logs tool, for numbers and texts of any length and   *)
(* any number of entries: numbers are taken exactly or refused, texts are  *)
(* cut between characters, and the newest entries are shown.               *)
(***************************************************************************)
EXTENDS LogTool, SubsequenceProofs

-----------------------------------------------------------------------------
(* FoldLeft recurs over the sets of positions, from the last one back.     *)
(* What it makes of the first k elements, for k up to Len(s), are the      *)
(* values at 1..k of a function that folds; F is the operation folded.     *)

LEMMA MaxIs == \A t : \A x \in t : (\A y \in t : x \in Int /\ y \in Int /\ y <= x) => Max(t) = x
<1> SUFFICES ASSUME NEW t, NEW x \in t, \A y \in t : x \in Int /\ y \in Int /\ y <= x
             PROVE  Max(t) = x
  OBVIOUS
<1> DEFINE P(m) == m \in t /\ \A y \in t : m >= y
<1>1. P(x)
  OBVIOUS
<1>2. P(CHOOSE m : P(m))
  BY <1>1, Zenon
<1>3. Max(t) = CHOOSE m : P(m)
  BY DEF Max
<1>4. \A m : P(m) => m = x
  OBVIOUS
<1> HIDE DEF P
<1> QED
  BY <1>2, <1>3, <1>4

LEMMA MaxIn ==
    ASSUME NEW n \in Nat, NEW t \in SUBSET (1..n), t # {}
    PROVE  Max(t) \in t /\ \A y \in t : y <= Max(t)
<1> DEFINE U == {n - y : y \in t}
<1>1. U \subseteq Nat /\ U # {}
  <2>1. \A y \in t : n - y \in Nat
    OBVIOUS
  <2> QED
    BY <2>1
<1>2. PICK d \in U : \A e \in U : d <= e
  BY <1>1, Least
<1>3. PICK x \in t : d = n - x
  BY <1>2
<1>4. \A y \in t : x \in Int /\ y \in Int /\ y <= x
  <2> SUFFICES ASSUME NEW y \in t PROVE x \in Int /\ y \in Int /\ y <= x
    OBVIOUS
  <2>1. n - y \in U /\ x \in 1..n /\ y \in 1..n
    OBVIOUS
  <2> HIDE DEF U
  <2> QED
    BY <1>2, <1>3, <2>1
<1> QED
  BY <1>4, MaxIs

Folds(s, n, base, F, f) ==
    \A t \in SUBSET (1..n) :
        f[t] = IF t = {} THEN base ELSE F[<<f[t \ {Max(t)}], s[Max(t)]>>]

Folding(A, B, base, F) == base \in A /\ F \in [A \X B -> A]

LEMMA FoldsMore ==
    ASSUME NEW A, NEW B, NEW base, NEW F, Folding(A, B, base, F),
           NEW s \in Seq(B), NEW n \in Nat, n + 1 <= Len(s),
           NEW g \in [SUBSET (1..n) -> A], Folds(s, n, base, F, g)
    PROVE  \E f \in [SUBSET (1..n + 1) -> A] : Folds(s, n + 1, base, F, f)
<1> USE DEF Folding
<1> DEFINE f == [t \in SUBSET (1..n + 1) |->
                    IF n + 1 \in t THEN F[<<g[t \ {n + 1}], s[n + 1]>>] ELSE g[t]]
<1>1. \A t \in SUBSET (1..n + 1) : t \ {n + 1} \in SUBSET (1..n)
  OBVIOUS
<1>2. \A t \in SUBSET (1..n + 1) : n + 1 \notin t => t \in SUBSET (1..n)
  OBVIOUS
<1>3. s[n + 1] \in B
  OBVIOUS
<1>4. f \in [SUBSET (1..n + 1) -> A]
  <2> SUFFICES ASSUME NEW t \in SUBSET (1..n + 1)
               PROVE  (IF n + 1 \in t THEN F[<<g[t \ {n + 1}], s[n + 1]>>] ELSE g[t]) \in A
    BY Zenon
  <2>1. CASE n + 1 \in t
    <3>1. g[t \ {n + 1}] \in A
      BY <1>1
    <3> QED
      BY <1>3, <2>1, <3>1
  <2>2. CASE n + 1 \notin t
    BY <1>2, <2>2
  <2> QED
    BY <2>1, <2>2
<1>5. ASSUME NEW t \in SUBSET (1..n + 1)
      PROVE  f[t] = IF t = {} THEN base ELSE F[<<f[t \ {Max(t)}], s[Max(t)]>>]
  <2>1. CASE n + 1 \in t
    <3>0. \A y \in t : n + 1 \in Int /\ y \in Int /\ y <= n + 1
      OBVIOUS
    <3>1. Max(t) = n + 1
      BY <2>1, <3>0, MaxIs
    <3>2. t \ {n + 1} \in SUBSET (1..n + 1) /\ n + 1 \notin t \ {n + 1}
      OBVIOUS
    <3>3. f[t \ {n + 1}] = g[t \ {n + 1}]
      BY <3>2, Zenon
    <3> QED
      BY <2>1, <3>1, <3>3
  <2>2. CASE n + 1 \notin t
    <3>1. t \in SUBSET (1..n) /\ f[t] = g[t]
      BY <1>2, <2>2
    <3>2. t \ {Max(t)} \in SUBSET (1..n + 1) /\ n + 1 \notin t \ {Max(t)}
      BY <2>2
    <3>3. f[t \ {Max(t)}] = g[t \ {Max(t)}]
      BY <3>2, Zenon
    <3> HIDE DEF f
    <3> QED
      BY <3>1, <3>3 DEF Folds
  <2> QED
    BY <2>1, <2>2
<1> HIDE DEF f
<1> QED
  BY <1>4, <1>5 DEF Folds

LEMMA FoldsExist ==
    ASSUME NEW A, NEW B, NEW base, NEW F, Folding(A, B, base, F), NEW s \in Seq(B)
    PROVE  \E f \in [SUBSET (1..Len(s)) -> A] : Folds(s, Len(s), base, F, f)
<1> DEFINE T == {n \in Nat : n <= Len(s) =>
                     \E f \in [SUBSET (1..n) -> A] : Folds(s, n, base, F, f)}
<1>1. 0 \in T
  <2> DEFINE f == [t \in SUBSET (1..0) |-> base]
  <2>1. f \in [SUBSET (1..0) -> A]
    BY DEF Folding
  <2>2. Folds(s, 0, base, F, f)
    <3>1. \A t \in SUBSET (1..0) : t = {} /\ f[t] = base
      OBVIOUS
    <3> QED
      BY <3>1 DEF Folds
  <2> QED
    BY <2>1, <2>2
<1>2. ASSUME NEW n \in Nat, n \in T PROVE n + 1 \in T
  <2>1. ASSUME n + 1 <= Len(s)
        PROVE  \E f \in [SUBSET (1..n + 1) -> A] : Folds(s, n + 1, base, F, f)
    <3>0. n <= Len(s)
      BY <2>1
    <3>1. PICK g \in [SUBSET (1..n) -> A] : Folds(s, n, base, F, g)
      BY <1>2, <3>0, Zenon
    <3> HIDE DEF T
    <3> QED
      BY <2>1, <3>1, FoldsMore, Zenon
  <2>2. n + 1 \in Nat
    OBVIOUS
  <2> QED
    BY <2>1, <2>2, Zenon
<1>3. Nat \subseteq T
  <2> HIDE DEF T
  <2> QED
    BY <1>1, <1>2, NatInduction1
<1>4. Len(s) \in Nat /\ Len(s) <= Len(s)
  OBVIOUS
<1>5. Len(s) \in T
  <2> HIDE DEF T
  <2> QED
    BY <1>3, <1>4
<1> QED
  BY <1>4, <1>5, Zenon

(* What is known of the function that FoldLeft takes: on elements of A it  *)
(* applies F.                                                              *)
Chain(A, s, base, F, f) ==
    /\ f[{}] = base
    /\ \A k \in 0..Len(s) - 1 : f[1..k] \in A => f[1..k + 1] = F[<<f[1..k], s[k + 1]>>]

LEMMA ChainTypes ==
    ASSUME NEW A, NEW B, NEW base, NEW F, Folding(A, B, base, F), NEW s \in Seq(B),
           NEW f, Chain(A, s, base, F, f)
    PROVE  \A k \in 0..Len(s) : f[1..k] \in A
<1> DEFINE T == {k \in Nat : k <= Len(s) => f[1..k] \in A}
<1>1. 0 \in T
  <2>1. 1..0 = {}
    OBVIOUS
  <2> QED
    BY <2>1 DEF Chain, Folding
<1>2. ASSUME NEW k \in Nat, k \in T PROVE k + 1 \in T
  <2> SUFFICES ASSUME k + 1 <= Len(s) PROVE f[1..k + 1] \in A
    OBVIOUS
  <2>1. k \in 0..Len(s) - 1 /\ s[k + 1] \in B /\ f[1..k] \in A
    BY <1>2
  <2>2. f[1..k + 1] = F[<<f[1..k], s[k + 1]>>]
    BY <2>1 DEF Chain
  <2> QED
    BY <2>1, <2>2 DEF Folding
<1>3. Nat \subseteq T
  <2> HIDE DEF T
  <2> QED
    BY <1>1, <1>2, NatInduction1
<1> QED
  BY <1>3

LEMMA ChainAppend ==
    ASSUME NEW A, NEW B, NEW base, NEW F, Folding(A, B, base, F),
           NEW s \in Seq(B), NEW e \in B, NEW f, NEW g,
           Chain(A, s, base, F, f), Chain(A, Append(s, e), base, F, g)
    PROVE  /\ f[1..Len(s)] \in A
           /\ g[1..Len(s) + 1] = F[<<f[1..Len(s)], e>>]
<1> DEFINE T == {k \in Nat : k <= Len(s) => g[1..k] = f[1..k]}
           r == Append(s, e)
<1>0. r \in Seq(B) /\ Len(r) = Len(s) + 1 /\ r[Len(s) + 1] = e /\ Len(s) \in Nat
      /\ \A k \in 1..Len(s) : r[k] = s[k]
  OBVIOUS
<1> HIDE DEF r
<1>6. Chain(A, r, base, F, g)
  BY DEF r
<1>4. (\A k \in 0..Len(s) : f[1..k] \in A) /\ (\A k \in 0..Len(r) : g[1..k] \in A)
  BY <1>0, <1>6, ChainTypes
<1>1. 0 \in T
  <2>1. 1..0 = {}
    OBVIOUS
  <2> QED
    BY <1>6, <2>1 DEF Chain
<1>2. ASSUME NEW k \in Nat, k \in T PROVE k + 1 \in T
  <2> SUFFICES ASSUME k + 1 <= Len(s) PROVE g[1..k + 1] = f[1..k + 1]
    OBVIOUS
  <2>1. k \in 0..Len(s) - 1 /\ k \in 0..Len(r) - 1 /\ r[k + 1] = s[k + 1] /\ g[1..k] = f[1..k]
        /\ k \in 0..Len(s) /\ k \in 0..Len(r)
    BY <1>0, <1>2
  <2>2. f[1..k + 1] = F[<<f[1..k], s[k + 1]>>]
    BY <1>4, <2>1 DEF Chain
  <2>3. g[1..k + 1] = F[<<g[1..k], r[k + 1]>>]
    BY <1>4, <1>6, <2>1 DEF Chain
  <2> QED
    BY <2>1, <2>2, <2>3
<1>3. Nat \subseteq T
  <2> HIDE DEF T
  <2> QED
    BY <1>1, <1>2, NatInduction1
<1>5. g[1..Len(s)] = f[1..Len(s)] /\ Len(s) \in 0..Len(r) - 1 /\ Len(s) \in 0..Len(s)
      /\ Len(s) \in 0..Len(r)
  BY <1>0, <1>3
<1>7. g[1..Len(s) + 1] = F[<<g[1..Len(s)], r[Len(s) + 1]>>]
  BY <1>4, <1>5, <1>6 DEF Chain
<1> QED
  BY <1>0, <1>4, <1>5, <1>7


(* The function exists, and the one that is taken is a Chain. *)
Recurs(A, B, s, base, F, f) ==
    /\ f = [t \in SUBSET DOMAIN s |-> f[t]] /\ f[{}] = base
    /\ \A t \in SUBSET DOMAIN s : t # {} =>
          /\ f[t \ {Max(t)}] \in A /\ s[Max(t)] \in B
          /\ f[t] = F[<<f[t \ {Max(t)}], s[Max(t)]>>]

LEMMA FoldsIn ==
    ASSUME NEW A, NEW B, NEW base, NEW F, Folding(A, B, base, F), NEW s \in Seq(B)
    PROVE  \E f : Recurs(A, B, s, base, F, f)
<1>1. DOMAIN s = 1..Len(s) /\ Len(s) \in Nat /\ \A k \in 1..Len(s) : s[k] \in B
  OBVIOUS
<1>2. PICK f \in [SUBSET (1..Len(s)) -> A] : Folds(s, Len(s), base, F, f)
  BY FoldsExist
<1>3. ASSUME NEW t \in SUBSET DOMAIN s, t # {}
      PROVE  /\ f[t \ {Max(t)}] \in A /\ s[Max(t)] \in B
             /\ f[t] = F[<<f[t \ {Max(t)}], s[Max(t)]>>]
  <2>1. t \ {Max(t)} \in SUBSET (1..Len(s)) /\ Max(t) \in 1..Len(s)
    BY <1>1, <1>3, MaxIn
  <2> QED
    BY <1>1, <1>2, <1>3, <2>1 DEF Folds
<1>4. f[{}] = base
  BY <1>2 DEF Folds
<1>5. f = [t \in SUBSET DOMAIN s |-> f[t]]
  BY <1>1
<1> QED
  BY <1>3, <1>4, <1>5 DEF Recurs

LEMMA UpToNext ==
    ASSUME NEW k \in Nat
    PROVE  1..k + 1 # {} /\ Max(1..k + 1) = k + 1 /\ (1..k + 1) \ {k + 1} = 1..k
<1>1. k + 1 \in 1..k + 1 /\ \A y \in 1..k + 1 : k + 1 \in Int /\ y \in Int /\ y <= k + 1
  OBVIOUS
<1>2. Max(1..k + 1) = k + 1
  BY <1>1, MaxIs
<1>3. (1..k + 1) \ {k + 1} = 1..k
  OBVIOUS
<1> QED
  BY <1>1, <1>2, <1>3

LEMMA FoldsChain ==
    ASSUME NEW A, NEW base, NEW F, NEW B, NEW s \in Seq(B), NEW f, f[{}] = base,
           \A t \in SUBSET DOMAIN s : t # {} /\ f[t \ {Max(t)}] \in A /\ s[Max(t)] \in B =>
              f[t] = F[<<f[t \ {Max(t)}], s[Max(t)]>>]
    PROVE  Chain(A, s, base, F, f)
<1>1. ASSUME NEW k \in 0..Len(s) - 1, f[1..k] \in A
      PROVE  f[1..k + 1] = F[<<f[1..k], s[k + 1]>>]
  <2>1. 1..k + 1 \in SUBSET DOMAIN s /\ s[k + 1] \in B /\ k \in Nat
    OBVIOUS
  <2>2. 1..k + 1 # {} /\ Max(1..k + 1) = k + 1 /\ (1..k + 1) \ {k + 1} = 1..k
    BY <2>1, UpToNext
  <2>3. /\ f[(1..k + 1) \ {Max(1..k + 1)}] = f[1..k]
        /\ s[Max(1..k + 1)] = s[k + 1]
    BY <2>2
  <2> QED
    BY <1>1, <2>1, <2>2, <2>3, Zenon
<1> QED
  BY <1>1 DEF Chain

-----------------------------------------------------------------------------
(* Bytes: a sum. *)

Sum == [x \in Nat \X Nat |-> x[1] + x[2]]

LEMMA SumIs == Folding(Nat, Nat, 0, Sum) /\ \A a, b \in Nat : Sum[<<a, b>>] = a + b
BY DEF Sum, Folding

LEMMA BytesFold ==
    ASSUME NEW s \in Seq(Nat)
    PROVE  \E f : Bytes(s) = f[1..Len(s)] /\ Chain(Nat, s, 0, Sum, f)
<1> DEFINE Sums(f) == f = [t \in SUBSET DOMAIN s |->
                              IF t = {} THEN 0 ELSE f[t \ {Max(t)}] + s[Max(t)]]
           c == CHOOSE f : Sums(f)
<1>1. Bytes(s) = c[DOMAIN s]
  BY Zenon DEF Bytes, FoldLeft, MapThenFoldSet
<1>2. PICK f : Recurs(Nat, Nat, s, 0, Sum, f)
  BY SumIs, FoldsIn
<1>3. Sums(f)
  <2>1. \A t \in SUBSET DOMAIN s :
            f[t] = IF t = {} THEN 0 ELSE f[t \ {Max(t)}] + s[Max(t)]
    BY <1>2, SumIs DEF Recurs
  <2> QED
    BY <1>2, <2>1 DEF Recurs
<1>4. Sums(c)
  BY <1>3, Zenon
<1>5. \A t \in SUBSET DOMAIN s : c[t] = IF t = {} THEN 0 ELSE c[t \ {Max(t)}] + s[Max(t)]
  <2> HIDE DEF c
  <2> QED
    BY <1>4
<1> HIDE DEF c, Sums
<1>6. c[{}] = 0 /\ \A t \in SUBSET DOMAIN s :
         t # {} /\ c[t \ {Max(t)}] \in Nat /\ s[Max(t)] \in Nat =>
            c[t] = Sum[<<c[t \ {Max(t)}], s[Max(t)]>>]
  BY <1>5, SumIs
<1>7. Chain(Nat, s, 0, Sum, c)
  BY <1>6, FoldsChain
<1>8. DOMAIN s = 1..Len(s)
  OBVIOUS
<1> QED
  BY <1>1, <1>7, <1>8

LEMMA BytesEmpty == Bytes(<<>>) = 0
<1>1. PICK f : Bytes(<<>>) = f[1..Len(<<>>)] /\ Chain(Nat, <<>>, 0, Sum, f)
  <2>1. <<>> \in Seq(Nat)
    OBVIOUS
  <2> QED
    BY <2>1, BytesFold
<1>2. 1..Len(<<>>) = {}
  OBVIOUS
<1> QED
  BY <1>1, <1>2 DEF Chain

LEMMA BytesAppend ==
    ASSUME NEW s \in Seq(Nat), NEW e \in Nat
    PROVE  Bytes(s) \in Nat /\ Bytes(Append(s, e)) = Bytes(s) + e
<1>1. Append(s, e) \in Seq(Nat) /\ Len(Append(s, e)) = Len(s) + 1 /\ 0 \in Nat
  OBVIOUS
<1>2. PICK f : Bytes(s) = f[1..Len(s)] /\ Chain(Nat, s, 0, Sum, f)
  BY BytesFold
<1>3. PICK g : /\ Bytes(Append(s, e)) = g[1..Len(s) + 1]
               /\ Chain(Nat, Append(s, e), 0, Sum, g)
  BY <1>1, BytesFold
<1>4. f[1..Len(s)] \in Nat /\ g[1..Len(s) + 1] = Sum[<<f[1..Len(s)], e>>]
  <2>1. Folding(Nat, Nat, 0, Sum)
    BY SumIs
  <2>2. Chain(Nat, s, 0, Sum, f) /\ Chain(Nat, Append(s, e), 0, Sum, g)
    BY <1>2, <1>3
  <2> QED
    BY <2>1, <2>2, ChainAppend
<1> QED
  BY <1>2, <1>3, <1>4, SumIs

LEMMA BytesTypes == \A s \in Seq(Nat) : Bytes(s) \in Nat
<1>1. 0 \in Nat
  OBVIOUS
<1> QED
  BY <1>1, BytesAppend

LEMMA BytesConcat ==
    ASSUME NEW s \in Seq(Nat), NEW t \in Seq(Nat)
    PROVE  Bytes(s \o t) = Bytes(s) + Bytes(t)
<1> DEFINE T == {u \in Seq(Nat) : Bytes(s \o u) = Bytes(s) + Bytes(u)}
<1>1. <<>> \in T
  <2>1. s \o <<>> = s /\ <<>> \in Seq(Nat)
    OBVIOUS
  <2> QED
    BY <2>1, BytesEmpty, BytesTypes
<1>2. ASSUME NEW u \in Seq(Nat), NEW e \in Nat, u \in T PROVE Append(u, e) \in T
  <2>1. s \o Append(u, e) = Append(s \o u, e) /\ s \o u \in Seq(Nat) /\ Append(u, e) \in Seq(Nat)
    OBVIOUS
  <2>2. Bytes(s \o Append(u, e)) = (Bytes(s) + Bytes(u)) + e
    <3>1. Bytes(Append(s \o u, e)) = Bytes(s \o u) + e
      BY <2>1, BytesAppend
    <3>2. Bytes(s \o u) = Bytes(s) + Bytes(u)
      BY <1>2
    <3> QED
      BY <2>1, <3>1, <3>2, Zenon
  <2>3. Bytes(Append(u, e)) = Bytes(u) + e
    BY BytesAppend
  <2>4. Bytes(s) \in Nat /\ Bytes(u) \in Nat /\ (Bytes(s) + Bytes(u)) + e = Bytes(s) + (Bytes(u) + e)
    BY BytesTypes
  <2> QED
    BY <2>1, <2>2, <2>3, <2>4
<1> HIDE DEF T
<1>3. Seq(Nat) \subseteq T
  BY <1>1, <1>2, SeqInduction
<1> QED
  BY <1>3 DEF T

LEMMA BytesOne == \A e \in Nat : Bytes(<<e>>) = e
<1> SUFFICES ASSUME NEW e \in Nat PROVE Bytes(<<e>>) = e
  OBVIOUS
<1>1. <<e>> = Append(<<>>, e) /\ <<>> \in Seq(Nat)
  OBVIOUS
<1>2. Bytes(<<e>>) = Bytes(<<>>) + e
  BY <1>1, BytesAppend
<1> QED
  BY <1>2, BytesEmpty

(* A text of characters of one byte. *)
LEMMA BytesOfOnes == \A n \in Nat : Bytes([k \in 1..n |-> 1]) = n
<1> DEFINE T == {n \in Nat : Bytes([k \in 1..n |-> 1]) = n}
<1>1. 0 \in T
  <2>1. [k \in 1..0 |-> 1] = <<>>
    OBVIOUS
  <2> QED
    BY <2>1, BytesEmpty
<1>2. ASSUME NEW n \in Nat, n \in T PROVE n + 1 \in T
  <2>1. [k \in 1..n + 1 |-> 1] = Append([k \in 1..n |-> 1], 1) /\ [k \in 1..n |-> 1] \in Seq(Nat)
    OBVIOUS
  <2>2. Bytes([k \in 1..n + 1 |-> 1]) = Bytes([k \in 1..n |-> 1]) + 1
    BY <2>1, BytesAppend
  <2> QED
    BY <1>2, <2>2
<1> HIDE DEF T
<1>3. Nat \subseteq T
  BY <1>1, <1>2, NatInduction1
<1> QED
  BY <1>3 DEF T

-----------------------------------------------------------------------------
(* truncateUTF8Bytes *)

(* UpTo finds the last character that starts at or before a byte.          *)
LEMMA UpToCuts ==
    ASSUME NEW text \in Seq(Nat), NEW byte \in Nat
    PROVE  \E k \in 0..Len(text) :
              /\ UpTo(text, byte) = SubSeq(text, 1, k)
              /\ Bytes(SubSeq(text, 1, k)) <= byte
              /\ k < Len(text) => Bytes(SubSeq(text, 1, k + 1)) > byte
<1> DEFINE at(k) == Bytes(SubSeq(text, 1, k))
           Good(k) == at(k) <= byte /\ (k < Len(text) => at(k + 1) > byte)
           U == {d \in 0..Len(text) : at(Len(text) - d) <= byte}
<1>0. Len(text) \in Nat /\ \A k \in 0..Len(text) : SubSeq(text, 1, k) \in Seq(Nat)
  OBVIOUS
<1>1. at(0) = 0
  <2>1. SubSeq(text, 1, 0) = <<>>
    OBVIOUS
  <2> QED
    BY <2>1, BytesEmpty
<1>2. Len(text) \in U /\ U \subseteq Nat
  <2> HIDE DEF at
  <2> QED
    BY <1>0, <1>1
<1>3. PICK d \in U : \A e \in U : d <= e
  <2> HIDE DEF U
  <2> QED
    BY <1>2, Least
<1>4. \A k \in 0..Len(text) : at(k) \in Nat
  BY <1>0, BytesTypes
<1> HIDE DEF at
<1>5. Good(Len(text) - d) /\ Len(text) - d \in 0..Len(text)
  <2>1. d \in 0..Len(text) /\ at(Len(text) - d) <= byte
    OBVIOUS
  <2>2. ASSUME Len(text) - d < Len(text) PROVE at(Len(text) - d + 1) > byte
    <3>1. d - 1 \in 0..Len(text) /\ Len(text) - (d - 1) = Len(text) - d + 1
          /\ Len(text) - d + 1 \in 0..Len(text)
      BY <1>0, <2>1, <2>2
    <3>2. d - 1 \notin U
      <4> HIDE DEF U
      <4> QED
        BY <1>3, <2>1
    <3>3. ~(at(Len(text) - d + 1) <= byte)
      BY <3>1, <3>2
    <3>4. at(Len(text) - d + 1) \in Nat
      BY <1>4, <3>1
    <3> QED
      BY <3>3, <3>4
  <2> QED
    BY <1>0, <2>1, <2>2
<1> DEFINE k == CHOOSE k \in 0..Len(text) : Good(k)
<1>6. UpTo(text, byte) = SubSeq(text, 1, k)
  BY Zenon DEF UpTo, at
<1>7. k \in 0..Len(text) /\ Good(k)
  <2> HIDE DEF Good
  <2> QED
    BY <1>5, Zenon
<1> HIDE DEF k
<1> QED
  BY <1>6, <1>7 DEF at

LEMMA EllipsisIs == Ellipsis \in Seq(Nat) /\ Len(Ellipsis) = 1 /\ Bytes(Ellipsis) = 3
<1>1. 3 \in Nat
  OBVIOUS
<1>2. Bytes(<<3>>) = 3
  BY <1>1, BytesOne
<1> QED
  BY <1>2 DEF Ellipsis

(* A text that is cut keeps whole characters, as many as fit.              *)
LEMMA Truncates ==
    ASSUME NEW text \in Seq(Nat), NEW max \in Int
    PROVE  LET cut == TruncateUTF8Bytes(text, max)
               kept == Len(cut) - 1
           IN /\ cut \in Seq(Nat)
              /\ max >= 0 => Bytes(cut) <= max
              /\ max >= 0 /\ Bytes(text) <= max => Bytes(cut) = Bytes(text)
              /\ max > 0 /\ Bytes(text) <= max => cut = text
              /\ Bytes(text) > max /\ max >= 3 =>
                   /\ cut = SubSeq(text, 1, kept) \o Ellipsis
                   /\ Bytes(SubSeq(text, 1, kept + 1)) + 3 > max
<1> DEFINE cut == TruncateUTF8Bytes(text, max)
           kept == Len(cut) - 1
<1>0. Bytes(text) \in Nat /\ <<>> \in Seq(Nat) /\ Bytes(<<>>) = 0
  BY BytesTypes, BytesEmpty
<1>1. CASE max <= 0
  <2>1. cut = <<>>
    BY <1>1 DEF TruncateUTF8Bytes
  <2> QED
    BY <1>0, <1>1, <2>1
<1>2. CASE max > 0 /\ Bytes(text) <= max
  <2>1. cut = text
    BY <1>2 DEF TruncateUTF8Bytes
  <2> QED
    BY <1>0, <1>2, <2>1
<1>3. CASE max > 0 /\ Bytes(text) > max /\ max < 3
  <2>1. cut = [k \in 1..max |-> 1]
    BY <1>0, <1>3, EllipsisIs DEF TruncateUTF8Bytes
  <2>2. Bytes(cut) = max /\ cut \in Seq(Nat)
    <3>1. max \in Nat
      BY <1>3
    <3>2. [k \in 1..max |-> 1] \in Seq(Nat)
      BY <3>1
    <3> QED
      BY <2>1, <3>1, <3>2, BytesOfOnes
  <2> QED
    BY <1>0, <1>3, <2>2
<1>4. CASE max >= 3 /\ Bytes(text) > max
  <2>1. max - 3 \in Nat
    BY <1>4
  <2>2. cut = UpTo(text, max - 3) \o Ellipsis
    BY <1>0, <1>4, EllipsisIs DEF TruncateUTF8Bytes
  <2>3. PICK k \in 0..Len(text) :
              /\ UpTo(text, max - 3) = SubSeq(text, 1, k)
              /\ Bytes(SubSeq(text, 1, k)) <= max - 3
              /\ k < Len(text) => Bytes(SubSeq(text, 1, k + 1)) > max - 3
    BY <2>1, UpToCuts
  <2>4. k # Len(text)
    <3>1. SubSeq(text, 1, Len(text)) = text
      OBVIOUS
    <3>2. ASSUME k = Len(text) PROVE FALSE
      <4>1. Bytes(text) <= max - 3
        BY <2>3, <3>1, <3>2
      <4> QED
        BY <1>0, <1>4, <4>1
    <3> QED
      BY <3>2
  <2>5. SubSeq(text, 1, k) \in Seq(Nat) /\ Len(SubSeq(text, 1, k)) = k
        /\ SubSeq(text, 1, k + 1) \in Seq(Nat) /\ k \in Nat /\ Len(text) \in Nat
    BY <2>4
  <2>6. cut \in Seq(Nat) /\ Len(cut) = k + 1 /\ Bytes(cut) = Bytes(SubSeq(text, 1, k)) + 3
    <3> DEFINE start == SubSeq(text, 1, k)
    <3>1. cut = start \o Ellipsis
      BY <2>2, <2>3
    <3>2. start \in Seq(Nat) /\ Len(start) = k
      BY <2>5
    <3> HIDE DEF cut, start
    <3>3. start \o Ellipsis \in Seq(Nat) /\ Len(start \o Ellipsis) = k + 1
      <4>1. Ellipsis \in Seq(Nat) /\ Len(Ellipsis) = 1
        BY EllipsisIs
      <4>2. start \o Ellipsis \in Seq(Nat) /\ Len(start \o Ellipsis) = Len(start) + Len(Ellipsis)
        BY <3>2, <4>1, ConcatProperties
      <4> QED
        BY <3>2, <4>1, <4>2
    <3>4. Bytes(start \o Ellipsis) = Bytes(start) + 3
      BY <3>2, EllipsisIs, BytesConcat
    <3> QED
      BY <3>1, <3>3, <3>4 DEF start
  <2>7. Bytes(SubSeq(text, 1, k)) \in Nat /\ Bytes(SubSeq(text, 1, k + 1)) \in Nat
    BY <2>5, BytesTypes
  <2>8. kept = k /\ Bytes(cut) <= max /\ Bytes(SubSeq(text, 1, k + 1)) + 3 > max
    <3> DEFINE a == Bytes(SubSeq(text, 1, k))
               b == Bytes(SubSeq(text, 1, k + 1))
    <3>1. a \in Nat /\ b \in Nat /\ a <= max - 3 /\ Bytes(cut) = a + 3 /\ Len(cut) = k + 1
      BY <2>3, <2>6, <2>7, Zenon
    <3>2. k < Len(text)
      BY <2>4, <2>5
    <3>3. b > max - 3
      BY <2>3, <3>2, Zenon
    <3> HIDE DEF a, b, cut
    <3>4. kept = k /\ Bytes(cut) <= max /\ b + 3 > max
      BY <2>5, <3>1, <3>3
    <3> QED
      BY <3>4 DEF b
  <2>9. cut = SubSeq(text, 1, kept) \o Ellipsis
    <3> HIDE DEF cut, kept
    <3> QED
      BY <2>2, <2>3, <2>8, Zenon
  <2>10. ~(Bytes(text) <= max)
    BY <1>0, <1>4
  <2>11. Bytes(SubSeq(text, 1, kept + 1)) + 3 > max
    <3> HIDE DEF kept
    <3> QED
      BY <2>8, Zenon
  <2> QED
    BY <2>6, <2>8, <2>9, <2>10, <2>11, Zenon
<1> QED
  BY <1>0, <1>1, <1>2, <1>3, <1>4

-----------------------------------------------------------------------------
(* renderLogs: what has been added after k entries, from the newest back.  *)

ToolEntry == [prefix : Nat, data : Seq(1..4)]

Acc == [lines : Seq(Nat), total : Nat, full : BOOLEAN]

NoLines == [lines |-> <<>>, total |-> 0, full |-> FALSE]

Adding(max) == [x \in Acc \X ToolEntry |-> AddLine(x[1], x[2], max)]

LEMMA Widths == Seq(1..4) \subseteq Seq(Nat)
OBVIOUS

LEMMA LineTypes ==
    ASSUME NEW e \in ToolEntry
    PROVE  LineBytes(e) \in Nat
<1>1. MaxEntryBytes - e.prefix \in Int /\ e.data \in Seq(Nat) /\ e.prefix \in Nat
  BY LogToolAssumption, Widths DEF ToolEntry
<1>2. TruncateUTF8Bytes(e.data, MaxEntryBytes - e.prefix) \in Seq(Nat)
  BY <1>1, Truncates
<1>3. Bytes(TruncateUTF8Bytes(e.data, MaxEntryBytes - e.prefix)) \in Nat
  BY <1>2, BytesTypes
<1> QED
  BY <1>1, <1>3 DEF LineBytes

LEMMA PrependNat ==
    ASSUME NEW s \in Seq(Nat), NEW b \in Nat
    PROVE  /\ <<b>> \o s \in Seq(Nat) /\ Len(<<b>> \o s) = Len(s) + 1
           /\ (<<b>> \o s)[1] = b /\ \A i \in 2..Len(s) + 1 : (<<b>> \o s)[i] = s[i - 1]
           /\ Bytes(<<b>> \o s) = b + Bytes(s)
<1>1. <<b>> \in Seq(Nat) /\ Len(<<b>>) = 1 /\ <<b>>[1] = b /\ Len(s) \in Nat
  OBVIOUS
<1>2. /\ <<b>> \o s \in Seq(Nat) /\ Len(<<b>> \o s) = Len(<<b>>) + Len(s)
      /\ \A i \in 1 .. Len(<<b>>) + Len(s) : (<<b>> \o s)[i] =
                     IF i <= Len(<<b>>) THEN <<b>>[i] ELSE s[i - Len(<<b>>)]
  BY <1>1, ConcatProperties
<1>3. Bytes(<<b>> \o s) = b + Bytes(s)
  BY <1>1, BytesConcat, BytesOne
<1> HIDE DEF Bytes
<1>4. 1 \in 1..1 + Len(s) /\ \A i \in 2..Len(s) + 1 : i \in 1..1 + Len(s) /\ ~(i <= 1)
  BY <1>1
<1> QED
  BY <1>1, <1>2, <1>3, <1>4

LEMMA AddingIs ==
    ASSUME NEW max \in Nat
    PROVE  /\ Folding(Acc, ToolEntry, NoLines, Adding(max))
           /\ \A a \in Acc, e \in ToolEntry : Adding(max)[<<a, e>>] = AddLine(a, e, max)
<1>1. NoLines \in Acc
  BY DEF NoLines, Acc
<1>2. ASSUME NEW a \in Acc, NEW e \in ToolEntry PROVE AddLine(a, e, max) \in Acc
  <2>1. LineBytes(e) \in Nat
    BY LineTypes
  <2>2. a.lines \in Seq(Nat) /\ a.total \in Nat
    BY DEF Acc
  <2>3. <<LineBytes(e)>> \o a.lines \in Seq(Nat)
    BY <2>1, <2>2, PrependNat
  <2> DEFINE b == LineBytes(e)
             bytes == b + IF a.lines = <<>> THEN 0 ELSE 1
             lines == <<b>> \o a.lines
  <2>4. bytes \in Nat /\ a.total + bytes \in Nat
    BY <2>1, <2>2
  <2>5. AddLine(a, e, max) = IF a.full \/ a.total + bytes > max
                             THEN [a EXCEPT !.full = TRUE]
                             ELSE [a EXCEPT !.lines = lines, !.total = @ + bytes]
    BY DEF AddLine
  <2>6. lines \in Seq(Nat)
    BY <2>3
  <2> HIDE DEF bytes, lines
  <2>7. [a EXCEPT !.full = TRUE] \in Acc /\ [a EXCEPT !.lines = lines, !.total = @ + bytes] \in Acc
    BY <2>4, <2>6 DEF Acc
  <2> QED
    BY <2>5, <2>7
<1> QED
  BY <1>1, <1>2 DEF Adding, Folding

LEMMA RenderFold ==
    ASSUME NEW s \in Seq(ToolEntry), NEW entries, s = Reverse(entries), NEW max \in Nat
    PROVE  \E f : /\ RenderLogs(entries, max) = f[1..Len(s)].lines
                  /\ Chain(Acc, s, NoLines, Adding(max), f)
<1> DEFINE Adds(f) == f = [t \in SUBSET DOMAIN s |->
                              IF t = {} THEN NoLines ELSE AddLine(f[t \ {Max(t)}], s[Max(t)], max)]
           c == CHOOSE f : Adds(f)
<1>1. RenderLogs(entries, max) = c[DOMAIN s].lines
  BY Zenon DEF RenderLogs, FoldLeft, MapThenFoldSet, NoLines
<1>2. PICK f : Recurs(Acc, ToolEntry, s, NoLines, Adding(max), f)
  BY AddingIs, FoldsIn
<1>3. Adds(f)
  <2>1. \A t \in SUBSET DOMAIN s :
            f[t] = IF t = {} THEN NoLines ELSE AddLine(f[t \ {Max(t)}], s[Max(t)], max)
    BY <1>2, AddingIs DEF Recurs
  <2> QED
    BY <1>2, <2>1 DEF Recurs
<1>4. Adds(c)
  BY <1>3, Zenon
<1>5. \A t \in SUBSET DOMAIN s :
         c[t] = IF t = {} THEN NoLines ELSE AddLine(c[t \ {Max(t)}], s[Max(t)], max)
  <2> HIDE DEF c
  <2> QED
    BY <1>4
<1> HIDE DEF c, Adds
<1>6. c[{}] = NoLines /\ \A t \in SUBSET DOMAIN s :
         t # {} /\ c[t \ {Max(t)}] \in Acc /\ s[Max(t)] \in ToolEntry =>
            c[t] = Adding(max)[<<c[t \ {Max(t)}], s[Max(t)]>>]
  BY <1>5, AddingIs
<1>7. Chain(Acc, s, NoLines, Adding(max), c)
  BY <1>6, FoldsChain
<1>8. DOMAIN s = 1..Len(s)
  OBVIOUS
<1> QED
  BY <1>1, <1>7, <1>8

(* The lines are those of the newest entries, s read from its head; they   *)
(* fit, and once one has not fitted the next would not either.             *)
Shows(s, k, max, acc) ==
    LET r == Len(acc.lines) IN
    /\ acc \in Acc /\ r <= k
    /\ \A i \in 1..r : acc.lines[i] = LineBytes(s[r + 1 - i])
    /\ acc.total = IF r = 0 THEN 0 ELSE Bytes(acc.lines) + r - 1
    /\ acc.total <= max
    /\ ~acc.full => r = k
    /\ acc.full => r < k /\ LineBytes(s[r + 1]) + Bytes(acc.lines) + r > max

LEMMA ShowsNext ==
    ASSUME NEW s \in Seq(ToolEntry), NEW k \in 0..Len(s) - 1, NEW max \in Nat, NEW acc,
           Shows(s, k, max, acc)
    PROVE  Shows(s, k + 1, max, AddLine(acc, s[k + 1], max))
<1> DEFINE r == Len(acc.lines)
           b == LineBytes(s[k + 1])
           bytes == b + IF acc.lines = <<>> THEN 0 ELSE 1
<1>1. acc \in Acc /\ acc.lines \in Seq(Nat) /\ acc.total \in Nat /\ acc.full \in BOOLEAN
  BY DEF Shows, Acc
<1>2. r \in Nat /\ (acc.lines = <<>> <=> r = 0) /\ k \in Nat
  BY <1>1
<1>3. b \in Nat /\ s[k + 1] \in ToolEntry
  <2>1. s[k + 1] \in ToolEntry
    OBVIOUS
  <2> QED
    BY <2>1, LineTypes
<1>4. Bytes(acc.lines) \in Nat
  BY <1>1, BytesTypes
<1>5. CASE acc.full
  <2>1. AddLine(acc, s[k + 1], max) = [acc EXCEPT !.full = TRUE]
    BY <1>5 DEF AddLine
  <2>2. [acc EXCEPT !.full = TRUE] = acc
    BY <1>1, <1>5 DEF Acc
  <2>3. Shows(s, k + 1, max, acc)
    BY <1>2, <1>5 DEF Shows
  <2> QED
    BY <2>1, <2>2, <2>3
<1>6. CASE ~acc.full /\ acc.total + bytes > max
  <2> DEFINE new == [acc EXCEPT !.full = TRUE]
  <2>1. AddLine(acc, s[k + 1], max) = new
    BY <1>6 DEF AddLine
  <2>2. new \in Acc /\ new.lines = acc.lines /\ new.total = acc.total /\ new.full = TRUE
    BY <1>1 DEF Acc
  <2>3. r = k /\ acc.total = (IF r = 0 THEN 0 ELSE Bytes(acc.lines) + r - 1)
    BY <1>6 DEF Shows
  <2>4. r = 0 => Bytes(acc.lines) = 0
    BY <1>2, BytesEmpty
  <2>5. b + Bytes(acc.lines) + r > max
    <3> HIDE DEF b, r
    <3> QED
      BY <1>2, <1>3, <1>4, <1>6, <2>3, <2>4
  <2> HIDE DEF new
  <2> QED
    BY <1>2, <2>1, <2>2, <2>3, <2>5 DEF Shows
<1>7. CASE ~acc.full /\ ~(acc.total + bytes > max)
  <2> DEFINE lines == <<b>> \o acc.lines
             new == [acc EXCEPT !.lines = lines, !.total = @ + bytes]
  <2>1. AddLine(acc, s[k + 1], max) = new
    BY <1>7 DEF AddLine
  <2>2. /\ lines \in Seq(Nat) /\ Len(lines) = r + 1
        /\ lines[1] = b /\ \A i \in 2..r + 1 : lines[i] = acc.lines[i - 1]
        /\ Bytes(lines) = b + Bytes(acc.lines)
    BY <1>1, <1>3, PrependNat
  <2>3. r = k /\ acc.total = (IF r = 0 THEN 0 ELSE Bytes(acc.lines) + r - 1)
        /\ \A i \in 1..r : acc.lines[i] = LineBytes(s[r + 1 - i])
    BY <1>7 DEF Shows
  <2>4. r = 0 => Bytes(acc.lines) = 0
    BY <1>2, BytesEmpty
  <2> HIDE DEF lines
  <2>5. bytes \in Nat
    BY <1>3
  <2>6. /\ new \in Acc /\ new.lines = lines /\ new.total = acc.total + bytes
        /\ new.full = FALSE
    <3>1. acc.total + bytes \in Nat
      BY <1>1, <2>5
    <3> HIDE DEF bytes
    <3> QED
      BY <1>1, <1>7, <2>2, <3>1 DEF Acc
  <2>7. \A i \in 1..r + 1 : lines[i] = LineBytes(s[(r + 1) + 1 - i])
    <3> SUFFICES ASSUME NEW i \in 1..r + 1 PROVE lines[i] = LineBytes(s[(r + 1) + 1 - i])
      OBVIOUS
    <3>1. CASE i = 1
      <4>1. (r + 1) + 1 - i = k + 1
        BY <1>2, <2>3, <3>1
      <4> QED
        BY <2>2, <3>1, <4>1
    <3>2. CASE i # 1
      <4>1. i \in 2..r + 1 /\ i - 1 \in 1..r /\ r + 1 - (i - 1) = (r + 1) + 1 - i
        BY <1>2, <3>2
      <4> QED
        BY <2>2, <2>3, <4>1
    <3> QED
      BY <3>1, <3>2
  <2>8. acc.total + bytes = Bytes(lines) + (r + 1) - 1
    <3> HIDE DEF b, r
    <3> QED
      BY <1>1, <1>2, <1>3, <1>4, <2>2, <2>3, <2>4
  <2>9. acc.total + bytes <= max
    BY <1>1, <1>7, <2>5
  <2> HIDE DEF new, bytes, b, r
  <2>10. Len(new.lines) = r + 1 /\ r + 1 # 0 /\ r + 1 = k + 1
    BY <1>2, <2>2, <2>3, <2>6
  <2> QED
    BY <1>2, <2>1, <2>6, <2>7, <2>8, <2>9, <2>10 DEF Shows
<1> QED
  BY <1>5, <1>6, <1>7

LEMMA RenderShows ==
    ASSUME NEW entries \in Seq(ToolEntry), NEW max \in Nat
    PROVE  \E acc : /\ RenderLogs(entries, max) = acc.lines
                    /\ Shows(Reverse(entries), Len(entries), max, acc)
<1> DEFINE s == Reverse(entries)
<1>1. s \in Seq(ToolEntry) /\ Len(s) = Len(entries) /\ Len(s) \in Nat
  BY DEF Reverse
<1> HIDE DEF s
<1>2. PICK f : /\ RenderLogs(entries, max) = f[1..Len(s)].lines
               /\ Chain(Acc, s, NoLines, Adding(max), f)
  BY <1>1, RenderFold DEF s
<1>3. \A k \in 0..Len(s) : f[1..k] \in Acc
  BY <1>1, <1>2, AddingIs, ChainTypes
<1> DEFINE T == {k \in Nat : k <= Len(s) => Shows(s, k, max, f[1..k])}
<1>4. 0 \in T
  <2>1. f[1..0] = NoLines
    <3>1. 1..0 = {}
      OBVIOUS
    <3> QED
      BY <1>2, <3>1 DEF Chain
  <2>2. Shows(s, 0, max, NoLines)
    <3>1. NoLines \in Acc /\ NoLines.lines = <<>> /\ NoLines.total = 0 /\ NoLines.full = FALSE
      BY DEF NoLines, Acc
    <3> QED
      BY <3>1 DEF Shows
  <2> QED
    BY <2>1, <2>2
<1>5. ASSUME NEW k \in Nat, k \in T PROVE k + 1 \in T
  <2> SUFFICES ASSUME k + 1 <= Len(s) PROVE Shows(s, k + 1, max, f[1..k + 1])
    OBVIOUS
  <2>1. k \in 0..Len(s) - 1 /\ k \in 0..Len(s) /\ Shows(s, k, max, f[1..k]) /\ s[k + 1] \in ToolEntry
    BY <1>1, <1>5
  <2>2. f[1..k + 1] = AddLine(f[1..k], s[k + 1], max)
    <3>1. f[1..k + 1] = Adding(max)[<<f[1..k], s[k + 1]>>]
      BY <1>2, <1>3, <2>1 DEF Chain
    <3> QED
      BY <1>3, <2>1, <3>1, AddingIs
  <2> QED
    BY <1>1, <2>1, <2>2, ShowsNext
<1> HIDE DEF T
<1>6. Len(s) \in T
  BY <1>1, <1>4, <1>5, NatInduction1
<1> QED
  BY <1>1, <1>2, <1>6 DEF T, s

-----------------------------------------------------------------------------
(* Digits: the value of a list, powers of ten. *)

Decimal == [x \in Nat \X Nat |-> 10 * x[1] + x[2]]

LEMMA DecimalIs ==
    Folding(Nat, Nat, 0, Decimal) /\ \A a, b \in Nat : Decimal[<<a, b>>] = 10 * a + b
BY DEF Decimal, Folding

LEMMA ValueFold ==
    ASSUME NEW s \in Seq(Nat)
    PROVE  \E f : ValueOf(s) = f[1..Len(s)] /\ Chain(Nat, s, 0, Decimal, f)
<1> DEFINE Reads(f) == f = [t \in SUBSET DOMAIN s |->
                               IF t = {} THEN 0 ELSE 10 * f[t \ {Max(t)}] + s[Max(t)]]
           c == CHOOSE f : Reads(f)
<1>1. ValueOf(s) = c[DOMAIN s]
  BY Zenon DEF ValueOf, FoldLeft, MapThenFoldSet
<1>2. PICK f : Recurs(Nat, Nat, s, 0, Decimal, f)
  BY DecimalIs, FoldsIn
<1>3. Reads(f)
  <2>1. \A t \in SUBSET DOMAIN s :
            f[t] = IF t = {} THEN 0 ELSE 10 * f[t \ {Max(t)}] + s[Max(t)]
    BY <1>2, DecimalIs DEF Recurs
  <2> QED
    BY <1>2, <2>1 DEF Recurs
<1>4. Reads(c)
  BY <1>3, Zenon
<1>5. \A t \in SUBSET DOMAIN s :
         c[t] = IF t = {} THEN 0 ELSE 10 * c[t \ {Max(t)}] + s[Max(t)]
  <2> HIDE DEF c
  <2> QED
    BY <1>4
<1> HIDE DEF c, Reads
<1>6. c[{}] = 0 /\ \A t \in SUBSET DOMAIN s :
         t # {} /\ c[t \ {Max(t)}] \in Nat /\ s[Max(t)] \in Nat =>
            c[t] = Decimal[<<c[t \ {Max(t)}], s[Max(t)]>>]
  BY <1>5, DecimalIs
<1>7. Chain(Nat, s, 0, Decimal, c)
  BY <1>6, FoldsChain
<1>8. DOMAIN s = 1..Len(s)
  OBVIOUS
<1> QED
  BY <1>1, <1>7, <1>8

LEMMA ValueEmpty == ValueOf(<<>>) = 0
<1>1. PICK f : ValueOf(<<>>) = f[1..Len(<<>>)] /\ Chain(Nat, <<>>, 0, Decimal, f)
  <2>1. <<>> \in Seq(Nat)
    OBVIOUS
  <2> QED
    BY <2>1, ValueFold
<1>2. 1..Len(<<>>) = {}
  OBVIOUS
<1> QED
  BY <1>1, <1>2 DEF Chain

LEMMA ValueAppend ==
    ASSUME NEW s \in Seq(Nat), NEW e \in Nat
    PROVE  ValueOf(s) \in Nat /\ ValueOf(Append(s, e)) = 10 * ValueOf(s) + e
<1>1. Append(s, e) \in Seq(Nat) /\ Len(Append(s, e)) = Len(s) + 1 /\ 0 \in Nat
  OBVIOUS
<1>2. PICK f : ValueOf(s) = f[1..Len(s)] /\ Chain(Nat, s, 0, Decimal, f)
  BY ValueFold
<1>3. PICK g : /\ ValueOf(Append(s, e)) = g[1..Len(s) + 1]
               /\ Chain(Nat, Append(s, e), 0, Decimal, g)
  BY <1>1, ValueFold
<1>4. f[1..Len(s)] \in Nat /\ g[1..Len(s) + 1] = Decimal[<<f[1..Len(s)], e>>]
  <2>1. Folding(Nat, Nat, 0, Decimal)
    BY DecimalIs
  <2>2. Chain(Nat, s, 0, Decimal, f) /\ Chain(Nat, Append(s, e), 0, Decimal, g)
    BY <1>2, <1>3
  <2> QED
    BY <2>1, <2>2, ChainAppend
<1> QED
  BY <1>2, <1>3, <1>4, DecimalIs

LEMMA ValueTypes == \A s \in Seq(Nat) : ValueOf(s) \in Nat
<1>1. 0 \in Nat
  OBVIOUS
<1> QED
  BY <1>1, ValueAppend

LEMMA ZerosAre ==
    ASSUME NEW k \in Nat
    PROVE  /\ Zeros(k) \in Seq(Nat) /\ Len(Zeros(k)) = k
           /\ Zeros(k + 1) = Append(Zeros(k), 0)
BY DEF Zeros

LEMMA NoZeros == Zeros(0) = <<>>
BY DEF Zeros

LEMMA PowerZero == PowerOf10(0) = 1
<1>1. <<1>> \o Zeros(0) = Append(<<>>, 1) /\ <<>> \in Seq(Nat) /\ 1 \in Nat
  <2>1. <<1>> \in Seq(Nat) /\ <<1>> = Append(<<>>, 1) /\ <<>> \in Seq(Nat) /\ 1 \in Nat
    OBVIOUS
  <2>2. <<1>> \o <<>> = <<1>>
    BY <2>1, ConcatEmptySeq
  <2> QED
    BY <2>1, <2>2, NoZeros
<1>2. ValueOf(Append(<<>>, 1)) = 10 * ValueOf(<<>>) + 1
  BY <1>1, ValueAppend
<1>3. PowerOf10(0) = ValueOf(Append(<<>>, 1))
  BY <1>1 DEF PowerOf10
<1> QED
  BY <1>2, <1>3, ValueEmpty

LEMMA PowerNext ==
    ASSUME NEW k \in Nat
    PROVE  PowerOf10(k) \in Nat /\ PowerOf10(k + 1) = 10 * PowerOf10(k)
<1> DEFINE s == <<1>> \o Zeros(k)
<1>1. s \in Seq(Nat) /\ <<1>> \o Zeros(k + 1) = Append(s, 0) /\ 0 \in Nat
  <2>1. Zeros(k) \in Seq(Nat) /\ Zeros(k + 1) = Append(Zeros(k), 0)
    BY ZerosAre
  <2> HIDE DEF s
  <2>2. \A z \in Seq(Nat) : <<1>> \o z \in Seq(Nat) /\ <<1>> \o Append(z, 0) = Append(<<1>> \o z, 0)
    OBVIOUS
  <2> QED
    BY <2>1, <2>2 DEF s
<1> HIDE DEF s
<1>2. ValueOf(Append(s, 0)) = 10 * ValueOf(s) + 0 /\ ValueOf(s) \in Nat
  BY <1>1, ValueAppend
<1>3. PowerOf10(k) = ValueOf(s) /\ PowerOf10(k + 1) = ValueOf(Append(s, 0))
  BY <1>1 DEF PowerOf10, s
<1> QED
  BY <1>2, <1>3

LEMMA PowerTypes == \A k \in Nat : PowerOf10(k) \in Nat /\ PowerOf10(k) >= 1
<1> DEFINE T == {k \in Nat : PowerOf10(k) >= 1}
<1>1. 0 \in T
  BY PowerZero
<1>2. ASSUME NEW k \in Nat, k \in T PROVE k + 1 \in T
  BY <1>2, PowerNext
<1> HIDE DEF T
<1>3. Nat \subseteq T
  BY <1>1, <1>2, NatInduction1
<1> QED
  BY <1>3, PowerNext DEF T

LEMMA TimesAssociates == \A a, b, c \in Int : a * (b * c) = (a * b) * c /\ a * b = b * a
OBVIOUS

LEMMA PowerSum ==
    ASSUME NEW a \in Nat, NEW b \in Nat
    PROVE  PowerOf10(a + b) = PowerOf10(a) * PowerOf10(b)
<1> DEFINE T == {k \in Nat : PowerOf10(a + k) = PowerOf10(a) * PowerOf10(k)}
<1>1. 0 \in T
  <2>1. PowerOf10(a) \in Nat /\ a + 0 = a
    BY PowerTypes
  <2> QED
    BY <2>1, PowerZero
<1>2. ASSUME NEW k \in Nat, k \in T PROVE k + 1 \in T
  <2> DEFINE p == PowerOf10(a)
             q == PowerOf10(k)
  <2>1. p \in Int /\ q \in Int /\ 10 \in Int /\ PowerOf10(k + 1) = 10 * q
    BY PowerNext, PowerTypes
  <2>2. PowerOf10((a + k) + 1) = 10 * (p * q) /\ a + (k + 1) = (a + k) + 1
    BY <1>2, PowerNext
  <2> HIDE DEF p, q
  <2>3. 10 * (p * q) = p * (10 * q)
    BY <2>1, TimesAssociates
  <2> QED
    BY <2>1, <2>2, <2>3 DEF p
<1> HIDE DEF T
<1>3. Nat \subseteq T
  BY <1>1, <1>2, NatInduction1
<1> QED
  BY <1>3 DEF T

LEMMA PowerGrows ==
    ASSUME NEW a \in Nat, NEW b \in Nat, a <= b
    PROVE  PowerOf10(a) <= PowerOf10(b)
<1> DEFINE T == {k \in Nat : PowerOf10(a) <= PowerOf10(a + k)}
<1>1. 0 \in T
  BY PowerTypes
<1>2. ASSUME NEW k \in Nat, k \in T PROVE k + 1 \in T
  <2>1. PowerOf10((a + k) + 1) = 10 * PowerOf10(a + k) /\ PowerOf10(a + k) \in Nat
        /\ PowerOf10(a) \in Nat /\ a + (k + 1) = (a + k) + 1
    BY PowerNext
  <2> QED
    BY <1>2, <2>1
<1> HIDE DEF T
<1>3. b - a \in T /\ a + (b - a) = b
  BY <1>1, <1>2, NatInduction1
<1> QED
  BY <1>3 DEF T

LEMMA ValueConcat ==
    ASSUME NEW s \in Seq(Nat), NEW t \in Seq(Nat)
    PROVE  ValueOf(s \o t) = ValueOf(s) * PowerOf10(Len(t)) + ValueOf(t)
<1> DEFINE T == {u \in Seq(Nat) : ValueOf(s \o u) = ValueOf(s) * PowerOf10(Len(u)) + ValueOf(u)}
<1>1. <<>> \in T
  <2>1. s \o <<>> = s /\ <<>> \in Seq(Nat) /\ Len(<<>>) = 0
    OBVIOUS
  <2>2. ValueOf(s) \in Nat
    BY ValueTypes
  <2> QED
    BY <2>1, <2>2, ValueEmpty, PowerZero
<1>2. ASSUME NEW u \in Seq(Nat), NEW e \in Nat, u \in T PROVE Append(u, e) \in T
  <2> DEFINE v == ValueOf(s)
             p == PowerOf10(Len(u))
             w == ValueOf(u)
  <2>1. s \o Append(u, e) = Append(s \o u, e) /\ s \o u \in Seq(Nat) /\ Append(u, e) \in Seq(Nat)
        /\ Len(Append(u, e)) = Len(u) + 1 /\ Len(u) \in Nat
    OBVIOUS
  <2>2. ValueOf(s \o Append(u, e)) = 10 * (v * p + w) + e
    <3>1. ValueOf(Append(s \o u, e)) = 10 * ValueOf(s \o u) + e
      BY <2>1, ValueAppend
    <3>2. ValueOf(s \o u) = v * p + w
      BY <1>2
    <3> QED
      BY <2>1, <3>1, <3>2
  <2>3. ValueOf(Append(u, e)) = 10 * w + e
    BY ValueAppend
  <2>4. v \in Int /\ p \in Int /\ w \in Int /\ 10 \in Int /\ v * p \in Int
        /\ PowerOf10(Len(Append(u, e))) = 10 * p
    BY <2>1, ValueTypes, PowerNext
  <2> HIDE DEF v, p, w
  <2>5. v * (10 * p) = 10 * (v * p)
    BY <2>4, TimesAssociates
  <2>6. 10 * (v * p + w) + e = v * (10 * p) + (10 * w + e)
    <3> DEFINE x == v * p
    <3>1. x \in Int
      BY <2>4
    <3> HIDE DEF x
    <3>2. 10 * (x + w) + e = 10 * x + (10 * w + e)
      BY <2>4, <3>1
    <3> QED
      BY <2>5, <3>2 DEF x
  <2> QED
    BY <2>1, <2>2, <2>3, <2>4, <2>6 DEF v
<1> HIDE DEF T
<1>3. Seq(Nat) \subseteq T
  BY <1>1, <1>2, SeqInduction
<1> QED
  BY <1>3 DEF T

LEMMA ValueZeros == \A k \in Nat : ValueOf(Zeros(k)) = 0
<1> DEFINE T == {k \in Nat : ValueOf(Zeros(k)) = 0}
<1>1. 0 \in T
  BY NoZeros, ValueEmpty
<1>2. ASSUME NEW k \in Nat, k \in T PROVE k + 1 \in T
  <2>1. Zeros(k) \in Seq(Nat) /\ Zeros(k + 1) = Append(Zeros(k), 0) /\ 0 \in Nat
    BY ZerosAre
  <2>2. ValueOf(Append(Zeros(k), 0)) = 10 * ValueOf(Zeros(k)) + 0
    BY <2>1, ValueAppend
  <2>3. ValueOf(Zeros(k)) = 0
    BY <1>2
  <2>4. ValueOf(Append(Zeros(k), 0)) = 0
    BY <2>2, <2>3
  <2>5. ValueOf(Zeros(k + 1)) = 0
    BY <2>1, <2>4, Zenon
  <2> QED
    BY <2>5
<1> HIDE DEF T
<1>3. Nat \subseteq T
  BY <1>1, <1>2, NatInduction1
<1> QED
  BY <1>3 DEF T

(* Zeros at the end are a power of ten. *)
LEMMA ValueShift ==
    ASSUME NEW s \in Seq(Nat), NEW k \in Nat
    PROVE  ValueOf(s \o Zeros(k)) = ValueOf(s) * PowerOf10(k)
<1>1. ValueOf(s) \in Nat /\ PowerOf10(k) \in Nat /\ ValueOf(s) * PowerOf10(k) \in Int
  <2>1. ValueOf(s) \in Nat
    BY ValueTypes, Zenon
  <2>2. PowerOf10(k) \in Nat
    BY PowerTypes, Zenon
  <2>3. \A a, b \in Nat : a * b \in Int
    OBVIOUS
  <2> QED
    BY <2>1, <2>2, <2>3, Zenon
<1> QED
  BY <1>1, ZerosAre, ValueConcat, ValueZeros

-----------------------------------------------------------------------------
(* Trimmed *)

LEMMA MinIn ==
    ASSUME NEW n \in Nat, NEW t \in SUBSET (1..n), t # {}
    PROVE  Min(t) \in t /\ \A y \in t : Min(t) <= y
<1>1. PICK x \in t : \A y \in t : x <= y
  <2>1. t \subseteq Nat
    OBVIOUS
  <2> QED
    BY <2>1, Least
<1> DEFINE P(m) == m \in t /\ \A y \in t : m =< y
<1>2. P(x)
  BY <1>1
<1>3. Min(t) = CHOOSE m : P(m)
  BY DEF Min
<1>4. P(CHOOSE m : P(m))
  BY <1>2, Zenon
<1> HIDE DEF P
<1>5. P(Min(t))
  BY <1>3, <1>4
<1> QED
  BY <1>5 DEF P

NonZero(digits) == {i \in 1..Len(digits) : digits[i] # 0}

(* The digits are zeros, those from the first to the last that is not      *)
(* zero, and zeros again.                                                  *)
LEMMA Trims ==
    ASSUME NEW d \in Seq(0..9), LastNonZero(d) # 0
    PROVE  \E i \in 1..LastNonZero(d) :
              /\ LastNonZero(d) \in 1..Len(d)
              /\ Trimmed(d) = SubSeq(d, i, LastNonZero(d))
              /\ d[i] # 0 /\ d[LastNonZero(d)] # 0
              /\ \A j \in 1..i - 1 : d[j] = 0
              /\ \A j \in LastNonZero(d) + 1..Len(d) : d[j] = 0
<1> DEFINE I == NonZero(d)
<1>0. I \in SUBSET (1..Len(d)) /\ Len(d) \in Nat
  BY DEF NonZero
<1>1. LastNonZero(d) = IF I # {} THEN Max(I) ELSE 0
  BY DEF LastNonZero, SelectLastInSeq, NonZero
<1>2. I # {} /\ LastNonZero(d) = Max(I)
  BY <1>1
<1>3. Trimmed(d) = SubSeq(d, Min(I), Max(I))
  <2>1. SelectInSeq(d, LAMBDA x : x # 0) = IF I # {} THEN Min(I) ELSE 0
    BY DEF SelectInSeq, NonZero
  <2> QED
    BY <1>2, <2>1 DEF Trimmed
<1>4. Max(I) \in I /\ (\A j \in I : j <= Max(I)) /\ Min(I) \in I /\ \A j \in I : Min(I) <= j
  <2> HIDE DEF I
  <2> QED
    BY <1>0, <1>2, MaxIn, MinIn
<1>5. \A j \in 1..Len(d) : d[j] = 0 \/ j \in I
  BY DEF NonZero
<1>6. d[Min(I)] # 0 /\ d[Max(I)] # 0
  BY <1>4 DEF NonZero
<1> HIDE DEF I
<1>7. Min(I) \in 1..Max(I) /\ Max(I) \in 1..Len(d)
  <2>1. Min(I) \in 1..Len(d) /\ Max(I) \in 1..Len(d)
    BY <1>0, <1>4
  <2>2. Min(I) <= Max(I)
    BY <1>4
  <2> QED
    BY <1>0, <2>1, <2>2
<1>8. ASSUME NEW j \in 1..Min(I) - 1 PROVE d[j] = 0
  <2>1. j \in 1..Len(d) /\ ~(Min(I) <= j)
    BY <1>0, <1>7
  <2> QED
    BY <1>4, <1>5, <2>1
<1>9. ASSUME NEW j \in Max(I) + 1..Len(d) PROVE d[j] = 0
  <2>1. j \in 1..Len(d) /\ ~(j <= Max(I))
    BY <1>0, <1>7
  <2> QED
    BY <1>4, <1>5, <2>1
<1> QED
  BY <1>2, <1>3, <1>6, <1>7, <1>8, <1>9

LEMMA NothingLeft ==
    ASSUME NEW d \in Seq(0..9), LastNonZero(d) = 0
    PROVE  Trimmed(d) = <<>> /\ ValueOf(d) = 0
<1>1. LastNonZero(d) = IF NonZero(d) # {} THEN Max(NonZero(d)) ELSE 0
  BY DEF LastNonZero, SelectLastInSeq, NonZero
<1>2. NonZero(d) = {}
  <2>1. NonZero(d) \in SUBSET (1..Len(d)) /\ Len(d) \in Nat
    BY DEF NonZero
  <2>2. ASSUME NonZero(d) # {} PROVE FALSE
    <3>1. Max(NonZero(d)) \in 1..Len(d)
      BY <2>1, <2>2, MaxIn
    <3> QED
      BY <1>1, <2>2, <3>1
  <2> QED
    BY <2>2
<1>3. d = Zeros(Len(d))
  <2>1. \A j \in 1..Len(d) : d[j] = 0
    BY <1>2 DEF NonZero
  <2>2. d = [j \in 1..Len(d) |-> d[j]]
    OBVIOUS
  <2> QED
    BY <2>1, <2>2 DEF Zeros
<1>4. Len(d) \in Nat
  OBVIOUS
<1> QED
  BY <1>3, <1>4, ValueZeros DEF Trimmed

LEMMA Digits == Seq(0..9) \subseteq Seq(Nat)
OBVIOUS

(* What is left starts and ends with a digit that is not zero, and has the *)
(* value of all but for a power of ten.                                    *)
LEMMA TrimmedValue ==
    ASSUME NEW d \in Seq(0..9), LastNonZero(d) # 0
    PROVE  /\ Trimmed(d) \in Seq(Nat) /\ Trimmed(d) # <<>>
           /\ Len(d) - LastNonZero(d) \in Nat
           /\ ValueOf(d) = ValueOf(Trimmed(d)) * PowerOf10(Len(d) - LastNonZero(d))
           /\ ValueOf(Trimmed(d)) >= PowerOf10(Len(Trimmed(d)) - 1)
           /\ \E v \in Nat, e \in 1..9 : ValueOf(Trimmed(d)) = 10 * v + e
<1> DEFINE l == LastNonZero(d)
           t == Trimmed(d)
<1>1. PICK i \in 1..l :
              /\ l \in 1..Len(d)
              /\ t = SubSeq(d, i, l)
              /\ d[i] # 0 /\ d[l] # 0
              /\ \A j \in 1..i - 1 : d[j] = 0
              /\ \A j \in l + 1..Len(d) : d[j] = 0
  BY Trims
<1>2. Len(d) \in Nat /\ l \in Nat /\ i \in Nat /\ \A j \in 1..Len(d) : d[j] \in 0..9
  <2> HIDE DEF l, t
  <2>1. Len(d) \in Nat /\ \A j \in 1..Len(d) : d[j] \in 0..9
    OBVIOUS
  <2>2. l \in Nat
    BY <1>1, <2>1
  <2> QED
    BY <1>1, <2>1, <2>2
<1>3. /\ t \in Seq(Nat) /\ Len(t) = l - i + 1
      /\ \A j \in 1..l - i + 1 : t[j] = d[i + j - 1]
  <2> HIDE DEF l, t
  <2>1. SubSeq(d, i, l) \in Seq(0..9) /\ Len(SubSeq(d, i, l)) = l - i + 1
        /\ \A j \in 1..l - i + 1 : SubSeq(d, i, l)[j] = d[i + j - 1]
    <3>1. i \in 1..Len(d) + 1 /\ l \in (i - 1)..Len(d) /\ d \in Seq(0..9)
      BY <1>1, <1>2
    <3> QED
      BY <3>1, SubSeqProperties, SMTT(30)
  <2> QED
    BY <1>1, <2>1, Digits
<1> HIDE DEF l, t
<1>4. t # <<>> /\ Len(d) - l \in Nat
  <2>1. Len(t) >= 1
    BY <1>1, <1>2, <1>3
  <2>2. t # <<>>
    BY <2>1
  <2>3. Len(d) - l \in Nat
    BY <1>1, <1>2
  <2> QED
    BY <2>2, <2>3
<1>5. d = (Zeros(i - 1) \o t) \o Zeros(Len(d) - l)
  <2> DEFINE a == Zeros(i - 1)
             z == Zeros(Len(d) - l)
  <2>1. /\ a \in Seq(Nat) /\ Len(a) = i - 1 /\ \A j \in 1..i - 1 : a[j] = 0
        /\ z \in Seq(Nat) /\ Len(z) = Len(d) - l /\ \A j \in 1..Len(d) - l : z[j] = 0
    BY <1>1, <1>2, <1>4, ZerosAre DEF Zeros
  <2> HIDE DEF a, z
  <2>2. /\ a \o t \in Seq(Nat) /\ Len(a \o t) = l
        /\ \A j \in 1..l : (a \o t)[j] = IF j <= i - 1 THEN a[j] ELSE t[j - (i - 1)]
    <3>1. Len(a) + Len(t) = l
      BY <1>1, <1>2, <1>3, <2>1
    <3>2. /\ a \o t \in Seq(Nat) /\ Len(a \o t) = Len(a) + Len(t)
          /\ \A j \in 1..Len(a) + Len(t) :
                (a \o t)[j] = IF j <= Len(a) THEN a[j] ELSE t[j - Len(a)]
      BY <1>3, <2>1, ConcatProperties
    <3> QED
      BY <2>1, <3>1, <3>2
  <2>3. /\ (a \o t) \o z \in Seq(Nat) /\ Len((a \o t) \o z) = Len(d)
        /\ \A j \in 1..Len(d) : ((a \o t) \o z)[j] = IF j <= l THEN (a \o t)[j] ELSE z[j - l]
    <3> DEFINE b == a \o t
    <3>1. b \in Seq(Nat) /\ Len(b) = l
      BY <2>2
    <3> HIDE DEF b
    <3>2. Len(b) + Len(z) = Len(d)
      BY <1>2, <2>1, <3>1
    <3>3. /\ b \o z \in Seq(Nat) /\ Len(b \o z) = Len(b) + Len(z)
          /\ \A j \in 1..Len(b) + Len(z) :
                (b \o z)[j] = IF j <= Len(b) THEN b[j] ELSE z[j - Len(b)]
      BY <2>1, <3>1, ConcatProperties
    <3>4. /\ b \o z \in Seq(Nat) /\ Len(b \o z) = Len(d)
          /\ \A j \in 1..Len(d) : (b \o z)[j] = IF j <= l THEN b[j] ELSE z[j - l]
      BY <3>1, <3>2, <3>3
    <3> QED
      BY <3>4 DEF b
  <2>4. \A j \in 1..Len(d) : ((a \o t) \o z)[j] = d[j]
    <3> SUFFICES ASSUME NEW j \in 1..Len(d) PROVE ((a \o t) \o z)[j] = d[j]
      OBVIOUS
    <3>1. CASE j <= i - 1
      <4>1. j \in 1..i - 1 /\ j \in 1..l /\ j <= l
        BY <1>1, <1>2, <3>1
      <4> QED
        BY <1>1, <2>1, <2>2, <2>3, <3>1, <4>1
    <3>2. CASE ~(j <= i - 1) /\ j <= l
      <4>1. j \in 1..l /\ j - (i - 1) \in 1..l - i + 1 /\ i + (j - (i - 1)) - 1 = j
        BY <1>1, <1>2, <3>2
      <4> QED
        BY <1>3, <2>2, <2>3, <3>2, <4>1
    <3>3. CASE ~(j <= l)
      <4>1. j \in l + 1..Len(d) /\ j - l \in 1..Len(d) - l
        BY <1>1, <1>2, <3>3
      <4> QED
        BY <1>1, <2>1, <2>3, <3>3, <4>1
    <3> QED
      BY <3>1, <3>2, <3>3
  <2>5. d \in Seq(Nat)
    BY Digits
  <2> DEFINE whole == (a \o t) \o z
  <2>6. whole \in Seq(Nat) /\ Len(whole) = Len(d) /\ \A j \in 1..Len(d) : whole[j] = d[j]
    BY <2>3, <2>4
  <2> HIDE DEF whole
  <2>7. d = whole
    BY <2>5, <2>6, SeqEqual
  <2> QED
    BY <2>7 DEF whole, a, z
<1>6. ValueOf(d) = ValueOf(t) * PowerOf10(Len(d) - l)
  <2>1. i - 1 \in Nat /\ Zeros(i - 1) \in Seq(Nat)
    BY <1>1, <1>2, ZerosAre
  <2>2. Zeros(i - 1) \o t \in Seq(Nat)
    BY <1>3, <2>1, ConcatProperties
  <2>3. ValueOf(d) = ValueOf(Zeros(i - 1) \o t) * PowerOf10(Len(d) - l)
    BY <1>4, <1>5, <2>2, ValueShift
  <2>4. ValueOf(Zeros(i - 1) \o t) = 0 * PowerOf10(Len(t)) + ValueOf(t)
    BY <1>3, <2>1, ValueConcat, ValueZeros
  <2>5. PowerOf10(Len(t)) \in Nat /\ ValueOf(t) \in Nat
    BY <1>3, PowerTypes, ValueTypes
  <2> QED
    BY <2>3, <2>4, <2>5
<1>7. ValueOf(t) >= PowerOf10(Len(t) - 1)
  <2>1. t[1] \in Nat /\ t[1] >= 1 /\ Len(t) \in Nat /\ Len(t) >= 1
    <3>1. 1 \in 1..l - i + 1 /\ i + 1 - 1 = i /\ d[i] \in 0..9 /\ d[i] # 0
      BY <1>1, <1>2
    <3> QED
      BY <1>1, <1>2, <1>3, <3>1
  <2> DEFINE w == Tail(t)
  <2>2. w \in Seq(Nat) /\ Len(w) = Len(t) - 1 /\ t = <<t[1]>> \o w /\ <<t[1]>> \in Seq(Nat)
    BY <1>3, <2>1
  <2> HIDE DEF w
  <2>3. ValueOf(t) = ValueOf(<<t[1]>>) * PowerOf10(Len(t) - 1) + ValueOf(w)
    BY <2>2, ValueConcat
  <2>4. ValueOf(<<t[1]>>) = t[1]
    <3>1. <<t[1]>> = Append(<<>>, t[1]) /\ <<>> \in Seq(Nat)
      BY <2>1
    <3>2. ValueOf(Append(<<>>, t[1])) = 10 * ValueOf(<<>>) + t[1]
      BY <2>1, <3>1, ValueAppend
    <3> QED
      BY <2>1, <3>1, <3>2, ValueEmpty
  <2>5. ValueOf(w) \in Nat /\ PowerOf10(Len(t) - 1) \in Nat
    <3>1. Len(t) - 1 \in Nat
      BY <2>1
    <3> QED
      BY <2>2, <3>1, ValueTypes, PowerTypes
  <2>6. \A a, p \in Nat : a >= 1 => a * p >= p /\ a * p \in Nat
    OBVIOUS
  <2>7. t[1] * PowerOf10(Len(t) - 1) >= PowerOf10(Len(t) - 1) /\ t[1] * PowerOf10(Len(t) - 1) \in Nat
    BY <2>1, <2>5, <2>6
  <2> QED
    BY <2>3, <2>4, <2>5, <2>7
<1>8. \E v \in Nat, e \in 1..9 : ValueOf(t) = 10 * v + e
  <2>1. PICK u \in Seq(Nat), e \in Nat : t = Append(u, e)
    BY <1>3, <1>4, SequenceEmptyOrAppend
  <2>2. t[Len(t)] = e /\ Len(t) \in 1..l - i + 1 /\ i + Len(t) - 1 = l
    BY <1>1, <1>2, <1>3, <2>1
  <2>3. e \in 1..9
    <3>1. e = d[l] /\ d[l] \in 0..9
      BY <1>1, <1>2, <1>3, <2>2
    <3> QED
      BY <1>1, <3>1
  <2>4. ValueOf(u) \in Nat /\ ValueOf(t) = 10 * ValueOf(u) + e
    BY <2>1, ValueAppend
  <2> QED
    BY <2>3, <2>4
<1> QED
  BY <1>3, <1>4, <1>6, <1>7, <1>8 DEF t, l

-----------------------------------------------------------------------------
(* exactJSONInteger *)

JSONNumber ==
    {n \in [negative : BOOLEAN, digits : Seq(0..9), fraction : Nat, exponent : Int] :
        n.fraction <= Len(n.digits) /\ Len(n.digits) + MaxDigits <= MaxExponent + 1}

LEMMA NumbersAre == Numbers \subseteq JSONNumber
BY LogToolAssumption, LengthAssumption DEF JSONNumber

(* What NumbersExact says of one number. *)
Exactly(n, v) ==
    LET places == n.fraction - n.exponent
        unit == PowerOf10(IF places > 0 THEN places ELSE 0)
        written == Signed(n, ValueOf(n.digits)) * PowerOf10(IF places > 0 THEN 0 ELSE -places)
    IN IF v = Refused THEN \A i \in MinInt..MaxInt : i * unit # written
                      ELSE v * unit = written

LEMMA SignedTimes ==
    ASSUME NEW n \in JSONNumber, NEW x \in Int, NEW p \in Int
    PROVE  Signed(n, x) * p = Signed(n, x * p) /\ Signed(n, x) \in Int /\ x * p \in Int
<1>1. (-x) * p = -(x * p)
  OBVIOUS
<1>2. x * p \in Int /\ -x \in Int
  OBVIOUS
<1> QED
  BY <1>1, <1>2 DEF Signed

LEMMA Cancels ==
    ASSUME NEW i \in Int, NEW v \in Int, NEW u \in Nat, u >= 1, i * u = v * u
    PROVE  i = v
<1>1. (i - v) * u = 0
  OBVIOUS
<1>2. CASE i - v >= 1
  <2>1. (i - v) * u >= 1
    BY <1>2
  <2> QED
    BY <1>1, <2>1
<1>3. CASE v - i >= 1
  <2>1. (v - i) * u >= 1
    BY <1>3
  <2>2. (v - i) * u = -((i - v) * u)
    OBVIOUS
  <2> QED
    BY <1>1, <2>1, <2>2
<1> QED
  BY <1>2, <1>3

(* The number without its zeros, which is what the code looks at. *)
LEMMA WrittenIs ==
    ASSUME NEW n \in JSONNumber, LastNonZero(n.digits) # 0, NEW down \in Nat
    PROVE  /\ Len(n.digits) - LastNonZero(n.digits) \in Nat
           /\ Signed(n, ValueOf(n.digits)) * PowerOf10(down)
                = Signed(n, ValueOf(Trimmed(n.digits))
                              * PowerOf10(Len(n.digits) - LastNonZero(n.digits) + down))
<1> DEFINE d == n.digits
           z == Len(d) - LastNonZero(d)
           x == ValueOf(Trimmed(d))
<1>1. d \in Seq(0..9) /\ d \in Seq(Nat)
  BY Digits DEF JSONNumber
<1>2. z \in Nat /\ ValueOf(d) = x * PowerOf10(z) /\ Trimmed(d) \in Seq(Nat)
  BY <1>1, TrimmedValue
<1>3. x \in Int /\ PowerOf10(z) \in Int /\ PowerOf10(down) \in Int
      /\ ValueOf(d) \in Int /\ PowerOf10(z + down) = PowerOf10(z) * PowerOf10(down)
  <2> DEFINE t == Trimmed(d)
  <2>1. t \in Seq(Nat) /\ x = ValueOf(t)
    BY <1>2
  <2> HIDE DEF z, x, d, t
  <2>2. x \in Nat /\ ValueOf(d) \in Nat
    BY <1>1, <2>1, ValueTypes
  <2>3. PowerOf10(z) \in Nat /\ PowerOf10(down) \in Nat
    BY <1>2, PowerTypes
  <2>4. PowerOf10(z + down) = PowerOf10(z) * PowerOf10(down)
    BY <1>2, PowerSum
  <2> QED
    BY <2>2, <2>3, <2>4
<1> HIDE DEF z, x, d
<1>4. Signed(n, ValueOf(d)) * PowerOf10(down) = Signed(n, ValueOf(d) * PowerOf10(down))
  BY <1>3, SignedTimes
<1>5. ValueOf(d) * PowerOf10(down) = x * PowerOf10(z + down)
  BY <1>2, <1>3, TimesAssociates
<1> QED
  BY <1>2, <1>4, <1>5 DEF d, x, z

(* The steps of the decimal point: how far right of the trimmed digits,    *)
(* and how far left of the last one.                                       *)
LEMMA ScaleIs ==
    ASSUME NEW n \in JSONNumber, Len(n.digits) - LastNonZero(n.digits) \in Nat
    PROVE  \E up, down \in Nat :
              /\ up = IF n.fraction - n.exponent > 0 THEN n.fraction - n.exponent ELSE 0
              /\ down = IF n.fraction - n.exponent > 0 THEN 0 ELSE -(n.fraction - n.exponent)
              /\ (up = 0 \/ down = 0)
              /\ Scale(n) = (Len(n.digits) - LastNonZero(n.digits)) + down - up
<1> DEFINE z == Len(n.digits) - LastNonZero(n.digits)
           places == n.fraction - n.exponent
           up == IF places > 0 THEN places ELSE 0
           down == IF places > 0 THEN 0 ELSE -places
<1>1. n.fraction \in Nat /\ n.exponent \in Int /\ Len(n.digits) \in Nat
  BY DEF JSONNumber
<1>2. LastNonZero(n.digits) \in Nat
  <2>1. n.digits \in Seq(0..9)
    BY DEF JSONNumber
  <2>2. CASE LastNonZero(n.digits) # 0
    BY <2>1, <2>2, Trims
  <2> QED
    BY <2>2
<1>3. places \in Int /\ up \in Nat /\ down \in Nat /\ (up = 0 \/ down = 0) /\ down - up = -places
  BY <1>1
<1>4. Scale(n) = z - places
  BY <1>1, <1>2 DEF Scale
<1>5. Scale(n) = z + down - up
  <2> HIDE DEF places, up, down, z
  <2>1. z \in Nat
    BY DEF z
  <2> QED
    BY <1>3, <1>4, <2>1
<1> QED
  BY <1>3, <1>5

(* An exponent that is out of range moves the point past all digits.       *)
LEMMA ExponentFits ==
    ASSUME NEW n \in JSONNumber, NEW z \in Nat, NEW up, NEW down,
           up = IF n.fraction - n.exponent > 0 THEN n.fraction - n.exponent ELSE 0,
           down = IF n.fraction - n.exponent > 0 THEN 0 ELSE -(n.fraction - n.exponent),
           Scale(n) = z + down - up, z <= Len(n.digits), NEW k \in Nat, k >= 1,
           n.exponent \notin -MaxExponent - 1..MaxExponent
    PROVE  Scale(n) < 0 \/ k + Scale(n) > MaxDigits
<1> DEFINE f == n.fraction
           e == n.exponent
           size == Len(n.digits)
<1>1. /\ f \in Nat /\ e \in Int /\ size \in Nat
      /\ f <= size /\ size + MaxDigits <= MaxExponent + 1
  BY DEF JSONNumber
<1>2. MaxExponent \in Nat /\ MaxDigits \in Nat
  BY LogToolAssumption
<1>3. z <= size /\ e \notin -MaxExponent - 1..MaxExponent
  OBVIOUS
<1>4. Scale(n) = z + e - f
  <2>1. up \in Int /\ down \in Int /\ down - up = e - f
    <3> HIDE DEF size
    <3> QED
      BY <1>1
  <2> QED
    BY <1>1, <2>1
<1> HIDE DEF f, e, size
<1>5. CASE e > MaxExponent
  BY <1>1, <1>2, <1>4, <1>5
<1>6. CASE e < -MaxExponent - 1
  BY <1>1, <1>2, <1>3, <1>4, <1>6
<1> QED
  BY <1>1, <1>2, <1>3, <1>5, <1>6

LEMMA ExactIs ==
    ASSUME NEW n \in JSONNumber
    PROVE  /\ ExactJSONInteger(n) \in Int \cup {Refused}
           /\ Exactly(n, ExactJSONInteger(n))
<1> DEFINE d == n.digits
           t == Trimmed(d)
           x == ValueOf(t)
           z == Len(d) - LastNonZero(d)
           v == ExactJSONInteger(n)
<1>1. d \in Seq(0..9)
  BY DEF JSONNumber
<1>2. CASE LastNonZero(d) = 0
  <2>1. t = <<>> /\ ValueOf(d) = 0
    BY <1>1, <1>2, NothingLeft
  <2>2. v = 0
    BY <2>1 DEF ExactJSONInteger
  <2>3. Signed(n, ValueOf(d)) = 0
    <3> DEFINE k == -ValueOf(d)
    <3>1. Signed(n, ValueOf(d)) \in {ValueOf(d), k}
      BY Zenon DEF Signed
    <3>2. k \in Int /\ ValueOf(d) + k = 0
      BY <2>1
    <3> HIDE DEF k
    <3>3. k = 0
      BY <2>1, <3>2
    <3> QED
      BY <2>1, <3>1, <3>3
  <2>4. \A k \in Nat : 0 * PowerOf10(k) = 0
    BY PowerTypes
  <2>5. \A p \in Int : (IF p > 0 THEN p ELSE 0) \in Nat /\ (IF p > 0 THEN 0 ELSE -p) \in Nat
    OBVIOUS
  <2>6. n.fraction - n.exponent \in Int
    BY DEF JSONNumber
  <2>7. 0 # Refused
    BY LogToolAssumption
  <2> QED
    BY <2>2, <2>3, <2>4, <2>5, <2>6, <2>7 DEF Exactly
<1>3. CASE LastNonZero(d) # 0
  <2>1. /\ t \in Seq(Nat) /\ t # <<>> /\ z \in Nat
        /\ x >= PowerOf10(Len(t) - 1)
        /\ \E a \in Nat, e \in 1..9 : x = 10 * a + e
    BY <1>1, <1>3, TrimmedValue
  <2>2. PICK up \in Nat, down \in Nat :
              /\ up = IF n.fraction - n.exponent > 0 THEN n.fraction - n.exponent ELSE 0
              /\ down = IF n.fraction - n.exponent > 0 THEN 0 ELSE -(n.fraction - n.exponent)
              /\ (up = 0 \/ down = 0)
              /\ Scale(n) = z + down - up
    BY <2>1, ScaleIs
  <2> DEFINE written == Signed(n, ValueOf(d)) * PowerOf10(down)
             unit == PowerOf10(up)
  <2>3. written = Signed(n, x * PowerOf10(z + down))
    BY <1>3, WrittenIs
  <2>4. Exactly(n, v) <=> IF v = Refused THEN \A i \in MinInt..MaxInt : i * unit # written
                                         ELSE v * unit = written
    BY <2>2 DEF Exactly
  <2>5. /\ x \in Nat /\ unit \in Nat /\ unit >= 1 /\ Len(t) \in Nat /\ Len(t) - 1 \in Nat
        /\ Scale(n) \in Int /\ z + down \in Nat
    <3>1. x \in Nat
      BY <2>1, ValueTypes
    <3> HIDE DEF x, z, t
    <3>2. Len(t) \in Nat /\ Len(t) >= 1
      BY <2>1
    <3>3. unit \in Nat /\ unit >= 1
      BY PowerTypes
    <3>4. Scale(n) \in Int /\ z + down \in Nat
      BY <2>1, <2>2
    <3> QED
      BY <3>1, <3>2, <3>3, <3>4
  <2>6. MinInt \in Int /\ MaxInt \in Nat /\ MaxDigits \in Nat /\ Refused \notin Int
        /\ MaxInt < PowerOf10(MaxDigits) /\ -PowerOf10(MaxDigits) < MinInt
    BY LogToolAssumption, DigitsAssumption
  <2> DEFINE value == Signed(n, ValueOf(t \o Zeros(Scale(n))))
  <2>7. v = IF \/ Scale(n) < 0
               \/ Len(t) + Scale(n) > MaxDigits
               \/ value \notin MinInt..MaxInt
            THEN Refused ELSE value
    <3>1. v = IF \/ n.exponent \notin -MaxExponent - 1..MaxExponent
                 \/ Scale(n) < 0
                 \/ Len(t) + Scale(n) > MaxDigits
                 \/ value \notin MinInt..MaxInt
              THEN Refused ELSE value
      BY <2>1 DEF ExactJSONInteger
    <3>2. n.exponent \notin -MaxExponent - 1..MaxExponent
            => Scale(n) < 0 \/ Len(t) + Scale(n) > MaxDigits
      <4>1. z <= Len(d)
        <5>1. LastNonZero(d) \in 1..Len(d)
          BY <1>1, <1>3, Trims
        <5> QED
          BY <5>1
      <4>2. Len(t) \in Nat /\ Len(t) >= 1
        BY <2>5
      <4> HIDE DEF z, t
      <4> QED
        BY <2>1, <2>2, <4>1, <4>2, ExponentFits
    <3> HIDE DEF value, v
    <3> QED
      BY <3>1, <3>2, Zenon
  <2>8. CASE Scale(n) >= 0
    <3> DEFINE y == x * PowerOf10(Scale(n))
    <3>1. Scale(n) \in Nat /\ PowerOf10(Scale(n)) \in Nat
      BY <2>5, <2>8, PowerTypes
    <3>2. y \in Nat /\ value = Signed(n, y) /\ value \in Int
      <4>1. ValueOf(t \o Zeros(Scale(n))) = y
        BY <2>1, <3>1, ValueShift
      <4>2. y \in Nat
        BY <2>5, <3>1
      <4> QED
        BY <4>1, <4>2, SignedTimes
    <3>3. written = value * unit
      <4>1. z + down = Scale(n) + up
        BY <2>1, <2>2, <2>5
      <4>2. PowerOf10(z + down) = PowerOf10(Scale(n)) * unit
        BY <3>1, <4>1, PowerSum
      <4>3. x * PowerOf10(z + down) = y * unit
        BY <2>5, <3>1, <4>2, TimesAssociates
      <4>4. Signed(n, y) * unit = Signed(n, y * unit)
        BY <2>5, <3>2, SignedTimes
      <4> QED
        BY <2>3, <3>2, <4>3, <4>4
    <3>4. ASSUME Len(t) + Scale(n) > MaxDigits PROVE value \notin MinInt..MaxInt
      <4>1. PowerOf10(MaxDigits) <= PowerOf10((Len(t) - 1) + Scale(n))
        <5>1. MaxDigits <= (Len(t) - 1) + Scale(n) /\ (Len(t) - 1) + Scale(n) \in Nat
          <6> DEFINE p == Len(t)
                     q == Scale(n)
          <6>1. p \in Nat /\ p - 1 \in Nat /\ q \in Nat /\ p + q > MaxDigits
            BY <2>5, <3>1, <3>4, Zenon
          <6> HIDE DEF p, q
          <6>2. MaxDigits <= (p - 1) + q /\ (p - 1) + q \in Nat
            BY <2>6, <6>1
          <6> QED
            BY <6>2 DEF p, q
        <5> QED
          BY <2>6, <5>1, PowerGrows
      <4>2. PowerOf10((Len(t) - 1) + Scale(n)) = PowerOf10(Len(t) - 1) * PowerOf10(Scale(n))
        BY <2>5, <3>1, PowerSum
      <4>3. PowerOf10(Len(t) - 1) \in Nat /\ PowerOf10(MaxDigits) \in Nat
        BY <2>5, <2>6, PowerTypes
      <4>4. \A a, b, p \in Nat : a <= b => a * p <= b * p
        OBVIOUS
      <4>5. PowerOf10(Len(t) - 1) * PowerOf10(Scale(n)) <= y
        BY <2>1, <2>5, <3>1, <4>3, <4>4
      <4>6. PowerOf10(MaxDigits) <= y
        <5> HIDE DEF y
        <5>1. PowerOf10(Len(t) - 1) * PowerOf10(Scale(n)) \in Int
          BY <3>1, <4>3
        <5> QED
          BY <3>2, <4>1, <4>2, <4>3, <4>5, <5>1
      <4> HIDE DEF y, value
      <4>7. value = y \/ value = -y
        BY <3>2 DEF Signed
      <4> QED
        BY <2>6, <3>2, <4>3, <4>6, <4>7
    <3> HIDE DEF value, written, unit, v, y
    <3>5. CASE v = Refused
      <4>1. value \notin MinInt..MaxInt
        BY <2>5, <2>6, <2>7, <2>8, <3>2, <3>4, <3>5
      <4>2. ASSUME NEW i \in MinInt..MaxInt PROVE i * unit # written
        <5>1. i \in Int /\ i # value
          BY <2>6, <4>1
        <5> QED
          BY <2>5, <3>2, <3>3, <5>1, Cancels
      <4> QED
        BY <2>4, <3>5, <4>2 DEF v
    <3>6. CASE v # Refused
      <4>1. v = value
        BY <2>7, <3>6
      <4> QED
        BY <2>4, <3>2, <3>3, <3>6, <4>1 DEF v
    <3> QED
      BY <3>5, <3>6
  <2>9. CASE Scale(n) < 0
    <3> DEFINE c == -Scale(n)
    <3>1. v = Refused
      <4> HIDE DEF v, value
      <4> QED
        BY <2>7, <2>9
    <3>2. c \in Nat /\ c - 1 \in Nat /\ up = c + z /\ down = 0 /\ z + down = z
      <4> HIDE DEF z, t, x, v, value
      <4>1. (up = 0 \/ down = 0) /\ Scale(n) = z + down - up
        BY <2>2
      <4> QED
        BY <2>1, <2>9, <4>1
    <3>3. /\ PowerOf10(c) \in Nat /\ PowerOf10(c - 1) \in Nat /\ PowerOf10(z) \in Nat
          /\ PowerOf10(z) >= 1
      BY <2>1, <3>2, PowerTypes
    <3> HIDE DEF c
    <3>4. unit = PowerOf10(c) * PowerOf10(z)
      BY <2>1, <3>2, PowerSum
    <3>5. PowerOf10(c) = 10 * PowerOf10(c - 1)
      <4>1. PowerOf10((c - 1) + 1) = 10 * PowerOf10(c - 1)
        BY <3>2, PowerNext
      <4>2. (c - 1) + 1 = c
        BY <3>2
      <4> QED
        BY <4>1, <4>2
    <3>6. written = Signed(n, x) * PowerOf10(z) /\ Signed(n, x) \in Int
      <4>1. Signed(n, x) * PowerOf10(z) = Signed(n, x * PowerOf10(z)) /\ Signed(n, x) \in Int
        BY <2>5, <3>3, SignedTimes
      <4> QED
        BY <2>3, <3>2, <4>1
    <3>7. PICK a \in Nat, e \in 1..9 : x = 10 * a + e
      BY <2>1
    <3> HIDE DEF written, unit, v, x
    <3>8. ASSUME NEW i \in MinInt..MaxInt, i * unit = written PROVE FALSE
      <4>1. i \in Int
        BY <2>6
      <4>2. i * PowerOf10(c) \in Int /\ i * PowerOf10(c - 1) \in Int
        BY <3>3, <4>1
      <4>3. (i * PowerOf10(c)) * PowerOf10(z) = Signed(n, x) * PowerOf10(z)
        BY <3>3, <3>4, <3>6, <3>8, <4>1, TimesAssociates
      <4>4. i * PowerOf10(c) = Signed(n, x)
        BY <3>3, <3>6, <4>2, <4>3, Cancels
      <4> DEFINE k == i * PowerOf10(c - 1)
      <4>5. i * PowerOf10(c) = 10 * k
        <5>1. i * (10 * PowerOf10(c - 1)) = (10 * i) * PowerOf10(c - 1)
          BY <3>3, <4>1, TimesAssociates
        <5>2. 10 * (i * PowerOf10(c - 1)) = (10 * i) * PowerOf10(c - 1)
          BY <3>3, <4>1, TimesAssociates
        <5> QED
          BY <3>5, <5>1, <5>2
      <4>6. k \in Int
        BY <4>2
      <4>7. Signed(n, x) = x \/ Signed(n, x) = -x
        BY DEF Signed
      <4> HIDE DEF k
      <4>8. 10 * k = 10 * a + e \/ 10 * k = -(10 * a + e)
        BY <3>7, <4>4, <4>5, <4>7
      <4> QED
        BY <3>7, <4>6, <4>8
    <3> QED
      BY <2>4, <3>1, <3>8 DEF v
  <2> QED
    BY <2>5, <2>8, <2>9
<1> QED
  BY <1>2, <1>3

-----------------------------------------------------------------------------
(* Rendering *)

(* The lines are those of the newest entries, and one more would not fit.  *)
LEMMA RendersNewest ==
    ASSUME NEW entries \in Seq(ToolEntry), NEW max \in Nat
    PROVE  LET lines == RenderLogs(entries, max)
               size == Len(entries)
               newest(k) == [j \in 1..k |-> LineBytes(entries[size - k + j])]
               r == Len(lines)
           IN /\ lines \in Seq(Nat) /\ r <= size /\ lines = newest(r)
              /\ r > 0 => Bytes(lines) + r - 1 <= max
              /\ r < size => Bytes(newest(r + 1)) + Len(newest(r + 1)) - 1 > max
<1> DEFINE lines == RenderLogs(entries, max)
           size == Len(entries)
           newest(k) == [j \in 1..k |-> LineBytes(entries[size - k + j])]
           r == Len(lines)
           s == Reverse(entries)
<1>1. PICK acc : lines = acc.lines /\ Shows(s, size, max, acc)
  BY RenderShows
<1>2. size \in Nat /\ \A k \in 1..size : s[k] = entries[size - k + 1] /\ entries[k] \in ToolEntry
  BY DEF Reverse
<1> HIDE DEF lines, s
<1>3. /\ acc \in Acc /\ r <= size
      /\ \A i \in 1..r : lines[i] = LineBytes(s[r + 1 - i])
      /\ acc.total = IF r = 0 THEN 0 ELSE Bytes(lines) + r - 1
      /\ acc.total <= max
      /\ ~acc.full => r = size
      /\ acc.full => r < size /\ LineBytes(s[r + 1]) + Bytes(lines) + r > max
  BY <1>1, Zenon DEF Shows
<1>4. lines \in Seq(Nat) /\ r \in Nat
  BY <1>1, <1>3 DEF Acc
<1>5. \A i \in 1..r : lines[i] = LineBytes(entries[size - r + i])
  <2> SUFFICES ASSUME NEW i \in 1..r PROVE lines[i] = LineBytes(entries[size - r + i])
    OBVIOUS
  <2>1. r + 1 - i \in 1..size /\ size - (r + 1 - i) + 1 = size - r + i
    <3> HIDE DEF r, size
    <3> QED
      BY <1>2, <1>3, <1>4
  <2> QED
    BY <1>2, <1>3, <2>1
<1>6. lines = newest(r)
  <2>1. lines = [j \in 1..r |-> lines[j]]
    BY <1>4
  <2> HIDE DEF size
  <2> QED
    BY <1>5, <2>1, Zenon
<1>7. ASSUME r > 0 PROVE Bytes(lines) + r - 1 <= max
  <2> HIDE DEF r
  <2> QED
    BY <1>3, <1>4, <1>7
<1>8. ASSUME r < size PROVE Bytes(newest(r + 1)) + Len(newest(r + 1)) - 1 > max
  <2> DEFINE b == LineBytes(entries[size - r])
             more == newest(r + 1)
  <2>1. LineBytes(s[r + 1]) + Bytes(lines) + r > max
    <3> HIDE DEF r, size
    <3> QED
      BY <1>3, <1>4, <1>8, <1>2
  <2>2. s[r + 1] = entries[size - r] /\ entries[size - r] \in ToolEntry
    <3>1. r + 1 \in 1..size /\ size - r \in 1..size /\ size - (r + 1) + 1 = size - r
      <4> HIDE DEF r, size
      <4> QED
        BY <1>2, <1>4, <1>8
    <3> QED
      BY <1>2, <3>1
  <2>3. b \in Nat
    BY <2>2, LineTypes
  <2> HIDE DEF b
  <2> DEFINE w == <<b>> \o lines
  <2>4. /\ w \in Seq(Nat) /\ Len(w) = r + 1
        /\ w[1] = b /\ \A i \in 2..r + 1 : w[i] = lines[i - 1]
        /\ Bytes(w) = b + Bytes(lines)
    BY <1>4, <2>3, PrependNat
  <2>5. more = w
    <3>1. \A j \in 1..r + 1 : w[j] = LineBytes(entries[size - (r + 1) + j])
      <4> SUFFICES ASSUME NEW j \in 1..r + 1
                   PROVE  w[j] = LineBytes(entries[size - (r + 1) + j])
        OBVIOUS
      <4>1. CASE j = 1
        <5>1. size - (r + 1) + j = size - r
          <6> HIDE DEF r, size
          <6> QED
            BY <1>2, <1>4, <4>1
        <5> QED
          BY <2>4, <4>1, <5>1 DEF b
      <4>2. CASE j # 1
        <5>1. j \in 2..r + 1 /\ j - 1 \in 1..r /\ size - (r + 1) + j = size - r + (j - 1)
          <6> HIDE DEF r, size
          <6> QED
            BY <1>2, <1>4, <4>2
        <5> HIDE DEF w
        <5> QED
          BY <1>5, <2>4, <5>1
      <4> QED
        BY <4>1, <4>2
    <3>2. w = [j \in 1..r + 1 |-> w[j]]
      <4> HIDE DEF w
      <4> QED
        BY <2>4
    <3> HIDE DEF w, size
    <3> QED
      BY <3>1, <3>2, Zenon
  <2>6. Bytes(lines) \in Nat
    BY <1>4, BytesTypes
  <2>7. Bytes(w) + Len(w) - 1 > max
    <3>1. b + Bytes(lines) + r > max
      BY <2>1, <2>2 DEF b
    <3> HIDE DEF w, r, size
    <3> QED
      BY <1>4, <2>3, <2>4, <2>6, <3>1
  <2> QED
    BY <2>5, <2>7
<1> QED
  BY <1>3, <1>4, <1>6, <1>7, <1>8 DEF lines

-----------------------------------------------------------------------------
(* The handler *)

ToolRecords ==
    [at : {"called", "decoded", "invalid", "no limit", "failed", "read", "nothing", "replied"},
     tail : Numbers \cup {Absent}, max : Numbers \cup {Absent},
     tailIs : Int \cup {Refused}, maxIs : Int \cup {Refused}, entries : Seq(ToolEntry),
     message : Seq(Nat), text : Seq(Nat), lines : Seq(Nat), omitted : Int]

(* What each step has left for the next: the numbers taken for what they   *)
(* are, limits that were checked before anything is cut to them, and the   *)
(* lines of the entries read.                                              *)
ToolInv ==
    /\ tool \in ToolRecords
    /\ tool.at \in {"decoded", "invalid"} =>
         /\ tool.tailIs = IntPointer(tool.tail, DefaultTail)
         /\ tool.maxIs = IntPointer(tool.max, DefaultMaxBytes)
    /\ tool.at \in {"failed", "read", "nothing", "replied"} => tool.maxIs \in 1..MaxMaxBytes
    /\ tool.at \notin {"read", "nothing", "replied"} => tool.entries = <<>>
    /\ tool.at \notin {"nothing", "replied"} => tool.lines = <<>> /\ tool.omitted = 0
    /\ tool.at \in {"nothing", "replied"} =>
         /\ tool.lines = RenderLogs(tool.entries, tool.maxIs)
         /\ tool.omitted = Len(tool.entries) - Len(tool.lines)
    /\ tool.at = "nothing" => tool.lines = <<>>
    /\ tool.at = "replied" /\ tool.lines = <<>> =>
         tool.text = TruncateUTF8Bytes(tool.message, tool.maxIs)

LEMMA IntPointerTypes ==
    ASSUME NEW n \in Numbers \cup {Absent}, NEW default \in Int
    PROVE  IntPointer(n, default) \in Int \cup {Refused}
<1>1. CASE n = Absent
  BY <1>1 DEF IntPointer
<1>2. CASE n # Absent
  <2>1. n \in JSONNumber
    BY <1>2, NumbersAre
  <2> QED
    BY <1>2, <2>1, ExactIs DEF IntPointer
<1> QED
  BY <1>1, <1>2

LEMMA NothingRendered ==
    ASSUME NEW max \in Nat
    PROVE  RenderLogs(<<>>, max) = <<>>
<1>1. <<>> \in Seq(ToolEntry) /\ Len(<<>>) = 0
  OBVIOUS
<1>2. RenderLogs(<<>>, max) \in Seq(Nat) /\ Len(RenderLogs(<<>>, max)) <= Len(<<>>)
  BY <1>1, RendersNewest
<1> HIDE DEF RenderLogs
<1> QED
  BY <1>1, <1>2

LEMMA Defaults ==
    /\ DefaultTail \in Int /\ DefaultMaxBytes \in 1..MaxMaxBytes /\ DefaultMaxBytes \in Int
    /\ MaxMaxBytes \in Nat /\ Refused \notin Int
BY LogToolAssumption

LEMMA ToolInitInv == ToolInit => ToolInv
<1> SUFFICES ASSUME ToolInit PROVE ToolInv
  OBVIOUS
<1>0. PICK m \in Numbers \cup {Absent}, n \in Numbers \cup {Absent} :
         tool = [Start EXCEPT !.tail = m, !.max = n]
  BY LogToolAssumption DEF ToolInit
<1>1. <<>> \in Seq(ToolEntry) /\ <<>> \in Seq(Nat) /\ 0 \in Int
  OBVIOUS
<1>2. /\ tool.at = "called" /\ tool.entries = <<>> /\ tool.lines = <<>> /\ tool.omitted = 0
      /\ tool \in ToolRecords
  BY <1>0, <1>1, Defaults DEF Start, ToolRecords
<1> QED
  BY <1>2 DEF ToolInv

LEMMA DecodeInv == ToolInv /\ Decode => ToolInv'
<1> SUFFICES ASSUME ToolInv, Decode PROVE ToolInv'
  OBVIOUS
<1> DEFINE tailIs == IntPointer(tool.tail, DefaultTail)
           maxIs == IntPointer(tool.max, DefaultMaxBytes)
           t == [tool EXCEPT !.tailIs = tailIs, !.maxIs = maxIs]
           at == IF Refused \in {t.tailIs, t.maxIs} THEN "invalid" ELSE "decoded"
<1>1. tool \in ToolRecords /\ tool.at = "called" /\ tool' = [t EXCEPT !.at = at]
  BY DEF ToolInv, Decode
<1>2. tool.entries = <<>> /\ tool.lines = <<>> /\ tool.omitted = 0
  BY <1>1 DEF ToolInv
<1>3. tailIs \in Int \cup {Refused} /\ maxIs \in Int \cup {Refused}
  BY <1>1, IntPointerTypes, Defaults DEF ToolRecords
<1>4. at \in {"invalid", "decoded"}
  OBVIOUS
<1> HIDE DEF tailIs, maxIs, at
<1>5. /\ tool' \in ToolRecords /\ tool'.at \in {"invalid", "decoded"}
      /\ tool'.tail = tool.tail /\ tool'.max = tool.max
      /\ tool'.tailIs = tailIs /\ tool'.maxIs = maxIs
      /\ tool'.entries = <<>> /\ tool'.lines = <<>> /\ tool'.omitted = 0
  BY <1>1, <1>2, <1>3, <1>4 DEF ToolRecords
<1> QED
  BY <1>5 DEF ToolInv, tailIs, maxIs

LEMMA InvalidInv == ToolInv /\ Invalid => ToolInv'
<1> SUFFICES ASSUME ToolInv, Invalid PROVE ToolInv'
  OBVIOUS
<1> DEFINE max == IF tool.maxIs \in 1..MaxMaxBytes THEN tool.maxIs ELSE DefaultMaxBytes
<1>1. /\ tool \in ToolRecords /\ tool.at \in {"invalid", "decoded"}
      /\ tool' = [[tool EXCEPT !.at = "failed", !.tailIs = DefaultTail, !.maxIs = max]
                     EXCEPT !.tail = Absent, !.max = Absent]
  BY DEF ToolInv, Invalid, Goes
<1>2. tool.entries = <<>> /\ tool.lines = <<>> /\ tool.omitted = 0
  BY <1>1 DEF ToolInv
<1>3. max \in 1..MaxMaxBytes /\ max \in Int /\ DefaultTail \in Int
  BY Defaults
<1> HIDE DEF max
<1>4. /\ tool' \in ToolRecords /\ tool'.at = "failed" /\ tool'.maxIs = max
      /\ tool'.entries = <<>> /\ tool'.lines = <<>> /\ tool'.omitted = 0
  BY <1>1, <1>2, <1>3 DEF ToolRecords
<1> QED
  BY <1>3, <1>4 DEF ToolInv

(* A call that was decoded ends without an answer from the task's log.     *)
LEMMA BadInputInv == ToolInv /\ (BadMaxBytes \/ BadTail) => ToolInv'
<1> SUFFICES ASSUME ToolInv, BadMaxBytes \/ BadTail PROVE ToolInv'
  OBVIOUS
<1>1. PICK at \in {"no limit", "failed"} :
          /\ tool.at = "decoded"
          /\ tool' = [[tool EXCEPT !.at = at] EXCEPT !.tail = Absent, !.max = Absent]
          /\ at = "failed" => tool.maxIs \in 1..MaxMaxBytes
  BY DEF BadMaxBytes, BadTail, Goes
<1>2. tool \in ToolRecords /\ tool.entries = <<>> /\ tool.lines = <<>> /\ tool.omitted = 0
  BY <1>1 DEF ToolInv
<1>3. /\ tool' \in ToolRecords /\ tool'.at = at /\ tool'.maxIs = tool.maxIs
      /\ tool'.entries = <<>> /\ tool'.lines = <<>> /\ tool'.omitted = 0
  BY <1>1, <1>2 DEF ToolRecords
<1> QED
  BY <1>1, <1>3 DEF ToolInv

LEMMA LogsInv == ToolInv /\ (\E entries \in EntryLists : Logs(entries)) => ToolInv'
<1> SUFFICES ASSUME ToolInv, NEW entries \in EntryLists, Logs(entries) PROVE ToolInv'
  OBVIOUS
<1>1. tool.at = "decoded" /\ tool.maxIs \in 1..MaxMaxBytes
  BY DEF Logs, Goes
<1>2. tool \in ToolRecords /\ tool.entries = <<>> /\ tool.lines = <<>> /\ tool.omitted = 0
  BY <1>1 DEF ToolInv
<1>3. entries \in Seq(ToolEntry)
  BY LogToolAssumption DEF ToolEntry
<1>4. CASE tool' = [[tool EXCEPT !.at = "read", !.entries = entries]
                      EXCEPT !.tail = Absent, !.max = Absent]
  <2>1. /\ tool' \in ToolRecords /\ tool'.at = "read" /\ tool'.maxIs = tool.maxIs
        /\ tool'.lines = <<>> /\ tool'.omitted = 0
    BY <1>2, <1>3, <1>4 DEF ToolRecords
  <2> QED
    BY <1>1, <2>1 DEF ToolInv
<1>5. CASE tool' = [[tool EXCEPT !.at = "failed"] EXCEPT !.tail = Absent, !.max = Absent]
  <2>1. /\ tool' \in ToolRecords /\ tool'.at = "failed" /\ tool'.maxIs = tool.maxIs
        /\ tool'.entries = <<>> /\ tool'.lines = <<>> /\ tool'.omitted = 0
    BY <1>2, <1>5 DEF ToolRecords
  <2> QED
    BY <1>1, <2>1 DEF ToolInv
<1> QED
  BY <1>4, <1>5 DEF Logs, Goes

LEMMA RenderInv == ToolInv /\ Render => ToolInv'
<1> SUFFICES ASSUME ToolInv, Render PROVE ToolInv'
  OBVIOUS
<1> DEFINE lines == RenderLogs(tool.entries, tool.maxIs)
           omitted == Len(tool.entries) - Len(lines)
           at == IF lines = <<>> THEN "nothing" ELSE "replied"
<1>1. /\ tool.at = "read"
      /\ tool' = [[[tool EXCEPT !.lines = lines, !.omitted = omitted] EXCEPT !.at = at]
                     EXCEPT !.tail = Absent, !.max = Absent]
  BY DEF Render, Goes
<1>2. tool \in ToolRecords /\ tool.maxIs \in 1..MaxMaxBytes
  BY <1>1 DEF ToolInv
<1>3. tool.entries \in Seq(ToolEntry) /\ tool.maxIs \in Nat
  <2>1. tool.entries \in Seq(ToolEntry)
    BY <1>2 DEF ToolRecords
  <2>2. tool.maxIs \in Nat
    BY <1>2, Defaults
  <2> QED
    BY <2>1, <2>2
<1>4. lines \in Seq(Nat) /\ omitted \in Int
  <2>1. lines \in Seq(Nat)
    BY <1>3, RendersNewest
  <2> HIDE DEF lines
  <2>2. Len(lines) \in Nat /\ Len(tool.entries) \in Nat
    BY <1>3, <2>1
  <2> QED
    BY <2>1, <2>2
<1>5. at \in {"nothing", "replied"} /\ (at = "nothing" <=> lines = <<>>)
  OBVIOUS
<1> HIDE DEF lines, omitted, at
<1>6. /\ tool' \in ToolRecords /\ tool'.at = at /\ tool'.maxIs = tool.maxIs
      /\ tool'.entries = tool.entries /\ tool'.lines = lines /\ tool'.omitted = omitted
  BY <1>1, <1>2, <1>4, <1>5 DEF ToolRecords
<1>7. tool'.lines = RenderLogs(tool'.entries, tool'.maxIs)
      /\ tool'.omitted = Len(tool'.entries) - Len(tool'.lines)
  BY <1>6, Zenon DEF lines, omitted
<1> QED
  BY <1>2, <1>5, <1>6, <1>7 DEF ToolInv

LEMMA SayInv == ToolInv /\ (\E message \in Messages : Say(message)) => ToolInv'
<1> SUFFICES ASSUME ToolInv, NEW message \in Messages, Say(message) PROVE ToolInv'
  OBVIOUS
<1> DEFINE cut == TruncateUTF8Bytes(message, tool.maxIs)
<1>1. /\ tool.at \in {"failed", "nothing"}
      /\ tool' = [[tool EXCEPT !.at = "replied", !.message = message, !.text = cut]
                     EXCEPT !.tail = Absent, !.max = Absent]
  BY DEF Say, Goes
<1>2. tool \in ToolRecords /\ tool.maxIs \in 1..MaxMaxBytes
  BY <1>1 DEF ToolInv
<1>3. tool.maxIs \in Nat /\ tool.maxIs \in Int
  BY <1>2, Defaults
<1>4. message \in Seq(Nat) /\ cut \in Seq(Nat)
  BY <1>3, LogToolAssumption, Widths, Truncates
<1> HIDE DEF cut
<1>5. tool.lines = <<>> /\ tool.lines = RenderLogs(tool.entries, tool.maxIs)
      /\ tool.omitted = Len(tool.entries) - Len(tool.lines)
  <2>1. CASE tool.at = "nothing"
    BY <2>1 DEF ToolInv
  <2>2. CASE tool.at = "failed"
    <3>1. tool.entries = <<>> /\ tool.lines = <<>> /\ tool.omitted = 0
      BY <2>2 DEF ToolInv
    <3>2. Len(<<>>) - Len(<<>>) = 0
      OBVIOUS
    <3> QED
      BY <1>3, <3>1, <3>2, NothingRendered, Zenon
  <2> QED
    BY <1>1, <2>1, <2>2
<1>6. /\ tool' \in ToolRecords /\ tool'.at = "replied" /\ tool'.maxIs = tool.maxIs
      /\ tool'.entries = tool.entries /\ tool'.lines = tool.lines
      /\ tool'.omitted = tool.omitted /\ tool'.message = message /\ tool'.text = cut
  BY <1>1, <1>2, <1>4 DEF ToolRecords
<1>7. tool'.text = TruncateUTF8Bytes(tool'.message, tool'.maxIs)
      /\ tool'.lines = RenderLogs(tool'.entries, tool'.maxIs)
      /\ tool'.omitted = Len(tool'.entries) - Len(tool'.lines)
  BY <1>5, <1>6, Zenon DEF cut
<1> QED
  BY <1>2, <1>6, <1>7 DEF ToolInv

LEMMA ToolNextInv == ToolInv /\ [ToolNext]_tool => ToolInv'
<1>1. ASSUME ToolInv, UNCHANGED tool PROVE ToolInv'
  BY <1>1, Zenon DEF ToolInv
<1> QED
  BY <1>1, DecodeInv, InvalidInv, BadInputInv, LogsInv, RenderInv, SayInv, Zenon DEF ToolNext

LEMMA ToolKeeps == ToolSpec => []ToolInv
BY ToolInitInv, ToolNextInv, PTL DEF ToolSpec

-----------------------------------------------------------------------------

(* exactJSONInteger, for integers and numbers of any size: one that is     *)
(* taken is what was written, however it was written, and one that is      *)
(* refused is no integer of the machine.                                   *)
THEOREM NumbersAreExact == ToolSpec => []NumbersExact
<1>1. ToolInv => NumbersExact
  <2> SUFFICES ASSUME ToolInv, tool.at \in {"decoded", "invalid"}
               PROVE  \A x \in {<<tool.tail, tool.tailIs>>, <<tool.max, tool.maxIs>>} :
                         x[1] # Absent => Exactly(x[1], x[2])
    BY Zenon DEF NumbersExact, Exactly
  <2>1. ASSUME NEW n \in Numbers \cup {Absent}, NEW default, n # Absent
        PROVE  Exactly(n, IntPointer(n, default))
    <3>1. n \in JSONNumber
      BY <2>1, NumbersAre
    <3> QED
      BY <2>1, <3>1, ExactIs DEF IntPointer
  <2>2. tool.tail \in Numbers \cup {Absent} /\ tool.max \in Numbers \cup {Absent}
    BY DEF ToolInv, ToolRecords
  <2>3. tool.tailIs = IntPointer(tool.tail, DefaultTail)
        /\ tool.maxIs = IntPointer(tool.max, DefaultMaxBytes)
    BY DEF ToolInv
  <2>4. tool.tail # Absent => Exactly(tool.tail, tool.tailIs)
    BY <2>1, <2>2, <2>3, Zenon
  <2>5. tool.max # Absent => Exactly(tool.max, tool.maxIs)
    BY <2>1, <2>2, <2>3, Zenon
  <2> HIDE DEF Exactly
  <2> QED
    BY <2>4, <2>5
<1> QED
  BY <1>1, ToolKeeps, PTL

(* truncateUTF8Bytes, for a message of any length and any max_bytes: the   *)
(* reply to a call that failed, or that has nothing to show, keeps to its  *)
(* bytes and cuts no character.                                            *)
THEOREM MessagesAreCut == ToolSpec => []CutsBetweenCharacters
<1>1. ToolInv => CutsBetweenCharacters
  <2> SUFFICES ASSUME ToolInv, tool.at = "replied", tool.lines = <<>>
               PROVE  CutsBetweenCharacters
    BY DEF CutsBetweenCharacters
  <2>1. /\ tool.text = TruncateUTF8Bytes(tool.message, tool.maxIs)
        /\ tool.maxIs \in 1..MaxMaxBytes /\ tool.message \in Seq(Nat)
    BY DEF ToolInv, ToolRecords
  <2>2. tool.maxIs \in Int /\ tool.maxIs > 0 /\ tool.maxIs >= 0
    BY <2>1, Defaults
  <2> DEFINE message == tool.message
             max == tool.maxIs
  <2> HIDE DEF message, max
  <2>3. LET cut == TruncateUTF8Bytes(message, max)
            kept == Len(cut) - 1
        IN /\ max >= 0 => Bytes(cut) <= max
           /\ max > 0 /\ Bytes(message) <= max => cut = message
           /\ Bytes(message) > max /\ max >= 3 =>
                /\ cut = SubSeq(message, 1, kept) \o Ellipsis
                /\ Bytes(SubSeq(message, 1, kept + 1)) + 3 > max
    BY <2>1, <2>2, Truncates DEF message, max
  <2> QED
    BY <2>1, <2>2, <2>3, Zenon DEF CutsBetweenCharacters, message, max
<1> QED
  BY <1>1, ToolKeeps, PTL

(* renderLogs, for any number of entries of any length: the reply shows    *)
(* the newest of them, as many as fit, and counts the others.              *)
THEOREM NewestAreRendered == ToolSpec => []RendersTheNewest
<1>1. ToolInv => RendersTheNewest
  <2> SUFFICES ASSUME ToolInv, tool.at \in {"nothing", "replied"}
               PROVE  RendersTheNewest
    BY DEF RendersTheNewest
  <2>1. /\ tool.lines = RenderLogs(tool.entries, tool.maxIs)
        /\ tool.omitted = Len(tool.entries) - Len(tool.lines)
        /\ tool.maxIs \in 1..MaxMaxBytes /\ tool.entries \in Seq(ToolEntry)
    BY DEF ToolInv, ToolRecords
  <2>2. tool.maxIs \in Nat
    BY <2>1, Defaults
  <2> QED
    BY <2>1, <2>2, RendersNewest, Zenon DEF RendersTheNewest
<1> QED
  BY <1>1, ToolKeeps, PTL
=============================================================================
