--------------------------- MODULE ProtocolProofs ---------------------------
(***************************************************************************)
(* Protocol for every size of a byte and a word and every message: what    *)
(* either side sends is a packet whose header tells its size, and the      *)
(* other side reads it as it was meant if its fields have room for it.     *)
(***************************************************************************)
EXTENDS Protocol, SequenceTheorems, WellFoundedInduction, TLAPS

-----------------------------------------------------------------------------
(* Induction and recursion, over the naturals up to n.                     *)

Below == {ss \in Nat \X Nat : ss[1] < ss[2]}

\* What replaces induction: a set of counterexamples has a least one.
LEMMA LeastOfNat ==
  ASSUME NEW T, T \subseteq Nat, T # {}
  PROVE  \E x \in T : \A y \in T : x <= y
<1>1. IsWellFoundedOn(Below, Nat)
  BY NatLessThanWellFounded DEF OpToRel, Below
<1>2. PICK x \in T : \A y \in T : ~ (<<y, x>> \in Below)
  BY <1>1, WFMin
<1>3. ASSUME NEW y \in T PROVE x <= y
  <2>1. x \in Nat /\ y \in Nat
    OBVIOUS
  <2>2. ~(y < x)
    BY <1>2, <2>1 DEF Below
  <2> QED
    BY <2>1, <2>2
<1> QED
  BY <1>3

\* A set with 0 and every successor up to n holds all of them.
LEMMA UpTo ==
  ASSUME NEW n \in Nat, NEW T, 0 \in T,
         \A i \in 1 .. n : i - 1 \in T => i \in T
  PROVE  \A i \in 0 .. n : i \in T
<1> DEFINE Bad == {i \in 0 .. n : i \notin T}
<1>1. SUFFICES ASSUME Bad # {} PROVE FALSE
  OBVIOUS
<1>2. Bad \subseteq Nat
  OBVIOUS
<1> HIDE DEF Bad
<1>3. PICK m \in Bad : \A k \in Bad : m <= k
  BY <1>1, <1>2, LeastOfNat
<1> USE DEF Bad
<1>4. m \in 1 .. n /\ m - 1 \in 0 .. n /\ m \notin T
  <2>1. m \in 0 .. n /\ m \notin T
    OBVIOUS
  <2>2. m # 0
    BY <2>1
  <2> QED
    BY <2>1, <2>2
<1>5. m - 1 \notin Bad
  BY <1>3, <1>4
<1> QED
  BY <1>4, <1>5

\* What a recursion makes of the value before, and the functions it defines.
Steps(n, S) == [1 .. n -> [S -> S]]

Solutions(n, S, a, h) ==
  {F \in [0 .. n -> S] : F[0] = a /\ \A i \in 1 .. n : F[i] = h[i][F[i - 1]]}

\* There is such a function.
LEMMA Recursion ==
  ASSUME NEW S, NEW a \in S, NEW n \in Nat, NEW h \in Steps(n, S)
  PROVE  \E F : F \in Solutions(n, S, a, h)
<1> USE DEF Steps
<1> DEFINE Solved(m) ==
             \E F \in [0 .. m -> S] :
               F[0] = a /\ \A i \in 1 .. m : F[i] = h[i][F[i - 1]]
           T == {m \in 0 .. n : Solved(m)}
<1>1. 0 \in T
  <2> DEFINE F == [i \in 0 .. 0 |-> a]
  <2>1. F \in [0 .. 0 -> S] /\ F[0] = a /\ 1 .. 0 = {}
    OBVIOUS
  <2> HIDE DEF F
  <2> QED
    BY <2>1
<1>2. ASSUME NEW m \in 1 .. n, m - 1 \in T PROVE m \in T
  <2>1. PICK F \in [0 .. m - 1 -> S] :
          F[0] = a /\ \A i \in 1 .. m - 1 : F[i] = h[i][F[i - 1]]
    BY <1>2
  <2> DEFINE e == h[m][F[m - 1]]
  <2>2. m - 1 \in 0 .. m - 1 /\ F[m - 1] \in S
    BY <2>1
  <2>3. e \in S
    BY <2>2
  <2> HIDE DEF e, T
  <2> DEFINE G == [i \in 0 .. m |-> IF i = m THEN e ELSE F[i]]
  <2>4. G \in [0 .. m -> S]
    <3>1. ASSUME NEW i \in 0 .. m, i # m PROVE F[i] \in S
      <4>1. i \in 0 .. m - 1
        BY <3>1
      <4> QED
        BY <4>1, <2>1
    <3> QED
      BY <2>3, <3>1
  <2>5. G[m] = e /\ \A i \in 0 .. m - 1 : G[i] = F[i]
    OBVIOUS
  <2> HIDE DEF G
  <2>6. G[0] = a
    BY <2>1, <2>5
  <2>7. ASSUME NEW i \in 1 .. m PROVE G[i] = h[i][G[i - 1]]
    <3>1. i - 1 \in 0 .. m - 1
      OBVIOUS
    <3>2. G[i - 1] = F[i - 1]
      BY <2>5, <3>1
    <3>3. CASE i = m
      BY <2>5, <3>2, <3>3 DEF e
    <3>4. CASE i # m
      <4>1. i \in 1 .. m - 1 /\ i \in 0 .. m - 1
        BY <3>4
      <4> QED
        BY <2>1, <2>5, <3>2, <4>1
    <3> QED
      BY <3>3, <3>4
  <2>8. Solved(m)
    BY <2>4, <2>6, <2>7
  <2>9. m \in 0 .. n
    OBVIOUS
  <2> QED
    BY <2>8, <2>9 DEF T
<1> HIDE DEF T
<1>3. \A m \in 0 .. n : m \in T
  BY <1>1, <1>2, UpTo
<1>4. Solved(n)
  BY <1>3 DEF T
<1> QED
  BY <1>4 DEF Solutions

-----------------------------------------------------------------------------
(* A number and its bytes.                                                 *)

LEMMA Division ==
  ASSUME Sizes, NEW v \in Nat
  PROVE  /\ v \div BYTE \in Nat
         /\ v % BYTE \in 0 .. BYTE - 1
         /\ v = (v % BYTE) + BYTE * (v \div BYTE)
  BY DEF Sizes, World

\* What is left, and what is left of that.
LEMMA ShiftedFrom ==
  ASSUME Sizes, NEW v \in Nat, NEW n \in Nat
  PROVE  \E F \in [0 .. n -> Nat] :
           /\ F[0] = v
           /\ \A i \in 1 .. n : F[i] = F[i - 1] \div BYTE
           /\ \A i \in 0 .. n : Shifted(v, i) = F[i]
<1> DEFINE h == [i \in 1 .. n |-> [r \in Nat |-> r \div BYTE]]
<1>1. h \in Steps(n, Nat)
  <2> SUFFICES ASSUME NEW r \in Nat PROVE r \div BYTE \in Nat
    BY DEF Steps
  <2> QED
    BY Division
<1>2. \A i \in 1 .. n : \A r \in Nat : h[i][r] = r \div BYTE
  OBVIOUS
<1> HIDE DEF h
<1>f. PICK F : F \in Solutions(n, Nat, v, h)
  BY <1>1, Recursion
<1>3. /\ F \in [0 .. n -> Nat] /\ F[0] = v
      /\ \A i \in 1 .. n : F[i] = h[i][F[i - 1]]
  BY <1>f DEF Solutions
<1>4. \A i \in 1 .. n : F[i] = F[i - 1] \div BYTE
  <2> SUFFICES ASSUME NEW i \in 1 .. n PROVE F[i] = F[i - 1] \div BYTE
    OBVIOUS
  <2>1. F[i - 1] \in Nat
    BY <1>3
  <2> QED
    BY <1>2, <1>3, <2>1
<1>5. ASSUME NEW m \in 0 .. n PROVE Shifted(v, m) = F[m]
  <2> DEFINE Rest(f) == [k \in 0 .. m |->
                           IF k = 0 THEN v ELSE f[k - 1] \div BYTE]
             rest == CHOOSE f : f = Rest(f)
             G == [k \in 0 .. m |-> F[k]]
  <2>1. Shifted(v, m) = rest[m]
    BY DEF Shifted
  <2>2. G = Rest(G)
    <3> SUFFICES ASSUME NEW k \in 0 .. m
                 PROVE  F[k] = IF k = 0 THEN v ELSE G[k - 1] \div BYTE
      OBVIOUS
    <3>1. CASE k # 0
      <4>1. k \in 1 .. n /\ k - 1 \in 0 .. m
        BY <3>1
      <4> QED
        BY <1>4, <3>1, <4>1
    <3> QED
      BY <1>3, <3>1
  <2>3. rest = Rest(rest)
    <3> HIDE DEF Rest, G
    <3> QED
      BY <2>2
  <2> HIDE DEF rest
  <2>4. rest[0] = v
    BY <2>3
  <2>5. \A k \in 1 .. m : rest[k] = rest[k - 1] \div BYTE
    <3> SUFFICES ASSUME NEW k \in 1 .. m PROVE rest[k] = rest[k - 1] \div BYTE
      OBVIOUS
    <3>1. k \in 0 .. m /\ k # 0
      OBVIOUS
    <3>2. Rest(rest)[k] = rest[k - 1] \div BYTE
      BY <3>1
    <3> HIDE DEF Rest
    <3> QED
      BY <2>3, <3>2
  <2> DEFINE T == {k \in 0 .. m : rest[k] = F[k]}
  <2>6. 0 \in T
    BY <1>3, <2>4
  <2>7. ASSUME NEW k \in 1 .. m, k - 1 \in T PROVE k \in T
    <3>1. k \in 1 .. n /\ rest[k - 1] = F[k - 1]
      BY <2>7
    <3>2. rest[k] = F[k]
      BY <1>4, <2>5, <3>1
    <3> QED
      BY <3>2
  <2> HIDE DEF T
  <2>8. m \in T
    BY <2>6, <2>7, UpTo, m \in Nat, m \in 0 .. m
  <2> QED
    BY <2>1, <2>8 DEF T
<1> QED
  BY <1>3, <1>4, <1>5

LEMMA ShiftedSteps ==
  ASSUME Sizes, NEW v \in Nat, NEW i \in Nat
  PROVE  /\ Shifted(v, i) \in Nat
         /\ Shifted(v, 0) = v
         /\ Shifted(v, i + 1) = Shifted(v, i) \div BYTE
<1>1. PICK F \in [0 .. i + 1 -> Nat] :
        /\ F[0] = v
        /\ \A k \in 1 .. i + 1 : F[k] = F[k - 1] \div BYTE
        /\ \A k \in 0 .. i + 1 : Shifted(v, k) = F[k]
  BY ShiftedFrom, i + 1 \in Nat
<1>2. i \in 0 .. i + 1 /\ i + 1 \in 1 .. i + 1 /\ i + 1 \in 0 .. i + 1
        /\ 0 \in 0 .. i + 1 /\ (i + 1) - 1 = i
  OBVIOUS
<1> QED
  BY <1>1, <1>2

LEMMA WriteType ==
  ASSUME Sizes, NEW v \in Nat, NEW w \in Nat
  PROVE  Write(w, v) \in Seq(Nat) /\ Len(Write(w, v)) = w
<1>1. \A i \in 1 .. w : Shifted(v, i - 1) % BYTE \in Nat
  <2> SUFFICES ASSUME NEW i \in 1 .. w PROVE Shifted(v, i - 1) % BYTE \in Nat
    OBVIOUS
  <2>1. Shifted(v, i - 1) \in Nat
    BY ShiftedSteps, i - 1 \in Nat
  <2> QED
    BY <2>1, Division
<1>2. Write(w, v) \in [1 .. w -> Nat]
  BY <1>1 DEF Write
<1> QED
  BY <1>2

\* What fits is read as it was written.
LEMMA NumberOfWrite ==
  ASSUME Sizes, NEW w \in Nat, NEW v, Fits(w, v)
  PROVE  Number(Write(w, v)) = v
<1> DEFINE bytes == Write(w, v)
           Upper(f) == [i \in 0 .. w |->
                          IF i = 0 THEN 0
                          ELSE bytes[w - i + 1] + BYTE * f[i - 1]]
           upper == CHOOSE f : f = Upper(f)
           U == [i \in 0 .. w |-> Shifted(v, w - i)]
<1>1. v \in Nat /\ Shifted(v, w) = 0
  BY DEF Fits
<1>2. Len(bytes) = w
  BY <1>1, WriteType
<1>3. Number(bytes) = upper[w]
  <2> HIDE DEF bytes
  <2> QED
    BY <1>2 DEF Number
<1>4. ASSUME NEW i \in 1 .. w
      PROVE  Shifted(v, w - i) = bytes[w - i + 1] + BYTE * Shifted(v, w - i + 1)
  <2>1. w - i \in Nat /\ w - i + 1 \in 1 .. w /\ (w - i + 1) - 1 = w - i
    OBVIOUS
  <2>2. bytes[w - i + 1] = Shifted(v, w - i) % BYTE
    BY <2>1 DEF Write
  <2>3. /\ Shifted(v, w - i) \in Nat
        /\ Shifted(v, w - i + 1) = Shifted(v, w - i) \div BYTE
    BY <1>1, <2>1, ShiftedSteps
  <2> HIDE DEF bytes
  <2> QED
    BY <2>2, <2>3, Division
<1> HIDE DEF bytes
<1>5. U = Upper(U)
  <2> SUFFICES ASSUME NEW i \in 0 .. w
               PROVE  Shifted(v, w - i)
                        = IF i = 0 THEN 0
                          ELSE bytes[w - i + 1] + BYTE * U[i - 1]
    OBVIOUS
  <2>1. CASE i = 0
    BY <1>1, <2>1
  <2>2. CASE i # 0
    <3>1. i - 1 \in 0 .. w /\ w - (i - 1) = w - i + 1 /\ i \in 1 .. w
      BY <2>2
    <3>2. U[i - 1] = Shifted(v, w - i + 1)
      BY <3>1
    <3> QED
      BY <1>4, <2>2, <3>1, <3>2
  <2> QED
    BY <2>1, <2>2
<1>6. upper = Upper(upper)
  <2> HIDE DEF Upper, U
  <2> QED
    BY <1>5
<1> HIDE DEF upper
<1>7. upper[0] = 0 /\ U[0] = 0
  BY <1>1, <1>6
<1>8. \A i \in 1 .. w : upper[i] = bytes[w - i + 1] + BYTE * upper[i - 1]
  BY <1>6
<1>9. \A i \in 1 .. w : U[i] = bytes[w - i + 1] + BYTE * U[i - 1]
  <2> SUFFICES ASSUME NEW i \in 1 .. w
               PROVE  U[i] = bytes[w - i + 1] + BYTE * U[i - 1]
    OBVIOUS
  <2>1. i \in 0 .. w /\ i # 0
    OBVIOUS
  <2>2. Upper(U)[i] = bytes[w - i + 1] + BYTE * U[i - 1]
    BY <2>1
  <2> HIDE DEF U, Upper
  <2> QED
    BY <1>5, <2>2
<1> HIDE DEF U, Upper
<1> DEFINE T == {i \in 0 .. w : upper[i] = U[i]}
<1>10. 0 \in T
  BY <1>7
<1>11. ASSUME NEW i \in 1 .. w, i - 1 \in T PROVE i \in T
  <2>1. upper[i - 1] = U[i - 1]
    BY <1>11
  <2>2. upper[i] = U[i]
    BY <1>8, <1>9, <2>1
  <2> QED
    BY <2>2
<1> HIDE DEF T
<1>12. w \in T
  BY <1>10, <1>11, UpTo, w \in 0 .. w
<1>13. upper[w] = U[w]
  BY <1>12 DEF T
<1>14. U[w] = v
  BY <1>1, ShiftedSteps DEF U
<1> QED
  BY <1>3, <1>13, <1>14 DEF bytes

-----------------------------------------------------------------------------
(* Sequences of sequences.                                                 *)

LEMMA PartOfSeq ==
  ASSUME NEW S, NEW s \in Seq(S), NEW a \in Nat, NEW w \in Nat,
         a + w <= Len(s)
  PROVE  /\ SubSeq(s, a + 1, a + w) \in Seq(S)
         /\ Len(SubSeq(s, a + 1, a + w)) = w
         /\ \A j \in 1 .. w : SubSeq(s, a + 1, a + w)[j] = s[a + j]
<1>1. \A i \in a + 1 .. a + w : s[i] \in S
  <2> SUFFICES ASSUME NEW i \in a + 1 .. a + w PROVE s[i] \in S
    OBVIOUS
  <2>1. i \in 1 .. Len(s)
    OBVIOUS
  <2> QED
    BY <2>1, ElementOfSeq
<1>2. PICK f : f = a + 1
  OBVIOUS
<1>3. PICK l : l = a + w
  OBVIOUS
<1>4. f \in Int /\ l \in Int /\ \A i \in f .. l : s[i] \in S
  BY <1>1, <1>2, <1>3
<1>5. /\ SubSeq(s, f, l) \in Seq(S)
      /\ Len(SubSeq(s, f, l)) = IF f <= l THEN l - f + 1 ELSE 0
      /\ \A j \in 1 .. l - f + 1 : SubSeq(s, f, l)[j] = s[f + j - 1]
  BY <1>4, SubSeqProperties
<1>6. /\ l - f + 1 = w /\ (~(f <= l) => w = 0)
      /\ \A j \in 1 .. w : f + j - 1 = a + j
  BY <1>2, <1>3
<1>7. /\ SubSeq(s, f, l) \in Seq(S) /\ Len(SubSeq(s, f, l)) = w
      /\ \A j \in 1 .. w : SubSeq(s, f, l)[j] = s[a + j]
  BY <1>5, <1>6
<1> QED
  BY <1>2, <1>3, <1>7

LEMMA FlattenSteps ==
  ASSUME NEW S, NEW seqs \in Seq(Seq(S)), NEW n \in Nat, Len(seqs) = n
  PROVE  \E R \in [0 .. n -> Seq(S)] :
           /\ R[0] = <<>>
           /\ \A i \in 1 .. n : R[i] = R[i - 1] \o seqs[i]
           /\ FlattenSeq(seqs) = R[n]
<1>1. \A i \in 1 .. n : seqs[i] \in Seq(S)
  BY ElementOfSeq
<1> DEFINE h == [i \in 1 .. n |-> [r \in Seq(S) |-> r \o seqs[i]]]
<1>2. h \in Steps(n, Seq(S)) /\ <<>> \in Seq(S)
  <2>1. \A i \in 1 .. n : \A r \in Seq(S) : r \o seqs[i] \in Seq(S)
    BY <1>1, ConcatProperties
  <2> QED
    BY <2>1, EmptySeq DEF Steps
<1>h. \A i \in 1 .. n : \A r \in Seq(S) : h[i][r] = r \o seqs[i]
  OBVIOUS
<1> HIDE DEF h
<1>f. PICK R : R \in Solutions(n, Seq(S), <<>>, h)
  BY <1>2, Recursion
<1>3. /\ R \in [0 .. n -> Seq(S)] /\ R[0] = <<>>
      /\ \A i \in 1 .. n : R[i] = h[i][R[i - 1]]
  BY <1>f DEF Solutions
<1>4. ASSUME NEW i \in 1 .. n PROVE R[i] = R[i - 1] \o seqs[i]
  <2>1. R[i - 1] \in Seq(S)
    BY SMTT(40), <1>3
  <2> QED
    BY <1>3, <1>h, <2>1
<1>5. FlattenSeq(seqs) = R[n]
  <2>1. CASE n = 0
    <3>1. seqs = <<>>
      BY <2>1, EmptySeq
    <3> QED
      BY <1>3, <2>1, <3>1 DEF FlattenSeq
  <2>2. CASE n # 0
    <3> DEFINE Part(f) == [i \in 1 .. n |->
                             IF i = 1 THEN seqs[i] ELSE f[i - 1] \o seqs[i]]
               part == CHOOSE f : f = Part(f)
               G == [i \in 1 .. n |-> R[i]]
    <3>1. FlattenSeq(seqs) = part[n]
      BY <2>2 DEF FlattenSeq
    <3>2. \A i \in 1 .. n : R[i] = IF i = 1 THEN seqs[i]
                                    ELSE R[i - 1] \o seqs[i]
      <4>1. 1 \in 1 .. n /\ 1 - 1 = 0
        BY <2>2
      <4>2. R[1] = <<>> \o seqs[1]
        BY <1>3, <1>4, <4>1
      <4>3. R[1] = seqs[1]
        BY <1>1, <4>1, <4>2, ConcatEmptySeq
      <4> QED
        BY <1>4, <4>3
    <3>3. G = Part(G)
      <4> SUFFICES ASSUME NEW i \in 1 .. n
                   PROVE  R[i] = IF i = 1 THEN seqs[i] ELSE G[i - 1] \o seqs[i]
        OBVIOUS
      <4>1. CASE i # 1
        <5>1. i - 1 \in 1 .. n
          BY <4>1
        <5> QED
          BY <3>2, <4>1, <5>1
      <4> QED
        BY <3>2, <4>1
    <3>4. part = Part(part)
      <4> HIDE DEF Part, G
      <4> QED
        BY <3>3
    <3> HIDE DEF part, G
    <3>5. \A i \in 1 .. n : part[i] = IF i = 1 THEN seqs[i]
                                       ELSE part[i - 1] \o seqs[i]
      <4> SUFFICES ASSUME NEW i \in 1 .. n
                   PROVE  part[i] = IF i = 1 THEN seqs[i]
                                    ELSE part[i - 1] \o seqs[i]
        OBVIOUS
      <4>1. Part(part)[i] = IF i = 1 THEN seqs[i] ELSE part[i - 1] \o seqs[i]
        OBVIOUS
      <4> HIDE DEF Part
      <4> QED
        BY <3>4, <4>1
    <3> HIDE DEF Part
    <3> DEFINE T == {0} \cup {i \in 1 .. n : part[i] = R[i]}
    <3>6. 0 \in T
      OBVIOUS
    <3>7. ASSUME NEW i \in 1 .. n, i - 1 \in T PROVE i \in T
      <4>1. CASE i = 1
        <5>1. part[1] = R[1]
          BY <3>2, <3>5, <4>1
        <5> QED
          BY <4>1, <5>1
      <4>2. CASE i # 1
        <5>1. part[i - 1] = R[i - 1]
          BY <3>7, <4>2
        <5>2. part[i] = R[i]
          BY <3>2, <3>5, <4>2, <5>1
        <5> QED
          BY <5>2
      <4> QED
        BY <4>1, <4>2
    <3> HIDE DEF T
    <3>8. n \in T
      BY <3>6, <3>7, UpTo, n \in 0 .. n
    <3> QED
      BY <2>2, <3>1, <3>8 DEF T
  <2> QED
    BY <2>1, <2>2
<1> QED
  BY <1>3, <1>4, <1>5

\* Where the sequences end in a whole that begins with them.
Places(seqs, whole) ==
  {at \in [0 .. Len(seqs) -> Nat] :
     /\ at[0] = 0
     /\ \A i \in 1 .. Len(seqs) :
          /\ at[i] = at[i - 1] + Len(seqs[i])
          /\ at[i] <= Len(whole)
          /\ \A j \in 1 .. Len(seqs[i]) : whole[at[i - 1] + j] = seqs[i][j]}

\* The i-th sequence follows the ones before it.
LEMMA FlattenParts ==
  ASSUME NEW S, NEW seqs \in Seq(Seq(S)), NEW n \in Nat, Len(seqs) = n
  PROVE  /\ FlattenSeq(seqs) \in Seq(S)
         /\ \E at : /\ at \in Places(seqs, FlattenSeq(seqs))
                    /\ at[n] = Len(FlattenSeq(seqs))
<1>1. \A i \in 1 .. n : seqs[i] \in Seq(S) /\ Len(seqs[i]) \in Nat
  BY ElementOfSeq
<1>2. PICK R \in [0 .. n -> Seq(S)] :
        /\ R[0] = <<>>
        /\ \A i \in 1 .. n : R[i] = R[i - 1] \o seqs[i]
        /\ FlattenSeq(seqs) = R[n]
  BY ZenonT(40), FlattenSteps
<1> DEFINE at == [i \in 0 .. n |-> Len(R[i])]
<1>3. at \in [0 .. n -> Nat] /\ \A i \in 0 .. n : at[i] = Len(R[i])
  <2>1. \A i \in 0 .. n : Len(R[i]) \in Nat
    BY LenProperties
  <2> QED
    BY <2>1
<1> HIDE DEF at
<1>4. at[0] = 0
  BY <1>2, <1>3
<1>5. ASSUME NEW i \in 1 .. n
      PROVE  /\ at[i] = at[i - 1] + Len(seqs[i])
             /\ \A k \in 1 .. at[i] :
                  R[i][k] = IF k <= at[i - 1] THEN R[i - 1][k]
                            ELSE seqs[i][k - at[i - 1]]
  <2>1. i \in 0 .. n /\ i - 1 \in 0 .. n
    OBVIOUS
  <2>2. R[i - 1] \in Seq(S) /\ seqs[i] \in Seq(S) /\ R[i] = R[i - 1] \o seqs[i]
    BY <1>1, <1>2, <2>1
  <2>3. /\ Len(R[i]) = Len(R[i - 1]) + Len(seqs[i])
        /\ \A k \in 1 .. Len(R[i - 1]) + Len(seqs[i]) :
             R[i][k] = IF k <= Len(R[i - 1]) THEN R[i - 1][k]
                       ELSE seqs[i][k - Len(R[i - 1])]
    BY <2>2, ConcatProperties
  <2>4. at[i] = Len(R[i]) /\ at[i - 1] = Len(R[i - 1])
    BY <1>3, <2>1
  <2> QED
    BY <2>3, <2>4
<1> DEFINE Kept(k) == \A i \in 1 .. k :
                        /\ at[i] <= at[k]
                        /\ \A j \in 1 .. Len(seqs[i]) :
                             R[k][at[i - 1] + j] = seqs[i][j]
           T == {k \in 0 .. n : Kept(k)}
<1>6. 0 \in T
  OBVIOUS
<1>7. ASSUME NEW k \in 1 .. n, k - 1 \in T PROVE k \in T
  <2>1. Kept(k - 1)
    BY <1>7
  <2> HIDE DEF T, Kept
  <2>0. k - 1 \in 0 .. n /\ k \in 0 .. n
    OBVIOUS
  <2>2. /\ at[k] \in Nat /\ at[k - 1] \in Nat /\ Len(seqs[k]) \in Nat
        /\ at[k] = at[k - 1] + Len(seqs[k])
    BY <1>1, <1>3, <1>5, <2>0
  <2>3. ASSUME NEW i \in 1 .. k
        PROVE  /\ at[i] <= at[k]
               /\ \A j \in 1 .. Len(seqs[i]) :
                    R[k][at[i - 1] + j] = seqs[i][j]
    <3>1. CASE i = k
      <4>1. at[i] <= at[k]
        BY <2>2, <3>1
      <4>2. ASSUME NEW j \in 1 .. Len(seqs[k])
            PROVE  R[k][at[k - 1] + j] = seqs[k][j]
        <5>1. /\ at[k - 1] + j \in 1 .. at[k] /\ ~(at[k - 1] + j <= at[k - 1])
              /\ (at[k - 1] + j) - at[k - 1] = j
          <6>1. j \in Nat /\ j >= 1 /\ j <= Len(seqs[k])
            BY <2>2
          <6>2. at[k - 1] + j <= at[k - 1] + Len(seqs[k])
            BY <2>2, <6>1
          <6>3. at[k - 1] + j <= at[k]
            BY <2>2, <6>2
          <6>4. at[k - 1] \in Nat
            BY <2>2
          <6>5. at[k - 1] + j \in Nat
            BY <6>1, <6>4
          <6>6. at[k - 1] + j >= 1
            BY <6>1, <6>4
          <6>7. ~(at[k - 1] + j <= at[k - 1])
            BY <6>1, <6>4
          <6>8. (at[k - 1] + j) - at[k - 1] = j
            BY <6>1, <6>4
          <6>9. at[k - 1] + j \in 1 .. at[k]
            BY <6>5, <6>3, <6>6
          <6> QED
            BY <6>9, <6>7, <6>8
        <5> QED
          BY <1>5, <5>1
      <4> QED
        BY <3>1, <4>1, <4>2
    <3>2. CASE i # k
      <4>1. i \in 1 .. k - 1 /\ i \in 1 .. n /\ i \in 0 .. n /\ i - 1 \in 0 .. n
        BY <3>2
      <4>2. /\ at[i] \in Nat /\ at[i - 1] \in Nat /\ Len(seqs[i]) \in Nat
            /\ at[i] = at[i - 1] + Len(seqs[i]) /\ at[i] <= at[k - 1]
        BY <1>1, <1>3, <1>5, <2>1, <4>1 DEF Kept
      <4>3. at[i] <= at[k]
        <5>1. at[k - 1] <= at[k]
          BY <2>2
        <5> QED
          BY SMTT(40), <2>2, <4>2, <5>1
      <4>4. ASSUME NEW j \in 1 .. Len(seqs[i])
            PROVE  R[k][at[i - 1] + j] = seqs[i][j]
        <5>1. at[i - 1] + j \in 1 .. at[k] /\ at[i - 1] + j <= at[k - 1]
          <6>1. PICK b \in Nat : b = at[i - 1]
            BY <4>2
          <6>2. PICK e \in Nat : e = at[i]
            BY <4>2
          <6>3. PICK l \in Nat : l = Len(seqs[i])
            BY <4>2
          <6>4. PICK u \in Nat : u = at[k - 1]
            BY <2>2
          <6>5. PICK w \in Nat : w = at[k]
            BY <2>2
          <6>6. e = b + l /\ e <= u /\ e <= w
            BY <4>2, <4>3, <6>1, <6>2, <6>3, <6>4, <6>5
          <6>7. j \in 1 .. l
            BY <6>3
          <6>8. b + j \in 1 .. w /\ b + j <= u
            BY ONLY b \in Nat, e \in Nat, l \in Nat, u \in Nat, w \in Nat, <6>6, <6>7
          <6> QED
            BY <6>1, <6>4, <6>5, <6>8
        <5>2. R[k][at[i - 1] + j] = R[k - 1][at[i - 1] + j]
          BY <1>5, <5>1
        <5> QED
          BY <2>1, <4>1, <5>2 DEF Kept
      <4> QED
        BY <4>3, <4>4
    <3> QED
      BY <3>1, <3>2
  <2>4. Kept(k)
    BY <2>3 DEF Kept
  <2> QED
    BY <2>0, <2>4 DEF T
<1> HIDE DEF T
<1>8. n \in T
  BY <1>6, <1>7, UpTo, n \in 0 .. n
<1>9. \A i \in 1 .. n :
        /\ at[i] <= at[n]
        /\ \A j \in 1 .. Len(seqs[i]) : R[n][at[i - 1] + j] = seqs[i][j]
  BY <1>8 DEF T
<1>10. FlattenSeq(seqs) \in Seq(S) /\ Len(FlattenSeq(seqs)) = at[n]
  BY <1>2, <1>3, n \in 0 .. n
<1>11. at \in Places(seqs, FlattenSeq(seqs))
  <2>1. ASSUME NEW i \in 1 .. n
        PROVE  /\ at[i] = at[i - 1] + Len(seqs[i])
               /\ at[i] <= Len(FlattenSeq(seqs))
               /\ \A j \in 1 .. Len(seqs[i]) :
                    FlattenSeq(seqs)[at[i - 1] + j] = seqs[i][j]
    <3>1. /\ at[i] <= at[n]
          /\ \A j \in 1 .. Len(seqs[i]) : R[n][at[i - 1] + j] = seqs[i][j]
      BY <1>9
    <3>2. at[i] = at[i - 1] + Len(seqs[i])
      BY <1>5
    <3> QED
      BY <1>2, <1>10, <3>1, <3>2
  <2> QED
    BY <1>3, <1>4, <2>1 DEF Places
<1> QED
  BY <1>10, <1>11

\* Sequences of one length.
Rows(n, l, S) ==
  {seqs \in [1 .. n -> Seq(S)] : \A i \in 1 .. n : Len(seqs[i]) = l}

RowByRow(whole, seqs, n, l) ==
  \A i \in 1 .. n : \A j \in 1 .. l : whole[l * (i - 1) + j] = seqs[i][j]

LEMMA FlattenEqual ==
  ASSUME NEW S, NEW n \in Nat, NEW l \in Nat, NEW seqs \in Rows(n, l, S)
  PROVE  /\ FlattenSeq(seqs) \in Seq(S)
         /\ Len(FlattenSeq(seqs)) = l * n
         /\ RowByRow(FlattenSeq(seqs), seqs, n, l)
<1> USE DEF Rows, RowByRow
<1>1. seqs \in Seq(Seq(S)) /\ Len(seqs) = n
  OBVIOUS
<1>2. /\ FlattenSeq(seqs) \in Seq(S)
      /\ \E at : /\ at \in Places(seqs, FlattenSeq(seqs))
                 /\ at[n] = Len(FlattenSeq(seqs))
  BY <1>1, FlattenParts
<1>3. PICK at : /\ at \in Places(seqs, FlattenSeq(seqs))
                /\ at[n] = Len(FlattenSeq(seqs))
  BY <1>2
<1>4. /\ at[0] = 0
      /\ \A i \in 1 .. n :
           /\ at[i] = at[i - 1] + Len(seqs[i])
           /\ \A j \in 1 .. Len(seqs[i]) :
                FlattenSeq(seqs)[at[i - 1] + j] = seqs[i][j]
  BY <1>1, <1>3 DEF Places
<1> DEFINE T == {i \in 0 .. n : at[i] = l * i}
<1>5. 0 \in T
  BY <1>4
<1>6. ASSUME NEW i \in 1 .. n, i - 1 \in T PROVE i \in T
  <2>1. at[i - 1] = l * (i - 1)
    BY <1>6
  <2>2. at[i] = l * (i - 1) + l
    BY <1>4, <2>1
  <2>3. l * (i - 1) + l = l * i
    OBVIOUS
  <2>4. i \in 0 .. n
    OBVIOUS
  <2> QED
    BY <2>2, <2>3, <2>4
<1> HIDE DEF T
<1>7. \A i \in 0 .. n : i \in T
  BY <1>5, <1>6, UpTo
<1>8. \A i \in 0 .. n : at[i] = l * i
  BY <1>7 DEF T
<1>9. Len(FlattenSeq(seqs)) = l * n
  BY <1>3, <1>8, n \in 0 .. n
<1>10. ASSUME NEW i \in 1 .. n, NEW j \in 1 .. l
       PROVE  FlattenSeq(seqs)[l * (i - 1) + j] = seqs[i][j]
  <2>1. at[i - 1] = l * (i - 1)
    BY <1>8, i - 1 \in 0 .. n
  <2>2. FlattenSeq(seqs)[at[i - 1] + j] = seqs[i][j]
    BY <1>4
  <2> QED
    BY <2>1, <2>2
<1> QED
  BY <1>2, <1>9, <1>10

-----------------------------------------------------------------------------
(* Fields one after the other, written and read.                           *)

\* The bytes begin with these values in fields of these widths.
Fields(widths, values) ==
  [i \in 1 .. Len(values) |-> Write(widths[i], values[i])]

Laid(bytes, widths, values) ==
  \E at : at \in Places(Fields(widths, values), bytes)

LEMMA FieldsType ==
  ASSUME Sizes, NEW n \in Nat, NEW widths \in [1 .. n -> Nat],
         NEW values \in Seq(Nat), Len(values) = n
  PROVE  /\ Fields(widths, values) \in Seq(Seq(Nat))
         /\ Len(Fields(widths, values)) = n
         /\ \A i \in 1 .. n :
              /\ Fields(widths, values)[i] = Write(widths[i], values[i])
              /\ Len(Fields(widths, values)[i]) = widths[i]
<1> DEFINE seqs == Fields(widths, values)
<1>1. \A i \in 1 .. n : seqs[i] = Write(widths[i], values[i])
  BY DEF Fields
<1>2. ASSUME NEW i \in 1 .. n
      PROVE  /\ Write(widths[i], values[i]) \in Seq(Nat)
             /\ Len(Write(widths[i], values[i])) = widths[i]
  <2>1. widths[i] \in Nat /\ values[i] \in Nat
    BY ElementOfSeq
  <2> QED
    BY <2>1, WriteType
<1>3. seqs \in [1 .. n -> Seq(Nat)]
  BY <1>2 DEF Fields
<1> HIDE DEF seqs
<1>4. seqs \in Seq(Seq(Nat)) /\ Len(seqs) = n
  BY <1>3
<1> QED
  BY <1>1, <1>2, <1>4 DEF seqs

LEMMA WriteAllLays ==
  ASSUME Sizes, NEW n \in Nat, NEW widths \in [1 .. n -> Nat],
         NEW values \in Seq(Nat), Len(values) = n
  PROVE  /\ WriteAll(widths, values) \in Seq(Nat)
         /\ Laid(WriteAll(widths, values), widths, values)
         /\ \E at \in [0 .. n -> Nat] :
              /\ at[0] = 0
              /\ \A i \in 1 .. n : at[i] = at[i - 1] + widths[i]
              /\ Len(WriteAll(widths, values)) = at[n]
<1> DEFINE seqs == Fields(widths, values)
<1>1. /\ seqs \in Seq(Seq(Nat)) /\ Len(seqs) = n
      /\ \A i \in 1 .. n : Len(seqs[i]) = widths[i]
  BY FieldsType
<1>2. WriteAll(widths, values) = FlattenSeq(seqs)
  <2>1. DOMAIN values = 1 .. Len(values)
    BY LenProperties
  <2> QED
    BY <2>1 DEF WriteAll, Fields
<1> HIDE DEF seqs
<1>3. /\ FlattenSeq(seqs) \in Seq(Nat)
      /\ \E at : /\ at \in Places(seqs, FlattenSeq(seqs))
                 /\ at[n] = Len(FlattenSeq(seqs))
  BY <1>1, FlattenParts
<1>4. PICK at : /\ at \in Places(seqs, FlattenSeq(seqs))
                /\ at[n] = Len(FlattenSeq(seqs))
  BY <1>3
<1>5. Laid(WriteAll(widths, values), widths, values)
  BY <1>2, <1>4 DEF Laid, seqs
<1>6. /\ at \in [0 .. n -> Nat] /\ at[0] = 0
      /\ \A i \in 1 .. n : at[i] = at[i - 1] + widths[i]
  BY <1>1, <1>4 DEF Places
<1> QED
  BY <1>2, <1>3, <1>4, <1>5, <1>6

\* A reader that knows the widths of the first fields gets their values.
LEMMA ReadBack ==
  ASSUME Sizes, NEW bytes \in Seq(Nat), NEW values \in Seq(Nat),
         NEW widths \in [1 .. Len(values) -> Nat],
         NEW m \in 0 .. Len(values), NEW known \in [1 .. m -> Nat],
         \A i \in 1 .. m : known[i] = widths[i],
         Laid(bytes, widths, values)
  PROVE  \A i \in 1 .. m :
           Fits(widths[i], values[i]) => ReadAll(bytes, known)[i] = values[i]
<1>0. /\ m \in Nat /\ Len(values) \in Nat /\ Len(bytes) \in Nat
      /\ Len(known) = m
      /\ \A i \in 1 .. m : i \in 1 .. Len(values) /\ known[i] \in Nat
  <2>1. Len(values) \in Nat /\ Len(bytes) \in Nat
    BY LenProperties
  <2> QED
    BY <2>1
<1>1. PICK at \in [0 .. Len(values) -> Nat] :
        /\ at[0] = 0
        /\ \A i \in 1 .. Len(values) :
             /\ at[i] = at[i - 1] + widths[i]
             /\ at[i] <= Len(bytes)
             /\ \A j \in 1 .. widths[i] :
                  bytes[at[i - 1] + j] = Write(widths[i], values[i])[j]
  <2>1. PICK at : at \in Places(Fields(widths, values), bytes)
    BY DEF Laid
  <2>2. /\ Len(Fields(widths, values)) = Len(values)
        /\ \A i \in 1 .. Len(values) :
             /\ Fields(widths, values)[i] = Write(widths[i], values[i])
             /\ Len(Fields(widths, values)[i]) = widths[i]
    BY <1>0, FieldsType
  <2>3. /\ at \in [0 .. Len(values) -> Nat] /\ at[0] = 0
        /\ \A i \in 1 .. Len(values) :
             /\ at[i] = at[i - 1] + widths[i]
             /\ at[i] <= Len(bytes)
             /\ \A j \in 1 .. widths[i] :
                  bytes[at[i - 1] + j] = Write(widths[i], values[i])[j]
    <3>1. at \in [0 .. Len(values) -> Nat] /\ at[0] = 0
      BY <2>1, <2>2 DEF Places
    <3>2. ASSUME NEW i \in 1 .. Len(values)
          PROVE  /\ at[i] = at[i - 1] + widths[i]
                 /\ at[i] <= Len(bytes)
                 /\ \A j \in 1 .. widths[i] :
                      bytes[at[i - 1] + j] = Write(widths[i], values[i])[j]
      <4> DEFINE field == Fields(widths, values)[i]
      <4>1. /\ at[i] = at[i - 1] + Len(field)
            /\ at[i] <= Len(bytes)
            /\ \A j \in 1 .. Len(field) : bytes[at[i - 1] + j] = field[j]
        BY <2>1, <2>2 DEF Places
      <4>2. field = Write(widths[i], values[i]) /\ Len(field) = widths[i]
        BY <2>2
      <4> HIDE DEF field
      <4> QED
        BY <4>1, <4>2
    <3> QED
      BY <3>1, <3>2
  <2> QED
    BY <2>3
<1>2. ASSUME NEW i \in 1 .. m
      PROVE  /\ at[i] \in Nat /\ at[i - 1] \in Nat
             /\ at[i - 1] + known[i] <= Len(bytes)
             /\ at[i] = at[i - 1] + known[i]
  <2>1. i \in 1 .. Len(values) /\ i \in 0 .. Len(values)
          /\ i - 1 \in 0 .. Len(values) /\ known[i] = widths[i]
    BY <1>0
  <2> QED
    BY <1>1, <2>1
<1> DEFINE Pos(f) == [i \in 1 .. m + 1 |->
                        IF i = 1 THEN 0
                        ELSE IF f[i - 1] + known[i - 1] <= Len(bytes)
                               THEN f[i - 1] + known[i - 1] ELSE f[i - 1]]
           pos == CHOOSE f : f = Pos(f)
           U == [i \in 1 .. m + 1 |-> at[i - 1]]
<1>3. U = Pos(U)
  <2> SUFFICES ASSUME NEW i \in 1 .. m + 1
               PROVE  at[i - 1] = IF i = 1 THEN 0
                                  ELSE IF U[i - 1] + known[i - 1] <= Len(bytes)
                                         THEN U[i - 1] + known[i - 1]
                                         ELSE U[i - 1]
    OBVIOUS
  <2>1. CASE i = 1
    BY <1>1, <2>1
  <2>2. CASE i # 1
    <3>1. i - 1 \in 1 .. m /\ i - 1 \in 1 .. m + 1
      BY <1>0, <2>2
    <3>2. U[i - 1] = at[(i - 1) - 1]
      BY <3>1
    <3>3. /\ at[(i - 1) - 1] + known[i - 1] <= Len(bytes)
          /\ at[i - 1] = at[(i - 1) - 1] + known[i - 1]
      BY <1>2, <3>1
    <3> QED
      BY <2>2, <3>2, <3>3
  <2> QED
    BY <2>1, <2>2
<1>4. pos = Pos(pos)
  <2> HIDE DEF Pos, U
  <2> QED
    BY <1>3
<1>5. ASSUME NEW i \in 1 .. m
      PROVE  ReadAll(bytes, known)[i] =
               IF pos[i] + known[i] <= Len(bytes)
                 THEN Number(SubSeq(bytes, pos[i] + 1, pos[i] + known[i])) ELSE 0
  BY <1>0 DEF ReadAll
<1> HIDE DEF pos
<1>6. pos[1] = 0
  <2>1. 1 \in 1 .. m + 1
    BY <1>0
  <2> QED
    BY <1>4, <2>1
<1>7. ASSUME NEW i \in 1 .. m
      PROVE  pos[i + 1] = IF pos[i] + known[i] <= Len(bytes)
                            THEN pos[i] + known[i] ELSE pos[i]
  <2>1. i + 1 \in 1 .. m + 1 /\ i + 1 # 1 /\ (i + 1) - 1 = i
    BY <1>0
  <2>2. Pos(pos)[i + 1] = IF pos[i] + known[i] <= Len(bytes)
                            THEN pos[i] + known[i] ELSE pos[i]
    BY <2>1
  <2> HIDE DEF Pos
  <2> QED
    BY <1>4, <2>2
<1> HIDE DEF Pos, U
<1> DEFINE T == {i \in 0 .. m : pos[i + 1] = at[i]}
<1>8. 0 \in T
  BY <1>0, <1>1, <1>6
<1>9. ASSUME NEW i \in 1 .. m, i - 1 \in T PROVE i \in T
  <2>1. pos[i] = at[i - 1]
    <3>1. (i - 1) + 1 = i
      OBVIOUS
    <3> QED
      BY <1>9, <3>1
  <2>2. pos[i + 1] = at[i]
    BY <1>2, <1>7, <2>1
  <2>3. i \in 0 .. m
    BY <1>0
  <2> QED
    BY <2>2, <2>3
<1> HIDE DEF T
<1>10. \A i \in 0 .. m : i \in T
  BY <1>0, <1>8, <1>9, UpTo
<1>11. ASSUME NEW i \in 1 .. m PROVE pos[i] = at[i - 1]
  <2>1. i - 1 \in 0 .. m /\ (i - 1) + 1 = i
    BY <1>0
  <2> QED
    BY <1>10, <2>1 DEF T
<1> SUFFICES ASSUME NEW i \in 1 .. m, Fits(widths[i], values[i])
             PROVE  ReadAll(bytes, known)[i] = values[i]
  OBVIOUS
<1> DEFINE a == at[i - 1]
           w == known[i]
           part == SubSeq(bytes, a + 1, a + w)
<1>12. /\ a \in Nat /\ w \in Nat /\ a + w <= Len(bytes) /\ w = widths[i]
       /\ pos[i] = a
  BY <1>0, <1>2, <1>11
<1>13. ReadAll(bytes, known)[i] = Number(part)
  BY <1>5, <1>12
<1> HIDE DEF a, w
<1>14. values[i] \in Nat /\ Write(w, values[i]) \in Seq(Nat)
         /\ Len(Write(w, values[i])) = w
  <2>1. values[i] \in Nat
    BY <1>0, ElementOfSeq
  <2> QED
    BY <1>12, <2>1, WriteType
<1>15. part \in Seq(Nat) /\ Len(part) = w
         /\ \A j \in 1 .. w : part[j] = bytes[a + j]
  <2>1. a \in Nat /\ w \in Nat /\ a + w <= Len(bytes)
    BY <1>12
  <2>2. /\ SubSeq(bytes, a + 1, a + w) \in Seq(Nat)
        /\ Len(SubSeq(bytes, a + 1, a + w)) = w
        /\ \A j \in 1 .. w : SubSeq(bytes, a + 1, a + w)[j] = bytes[a + j]
    BY ONLY <2>1, bytes \in Seq(Nat), PartOfSeq
  <2> QED
    BY <2>2 DEF part
<1>16. \A j \in 1 .. w : bytes[a + j] = Write(w, values[i])[j]
  BY <1>0, <1>1, <1>12 DEF a
<1> HIDE DEF part
<1>17. part = Write(w, values[i])
  BY <1>14, <1>15, <1>16, SeqEqual
<1>18. Number(Write(w, values[i])) = values[i]
  BY <1>12, NumberOfWrite
<1> QED
  BY <1>13, <1>17, <1>18

-----------------------------------------------------------------------------
(* The fields of a world state.                                            *)

LEMMA TimesType ==
  ASSUME NEW n \in Nat, NEW l \in Nat, NEW fields \in Seq(Nat),
         Len(fields) = l
  PROVE  Times(n, fields) \in Seq(Nat) /\ Len(Times(n, fields)) = l * n
<1> DEFINE seqs == [i \in 1 .. n |-> fields]
<1>1. seqs \in Rows(n, l, Nat)
  BY DEF Rows
<1>2. Times(n, fields) = FlattenSeq(seqs)
  BY DEF Times
<1> HIDE DEF seqs
<1>3. FlattenSeq(seqs) \in Seq(Nat) /\ Len(FlattenSeq(seqs)) = l * n
  BY <1>1, FlattenEqual
<1> QED
  BY <1>2, <1>3

LEMMA Join ==
  ASSUME NEW s \in Seq(Nat), NEW t \in Seq(Nat)
  PROVE  /\ s \o t \in Seq(Nat) /\ Len(s \o t) = Len(s) + Len(t)
         /\ \A i \in 1 .. Len(s) : (s \o t)[i] = s[i]
         /\ \A j \in 1 .. Len(t) : (s \o t)[Len(s) + j] = t[j]
<1>1. /\ s \o t \in Seq(Nat)
      /\ Len(s \o t) = Len(s) + Len(t)
      /\ \A i \in 1 .. Len(s) + Len(t) : (s \o t)[i] =
            IF i <= Len(s) THEN s[i] ELSE t[i - Len(s)]
  BY ConcatProperties
<1>2. ASSUME NEW j \in 1 .. Len(t) PROVE (s \o t)[Len(s) + j] = t[j]
  <2>1. /\ Len(s) + j \in 1 .. Len(s) + Len(t) /\ ~(Len(s) + j <= Len(s))
        /\ (Len(s) + j) - Len(s) = j
    OBVIOUS
  <2> QED
    BY <1>1, <2>1
<1> QED
  BY <1>1, <1>2

LEMMA FieldTypes ==
  ASSUME Sizes
  PROVE  /\ WORD \in Nat /\ WORD # 0
         /\ <<WORD, 1>> \in Seq(Nat) /\ Len(<<WORD, 1>>) = 2
         /\ <<1>> \in Seq(Nat) /\ Len(<<1>>) = 1
         /\ PlayerFields \in Seq(Nat) /\ Len(PlayerFields) = 6
         /\ CoinFields \in Seq(Nat) /\ Len(CoinFields) = 4
<1>1. WORD \in Nat /\ WORD # 0
  BY DEF Sizes
<1>2. PlayerFields \in Seq(Nat) /\ Len(PlayerFields) = 6
  <2>1. PICK k \in Nat : k = 6
    OBVIOUS
  <2>2. PlayerFields \in [1 .. k -> Nat]
    BY <1>1, <2>1 DEF PlayerFields
  <2>3. PlayerFields \in Seq(Nat) /\ Len(PlayerFields) = k
    BY <2>2
  <2> QED
    BY <2>1, <2>3
<1> QED
  BY <1>1, <1>2 DEF CoinFields

\* What comes before the coins.
Before(n) == <<WORD, 1>> \o Times(n, PlayerFields) \o <<1>>

LEMMA WorldFieldsType ==
  ASSUME Sizes, NEW n \in Nat, NEW m \in Nat
  PROVE  /\ WorldFields(n, m) \in Seq(Nat)
         /\ Len(WorldFields(n, m)) = 3 + 6 * n + 4 * m
         /\ WorldFields(n, m)[1] = WORD /\ WorldFields(n, m)[2] = 1
         /\ \A i \in 1 .. 3 + 6 * n : WorldFields(n, m)[i] = Before(n)[i]
<1> DEFINE head == <<WORD, 1>>
           P == Times(n, PlayerFields)
           one == <<1>>
           C == Times(m, CoinFields)
<1>1. /\ P \in Seq(Nat) /\ Len(P) = 6 * n
      /\ C \in Seq(Nat) /\ Len(C) = 4 * m
  BY FieldTypes, TimesType
<1>2. /\ head \in Seq(Nat) /\ Len(head) = 2 /\ one \in Seq(Nat) /\ Len(one) = 1
      /\ head[1] = WORD /\ head[2] = 1
  BY FieldTypes
<1>3. WorldFields(n, m) = ((head \o P) \o one) \o C
        /\ Before(n) = (head \o P) \o one
  BY DEF WorldFields, Before
<1> HIDE DEF head, P, one, C
<1>p. PICK p \in Nat, a \in Nat, b \in Nat :
        p = 6 * n /\ a = 2 /\ b = 1
  OBVIOUS
<1>4. /\ head \o P \in Seq(Nat) /\ Len(head \o P) = a + p
      /\ \A i \in 1 .. a : (head \o P)[i] = head[i]
  <2>1. Len(head) = a /\ Len(P) = p
    BY <1>1, <1>2, <1>p
  <2>2. /\ head \o P \in Seq(Nat) /\ Len(head \o P) = Len(head) + Len(P)
        /\ \A i \in 1 .. Len(head) : (head \o P)[i] = head[i]
    BY <1>1, <1>2, Join
  <2> QED
    BY <2>1, <2>2
<1> DEFINE hp == head \o P
<1> HIDE DEF hp
<1>5. /\ hp \o one \in Seq(Nat) /\ Len(hp \o one) = a + p + b
      /\ \A i \in 1 .. a + p : (hp \o one)[i] = hp[i]
  <2>1. hp \in Seq(Nat) /\ Len(hp) = a + p /\ Len(one) = b /\ a + p \in Nat
    BY <1>2, <1>4, <1>p DEF hp
  <2>2. /\ hp \o one \in Seq(Nat) /\ Len(hp \o one) = Len(hp) + Len(one)
        /\ \A i \in 1 .. Len(hp) : (hp \o one)[i] = hp[i]
    BY <1>2, <2>1, Join
  <2> QED
    BY <2>1, <2>2
<1> DEFINE B == hp \o one
<1> HIDE DEF B
<1>b. /\ B \in Seq(Nat) /\ Len(B) = 3 + 6 * n
      /\ \A i \in 1 .. 2 + 6 * n : B[i] = hp[i]
      /\ \A i \in 1 .. 2 : hp[i] = head[i]
  BY <1>4, <1>5, <1>p DEF B, hp
<1>6. /\ B \o C \in Seq(Nat) /\ Len(B \o C) = 3 + 6 * n + 4 * m
      /\ \A i \in 1 .. 3 + 6 * n : (B \o C)[i] = B[i]
  <2>1. PICK c \in Nat, d \in Nat : c = 3 + 6 * n /\ d = 4 * m
    OBVIOUS
  <2>2. Len(B) = c /\ Len(C) = d
    BY <1>1, <1>b, <2>1
  <2>3. /\ B \o C \in Seq(Nat) /\ Len(B \o C) = c + d
        /\ \A i \in 1 .. c : (B \o C)[i] = B[i]
    <3>1. /\ B \o C \in Seq(Nat) /\ Len(B \o C) = Len(B) + Len(C)
          /\ \A i \in 1 .. Len(B) : (B \o C)[i] = B[i]
      BY <1>1, <1>b, Join
    <3> QED
      BY <2>2, <3>1
  <2> QED
    BY <2>1, <2>3
<1>7. WorldFields(n, m) = B \o C /\ Before(n) = B
  BY <1>3 DEF B, hp
<1>8. /\ 1 \in 1 .. 2 /\ 1 \in 1 .. 2 + 6 * n /\ 1 \in 1 .. 3 + 6 * n
      /\ 2 \in 1 .. 2 /\ 2 \in 1 .. 2 + 6 * n /\ 2 \in 1 .. 3 + 6 * n
  OBVIOUS
<1>9. (B \o C)[1] = WORD /\ (B \o C)[2] = 1
  BY <1>2, <1>b, <1>6, <1>8
<1> QED
  BY <1>6, <1>7, <1>9

LEMMA FlattenRows ==
  ASSUME NEW n \in Nat, NEW l \in Nat, NEW rows \in Rows(n, l, Nat)
  PROVE  /\ FlattenSeq(rows) \in Seq(Nat)
         /\ Len(FlattenSeq(rows)) = l * n
         /\ RowByRow(FlattenSeq(rows), rows, n, l)
  BY FlattenEqual

LEMMA FlattenRecords ==
  ASSUME NEW n \in Nat, NEW l \in Nat, NEW rows \in Seq([1 .. l -> Nat]),
         Len(rows) = n
  PROVE  /\ FlattenSeq(rows) \in Seq(Nat)
         /\ Len(FlattenSeq(rows)) = l * n
         /\ RowByRow(FlattenSeq(rows), rows, n, l)
<1>1. rows \in Rows(n, l, Nat)
  <2>1. ASSUME NEW i \in 1 .. n PROVE rows[i] \in [1 .. l -> Nat]
    BY ElementOfSeq
  <2>2. \A s \in [1 .. l -> Nat] : s \in Seq(Nat) /\ Len(s) = l
    OBVIOUS
  <2>3. DOMAIN rows = 1 .. n /\ rows = [i \in 1 .. n |-> rows[i]]
    BY LenProperties
  <2> QED
    BY <2>1, <2>2, <2>3 DEF Rows
<1> QED
  BY ONLY <1>1, n \in Nat, l \in Nat, FlattenRows

\* Two numbers, rows of six, one number, rows of four: the values of a world
\* state, and their widths.
Sections(x, y, players, z, coins) ==
  <<x, y>> \o FlattenSeq(players) \o <<z>> \o FlattenSeq(coins)

InSections(v, x, y, players, z, coins, n, m) ==
  /\ v[1] = x /\ v[2] = y /\ v[3 + 6 * n] = z
  /\ \A i \in 1 .. n : \A j \in 1 .. 6 :
       v[2 + (6 * (i - 1) + j)] = players[i][j]
  /\ \A i \in 1 .. m : \A j \in 1 .. 4 :
       v[3 + 6 * n + (4 * (i - 1) + j)] = coins[i][j]

LEMMA SectionsAre ==
  ASSUME NEW x \in Nat, NEW y \in Nat, NEW z \in Nat,
         NEW players \in Seq([1 .. 6 -> Nat]),
         NEW coins \in Seq([1 .. 4 -> Nat]), NEW n \in Nat, NEW m \in Nat,
         Len(players) = n, Len(coins) = m
  PROVE  LET v == Sections(x, y, players, z, coins)
         IN  /\ v \in Seq(Nat) /\ Len(v) = 3 + 6 * n + 4 * m
             /\ InSections(v, x, y, players, z, coins, n, m)
<1> DEFINE head == <<x, y>>
           P == FlattenSeq(players)
           one == <<z>>
           C == FlattenSeq(coins)
<1>1. /\ P \in Seq(Nat) /\ Len(P) = 6 * n
      /\ \A i \in 1 .. n : \A j \in 1 .. 6 : P[6 * (i - 1) + j] = players[i][j]
  <2>1. PICK l \in Nat : l = 6
    OBVIOUS
  <2>2. players \in Seq([1 .. l -> Nat])
    BY <2>1
  <2>3. /\ FlattenSeq(players) \in Seq(Nat) /\ Len(FlattenSeq(players)) = l * n
        /\ RowByRow(FlattenSeq(players), players, n, l)
    BY <2>2, FlattenRecords
  <2> QED
    BY <2>1, <2>3 DEF RowByRow
<1>2. /\ C \in Seq(Nat) /\ Len(C) = 4 * m
      /\ \A i \in 1 .. m : \A j \in 1 .. 4 : C[4 * (i - 1) + j] = coins[i][j]
  <2>1. PICK l \in Nat : l = 4
    OBVIOUS
  <2>2. coins \in Seq([1 .. l -> Nat])
    BY <2>1
  <2>3. /\ FlattenSeq(coins) \in Seq(Nat) /\ Len(FlattenSeq(coins)) = l * m
        /\ RowByRow(FlattenSeq(coins), coins, m, l)
    BY <2>2, FlattenRecords
  <2> QED
    BY <2>1, <2>3 DEF RowByRow
<1>3. /\ head \in Seq(Nat) /\ Len(head) = 2 /\ head[1] = x /\ head[2] = y
      /\ one \in Seq(Nat) /\ Len(one) = 1 /\ one[1] = z
  OBVIOUS
<1>4. Sections(x, y, players, z, coins) = ((head \o P) \o one) \o C
  BY DEF Sections
<1> HIDE DEF head, P, one, C
<1>p. PICK p \in Nat, a \in Nat, b \in Nat, c \in Nat, d \in Nat :
        p = 6 * n /\ a = 2 /\ b = 1 /\ c = 3 + 6 * n /\ d = 4 * m
  OBVIOUS
<1>5. /\ head \o P \in Seq(Nat) /\ Len(head \o P) = a + p
      /\ \A i \in 1 .. a : (head \o P)[i] = head[i]
      /\ \A j \in 1 .. p : (head \o P)[a + j] = P[j]
  <2>1. Len(head) = a /\ Len(P) = p
    BY <1>1, <1>3, <1>p
  <2>2. /\ head \o P \in Seq(Nat) /\ Len(head \o P) = Len(head) + Len(P)
        /\ \A i \in 1 .. Len(head) : (head \o P)[i] = head[i]
        /\ \A j \in 1 .. Len(P) : (head \o P)[Len(head) + j] = P[j]
    BY <1>1, <1>3, Join
  <2> QED
    BY <2>1, <2>2
<1> DEFINE hp == head \o P
<1> HIDE DEF hp
<1>6. /\ hp \o one \in Seq(Nat) /\ Len(hp \o one) = a + p + b
      /\ \A i \in 1 .. a + p : (hp \o one)[i] = hp[i]
      /\ \A j \in 1 .. b : (hp \o one)[a + p + j] = one[j]
  <2>1. hp \in Seq(Nat) /\ Len(hp) = a + p /\ Len(one) = b /\ a + p \in Nat
    BY <1>3, <1>5, <1>p DEF hp
  <2>2. /\ hp \o one \in Seq(Nat) /\ Len(hp \o one) = Len(hp) + Len(one)
        /\ \A i \in 1 .. Len(hp) : (hp \o one)[i] = hp[i]
        /\ \A j \in 1 .. Len(one) : (hp \o one)[Len(hp) + j] = one[j]
    BY <1>3, <2>1, Join
  <2> QED
    BY <2>1, <2>2
<1> DEFINE B == hp \o one
<1> HIDE DEF B
<1>b. /\ B \in Seq(Nat) /\ Len(B) = c
      /\ B[1] = x /\ B[2] = y /\ B[c] = z
      /\ \A j \in 1 .. p : B[2 + j] = P[j]
  <2>1. B \in Seq(Nat) /\ Len(B) = c
    BY <1>6, <1>p DEF B
  <2>2. ASSUME NEW j \in 1 .. p PROVE B[2 + j] = P[j]
    <3>1. 2 + j \in 1 .. a + p /\ 2 + j = a + j
      BY <1>p
    <3> QED
      BY <1>5, <1>6, <3>1 DEF B, hp
  <2>3. B[1] = x /\ B[2] = y
    <3>1. 1 \in 1 .. a + p /\ 2 \in 1 .. a + p /\ 1 \in 1 .. a /\ 2 \in 1 .. a
      BY <1>p
    <3> QED
      <4>1. B[1] = hp[1] /\ B[2] = hp[2]
        BY <1>6, <3>1 DEF B
      <4>2. hp[1] = head[1] /\ hp[2] = head[2]
        BY <1>5, <3>1 DEF hp
      <4> QED
        BY <1>3, <4>1, <4>2
  <2>4. B[c] = z
    <3>1. 1 \in 1 .. b /\ a + p + 1 = c
      BY <1>p
    <3> QED
      BY <1>3, <1>6, <3>1 DEF B
  <2> QED
    BY <2>1, <2>2, <2>3, <2>4
<1>7. /\ B \o C \in Seq(Nat) /\ Len(B \o C) = c + d
      /\ \A i \in 1 .. c : (B \o C)[i] = B[i]
      /\ \A j \in 1 .. d : (B \o C)[c + j] = C[j]
  <2>1. Len(C) = d
    BY <1>2, <1>p
  <2>2. /\ B \o C \in Seq(Nat) /\ Len(B \o C) = Len(B) + Len(C)
        /\ \A i \in 1 .. Len(B) : (B \o C)[i] = B[i]
        /\ \A j \in 1 .. Len(C) : (B \o C)[Len(B) + j] = C[j]
    BY <1>2, <1>b, Join
  <2> QED
    BY <1>b, <2>1, <2>2
<1> DEFINE v == B \o C
<1> HIDE DEF v
<1>8. Sections(x, y, players, z, coins) = v
  BY <1>4 DEF v, B, hp
<1>9. v \in Seq(Nat) /\ Len(v) = 3 + 6 * n + 4 * m
  BY <1>7, <1>p DEF v
<1>10. v[1] = x /\ v[2] = y /\ v[3 + 6 * n] = z
  <2>1. 1 \in 1 .. c /\ 2 \in 1 .. c /\ c \in 1 .. c /\ c = 3 + 6 * n
    BY <1>p
  <2> QED
    BY <1>b, <1>7, <2>1 DEF v
<1>11. ASSUME NEW i \in 1 .. n, NEW j \in 1 .. 6
       PROVE  v[2 + (6 * (i - 1) + j)] = players[i][j]
  <2>1. PICK k \in 1 .. p : k = 6 * (i - 1) + j
    BY ONLY <1>p, n \in Nat, i \in 1 .. n, j \in 1 .. 6
  <2>2. 2 + k \in 1 .. c
    BY <1>p
  <2>3. v[2 + k] = P[k]
    BY <1>b, <1>7, <2>2 DEF v
  <2> QED
    BY <1>1, <2>1, <2>3
<1>12. ASSUME NEW i \in 1 .. m, NEW j \in 1 .. 4
       PROVE  v[3 + 6 * n + (4 * (i - 1) + j)] = coins[i][j]
  <2>1. PICK k \in 1 .. d : k = 4 * (i - 1) + j
    BY <1>p
  <2>2. v[c + k] = C[k]
    BY <1>7 DEF v
  <2> QED
    BY <1>2, <1>p, <2>1, <2>2
<1>13. InSections(v, x, y, players, z, coins, n, m)
  BY <1>10, <1>11, <1>12 DEF InSections
<1> QED
  BY <1>8, <1>9, <1>13

\* The values in the order of the fields.
InOrder(v, tick, players, coins, n, m) ==
  InSections(v, tick, n, players, m, coins, n, m)

LEMMA WorldValuesAre ==
  ASSUME NEW tick \in Nat, NEW players \in Seq([1 .. 6 -> Nat]),
         NEW coins \in Seq([1 .. 4 -> Nat]), NEW n \in Nat, NEW m \in Nat,
         Len(players) = n, Len(coins) = m
  PROVE  /\ WorldValues(tick, players, coins) \in Seq(Nat)
         /\ Len(WorldValues(tick, players, coins)) = 3 + 6 * n + 4 * m
         /\ InOrder(WorldValues(tick, players, coins), tick, players, coins, n, m)
<1>1. WorldValues(tick, players, coins) = Sections(tick, n, players, m, coins)
  BY DEF WorldValues, Sections
<1> QED
  BY <1>1, SectionsAre DEF InOrder

\* Each value has its width in the same place.
LEMMA WidthsAre ==
  ASSUME Sizes, NEW n \in Nat, NEW m \in Nat
  PROVE  LET w == WorldFields(n, m)
         IN  /\ w[1] = WORD /\ w[2] = 1 /\ w[3 + 6 * n] = 1
             /\ \A i \in 1 .. n : \A j \in 1 .. 6 :
                  w[2 + (6 * (i - 1) + j)] = WORD
             /\ \A i \in 1 .. m : \A j \in 1 .. 4 :
                  w[3 + 6 * n + (4 * (i - 1) + j)] = CoinFields[j]
<1> DEFINE P == [i \in 1 .. n |-> PlayerFields]
           C == [i \in 1 .. m |-> CoinFields]
           w == WorldFields(n, m)
<1>1. w = Sections(WORD, 1, P, 1, C)
  BY DEF WorldFields, Sections, Times
<1>2. WORD \in Nat /\ PlayerFields \in [1 .. 6 -> Nat]
        /\ CoinFields \in [1 .. 4 -> Nat]
  BY DEF Sizes, PlayerFields, CoinFields
<1>3. /\ P \in Seq([1 .. 6 -> Nat]) /\ Len(P) = n
      /\ C \in Seq([1 .. 4 -> Nat]) /\ Len(C) = m
  BY <1>2
<1>4. /\ \A i \in 1 .. n : P[i] = PlayerFields
      /\ \A i \in 1 .. m : C[i] = CoinFields
      /\ \A j \in 1 .. 6 : PlayerFields[j] = WORD
  BY DEF PlayerFields
<1> HIDE DEF P, C, w
<1>5. InSections(w, WORD, 1, P, 1, C, n, m)
  BY <1>1, <1>2, <1>3, SectionsAre
<1>6. /\ w[1] = WORD /\ w[2] = 1 /\ w[3 + 6 * n] = 1
      /\ \A i \in 1 .. n : \A j \in 1 .. 6 :
           w[2 + (6 * (i - 1) + j)] = P[i][j]
      /\ \A i \in 1 .. m : \A j \in 1 .. 4 :
           w[3 + 6 * n + (4 * (i - 1) + j)] = C[i][j]
  BY ONLY <1>5 DEF InSections
<1>7. ASSUME NEW i \in 1 .. n, NEW j \in 1 .. 6
      PROVE  w[2 + (6 * (i - 1) + j)] = WORD
  <2>1. P[i][j] = WORD
    BY ONLY <1>4, i \in 1 .. n, j \in 1 .. 6
  <2> QED
    BY ONLY <1>6, <2>1, i \in 1 .. n, j \in 1 .. 6
<1>8. ASSUME NEW i \in 1 .. m, NEW j \in 1 .. 4
      PROVE  w[3 + 6 * n + (4 * (i - 1) + j)] = CoinFields[j]
  <2>1. C[i][j] = CoinFields[j]
    BY ONLY <1>4, i \in 1 .. m, j \in 1 .. 4
  <2> QED
    BY ONLY <1>6, <2>1, i \in 1 .. m, j \in 1 .. 4
<1> QED
  BY <1>6, <1>7, <1>8 DEF w

-----------------------------------------------------------------------------
(* A packet: a header and what it announces.                               *)

LEMMA Halves ==
  ASSUME NEW s \in Seq(Nat), NEW t \in Seq(Nat)
  PROVE  /\ s \o t \in Seq(Nat) /\ Len(s \o t) = Len(s) + Len(t)
         /\ SubSeq(s \o t, 1, Len(s)) = s
         /\ SubSeq(s \o t, Len(s) + 1, Len(s \o t)) = t
<1> DEFINE st == s \o t
<1>1. /\ st \in Seq(Nat) /\ Len(st) = Len(s) + Len(t)
      /\ \A i \in 1 .. Len(s) : st[i] = s[i]
      /\ \A j \in 1 .. Len(t) : st[Len(s) + j] = t[j]
  BY Join
<1>2. Len(s) \in Nat /\ Len(t) \in Nat
  BY LenProperties
<1> HIDE DEF st
<1>3. PICK S : S = Nat
  OBVIOUS
<1>4. st \in Seq(S) /\ s \in Seq(S) /\ t \in Seq(S)
  BY <1>1, <1>3
<1>5. SubSeq(st, 1, Len(s)) = s
  <2>1. /\ SubSeq(st, 0 + 1, 0 + Len(s)) \in Seq(S)
        /\ Len(SubSeq(st, 0 + 1, 0 + Len(s))) = Len(s)
        /\ \A j \in 1 .. Len(s) : SubSeq(st, 0 + 1, 0 + Len(s))[j] = st[0 + j]
    <3>1. 0 \in Nat /\ 0 + Len(s) <= Len(st)
      BY <1>1, <1>2
    <3> QED
      BY ONLY <1>2, <1>4, <3>1, PartOfSeq
  <2>2. 0 + 1 = 1 /\ 0 + Len(s) = Len(s) /\ \A j \in 1 .. Len(s) : 0 + j = j
    BY <1>2
  <2>3. /\ SubSeq(st, 1, Len(s)) \in Seq(S) /\ Len(SubSeq(st, 1, Len(s))) = Len(s)
        /\ \A j \in 1 .. Len(s) : SubSeq(st, 1, Len(s))[j] = s[j]
    BY <1>1, <2>1, <2>2
  <2> QED
    BY ONLY <1>4, <2>3, SeqEqual
<1>6. SubSeq(st, Len(s) + 1, Len(st)) = t
  <2>1. /\ SubSeq(st, Len(s) + 1, Len(s) + Len(t)) \in Seq(S)
        /\ Len(SubSeq(st, Len(s) + 1, Len(s) + Len(t))) = Len(t)
        /\ \A j \in 1 .. Len(t) :
             SubSeq(st, Len(s) + 1, Len(s) + Len(t))[j] = st[Len(s) + j]
    <3>1. Len(s) + Len(t) <= Len(st)
      BY <1>1, <1>2
    <3> QED
      BY ONLY <1>2, <1>4, <3>1, PartOfSeq
  <2>2. \A j \in 1 .. Len(t) : SubSeq(st, Len(s) + 1, Len(s) + Len(t))[j] = t[j]
    BY <1>1, <2>1
  <2>3. SubSeq(st, Len(s) + 1, Len(s) + Len(t)) = t
    BY ONLY <1>4, <2>1, <2>2, SeqEqual
  <2> QED
    BY <1>1, <2>3
<1> QED
  BY <1>1, <1>5, <1>6 DEF st

\* A byte has room for any smaller value.
LEMMA FitsByte ==
  ASSUME Sizes, NEW v \in Nat, v < BYTE
  PROVE  Fits(1, v)
<1>1. BYTE \in Nat /\ BYTE > 0
  BY DEF Sizes, World
<1>2. v \div BYTE = 0
  BY <1>1
<1>3. Shifted(v, 0) = v /\ Shifted(v, 0 + 1) = Shifted(v, 0) \div BYTE
  BY ShiftedSteps
<1> QED
  BY <1>2, <1>3 DEF Fits

LEMMA HeaderBytes ==
  ASSUME Sizes, NEW type \in Nat, NEW seq \in Nat, NEW size \in Nat
  PROVE  LET h == Header(type, seq, size)
             v == <<type, seq, size>>
         IN  /\ h \in Seq(Nat) /\ Len(h) = HeaderSize
             /\ \A i \in 1 .. 3 : Fits(HeaderFields[i], v[i])
                                     => ReadAll(h, HeaderFields)[i] = v[i]
<1> DEFINE h == Header(type, seq, size)
           v == <<type, seq, size>>
<1>1. PICK n \in Nat : n = 3
  OBVIOUS
<1>2. /\ v \in Seq(Nat) /\ Len(v) = n
      /\ HeaderFields \in [1 .. n -> Nat]
      /\ HeaderFields[1] = 1 /\ HeaderFields[2] = WORD /\ HeaderFields[3] = 2
      /\ WORD \in Nat
  BY <1>1 DEF HeaderFields, Sizes
<1>3. h = WriteAll(HeaderFields, v)
  BY DEF Header
<1> HIDE DEF h, v
<1>4. /\ WriteAll(HeaderFields, v) \in Seq(Nat)
      /\ Laid(WriteAll(HeaderFields, v), HeaderFields, v)
      /\ \E at \in [0 .. n -> Nat] :
           /\ at[0] = 0
           /\ \A i \in 1 .. n : at[i] = at[i - 1] + HeaderFields[i]
           /\ Len(WriteAll(HeaderFields, v)) = at[n]
  BY <1>1, <1>2, WriteAllLays
<1>5. Len(h) = HeaderSize
  <2>1. PICK at \in [0 .. n -> Nat] :
           /\ at[0] = 0
           /\ \A i \in 1 .. n : at[i] = at[i - 1] + HeaderFields[i]
           /\ Len(WriteAll(HeaderFields, v)) = at[n]
    BY <1>4
  <2>2. at[1] = 0 + 1 /\ at[2] = at[1] + WORD /\ at[3] = at[2] + 2
    BY <1>1, <1>2, <2>1
  <2> QED
    BY <1>1, <1>2, <1>3, <2>1, <2>2 DEF HeaderSize
<1>6. \A i \in 1 .. n : Fits(HeaderFields[i], v[i])
                           => ReadAll(h, HeaderFields)[i] = v[i]
  <2>1. n \in 0 .. Len(v) /\ HeaderFields \in [1 .. Len(v) -> Nat]
    BY <1>1, <1>2
  <2> QED
    BY <1>2, <1>3, <1>4, <2>1, ReadBack
<1> QED
  BY <1>1, <1>3, <1>4, <1>5, <1>6 DEF h, v

\* A reader finds the kind and, if there is room, the number in the header; the
\* rest is payload.
Announces(packet, type, seq, body) ==
  /\ packet \in Seq(Nat) /\ Len(packet) = HeaderSize + Len(body)
  /\ DeserializeHeader(packet)[1] = type
  /\ Fits(WORD, seq) => DeserializeHeader(packet)[2] = seq
  /\ Payload(packet) = body

LEMMA HeaderRead ==
  ASSUME Sizes, NEW type \in 1 .. World, NEW seq \in Nat, NEW size \in Nat,
         NEW body \in Seq(Nat)
  PROVE  Announces(Header(type, seq, size) \o body, type, seq, body)
<1> DEFINE h == Header(type, seq, size)
           packet == h \o body
<1>0. type \in Nat /\ type < BYTE
  BY DEF Sizes, World
<1>1. /\ h \in Seq(Nat) /\ Len(h) = HeaderSize
      /\ \A i \in 1 .. 3 : Fits(HeaderFields[i], <<type, seq, size>>[i])
            => ReadAll(h, HeaderFields)[i] = <<type, seq, size>>[i]
  BY <1>0, HeaderBytes
<1>2. Fits(1, type)
  BY <1>0, FitsByte
<1>3. HeaderFields[1] = 1 /\ HeaderFields[2] = WORD
  BY DEF HeaderFields
<1> HIDE DEF h
<1>4. /\ packet \in Seq(Nat) /\ Len(packet) = Len(h) + Len(body)
      /\ SubSeq(packet, 1, Len(h)) = h
      /\ SubSeq(packet, Len(h) + 1, Len(packet)) = body
  BY <1>1, Halves
<1> HIDE DEF packet
<1>5. DeserializeHeader(packet) = ReadAll(h, HeaderFields)
  BY <1>1, <1>4 DEF DeserializeHeader
<1>6. /\ ReadAll(h, HeaderFields)[1] = type
      /\ Fits(WORD, seq) => ReadAll(h, HeaderFields)[2] = seq
  BY <1>1, <1>2, <1>3
<1>7. Payload(packet) = body
  BY <1>1, <1>4 DEF Payload
<1> QED
  BY <1>1, <1>4, <1>5, <1>6, <1>7 DEF packet, h, Announces

-----------------------------------------------------------------------------
(* Messages.                                                               *)

LEMMA HelloRead ==
  ASSUME Sizes
  PROVE  ReadByServer(Serialize([kind |-> "hello"])) = <<>>
<1>1. /\ Header(Handshake, 0, 0) \in Seq(Nat)
      /\ DeserializeHeader(Header(Handshake, 0, 0) \o <<>>)[1] = Handshake
  <2>1. Handshake \in 1 .. World /\ 0 \in Nat /\ Handshake \in Nat
    BY DEF Handshake, World
  <2>2. <<>> \in Seq(Nat)
    OBVIOUS
  <2> QED
    BY ZenonT(40), <2>1, <2>2, HeaderRead, HeaderBytes DEF Announces
<1>2. Header(Handshake, 0, 0) \o <<>> = Header(Handshake, 0, 0)
  BY <1>1, ConcatEmptySeq
<1>3. Serialize([kind |-> "hello"]) = Header(Handshake, 0, 0)
  BY DEF Serialize
<1> QED
  BY <1>1, <1>2, <1>3 DEF ReadByServer, Handshake, Input

LEMMA WelcomeRead ==
  ASSUME Sizes, NEW id, Fits(WORD, id)
  PROVE  LET msg == [kind |-> "welcome", id |-> id]
         IN  ReadByClient(Serialize(msg)) = <<msg>>
<1> DEFINE msg == [kind |-> "welcome", id |-> id]
           body == Write(WORD, id)
           packet == Header(Handshake, 0, WORD) \o body
<1>1. id \in Nat /\ WORD \in Nat
  BY DEF Fits, Sizes
<1>2. body \in Seq(Nat) /\ Len(body) = WORD
  BY <1>1, WriteType
<1> HIDE DEF body
<1>3. DeserializeHeader(packet)[1] = Handshake /\ Payload(packet) = body
  <2>1. Handshake \in 1 .. World /\ 0 \in Nat
    BY DEF Handshake, World
  <2>2. Announces(packet, Handshake, 0, body)
    BY <1>1, <1>2, <2>1, HeaderRead
  <2> HIDE DEF packet
  <2> QED
    BY <2>2 DEF Announces
<1>4. ReadAll(body, <<WORD>>)[1] = id
  <2> DEFINE w == <<WORD>>
             v == <<id>>
  <2>1. PICK n \in Nat : n = 1
    OBVIOUS
  <2>2. /\ v \in Seq(Nat) /\ Len(v) = n /\ w \in [1 .. n -> Nat]
        /\ v[1] = id /\ w[1] = WORD
    BY <1>1, <2>1
  <2> HIDE DEF v, w
  <2>3. /\ Fields(w, v) \in Seq(Seq(Nat)) /\ Len(Fields(w, v)) = n
        /\ Fields(w, v)[1] = body
    <3>1. /\ Fields(w, v) \in Seq(Seq(Nat)) /\ Len(Fields(w, v)) = n
          /\ \A i \in 1 .. n : Fields(w, v)[i] = Write(w[i], v[i])
      BY <2>1, <2>2, FieldsType
    <3> QED
      BY <2>1, <2>2, <3>1 DEF body
  <2>4. Laid(body, w, v)
    <3> DEFINE at == [i \in 0 .. 1 |-> IF i = 0 THEN 0 ELSE WORD]
    <3>1. at \in [0 .. 1 -> Nat] /\ at[0] = 0 /\ at[1] = WORD
      BY <1>1
    <3> HIDE DEF at
    <3>2. \A i \in 1 .. 1 : i = 1 /\ i - 1 = 0
      OBVIOUS
    <3>3. at \in Places(Fields(w, v), body)
      BY <1>1, <1>2, <2>1, <2>3, <3>1, <3>2 DEF Places
    <3> QED
      BY <3>3 DEF Laid
  <2>5. \A i \in 1 .. n : Fits(w[i], v[i]) => ReadAll(body, w)[i] = v[i]
    <3>1. n \in 0 .. Len(v) /\ w \in [1 .. Len(v) -> Nat]
      BY <2>1, <2>2
    <3> QED
      BY <1>2, <2>2, <2>4, <3>1, ReadBack
  <2> QED
    BY <2>1, <2>2, <2>5 DEF w
<1> HIDE DEF packet
<1>5. Serialize(msg) = packet
  BY DEF Serialize, packet, body
<1>6. ReadByClient(packet) = <<[kind |-> "welcome", id |-> id]>>
  <2>1. ReadAll(Payload(packet), <<WORD>>)[1] = id
    BY <1>3, <1>4
  <2> HIDE DEF msg
  <2> QED
    BY <1>3, <2>1 DEF ReadByClient, Handshake, World
<1> QED
  BY <1>5, <1>6

LEMMA InputRead ==
  ASSUME Sizes, NEW seq, Fits(WORD, seq), NEW keys \in [1 .. 4 -> {0, 1}]
  PROVE  LET msg == [kind |-> "input", seq |-> seq, keys |-> keys]
         IN  ReadByServer(Serialize(msg)) = <<msg>>
<1> DEFINE msg == [kind |-> "input", seq |-> seq, keys |-> keys]
           body == WriteAll(KeyFields, keys)
           packet == Header(Input, seq, 4) \o body
<1>1. PICK n \in Nat : n = 4
  OBVIOUS
<1>2. seq \in Nat
  BY DEF Fits
<1>3. /\ keys \in Seq(Nat) /\ Len(keys) = n
      /\ KeyFields \in [1 .. n -> Nat] /\ Len(KeyFields) = 4
      /\ \A i \in 1 .. n : KeyFields[i] = 1 /\ keys[i] \in {0, 1}
  <2>1. keys \in [1 .. n -> Nat] /\ \A i \in 1 .. n : keys[i] \in {0, 1}
    BY <1>1
  <2>2. keys \in Seq(Nat) /\ Len(keys) = n
    BY <2>1
  <2> QED
    BY <1>1, <2>1, <2>2 DEF KeyFields
<1>4. body \in Seq(Nat) /\ Laid(body, KeyFields, keys)
  BY <1>3, WriteAllLays
<1> HIDE DEF body
<1>5. /\ DeserializeHeader(packet)[1] = Input /\ DeserializeHeader(packet)[2] = seq
      /\ Payload(packet) = body
  <2>1. Input \in 1 .. World /\ 4 \in Nat
    BY DEF Input, World
  <2>2. Announces(packet, Input, seq, body)
    BY <1>2, <1>4, <2>1, HeaderRead
  <2> HIDE DEF packet
  <2> QED
    BY <2>2 DEF Announces
<1>6. \A i \in 1 .. n : ReadAll(body, KeyFields)[i] = keys[i]
  <2>1. n \in 0 .. Len(keys) /\ KeyFields \in [1 .. Len(keys) -> Nat]
    BY <1>3
  <2>2. \A i \in 1 .. n : Fits(KeyFields[i], keys[i])
                             => ReadAll(body, KeyFields)[i] = keys[i]
    BY <1>3, <1>4, <2>1, ReadBack
  <2>3. Fits(1, 0) /\ Fits(1, 1)
    BY FitsByte DEF Sizes, World
  <2> QED
    BY <1>3, <2>2, <2>3
<1> HIDE DEF packet
<1>7. Serialize(msg) = packet
  BY DEF Serialize, packet, body
<1>8. [i \in 1 .. 4 |-> IF ReadAll(body, KeyFields)[i] # 0 THEN 1 ELSE 0] = keys
  BY <1>1, <1>3, <1>6
<1> QED
  BY <1>5, <1>7, <1>8 DEF ReadByServer

LEMMA RowOf ==
  ASSUME NEW s \in Seq(Nat), NEW a \in Nat, NEW l \in Nat, a + l <= Len(s),
         NEW row \in [1 .. l -> Nat], \A j \in 1 .. l : s[a + j] = row[j]
  PROVE  SubSeq(s, a + 1, a + l) = row
<1> DEFINE part == SubSeq(s, a + 1, a + l)
<1>1. PICK S : S = Nat
  OBVIOUS
<1>2. s \in Seq(S) /\ row \in [1 .. l -> S]
  BY <1>1
<1>3. /\ part \in Seq(S) /\ Len(part) = l
      /\ \A j \in 1 .. l : part[j] = s[a + j]
  <2>1. /\ SubSeq(s, a + 1, a + l) \in Seq(S)
        /\ Len(SubSeq(s, a + 1, a + l)) = l
        /\ \A j \in 1 .. l : SubSeq(s, a + 1, a + l)[j] = s[a + j]
    BY ONLY <1>2, a \in Nat, l \in Nat, a + l <= Len(s), PartOfSeq
  <2> QED
    BY <2>1
<1> HIDE DEF part
<1>4. row \in Seq(S) /\ Len(row) = l
  BY <1>2
<1>5. part = row
  BY <1>3, <1>4, SeqEqual
<1> QED
  BY <1>5 DEF part

\* The fields of a world state of n players and m coins have room for it.
Room(tick, players, coins, n, m) ==
  \A i \in 1 .. 3 + 6 * n + 4 * m :
    Fits(WorldFields(n, m)[i], WorldValues(tick, players, coins)[i])

WorldBody(tick, players, coins, n, m) ==
  WriteAll(WorldFields(n, m), WorldValues(tick, players, coins))

WorldMessage(tick, players, coins) ==
  [kind |-> "world", tick |-> tick, players |-> players, coins |-> coins]

\* What is written of a world state, and what a client makes of it.
LEMMA WorldPayload ==
  ASSUME Sizes, NEW tick \in Nat, NEW players \in Seq([1 .. 6 -> Nat]),
         NEW coins \in Seq([1 .. 4 -> Nat]), NEW n \in Nat, NEW m \in Nat,
         Len(players) = n, Len(coins) = m, Room(tick, players, coins, n, m)
  PROVE  /\ WorldBody(tick, players, coins, n, m) \in Seq(Nat)
         /\ DeserializeWorldState(WorldBody(tick, players, coins, n, m))
              = WorldMessage(tick, players, coins)
<1> DEFINE widths == WorldFields(n, m)
           v == WorldValues(tick, players, coins)
           body == WriteAll(widths, v)
<1>k. PICK k \in Nat : k = 3 + 6 * n + 4 * m
  OBVIOUS
<1>1. /\ v \in Seq(Nat) /\ Len(v) = k
      /\ v[1] = tick /\ v[2] = n /\ v[3 + 6 * n] = m
      /\ \A i \in 1 .. n : \A j \in 1 .. 6 :
           v[2 + (6 * (i - 1) + j)] = players[i][j]
      /\ \A i \in 1 .. m : \A j \in 1 .. 4 :
           v[3 + 6 * n + (4 * (i - 1) + j)] = coins[i][j]
  <2>1. /\ v \in Seq(Nat) /\ Len(v) = 3 + 6 * n + 4 * m
        /\ InOrder(v, tick, players, coins, n, m)
    BY WorldValuesAre
  <2> HIDE DEF v
  <2> QED
    BY <1>k, <2>1 DEF InOrder, InSections
<1>2. /\ widths \in [1 .. k -> Nat]
      /\ widths[1] = WORD /\ widths[2] = 1
      /\ \A i \in 1 .. 3 + 6 * n : widths[i] = Before(n)[i]
  <2>1. /\ widths \in Seq(Nat) /\ Len(widths) = k
        /\ widths[1] = WORD /\ widths[2] = 1
        /\ \A i \in 1 .. 3 + 6 * n : widths[i] = Before(n)[i]
    BY <1>k, WorldFieldsType
  <2> HIDE DEF widths
  <2> QED
    BY <2>1, LenProperties
<1>3. \A i \in 1 .. k : Fits(widths[i], v[i])
  BY <1>k DEF Room
<1> HIDE DEF widths, v
<1>4. body \in Seq(Nat) /\ Laid(body, widths, v)
  BY <1>1, <1>2, WriteAllLays
<1> HIDE DEF body
\* However much a reader knows of the fields, it gets the values.
<1>5. ASSUME NEW j \in 0 .. k, NEW known \in [1 .. j -> Nat],
             \A i \in 1 .. j : known[i] = widths[i]
      PROVE  \A i \in 1 .. j : ReadAll(body, known)[i] = v[i]
  <2>1. j \in 0 .. Len(v) /\ widths \in [1 .. Len(v) -> Nat]
    BY <1>1, <1>2
  <2>2. \A i \in 1 .. j : Fits(widths[i], v[i]) => ReadAll(body, known)[i] = v[i]
    BY <1>1, <1>4, <1>5, <2>1, ReadBack
  <2> QED
    BY <1>3, <2>2
<1>6. ReadAll(body, <<WORD, 1>>)[2] = n
  <2>1. PICK j \in 0 .. k : j = 2
    BY <1>k
  <2>2. <<WORD, 1>> \in [1 .. j -> Nat] /\ \A i \in 1 .. j : <<WORD, 1>>[i] = widths[i]
    BY <1>2, <2>1, FieldTypes
  <2>3. \A i \in 1 .. j : ReadAll(body, <<WORD, 1>>)[i] = v[i]
    BY <1>5, <2>2
  <2> QED
    BY <1>1, <2>1, <2>3
<1>7. ReadAll(body, WorldFields(n, 0))[3 + 6 * n] = m
  <2> DEFINE known == WorldFields(n, 0)
  <2>1. PICK j \in 0 .. k : j = 3 + 6 * n
    BY <1>k
  <2>2. /\ known \in Seq(Nat) /\ Len(known) = j
        /\ \A i \in 1 .. 3 + 6 * n : known[i] = Before(n)[i]
    <3>1. PICK none \in Nat : none = 0
      OBVIOUS
    <3>2. /\ known = WorldFields(n, none)
          /\ WorldFields(n, none) \in Seq(Nat)
          /\ Len(WorldFields(n, none)) = 3 + 6 * n + 4 * none
          /\ \A i \in 1 .. 3 + 6 * n : WorldFields(n, none)[i] = Before(n)[i]
      BY <3>1, WorldFieldsType
    <3> HIDE DEF known
    <3>3. 3 + 6 * n + 4 * none = j
      BY <2>1, <3>1
    <3> QED
      BY <3>2, <3>3
  <2> HIDE DEF known
  <2>3. known \in [1 .. j -> Nat] /\ \A i \in 1 .. j : known[i] = widths[i]
    BY <1>2, <2>1, <2>2, LenProperties
  <2>4. \A i \in 1 .. j : ReadAll(body, known)[i] = v[i]
    BY <1>5, <2>3
  <2>5. j \in 1 .. j
    BY <2>1
  <2> QED
    BY <1>1, <2>1, <2>4, <2>5 DEF known
<1> DEFINE read == ReadAll(body, widths)
<1>8. /\ Len(widths) = k
      /\ \A i \in 1 .. k : read[i] = v[i]
      /\ read \in Seq(Nat) /\ Len(read) = k
  <2>1. Len(widths) = k
    BY <1>2, LenProperties
  <2>2. k \in 0 .. k
    BY <1>k
  <2>3. \A i \in 1 .. k : read[i] = v[i]
    BY <1>2, <1>5, <2>2
  <2>4. DOMAIN read = 1 .. k /\ read = [i \in 1 .. k |-> read[i]]
    BY <2>1 DEF ReadAll
  <2>5. \A i \in 1 .. k : v[i] \in Nat
    BY <1>1, ElementOfSeq
  <2> HIDE DEF read
  <2>6. read \in [1 .. k -> Nat]
    BY <2>3, <2>4, <2>5
  <2> QED
    BY <2>1, <2>3, <2>6
<1> HIDE DEF read
\* A player is six words, and a coin four fields.
<1>9. [i \in 1 .. n |-> SubSeq(read, 6 * i - 3, 6 * i + 2)] = players
  <2>1. ASSUME NEW i \in 1 .. n
        PROVE  SubSeq(read, 6 * i - 3, 6 * i + 2) = players[i]
    <3>1. PICK a \in Nat : a = 2 + 6 * (i - 1)
      OBVIOUS
    <3>2. PICK l \in Nat : l = 6
      OBVIOUS
    <3>3. players[i] \in [1 .. l -> Nat]
      BY <3>2, ElementOfSeq
    <3>4. ASSUME NEW j \in 1 .. l PROVE read[a + j] = players[i][j]
      <4>1. j \in 1 .. 6
        BY <3>2
      <4>2. i \in Nat /\ 1 <= i /\ i <= n
        OBVIOUS
      <4>3. a + j = 2 + (6 * (i - 1) + j) /\ a + j \in 1 .. k
        BY ONLY n \in Nat, m \in Nat, k \in Nat, a \in Nat, <1>k, <3>1, <4>1, <4>2
      <4> QED
        BY <1>1, <1>8, <4>1, <4>3
    <3>5. a + l <= Len(read)
      BY <1>k, <1>8, <3>1, <3>2
    <3>6. SubSeq(read, a + 1, a + l) = players[i]
      <4>1. PICK row : row = players[i]
        OBVIOUS
      <4>2. row \in [1 .. l -> Nat] /\ \A j \in 1 .. l : read[a + j] = row[j]
        BY <3>3, <3>4, <4>1
      <4>3. read \in Seq(Nat) /\ a \in Nat /\ l \in Nat
        BY <1>8, <3>1, <3>2
      <4>4. SubSeq(read, a + 1, a + l) = row
        BY ONLY <3>5, <4>2, <4>3, RowOf
      <4> QED
        BY <4>1, <4>4
    <3>7. a + 1 = 6 * i - 3 /\ a + l = 6 * i + 2
      BY <3>1, <3>2
    <3> QED
      BY <3>6, <3>7
  <2>2. players = [i \in 1 .. n |-> players[i]]
    BY LenProperties
  <2> QED
    BY <2>1, <2>2
<1>10. [i \in 1 .. m |-> SubSeq(read, 6 * n + 4 * i, 6 * n + 4 * i + 3)] = coins
  <2>1. ASSUME NEW i \in 1 .. m
        PROVE  SubSeq(read, 6 * n + 4 * i, 6 * n + 4 * i + 3) = coins[i]
    <3>1. PICK a \in Nat : a = 3 + 6 * n + 4 * (i - 1)
      OBVIOUS
    <3>2. PICK l \in Nat : l = 4
      OBVIOUS
    <3>3. coins[i] \in [1 .. l -> Nat]
      BY <3>2, ElementOfSeq
    <3>4. ASSUME NEW j \in 1 .. l PROVE read[a + j] = coins[i][j]
      <4>1. /\ j \in 1 .. 4 /\ a + j = 3 + 6 * n + (4 * (i - 1) + j)
            /\ a + j \in 1 .. k
        BY <1>k, <3>1, <3>2
      <4> QED
        BY <1>1, <1>8, <4>1
    <3>5. a + l <= Len(read)
      BY <1>k, <1>8, <3>1, <3>2
    <3>6. SubSeq(read, a + 1, a + l) = coins[i]
      <4>1. PICK row : row = coins[i]
        OBVIOUS
      <4>2. row \in [1 .. l -> Nat] /\ \A j \in 1 .. l : read[a + j] = row[j]
        BY <3>3, <3>4, <4>1
      <4>3. read \in Seq(Nat) /\ a \in Nat /\ l \in Nat
        BY <1>8, <3>1, <3>2
      <4>4. SubSeq(read, a + 1, a + l) = row
        BY ONLY <3>5, <4>2, <4>3, RowOf
      <4> QED
        BY <4>1, <4>4
    <3>7. a + 1 = 6 * n + 4 * i /\ a + l = 6 * n + 4 * i + 3
      BY <3>1, <3>2
    <3> QED
      BY <3>6, <3>7
  <2>2. coins = [i \in 1 .. m |-> coins[i]]
    BY LenProperties
  <2> QED
    BY <2>1, <2>2
<1>11. read[1] = tick
  <2>1. 1 \in 1 .. k
    BY <1>k
  <2> QED
    BY <1>1, <1>8, <2>1
<1>12. DeserializeWorldState(body) =
         [kind |-> "world", tick |-> tick, players |-> players, coins |-> coins]
  BY <1>6, <1>7, <1>9, <1>10, <1>11 DEF DeserializeWorldState, read, widths
<1> QED
  BY <1>4, <1>12 DEF body, widths, v, WorldBody, WorldMessage

LEMMA WorldRead ==
  ASSUME Sizes, NEW tick \in Nat, NEW players \in Seq([1 .. 6 -> Nat]),
         NEW coins \in Seq([1 .. 4 -> Nat]),
         Expressible(WorldMessage(tick, players, coins))
  PROVE  ReadByClient(Serialize(WorldMessage(tick, players, coins)))
           = <<WorldMessage(tick, players, coins)>>
<1>n. PICK n \in Nat : n = Len(players)
  BY LenProperties
<1>m. PICK m \in Nat : m = Len(coins)
  BY LenProperties
<1>msg. PICK msg : msg = WorldMessage(tick, players, coins)
  OBVIOUS
<1>fields. /\ msg.kind = "world" /\ msg.tick = tick
           /\ msg.players = players /\ msg.coins = coins
  BY <1>msg DEF WorldMessage
<1>1. Room(tick, players, coins, n, m)
  <2>1. Len(players) = n /\ Len(coins) = m
    BY <1>n, <1>m
  <2> DEFINE v == WorldValues(tick, players, coins)
  <2>2. v \in Seq(Nat) /\ Len(v) = 3 + 6 * n + 4 * m
    BY ONLY tick \in Nat, players \in Seq([1 .. 6 -> Nat]), n \in Nat, m \in Nat,
            coins \in Seq([1 .. 4 -> Nat]), <2>1, WorldValuesAre DEF v
  <2>3. \A i \in DOMAIN v : Fits(WorldFields(n, m)[i], v[i])
    BY <1>fields, <1>msg, <1>n, <1>m DEF Expressible
  <2> HIDE DEF v
  <2>4. \A i \in 1 .. 3 + 6 * n + 4 * m : Fits(WorldFields(n, m)[i], v[i])
    BY <2>2, <2>3, LenProperties
  <2> QED
    BY <2>4 DEF v, Room
<1> DEFINE body == WorldBody(tick, players, coins, n, m)
           packet == Header(World, tick, WorldSize(n, m)) \o body
<1>3. body \in Seq(Nat) /\ DeserializeWorldState(body) = msg
  <2>1. Len(players) = n /\ Len(coins) = m
    BY <1>n, <1>m
  <2> QED
    BY <1>msg, <1>1, <2>1, WorldPayload
<1>4. WorldSize(n, m) \in Nat
  <2>1. PICK p \in Nat : p = n * 6
    OBVIOUS
  <2>2. WORD \in Nat
    BY DEF Sizes
  <2>3. PICK q \in Nat : q = p * WORD
    BY <2>2
  <2>4. PICK c \in Nat : c = 3 * WORD + 1
    BY <2>2
  <2>5. PICK r \in Nat : r = m * c
    OBVIOUS
  <2>6. WorldSize(n, m) = WORD + 1 + q + 1 + r
    BY <2>1, <2>3, <2>4, <2>5 DEF WorldSize
  <2> QED
    BY <2>2, <2>6
<1>5. Serialize(msg) = packet
  BY <1>fields, <1>n, <1>m DEF Serialize, SerializeWorldState, WorldBody
<1> HIDE DEF body
<1>6. Announces(packet, World, tick, body)
  <2>1. World \in 1 .. World
    BY DEF World
  <2> QED
    BY <1>3, <1>4, <2>1, HeaderRead
<1> HIDE DEF packet
<1>7. DeserializeHeader(packet)[1] = World /\ Payload(packet) = body
  BY <1>6 DEF Announces
<1>8. ReadByClient(packet) = <<msg>>
  BY <1>3, <1>7 DEF ReadByClient, Handshake, World
<1> QED
  BY <1>5, <1>8, <1>msg

\* Whatever a message holds, if its fields have room for it the other side makes
\* of its packet the message that was meant; the server ignores the hello.
THEOREM MessageIsRead ==
  ASSUME Sizes, NEW msg \in Message, Expressible(msg)
  PROVE  /\ msg.kind \in {"welcome", "world"}
               => ReadByClient(Serialize(msg)) = <<msg>>
         /\ msg.kind = "input" => ReadByServer(Serialize(msg)) = <<msg>>
         /\ msg.kind = "hello" => ReadByServer(Serialize(msg)) = <<>>
<1>1. CASE msg \in [kind : {"hello"}]
  <2>1. msg = [kind |-> "hello"]
    BY <1>1
  <2> QED
    BY <2>1, HelloRead
<1>2. CASE msg \in [kind : {"welcome"}, id : Nat]
  <2>1. msg = [kind |-> "welcome", id |-> msg.id] /\ msg.kind = "welcome"
    BY <1>2
  <2>2. Fits(WORD, msg.id)
    BY <2>1 DEF Expressible
  <2>3. PICK id : id = msg.id
    OBVIOUS
  <2>4. ReadByClient(Serialize([kind |-> "welcome", id |-> id]))
          = <<[kind |-> "welcome", id |-> id]>>
    BY <2>2, <2>3, WelcomeRead
  <2> QED
    BY <2>1, <2>3, <2>4
<1>3. CASE msg \in [kind : {"input"}, seq : Nat, keys : [1 .. 4 -> {0, 1}]]
  <2>1. /\ msg = [kind |-> "input", seq |-> msg.seq, keys |-> msg.keys]
        /\ msg.kind = "input" /\ msg.keys \in [1 .. 4 -> {0, 1}]
    BY <1>3
  <2>2. Fits(WORD, msg.seq)
    BY <2>1 DEF Expressible
  <2>3. PICK seq, keys : seq = msg.seq /\ keys = msg.keys
    OBVIOUS
  <2>4. ReadByServer(Serialize([kind |-> "input", seq |-> seq, keys |-> keys]))
          = <<[kind |-> "input", seq |-> seq, keys |-> keys]>>
    BY <2>1, <2>2, <2>3, InputRead
  <2> QED
    BY <2>1, <2>3, <2>4
<1>4. CASE msg \in [kind : {"world"}, tick : Nat, players : Seq([1 .. 6 -> Nat]),
                    coins : Seq([1 .. 4 -> Nat])]
  <2>1. /\ msg = [kind |-> "world", tick |-> msg.tick,
                  players |-> msg.players, coins |-> msg.coins]
        /\ msg.kind = "world" /\ msg.tick \in Nat
        /\ msg.players \in Seq([1 .. 6 -> Nat])
        /\ msg.coins \in Seq([1 .. 4 -> Nat])
    BY <1>4
  <2>2. PICK tick, players, coins :
          tick = msg.tick /\ players = msg.players /\ coins = msg.coins
    OBVIOUS
  <2>3. msg = WorldMessage(tick, players, coins)
    BY <2>1, <2>2 DEF WorldMessage
  <2>4. ReadByClient(Serialize(WorldMessage(tick, players, coins)))
          = <<WorldMessage(tick, players, coins)>>
    BY <2>1, <2>2, <2>3, WorldRead
  <2> QED
    BY <2>1, <2>3, <2>4
<1> QED
  BY <1>1, <1>2, <1>3, <1>4 DEF Message

-----------------------------------------------------------------------------
(* The size a header announces.                                            *)

Bytes == 0 .. BYTE - 1

LEMMA WriteBytes ==
  ASSUME Sizes, NEW v \in Nat, NEW w \in Nat
  PROVE  Write(w, v) \in Seq(Bytes) /\ Len(Write(w, v)) = w
<1>1. \A i \in 1 .. w : Shifted(v, i - 1) % BYTE \in Bytes
  <2> SUFFICES ASSUME NEW i \in 1 .. w PROVE Shifted(v, i - 1) % BYTE \in Bytes
    OBVIOUS
  <2>1. Shifted(v, i - 1) \in Nat
    BY ShiftedSteps, i - 1 \in Nat
  <2> QED
    BY <2>1, Division DEF Bytes
<1>2. Write(w, v) \in [1 .. w -> Bytes]
  BY <1>1 DEF Write
<1> QED
  BY <1>2

LEMMA WriteAllBytes ==
  ASSUME Sizes, NEW n \in Nat, NEW widths \in [1 .. n -> Nat],
         NEW values \in Seq(Nat), Len(values) = n
  PROVE  WriteAll(widths, values) \in Seq(Bytes)
<1> DEFINE seqs == Fields(widths, values)
<1>1. ASSUME NEW i \in 1 .. n PROVE Write(widths[i], values[i]) \in Seq(Bytes)
  <2>1. widths[i] \in Nat /\ values[i] \in Nat
    BY ElementOfSeq
  <2> QED
    BY <2>1, WriteBytes
<1>2. seqs \in [1 .. n -> Seq(Bytes)]
  BY <1>1 DEF Fields
<1>3. WriteAll(widths, values) = FlattenSeq(seqs)
  <2>1. DOMAIN values = 1 .. Len(values)
    BY LenProperties
  <2> QED
    BY <2>1 DEF WriteAll, Fields
<1> HIDE DEF seqs
<1>4. seqs \in Seq(Seq(Bytes)) /\ Len(seqs) = n
  BY <1>2
<1>5. FlattenSeq(seqs) \in Seq(Bytes)
  BY <1>4, FlattenParts
<1> QED
  BY <1>3, <1>5

\* The last two bytes of a header are the size, if it fits there.
LEMMA HeaderSays ==
  ASSUME Sizes, NEW type \in Nat, NEW seq \in Nat, NEW size \in Nat
  PROVE  LET h == Header(type, seq, size)
         IN  /\ h \in Seq(Bytes) /\ Len(h) = HeaderSize
             /\ Fits(2, size) => h[HeaderSize - 1] + BYTE * h[HeaderSize] = size
<1> DEFINE h == Header(type, seq, size)
           v == <<type, seq, size>>
<1>1. PICK n \in Nat : n = 3
  OBVIOUS
<1>2. /\ v \in Seq(Nat) /\ Len(v) = n /\ v[3] = size
      /\ HeaderFields \in [1 .. n -> Nat]
      /\ HeaderFields[1] = 1 /\ HeaderFields[2] = WORD /\ HeaderFields[3] = 2
      /\ WORD \in Nat
  BY <1>1 DEF HeaderFields, Sizes
<1>3. h = WriteAll(HeaderFields, v)
  BY DEF Header
<1>4. Len(h) = HeaderSize
  BY HeaderBytes
<1> HIDE DEF h, v
<1>5. h \in Seq(Bytes)
  BY <1>2, <1>3, WriteAllBytes
<1>6. PICK at : at \in Places(Fields(HeaderFields, v), h)
  <2>1. Laid(WriteAll(HeaderFields, v), HeaderFields, v)
    BY <1>2, WriteAllLays
  <2> QED
    BY <1>3, <2>1 DEF Laid
<1>7. /\ Len(Fields(HeaderFields, v)) = n
      /\ \A i \in 1 .. n :
           /\ Fields(HeaderFields, v)[i] = Write(HeaderFields[i], v[i])
           /\ Len(Fields(HeaderFields, v)[i]) = HeaderFields[i]
  BY <1>2, FieldsType
<1>8. /\ at[0] = 0 /\ at[1] = at[0] + 1 /\ at[2] = at[1] + WORD
      /\ h[at[2] + 1] = Write(2, size)[1] /\ h[at[2] + 2] = Write(2, size)[2]
  <2>1. /\ at[0] = 0
        /\ \A i \in 1 .. n :
             /\ at[i] = at[i - 1] + HeaderFields[i]
             /\ \A j \in 1 .. HeaderFields[i] :
                  h[at[i - 1] + j] = Write(HeaderFields[i], v[i])[j]
    <3>1. /\ at[0] = 0
          /\ \A i \in 1 .. n :
               /\ at[i] = at[i - 1] + Len(Fields(HeaderFields, v)[i])
               /\ \A j \in 1 .. Len(Fields(HeaderFields, v)[i]) :
                    h[at[i - 1] + j] = Fields(HeaderFields, v)[i][j]
      BY ONLY <1>6, <1>7 DEF Places
    <3> QED
      BY ONLY <1>7, <3>1
  <2>2. /\ 1 \in 1 .. n /\ 2 \in 1 .. n /\ 3 \in 1 .. n
        /\ 1 - 1 = 0 /\ 2 - 1 = 1 /\ 3 - 1 = 2
    BY <1>1
  <2>3. 1 \in 1 .. HeaderFields[3] /\ 2 \in 1 .. HeaderFields[3]
    BY <1>2
  <2>4. at[1] = at[0] + HeaderFields[1] /\ at[2] = at[1] + HeaderFields[2]
    BY ONLY <2>1, <2>2
  <2>5. \A j \in 1 .. HeaderFields[3] :
          h[at[2] + j] = Write(HeaderFields[3], v[3])[j]
    BY ONLY <2>1, <2>2
  <2> QED
    BY ONLY <1>2, <2>1, <2>3, <2>4, <2>5
<1>9. h[HeaderSize - 1] = Write(2, size)[1] /\ h[HeaderSize] = Write(2, size)[2]
  <2>1. at[2] = WORD + 1
    BY <1>2, <1>8
  <2>2. at[2] + 1 = HeaderSize - 1 /\ at[2] + 2 = HeaderSize
    BY <1>2, <2>1 DEF HeaderSize
  <2> QED
    BY <1>8, <2>2
<1>10. ASSUME Fits(2, size)
       PROVE  h[HeaderSize - 1] + BYTE * h[HeaderSize] = size
  <2> DEFINE upper == size \div BYTE
  <2>1. /\ Shifted(size, 0) = size
        /\ Shifted(size, 0 + 1) = Shifted(size, 0) \div BYTE
        /\ Shifted(size, 1) \in Nat
        /\ Shifted(size, 1 + 1) = Shifted(size, 1) \div BYTE
    BY ShiftedSteps
  <2>2. Shifted(size, 1) = upper /\ upper \div BYTE = 0 /\ upper \in Nat
    BY <1>10, <2>1 DEF Fits
  <2>3. Write(2, size)[1] = size % BYTE /\ Write(2, size)[2] = upper % BYTE
    BY <2>1, <2>2 DEF Write
  <2> HIDE DEF upper
  <2>4. upper % BYTE = upper
    <3>1. upper = (upper % BYTE) + BYTE * (upper \div BYTE)
            /\ upper % BYTE \in Nat
      BY <2>2, Division
    <3> QED
      BY <2>2, <3>1, BYTE \in Nat DEF Sizes
  <2>5. size = (size % BYTE) + BYTE * upper
    BY Division DEF upper
  <2> QED
    BY <1>9, <2>3, <2>4, <2>5
<1> QED
  BY <1>4, <1>5, <1>10 DEF h

LEMMA StepsAdd ==
  ASSUME NEW n \in Nat, NEW w \in Nat, NEW f \in [0 .. n -> Nat],
         \A i \in 1 .. n : f[i] = f[i - 1] + w
  PROVE  f[n] = f[0] + n * w
<1> DEFINE T == {i \in 0 .. n : f[i] = f[0] + i * w}
<1>1. 0 \in T
  <2>1. f[0] \in Nat
    BY 0 \in 0 .. n
  <2> QED
    BY <2>1
<1>2. ASSUME NEW i \in 1 .. n, i - 1 \in T PROVE i \in T
  <2>1. f[i - 1] = f[0] + (i - 1) * w /\ f[i] = f[i - 1] + w
    BY <1>2
  <2>2. PICK a \in Nat : a = f[0]
    BY 0 \in 0 .. n
  <2>3. (a + (i - 1) * w) + w = a + i * w
    <3>1. (i - 1) * w + w = i * w
      OBVIOUS
    <3>2. (i - 1) * w \in Int /\ i * w \in Int
      OBVIOUS
    <3> QED
      BY <3>1, <3>2
  <2> QED
    BY <2>1, <2>2, <2>3
<1> HIDE DEF T
<1>3. \A i \in 0 .. n : i \in T
  BY <1>1, <1>2, UpTo
<1>4. n \in T
  BY <1>3, n \in 0 .. n
<1> QED
  BY <1>4 DEF T

\* The fields of a player, and those of a coin.
LEMMA Six ==
  ASSUME Sizes, NEW k \in Nat, NEW at \in [0 .. k -> Nat],
         NEW p \in Nat, p + 6 <= k,
         \A j \in 1 .. 6 : at[p + j] = at[(p + j) - 1] + WORD
  PROVE  at[p + 6] = at[p] + 6 * WORD
<1>1. /\ at[p + 1] = at[(p + 1) - 1] + WORD /\ at[p + 2] = at[(p + 2) - 1] + WORD
      /\ at[p + 3] = at[(p + 3) - 1] + WORD /\ at[p + 4] = at[(p + 4) - 1] + WORD
      /\ at[p + 5] = at[(p + 5) - 1] + WORD /\ at[p + 6] = at[(p + 6) - 1] + WORD
  OBVIOUS
<1>2. /\ (p + 1) - 1 = p /\ (p + 2) - 1 = p + 1 /\ (p + 3) - 1 = p + 2
      /\ (p + 4) - 1 = p + 3 /\ (p + 5) - 1 = p + 4 /\ (p + 6) - 1 = p + 5
      /\ p \in 0 .. k
  OBVIOUS
<1>3. PICK a \in Nat : a = at[p]
  BY <1>2
<1>w. PICK w \in Nat : w = WORD
  BY DEF Sizes
<1>4. at[p + 1] = a + w /\ at[p + 2] = (a + w) + w
        /\ at[p + 3] = ((a + w) + w) + w
  BY <1>1, <1>2, <1>3, <1>w
<1>5. at[p + 4] = (((a + w) + w) + w) + w
        /\ at[p + 5] = ((((a + w) + w) + w) + w) + w
        /\ at[p + 6] = (((((a + w) + w) + w) + w) + w) + w
  BY <1>1, <1>2, <1>4, <1>w
<1>6. (((((a + w) + w) + w) + w) + w) + w = a + 6 * w
  BY ONLY a \in Nat, w \in Nat
<1> QED
  BY ONLY <1>3, <1>5, <1>6, <1>w

LEMMA Four ==
  ASSUME Sizes, NEW k \in Nat, NEW at \in [0 .. k -> Nat],
         NEW p \in Nat, p + 4 <= k,
         \A j \in 1 .. 4 : at[p + j] = at[(p + j) - 1] + CoinFields[j]
  PROVE  at[p + 4] = at[p] + (3 * WORD + 1)
<1>1. /\ at[p + 1] = at[(p + 1) - 1] + WORD /\ at[p + 2] = at[(p + 2) - 1] + WORD
      /\ at[p + 3] = at[(p + 3) - 1] + WORD /\ at[p + 4] = at[(p + 4) - 1] + 1
  BY DEF CoinFields
<1>2. /\ (p + 1) - 1 = p /\ (p + 2) - 1 = p + 1 /\ (p + 3) - 1 = p + 2
      /\ (p + 4) - 1 = p + 3 /\ p \in 0 .. k
  OBVIOUS
<1>3. PICK a \in Nat : a = at[p]
  BY <1>2
<1>4. at[p + 4] = (((a + WORD) + WORD) + WORD) + 1
  BY <1>1, <1>2, <1>3
<1>5. (((a + WORD) + WORD) + WORD) + 1 = a + (3 * WORD + 1)
  <2>1. PICK w \in Nat : w = WORD
    BY DEF Sizes
  <2>2. (((a + w) + w) + w) + 1 = a + (3 * w + 1)
    BY ONLY a \in Nat, w \in Nat
  <2> QED
    BY ONLY <2>1, <2>2
<1> QED
  BY ONLY <1>3, <1>4, <1>5

\* The size written in a world state's header is what its fields take up.
LEMMA LengthOfWorld ==
  ASSUME Sizes, NEW tick \in Nat, NEW players \in Seq([1 .. 6 -> Nat]),
         NEW coins \in Seq([1 .. 4 -> Nat]), NEW n \in Nat, NEW m \in Nat,
         Len(players) = n, Len(coins) = m
  PROVE  /\ WorldBody(tick, players, coins, n, m) \in Seq(Bytes)
         /\ Len(WorldBody(tick, players, coins, n, m)) = WorldSize(n, m)
         /\ WorldSize(n, m) \in Nat
<1> DEFINE w == WorldFields(n, m)
           v == WorldValues(tick, players, coins)
           body == WorldBody(tick, players, coins, n, m)
<1>k. PICK k \in Nat : k = 3 + 6 * n + 4 * m
  OBVIOUS
<1>W. WORD \in Nat
  BY DEF Sizes
<1>1. v \in Seq(Nat) /\ Len(v) = k
  BY <1>k, WorldValuesAre
<1>2. w \in [1 .. k -> Nat]
  <2>1. w \in Seq(Nat) /\ Len(w) = k
    BY <1>k, WorldFieldsType
  <2> HIDE DEF w
  <2> QED
    BY <2>1, LenProperties
<1>3. body = WriteAll(w, v)
  BY DEF WorldBody
<1>4. /\ w[1] = WORD /\ w[2] = 1 /\ w[3 + 6 * n] = 1
      /\ \A i \in 1 .. n : \A j \in 1 .. 6 : w[2 + (6 * (i - 1) + j)] = WORD
      /\ \A i \in 1 .. m : \A j \in 1 .. 4 :
           w[3 + 6 * n + (4 * (i - 1) + j)] = CoinFields[j]
  BY WidthsAre
<1> HIDE DEF w, v, body
<1>5. body \in Seq(Bytes)
  BY <1>1, <1>2, <1>3, WriteAllBytes
<1>6. PICK at \in [0 .. k -> Nat] :
        /\ at[0] = 0
        /\ \A i \in 1 .. k : at[i] = at[i - 1] + w[i]
        /\ Len(body) = at[k]
  <2>1. \E at \in [0 .. k -> Nat] :
          /\ at[0] = 0
          /\ \A i \in 1 .. k : at[i] = at[i - 1] + w[i]
          /\ Len(WriteAll(w, v)) = at[k]
    BY ONLY <1>1, <1>2, Sizes, k \in Nat, WriteAllLays
  <2> QED
    BY ONLY <1>3, <2>1
<1>7. at[2] = WORD + 1
  <2>1. 1 \in 1 .. k /\ 2 \in 1 .. k /\ 1 - 1 = 0 /\ 2 - 1 = 1
    BY <1>k
  <2>2. at[1] = at[0] + w[1] /\ at[2] = at[1] + w[2]
    BY ONLY <1>6, <2>1
  <2> QED
    BY ONLY <1>W, <1>4, <1>6, <2>2
<1>8. at[2 + 6 * n] = at[2] + n * (6 * WORD)
  <2> DEFINE f == [i \in 0 .. n |-> at[2 + 6 * i]]
  <2>1. f \in [0 .. n -> Nat]
    <3> SUFFICES ASSUME NEW i \in 0 .. n PROVE at[2 + 6 * i] \in Nat
      OBVIOUS
    <3>1. 2 + 6 * i \in 0 .. k
      BY <1>k
    <3> QED
      BY <3>1
  <2>2. ASSUME NEW i \in 1 .. n PROVE f[i] = f[i - 1] + 6 * WORD
    <3>1. PICK p \in Nat : p = 2 + 6 * (i - 1) /\ p + 6 <= k
      BY <1>k
    <3>2. ASSUME NEW j \in 1 .. 6
          PROVE  p + j \in 1 .. k /\ at[p + j] = at[(p + j) - 1] + WORD
      <4>1. p + j = 2 + (6 * (i - 1) + j)
        BY ONLY <3>1, i \in 1 .. n, n \in Nat, j \in 1 .. 6
      <4>2. w[p + j] = WORD
        BY ONLY <1>4, <4>1, i \in 1 .. n, j \in 1 .. 6
      <4>3. p + j \in 1 .. k
        BY ONLY <3>1, k \in Nat, j \in 1 .. 6
      <4> QED
        BY ONLY <1>6, <4>2, <4>3
    <3>6. at[p + 6] = at[p] + 6 * WORD
      <4>1. \A j \in 1 .. 6 : at[p + j] = at[(p + j) - 1] + WORD
        BY ONLY <3>2
      <4>2. p + 6 <= k
        BY ONLY <3>1
      <4> QED
        BY ONLY Sizes, at \in [0 .. k -> Nat], p \in Nat, <4>1, <4>2,
                k \in Nat, Six
    <3>7. f[i - 1] = at[p] /\ f[i] = at[p + 6]
      <4>1. i - 1 \in 0 .. n /\ i \in 0 .. n /\ 2 + 6 * i = p + 6
        BY <3>1
      <4> QED
        BY <3>1, <4>1
    <3> QED
      BY <3>6, <3>7
  <2>3. f[0] = at[2] /\ f[n] = at[2 + 6 * n]
    BY 0 \in 0 .. n, n \in 0 .. n
  <2> HIDE DEF f
  <2>4. 6 * WORD \in Nat
    BY <1>W
  <2>5. f[n] = f[0] + n * (6 * WORD)
    BY <2>1, <2>2, <2>4, StepsAdd
  <2> QED
    BY <2>3, <2>5
<1>9. at[3 + 6 * n] = at[2 + 6 * n] + 1
  <2>1. 3 + 6 * n \in 1 .. k /\ (3 + 6 * n) - 1 = 2 + 6 * n
    BY <1>k
  <2> QED
    BY <1>4, <1>6, <2>1
<1>10. at[k] = at[3 + 6 * n] + m * (3 * WORD + 1)
  <2> DEFINE f == [i \in 0 .. m |-> at[3 + 6 * n + 4 * i]]
  <2>1. f \in [0 .. m -> Nat]
    <3> SUFFICES ASSUME NEW i \in 0 .. m PROVE at[3 + 6 * n + 4 * i] \in Nat
      OBVIOUS
    <3>1. 3 + 6 * n + 4 * i \in 0 .. k
      BY <1>k
    <3> QED
      BY <3>1
  <2>2. ASSUME NEW i \in 1 .. m PROVE f[i] = f[i - 1] + (3 * WORD + 1)
    <3>1. PICK p \in Nat : p = 3 + 6 * n + 4 * (i - 1) /\ p + 4 <= k
      BY <1>k
    <3>2. ASSUME NEW j \in 1 .. 4
          PROVE  p + j \in 1 .. k /\ at[p + j] = at[(p + j) - 1] + CoinFields[j]
      <4>1. p + j = 3 + 6 * n + (4 * (i - 1) + j)
        BY ONLY <3>1, i \in 1 .. m, n \in Nat, m \in Nat, j \in 1 .. 4
      <4>2. w[p + j] = CoinFields[j]
        BY ONLY <1>4, <4>1, i \in 1 .. m, j \in 1 .. 4
      <4>3. p + j \in 1 .. k
        BY ONLY <3>1, k \in Nat, j \in 1 .. 4
      <4> QED
        BY ONLY <1>6, <4>2, <4>3
    <3>6. at[p + 4] = at[p] + (3 * WORD + 1)
      <4>1. \A j \in 1 .. 4 : at[p + j] = at[(p + j) - 1] + CoinFields[j]
        BY ONLY <3>2
      <4> QED
        BY ONLY Sizes, <1>6, <3>1, <4>1, k \in Nat, Four
    <3>7. f[i - 1] = at[p] /\ f[i] = at[p + 4]
      <4>1. i - 1 \in 0 .. m /\ i \in 0 .. m /\ 3 + 6 * n + 4 * i = p + 4
        BY <3>1
      <4> QED
        BY <3>1, <4>1
    <3> QED
      BY <3>6, <3>7
  <2>3. f[0] = at[3 + 6 * n] /\ f[m] = at[k]
    <3>1. 3 + 6 * n + 4 * 0 = 3 + 6 * n
      OBVIOUS
    <3> QED
      BY <1>k, <3>1, 0 \in 0 .. m, m \in 0 .. m
  <2> HIDE DEF f
  <2>4. 3 * WORD + 1 \in Nat
    BY <1>W
  <2>5. f[m] = f[0] + m * (3 * WORD + 1)
    BY <2>1, <2>2, <2>4, StepsAdd
  <2> QED
    BY <2>3, <2>5
<1>11. Len(body) = WorldSize(n, m)
  <2>1. PICK a \in Nat, b \in Nat :
          a = n * (6 * WORD) /\ b = m * (3 * WORD + 1)
    BY <1>W
  <2>2. n * 6 * WORD = a
    BY <1>W, <2>1
  <2>3. Len(body) = (((WORD + 1) + a) + 1) + b
    BY <1>6, <1>7, <1>8, <1>9, <1>10, <2>1
  <2> QED
    BY <1>W, <2>1, <2>2, <2>3 DEF WorldSize
<1>12. WorldSize(n, m) \in Nat
  BY <1>5, <1>11, LenProperties
<1> QED
  BY <1>5, <1>11, <1>12 DEF body

\* A packet of bytes whose header holds the size of what follows it, if two
\* bytes have room for that.
IsFramed(packet) ==
  /\ packet \in Seq(Bytes) /\ Len(packet) >= HeaderSize
  /\ Fits(2, Len(packet) - HeaderSize) =>
       packet[HeaderSize - 1] + BYTE * packet[HeaderSize]
         = Len(packet) - HeaderSize

LEMMA HeaderFrames ==
  ASSUME Sizes, NEW type \in Nat, NEW seq \in Nat, NEW size \in Nat,
         NEW body \in Seq(Bytes), Len(body) = size
  PROVE  IsFramed(Header(type, seq, size) \o body)
<1> DEFINE h == Header(type, seq, size)
           packet == h \o body
<1>1. /\ h \in Seq(Bytes) /\ Len(h) = HeaderSize
      /\ Fits(2, size) => h[HeaderSize - 1] + BYTE * h[HeaderSize] = size
  BY HeaderSays
<1>2. HeaderSize \in Nat /\ HeaderSize - 1 \in 1 .. HeaderSize
        /\ HeaderSize \in 1 .. HeaderSize
  BY DEF HeaderSize, Sizes
<1> HIDE DEF h
<1>3. /\ packet \in Seq(Bytes)
      /\ Len(packet) = Len(h) + Len(body)
      /\ \A i \in 1 .. Len(h) + Len(body) : packet[i] =
            IF i <= Len(h) THEN h[i] ELSE body[i - Len(h)]
  BY <1>1, ConcatProperties
<1> HIDE DEF packet
<1>4. Len(packet) - HeaderSize = size /\ Len(packet) >= HeaderSize
  BY <1>1, <1>2, <1>3
<1>5. packet[HeaderSize - 1] = h[HeaderSize - 1] /\ packet[HeaderSize] = h[HeaderSize]
  <2>1. HeaderSize - 1 \in 1 .. Len(h) + Len(body)
          /\ HeaderSize \in 1 .. Len(h) + Len(body)
    BY <1>1, <1>2
  <2> QED
    BY <1>1, <1>2, <1>3, <2>1
<1> QED
  BY <1>1, <1>3, <1>4, <1>5 DEF IsFramed, packet, h

\* Every message is written as a packet that says how long it is, as long as two
\* bytes can: the sizes writeHeader is called with are those of what follows.
THEOREM MessageIsFramed ==
  ASSUME Sizes, NEW msg \in Message
  PROVE  IsFramed(Serialize(msg))
<1>0. /\ Handshake \in Nat /\ Input \in Nat /\ World \in Nat /\ 0 \in Nat
      /\ WORD \in Nat /\ 4 \in Nat
  BY DEF Handshake, Input, World, Sizes
<1>1. CASE msg \in [kind : {"hello"}]
  <2>1. Serialize(msg) = Header(Handshake, 0, 0)
    BY <1>1 DEF Serialize
  <2>2. <<>> \in Seq(Bytes) /\ Len(<<>>) = 0
    OBVIOUS
  <2>3. IsFramed(Header(Handshake, 0, 0) \o <<>>)
    BY <1>0, <2>2, HeaderFrames
  <2>4. Header(Handshake, 0, 0) \o <<>> = Header(Handshake, 0, 0)
    BY <1>0, HeaderSays, ConcatEmptySeq
  <2> QED
    BY <2>1, <2>3, <2>4
<1>2. CASE msg \in [kind : {"welcome"}, id : Nat]
  <2>1. PICK id \in Nat : id = msg.id
    BY <1>2
  <2>2. Serialize(msg) = Header(Handshake, 0, WORD) \o Write(WORD, id)
    BY <1>2, <2>1 DEF Serialize
  <2>3. Write(WORD, id) \in Seq(Bytes) /\ Len(Write(WORD, id)) = WORD
    BY <1>0, WriteBytes
  <2> QED
    BY <1>0, <2>2, <2>3, HeaderFrames
<1>3. CASE msg \in [kind : {"input"}, seq : Nat, keys : [1 .. 4 -> {0, 1}]]
  <2>1. PICK seq \in Nat, keys \in [1 .. 4 -> {0, 1}] :
          seq = msg.seq /\ keys = msg.keys
    BY <1>3
  <2>2. Serialize(msg) = Header(Input, seq, 4) \o WriteAll(KeyFields, keys)
    BY <1>3, <2>1 DEF Serialize
  <2>3. /\ WriteAll(KeyFields, keys) \in Seq(Bytes)
        /\ Len(WriteAll(KeyFields, keys)) = 4
    <3>1. PICK n \in Nat : n = 4
      OBVIOUS
    <3>2. /\ KeyFields \in [1 .. n -> Nat] /\ \A i \in 1 .. n : KeyFields[i] = 1
          /\ keys \in Seq(Nat) /\ Len(keys) = n
      <4>1. keys \in [1 .. n -> Nat]
        BY <3>1
      <4>2. keys \in Seq(Nat) /\ Len(keys) = n
        BY <4>1
      <4> QED
        BY <3>1, <4>2 DEF KeyFields
    <3>3. WriteAll(KeyFields, keys) \in Seq(Bytes)
      BY <3>2, WriteAllBytes
    <3>4. PICK at \in [0 .. n -> Nat] :
            /\ at[0] = 0
            /\ \A i \in 1 .. n : at[i] = at[i - 1] + KeyFields[i]
            /\ Len(WriteAll(KeyFields, keys)) = at[n]
      BY <3>2, WriteAllLays
    <3>5. at[1] = 0 + 1 /\ at[2] = at[1] + 1 /\ at[3] = at[2] + 1
            /\ at[4] = at[3] + 1
      BY <3>1, <3>2, <3>4
    <3> QED
      BY <3>1, <3>3, <3>4, <3>5
  <2> QED
    BY <1>0, <2>2, <2>3, HeaderFrames
<1>4. CASE msg \in [kind : {"world"}, tick : Nat, players : Seq([1 .. 6 -> Nat]),
                    coins : Seq([1 .. 4 -> Nat])]
  <2>1. PICK tick \in Nat, players \in Seq([1 .. 6 -> Nat]),
             coins \in Seq([1 .. 4 -> Nat]) :
          tick = msg.tick /\ players = msg.players /\ coins = msg.coins
    BY <1>4
  <2>2. PICK n \in Nat, m \in Nat : n = Len(players) /\ m = Len(coins)
    BY LenProperties
  <2>3. Serialize(msg) = Header(World, tick, WorldSize(n, m))
                           \o WorldBody(tick, players, coins, n, m)
    BY <1>4, <2>1, <2>2 DEF Serialize, SerializeWorldState, WorldBody
  <2>4. /\ WorldBody(tick, players, coins, n, m) \in Seq(Bytes)
        /\ Len(WorldBody(tick, players, coins, n, m)) = WorldSize(n, m)
        /\ WorldSize(n, m) \in Nat
    BY <2>2, LengthOfWorld
  <2> QED
    BY <1>0, <2>3, <2>4, HeaderFrames
<1> QED
  BY <1>1, <1>2, <1>3, <1>4 DEF Message

=============================================================================
