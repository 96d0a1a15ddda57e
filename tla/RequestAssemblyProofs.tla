------------------------ MODULE RequestAssemblyProofs ------------------------
(***************************************************************************)
(* Proofs that the request object says what the stream says, for every     *)
(* stream, every size of the buffers and every way to cut the stream.      *)
(*                                                                         *)
(* What Bytes computes needs no induction: the positions of a finite set   *)
(* are counted from below, and counting is an injection into 1..n, hence   *)
(* onto it. From this follows what one callback adds to Parse.             *)
(***************************************************************************)
EXTENDS RequestAssembly, FiniteSetTheorems, SequenceTheorems, TLAPS

\* The positions up to i.
Upto(P, i) == {j \in P : j <= i}

\* Counting is strictly monotonic.
LEMMA CountStrict ==
  ASSUME NEW P \in SUBSET Int, IsFiniteSet(P), NEW i \in P, NEW k \in P, i < k
  PROVE  Cardinality(Upto(P, i)) < Cardinality(Upto(P, k))
<1>1. Upto(P, i) \subseteq Upto(P, k) /\ Upto(P, i) # Upto(P, k)
  <2>1. k \in Upto(P, k) /\ k \notin Upto(P, i)
    BY DEF Upto
  <2>2. \A j \in P : j <= i => j <= k
    OBVIOUS
  <2> QED
    BY <2>1, <2>2 DEF Upto
<1>2. IsFiniteSet(Upto(P, k))
  BY FS_Subset DEF Upto
<1>3. /\ Cardinality(Upto(P, i)) <= Cardinality(Upto(P, k))
      /\ Cardinality(Upto(P, i)) # Cardinality(Upto(P, k))
  BY <1>1, <1>2, FS_Subset
<1>4. Cardinality(Upto(P, i)) \in Nat /\ Cardinality(Upto(P, k)) \in Nat
  BY <1>1, <1>2, FS_Subset, FS_CardinalityType
<1> QED
  BY <1>3, <1>4

\* The count at a position of P is one of 1..Cardinality(P).
LEMMA CountRange ==
  ASSUME NEW P \in SUBSET Int, IsFiniteSet(P), NEW i \in P
  PROVE  Cardinality(Upto(P, i)) \in 1..Cardinality(P)
<1>1. Upto(P, i) \subseteq P /\ i \in Upto(P, i)
  BY DEF Upto
<1>2. IsFiniteSet(Upto(P, i)) /\ Cardinality(Upto(P, i)) <= Cardinality(P)
  BY <1>1, FS_Subset
<1>3. Cardinality(Upto(P, i)) \in Nat /\ Cardinality(P) \in Nat
  BY <1>2, FS_CardinalityType
<1>4. Cardinality(Upto(P, i)) # 0
  BY <1>1, <1>2, FS_EmptySet
<1> QED
  BY <1>2, <1>3, <1>4

\* The n-th position exists, and n positions are not above it.
LEMMA NthProperties ==
  ASSUME NEW P \in SUBSET Int, IsFiniteSet(P), NEW n \in 1..Cardinality(P)
  PROVE  Nth(P, n) \in P /\ Cardinality(Upto(P, Nth(P, n))) = n
<1> DEFINE f == [i \in P |-> Cardinality(Upto(P, i))]
<1> HIDE DEF f
<1>1. f \in [P -> 1..Cardinality(P)]
  BY CountRange DEF f
<1>2. ASSUME NEW i \in P, NEW k \in P, f[i] = f[k]
      PROVE  i = k
  <2>1. CASE i < k
    BY <1>2, <2>1, CountStrict, CountRange DEF f
  <2>2. CASE k < i
    BY <1>2, <2>2, CountStrict, CountRange DEF f
  <2> QED
    BY <2>1, <2>2
<1>3. f \in Injection(P, 1..Cardinality(P))
  BY <1>1, <1>2 DEF Injection, IsInjective
<1>4. /\ Cardinality(P) \in Nat
      /\ IsFiniteSet(1..Cardinality(P))
      /\ Cardinality(1..Cardinality(P)) = Cardinality(P)
  BY FS_CardinalityType, FS_Interval
<1>5. f \in Surjection(P, 1..Cardinality(P))
  BY <1>3, <1>4, FS_Injection
<1>6. PICK i \in P : f[i] = n
  BY <1>5 DEF Surjection
<1>7. \E k \in P : Cardinality({j \in P : j <= k}) = n
  BY <1>6 DEF f, Upto
<1> QED
  BY <1>7 DEF Nth, Upto

\* A position is the one of its count.
LEMMA NthOfCount ==
  ASSUME NEW P \in SUBSET Int, IsFiniteSet(P), NEW i \in P, NEW n,
         Cardinality(Upto(P, i)) = n
  PROVE  Nth(P, n) = i
<1>1. n \in 1..Cardinality(P)
  BY CountRange
<1>2. Cardinality(P) \in Nat
  BY FS_CardinalityType
<1>3. PICK k \in P : k = Nth(P, n) /\ Cardinality(Upto(P, k)) = n
  BY <1>1, NthProperties
<1>4. ~(k < i) /\ ~(i < k)
  BY <1>1, <1>2, <1>3, CountStrict
<1> QED
  BY <1>3, <1>4

\* A finite set of positions has a greatest one.
LEMMA GreatestExists ==
  ASSUME NEW P \in SUBSET Int, IsFiniteSet(P), P # {}
  PROVE  \E i \in P : \A j \in P : j <= i
<1>1. Cardinality(P) \in Nat /\ Cardinality(P) # 0
  BY FS_CardinalityType, FS_EmptySet
<1> DEFINE i == Nth(P, Cardinality(P))
<1>2. i \in P /\ Cardinality(Upto(P, i)) = Cardinality(P)
  BY <1>1, NthProperties
<1>3. Upto(P, i) = P
  BY <1>2, FS_Subset DEF Upto
<1> QED
  BY <1>2, <1>3 DEF Upto

\* Positions behind all others are counted after them.
LEMMA NthExtend ==
  ASSUME NEW P \in SUBSET Int, IsFiniteSet(P), NEW Q \in SUBSET Int, IsFiniteSet(Q),
         \A p \in P, q \in Q : p < q
  PROVE  /\ IsFiniteSet(P \cup Q)
         /\ Cardinality(P \cup Q) = Cardinality(P) + Cardinality(Q)
         /\ \A n \in 1..Cardinality(P) : Nth(P \cup Q, n) = Nth(P, n)
         /\ \A n \in 1..Cardinality(Q) :
              Nth(P \cup Q, Cardinality(P) + n) = Nth(Q, n)
<1>0. Cardinality(P) \in Nat /\ Cardinality(Q) \in Nat
  BY FS_CardinalityType
<1>1. P \cap Q = {}
  <2>1. \A p \in P : \A q \in Q : p # q
    OBVIOUS
  <2> QED
    BY <2>1
<1>2. IsFiniteSet(P \cup Q) /\ Cardinality(P \cup Q) = Cardinality(P) + Cardinality(Q)
  <2>1. /\ IsFiniteSet(P \cup Q)
        /\ Cardinality(P \cup Q)
             = Cardinality(P) + Cardinality(Q) - Cardinality(P \cap Q)
    BY FS_Union
  <2>2. Cardinality(P \cap Q) = 0
    BY <1>1, FS_EmptySet
  <2> QED
    BY <1>0, <2>1, <2>2
<1>3. ASSUME NEW n \in 1..Cardinality(P)
      PROVE  Nth(P \cup Q, n) = Nth(P, n)
  <2>1. Nth(P, n) \in P /\ Cardinality(Upto(P, Nth(P, n))) = n
    BY NthProperties
  <2>2. Upto(P \cup Q, Nth(P, n)) = Upto(P, Nth(P, n))
    <3>1. PICK i \in P : i = Nth(P, n)
      BY <2>1
    <3>2. \A q \in Q : i < q
      OBVIOUS
    <3>3. \A q \in Q : ~(q <= i)
      BY <3>2
    <3> QED
      BY <3>1, <3>3 DEF Upto
  <2> QED
    BY <1>2, <2>1, <2>2, NthOfCount
<1>4. ASSUME NEW n \in 1..Cardinality(Q)
      PROVE  Nth(P \cup Q, Cardinality(P) + n) = Nth(Q, n)
  <2> DEFINE i == Nth(Q, n)
  <2>1. i \in Q /\ Cardinality(Upto(Q, i)) = n
    BY NthProperties
  <2>2. Upto(P \cup Q, i) = P \cup Upto(Q, i) /\ P \cap Upto(Q, i) = {}
    <3> HIDE DEF i
    <3>1. \A p \in P : p <= i
      BY <2>1
    <3> QED
      BY <1>1, <3>1 DEF Upto
  <2>3. IsFiniteSet(Upto(Q, i))
    BY FS_Subset DEF Upto
  <2>4. Cardinality(Upto(P \cup Q, i)) = Cardinality(P) + n
    <3>1. Cardinality(P \cup Upto(Q, i))
            = Cardinality(P) + Cardinality(Upto(Q, i)) - Cardinality(P \cap Upto(Q, i))
      BY <2>3, FS_Union
    <3> HIDE DEF i
    <3>2. Cardinality(P \cap Upto(Q, i)) = 0
      BY <2>2, FS_EmptySet
    <3>3. Cardinality(P \cup Upto(Q, i)) = Cardinality(P) + n
      BY <1>0, <2>1, <3>1, <3>2
    <3> QED
      BY <2>2, <3>3
  <2>5. i \in P \cup Q
    BY <2>1
  <2> HIDE DEF i
  <2>6. Nth(P \cup Q, Cardinality(P) + n) = i
    BY <1>2, <2>4, <2>5, NthOfCount
  <2> QED
    BY <2>6 DEF i
<1> QED
  BY <1>2, <1>3, <1>4

\* The n-th position of an interval.
LEMMA NthInterval ==
  ASSUME NEW a \in Int, NEW b \in Int, NEW n \in 1..(b - a + 1)
  PROVE  Nth(a..b, n) = a + n - 1
<1>1. Upto(a..b, a + n - 1) = a..(a + n - 1)
  BY DEF Upto
<1>2. Cardinality(a..(a + n - 1)) = n
  BY FS_Interval
<1>3. IsFiniteSet(a..b) /\ a + n - 1 \in a..b
  BY FS_Interval
<1> QED
  BY <1>1, <1>2, <1>3, NthOfCount

-----------------------------------------------------------------------------

\* The bytes at some positions of a stream are a sequence.
LEMMA BytesType ==
  ASSUME NEW s \in Seq(Symbols), NEW P \in SUBSET DOMAIN s
  PROVE  /\ P \in SUBSET Int /\ IsFiniteSet(P)
         /\ Bytes(s, P) \in Seq(Byte)
         /\ Len(Bytes(s, P)) = Cardinality(P)
         /\ \A n \in 1..Cardinality(P) : Bytes(s, P)[n] = s[Nth(P, n)].byte
<1>1. Len(s) \in Nat /\ DOMAIN s = 1..Len(s) /\ s \in [1..Len(s) -> Symbols]
  BY LenProperties
<1>2. P \in SUBSET Int
  BY <1>1
<1>3. IsFiniteSet(P)
  <2>1. IsFiniteSet(1..Len(s)) /\ P \in SUBSET (1..Len(s))
    BY <1>1, FS_Interval
  <2> QED
    BY <2>1, FS_Subset
<1>4. Cardinality(P) \in Nat
  BY <1>3, FS_CardinalityType
<1>5. \A n \in 1..Cardinality(P) : s[Nth(P, n)].byte \in Byte
  <2> SUFFICES ASSUME NEW n \in 1..Cardinality(P)
               PROVE  s[Nth(P, n)].byte \in Byte
    OBVIOUS
  <2>1. Nth(P, n) \in 1..Len(s)
    BY <1>1, <1>2, <1>3, NthProperties
  <2>2. s[Nth(P, n)] \in Symbols
    BY <1>1, <2>1
  <2> QED
    BY <2>2 DEF Symbols
<1>6. Bytes(s, P) \in [1..Cardinality(P) -> Byte]
  BY <1>5 DEF Bytes
<1>7. Bytes(s, P) \in Seq(Byte)
  BY <1>4, <1>6, SeqDef
<1>8. Len(Bytes(s, P)) = Cardinality(P)
  <2>1. DOMAIN Bytes(s, P) = 1..Cardinality(P)
    BY DEF Bytes
  <2>2. DOMAIN Bytes(s, P) = 1..Len(Bytes(s, P)) /\ Len(Bytes(s, P)) \in Nat
    BY <1>7, LenProperties
  <2> QED
    BY <1>4, <2>1, <2>2
<1> QED
  BY <1>2, <1>3, <1>7, <1>8 DEF Bytes

\* Bytes at later positions come behind.
LEMMA BytesConcat ==
  ASSUME NEW s \in Seq(Symbols), NEW P \in SUBSET DOMAIN s, NEW Q \in SUBSET DOMAIN s,
         \A p \in P, q \in Q : p < q
  PROVE  Bytes(s, P \cup Q) = Bytes(s, P) \o Bytes(s, Q)
<1> DEFINE b == Bytes(s, P)  c == Bytes(s, Q)  d == Bytes(s, P \cup Q)
<1>1. /\ P \in SUBSET Int /\ IsFiniteSet(P)
      /\ b \in Seq(Byte) /\ Len(b) = Cardinality(P)
      /\ \A n \in 1..Cardinality(P) : b[n] = s[Nth(P, n)].byte
  BY BytesType
<1>2. /\ Q \in SUBSET Int /\ IsFiniteSet(Q)
      /\ c \in Seq(Byte) /\ Len(c) = Cardinality(Q)
      /\ \A n \in 1..Cardinality(Q) : c[n] = s[Nth(Q, n)].byte
  BY BytesType
<1>3. /\ d \in Seq(Byte) /\ Len(d) = Cardinality(P \cup Q)
      /\ \A n \in 1..Cardinality(P \cup Q) : d[n] = s[Nth(P \cup Q, n)].byte
  BY BytesType
<1>4. /\ Cardinality(P \cup Q) = Cardinality(P) + Cardinality(Q)
      /\ \A n \in 1..Cardinality(P) : Nth(P \cup Q, n) = Nth(P, n)
      /\ \A n \in 1..Cardinality(Q) :
           Nth(P \cup Q, Cardinality(P) + n) = Nth(Q, n)
  BY <1>1, <1>2, NthExtend
<1>5. Cardinality(P) \in Nat /\ Cardinality(Q) \in Nat
  BY <1>1, <1>2, FS_CardinalityType
<1> HIDE DEF b, c, d
<1>6. /\ b \o c \in Seq(Byte)
      /\ Len(b \o c) = Len(b) + Len(c)
      /\ \A n \in 1..(Len(b) + Len(c)) :
           (b \o c)[n] = IF n <= Len(b) THEN b[n] ELSE c[n - Len(b)]
  BY <1>1, <1>2, ConcatProperties
<1>7. ASSUME NEW n \in 1..Len(d)
      PROVE  d[n] = (b \o c)[n]
  <2>0. /\ n \in Int /\ 1 <= n /\ n <= Cardinality(P) + Cardinality(Q)
        /\ n \in 1..Cardinality(P \cup Q)
        /\ n \in 1..(Len(b) + Len(c))
    BY <1>1, <1>2, <1>3, <1>4, <1>5
  <2>1. CASE n <= Cardinality(P)
    <3>1. n \in 1..Cardinality(P)
      BY <1>5, <2>0, <2>1
    <3>2. d[n] = s[Nth(P, n)].byte
      BY <1>3, <1>4, <2>0, <3>1
    <3>3. (b \o c)[n] = b[n]
      BY <1>1, <1>6, <2>0, <2>1
    <3> QED
      BY <1>1, <3>1, <3>2, <3>3
  <2>2. CASE ~(n <= Cardinality(P))
    <3>1. PICK m \in 1..Cardinality(Q) : n = Cardinality(P) + m
      <4>1. /\ n - Cardinality(P) \in 1..Cardinality(Q)
            /\ n = Cardinality(P) + (n - Cardinality(P))
        BY <1>5, <2>0, <2>2
      <4> QED
        BY <4>1
    <3>2. d[n] = s[Nth(Q, m)].byte
      BY <1>3, <1>4, <2>0, <3>1
    <3>3. (b \o c)[n] = c[m]
      <4>1. n - Len(b) = m
        BY <1>1, <1>5, <3>1
      <4> QED
        BY <1>1, <1>6, <2>0, <2>2, <4>1
    <3> QED
      BY <1>2, <3>1, <3>2, <3>3
  <2> QED
    BY <2>1, <2>2
<1>8. d = b \o c
  BY <1>1, <1>2, <1>3, <1>4, <1>6, <1>7, SeqEqual
<1> QED
  BY <1>8 DEF b, c, d

\* The bytes of an interval are the interval of the bytes.
LEMMA BytesInterval ==
  ASSUME NEW s \in Seq(Symbols), NEW a \in Int, NEW b \in Int,
         a..b \subseteq DOMAIN s, a <= b
  PROVE  Bytes(s, a..b) = [i \in 1..(b - a + 1) |-> s[a + i - 1].byte]
<1>1. Cardinality(a..b) = b - a + 1
  BY FS_Interval
<1>2. \A n \in 1..(b - a + 1) : Nth(a..b, n) = a + n - 1
  BY NthInterval
<1> QED
  BY <1>1, <1>2 DEF Bytes

\* Nothing is at no position.
LEMMA BytesNone ==
  ASSUME NEW s
  PROVE  Bytes(s, {}) = <<>>
BY FS_EmptySet DEF Bytes

-----------------------------------------------------------------------------

\* What the parser consumes when it goes from m to n without the end of a line
\* belongs to the line that was unfinished at m.
LEMMA LineExtend ==
  ASSUME NEW s, NEW m \in Nat, NEW n \in Nat, m <= n,
         \A i \in (m + 1)..n : s[i].kind # "line"
  PROVE  Line(s, 1..n, n + 1) = Line(s, 1..m, m + 1) \cup ((m + 1)..n)
<1>1. ASSUME NEW j \in Line(s, 1..n, n + 1)
      PROVE  j \in Line(s, 1..m, m + 1) \cup ((m + 1)..n)
  <2>1. j \in 1..n /\ \A i \in j..n : s[i].kind # "line"
    BY DEF Line
  <2>2. CASE j <= m
    <3>1. j \in 1..m /\ j < m + 1 /\ \A i \in j..m : s[i].kind # "line"
      BY <2>1, <2>2
    <3> QED
      BY <3>1 DEF Line
  <2> QED
    BY <2>1, <2>2
<1>2. ASSUME NEW j \in Line(s, 1..m, m + 1)
      PROVE  j \in Line(s, 1..n, n + 1)
  <2>1. j \in 1..m /\ \A i \in j..m : s[i].kind # "line"
    BY DEF Line
  <2>2. j \in 1..n /\ j < n + 1 /\ \A i \in j..n : s[i].kind # "line"
    BY <2>1
  <2> QED
    BY <2>2 DEF Line
<1>3. ASSUME NEW j \in (m + 1)..n
      PROVE  j \in Line(s, 1..n, n + 1)
  <2>1. j \in 1..n /\ j < n + 1 /\ \A i \in j..n : s[i].kind # "line"
    OBVIOUS
  <2> QED
    BY <2>1 DEF Line
<1> QED
  BY <1>1, <1>2, <1>3

\* A finished line is the same whatever follows it.
LEMMA LineKept ==
  ASSUME NEW s, NEW m \in Nat, NEW n \in Nat, m <= n, NEW i \in 1..(m + 1)
  PROVE  /\ Line(s, 1..n, i) = Line(s, 1..m, i)
         /\ Name(s, 1..n, i) = Name(s, 1..m, i)
         /\ Value(s, 1..n, i) = Value(s, 1..m, i)
<1>1. \A j : j \in 1..n /\ j < i <=> j \in 1..m /\ j < i
  OBVIOUS
<1>2. Line(s, 1..n, i) = Line(s, 1..m, i)
  BY <1>1 DEF Line
<1> QED
  BY <1>2 DEF Name, Value

\* Of the lines with one name one is the last.
LEMMA LastLineExists ==
  ASSUME NEW s, NEW m \in Nat, NEW name, Lines(s, 1..m, name) # {}
  PROVE  LastLine(s, 1..m, name) \in Lines(s, 1..m, name)
<1>1. Lines(s, 1..m, name) \in SUBSET (1..m) /\ IsFiniteSet(1..m)
  BY FS_Interval DEF Lines, Of
<1>2. IsFiniteSet(Lines(s, 1..m, name)) /\ Lines(s, 1..m, name) \in SUBSET Int
  BY <1>1, FS_Subset
<1>3. \E i \in Lines(s, 1..m, name) : \A j \in Lines(s, 1..m, name) : j <= i
  BY <1>2, GreatestExists
<1> QED
  BY <1>3 DEF LastLine

\* Without the end of a line there is no new header.
LEMMA HeadersKept ==
  ASSUME NEW s, NEW m \in Nat, NEW n \in Nat, m <= n,
         \A i \in (m + 1)..n : s[i].kind # "line"
  PROVE  Headers(s, 1..n) = Headers(s, 1..m)
<1>1. Of(s, "line", 1..n) = Of(s, "line", 1..m)
  <2>1. \A i \in 1..n : s[i].kind = "line" => i \in 1..m
    OBVIOUS
  <2> QED
    BY <2>1 DEF Of
<1>2. \A i \in Of(s, "line", 1..m) :
        /\ Name(s, 1..n, i) = Name(s, 1..m, i)
        /\ Value(s, 1..n, i) = Value(s, 1..m, i)
  BY LineKept DEF Of
<1>3. {Name(s, 1..n, i) : i \in Of(s, "line", 1..n)}
        = {Name(s, 1..m, i) : i \in Of(s, "line", 1..m)}
  BY <1>1, <1>2
<1>4. \A name : Lines(s, 1..n, name) = Lines(s, 1..m, name)
  BY <1>1, <1>2 DEF Lines
<1>5. \A name : LastLine(s, 1..n, name) = LastLine(s, 1..m, name)
  BY <1>4 DEF LastLine
<1>6. ASSUME NEW name \in {Name(s, 1..m, i) : i \in Of(s, "line", 1..m)}
      PROVE  Value(s, 1..n, LastLine(s, 1..n, name))
               = Value(s, 1..m, LastLine(s, 1..m, name))
  <2>1. LastLine(s, 1..m, name) \in Of(s, "line", 1..m)
    <3>1. Lines(s, 1..m, name) # {}
      BY DEF Lines
    <3> QED
      BY <3>1, LastLineExists DEF Lines
  <2> QED
    BY <1>2, <1>5, <2>1
<1> QED
  BY <1>3, <1>6 DEF Headers

\* The end of a line assigns its value to its name, whatever was there.
LEMMA HeadersLine ==
  ASSUME NEW s, NEW m \in Nat, s[m + 1].kind = "line"
  PROVE  Headers(s, 1..(m + 1))
           = Assigned(Headers(s, 1..m), Name(s, 1..m, m + 1), Value(s, 1..m, m + 1))
<1> DEFINE key == Name(s, 1..m, m + 1)
           value == Value(s, 1..m, m + 1)
           names == {Name(s, 1..m, i) : i \in Of(s, "line", 1..m)}
<1>1. /\ Of(s, "line", 1..(m + 1)) = Of(s, "line", 1..m) \cup {m + 1}
      /\ m + 1 \notin Of(s, "line", 1..m)
  <2>1. 1..(m + 1) = (1..m) \cup {m + 1} /\ m + 1 \notin 1..m
    OBVIOUS
  <2> QED
    BY <2>1 DEF Of
<1>2. \A i \in Of(s, "line", 1..(m + 1)) :
        /\ Name(s, 1..(m + 1), i) = Name(s, 1..m, i)
        /\ Value(s, 1..(m + 1), i) = Value(s, 1..m, i)
  BY LineKept DEF Of
<1>3. {Name(s, 1..(m + 1), i) : i \in Of(s, "line", 1..(m + 1))} = names \cup {key}
  BY <1>1, <1>2
<1>4. LastLine(s, 1..(m + 1), key) = m + 1
  <2>1. m + 1 \in Lines(s, 1..(m + 1), key)
    BY <1>1, <1>2 DEF Lines
  <2>2. \A i \in Lines(s, 1..(m + 1), key) : i \in Int /\ i <= m + 1
    BY DEF Lines, Of
  <2>3. \A i \in Lines(s, 1..(m + 1), key) :
          (\A j \in Lines(s, 1..(m + 1), key) : j <= i) => i = m + 1
    BY <2>1, <2>2
  <2> HIDE DEF key
  <2> QED
    BY <2>1, <2>2, <2>3 DEF LastLine
<1>5. \A name : name # key => Lines(s, 1..(m + 1), name) = Lines(s, 1..m, name)
  BY <1>1, <1>2 DEF Lines
<1>6. ASSUME NEW name \in names \cup {key}
      PROVE  Value(s, 1..(m + 1), LastLine(s, 1..(m + 1), name))
               = IF name = key THEN value
                 ELSE Value(s, 1..m, LastLine(s, 1..m, name))
  <2>1. CASE name = key
    BY <1>1, <1>2, <1>4, <2>1
  <2>2. CASE name # key
    <3>1. Lines(s, 1..(m + 1), name) = Lines(s, 1..m, name)
      BY <1>5, <2>2
    <3>2. LastLine(s, 1..(m + 1), name) = LastLine(s, 1..m, name)
      BY <3>1 DEF LastLine
    <3>3. Lines(s, 1..m, name) # {}
      BY <2>2 DEF Lines
    <3>4. LastLine(s, 1..m, name) \in Lines(s, 1..m, name)
      BY <3>3, LastLineExists
    <3>5. LastLine(s, 1..m, name) \in Of(s, "line", 1..(m + 1))
      BY <1>1, <3>4 DEF Lines
    <3> QED
      BY <1>2, <2>2, <3>2, <3>5
  <2> QED
    BY <2>1, <2>2
<1> HIDE DEF key, value, names
<1>7. Headers(s, 1..m) = [name \in names |-> Value(s, 1..m, LastLine(s, 1..m, name))]
  BY DEF Headers, names
<1>8. Headers(s, 1..(m + 1)) =
        [name \in names \cup {key} |->
           Value(s, 1..(m + 1), LastLine(s, 1..(m + 1), name))]
  BY <1>3 DEF Headers
<1>9. Assigned(Headers(s, 1..m), key, value) =
        [name \in names \cup {key} |->
           IF name = key THEN value ELSE Value(s, 1..m, LastLine(s, 1..m, name))]
  BY <1>7 DEF Assigned
<1> QED
  BY <1>6, <1>8, <1>9 DEF key, value

\* The symbols behind m, up to n, and when they are of one kind.
Behind(m, n)        == (m + 1)..n
OneKind(s, kind, I) == \A i \in I : s[i].kind = kind

\* A field, with the new bytes if they are its own.
Added(own, before, new) == IF own THEN before \o new ELSE before

\* A span of one kind adds its bytes to that field, and to no other.
LEMMA FieldExtend ==
  ASSUME NEW s \in Seq(Symbols), NEW n \in 0..Len(s), NEW m \in 0..n, NEW kind,
         OneKind(s, kind, Behind(m, n)), NEW L \in SUBSET (1..m), NEW field
  PROVE  Bytes(s, Of(s, field, L \cup Behind(m, n)))
           = Added(field = kind, Bytes(s, Of(s, field, L)), Bytes(s, Behind(m, n)))
<1>0. Len(s) \in Nat /\ DOMAIN s = 1..Len(s)
  BY LenProperties
<1>1. CASE field = kind
  <2>1. Of(s, field, L \cup Behind(m, n)) = Of(s, field, L) \cup Behind(m, n)
    BY <1>1 DEF Of, OneKind
  <2>2. Of(s, field, L) \subseteq 1..m
    BY DEF Of
  <2>3. 1..m \subseteq 1..Len(s) /\ Behind(m, n) \subseteq 1..Len(s)
    BY <1>0 DEF Behind
  <2>4. \A p \in 1..m, q \in Behind(m, n) : p < q
    BY <1>0 DEF Behind
  <2>5. /\ Of(s, field, L) \in SUBSET DOMAIN s
        /\ Behind(m, n) \in SUBSET DOMAIN s
        /\ \A p \in Of(s, field, L), q \in Behind(m, n) : p < q
    BY <1>0, <2>2, <2>3, <2>4
  <2>6. Bytes(s, Of(s, field, L) \cup Behind(m, n))
          = Bytes(s, Of(s, field, L)) \o Bytes(s, Behind(m, n))
    BY <2>5, BytesConcat
  <2> QED
    BY <1>1, <2>1, <2>6 DEF Added
<1>2. CASE field # kind
  <2>1. Of(s, field, L \cup Behind(m, n)) = Of(s, field, L)
    BY <1>2 DEF Of, OneKind
  <2> QED
    BY <1>2, <2>1 DEF Added
<1> QED
  BY <1>1, <1>2

-----------------------------------------------------------------------------

\* Before anything is parsed the request is empty.
LEMMA ParseNothing ==
  ASSUME NEW s
  PROVE  Parse(s, 1, 0) = EmptyRequest
<1>1. 1..0 = {}
  OBVIOUS
<1>2. /\ \A kind : Of(s, kind, 1..0) = {}
      /\ \A kind : Of(s, kind, Line(s, 1..0, 1)) = {}
  BY <1>1 DEF Of, Line
<1>3. Bytes(s, {}) = <<>>
  BY BytesNone
<1>4. Headers(s, 1..0) = <<>>
  BY <1>2 DEF Headers
<1>5. Name(s, 1..0, 1) = <<>> /\ Value(s, 1..0, 1) = <<>>
  BY <1>2, <1>3 DEF Name, Value
<1>6. 0 + 1 = 1
  OBVIOUS
<1> QED
  BY <1>2, <1>3, <1>4, <1>5, <1>6 DEF Parse, EmptyRequest

\* What a span of one kind, no end of a line, makes of the pieces of Parse.
LEMMA SpanPieces ==
  ASSUME NEW s \in Seq(Symbols), NEW n \in 0..Len(s), NEW m \in 0..n, NEW kind,
         kind # "line", OneKind(s, kind, Behind(m, n)), NEW field
  PROVE  /\ Bytes(s, Of(s, field, 1..n))
              = Added(field = kind, Bytes(s, Of(s, field, 1..m)), Bytes(s, Behind(m, n)))
         /\ Bytes(s, Of(s, field, Line(s, 1..n, n + 1)))
              = Added(field = kind, Bytes(s, Of(s, field, Line(s, 1..m, m + 1))),
                      Bytes(s, Behind(m, n)))
         /\ Headers(s, 1..n) = Headers(s, 1..m)
<1>0. m \in Nat /\ n \in Nat /\ m <= n
  BY LenProperties
<1>1. \A i \in (m + 1)..n : s[i].kind # "line"
  BY DEF OneKind, Behind
<1>2. 1..n = (1..m) \cup Behind(m, n)
  BY <1>0 DEF Behind
<1>3. Line(s, 1..n, n + 1) = Line(s, 1..m, m + 1) \cup Behind(m, n)
  BY <1>0, <1>1, LineExtend DEF Behind
<1>4. Line(s, 1..m, m + 1) \in SUBSET (1..m) /\ 1..m \in SUBSET (1..m)
  BY DEF Line
<1>5. \A L \in SUBSET (1..m) :
        Bytes(s, Of(s, field, L \cup Behind(m, n)))
          = Added(field = kind, Bytes(s, Of(s, field, L)), Bytes(s, Behind(m, n)))
  BY FieldExtend
<1>6. Headers(s, 1..n) = Headers(s, 1..m)
  BY <1>0, <1>1, HeadersKept
<1> QED
  BY <1>2, <1>3, <1>4, <1>5, <1>6

\* A span of a field adds its bytes to that field.
LEMMA ParseSpan ==
  ASSUME NEW s \in Seq(Symbols), NEW n \in 0..Len(s), NEW m \in 0..n,
         NEW kind \in TextFields \cup {"body"}, OneKind(s, kind, Behind(m, n))
  PROVE  Parse(s, 1, n) = [Parse(s, 1, m) EXCEPT ![kind] = @ \o Bytes(s, Behind(m, n))]
<1> DEFINE new == Bytes(s, Behind(m, n))
<1>0. kind # "line" /\ kind # "headers"
  BY DEF TextFields
<1>1. \A field :
        /\ Bytes(s, Of(s, field, 1..n))
             = Added(field = kind, Bytes(s, Of(s, field, 1..m)), new)
        /\ Bytes(s, Of(s, field, Line(s, 1..n, n + 1)))
             = Added(field = kind, Bytes(s, Of(s, field, Line(s, 1..m, m + 1))), new)
        /\ Headers(s, 1..n) = Headers(s, 1..m)
  BY <1>0, SpanPieces
<1> HIDE DEF new
<1>2. /\ Parse(s, 1, n).method = Added("method" = kind, Parse(s, 1, m).method, new)
      /\ Parse(s, 1, n).URL = Added("URL" = kind, Parse(s, 1, m).URL, new)
      /\ Parse(s, 1, n).version = Added("version" = kind, Parse(s, 1, m).version, new)
      /\ Parse(s, 1, n).body = Added("body" = kind, Parse(s, 1, m).body, new)
  BY <1>1 DEF Parse
<1>3. /\ Parse(s, 1, n).key = Added("key" = kind, Parse(s, 1, m).key, new)
      /\ Parse(s, 1, n).value = Added("value" = kind, Parse(s, 1, m).value, new)
      /\ Parse(s, 1, n).headers = Parse(s, 1, m).headers
  BY <1>1 DEF Parse, Name, Value
<1>4. Parse(s, 1, n) = [Parse(s, 1, m) EXCEPT ![kind] = @ \o new]
  BY <1>0, <1>2, <1>3 DEF Parse, TextFields, Added
<1> QED
  BY <1>4 DEF new

\* The end of a message adds nothing.
LEMMA ParseEnd ==
  ASSUME NEW s \in Seq(Symbols), NEW m \in Nat, m < Len(s), s[m + 1].kind = "end"
  PROVE  Parse(s, 1, m + 1) = Parse(s, 1, m)
<1>1. \A field : field # "end" =>
        /\ Bytes(s, Of(s, field, 1..(m + 1))) = Bytes(s, Of(s, field, 1..m))
        /\ Bytes(s, Of(s, field, Line(s, 1..(m + 1), m + 1 + 1)))
             = Bytes(s, Of(s, field, Line(s, 1..m, m + 1)))
        /\ Headers(s, 1..(m + 1)) = Headers(s, 1..m)
  <2> SUFFICES ASSUME NEW field, field # "end"
               PROVE  /\ Bytes(s, Of(s, field, 1..(m + 1))) = Bytes(s, Of(s, field, 1..m))
                      /\ Bytes(s, Of(s, field, Line(s, 1..(m + 1), m + 1 + 1)))
                           = Bytes(s, Of(s, field, Line(s, 1..m, m + 1)))
                      /\ Headers(s, 1..(m + 1)) = Headers(s, 1..m)
    OBVIOUS
  <2>1. OneKind(s, "end", Behind(m, m + 1))
    BY DEF OneKind, Behind
  <2>2. m + 1 \in 0..Len(s) /\ m \in 0..(m + 1)
    BY LenProperties
  <2> DEFINE n == m + 1
  <2> HIDE DEF n
  <2>3. /\ Bytes(s, Of(s, field, 1..n))
             = Added(field = "end", Bytes(s, Of(s, field, 1..m)), Bytes(s, Behind(m, n)))
        /\ Bytes(s, Of(s, field, Line(s, 1..n, n + 1)))
             = Added(field = "end", Bytes(s, Of(s, field, Line(s, 1..m, m + 1))),
                     Bytes(s, Behind(m, n)))
        /\ Headers(s, 1..n) = Headers(s, 1..m)
    BY <2>1, <2>2, SpanPieces DEF n
  <2> QED
    BY <2>3 DEF Added, n
<1> QED
  BY <1>1 DEF Parse, Name, Value

\* What on_header_value_complete makes of a request, field by field.
LEMMA StoredRecord ==
  ASSUME NEW s, NEW m, NEW stored
  PROVE  LET r == Parse(s, 1, m)
         IN  [r EXCEPT !.headers = stored, !.key = <<>>, !.value = <<>>]
               = [method |-> r.method, URL |-> r.URL, version |-> r.version,
                  key |-> <<>>, value |-> <<>>, headers |-> stored, body |-> r.body]
<1> DEFINE r == Parse(s, 1, m)
           r1 == [r EXCEPT !.headers = stored]
           r2 == [r1 EXCEPT !.key = <<>>]
           r3 == [r2 EXCEPT !.value = <<>>]
<1>1. r1 = [method |-> r.method, URL |-> r.URL, version |-> r.version, key |-> r.key,
            value |-> r.value, headers |-> stored, body |-> r.body]
  BY DEF Parse
<1> HIDE DEF r1
<1>2. r2 = [method |-> r.method, URL |-> r.URL, version |-> r.version, key |-> <<>>,
            value |-> r.value, headers |-> stored, body |-> r.body]
  BY <1>1
<1> HIDE DEF r2
<1>3. r3 = [method |-> r.method, URL |-> r.URL, version |-> r.version, key |-> <<>>,
            value |-> <<>>, headers |-> stored, body |-> r.body]
  BY <1>2
<1> HIDE DEF r, r3
<1>4. [r EXCEPT !.headers = stored, !.key = <<>>, !.value = <<>>] = r3
  BY DEF r1, r2, r3
<1> QED
  BY <1>3, <1>4 DEF r

\* The end of a line is what on_header_value_complete makes of it.
LEMMA ParseLine ==
  ASSUME NEW s, NEW m \in Nat, s[m + 1].kind = "line"
  PROVE  Parse(s, 1, m + 1) =
           [Parse(s, 1, m) EXCEPT
              !.headers = Assigned(@, Parse(s, 1, m).key, Parse(s, 1, m).value),
              !.key = <<>>, !.value = <<>>]
<1>1. 1..(m + 1) = (1..m) \cup {m + 1}
  OBVIOUS
<1>2. \A field : field # "line" => Of(s, field, 1..(m + 1)) = Of(s, field, 1..m)
  BY <1>1 DEF Of
<1>3. Line(s, 1..(m + 1), m + 1 + 1) = {}
  <2>1. \A j \in 1..(m + 1) : m + 1 \in j..(m + 1 + 1 - 1)
    OBVIOUS
  <2> QED
    BY <2>1 DEF Line
<1>4. /\ Name(s, 1..(m + 1), m + 1 + 1) = <<>>
      /\ Value(s, 1..(m + 1), m + 1 + 1) = <<>>
  BY <1>3, BytesNone DEF Name, Value, Of
<1>5. Headers(s, 1..(m + 1))
        = Assigned(Headers(s, 1..m), Name(s, 1..m, m + 1), Value(s, 1..m, m + 1))
  BY HeadersLine
<1> DEFINE before == Parse(s, 1, m)
           headers == Headers(s, 1..(m + 1))
<1>6. Assigned(before.headers, before.key, before.value) = headers
  BY <1>5 DEF Parse
<1>7. Parse(s, 1, m + 1) = [method |-> before.method, URL |-> before.URL,
                            version |-> before.version, key |-> <<>>,
                            value |-> <<>>, headers |-> headers,
                            body |-> before.body]
  BY <1>2, <1>4 DEF Parse
<1>8. [before EXCEPT !.headers = headers, !.key = <<>>, !.value = <<>>]
        = [method |-> before.method, URL |-> before.URL, version |-> before.version,
           key |-> <<>>, value |-> <<>>, headers |-> headers, body |-> before.body]
  BY StoredRecord
<1> HIDE DEF before, headers
<1>9. Parse(s, 1, m + 1) =
        [before EXCEPT !.headers = Assigned(@, before.key, before.value),
                       !.key = <<>>, !.value = <<>>]
  BY <1>6, <1>7, <1>8
<1> QED
  BY <1>9 DEF before

-----------------------------------------------------------------------------

\* SpanEnd exists: the span runs to the end of the buffer or up to another
\* kind, and its bytes are those of the stream.
LEMMA SpanProperties ==
  ASSUME stream \in Seq(Symbols), filled \in 0..Len(stream), parsed \in 0..filled,
         parsed < filled
  PROVE  /\ SpanEnd \in (parsed + 1)..filled
         /\ OneKind(stream, Symbol.kind, Behind(parsed, SpanEnd))
         /\ Span = Bytes(stream, Behind(parsed, SpanEnd))
<1> DEFINE same(n) == \A i \in (parsed + 1)..n : stream[i].kind = Symbol.kind
           P == {n \in (parsed + 1)..filled : same(n)}
<1>0. /\ Len(stream) \in Nat /\ DOMAIN stream = 1..Len(stream)
      /\ parsed \in Nat /\ filled \in Nat
  BY LenProperties
<1>1. parsed + 1 \in P
  <2>1. parsed + 1 \in (parsed + 1)..filled
    BY <1>0
  <2>2. \A i \in (parsed + 1)..(parsed + 1) : i = parsed + 1
    BY <1>0
  <2> QED
    BY <2>1, <2>2 DEF Symbol
<1>2. P \in SUBSET Int /\ IsFiniteSet(P)
  <2>1. IsFiniteSet((parsed + 1)..filled)
    <3>1. parsed + 1 \in Int /\ filled \in Int
      BY <1>0
    <3> QED
      BY <3>1, FS_Interval
  <2>2. IsFiniteSet(P)
    BY <2>1, FS_Subset
  <2> QED
    BY <1>0, <2>2
<1>3. PICK e \in P : \A n \in P : n <= e
  <2> HIDE DEF P
  <2> QED
    BY <1>1, <1>2, GreatestExists
<1>4. e = filled \/ stream[e + 1].kind # Symbol.kind
  <2> SUFFICES ASSUME e # filled, stream[e + 1].kind = Symbol.kind
               PROVE  FALSE
    OBVIOUS
  <2>1. e \in (parsed + 1)..filled /\ same(e)
    OBVIOUS
  <2>2. e + 1 \in (parsed + 1)..filled
    BY <1>0, <2>1
  <2>3. \A i \in (parsed + 1)..(e + 1) : i \in (parsed + 1)..e \/ i = e + 1
    BY <1>0, <2>1
  <2>4. e + 1 \in P
    BY <2>1, <2>2, <2>3
  <2> QED
    BY <1>0, <1>3, <2>1, <2>4
<1>5. SpanEnd \in (parsed + 1)..filled /\ same(SpanEnd)
  BY <1>3, <1>4 DEF SpanEnd
<1>6. Bytes(stream, Behind(parsed, SpanEnd)) = Span
  <2> DEFINE a == parsed + 1
             b == SpanEnd
  <2>1. a \in Int /\ b \in Int /\ a..b \subseteq DOMAIN stream /\ a <= b
    BY <1>0, <1>5
  <2>2. Bytes(stream, a..b) = [i \in 1..(b - a + 1) |-> stream[a + i - 1].byte]
    <3> HIDE DEF a, b
    <3> QED
      BY <2>1, BytesInterval
  <2>3. /\ b - a + 1 = SpanEnd - parsed
        /\ \A i \in 1..(SpanEnd - parsed) : a + i - 1 = parsed + i
    BY <1>0, <2>1
  <2> QED
    BY <2>2, <2>3 DEF Span, Behind
<1> QED
  BY <1>5, <1>6 DEF OneKind, Behind

-----------------------------------------------------------------------------
(* The invariant.                                                          *)

\* What the request has said at some point of the stream.
Assembled == {Parse(stream, 1, n) : n \in 0..Len(stream)}

\* The n-th request that the server's application reads is everything up to
\* the end of the n-th message, since no callback makes a new request object.
RequestsAccumulate ==
  program = "server" =>
    \A n \in DOMAIN delivered : delivered[n] = Parse(stream, 1, EndOf(stream, n))

Inv ==
  /\ stream \in IF program = "server" THEN ServerStreams ELSE DemoStreams
  /\ TypeOK
  /\ SplitIndependent
  /\ delivered \in Seq(Assembled)
  /\ RequestsAccumulate
  /\ program = "demo" =>
       delivered = IF status = "printed" THEN <<Parse(stream, 1, Len(stream))>>
                   ELSE <<>>

\* What the invariant says of the types.
LEMMA InvTypes ==
  ASSUME Inv
  PROVE  /\ stream \in Seq(Symbols)
         /\ Len(stream) \in Nat /\ DOMAIN stream = 1..Len(stream)
         /\ filled \in Nat /\ parsed \in Nat
         /\ parsed <= filled /\ filled <= Len(stream)
<1>1. stream \in Seq(Symbols)
  BY AssemblyAssumption DEF Inv
<1> QED
  BY <1>1, LenProperties DEF Inv, TypeOK

\* The empty object agrees with the empty stream.
LEMMA InitInv == Init => Inv
<1> SUFFICES ASSUME Init
             PROVE  Inv
  OBVIOUS
<1>1. stream \in IF program = "server" THEN ServerStreams ELSE DemoStreams
  BY DEF Init
<1>2. stream \in Seq(Symbols)
  BY <1>1, AssemblyAssumption
<1>3. Len(stream) \in Nat
  BY <1>2, LenProperties
<1>4. Cardinality(Of(stream, "end", 1..parsed)) = 0
  <2>1. Of(stream, "end", 1..parsed) = {}
    BY DEF Init, Of
  <2> QED
    BY <2>1, FS_EmptySet
<1>5. TypeOK
  BY <1>3, <1>4 DEF TypeOK, Init, EmptyRequest
<1>6. SplitIndependent
  BY ParseNothing DEF Init, SplitIndependent
<1>7. delivered = <<>> /\ DOMAIN delivered = {} /\ delivered \in Seq(Assembled)
  BY DEF Init
<1> QED
  BY <1>1, <1>5, <1>6, <1>7 DEF Inv, RequestsAccumulate, Init

\* A callback that consumes a span of a field.
LEMMA SpanInv ==
  ASSUME Inv, Parsing, Symbol.kind \in TextFields \cup {"body"},
         request' = AppendSpan(Symbol.kind), parsed' = SpanEnd,
         UNCHANGED <<program, stream, filled, delivered, status>>
  PROVE  Inv'
<1>0. /\ stream \in Seq(Symbols)
      /\ Len(stream) \in Nat /\ DOMAIN stream = 1..Len(stream)
      /\ filled \in Nat /\ parsed \in Nat
      /\ parsed < filled /\ filled <= Len(stream)
  BY InvTypes DEF Parsing
<1>1. /\ SpanEnd \in (parsed + 1)..filled
      /\ OneKind(stream, Symbol.kind, Behind(parsed, SpanEnd))
      /\ Span = Bytes(stream, Behind(parsed, SpanEnd))
  BY <1>0, SpanProperties
<1>2. /\ parsed' \in 0..Len(stream) /\ parsed \in 0..parsed' /\ parsed' \in 0..filled
      /\ OneKind(stream, Symbol.kind, Behind(parsed, parsed'))
      /\ Span = Bytes(stream, Behind(parsed, parsed'))
  BY <1>0, <1>1
<1>3. SplitIndependent'
  <2>1. Parse(stream, 1, parsed')
          = [Parse(stream, 1, parsed) EXCEPT
               ![Symbol.kind] = @ \o Bytes(stream, Behind(parsed, parsed'))]
    <3> DEFINE n == parsed'
               kind == Symbol.kind
    <3>1. /\ n \in 0..Len(stream) /\ parsed \in 0..n
          /\ kind \in TextFields \cup {"body"}
          /\ OneKind(stream, kind, Behind(parsed, n))
      BY <1>2
    <3> HIDE DEF n, kind
    <3>2. Parse(stream, 1, n)
            = [Parse(stream, 1, parsed) EXCEPT
                 ![kind] = @ \o Bytes(stream, Behind(parsed, n))]
      BY <1>0, <3>1, ParseSpan
    <3> QED
      BY <3>2 DEF n, kind
  <2> QED
    BY <1>2, <2>1 DEF Inv, SplitIndependent, AppendSpan
<1>4. Of(stream, "end", 1..parsed') = Of(stream, "end", 1..parsed)
  <2>1. \A i \in 1..parsed' : stream[i].kind = "end" => i \in 1..parsed
    <3>1. \A i \in 1..parsed' : i \in 1..parsed \/ i \in (parsed + 1)..parsed'
      BY <1>0, <1>2
    <3>2. Symbol.kind # "end"
      BY DEF TextFields
    <3> QED
      BY <1>2, <3>1, <3>2 DEF OneKind, Behind
  <2>2. 1..parsed \subseteq 1..parsed'
    BY <1>0, <1>2
  <2> QED
    BY <2>1, <2>2 DEF Of
<1>5. DOMAIN request' = DOMAIN EmptyRequest
  BY DEF Inv, TypeOK, AppendSpan
<1>6. TypeOK'
  BY <1>2, <1>4, <1>5 DEF Inv, TypeOK
<1>7. delivered' \in Seq(Assembled') /\ RequestsAccumulate'
  BY DEF Inv, Assembled, RequestsAccumulate
<1> QED
  BY <1>3, <1>6, <1>7 DEF Inv

\* on_header_value_complete.
LEMMA LineInv ==
  ASSUME Inv, OnHeaderValueComplete
  PROVE  Inv'
<1>0. /\ stream \in Seq(Symbols)
      /\ Len(stream) \in Nat /\ DOMAIN stream = 1..Len(stream)
      /\ filled \in Nat /\ parsed \in Nat
      /\ parsed < filled /\ filled <= Len(stream)
  BY InvTypes DEF OnHeaderValueComplete, Parsing
<1>1. stream[parsed + 1].kind = "line"
  BY DEF OnHeaderValueComplete, Symbol
<1>2. SplitIndependent'
  BY <1>0, <1>1, ParseLine DEF OnHeaderValueComplete, StoreHeader, Inv, SplitIndependent
<1>3. Of(stream, "end", 1..(parsed + 1)) = Of(stream, "end", 1..parsed)
  <2>1. 1..(parsed + 1) = (1..parsed) \cup {parsed + 1}
    BY <1>0
  <2> QED
    BY <1>1, <2>1 DEF Of
<1>4. DOMAIN request' = DOMAIN EmptyRequest
  BY DEF Inv, TypeOK, OnHeaderValueComplete, StoreHeader
<1>5. TypeOK'
  BY <1>0, <1>3, <1>4 DEF Inv, TypeOK, OnHeaderValueComplete
<1>6. delivered' \in Seq(Assembled') /\ RequestsAccumulate'
  BY DEF Inv, Assembled, RequestsAccumulate, OnHeaderValueComplete
<1> QED
  BY <1>2, <1>5, <1>6 DEF Inv, OnHeaderValueComplete

\* The end of the message that ends at m is the one of the count up to m.
LEMMA EndOfCount ==
  ASSUME NEW s \in Seq(Symbols), NEW m \in Nat, m < Len(s), s[m + 1].kind = "end"
  PROVE  /\ Cardinality(Of(s, "end", 1..m)) \in Nat
         /\ Cardinality(Of(s, "end", 1..(m + 1)))
              = Cardinality(Of(s, "end", 1..m)) + 1
         /\ EndOf(s, Cardinality(Of(s, "end", 1..m)) + 1) = m + 1
<1> DEFINE P == Of(s, "end", DOMAIN s)
<1>0. Len(s) \in Nat /\ DOMAIN s = 1..Len(s)
  BY LenProperties
<1>1. Of(s, "end", 1..m) \in SUBSET (1..m) /\ IsFiniteSet(1..m)
  BY FS_Interval DEF Of
<1>2. /\ IsFiniteSet(Of(s, "end", 1..m))
      /\ Cardinality(Of(s, "end", 1..m)) \in Nat
  BY <1>1, FS_Subset, FS_CardinalityType
<1>3. /\ Of(s, "end", 1..(m + 1)) = Of(s, "end", 1..m) \cup {m + 1}
      /\ m + 1 \notin Of(s, "end", 1..m)
  <2>1. 1..(m + 1) = (1..m) \cup {m + 1} /\ m + 1 \notin 1..m
    OBVIOUS
  <2> QED
    BY <2>1 DEF Of
<1>4. Cardinality(Of(s, "end", 1..(m + 1))) = Cardinality(Of(s, "end", 1..m)) + 1
  BY <1>2, <1>3, FS_AddElement
<1>5. P \in SUBSET DOMAIN s
  BY DEF Of
<1>6. P \in SUBSET Int /\ IsFiniteSet(P)
  <2> HIDE DEF P
  <2> QED
    BY <1>5, BytesType
<1>7. m + 1 \in P
  BY <1>0 DEF Of
<1>8. Upto(P, m + 1) = Of(s, "end", 1..(m + 1))
  BY <1>0 DEF Upto, Of
<1>9. Nth(P, Cardinality(Of(s, "end", 1..m)) + 1) = m + 1
  <2> HIDE DEF P
  <2> QED
    BY <1>4, <1>6, <1>7, <1>8, NthOfCount
<1> QED
  BY <1>2, <1>4, <1>9 DEF EndOf

\* The server's application reads the request: everything up to here.
LEMMA ReadInv ==
  ASSUME Inv, OnMessageComplete, program = "server"
  PROVE  /\ delivered' \in Seq(Assembled')
         /\ Len(delivered') = Cardinality(Of(stream, "end", 1..(parsed + 1)))
         /\ RequestsAccumulate'
<1>0. /\ stream \in Seq(Symbols) /\ Len(stream) \in Nat
      /\ filled \in Nat /\ parsed \in Nat
      /\ parsed < filled /\ filled <= Len(stream)
  BY InvTypes DEF OnMessageComplete, Parsing
<1>1. stream[parsed + 1].kind = "end"
  BY DEF OnMessageComplete, Symbol
<1> DEFINE n == Len(delivered)
<1>2. /\ delivered \in Seq(Assembled) /\ n \in Nat /\ DOMAIN delivered = 1..n
      /\ n = Cardinality(Of(stream, "end", 1..parsed))
      /\ delivered' = Append(delivered, request)
  BY LenProperties DEF Inv, TypeOK, OnMessageComplete
<1>3. /\ Cardinality(Of(stream, "end", 1..(parsed + 1))) = n + 1
      /\ EndOf(stream, n + 1) = parsed + 1
  BY <1>0, <1>1, <1>2, EndOfCount
<1>4. request = Parse(stream, 1, parsed + 1)
  BY <1>0, <1>1, ParseEnd DEF Inv, SplitIndependent
<1>5. request \in Assembled /\ Assembled' = Assembled
  BY <1>0, <1>4 DEF Assembled, OnMessageComplete
<1> HIDE DEF n
<1>6. /\ delivered' \in Seq(Assembled')
      /\ Len(delivered') = n + 1
      /\ \A i \in 1..n : delivered'[i] = delivered[i]
      /\ delivered'[n + 1] = request
  BY <1>2, <1>5, AppendProperties DEF n
<1>7. RequestsAccumulate'
  <2>1. DOMAIN delivered' = 1..(n + 1)
    BY <1>6, LenProperties
  <2>2. stream' = stream
    BY DEF OnMessageComplete
  <2>3. ASSUME NEW i \in 1..(n + 1)
        PROVE  delivered'[i] = Parse(stream, 1, EndOf(stream, i))
    <3>1. CASE i \in 1..n
      BY <1>2, <1>6, <3>1 DEF Inv, RequestsAccumulate
    <3>2. CASE i = n + 1
      BY <1>3, <1>4, <1>6, <3>2
    <3> QED
      BY <1>2, <3>1, <3>2
  <2> QED
    BY <2>1, <2>2, <2>3 DEF RequestsAccumulate
<1> QED
  BY <1>3, <1>6, <1>7

\* on_message_complete.
LEMMA CompleteInv ==
  ASSUME Inv, OnMessageComplete
  PROVE  Inv'
<1>0. /\ stream \in Seq(Symbols) /\ Len(stream) \in Nat
      /\ filled \in Nat /\ parsed \in Nat
      /\ parsed < filled /\ filled <= Len(stream)
  BY InvTypes DEF OnMessageComplete, Parsing
<1>1. stream[parsed + 1].kind = "end"
  BY DEF OnMessageComplete, Symbol
<1>2. SplitIndependent'
  BY <1>0, <1>1, ParseEnd DEF Inv, SplitIndependent, OnMessageComplete
<1>3. CASE program = "server"
  <2>1. TypeOK'
    BY <1>0, <1>3, ReadInv DEF Inv, TypeOK, OnMessageComplete
  <2> QED
    BY <1>2, <1>3, <2>1, ReadInv DEF Inv, OnMessageComplete
<1>4. CASE program # "server"
  <2>1. delivered' = delivered /\ Assembled' = Assembled
    BY <1>4 DEF Assembled, OnMessageComplete
  <2>2. TypeOK'
    BY <1>0, <1>4 DEF Inv, TypeOK, OnMessageComplete
  <2> QED
    BY <1>2, <1>4, <2>1, <2>2 DEF Inv, RequestsAccumulate, OnMessageComplete
<1> QED
  BY <1>3, <1>4

\* A buffer arrives.
LEMMA BufferInv ==
  ASSUME Inv, NEW n \in 1..BufMax, Buffer(n)
  PROVE  Inv'
<1>0. /\ Len(stream) \in Nat /\ filled \in Nat /\ parsed \in Nat
      /\ parsed <= filled /\ filled <= Len(stream)
  BY InvTypes
<1>1. n \in Nat
  BY AssemblyAssumption
<1>2. TypeOK'
  BY <1>0, <1>1 DEF Inv, TypeOK, Buffer
<1> QED
  BY <1>2 DEF Inv, SplitIndependent, Assembled, RequestsAccumulate, Buffer

\* The demonstration prints what it has.
LEMMA PrintInv ==
  ASSUME Inv, DemoPrint
  PROVE  Inv'
<1>0. Len(stream) \in Nat /\ program = "demo"
  BY InvTypes DEF DemoPrint
<1>1. request = Parse(stream, 1, Len(stream))
  BY DEF Inv, SplitIndependent, DemoPrint
<1>2. delivered' = <<Parse(stream, 1, Len(stream))>>
  BY <1>1 DEF DemoPrint
<1>3. Parse(stream, 1, Len(stream)) \in Assembled /\ Assembled' = Assembled
  BY <1>0 DEF Assembled, DemoPrint
<1>4. delivered' \in Seq(Assembled')
  BY <1>2, <1>3
<1>5. TypeOK'
  BY <1>0 DEF Inv, TypeOK, DemoPrint
<1> QED
  BY <1>0, <1>2, <1>4, <1>5 DEF Inv, SplitIndependent, RequestsAccumulate, DemoPrint

\* One object is reused, and every callback adds to it what it is told.
LEMMA NextInv == Inv /\ [Next]_vars => Inv'
<1> SUFFICES ASSUME Inv, [Next]_vars
             PROVE  Inv'
  OBVIOUS
<1>1. CASE OnText
  BY <1>1, SpanInv DEF OnText
<1>2. CASE OnBody
  BY <1>2, SpanInv DEF OnBody
<1>3. CASE OnHeaderValueComplete
  BY <1>3, LineInv
<1>4. CASE OnMessageComplete
  BY <1>4, CompleteInv
<1>5. CASE Reject \/ RecvEof
  <2>1. /\ UNCHANGED <<program, stream, filled, parsed, request, delivered>>
        /\ status = "open" /\ status' = "closed"
    BY <1>5 DEF Reject, RecvEof, Parsing
  <2>2. TypeOK'
    BY <2>1 DEF Inv, TypeOK
  <2>3. SplitIndependent' /\ RequestsAccumulate' /\ Assembled' = Assembled
    BY <2>1 DEF Inv, SplitIndependent, RequestsAccumulate, Assembled
  <2> QED
    BY <2>1, <2>2, <2>3 DEF Inv
<1>6. CASE Recv \/ DemoChunk
  BY <1>6, BufferInv DEF Recv, DemoChunk
<1>7. CASE DemoPrint
  BY <1>7, PrintInv
<1>8. CASE UNCHANGED vars
  BY <1>8 DEF vars, Inv, TypeOK, SplitIndependent, Assembled, RequestsAccumulate
<1> QED
  BY <1>1, <1>2, <1>3, <1>4, <1>5, <1>6, <1>7, <1>8 DEF Next

\* The object agrees with the stream in every reachable state.
THEOREM Invariance == Spec => []Inv
<1> QED
  BY InitInv, NextInv, PTL DEF Spec

\* Every variable has its type, the parser is never ahead of the input, and one
\* request has been read per complete message.
THEOREM TypeCorrect == Spec => []TypeOK
<1>1. Inv => TypeOK
  BY DEF Inv
<1> QED
  BY <1>1, Invariance, PTL

\* The request object does not depend on how the stream was cut into buffers.
THEOREM IsSplitIndependent == Spec => []SplitIndependent
<1>1. Inv => SplitIndependent
  BY DEF Inv
<1> QED
  BY <1>1, Invariance, PTL

\* The n-th request read is the whole of the first n messages.
THEOREM DoesAccumulate == Spec => []RequestsAccumulate
<1>1. Inv => RequestsAccumulate
  BY DEF Inv
<1> QED
  BY <1>1, Invariance, PTL

\* The message of the demonstration ends with its last chunk.
LEMMA DemoEnd ==
  ASSUME Inv, program = "demo"
  PROVE  EndOf(stream, 1) = Len(stream)
<1>0. stream \in Seq(Symbols) /\ Len(stream) \in Nat /\ DOMAIN stream = 1..Len(stream)
  BY InvTypes
<1>1. /\ stream # <<>>
      /\ \A i \in DOMAIN stream : stream[i].kind = "end" <=> i = Len(stream)
  BY AssemblyAssumption DEF Inv
<1>2. Len(stream) # 0
  BY <1>0, <1>1, EmptySeq
<1>3. Of(stream, "end", DOMAIN stream) = {Len(stream)}
  BY <1>0, <1>1, <1>2 DEF Of
<1>4. Upto({Len(stream)}, Len(stream)) = {Len(stream)}
  BY <1>0 DEF Upto
<1>5. IsFiniteSet({Len(stream)}) /\ Cardinality({Len(stream)}) = 1
  BY FS_Singleton
<1>6. Nth({Len(stream)}, 1) = Len(stream)
  BY <1>0, <1>4, <1>5, NthOfCount
<1> QED
  BY <1>3, <1>6 DEF EndOf

\* The first request that is read or printed is exactly the first message.
THEOREM FirstRequestIsExact == Spec => []FirstRequestExact
<1>1. Inv => FirstRequestExact
  <2> SUFFICES ASSUME Inv, delivered # <<>>
               PROVE  delivered[1] = Parse(stream, 1, EndOf(stream, 1))
    BY DEF FirstRequestExact, Message
  <2>1. CASE program = "server"
    <3>1. delivered \in Seq(Assembled)
      BY DEF Inv
    <3>2. 1 \in DOMAIN delivered
      BY <3>1, EmptySeq, LenProperties
    <3> QED
      BY <2>1, <3>2 DEF Inv, RequestsAccumulate
  <2>2. CASE program = "demo"
    <3>1. delivered = <<Parse(stream, 1, Len(stream))>>
      BY <2>2 DEF Inv
    <3> QED
      BY <2>2, <3>1, DemoEnd
  <2> QED
    BY <2>1, <2>2 DEF Inv, TypeOK
<1> QED
  BY <1>1, Invariance, PTL

=============================================================================
