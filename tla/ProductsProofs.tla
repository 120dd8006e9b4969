--------------------------- MODULE ProductsProofs ---------------------------
(***************************************************************************)
(* Every product, of any two operands: the graph it makes is simple, finds *)
(* its nodes by name, keeps the gates of every pair and has the edges and  *)
(* attributes of its textbook definition.                                  *)
(***************************************************************************)
EXTENDS Products, GraphProofs

----------------------------------------------------------------------------
(* Loops: what FlattenSeq, which ForEach is made of, returns. *)

IsFlattened(seqs, n, f) ==
  f = [i \in 1..n |-> IF i = 1 THEN seqs[i] ELSE f[i - 1] \o seqs[i]]

LEMMA FlattenedExists ==
  ASSUME NEW seqs
  PROVE  \A n \in Nat : \E f : IsFlattened(seqs, n, f)
<1>. DEFINE S == {n \in Nat : \E f : IsFlattened(seqs, n, f)}
<1>1. 0 \in S
  <2>. DEFINE f == [i \in 1..0 |-> seqs[i]]
  <2>1. f = [i \in 1..0 |-> IF i = 1 THEN seqs[i] ELSE f[i - 1] \o seqs[i]]
    OBVIOUS
  <2>. HIDE DEF f
  <2>2. IsFlattened(seqs, 0, f)
    BY <2>1 DEF IsFlattened
  <2>. QED
    BY <2>2
<1>2. ASSUME NEW n \in S PROVE n + 1 \in S
  <2>1. PICK f : IsFlattened(seqs, n, f)
    OBVIOUS
  <2>. DEFINE h == [i \in 1..(n + 1) |-> IF i = 1 THEN seqs[i] ELSE f[i - 1] \o seqs[i]]
  <2>2. n \in Nat /\ n + 1 \in Nat
    OBVIOUS
  <2>3. ASSUME NEW i \in 1..n PROVE h[i] = f[i]
    <3>1. i \in 1..(n + 1)
      BY <2>2
    <3>2. f[i] = IF i = 1 THEN seqs[i] ELSE f[i - 1] \o seqs[i]
      BY <2>1 DEF IsFlattened
    <3>. QED
      BY <3>1, <3>2
  <2>4. ASSUME NEW i \in 1..(n + 1), i # 1 PROVE i - 1 \in 1..n
    BY <2>2, <2>4
  <2>5. h = [i \in 1..(n + 1) |-> IF i = 1 THEN seqs[i] ELSE h[i - 1] \o seqs[i]]
    <3>1. \A i \in 1..(n + 1) : i # 1 => h[i - 1] = f[i - 1]
      BY <2>3, <2>4
    <3>. QED
      BY <3>1
  <2>. HIDE DEF h
  <2>6. IsFlattened(seqs, n + 1, h)
    BY <2>5 DEF IsFlattened
  <2>. QED
    BY <2>2, <2>6
<1>3. S = Nat
  <2>. HIDE DEF S
  <2>. QED
    BY <1>1, <1>2, SetInduction DEF S
<1>. QED
  BY <1>3

LEMMA FlattenSeqIs ==
  ASSUME NEW seqs, Len(seqs) \in Nat, Len(seqs) # 0
  PROVE  \E f : IsFlattened(seqs, Len(seqs), f) /\ FlattenSeq(seqs) = f[Len(seqs)]
<1>. DEFINE f == CHOOSE f : IsFlattened(seqs, Len(seqs), f)
<1>1. IsFlattened(seqs, Len(seqs), f)
  BY FlattenedExists
<1>2. FlattenSeq(seqs) = f[Len(seqs)]
  BY DEF FlattenSeq, IsFlattened
<1>. QED
  BY <1>1, <1>2

(* One more body at the end of a loop. *)
LEMMA FlattenNothing == FlattenSeq(<<>>) = <<>>
BY DEF FlattenSeq

LEMMA FlattenMore ==
  ASSUME NEW S, NEW seqs \in Seq(Seq(S)), NEW s \in Seq(S)
  PROVE  FlattenSeq(Append(seqs, s)) = FlattenSeq(seqs) \o s
<1>. DEFINE n == Len(seqs)
            more == Append(seqs, s)
<1>1. /\ n \in Nat /\ Len(more) = n + 1 /\ more[n + 1] = s
      /\ \A i \in 1..n : more[i] = seqs[i]
  OBVIOUS
<1>2. PICK h : IsFlattened(more, n + 1, h) /\ FlattenSeq(more) = h[n + 1]
  <2>. HIDE DEF more, n
  <2>. QED
    BY <1>1, FlattenSeqIs
<1>3. CASE n = 0
  <2>1. seqs = <<>> /\ FlattenSeq(seqs) = <<>>
    BY <1>3, FlattenNothing
  <2>2. h[1] = more[1]
    BY <1>2, <1>3 DEF IsFlattened
  <2>. HIDE DEF n
  <2>. QED
    BY <1>1, <1>2, <1>3, <2>1, <2>2
<1>4. CASE n # 0
  <2>1. PICK f : IsFlattened(seqs, n, f) /\ FlattenSeq(seqs) = f[n]
    BY <1>1, <1>4, FlattenSeqIs
  <2>. HIDE DEF more, n
  <2>. DEFINE S0 == {k \in Nat : k \in 1..n => h[k] = f[k]}
  <2>2. 0 \in S0
    OBVIOUS
  <2>3. ASSUME NEW k \in S0 PROVE k + 1 \in S0
    <3>1. SUFFICES ASSUME k + 1 \in 1..n PROVE h[k + 1] = f[k + 1]
      OBVIOUS
    <3>2. k + 1 \in 1..(n + 1) /\ (k + 1) - 1 = k
      BY <1>1, <3>1
    <3>3. /\ h[k + 1] = IF k + 1 = 1 THEN more[k + 1] ELSE h[k] \o more[k + 1]
          /\ f[k + 1] = IF k + 1 = 1 THEN seqs[k + 1] ELSE f[k] \o seqs[k + 1]
      BY <1>2, <2>1, <3>1, <3>2 DEF IsFlattened
    <3>4. k + 1 # 1 => h[k] = f[k]
      BY <1>1, <3>1
    <3>. QED
      BY <1>1, <3>1, <3>3, <3>4
  <2>4. S0 = Nat
    <3>. HIDE DEF S0
    <3>. QED
      BY <2>2, <2>3, SetInduction DEF S0
  <2>5. h[n] = f[n]
    BY <1>1, <1>4, <2>4
  <2>6. n + 1 \in 1..(n + 1) /\ n + 1 # 1 /\ (n + 1) - 1 = n
    BY <1>1, <1>4
  <2>7. h[n + 1] = h[n] \o more[n + 1]
    BY <1>2, <2>6 DEF IsFlattened
  <2>. QED
    BY <1>1, <1>2, <2>1, <2>5, <2>7 DEF more
<1>. QED
  BY <1>3, <1>4

LEMMA SeqParts ==
  ASSUME NEW S, NEW s \in Seq(S)
  PROVE  DOMAIN s = 1..Len(s) /\ Len(s) \in Nat /\ \A k \in DOMAIN s : s[k] \in S
OBVIOUS

LEMMA SequenceOf ==
  ASSUME NEW S, NEW s, NEW n \in Nat, DOMAIN s = 1..n, s = [k \in DOMAIN s |-> s[k]],
         \A k \in DOMAIN s : s[k] \in S
  PROVE  s \in Seq(S)
<1>1. s \in [1..n -> S]
  BY Zenon
<1>. QED
  BY <1>1

LEMMA RangeOfConcat ==
  ASSUME NEW S, NEW s \in Seq(S), NEW t \in Seq(S)
  PROVE  s \o t \in Seq(S) /\ Range(s \o t) = Range(s) \cup Range(t)
<1>1. /\ Len(s) \in Nat /\ Len(t) \in Nat /\ Len(s \o t) = Len(s) + Len(t)
      /\ DOMAIN s = 1..Len(s) /\ DOMAIN t = 1..Len(t) /\ DOMAIN (s \o t) = 1..(Len(s) + Len(t))
      /\ \A i \in 1..(Len(s) + Len(t)) : (s \o t)[i] = IF i <= Len(s) THEN s[i] ELSE t[i - Len(s)]
  OBVIOUS
<1>2. ASSUME NEW i \in DOMAIN (s \o t)
      PROVE  (s \o t)[i] \in Range(s) \cup Range(t)
  <2>1. CASE i <= Len(s)
    BY <1>1, <2>1 DEF Range
  <2>2. CASE ~ (i <= Len(s))
    <3>1. i - Len(s) \in DOMAIN t
      BY <1>1, <2>2
    <3>. QED
      BY <1>1, <2>2, <3>1 DEF Range
  <2>. QED
    BY <2>1, <2>2
<1>3. ASSUME NEW i \in DOMAIN s
      PROVE  s[i] \in Range(s \o t)
  <2>1. i \in DOMAIN (s \o t) /\ (s \o t)[i] = s[i]
    BY <1>1
  <2>. QED
    BY <2>1 DEF Range
<1>4. ASSUME NEW i \in DOMAIN t
      PROVE  t[i] \in Range(s \o t)
  <2>1. /\ i + Len(s) \in DOMAIN (s \o t) /\ (i + Len(s)) - Len(s) = i
        /\ ~ (i + Len(s) <= Len(s))
    BY <1>1
  <2>2. (s \o t)[i + Len(s)] = t[i]
    BY <1>1, <2>1
  <2>. QED
    BY <2>1, <2>2 DEF Range
<1>5. s \o t \in Seq(S)
  OBVIOUS
<1>6. Range(s \o t) = Range(s) \cup Range(t)
  BY <1>2, <1>3, <1>4 DEF Range
<1>. QED
  BY <1>5, <1>6

(* A loop yields what its bodies yield. *)
LEMMA FlattenMembers ==
  ASSUME NEW S, NEW seqs \in Seq(Seq(S))
  PROVE  /\ FlattenSeq(seqs) \in Seq(S)
         /\ Range(FlattenSeq(seqs)) = UNION {Range(seqs[i]) : i \in DOMAIN seqs}
<1>. DEFINE n == Len(seqs)
            Upto(k) == UNION {Range(seqs[i]) : i \in 1..k}
<1>1. n \in Nat /\ DOMAIN seqs = 1..n /\ \A i \in 1..n : seqs[i] \in Seq(S)
  OBVIOUS
<1>2. CASE n = 0
  <2>1. seqs = <<>>
    BY <1>2
  <2>2. FlattenSeq(seqs) = <<>> /\ <<>> \in Seq(S) /\ DOMAIN <<>> = {}
    BY <2>1, FlattenNothing
  <2>. QED
    BY <2>1, <2>2 DEF Range
<1>3. CASE n # 0
  <2>1. PICK f : IsFlattened(seqs, n, f) /\ FlattenSeq(seqs) = f[n]
    BY <1>1, <1>3, FlattenSeqIs
  <2>. HIDE DEF n, Upto
  <2>. DEFINE K == {k \in Nat : k \in 1..n => f[k] \in Seq(S) /\ Range(f[k]) = Upto(k)}
  <2>2. 0 \in K
    OBVIOUS
  <2>3. ASSUME NEW k \in K PROVE k + 1 \in K
    <3>1. SUFFICES ASSUME k + 1 \in 1..n PROVE f[k + 1] \in Seq(S) /\ Range(f[k + 1]) = Upto(k + 1)
      OBVIOUS
    <3>2. f[k + 1] = IF k + 1 = 1 THEN seqs[k + 1] ELSE f[(k + 1) - 1] \o seqs[k + 1]
      BY <2>1, <3>1 DEF IsFlattened
    <3>3. seqs[k + 1] \in Seq(S)
      BY <1>1, <3>1
    <3>4. Upto(k + 1) = Upto(k) \cup Range(seqs[k + 1])
      <4>1. 1..(k + 1) = (1..k) \cup {k + 1}
        OBVIOUS
      <4>. QED
        BY <4>1 DEF Upto
    <3>5. CASE k = 0
      <4>1. Upto(k) = {}
        BY <3>5 DEF Upto
      <4>2. f[k + 1] = seqs[k + 1]
        BY <3>2, <3>5
      <4>. QED
        BY <3>3, <3>4, <4>1, <4>2
    <3>6. CASE k # 0
      <4>1. k \in 1..n /\ (k + 1) - 1 = k /\ k + 1 # 1
        BY <1>1, <3>1, <3>6
      <4>2. f[k] \in Seq(S) /\ Range(f[k]) = Upto(k)
        BY <4>1
      <4>3. f[k + 1] = f[k] \o seqs[k + 1]
        BY <3>2, <4>1
      <4>4. f[k] \o seqs[k + 1] \in Seq(S)
        BY <3>3, <4>2
      <4>5. Range(f[k] \o seqs[k + 1]) = Range(f[k]) \cup Range(seqs[k + 1])
        BY <3>3, <4>2, RangeOfConcat
      <4>. QED
        BY <3>4, <4>2, <4>3, <4>4, <4>5
    <3>. QED
      BY <3>5, <3>6
  <2>4. K = Nat
    <3>. HIDE DEF K
    <3>. QED
      BY <2>2, <2>3, SetInduction DEF K
  <2>5. f[n] \in Seq(S) /\ Range(f[n]) = Upto(n)
    BY <1>1, <1>3, <2>4
  <2>. QED
    BY <1>1, <2>1, <2>5 DEF Upto
<1>. QED
  BY <1>2, <1>3

(* A loop that only passes on those that pass a test. *)
Passing(seq, T) == [k \in DOMAIN seq |-> IF seq[k] \in T THEN <<seq[k]>> ELSE <<>>]

LEMMA PassingMembers ==
  ASSUME NEW S, NEW seq \in Seq(S), NEW T
  PROVE  /\ FlattenSeq(Passing(seq, T)) \in Seq(S \cap T)
         /\ Range(FlattenSeq(Passing(seq, T))) = Range(seq) \cap T
<1>1. DOMAIN seq = 1..Len(seq) /\ Len(seq) \in Nat /\ \A k \in DOMAIN seq : seq[k] \in S
  OBVIOUS
<1>2. ASSUME NEW k \in DOMAIN seq
      PROVE  /\ Passing(seq, T)[k] \in Seq(S \cap T)
             /\ Range(Passing(seq, T)[k]) = {seq[k]} \cap T
  <2>1. CASE seq[k] \in T
    <3>1. Passing(seq, T)[k] = <<seq[k]>>
      BY <2>1 DEF Passing
    <3>2. <<seq[k]>> \in Seq(S \cap T) /\ DOMAIN <<seq[k]>> = {1} /\ <<seq[k]>>[1] = seq[k]
      BY <1>1, <2>1
    <3>3. Range(<<seq[k]>>) = {seq[k]}
      BY <3>2 DEF Range
    <3>. QED
      BY <2>1, <3>1, <3>2, <3>3
  <2>2. CASE seq[k] \notin T
    <3>1. Passing(seq, T)[k] = <<>>
      BY <2>2 DEF Passing
    <3>2. <<>> \in Seq(S \cap T) /\ DOMAIN <<>> = {}
      OBVIOUS
    <3>3. Range(<<>>) = {}
      BY <3>2 DEF Range
    <3>. QED
      BY <2>2, <3>1, <3>2, <3>3
  <2>. QED
    BY <2>1, <2>2
<1>3. Passing(seq, T) \in Seq(Seq(S \cap T)) /\ DOMAIN Passing(seq, T) = DOMAIN seq
  <2>1. DOMAIN Passing(seq, T) = 1..Len(seq)
    BY <1>1 DEF Passing
  <2>2. \A k \in 1..Len(seq) : Passing(seq, T)[k] \in Seq(S \cap T)
    BY <1>1, <1>2
  <2>3. Passing(seq, T) = [k \in 1..Len(seq) |-> Passing(seq, T)[k]]
    BY <1>1 DEF Passing
  <2>. QED
    BY <1>1, <2>1, <2>2, <2>3
<1>4. UNION {Range(Passing(seq, T)[i]) : i \in DOMAIN seq} = Range(seq) \cap T
  BY <1>2 DEF Range
<1>5. /\ FlattenSeq(Passing(seq, T)) \in Seq(S \cap T)
      /\ Range(FlattenSeq(Passing(seq, T))) =
           UNION {Range(Passing(seq, T)[i]) : i \in DOMAIN Passing(seq, T)}
  BY <1>3, FlattenMembers
<1>. QED
  BY <1>3, <1>4, <1>5

(* The greatest of a set of numbers up to n. *)
LEMMA MaxIsGreatest ==
  ASSUME NEW n \in Nat, NEW S \in SUBSET (1..n), S # {}
  PROVE  Max(S) \in S /\ \A k \in S : k <= Max(S)
<1>. DEFINE B == {b \in Nat : \A k \in S : k <= b}
<1>1. n \in B /\ B \in SUBSET Nat
  OBVIOUS
<1>2. Min(B) \in B /\ \A b \in B : Min(B) <= b
  <2>. HIDE DEF B
  <2>. QED
    BY <1>1, MinIsLeast
<1>. DEFINE m == Min(B)
<1>3. m \in Nat /\ \A k \in S : k <= m
  BY <1>2
<1>4. m \in S
  <2>1. SUFFICES ASSUME m \notin S PROVE FALSE
    OBVIOUS
  <2>2. PICK k \in S : TRUE
    OBVIOUS
  <2>. HIDE DEF m
  <2>3. k \in Nat /\ k >= 1 /\ k <= m /\ k # m
    BY <1>3, <2>1
  <2>4. m - 1 \in Nat /\ \A i \in S : i <= m - 1
    BY <1>3, <2>1, <2>3
  <2>5. m <= m - 1
    BY <1>2, <2>4 DEF m
  <2>. QED
    BY <1>3, <2>5
<1>5. \E x \in S : \A k \in S : x >= k
  <2>. HIDE DEF m
  <2>. QED
    BY <1>3, <1>4
<1>. QED
  BY <1>5 DEF Max

(* What the fold that copies the gates goes through. *)
IsFold(base, list, n, f) ==
  f = [s \in SUBSET (1..n) |-> IF s = {} THEN base
                               ELSE AddGate(f[s \ {Max(s)}], list[Max(s)])]

LEMMA FoldExists ==
  ASSUME NEW base, NEW list
  PROVE  \A n \in Nat : \E f : IsFold(base, list, n, f)
<1>. DEFINE S == {n \in Nat : \E f : IsFold(base, list, n, f)}
<1>1. 0 \in S
  <2>. DEFINE f == [s \in SUBSET (1..0) |-> base]
  <2>1. \A s \in SUBSET (1..0) : s = {}
    OBVIOUS
  <2>2. f = [s \in SUBSET (1..0) |-> IF s = {} THEN base
                                     ELSE AddGate(f[s \ {Max(s)}], list[Max(s)])]
    BY <2>1
  <2>. HIDE DEF f
  <2>3. IsFold(base, list, 0, f)
    BY <2>2 DEF IsFold
  <2>. QED
    BY <2>3
<1>2. ASSUME NEW n \in S PROVE n + 1 \in S
  <2>1. PICK f : IsFold(base, list, n, f)
    OBVIOUS
  <2>. DEFINE h == [s \in SUBSET (1..(n + 1)) |-> IF s = {} THEN base
                                 ELSE AddGate(f[s \ {Max(s)}], list[Max(s)])]
  <2>2. n \in Nat /\ n + 1 \in Nat /\ SUBSET (1..n) \subseteq SUBSET (1..(n + 1))
    OBVIOUS
  <2>3. ASSUME NEW s \in SUBSET (1..n) PROVE h[s] = f[s]
    <3>1. f[s] = IF s = {} THEN base ELSE AddGate(f[s \ {Max(s)}], list[Max(s)])
      BY <2>1 DEF IsFold
    <3>2. s \in SUBSET (1..(n + 1))
      BY <2>2
    <3>. QED
      BY <3>1, <3>2
  <2>4. ASSUME NEW s \in SUBSET (1..(n + 1)), s # {} PROVE s \ {Max(s)} \in SUBSET (1..n)
    <3>1. Max(s) \in s /\ \A k \in s : k <= Max(s)
      BY <2>2, <2>4, MaxIsGreatest
    <3>2. SUFFICES ASSUME NEW k \in s, k # Max(s) PROVE k \in 1..n
      OBVIOUS
    <3>3. k \in 1..(n + 1) /\ Max(s) \in 1..(n + 1) /\ k <= Max(s)
      BY <3>1
    <3>. QED
      BY <2>2, <3>2, <3>3
  <2>5. h = [s \in SUBSET (1..(n + 1)) |-> IF s = {} THEN base
                                 ELSE AddGate(h[s \ {Max(s)}], list[Max(s)])]
    <3>1. \A s \in SUBSET (1..(n + 1)) : s # {} => h[s \ {Max(s)}] = f[s \ {Max(s)}]
      BY <2>3, <2>4
    <3>. QED
      BY <3>1
  <2>. HIDE DEF h
  <2>6. IsFold(base, list, n + 1, h)
    BY <2>5 DEF IsFold
  <2>. QED
    BY <2>2, <2>6
<1>3. S = Nat
  <2>. HIDE DEF S
  <2>. QED
    BY <1>1, <1>2, SetInduction DEF S
<1>. QED
  BY <1>3

LEMMA FoldLeftIsFold ==
  ASSUME NEW base, NEW G, NEW list \in Seq(G)
  PROVE  \E f : IsFold(base, list, Len(list), f) /\ FoldLeft(AddGate, base, list) = f[1..Len(list)]
<1>. DEFINE f == CHOOSE f : IsFold(base, list, Len(list), f)
<1>1. Len(list) \in Nat /\ DOMAIN list = 1..Len(list)
  OBVIOUS
<1>2. IsFold(base, list, Len(list), f)
  BY <1>1, FoldExists
<1>3. FoldLeft(AddGate, base, list) = f[1..Len(list)]
  BY <1>1 DEF FoldLeft, MapThenFoldSet, IsFold
<1>. QED
  BY <1>2, <1>3

(* The fold, gate by gate. *)
GatesAdded(base, list) == FoldLeft(AddGate, base, list)

LEMMA FoldLeftSteps ==
  ASSUME NEW base, NEW G, NEW list \in Seq(G)
  PROVE  \E f : /\ f[0] = base
                /\ \A k \in 1..Len(list) : f[k] = AddGate(f[k - 1], list[k])
                /\ GatesAdded(base, list) = f[Len(list)]
<1>1. PICK h : IsFold(base, list, Len(list), h) /\ FoldLeft(AddGate, base, list) = h[1..Len(list)]
  BY FoldLeftIsFold
<1>. DEFINE f == [k \in 0..Len(list) |-> h[1..k]]
<1>2. Len(list) \in Nat
  OBVIOUS
<1>3. f[0] = base
  <2>1. 1..0 = {} /\ {} \in SUBSET (1..Len(list)) /\ 0 \in 0..Len(list)
    BY <1>2
  <2>2. h[{}] = base
    BY <1>1, <2>1 DEF IsFold
  <2>. QED
    BY <2>1, <2>2
<1>4. ASSUME NEW k \in 1..Len(list) PROVE f[k] = AddGate(f[k - 1], list[k])
  <2>1. /\ 1..k \in SUBSET (1..Len(list)) /\ 1..k # {} /\ k \in 1..k
        /\ k \in 0..Len(list) /\ k - 1 \in 0..Len(list) /\ k \in Nat
    <3>1. k \in 1..k /\ k \in 0..Len(list) /\ k - 1 \in 0..Len(list) /\ k \in Nat
      BY <1>2
    <3>2. \A i \in 1..k : i \in 1..Len(list)
      BY <1>2
    <3>. QED
      BY <3>1, <3>2
  <2>2. Max(1..k) = k
    <3>1. Max(1..k) \in 1..k /\ \A i \in 1..k : i <= Max(1..k)
      BY <2>1, MaxIsGreatest
    <3>. QED
      BY <2>1, <3>1
  <2>3. (1..k) \ {k} = 1..(k - 1)
    BY <2>1
  <2>4. h[1..k] = AddGate(h[(1..k) \ {Max(1..k)}], list[Max(1..k)])
    BY <1>1, <2>1 DEF IsFold
  <2>. QED
    BY <2>1, <2>2, <2>3, <2>4
<1>5. Len(list) \in 0..Len(list)
  BY <1>2
<1>. QED
  BY <1>1, <1>3, <1>4, <1>5 DEF GatesAdded

----------------------------------------------------------------------------
(* The graph under construction. *)

(* Nodes keep their ids, names, types and edges. *)
Keeps(old, new) ==
  Grown(old, new) /\ \A i \in DOMAIN old : new[i].type = old[i].type

NodesAndGates(g) == \A v \in DOMAIN g : g[v].type \in {"NODE", "GATE"}

FoundIn(g) == \A v \in DOMAIN g : g[v].adj # <<>> => FindNode(g, g[v].name) = v

Shape(g) == IsGraph(g) /\ Simple(g) /\ NodesAndGates(g) /\ FoundIn(g)

LEMMA KeepsTwice ==
  ASSUME NEW old, NEW mid, NEW new, Keeps(old, mid), Keeps(mid, new)
  PROVE  Keeps(old, new)
BY DEF Keeps, Grown

(* The node a name finds stays the one it finds. *)
LEMMA KeepsFound ==
  ASSUME NEW old, NEW new, IsGraph(old), IsGraph(new), Keeps(old, new),
         NEW name, FindNode(old, name) # 0
  PROVE  FindNode(new, name) = FindNode(old, name)
<1>. DEFINE Hits(g) == {i \in DOMAIN g : g[i].name = name /\ Live(g[i])}
<1>1. /\ Hits(old) \in SUBSET Nat /\ Hits(new) \in SUBSET Nat
      /\ \A i \in Hits(new), k \in DOMAIN old : i <= k => i \in DOMAIN old
  BY DEF IsGraph
<1>2. Hits(old) # {} /\ FindNode(old, name) = Min(Hits(old))
  BY DEF FindNode
<1>3. Hits(old) \subseteq Hits(new)
  BY DEF Keeps, Grown, Live
<1>4. Hits(new) \cap DOMAIN old \subseteq Hits(old)
  BY DEF Keeps, Grown, Live
<1>5. FindNode(new, name) = Min(Hits(new))
  BY <1>2, <1>3 DEF FindNode
<1>6. Hits(old) \subseteq DOMAIN old
  OBVIOUS
<1>. HIDE DEF Hits
<1>7. Min(Hits(old)) \in Hits(old) /\ \A k \in Hits(old) : Min(Hits(old)) <= k
  BY <1>1, <1>2, MinIsLeast
<1>8. Min(Hits(new)) \in Hits(new) /\ \A k \in Hits(new) : Min(Hits(new)) <= k
  BY <1>1, <1>2, <1>3, MinIsLeast
<1>9. Min(Hits(new)) <= Min(Hits(old))
  BY <1>3, <1>7, <1>8
<1>10. Min(Hits(new)) \in Hits(old)
  BY <1>1, <1>4, <1>6, <1>7, <1>8, <1>9
<1>11. Min(Hits(old)) <= Min(Hits(new))
  BY <1>7, <1>10
<1>. QED
  BY <1>1, <1>2, <1>5, <1>7, <1>8, <1>9, <1>11

(* In a product a name that some node has finds a node. *)
LEMMA NameFinds ==
  ASSUME NEW g, IsGraph(g), NodesAndGates(g), NEW v \in DOMAIN g
  PROVE  FindNode(g, g[v].name) \in DOMAIN g
<1>1. Live(g[v])
  BY DEF NodesAndGates, Live
<1>. DEFINE hits == {i \in DOMAIN g : g[i].name = g[v].name /\ Live(g[i])}
<1>2. hits \in SUBSET Nat /\ hits # {} /\ FindNode(g, g[v].name) = Min(hits)
  BY <1>1 DEF FindNode, IsGraph
<1>3. Min(hits) \in hits
  <2>. HIDE DEF hits
  <2>. QED
    BY <1>2, MinIsLeast
<1>. QED
  BY <1>2, <1>3

LEMMA AddNodeShape ==
  ASSUME NEW g, Shape(g), NEW name \in Names, NEW type \in {"NODE", "GATE"}
  PROVE  LET h == AddNode(g, name, type)
         IN  /\ Shape(h) /\ Keeps(g, h)
             /\ DOMAIN h = DOMAIN g \cup {Len(g) + 1}
             /\ \A i \in DOMAIN g : h[i] = g[i]
             /\ h[Len(g) + 1] = [name |-> name, type |-> type, adj |-> <<>>]
<1>. DEFINE h == AddNode(g, name, type)
<1>1. IsGraph(g) /\ Simple(g) /\ NodesAndGates(g) /\ FoundIn(g) /\ type \in NodeTypes
  BY DEF Shape, NodeTypes
<1>2. /\ IsGraph(h)
      /\ Len(h) = Len(g) + 1
      /\ \A i \in DOMAIN g : h[i] = g[i]
      /\ h[Len(g) + 1] = [name |-> name, type |-> type, adj |-> <<>>]
      /\ Symmetric(g) => Symmetric(h)
      /\ Loopless(g) => Loopless(h)
  BY <1>1, AddNodeProperties
<1>3. Grown(g, h) /\ (NoParallel(g) => NoParallel(h))
  BY <1>1, AddNodeGrows
<1>. HIDE DEF h
<1>4. DOMAIN h = DOMAIN g \cup {Len(g) + 1}
  <2>1. /\ DOMAIN h = 1..Len(h) /\ DOMAIN g = 1..Len(g) /\ Len(g) \in Nat
    BY <1>1, <1>2 DEF IsGraph
  <2>. QED
    BY <1>2, <2>1
<1>5. Simple(h)
  BY <1>1, <1>2, <1>3 DEF Simple
<1>6. Keeps(g, h)
  BY <1>2, <1>3 DEF Keeps
<1>7. /\ h[Len(g) + 1].type = type /\ h[Len(g) + 1].adj = <<>>
  BY <1>2
<1>8. NodesAndGates(h)
  BY <1>1, <1>2, <1>4, <1>7 DEF NodesAndGates
<1>9. FoundIn(h)
  <2>1. SUFFICES ASSUME NEW v \in DOMAIN h, h[v].adj # <<>> PROVE FindNode(h, h[v].name) = v
    BY DEF FoundIn
  <2>2. v \in DOMAIN g /\ h[v] = g[v]
    BY <1>2, <1>4, <1>7, <2>1
  <2>3. FindNode(g, g[v].name) = v /\ v # 0
    BY <1>1, <2>1, <2>2 DEF FoundIn, IsGraph
  <2>. QED
    BY <1>1, <1>2, <1>6, <2>2, <2>3, KeepsFound
<1>. QED
  BY <1>2, <1>4, <1>5, <1>6, <1>8, <1>9 DEF Shape, h

(* An edge between two nodes found by name, and what it adds to the lists. *)
LEMMA AddEdgeNameEffect ==
  ASSUME NEW g, IsGraph(g), NEW nameA, NEW nameB, NEW at \in EdgeAttrs
  PROVE  LET h == AddEdgeName(g, nameA, nameB, at)
             a == FindNode(g, nameA)
             b == FindNode(g, nameB)
         IN  /\ IsGraph(h) /\ DOMAIN h = DOMAIN g
             /\ Keeps(g, h)
             /\ \A v \in DOMAIN g : \A k \in DOMAIN h[v].adj :
                  \/ k \in DOMAIN g[v].adj /\ h[v].adj[k] = g[v].adj[k]
                  \/ /\ a \in DOMAIN g /\ b \in DOMAIN g /\ a # b
                     /\ \/ v = a /\ h[v].adj[k] = [n |-> b, attrs |-> at]
                        \/ v = b /\ h[v].adj[k] = [n |-> a, attrs |-> at]
             /\ ~AddEdgeNameRefused(g, nameA, nameB) => AreAdjacent(h, a, b)
<1>. DEFINE a == FindNode(g, nameA)
            b == FindNode(g, nameB)
            h == AddEdgeId(g, a, b, at)
<1>1. a \in 0..Len(g) /\ b \in 0..Len(g)
  BY FindNodeRange DEF IsGraph
<1>. HIDE DEF a, b
<1>2. /\ IsGraph(h) /\ DOMAIN h = DOMAIN g
      /\ \A i \in DOMAIN g : h[i].name = g[i].name /\ h[i].type = g[i].type
      /\ Grown(g, h)
  BY <1>1, AddEdgeIdGraph
<1>3. Keeps(g, h)
  BY <1>2 DEF Keeps
<1>4. ~EdgeRefused(g, a, b) => AreAdjacent(h, a, b)
  BY <1>1, AddEdgeIdConnects
<1>5. \A v \in DOMAIN g : \A k \in DOMAIN h[v].adj :
        \/ k \in DOMAIN g[v].adj /\ h[v].adj[k] = g[v].adj[k]
        \/ /\ a \in DOMAIN g /\ b \in DOMAIN g /\ a # b
           /\ \/ v = a /\ h[v].adj[k] = [n |-> b, attrs |-> at]
              \/ v = b /\ h[v].adj[k] = [n |-> a, attrs |-> at]
  <2>1. CASE h = g
    BY <2>1
  <2>2. CASE Joined(g, h, a, b, at)
    <3>. HIDE DEF h
    <3>1. EntriesAfter(g, h, a, b, at)
      BY <2>2, JoinedEntries
    <3>2. a \in DOMAIN g /\ b \in DOMAIN g /\ a # b
      BY <2>2 DEF Joined
    <3>. QED
      BY <3>1, <3>2 DEF EntriesAfter
  <2>. QED
    BY <1>1, <2>1, <2>2, AddEdgeIdEffect
<1>6. AddEdgeName(g, nameA, nameB, at) = h /\ AddEdgeNameRefused(g, nameA, nameB) = EdgeRefused(g, a, b)
  BY DEF AddEdgeName, AddEdgeNameRefused, a, b
<1>. QED
  BY <1>2, <1>3, <1>4, <1>5, <1>6 DEF a, b

LEMMA AddEdgeNameShape ==
  ASSUME NEW g, Shape(g), NEW nameA, NEW nameB, NEW at \in EdgeAttrs
  PROVE  Shape(AddEdgeName(g, nameA, nameB, at))
<1>. DEFINE a == FindNode(g, nameA)
            b == FindNode(g, nameB)
            h == AddEdgeName(g, nameA, nameB, at)
<1>1. IsGraph(g) /\ Symmetric(g) /\ Loopless(g) /\ NoParallel(g) /\ NodesAndGates(g) /\ FoundIn(g)
  BY DEF Shape, Simple
<1>2. /\ IsGraph(h) /\ DOMAIN h = DOMAIN g
      /\ Keeps(g, h)
      /\ \A v \in DOMAIN g : \A k \in DOMAIN h[v].adj :
           \/ k \in DOMAIN g[v].adj /\ h[v].adj[k] = g[v].adj[k]
           \/ /\ a \in DOMAIN g /\ b \in DOMAIN g /\ a # b
              /\ \/ v = a /\ h[v].adj[k] = [n |-> b, attrs |-> at]
                 \/ v = b /\ h[v].adj[k] = [n |-> a, attrs |-> at]
  BY <1>1, AddEdgeNameEffect
<1>3. Symmetric(h) /\ Loopless(h)
  BY <1>1, AddEdgeNameProperties
<1>4. NoParallel(h)
  <2>1. a \in 0..Len(g) /\ b \in 0..Len(g)
    BY <1>1, FindNodeRange DEF IsGraph
  <2>2. NoParallel(AddEdgeId(g, a, b, at))
    <3>. HIDE DEF a, b
    <3>. QED
      BY <1>1, <2>1, AddEdgeIdNoParallel
  <2>. QED
    BY <2>2 DEF AddEdgeName
<1>5. /\ a # 0 => g[a].name = nameA
      /\ b # 0 => g[b].name = nameB
      /\ 0 \notin DOMAIN g
  BY <1>1, FindNodeRange DEF IsGraph
<1>. HIDE DEF h
<1>6. NodesAndGates(h)
  BY <1>1, <1>2 DEF NodesAndGates, Keeps
<1>7. FoundIn(h)
  <2>1. SUFFICES ASSUME NEW v \in DOMAIN h, h[v].adj # <<>> PROVE FindNode(h, h[v].name) = v
    BY DEF FoundIn
  <2>2. v \in DOMAIN g /\ h[v].name = g[v].name /\ v # 0
    BY <1>2, <1>5 DEF Keeps, Grown
  <2>3. 1 \in DOMAIN h[v].adj
    <3>1. h[v].adj \in Seq(Edge)
      BY <1>2, NodeFields
    <3>. QED
      BY <2>1, <3>1
  <2>4. FindNode(g, g[v].name) = v
    <3>1. CASE 1 \in DOMAIN g[v].adj
      <4>1. g[v].adj # <<>>
        BY <3>1
      <4>. QED
        BY <1>1, <2>2, <4>1 DEF FoundIn
    <3>2. CASE v = a \/ v = b
      BY <1>5, <2>2, <3>2
    <3>. QED
      BY <1>2, <2>2, <2>3, <3>1, <3>2
  <2>. QED
    BY <1>1, <1>2, <2>2, <2>4, KeepsFound
<1>. QED
  BY <1>2, <1>3, <1>4, <1>6, <1>7 DEF Shape, Simple, h

----------------------------------------------------------------------------
(* The lists that are gone through. *)

NodesOf(h) == {i \in DOMAIN h : h[i].type = "NODE"}

LEMMA NodeIdsIs ==
  ASSUME NEW h
  PROVE  NodeIds(h) = FlattenSeq(Passing([i \in DOMAIN h |-> i], NodesOf(h)))
<1>. DEFINE ids == [i \in DOMAIN h |-> i]
<1>1. NodeIds(h) = FlattenSeq([k \in DOMAIN ids |-> IF h[ids[k]].type = "NODE" THEN <<ids[k]>> ELSE <<>>])
  BY DEF NodeIds, Where, ForEach
<1>2. [k \in DOMAIN ids |-> IF h[ids[k]].type = "NODE" THEN <<ids[k]>> ELSE <<>>] = Passing(ids, NodesOf(h))
  BY DEF Passing, NodesOf
<1>. QED
  BY <1>1, <1>2

LEMMA NodeIdsMembers ==
  ASSUME NEW h \in Seq(Node)
  PROVE  NodeIds(h) \in Seq(NodesOf(h)) /\ Range(NodeIds(h)) = NodesOf(h)
<1>. DEFINE ids == [i \in DOMAIN h |-> i]
<1>1. ids \in Seq(DOMAIN h) /\ DOMAIN ids = DOMAIN h
  OBVIOUS
<1>2. Range(ids) = DOMAIN h
  BY DEF Range
<1>3. DOMAIN h \cap NodesOf(h) = NodesOf(h)
  BY DEF NodesOf
<1>. HIDE DEF ids
<1>4. /\ FlattenSeq(Passing(ids, NodesOf(h))) \in Seq(DOMAIN h \cap NodesOf(h))
      /\ Range(FlattenSeq(Passing(ids, NodesOf(h)))) = Range(ids) \cap NodesOf(h)
  BY <1>1, PassingMembers
<1>. QED
  BY <1>2, <1>3, <1>4, NodeIdsIs DEF ids

(* A NODE that is added comes last; gates and edges change nothing here. *)
LEMMA NodeIdsMore ==
  ASSUME NEW g \in Seq(Node), NEW name \in Names, NEW type \in NodeTypes
  PROVE  NodeIds(AddNode(g, name, type)) =
           NodeIds(g) \o (IF type = "NODE" THEN <<Len(g) + 1>> ELSE <<>>)
<1>. DEFINE node == [name |-> name, type |-> type, adj |-> <<>>]
            h    == AddNode(g, name, type)
            old  == Passing([i \in DOMAIN g |-> i], NodesOf(g))
            last == IF type = "NODE" THEN <<Len(g) + 1>> ELSE <<>>
            new  == Passing([i \in DOMAIN h |-> i], NodesOf(h))
<1>1. node \in Node /\ node.type = type
  BY DEF Node
<1>2. /\ h \in Seq(Node) /\ Len(h) = Len(g) + 1 /\ Len(g) \in Nat
      /\ DOMAIN h = 1..(Len(g) + 1) /\ DOMAIN g = 1..Len(g)
      /\ \A i \in 1..Len(g) : h[i] = g[i]
      /\ h[Len(g) + 1] = node
  BY <1>1 DEF AddNode
<1>. HIDE DEF node, h
<1>3. old \in Seq(Seq(Nat)) /\ Len(old) = Len(g) /\ last \in Seq(Nat)
  BY <1>2 DEF Passing
<1>4. \A i \in 1..Len(g) : i \in NodesOf(h) <=> i \in NodesOf(g)
  BY <1>2 DEF NodesOf
<1>5. Len(g) + 1 \in NodesOf(h) <=> type = "NODE"
  BY <1>1, <1>2 DEF NodesOf
<1>6. new = Append(old, last)
  <2>1. /\ Append(old, last) \in Seq(Seq(Nat)) /\ DOMAIN Append(old, last) = 1..(Len(g) + 1)
        /\ Append(old, last)[Len(g) + 1] = last
        /\ \A i \in 1..Len(g) : Append(old, last)[i] = old[i]
    <3>. HIDE DEF old, last
    <3>. QED
      BY <1>2, <1>3
  <2>2. /\ \A i \in 1..(Len(g) + 1) : new[i] = IF i \in NodesOf(h) THEN <<i>> ELSE <<>>
        /\ \A i \in 1..Len(g) : old[i] = IF i \in NodesOf(g) THEN <<i>> ELSE <<>>
        /\ new = [i \in 1..(Len(g) + 1) |-> new[i]]
    BY <1>2 DEF Passing
  <2>3. \A i \in 1..(Len(g) + 1) : i \in 1..Len(g) \/ i = Len(g) + 1
    BY <1>2
  <2>4. new[Len(g) + 1] = last
    BY <1>2, <1>5, <2>2
  <2>. HIDE DEF old, last, new
  <2>5. \A i \in 1..(Len(g) + 1) : new[i] = Append(old, last)[i]
    BY <1>4, <2>1, <2>2, <2>3, <2>4
  <2>6. \A s \in Seq(Seq(Nat)) : s = [i \in DOMAIN s |-> s[i]]
    OBVIOUS
  <2>7. Append(old, last) = [i \in 1..(Len(g) + 1) |-> Append(old, last)[i]]
    BY <2>1, <2>6
  <2>. QED
    BY <2>2, <2>5, <2>7
<1>7. FlattenSeq(Append(old, last)) = FlattenSeq(old) \o last
  <2>. HIDE DEF old, last
  <2>. QED
    BY <1>3, FlattenMore
<1>. QED
  BY <1>6, <1>7, NodeIdsIs DEF h

LEMMA NodeIdsSame ==
  ASSUME NEW g, NEW h, DOMAIN h = DOMAIN g, Keeps(g, h)
  PROVE  NodeIds(h) = NodeIds(g)
<1>1. NodesOf(h) = NodesOf(g)
  BY DEF NodesOf, Keeps
<1>. QED
  BY <1>1, NodeIdsIs

(* The names of the NODEs, in their order. *)
NodeNames(g) == [k \in DOMAIN NodeIds(g) |-> g[NodeIds(g)[k]].name]

LEMMA NodeNamesSame ==
  ASSUME NEW g \in Seq(Node), NEW h, DOMAIN h = DOMAIN g, Keeps(g, h)
  PROVE  NodeNames(h) = NodeNames(g)
<1>1. NodeIds(h) = NodeIds(g)
  BY NodeIdsSame
<1>2. \A k \in DOMAIN NodeIds(g) : NodeIds(g)[k] \in DOMAIN g
  <2>1. NodeIds(g) \in Seq(NodesOf(g)) /\ NodesOf(g) \subseteq DOMAIN g
    BY NodeIdsMembers DEF NodesOf
  <2>2. \A k \in DOMAIN NodeIds(g) : NodeIds(g)[k] \in NodesOf(g)
    BY <2>1
  <2>. QED
    BY <2>1, <2>2
<1>. QED
  BY <1>1, <1>2 DEF NodeNames, Keeps, Grown

LEMMA NodeNamesMore ==
  ASSUME NEW g \in Seq(Node), NEW name \in Names, NEW type \in NodeTypes
  PROVE  /\ NodeNames(g) \in Seq(Names)
         /\ NodeNames(AddNode(g, name, type)) =
              NodeNames(g) \o (IF type = "NODE" THEN <<name>> ELSE <<>>)
<1>. DEFINE h == AddNode(g, name, type)
            n == Len(NodeIds(g))
<1>1. /\ n \in Nat /\ DOMAIN NodeIds(g) = 1..n /\ NodeIds(g) \in Seq(Nat)
      /\ \A k \in 1..n : NodeIds(g)[k] \in DOMAIN g
  <2>1. NodeIds(g) \in Seq(NodesOf(g))
    BY NodeIdsMembers
  <2>2. NodesOf(g) \subseteq DOMAIN g /\ NodesOf(g) \subseteq Nat
    BY DEF NodesOf
  <2>. QED
    BY <2>1, <2>2
<1>2. /\ \A i \in DOMAIN g : h[i] = g[i] /\ g[i].name \in Names
      /\ h[Len(g) + 1].name = name
  <2>. DEFINE node == [name |-> name, type |-> type, adj |-> <<>>]
  <2>1. node \in Node /\ node.name = name
    BY DEF Node
  <2>2. \A i \in DOMAIN g : g[i].name \in Names
    <3>1. \A i \in DOMAIN g : g[i] \in Node
      OBVIOUS
    <3>. QED
      BY <3>1 DEF Node
  <2>3. h = Append(g, node)
    BY DEF AddNode
  <2>. HIDE DEF node, h
  <2>4. h[Len(g) + 1] = node /\ \A i \in DOMAIN g : h[i] = g[i]
    BY <2>1, <2>3
  <2>. QED
    BY <2>1, <2>2, <2>4
<1>3. NodeIds(h) = NodeIds(g) \o (IF type = "NODE" THEN <<Len(g) + 1>> ELSE <<>>)
  BY NodeIdsMore
<1>4. NodeNames(g) \in Seq(Names) /\ DOMAIN NodeNames(g) = 1..n /\ Len(NodeNames(g)) = n
  BY <1>1, <1>2 DEF NodeNames
<1>. HIDE DEF h
<1>5. CASE type # "NODE"
  <2>1. NodeIds(h) = NodeIds(g)
    BY <1>1, <1>3, <1>5
  <2>2. NodeNames(h) = NodeNames(g)
    BY <1>1, <1>2, <2>1 DEF NodeNames
  <2>3. NodeNames(g) \o <<>> = NodeNames(g)
    BY <1>4
  <2>. QED
    BY <1>4, <1>5, <2>2, <2>3 DEF h
<1>6. CASE type = "NODE"
  <2>1. /\ DOMAIN NodeIds(h) = 1..(n + 1) /\ NodeIds(h)[n + 1] = Len(g) + 1
        /\ \A k \in 1..n : NodeIds(h)[k] = NodeIds(g)[k]
    BY <1>1, <1>3, <1>6
  <2>2. /\ \A k \in 1..n : NodeNames(h)[k] = NodeNames(g)[k]
        /\ NodeNames(h)[n + 1] = name
        /\ NodeNames(h) = [k \in 1..(n + 1) |-> NodeNames(h)[k]]
    BY <1>1, <1>2, <2>1 DEF NodeNames
  <2>3. /\ NodeNames(g) \o <<name>> = [k \in 1..(n + 1) |-> (NodeNames(g) \o <<name>>)[k]]
        /\ \A k \in 1..n : (NodeNames(g) \o <<name>>)[k] = NodeNames(g)[k]
        /\ (NodeNames(g) \o <<name>>)[n + 1] = name
    BY <1>1, <1>4
  <2>4. \A k \in 1..(n + 1) : k \in 1..n \/ k = n + 1
    BY <1>1
  <2>5. \A k \in 1..(n + 1) : NodeNames(h)[k] = (NodeNames(g) \o <<name>>)[k]
    BY <2>2, <2>3, <2>4
  <2>. HIDE DEF n
  <2>6. [k \in 1..(n + 1) |-> NodeNames(h)[k]] = [k \in 1..(n + 1) |-> (NodeNames(g) \o <<name>>)[k]]
    BY <2>5
  <2>. QED
    BY <1>4, <1>6, <2>2, <2>3, <2>6 DEF h
<1>. QED
  BY <1>5, <1>6

----------------------------------------------------------------------------
(* The operands, and what is made of them, for any two graphs A and B. *)

EntrySet(h, v, type) == {e \in Range(h[v].adj) : h[e.n].type = type}

LEMMA EntriesMembers ==
  ASSUME NEW h, IsGraph(h), NEW v \in DOMAIN h, NEW type
  PROVE  /\ Entries(h, v, type) \in Seq(EntrySet(h, v, type))
         /\ Range(Entries(h, v, type)) = EntrySet(h, v, type)
         /\ \A e \in EntrySet(h, v, type) :
              e \in Edge /\ e.n \in DOMAIN h /\ h[e.n].type = type
<1>. DEFINE adj == h[v].adj
            T   == EntrySet(h, v, type)
<1>1. adj \in Seq(Edge) /\ adj \in Seq(Range(adj))
  <2>1. adj \in Seq(Edge)
    BY NodeFields
  <2>. HIDE DEF adj
  <2>2. adj = [k \in 1..Len(adj) |-> adj[k]] /\ Len(adj) \in Nat /\ DOMAIN adj = 1..Len(adj)
    BY <2>1
  <2>3. \A k \in 1..Len(adj) : adj[k] \in Range(adj)
    BY <2>2 DEF Range
  <2>. QED
    BY <2>1, <2>2, <2>3
<1>2. Entries(h, v, type) = FlattenSeq([k \in DOMAIN adj |-> IF h[adj[k].n].type = type THEN <<adj[k]>> ELSE <<>>])
  BY DEF Entries, Where, ForEach
<1>3. \A k \in DOMAIN adj : h[adj[k].n].type = type <=> adj[k] \in T
  BY DEF EntrySet, Range
<1>4. [k \in DOMAIN adj |-> IF h[adj[k].n].type = type THEN <<adj[k]>> ELSE <<>>] = Passing(adj, T)
  BY <1>3 DEF Passing
<1>5. Range(adj) \cap T = T
  BY DEF EntrySet
<1>6. /\ FlattenSeq(Passing(adj, T)) \in Seq(Range(adj) \cap T)
      /\ Range(FlattenSeq(Passing(adj, T))) = Range(adj) \cap T
  <2>. HIDE DEF adj, T
  <2>. QED
    BY <1>1, PassingMembers
<1>7. \A e \in T : e \in Edge /\ e.n \in DOMAIN h /\ h[e.n].type = type
  <2>1. \A k \in DOMAIN adj : adj[k] \in Edge
    BY <1>1
  <2>2. \A k \in DOMAIN adj : adj[k].n \in DOMAIN h
    BY DEF IsGraph
  <2>. QED
    BY <2>1, <2>2 DEF EntrySet, Range
<1>. QED
  BY <1>2, <1>4, <1>5, <1>6, <1>7

(* The gates of a node are copied with their names and attributes. *)
GateCopies == [name : Names \ {<<>>}, attrs : EdgeAttrs]

IsOperand(h) ==
  /\ IsGraph(h)
  /\ \A i \in DOMAIN h : h[i].type = "GATE" => h[i].name # <<>>

LEMMA GatesOfMembers ==
  ASSUME NEW h, IsOperand(h), NEW v \in DOMAIN h
  PROVE  GatesOf(h, v) \in Seq(GateCopies)
<1>. DEFINE es == Entries(h, v, "GATE")
<1>1. /\ es \in Seq(EntrySet(h, v, "GATE"))
      /\ \A e \in EntrySet(h, v, "GATE") :
              e \in Edge /\ e.n \in DOMAIN h /\ h[e.n].type = "GATE"
  BY EntriesMembers DEF IsOperand
<1>. HIDE DEF es
<1>2. /\ DOMAIN es = 1..Len(es) /\ Len(es) \in Nat
      /\ \A k \in DOMAIN es : es[k] \in EntrySet(h, v, "GATE")
  BY <1>1
<1>3. ASSUME NEW k \in DOMAIN es
      PROVE  [name |-> h[es[k].n].name, attrs |-> es[k].attrs] \in GateCopies
  <2>1. es[k] \in Edge /\ es[k].n \in DOMAIN h /\ h[es[k].n].type = "GATE"
    BY <1>1, <1>2
  <2>2. h[es[k].n].name \in Names
    BY <2>1, NodeFields DEF IsOperand
  <2>3. h[es[k].n].name # <<>> /\ es[k].attrs \in EdgeAttrs
    BY <2>1 DEF IsOperand, Edge
  <2>. QED
    BY <2>2, <2>3 DEF GateCopies
<1>4. [k \in DOMAIN es |-> [name |-> h[es[k].n].name, attrs |-> es[k].attrs]] \in Seq(GateCopies)
  BY <1>2, <1>3
<1>. QED
  BY <1>4 DEF GatesOf, es

PairIn(A, B, c) == Pair(A[c[1]].name, B[c[2]].name)

GatesIn(A, B, c) == GatesOf(A, c[1]) \o GatesOf(B, c[2])

CellList(A, B) ==
  ForEach(NodeIds(A), LAMBDA i : [j \in DOMAIN NodeIds(B) |-> <<i, NodeIds(B)[j]>>])

CellsIn(A, B) == NodesOf(A) \X NodesOf(B)

LEMMA CellListMembers ==
  ASSUME NEW A \in Seq(Node), NEW B \in Seq(Node)
  PROVE  CellList(A, B) \in Seq(CellsIn(A, B)) /\ Range(CellList(A, B)) = CellsIn(A, B)
<1>. DEFINE xs == NodeIds(A)
            ys == NodeIds(B)
            rows == [k \in DOMAIN xs |-> [j \in DOMAIN ys |-> <<xs[k], ys[j]>>]]
<1>1. /\ xs \in Seq(NodesOf(A)) /\ Range(xs) = NodesOf(A)
      /\ ys \in Seq(NodesOf(B)) /\ Range(ys) = NodesOf(B)
  BY NodeIdsMembers
<1>2. CellList(A, B) = FlattenSeq(rows)
  BY DEF CellList, ForEach
<1>. HIDE DEF xs, ys
<1>3. /\ DOMAIN xs = 1..Len(xs) /\ Len(xs) \in Nat /\ DOMAIN ys = 1..Len(ys) /\ Len(ys) \in Nat
      /\ \A k \in DOMAIN xs : xs[k] \in NodesOf(A)
      /\ \A j \in DOMAIN ys : ys[j] \in NodesOf(B)
  <2>1. /\ DOMAIN xs = 1..Len(xs) /\ Len(xs) \in Nat
        /\ \A k \in DOMAIN xs : xs[k] \in NodesOf(A)
    BY <1>1, SeqParts
  <2>2. /\ DOMAIN ys = 1..Len(ys) /\ Len(ys) \in Nat
        /\ \A j \in DOMAIN ys : ys[j] \in NodesOf(B)
    BY <1>1
  <2>. QED
    BY <2>1, <2>2
<1>4. \A k \in DOMAIN xs, j \in DOMAIN ys : <<xs[k], ys[j]>> \in CellsIn(A, B)
  BY <1>3 DEF CellsIn
<1>5. ASSUME NEW k \in DOMAIN xs
      PROVE  /\ rows[k] \in Seq(CellsIn(A, B))
             /\ Range(rows[k]) = {<<xs[k], ys[j]>> : j \in DOMAIN ys}
  <2>1. rows[k] = [j \in DOMAIN ys |-> <<xs[k], ys[j]>>]
    OBVIOUS
  <2>. HIDE DEF rows
  <2>2. rows[k] \in Seq(CellsIn(A, B))
    <3>1. \A j \in DOMAIN ys : rows[k][j] \in CellsIn(A, B)
      BY <1>3, <1>4, <2>1
    <3>2. DOMAIN rows[k] = DOMAIN ys /\ rows[k] = [j \in DOMAIN rows[k] |-> rows[k][j]]
      BY <2>1
    <3>. QED
      BY <1>3, <3>1, <3>2, SequenceOf
  <2>. QED
    BY <2>1, <2>2 DEF Range
<1>6. rows \in Seq(Seq(CellsIn(A, B))) /\ DOMAIN rows = DOMAIN xs
  <2>1. DOMAIN rows = DOMAIN xs /\ rows = [k \in DOMAIN rows |-> rows[k]]
    OBVIOUS
  <2>. HIDE DEF rows
  <2>. QED
    BY <1>3, <1>5, <2>1, SequenceOf
<1>. HIDE DEF rows
<1>7. /\ FlattenSeq(rows) \in Seq(CellsIn(A, B))
      /\ Range(FlattenSeq(rows)) = UNION {Range(rows[k]) : k \in DOMAIN rows}
  BY <1>6, FlattenMembers
<1>8. \A c : c \in UNION {Range(rows[k]) : k \in DOMAIN rows} <=>
            \E k \in DOMAIN xs, j \in DOMAIN ys : c = <<xs[k], ys[j]>>
  <2>1. \A c : \A k \in DOMAIN xs : c \in Range(rows[k]) <=> \E j \in DOMAIN ys : c = <<xs[k], ys[j]>>
    BY <1>5
  <2>2. \A c : c \in UNION {Range(rows[k]) : k \in DOMAIN rows} <=>
                \E k \in DOMAIN xs : c \in Range(rows[k])
    BY <1>6
  <2>. QED
    BY <2>1, <2>2, Zenon
<1>9. \A c : (\E k \in DOMAIN xs, j \in DOMAIN ys : c = <<xs[k], ys[j]>>) <=> c \in CellsIn(A, B)
  <2>1. \A x \in NodesOf(A) : \E k \in DOMAIN xs : xs[k] = x
    BY <1>1 DEF Range
  <2>2. \A x \in NodesOf(B) : \E j \in DOMAIN ys : ys[j] = x
    BY <1>1 DEF Range
  <2>3. \A c \in CellsIn(A, B) : c[1] \in NodesOf(A) /\ c[2] \in NodesOf(B) /\ c = <<c[1], c[2]>>
    BY DEF CellsIn
  <2>. QED
    BY <1>4, <2>1, <2>2, <2>3
<1>. QED
  BY <1>2, <1>7, <1>8, <1>9

LEMMA PairIsName ==
  ASSUME NEW A, NEW B, IsGraph(A), IsGraph(B), NEW c \in (DOMAIN A) \X (DOMAIN B)
  PROVE  PairIn(A, B, c) \in Names
<1>1. A[c[1]].name \in Names /\ B[c[2]].name \in Names
  <2>1. c[1] \in DOMAIN A /\ c[2] \in DOMAIN B
    OBVIOUS
  <2>. QED
    BY <2>1, NodeFields
<1>2. /\ <<<<Open, -1>>>> \in Names /\ <<<<Comma, -1>>>> \in Names /\ <<<<Close, -1>>>> \in Names
  BY ProductsAssumption DEF Names, Parts
<1>. QED
  BY <1>1, <1>2 DEF PairIn, Pair, Names

LEMMA GatesInMembers ==
  ASSUME NEW A, NEW B, IsOperand(A), IsOperand(B), NEW c \in (DOMAIN A) \X (DOMAIN B)
  PROVE  GatesIn(A, B, c) \in Seq(GateCopies)
<1>1. GatesOf(A, c[1]) \in Seq(GateCopies) /\ GatesOf(B, c[2]) \in Seq(GateCopies)
  <2>1. c[1] \in DOMAIN A /\ c[2] \in DOMAIN B
    OBVIOUS
  <2>. QED
    BY <2>1, GatesOfMembers
<1>. QED
  BY <1>1 DEF GatesIn

LEMMA OperandsAre == \A h \in Operands : IsOperand(h)
BY ProductsAssumption DEF IsOperand

----------------------------------------------------------------------------
(* One cell: the pair, and then one gate after the other. *)

(* From g to h one gate of that name was made and connected to the pair nm. *)
GateStep(g, h, nm, full) ==
  LET a == FindNode(h, nm)
      b == FindNode(h, full)
  IN  /\ Shape(h) /\ Keeps(g, h) /\ NodeNames(h) = NodeNames(g)
      /\ a = FindNode(g, nm) /\ a \in DOMAIN g /\ b \in DOMAIN h
      /\ h[a].name = nm /\ h[b].name = full
      /\ AreAdjacent(h, a, b)
      /\ \A v \in DOMAIN h : v \in DOMAIN g \/ (h[v].type = "GATE" /\ h[v].name = full)
      /\ \A v \in DOMAIN h : \A k \in DOMAIN h[v].adj :
           \/ v \in DOMAIN g /\ k \in DOMAIN g[v].adj /\ h[v].adj[k] = g[v].adj[k]
           \/ v = a /\ h[v].adj[k].n = b
           \/ v = b /\ h[v].adj[k].n = a

Making(g, nm) == [graph |-> g, name |-> nm, refused |-> FALSE]

LEMMA LongerName ==
  ASSUME NEW nm \in Names, NEW tail \in Names, tail # <<>>
  PROVE  nm \o tail \in Names /\ nm \o tail # nm
<1>1. Len(nm) \in Nat /\ Len(tail) \in Nat /\ Len(nm \o tail) = Len(nm) + Len(tail) /\ nm \o tail \in Names
  BY DEF Names
<1>2. Len(tail) # 0
  BY DEF Names
<1>3. Len(nm \o tail) # Len(nm)
  BY <1>1, <1>2
<1>. QED
  BY <1>1, <1>3

LEMMA AddGateStep ==
  ASSUME NEW g, Shape(g), NEW nm \in Names, FindNode(g, nm) # 0, NEW gate \in GateCopies
  PROVE  \E h : /\ AddGate(Making(g, nm), gate) = Making(h, nm)
                /\ GateStep(g, h, nm, nm \o gate.name)
<1>. DEFINE full == nm \o gate.name
            more == AddNode(g, full, "GATE")
            h    == AddEdgeName(more, nm, full, gate.attrs)
            a    == FindNode(g, nm)
            b    == FindNode(more, full)
<1>1. gate.name \in Names /\ gate.name # <<>> /\ gate.attrs \in EdgeAttrs
  BY DEF GateCopies
<1>2. full \in Names /\ full # nm
  BY <1>1, LongerName
<1>. HIDE DEF full
<1>3. IsGraph(g)
  BY DEF Shape
<1>4. /\ Shape(more) /\ Keeps(g, more)
      /\ DOMAIN more = DOMAIN g \cup {Len(g) + 1}
      /\ \A i \in DOMAIN g : more[i] = g[i]
      /\ more[Len(g) + 1] = [name |-> full, type |-> "GATE", adj |-> <<>>]
  BY <1>2, AddNodeShape
<1>5. NodeNames(more) = NodeNames(g)
  <2>1. g \in Seq(Node) /\ "GATE" \in NodeTypes /\ "GATE" # "NODE"
    BY <1>3 DEF IsGraph, NodeTypes
  <2>2. /\ NodeNames(g) \in Seq(Names)
        /\ NodeNames(more) = NodeNames(g) \o (IF "GATE" = "NODE" THEN <<full>> ELSE <<>>)
    BY <1>2, <2>1, NodeNamesMore
  <2>3. NodeNames(g) \o <<>> = NodeNames(g)
    BY <2>2
  <2>. QED
    BY <2>1, <2>2, <2>3
<1>. HIDE DEF more
<1>6. IsGraph(more) /\ NodesAndGates(more)
  BY <1>4 DEF Shape
<1>7. /\ more[Len(g) + 1].name = full /\ more[Len(g) + 1].type = "GATE" /\ more[Len(g) + 1].adj = <<>>
      /\ Len(g) + 1 \in DOMAIN more
  BY <1>4
<1>8. b \in DOMAIN more /\ more[b].name = full
  <2>1. b \in DOMAIN more
    BY <1>6, <1>7, NameFinds
  <2>2. b # 0
    BY <2>1, <1>6 DEF IsGraph
  <2>. QED
    BY <1>6, <2>1, <2>2, FindNodeRange DEF IsGraph
<1>9. a \in DOMAIN g /\ g[a].name = nm
  <2>1. g \in Seq(Node)
    BY <1>3 DEF IsGraph
  <2>2. a \in 0..Len(g) /\ a # 0 /\ g[a].name = nm
    BY <2>1, FindNodeRange
  <2>. QED
    BY <2>1, <2>2
<1>10. FindNode(more, nm) = a
  BY <1>3, <1>4, <1>6, KeepsFound
<1>. HIDE DEF a, b
<1>11. a # b /\ a \in DOMAIN more
  BY <1>2, <1>4, <1>8, <1>9
<1>12. ~AddEdgeNameRefused(more, nm, full)
  <2>1. a \in 1..Len(more) /\ b \in 1..Len(more) /\ Len(more) \in Nat
    BY <1>6, <1>8, <1>11 DEF IsGraph
  <2>2. ~EdgeRefused(more, a, b)
    BY <1>11, <2>1 DEF EdgeRefused
  <2>. QED
    BY <1>10, <2>2 DEF AddEdgeNameRefused, b
<1>13. /\ IsGraph(h) /\ DOMAIN h = DOMAIN more /\ Keeps(more, h)
       /\ AreAdjacent(h, a, b)
       /\ \A v \in DOMAIN more : \A k \in DOMAIN h[v].adj :
            \/ k \in DOMAIN more[v].adj /\ h[v].adj[k] = more[v].adj[k]
            \/ v = a /\ h[v].adj[k] = [n |-> b, attrs |-> gate.attrs]
            \/ v = b /\ h[v].adj[k] = [n |-> a, attrs |-> gate.attrs]
  BY <1>1, <1>6, <1>10, <1>12, AddEdgeNameEffect DEF b
<1>14. Shape(h)
  BY <1>1, <1>4, AddEdgeNameShape
<1>15. NodeNames(h) = NodeNames(more)
  BY <1>6, <1>13, NodeNamesSame DEF IsGraph
<1>16. FindNode(h, nm) = a /\ FindNode(h, full) = b
  <2>1. a # 0 /\ b # 0
    BY <1>6, <1>8, <1>11 DEF IsGraph
  <2>2. FindNode(more, full) = b
    BY DEF b
  <2>. QED
    BY <1>6, <1>10, <1>13, <2>1, <2>2, KeepsFound
<1>17. AddGate(Making(g, nm), gate) = Making(h, nm)
  <2>. HIDE DEF h
  <2>1. Making(g, nm).graph = g /\ Making(g, nm).name = nm
    BY DEF Making
  <2>2. Making(g, nm).refused = FALSE
    BY Zenon DEF Making
  <2>3. AddEdgeNameRefused(more, nm, full) = FALSE
    BY <1>12 DEF AddEdgeNameRefused, EdgeRefused
  <2>. QED
    BY <2>1, <2>2, <2>3 DEF AddGate, Making, h, more, full
<1>. HIDE DEF h
<1>18. Keeps(g, h)
  BY <1>4, <1>13, KeepsTwice
<1>19. /\ h[a].name = nm /\ h[b].name = full
       /\ \A v \in DOMAIN h : v \in DOMAIN g \/ (h[v].type = "GATE" /\ h[v].name = full)
  BY <1>4, <1>7, <1>8, <1>9, <1>11, <1>13, <1>18 DEF Keeps, Grown
<1>20. ASSUME NEW v \in DOMAIN h, NEW k \in DOMAIN h[v].adj
       PROVE  \/ v \in DOMAIN g /\ k \in DOMAIN g[v].adj /\ h[v].adj[k] = g[v].adj[k]
              \/ v = a /\ h[v].adj[k].n = b
              \/ v = b /\ h[v].adj[k].n = a
  <2>1. CASE k \in DOMAIN more[v].adj /\ h[v].adj[k] = more[v].adj[k]
    <3>1. v \in DOMAIN g
      <4>1. DOMAIN <<>> = {}
        OBVIOUS
      <4>. QED
        BY <1>4, <1>7, <1>13, <2>1, <4>1
    <3>. QED
      BY <1>4, <2>1, <3>1
  <2>2. CASE h[v].adj[k] = [n |-> b, attrs |-> gate.attrs] /\ v = a
    BY <2>2
  <2>3. CASE h[v].adj[k] = [n |-> a, attrs |-> gate.attrs] /\ v = b
    BY <2>3
  <2>. QED
    BY <1>13, <2>1, <2>2, <2>3
<1>21. GateStep(g, h, nm, full)
  BY <1>5, <1>8, <1>9, <1>10, <1>13, <1>14, <1>15, <1>16, <1>18, <1>19, <1>20 DEF GateStep, a
<1>. QED
  BY <1>17, <1>21 DEF full

----------------------------------------------------------------------------
(* Pairs and their gates, told by their names. *)

Tells(A, B) ==
  /\ \A c, d \in CellsIn(A, B) : PairIn(A, B, c) = PairIn(A, B, d) => c = d
  /\ \A c \in CellsIn(A, B), d \in (DOMAIN A) \X (DOMAIN B) :
       \A gate \in Range(GatesIn(A, B, c)) : PairIn(A, B, c) \o gate.name # PairIn(A, B, d)

IsGateOf(A, B, nm, full) ==
  \E c \in CellsIn(A, B) :
    nm = PairIn(A, B, c) /\ \E gate \in Range(GatesIn(A, B, c)) : full = nm \o gate.name

Named(A, B, g) ==
  \A v \in DOMAIN g :
    /\ g[v].type = "NODE" => \E c \in CellsIn(A, B) : g[v].name = PairIn(A, B, c)
    /\ g[v].type = "GATE" => \E nm : IsGateOf(A, B, nm, g[v].name)

(* The gates next to a pair are its own. *)
OwnGates(A, B, g) ==
  \A v \in DOMAIN g : \A k \in DOMAIN g[v].adj :
    g[v].type = "NODE" /\ g[g[v].adj[k].n].type = "GATE" =>
      IsGateOf(A, B, g[v].name, g[g[v].adj[k].n].name)

(* No two pairs are connected yet. *)
NoEdges(g) ==
  \A v \in DOMAIN g : \A k \in DOMAIN g[v].adj :
    g[v].type = "NODE" => g[g[v].adj[k].n].type = "GATE"

HasGate(g, nm, full) ==
  /\ FindNode(g, nm) \in DOMAIN g
  /\ \E w \in Neighbours(g, FindNode(g, nm)) : g[w].name = full

Complete(A, B, g, c) ==
  /\ FindNode(g, PairIn(A, B, c)) \in DOMAIN g
  /\ \A gate \in Range(GatesIn(A, B, c)) :
       HasGate(g, PairIn(A, B, c), PairIn(A, B, c) \o gate.name)

LEMMA PairIsNode ==
  ASSUME NEW A, NEW B, Tells(A, B), NEW g, NodesAndGates(g), Named(A, B, g),
         NEW v \in DOMAIN g, NEW d \in (DOMAIN A) \X (DOMAIN B), g[v].name = PairIn(A, B, d)
  PROVE  g[v].type = "NODE"
BY DEF Tells, NodesAndGates, Named, IsGateOf

LEMMA CellsAreIds ==
  ASSUME NEW A, NEW B
  PROVE  CellsIn(A, B) \subseteq (DOMAIN A) \X (DOMAIN B)
BY DEF CellsIn, NodesOf

LEMMA GateIsGate ==
  ASSUME NEW A, NEW B, Tells(A, B), NEW g, NodesAndGates(g), Named(A, B, g),
         NEW v \in DOMAIN g, NEW nm, IsGateOf(A, B, nm, g[v].name)
  PROVE  g[v].type = "GATE"
<1>1. SUFFICES ASSUME g[v].type = "NODE" PROVE FALSE
  BY DEF NodesAndGates
<1>2. PICK c \in CellsIn(A, B) : g[v].name = PairIn(A, B, c)
  BY <1>1 DEF Named
<1>. QED
  BY <1>2, CellsAreIds DEF Tells, IsGateOf

LEMMA HasGateKept ==
  ASSUME NEW g, NEW h, IsGraph(g), IsGraph(h), Keeps(g, h), NEW nm, NEW full, HasGate(g, nm, full)
  PROVE  HasGate(h, nm, full)
<1>. DEFINE a == FindNode(g, nm)
<1>1. a \in DOMAIN g /\ a # 0
  BY DEF HasGate, IsGraph
<1>2. FindNode(h, nm) = a
  BY <1>1, KeepsFound
<1>. HIDE DEF a
<1>3. PICK k \in DOMAIN g[a].adj : g[g[a].adj[k].n].name = full
  BY DEF HasGate, Neighbours, a
<1>4. g[a].adj[k].n \in DOMAIN g
  BY <1>1 DEF IsGraph
<1>5. a \in DOMAIN h /\ k \in DOMAIN h[a].adj /\ h[a].adj[k] = g[a].adj[k]
  BY <1>1, <1>3 DEF Keeps, Grown
<1>6. h[h[a].adj[k].n].name = full
  BY <1>3, <1>4, <1>5 DEF Keeps, Grown
<1>7. h[a].adj[k].n \in Neighbours(h, a)
  BY <1>5 DEF Neighbours
<1>. QED
  BY <1>2, <1>5, <1>6, <1>7 DEF HasGate

LEMMA CompleteKept ==
  ASSUME NEW A, NEW B, NEW g, NEW h, IsGraph(g), IsGraph(h), Keeps(g, h), NEW c, Complete(A, B, g, c)
  PROVE  Complete(A, B, h, c)
<1>. DEFINE a == FindNode(g, PairIn(A, B, c))
<1>1. a \in DOMAIN g /\ a # 0
  BY DEF Complete, IsGraph
<1>2. FindNode(h, PairIn(A, B, c)) = a
  BY <1>1, KeepsFound
<1>3. a \in DOMAIN h
  BY <1>1 DEF Keeps, Grown
<1>. QED
  BY <1>2, <1>3, HasGateKept DEF Complete

GatePhase(A, B, g) == Named(A, B, g) /\ OwnGates(A, B, g) /\ NoEdges(g)

LEMMA GateStepKeepsPhase ==
  ASSUME NEW A, NEW B, Tells(A, B), NEW g, Shape(g), GatePhase(A, B, g),
         NEW h, NEW nm, NEW full, GateStep(g, h, nm, full), IsGateOf(A, B, nm, full)
  PROVE  GatePhase(A, B, h) /\ HasGate(h, nm, full)
<1>. DEFINE a == FindNode(h, nm)
            b == FindNode(h, full)
<1>1. IsGraph(g) /\ NodesAndGates(h)
  BY DEF Shape, GateStep
<1>2. Keeps(g, h) /\ DOMAIN g \subseteq DOMAIN h
  BY DEF GateStep, Keeps, Grown
<1>3. Named(A, B, h)
  <2>1. SUFFICES ASSUME NEW v \in DOMAIN h
                 PROVE  /\ h[v].type = "NODE" => \E c \in CellsIn(A, B) : h[v].name = PairIn(A, B, c)
                        /\ h[v].type = "GATE" => \E m : IsGateOf(A, B, m, h[v].name)
    BY DEF Named
  <2>2. CASE v \in DOMAIN g
    <3>1. h[v].name = g[v].name /\ h[v].type = g[v].type
      BY <1>2, <2>2 DEF Keeps, Grown
    <3>. QED
      BY <2>2, <3>1 DEF GatePhase, Named
  <2>3. CASE h[v].type = "GATE" /\ h[v].name = full
    BY <2>3
  <2>. QED
    BY <2>2, <2>3 DEF GateStep
<1>4. a \in DOMAIN h /\ b \in DOMAIN h /\ h[a].name = nm /\ h[b].name = full /\ AreAdjacent(h, a, b)
  BY <1>2 DEF GateStep
<1>5. h[b].type = "GATE"
  BY <1>1, <1>3, <1>4, GateIsGate
<1>. HIDE DEF a, b
<1>6. ASSUME NEW v \in DOMAIN h, NEW k \in DOMAIN h[v].adj, h[v].type = "NODE"
      PROVE  /\ h[h[v].adj[k].n].type = "GATE"
             /\ IsGateOf(A, B, h[v].name, h[h[v].adj[k].n].name)
  <2>1. CASE v \in DOMAIN g /\ k \in DOMAIN g[v].adj /\ h[v].adj[k] = g[v].adj[k]
    <3>. DEFINE w == g[v].adj[k].n
    <3>1. w \in DOMAIN g
      BY <1>1, <2>1 DEF IsGraph
    <3>. HIDE DEF w
    <3>2. /\ h[v].name = g[v].name /\ h[v].type = g[v].type
          /\ h[w].name = g[w].name /\ h[w].type = g[w].type
      BY <1>2, <2>1, <3>1 DEF Keeps, Grown
    <3>3. g[w].type = "GATE" /\ IsGateOf(A, B, g[v].name, g[w].name)
      BY <1>6, <2>1, <3>2 DEF GatePhase, OwnGates, NoEdges, w
    <3>4. h[v].adj[k].n = w
      BY <2>1 DEF w
    <3>. QED
      BY <3>2, <3>3, <3>4
  <2>2. CASE v = a /\ h[v].adj[k].n = b
    BY <1>4, <1>5, <2>2
  <2>3. CASE v = b
    BY <1>5, <1>6, <2>3
  <2>. QED
    BY <2>1, <2>2, <2>3 DEF GateStep, a, b
<1>7. OwnGates(A, B, h) /\ NoEdges(h)
  BY <1>6 DEF OwnGates, NoEdges
<1>8. HasGate(h, nm, full)
  BY <1>4 DEF HasGate, AreAdjacent, Neighbours, a
<1>. QED
  BY <1>3, <1>7, <1>8 DEF GatePhase

LEMMA AddPairKeepsPhase ==
  ASSUME NEW A, NEW B, NEW g, Shape(g), GatePhase(A, B, g),
         NEW c \in CellsIn(A, B), PairIn(A, B, c) \in Names
  PROVE  GatePhase(A, B, AddNode(g, PairIn(A, B, c), "NODE"))
<1>. DEFINE h == AddNode(g, PairIn(A, B, c), "NODE")
<1>1. /\ DOMAIN h = DOMAIN g \cup {Len(g) + 1}
      /\ \A i \in DOMAIN g : h[i] = g[i]
      /\ h[Len(g) + 1] = [name |-> PairIn(A, B, c), type |-> "NODE", adj |-> <<>>]
  BY AddNodeShape
<1>. HIDE DEF h
<1>2. /\ h[Len(g) + 1].name = PairIn(A, B, c) /\ h[Len(g) + 1].type = "NODE"
      /\ DOMAIN h[Len(g) + 1].adj = {}
  BY <1>1
<1>3. \A v \in DOMAIN g : \A k \in DOMAIN g[v].adj : g[v].adj[k].n \in DOMAIN g
  BY DEF Shape, IsGraph
<1>4. Named(A, B, h)
  BY <1>1, <1>2 DEF GatePhase, Named
<1>5. OwnGates(A, B, h)
  BY <1>1, <1>2, <1>3 DEF GatePhase, OwnGates
<1>6. NoEdges(h)
  BY <1>1, <1>2, <1>3 DEF GatePhase, NoEdges
<1>. QED
  BY <1>4, <1>5, <1>6 DEF GatePhase, h

(* All gates of a cell. *)
CellMade(A, B, g, c) ==
  FoldLeft(AddGate,
           [graph |-> AddNode(g, PairIn(A, B, c), "NODE"), name |-> PairIn(A, B, c), refused |-> FALSE],
           GatesIn(A, B, c))

LEMMA CellEffect ==
  ASSUME NEW A, NEW B, IsOperand(A), IsOperand(B), NEW g, Shape(g), NEW c \in CellsIn(A, B)
  PROVE  \E h : /\ CellMade(A, B, g, c) = Making(h, PairIn(A, B, c))
                /\ Shape(h) /\ Keeps(g, h)
                /\ NodeNames(h) = NodeNames(g) \o <<PairIn(A, B, c)>>
                /\ Tells(A, B) /\ GatePhase(A, B, g) =>
                     GatePhase(A, B, h) /\ Complete(A, B, h, c)
<1>. DEFINE nm   == PairIn(A, B, c)
            base == AddNode(g, nm, "NODE")
            list == GatesIn(A, B, c)
            n    == Len(list)
            told == Tells(A, B) /\ GatePhase(A, B, g)
<1>1. c \in (DOMAIN A) \X (DOMAIN B) /\ IsGraph(A) /\ IsGraph(B)
  BY CellsAreIds DEF IsOperand
<1>2. nm \in Names
  BY <1>1, PairIsName
<1>3. list \in Seq(GateCopies)
  BY <1>1, GatesInMembers
<1>4. n \in Nat /\ DOMAIN list = 1..n /\ \A k \in 1..n : list[k] \in GateCopies
  <2>. HIDE DEF list
  <2>. QED
    BY <1>3
<1>5. IsGraph(g) /\ g \in Seq(Node) /\ "NODE" \in NodeTypes
  BY DEF Shape, IsGraph, NodeTypes
<1>6. /\ Shape(base) /\ Keeps(g, base)
      /\ DOMAIN base = DOMAIN g \cup {Len(g) + 1}
      /\ base[Len(g) + 1] = [name |-> nm, type |-> "NODE", adj |-> <<>>]
  <2>. HIDE DEF nm
  <2>. QED
    BY <1>2, AddNodeShape
<1>7. NodeNames(base) = NodeNames(g) \o <<nm>>
  <2>. HIDE DEF nm
  <2>. QED
    BY <1>2, <1>5, NodeNamesMore
<1>8. told => GatePhase(A, B, base)
  BY <1>2, AddPairKeepsPhase
<1>9. FindNode(base, nm) \in DOMAIN base
  <2>. HIDE DEF base, nm
  <2>1. base[Len(g) + 1].name = nm /\ Len(g) + 1 \in DOMAIN base
    BY <1>6
  <2>. QED
    BY <1>6, <2>1, NameFinds DEF Shape
<1>10. PICK f : /\ f[0] = Making(base, nm)
                /\ \A k \in 1..n : f[k] = AddGate(f[k - 1], list[k])
                /\ CellMade(A, B, g, c) = f[n]
  <2>1. CellMade(A, B, g, c) = GatesAdded(Making(base, nm), list)
    BY DEF CellMade, GatesAdded, Making
  <2>. HIDE DEF base, nm, list
  <2>. QED
    BY <1>3, <2>1, FoldLeftSteps
<1>. DEFINE Sofar(h, k) ==
              /\ Shape(h) /\ Keeps(base, h) /\ NodeNames(h) = NodeNames(base)
              /\ FindNode(h, nm) \in DOMAIN h
              /\ told => /\ GatePhase(A, B, h)
                         /\ \A j \in 1..k : HasGate(h, nm, nm \o list[j].name)
            K == {k \in Nat : k <= n => \E h : f[k] = Making(h, nm) /\ Sofar(h, k)}
<1>11. 0 \in K
  <2>1. Keeps(base, base)
    BY DEF Keeps, Grown
  <2>2. Sofar(base, 0)
    BY <1>6, <1>8, <1>9, <2>1
  <2>. HIDE DEF Sofar
  <2>. QED
    BY <1>10, <2>2
<1>12. ASSUME NEW k \in K PROVE k + 1 \in K
  <2>1. SUFFICES ASSUME k + 1 <= n PROVE \E h : f[k + 1] = Making(h, nm) /\ Sofar(h, k + 1)
    OBVIOUS
  <2>2. k \in Nat /\ k <= n /\ k + 1 \in 1..n /\ (k + 1) - 1 = k /\ k + 1 \in Nat
    BY <1>4, <2>1
  <2>. HIDE DEF Sofar
  <2>3. PICK g1 : f[k] = Making(g1, nm) /\ Sofar(g1, k)
    BY <2>2
  <2>4. /\ Shape(g1) /\ Keeps(base, g1) /\ NodeNames(g1) = NodeNames(base)
        /\ FindNode(g1, nm) \in DOMAIN g1 /\ IsGraph(g1)
        /\ told => /\ GatePhase(A, B, g1)
                   /\ \A j \in 1..k : HasGate(g1, nm, nm \o list[j].name)
    BY <2>3 DEF Sofar, Shape
  <2>. DEFINE gate == list[k + 1]
              full == nm \o gate.name
  <2>5. gate \in GateCopies
    BY <1>4, <2>2
  <2>. HIDE DEF gate
  <2>6. FindNode(g1, nm) # 0
    BY <2>4 DEF IsGraph
  <2>7. PICK h : AddGate(Making(g1, nm), gate) = Making(h, nm) /\ GateStep(g1, h, nm, full)
    <3>. HIDE DEF nm
    <3>. QED
      BY <1>2, <2>4, <2>5, <2>6, AddGateStep
  <2>8. f[k + 1] = Making(h, nm)
    BY <1>10, <2>2, <2>3, <2>7 DEF gate
  <2>9. Shape(h) /\ Keeps(g1, h) /\ NodeNames(h) = NodeNames(g1) /\ FindNode(h, nm) \in DOMAIN h
        /\ IsGraph(h)
    <3>1. Shape(h) /\ Keeps(g1, h) /\ NodeNames(h) = NodeNames(g1) /\ FindNode(h, nm) \in DOMAIN g1
      BY <2>7 DEF GateStep
    <3>. QED
      BY <3>1 DEF Shape, Keeps, Grown
  <2>10. Keeps(base, h)
    BY <2>4, <2>9, KeepsTwice
  <2>11. ASSUME told
         PROVE  GatePhase(A, B, h) /\ \A j \in 1..(k + 1) : HasGate(h, nm, nm \o list[j].name)
    <3>1. GatePhase(A, B, g1) /\ \A j \in 1..k : HasGate(g1, nm, nm \o list[j].name)
      BY <2>4, <2>11
    <3>2. IsGateOf(A, B, nm, full)
      <4>1. gate \in Range(list)
        BY <1>4, <2>2 DEF Range, gate
      <4>. QED
        BY <4>1 DEF IsGateOf
    <3>3. GatePhase(A, B, h) /\ HasGate(h, nm, full)
      <4>. HIDE DEF nm, full
      <4>. QED
        BY <2>4, <2>7, <2>11, <3>1, <3>2, GateStepKeepsPhase
    <3>4. ASSUME NEW j \in 1..(k + 1) PROVE HasGate(h, nm, nm \o list[j].name)
      <4>1. CASE j = k + 1
        BY <3>3, <4>1 DEF gate
      <4>2. CASE j # k + 1
        <5>1. j \in 1..k
          BY <2>2, <4>2
        <5>2. HasGate(g1, nm, nm \o list[j].name)
          BY <3>1, <5>1
        <5>. HIDE DEF nm
        <5>. QED
          BY <2>4, <2>9, <5>2, HasGateKept
      <4>. QED
        BY <4>1, <4>2
    <3>. QED
      BY <3>3, <3>4
  <2>12. Sofar(h, k + 1)
    <3>. HIDE DEF told, nm, list, base
    <3>. QED
      BY <2>4, <2>9, <2>10, <2>11 DEF Sofar
  <2>. QED
    BY <2>8, <2>12
<1>13. K = Nat
  <2>. HIDE DEF K
  <2>. QED
    BY <1>11, <1>12, SetInduction DEF K
<1>14. PICK h : f[n] = Making(h, nm) /\ Sofar(h, n)
  <2>. HIDE DEF Sofar, n
  <2>. QED
    BY <1>4, <1>13
<1>15. Keeps(g, h)
  BY <1>6, <1>14, KeepsTwice
<1>16. told => Complete(A, B, h, c)
  <2>1. SUFFICES ASSUME told, NEW gate \in Range(list) PROVE HasGate(h, nm, nm \o gate.name)
    BY <1>14 DEF Complete
  <2>2. PICK j \in 1..n : gate = list[j]
    BY <1>4, <2>1 DEF Range
  <2>. HIDE DEF nm, list, n
  <2>. QED
    BY <1>14, <2>1, <2>2
<1>. QED
  BY <1>7, <1>10, <1>14, <1>15, <1>16

----------------------------------------------------------------------------
(* The edges that are asked for. *)

CallOf(A, B, c, d, at) == [from |-> PairIn(A, B, c), to |-> PairIn(A, B, d), attrs |-> at]

CallSet(A, B) ==
  {CallOf(A, B, t[1], t[2], t[3]) :
     t \in CellsIn(A, B) \X ((DOMAIN A) \X (DOMAIN B)) \X EdgeAttrs}

LEMMA CallOfIn ==
  ASSUME NEW A, NEW B, NEW c \in CellsIn(A, B), NEW d \in (DOMAIN A) \X (DOMAIN B), NEW at \in EdgeAttrs
  PROVE  CallOf(A, B, c, d, at) \in CallSet(A, B)
<1>. DEFINE t == <<c, d, at>>
<1>1. t \in CellsIn(A, B) \X ((DOMAIN A) \X (DOMAIN B)) \X EdgeAttrs
  OBVIOUS
<1>2. t[1] = c /\ t[2] = d /\ t[3] = at
  OBVIOUS
<1>. HIDE DEF t
<1>3. CallOf(A, B, t[1], t[2], t[3]) \in CallSet(A, B)
  BY <1>1 DEF CallSet
<1>. QED
  BY <1>2, <1>3

LEMMA LoopMembers ==
  ASSUME NEW T, NEW seq \in Seq(T), NEW S, NEW f, \A x \in T : f[x] \in Seq(S)
  PROVE  /\ FlattenSeq([k \in DOMAIN seq |-> f[seq[k]]]) \in Seq(S)
         /\ \A y : y \in Range(FlattenSeq([k \in DOMAIN seq |-> f[seq[k]]])) <=>
                     \E x \in Range(seq) : y \in Range(f[x])
<1>. DEFINE bodies == [k \in DOMAIN seq |-> f[seq[k]]]
<1>1. DOMAIN seq = 1..Len(seq) /\ Len(seq) \in Nat /\ \A k \in DOMAIN seq : seq[k] \in T
  BY SeqParts
<1>2. /\ DOMAIN bodies = 1..Len(seq) /\ bodies = [k \in DOMAIN bodies |-> bodies[k]]
      /\ \A k \in DOMAIN bodies : bodies[k] = f[seq[k]] /\ bodies[k] \in Seq(S)
  BY <1>1
<1>. HIDE DEF bodies
<1>3. bodies \in Seq(Seq(S))
  BY <1>1, <1>2, SequenceOf
<1>4. /\ FlattenSeq(bodies) \in Seq(S)
      /\ Range(FlattenSeq(bodies)) = UNION {Range(bodies[k]) : k \in DOMAIN bodies}
  BY <1>3, FlattenMembers
<1>5. ASSUME NEW y
      PROVE  y \in UNION {Range(bodies[k]) : k \in DOMAIN bodies} <=>
               \E x \in Range(seq) : y \in Range(f[x])
  <2>1. (y \in UNION {Range(bodies[k]) : k \in DOMAIN bodies}) <=>
          \E k \in DOMAIN bodies : y \in Range(bodies[k])
    OBVIOUS
  <2>2. DOMAIN bodies = DOMAIN seq /\ \A k \in DOMAIN seq : bodies[k] = f[seq[k]]
    BY <1>1, <1>2
  <2>3. \A x : x \in Range(seq) <=> \E k \in DOMAIN seq : x = seq[k]
    BY DEF Range
  <2>4. (\E k \in DOMAIN bodies : y \in Range(bodies[k])) <=>
          \E k \in DOMAIN seq : y \in Range(f[seq[k]])
    BY <2>2
  <2>5. (\E k \in DOMAIN seq : y \in Range(f[seq[k]])) <=> \E x \in Range(seq) : y \in Range(f[x])
    BY <2>3, Zenon
  <2>. QED
    BY <2>1, <2>4, <2>5, Zenon
<1>. QED
  BY <1>4, <1>5 DEF bodies

LEMMA MapMembers ==
  ASSUME NEW T, NEW seq \in Seq(T), NEW S, NEW f, \A x \in T : f[x] \in S
  PROVE  /\ [k \in DOMAIN seq |-> f[seq[k]]] \in Seq(S)
         /\ \A y : y \in Range([k \in DOMAIN seq |-> f[seq[k]]]) <=>
                     \E x \in Range(seq) : y = f[x]
<1>. DEFINE images == [k \in DOMAIN seq |-> f[seq[k]]]
<1>1. DOMAIN seq = 1..Len(seq) /\ Len(seq) \in Nat /\ \A k \in DOMAIN seq : seq[k] \in T
  BY SeqParts
<1>2. /\ DOMAIN images = 1..Len(seq) /\ images = [k \in DOMAIN images |-> images[k]]
      /\ \A k \in DOMAIN images : images[k] = f[seq[k]] /\ images[k] \in S
  BY <1>1
<1>. HIDE DEF images
<1>3. images \in Seq(S)
  BY <1>1, <1>2, SequenceOf
<1>4. ASSUME NEW y
      PROVE  y \in Range(images) <=> \E x \in Range(seq) : y = f[x]
  BY <1>1, <1>2 DEF Range
<1>. QED
  BY <1>3, <1>4 DEF images

MoveSet(h, v, higher) == {e \in EntrySet(h, v, "NODE") : higher => e.n >= v}

LEMMA MovesOfAMembers ==
  ASSUME IsGraph(g_a), IsGraph(g_b), NEW c \in CellsIn(g_a, g_b), NEW higher
  PROVE  /\ MovesOfA(c, higher) \in Seq(CallSet(g_a, g_b))
         /\ \A call : call \in Range(MovesOfA(c, higher)) <=>
              \E e \in MoveSet(g_a, c[1], higher) :
                call = CallOf(g_a, g_b, c, <<e.n, c[2]>>, e.attrs)
<1>. DEFINE all == Entries(g_a, c[1], "NODE")
            T   == MoveSet(g_a, c[1], higher)
            es  == FlattenSeq(Passing(all, T))
            f   == [e \in T |-> CallOf(g_a, g_b, c, <<e.n, c[2]>>, e.attrs)]
<1>1. c[1] \in DOMAIN g_a /\ c[2] \in DOMAIN g_b
  BY DEF CellsIn, NodesOf
<1>2. /\ all \in Seq(EntrySet(g_a, c[1], "NODE"))
      /\ Range(all) = EntrySet(g_a, c[1], "NODE")
      /\ \A e \in EntrySet(g_a, c[1], "NODE") : e \in Edge /\ e.n \in DOMAIN g_a
  BY <1>1, EntriesMembers
<1>. HIDE DEF all
<1>3. EntrySet(g_a, c[1], "NODE") \cap T = T
  BY DEF MoveSet
<1>. HIDE DEF T
<1>4. es \in Seq(T) /\ Range(es) = T
  <2>. DEFINE S == EntrySet(g_a, c[1], "NODE")
  <2>1. all \in Seq(S) /\ Range(all) = S /\ S \cap T = T
    BY <1>2, <1>3
  <2>. HIDE DEF S
  <2>2. es \in Seq(S \cap T) /\ Range(es) = Range(all) \cap T
    BY <2>1, PassingMembers
  <2>. QED
    BY <2>1, <2>2
<1>5. [k \in DOMAIN all |-> IF higher => all[k].n >= c[1] THEN <<all[k]>> ELSE <<>>] = Passing(all, T)
  <2>1. \A k \in DOMAIN all : all[k] \in EntrySet(g_a, c[1], "NODE")
    BY <1>2, SeqParts
  <2>2. \A k \in DOMAIN all : (higher => all[k].n >= c[1]) <=> all[k] \in T
    BY <2>1 DEF T, MoveSet
  <2>. QED
    BY <2>2, Zenon DEF Passing
<1>6. MovesOfA(c, higher) = [k \in DOMAIN es |-> CallOf(g_a, g_b, c, <<es[k].n, c[2]>>, es[k].attrs)]
  BY <1>5, Zenon DEF MovesOfA, Where, ForEach, Call, CallOf, PairName, PairIn, all
<1>7. \A e \in T : f[e] \in CallSet(g_a, g_b)
  <2>1. SUFFICES ASSUME NEW e \in T
                 PROVE  CallOf(g_a, g_b, c, <<e.n, c[2]>>, e.attrs) \in CallSet(g_a, g_b)
    BY Zenon
  <2>2. e.n \in DOMAIN g_a /\ e.attrs \in EdgeAttrs
    BY <1>2, <1>3 DEF Edge
  <2>. QED
    BY <1>1, <2>2, CallOfIn
<1>. HIDE DEF es
<1>8. \A k \in DOMAIN es : es[k] \in T
  BY <1>4, SeqParts
<1>9. MovesOfA(c, higher) = [k \in DOMAIN es |-> f[es[k]]]
  BY <1>6, <1>8, Zenon
<1>10. \A e \in T : f[e] = CallOf(g_a, g_b, c, <<e.n, c[2]>>, e.attrs)
  BY Zenon
<1>. HIDE DEF f
<1>11. /\ [k \in DOMAIN es |-> f[es[k]]] \in Seq(CallSet(g_a, g_b))
       /\ \A y : y \in Range([k \in DOMAIN es |-> f[es[k]]]) <=> \E e \in Range(es) : y = f[e]
  BY <1>4, <1>7, MapMembers
<1>12. MovesOfA(c, higher) \in Seq(CallSet(g_a, g_b))
  BY <1>9, <1>11
<1>13. \A y : y \in Range(MovesOfA(c, higher)) <=>
               \E e \in T : y = CallOf(g_a, g_b, c, <<e.n, c[2]>>, e.attrs)
  <2>1. \A y : y \in Range(MovesOfA(c, higher)) <=> \E e \in T : y = f[e]
    BY <1>4, <1>9, <1>11
  <2>2. ASSUME NEW y
        PROVE  (\E e \in T : y = f[e]) <=>
                 \E e \in T : y = CallOf(g_a, g_b, c, <<e.n, c[2]>>, e.attrs)
    <3>. DEFINE P(e) == CallOf(g_a, g_b, c, <<e.n, c[2]>>, e.attrs)
    <3>1. \A e \in T : f[e] = P(e)
      BY <1>10
    <3>. HIDE DEF P
    <3>2. (\E e \in T : y = f[e]) <=> \E e \in T : y = P(e)
      BY <3>1
    <3>. QED
      BY <3>2 DEF P
  <2>. QED
    BY <2>1, <2>2
<1>. QED
  BY <1>12, <1>13 DEF T

LEMMA MovesOfBMembers ==
  ASSUME IsGraph(g_a), IsGraph(g_b), NEW c \in CellsIn(g_a, g_b), NEW higher
  PROVE  /\ MovesOfB(c, higher) \in Seq(CallSet(g_a, g_b))
         /\ \A call : call \in Range(MovesOfB(c, higher)) <=>
              \E e \in MoveSet(g_b, c[2], higher) :
                call = CallOf(g_a, g_b, c, <<c[1], e.n>>, e.attrs)
<1>. DEFINE all == Entries(g_b, c[2], "NODE")
            T   == MoveSet(g_b, c[2], higher)
            es  == FlattenSeq(Passing(all, T))
            f   == [e \in T |-> CallOf(g_a, g_b, c, <<c[1], e.n>>, e.attrs)]
<1>1. c[1] \in DOMAIN g_a /\ c[2] \in DOMAIN g_b
  BY DEF CellsIn, NodesOf
<1>2. /\ all \in Seq(EntrySet(g_b, c[2], "NODE"))
      /\ Range(all) = EntrySet(g_b, c[2], "NODE")
      /\ \A e \in EntrySet(g_b, c[2], "NODE") : e \in Edge /\ e.n \in DOMAIN g_b
  BY <1>1, EntriesMembers
<1>. HIDE DEF all
<1>3. EntrySet(g_b, c[2], "NODE") \cap T = T
  BY DEF MoveSet
<1>. HIDE DEF T
<1>4. es \in Seq(T) /\ Range(es) = T
  <2>. DEFINE S == EntrySet(g_b, c[2], "NODE")
  <2>1. all \in Seq(S) /\ Range(all) = S /\ S \cap T = T
    BY <1>2, <1>3
  <2>. HIDE DEF S
  <2>2. es \in Seq(S \cap T) /\ Range(es) = Range(all) \cap T
    BY <2>1, PassingMembers
  <2>. QED
    BY <2>1, <2>2
<1>5. [k \in DOMAIN all |-> IF higher => all[k].n >= c[2] THEN <<all[k]>> ELSE <<>>] = Passing(all, T)
  <2>1. \A k \in DOMAIN all : all[k] \in EntrySet(g_b, c[2], "NODE")
    BY <1>2, SeqParts
  <2>2. \A k \in DOMAIN all : (higher => all[k].n >= c[2]) <=> all[k] \in T
    BY <2>1 DEF T, MoveSet
  <2>. QED
    BY <2>2, Zenon DEF Passing
<1>6. MovesOfB(c, higher) = [k \in DOMAIN es |-> CallOf(g_a, g_b, c, <<c[1], es[k].n>>, es[k].attrs)]
  BY <1>5, Zenon DEF MovesOfB, Where, ForEach, Call, CallOf, PairName, PairIn, all
<1>7. \A e \in T : f[e] \in CallSet(g_a, g_b)
  <2>1. SUFFICES ASSUME NEW e \in T
                 PROVE  CallOf(g_a, g_b, c, <<c[1], e.n>>, e.attrs) \in CallSet(g_a, g_b)
    BY Zenon
  <2>2. e.n \in DOMAIN g_b /\ e.attrs \in EdgeAttrs
    BY <1>2, <1>3 DEF Edge
  <2>. QED
    BY <1>1, <2>2, CallOfIn
<1>. HIDE DEF es
<1>8. \A k \in DOMAIN es : es[k] \in T
  BY <1>4, SeqParts
<1>9. MovesOfB(c, higher) = [k \in DOMAIN es |-> f[es[k]]]
  BY <1>6, <1>8, Zenon
<1>10. \A e \in T : f[e] = CallOf(g_a, g_b, c, <<c[1], e.n>>, e.attrs)
  BY Zenon
<1>. HIDE DEF f
<1>11. /\ [k \in DOMAIN es |-> f[es[k]]] \in Seq(CallSet(g_a, g_b))
       /\ \A y : y \in Range([k \in DOMAIN es |-> f[es[k]]]) <=> \E e \in Range(es) : y = f[e]
  BY <1>4, <1>7, MapMembers
<1>12. MovesOfB(c, higher) \in Seq(CallSet(g_a, g_b))
  BY <1>9, <1>11
<1>13. \A y : y \in Range(MovesOfB(c, higher)) <=>
               \E e \in T : y = CallOf(g_a, g_b, c, <<c[1], e.n>>, e.attrs)
  <2>1. \A y : y \in Range(MovesOfB(c, higher)) <=> \E e \in T : y = f[e]
    BY <1>4, <1>9, <1>11
  <2>2. ASSUME NEW y
        PROVE  (\E e \in T : y = f[e]) <=>
                 \E e \in T : y = CallOf(g_a, g_b, c, <<c[1], e.n>>, e.attrs)
    <3>. DEFINE P(e) == CallOf(g_a, g_b, c, <<c[1], e.n>>, e.attrs)
    <3>1. \A e \in T : f[e] = P(e)
      BY <1>10
    <3>. HIDE DEF P
    <3>2. (\E e \in T : y = f[e]) <=> \E e \in T : y = P(e)
      BY <3>1
    <3>. QED
      BY <3>2 DEF P
  <2>. QED
    BY <2>1, <2>2
<1>. QED
  BY <1>12, <1>13 DEF T

(* The places in c's first list that the other products go by. *)
CrossedIn(A, B, c) ==
  {k \in DOMAIN A[c[1]].adj :
     A[A[c[1]].adj[k].n].type = "NODE" /\ B[EntryAt(B, c[2], k).n].type = "NODE"}

LEMMA EntryAtIs ==
  ASSUME NEW h, IsGraph(h), NEW v \in DOMAIN h, NEW k
  PROVE  EntryAt(h, v, k).n \in DOMAIN h /\ EntryAt(h, v, k).attrs \in EdgeAttrs
<1>1. CASE k \in DOMAIN h[v].adj
  <2>1. EntryAt(h, v, k) = h[v].adj[k]
    BY <1>1 DEF EntryAt
  <2>2. h[v].adj[k].n \in DOMAIN h
    BY <1>1 DEF IsGraph
  <2>3. h[v].adj \in Seq(Edge)
    BY NodeFields
  <2>4. h[v].adj[k] \in Edge
    BY <1>1, <2>3, SeqParts
  <2>. QED
    BY <2>1, <2>2, <2>4 DEF Edge
<1>2. CASE k \notin DOMAIN h[v].adj
  <2>1. EntryAt(h, v, k).n = 1 /\ EntryAt(h, v, k).attrs = NULL
    BY <1>2 DEF EntryAt
  <2>2. 1 \in DOMAIN h
    BY DEF IsGraph
  <2>. QED
    BY <2>1, <2>2 DEF EdgeAttrs
<1>. QED
  BY <1>1, <1>2

LEMMA CrossedMembers ==
  ASSUME IsGraph(g_a), NEW c \in CellsIn(g_a, g_b)
  PROVE  Crossed(c) \in Seq(CrossedIn(g_a, g_b, c)) /\ Range(Crossed(c)) = CrossedIn(g_a, g_b, c)
<1>. DEFINE D   == DOMAIN g_a[c[1]].adj
            all == [k \in D |-> k]
            T   == CrossedIn(g_a, g_b, c)
<1>1. all \in Seq(D) /\ Range(all) = D
  <2>1. c[1] \in DOMAIN g_a
    BY DEF CellsIn, NodesOf
  <2>2. g_a[c[1]].adj \in Seq(Edge)
    BY <2>1, NodeFields
  <2>3. D = 1..Len(g_a[c[1]].adj) /\ Len(g_a[c[1]].adj) \in Nat
    BY <2>2, SeqParts
  <2>. HIDE DEF D
  <2>4. all \in Seq(D)
    BY <2>3
  <2>. QED
    BY <2>4 DEF Range
<1>2. D \cap T = T
  BY DEF CrossedIn
<1>3. Crossed(c) = FlattenSeq(Passing(all, T))
  <2>1. [k \in DOMAIN all |-> IF /\ g_a[g_a[c[1]].adj[all[k]].n].type = "NODE"
                                 /\ g_b[EntryAt(g_b, c[2], all[k]).n].type = "NODE"
                              THEN <<all[k]>> ELSE <<>>] = Passing(all, T)
    <3>1. \A k \in DOMAIN all :
            (/\ g_a[g_a[c[1]].adj[all[k]].n].type = "NODE"
             /\ g_b[EntryAt(g_b, c[2], all[k]).n].type = "NODE") <=> all[k] \in T
      BY DEF CrossedIn
    <3>. QED
      BY <3>1, Zenon DEF Passing
  <2>. QED
    BY <2>1, Zenon DEF Crossed, Where, ForEach
<1>. HIDE DEF D, all, T
<1>4. /\ FlattenSeq(Passing(all, T)) \in Seq(D \cap T)
      /\ Range(FlattenSeq(Passing(all, T))) = Range(all) \cap T
  BY <1>1, PassingMembers
<1>. QED
  BY <1>1, <1>2, <1>3, <1>4 DEF T

(* What the tensor and the strong product pass on for one pair of entries. *)
DiagonalAttrs(A, B, kd, c, k, l) ==
  IF kd = "strong" THEN EntryAt(B, c[2], k).attrs
  ELSE JoinedAttrs(A[c[1]].adj[k].attrs, B[c[2]].adj[l].attrs)

LEMMA DiagonalsMembers ==
  ASSUME g_a \in Operands, g_b \in Operands, NEW c \in CellsIn(g_a, g_b)
  PROVE  /\ Diagonals(c) \in Seq(CallSet(g_a, g_b))
         /\ \A call : call \in Range(Diagonals(c)) <=>
              \E k \in CrossedIn(g_a, g_b, c) : \E l \in DOMAIN g_b[c[2]].adj :
                call = CallOf(g_a, g_b, c, <<g_a[c[1]].adj[k].n, g_b[c[2]].adj[l].n>>,
                              DiagonalAttrs(g_a, g_b, kind, c, k, l))
<1>. DEFINE T == CrossedIn(g_a, g_b, c)
            L == DOMAIN g_b[c[2]].adj
            Drawn(k, l) == CallOf(g_a, g_b, c, <<g_a[c[1]].adj[k].n, g_b[c[2]].adj[l].n>>,
                                  DiagonalAttrs(g_a, g_b, kind, c, k, l))
            f == [k \in T |-> [l \in L |-> Drawn(k, l)]]
            ks == Crossed(c)
<1>1. IsGraph(g_a) /\ IsGraph(g_b)
  BY ProductsAssumption
<1>2. c[1] \in DOMAIN g_a /\ c[2] \in DOMAIN g_b
  BY DEF CellsIn, NodesOf
<1>3. ks \in Seq(T) /\ Range(ks) = T
  BY <1>1, CrossedMembers
<1>4. L = 1..Len(g_b[c[2]].adj) /\ Len(g_b[c[2]].adj) \in Nat
  BY <1>1, <1>2, NodeFields, SeqParts
<1>5. ASSUME NEW k \in T, NEW l \in L PROVE Drawn(k, l) \in CallSet(g_a, g_b)
  <2>1. k \in DOMAIN g_a[c[1]].adj
    BY DEF CrossedIn
  <2>2. g_a[c[1]].adj[k].n \in DOMAIN g_a /\ g_b[c[2]].adj[l].n \in DOMAIN g_b
    BY <1>1, <1>2, <2>1 DEF IsGraph
  <2>3. JoinedAttrs(g_a[c[1]].adj[k].attrs, g_b[c[2]].adj[l].attrs) \in EdgeAttrs
    BY <1>2, <2>1, JoinAssumption
  <2>4. EntryAt(g_b, c[2], k).attrs \in EdgeAttrs
    BY <1>1, <1>2, EntryAtIs
  <2>5. DiagonalAttrs(g_a, g_b, kind, c, k, l) \in EdgeAttrs
    BY <2>3, <2>4 DEF DiagonalAttrs
  <2>6. <<g_a[c[1]].adj[k].n, g_b[c[2]].adj[l].n>> \in (DOMAIN g_a) \X (DOMAIN g_b)
    BY <2>2
  <2>. QED
    BY <2>5, <2>6, CallOfIn
<1>6. Diagonals(c) = FlattenSeq([k \in DOMAIN ks |-> [l \in L |-> Drawn(ks[k], l)]])
  BY Zenon DEF Diagonals, ForEach, Call, CallOf, DiagonalAttrs, PairName, PairIn
<1>. HIDE DEF ks, L, T, Drawn
<1>7. ASSUME NEW k \in T
      PROVE  /\ f[k] = [l \in L |-> Drawn(k, l)]
             /\ f[k] \in Seq(CallSet(g_a, g_b))
             /\ \A y : y \in Range(f[k]) <=> \E l \in L : y = Drawn(k, l)
  <2>1. f[k] = [l \in L |-> Drawn(k, l)]
    BY Zenon
  <2>. HIDE DEF f
  <2>2. DOMAIN f[k] = L /\ f[k] = [l \in DOMAIN f[k] |-> f[k][l]] /\ \A l \in L : f[k][l] = Drawn(k, l)
    BY <2>1
  <2>3. f[k] \in Seq(CallSet(g_a, g_b))
    BY <1>4, <1>5, <2>2, SequenceOf
  <2>. QED
    BY <2>1, <2>2, <2>3 DEF Range
<1>. HIDE DEF f
<1>8. Diagonals(c) = FlattenSeq([k \in DOMAIN ks |-> f[ks[k]]])
  <2>1. \A k \in DOMAIN ks : f[ks[k]] = [l \in L |-> Drawn(ks[k], l)]
    BY <1>3, <1>7, SeqParts
  <2>. QED
    BY <1>6, <2>1, Zenon
<1>9. /\ FlattenSeq([k \in DOMAIN ks |-> f[ks[k]]]) \in Seq(CallSet(g_a, g_b))
      /\ \A y : y \in Range(FlattenSeq([k \in DOMAIN ks |-> f[ks[k]]])) <=>
                  \E k \in Range(ks) : y \in Range(f[k])
  BY <1>3, <1>7, LoopMembers
<1>10. Diagonals(c) \in Seq(CallSet(g_a, g_b))
  BY <1>8, <1>9
<1>11. \A y : y \in Range(Diagonals(c)) <=> \E k \in T : \E l \in L : y = Drawn(k, l)
  <2>1. \A y : y \in Range(Diagonals(c)) <=> \E k \in T : y \in Range(f[k])
    BY <1>3, <1>8, <1>9
  <2>2. \A y : \A k \in T : y \in Range(f[k]) <=> \E l \in L : y = Drawn(k, l)
    BY <1>7
  <2>. QED
    BY <2>1, <2>2, Zenon
<1>. QED
  BY <1>10, <1>11 DEF T, L, Drawn

LEMMA JumpsMembers ==
  ASSUME IsGraph(g_a), IsGraph(g_b), NEW c \in CellsIn(g_a, g_b)
  PROVE  /\ Jumps(c) \in Seq(CallSet(g_a, g_b))
         /\ \A call : call \in Range(Jumps(c)) <=>
              \E k \in CrossedIn(g_a, g_b, c) : \E l \in DOMAIN g_b :
                call = CallOf(g_a, g_b, c, <<g_a[c[1]].adj[k].n, l>>, EntryAt(g_b, c[2], k).attrs)
<1>. DEFINE T == CrossedIn(g_a, g_b, c)
            L == DOMAIN g_b
            Drawn(k, l) == CallOf(g_a, g_b, c, <<g_a[c[1]].adj[k].n, l>>, EntryAt(g_b, c[2], k).attrs)
            f == [k \in T |-> [l \in L |-> Drawn(k, l)]]
            ks == Crossed(c)
<1>2. c[1] \in DOMAIN g_a /\ c[2] \in DOMAIN g_b
  BY DEF CellsIn, NodesOf
<1>3. ks \in Seq(T) /\ Range(ks) = T
  BY CrossedMembers
<1>4. L = 1..Len(g_b) /\ Len(g_b) \in Nat
  BY DEF IsGraph
<1>5. ASSUME NEW k \in T, NEW l \in L PROVE Drawn(k, l) \in CallSet(g_a, g_b)
  <2>1. k \in DOMAIN g_a[c[1]].adj
    BY DEF CrossedIn
  <2>2. g_a[c[1]].adj[k].n \in DOMAIN g_a
    BY <1>2, <2>1 DEF IsGraph
  <2>3. EntryAt(g_b, c[2], k).attrs \in EdgeAttrs
    BY <1>2, EntryAtIs
  <2>4. <<g_a[c[1]].adj[k].n, l>> \in (DOMAIN g_a) \X (DOMAIN g_b)
    BY <2>2
  <2>. QED
    BY <2>3, <2>4, CallOfIn
<1>6. Jumps(c) = FlattenSeq([k \in DOMAIN ks |-> [l \in L |-> Drawn(ks[k], l)]])
  BY Zenon DEF Jumps, ForEach, Call, CallOf, PairName, PairIn
<1>. HIDE DEF ks, L, T, Drawn
<1>7. ASSUME NEW k \in T
      PROVE  /\ f[k] = [l \in L |-> Drawn(k, l)]
             /\ f[k] \in Seq(CallSet(g_a, g_b))
             /\ \A y : y \in Range(f[k]) <=> \E l \in L : y = Drawn(k, l)
  <2>1. f[k] = [l \in L |-> Drawn(k, l)]
    BY Zenon
  <2>. HIDE DEF f
  <2>2. DOMAIN f[k] = L /\ f[k] = [l \in DOMAIN f[k] |-> f[k][l]] /\ \A l \in L : f[k][l] = Drawn(k, l)
    BY <2>1
  <2>3. f[k] \in Seq(CallSet(g_a, g_b))
    BY <1>4, <1>5, <2>2, SequenceOf
  <2>. QED
    BY <2>1, <2>2, <2>3 DEF Range
<1>. HIDE DEF f
<1>8. Jumps(c) = FlattenSeq([k \in DOMAIN ks |-> f[ks[k]]])
  <2>1. \A k \in DOMAIN ks : f[ks[k]] = [l \in L |-> Drawn(ks[k], l)]
    BY <1>3, <1>7, SeqParts
  <2>. QED
    BY <1>6, <2>1, Zenon
<1>9. /\ FlattenSeq([k \in DOMAIN ks |-> f[ks[k]]]) \in Seq(CallSet(g_a, g_b))
      /\ \A y : y \in Range(FlattenSeq([k \in DOMAIN ks |-> f[ks[k]]])) <=>
                  \E k \in Range(ks) : y \in Range(f[k])
  BY <1>3, <1>7, LoopMembers
<1>10. Jumps(c) \in Seq(CallSet(g_a, g_b))
  BY <1>8, <1>9
<1>11. \A y : y \in Range(Jumps(c)) <=> \E k \in T : \E l \in L : y = Drawn(k, l)
  <2>1. \A y : y \in Range(Jumps(c)) <=> \E k \in T : y \in Range(f[k])
    BY <1>3, <1>8, <1>9
  <2>2. \A y : \A k \in T : y \in Range(f[k]) <=> \E l \in L : y = Drawn(k, l)
    BY <1>7
  <2>. QED
    BY <2>1, <2>2, Zenon
<1>. QED
  BY <1>10, <1>11 DEF T, L, Drawn

LEMMA CellsAre ==
  ASSUME g_a \in Seq(Node), g_b \in Seq(Node)
  PROVE  /\ Cells = CellList(g_a, g_b)
         /\ Cells \in Seq(CellsIn(g_a, g_b)) /\ Range(Cells) = CellsIn(g_a, g_b)
<1>1. Cells = CellList(g_a, g_b)
  BY DEF Cells, CellList
<1>. QED
  BY <1>1, CellListMembers

(* A loop over the cells asks for what it asks for at each of them. *)
LEMMA CellsLoop ==
  ASSUME g_a \in Seq(Node), g_b \in Seq(Node), NEW f,
         \A c \in CellsIn(g_a, g_b) : f[c] \in Seq(CallSet(g_a, g_b))
  PROVE  LET calls == FlattenSeq([k \in DOMAIN Cells |-> f[Cells[k]]])
         IN  /\ calls \in Seq(CallSet(g_a, g_b))
             /\ \A y : y \in Range(calls) <=> \E c \in CellsIn(g_a, g_b) : y \in Range(f[c])
             /\ \A k \in DOMAIN Cells : Cells[k] \in CellsIn(g_a, g_b)
<1>1. Cells \in Seq(CellsIn(g_a, g_b)) /\ Range(Cells) = CellsIn(g_a, g_b)
  BY CellsAre
<1>2. \A k \in DOMAIN Cells : Cells[k] \in CellsIn(g_a, g_b)
  BY <1>1, SeqParts
<1>. DEFINE T == CellsIn(g_a, g_b)
            S == CallSet(g_a, g_b)
            seq == Cells
<1>3. seq \in Seq(T) /\ Range(seq) = T /\ \A c \in T : f[c] \in Seq(S)
  BY <1>1
<1>. HIDE DEF T, S, seq
<1>4. /\ FlattenSeq([k \in DOMAIN seq |-> f[seq[k]]]) \in Seq(S)
      /\ \A y : y \in Range(FlattenSeq([k \in DOMAIN seq |-> f[seq[k]]])) <=>
                  \E c \in Range(seq) : y \in Range(f[c])
  BY <1>3, LoopMembers
<1>. QED
  BY <1>2, <1>3, <1>4 DEF T, S, seq

LEMMA SidesCalls ==
  ASSUME IsGraph(g_a), IsGraph(g_b)
  PROVE  /\ ForEach(Cells, Sides) \in Seq(CallSet(g_a, g_b))
         /\ \A y : y \in Range(ForEach(Cells, Sides)) <=>
              \E c \in CellsIn(g_a, g_b) :
                y \in Range(MovesOfA(c, TRUE)) \/ y \in Range(MovesOfB(c, TRUE))
<1>. DEFINE C == CellsIn(g_a, g_b)
            f == [c \in C |-> MovesOfA(c, TRUE) \o MovesOfB(c, TRUE)]
<1>1. ASSUME NEW c \in C
      PROVE  /\ f[c] = MovesOfA(c, TRUE) \o MovesOfB(c, TRUE)
             /\ f[c] \in Seq(CallSet(g_a, g_b))
             /\ \A y : y \in Range(f[c]) <=> y \in Range(MovesOfA(c, TRUE)) \/ y \in Range(MovesOfB(c, TRUE))
  <2>1. f[c] = MovesOfA(c, TRUE) \o MovesOfB(c, TRUE)
    BY Zenon
  <2>2. /\ MovesOfA(c, TRUE) \in Seq(CallSet(g_a, g_b))
        /\ MovesOfB(c, TRUE) \in Seq(CallSet(g_a, g_b))
    BY MovesOfAMembers, MovesOfBMembers
  <2>3. /\ f[c] \in Seq(CallSet(g_a, g_b))
        /\ Range(f[c]) = Range(MovesOfA(c, TRUE)) \cup Range(MovesOfB(c, TRUE))
    BY ZenonT(30), <2>1, <2>2, RangeOfConcat
  <2>. QED
    BY <2>1, <2>3
<1>2. ForEach(Cells, Sides) = FlattenSeq([k \in DOMAIN Cells |-> MovesOfA(Cells[k], TRUE) \o MovesOfB(Cells[k], TRUE)])
  BY Zenon DEF ForEach, Sides
<1>. HIDE DEF f
<1>3. LET calls == FlattenSeq([k \in DOMAIN Cells |-> f[Cells[k]]])
      IN  /\ calls \in Seq(CallSet(g_a, g_b))
          /\ \A y : y \in Range(calls) <=> \E c \in C : y \in Range(f[c])
          /\ \A k \in DOMAIN Cells : Cells[k] \in C
  BY <1>1, CellsLoop DEF IsGraph
<1>4. ForEach(Cells, Sides) = FlattenSeq([k \in DOMAIN Cells |-> f[Cells[k]]])
  BY <1>1, <1>2, <1>3, Zenon
<1>. HIDE DEF C
<1>5. ForEach(Cells, Sides) \in Seq(CallSet(g_a, g_b))
  BY <1>3, <1>4
<1>6. \A y : y \in Range(ForEach(Cells, Sides)) <=> \E c \in C : y \in Range(f[c])
  BY <1>3, <1>4
<1>7. \A y : \A c \in C :
        y \in Range(f[c]) <=> y \in Range(MovesOfA(c, TRUE)) \/ y \in Range(MovesOfB(c, TRUE))
  BY <1>1
<1>. QED
  BY <1>5, <1>6, <1>7, Zenon DEF C

LEMMA DiagonalsCalls ==
  ASSUME g_a \in Operands, g_b \in Operands
  PROVE  /\ ForEach(Cells, Diagonals) \in Seq(CallSet(g_a, g_b))
         /\ \A y : y \in Range(ForEach(Cells, Diagonals)) <=>
              \E c \in CellsIn(g_a, g_b) : y \in Range(Diagonals(c))
<1>. DEFINE C == CellsIn(g_a, g_b)
            f == [c \in C |-> Diagonals(c)]
<1>1. IsGraph(g_a) /\ IsGraph(g_b) /\ g_a \in Seq(Node) /\ g_b \in Seq(Node)
  BY ProductsAssumption DEF IsGraph
<1>2. ASSUME NEW c \in C
      PROVE  f[c] = Diagonals(c) /\ f[c] \in Seq(CallSet(g_a, g_b))
  <2>1. f[c] = Diagonals(c)
    BY Zenon
  <2>. QED
    BY <2>1, DiagonalsMembers
<1>3. ForEach(Cells, Diagonals) = FlattenSeq([k \in DOMAIN Cells |-> Diagonals(Cells[k])])
  BY Zenon DEF ForEach
<1>. HIDE DEF f
<1>4. LET calls == FlattenSeq([k \in DOMAIN Cells |-> f[Cells[k]]])
      IN  /\ calls \in Seq(CallSet(g_a, g_b))
          /\ \A y : y \in Range(calls) <=> \E c \in C : y \in Range(f[c])
          /\ \A k \in DOMAIN Cells : Cells[k] \in C
  BY <1>1, <1>2, CellsLoop
<1>5. ForEach(Cells, Diagonals) = FlattenSeq([k \in DOMAIN Cells |-> f[Cells[k]]])
  BY <1>2, <1>3, <1>4, Zenon
<1>. HIDE DEF C
<1>6. \A y : y \in Range(ForEach(Cells, Diagonals)) <=> \E c \in C : y \in Range(f[c])
  BY <1>4, <1>5
<1>. QED
  BY <1>2, <1>4, <1>5, <1>6, Zenon DEF C

LEMMA JumpsCalls ==
  ASSUME g_a \in Operands, g_b \in Operands
  PROVE  /\ ForEach(Cells, LAMBDA c : Jumps(c) \o MovesOfB(c, FALSE)) \in Seq(CallSet(g_a, g_b))
         /\ \A y : y \in Range(ForEach(Cells, LAMBDA c : Jumps(c) \o MovesOfB(c, FALSE))) <=>
              \E c \in CellsIn(g_a, g_b) : y \in Range(Jumps(c) \o MovesOfB(c, FALSE))
<1>. DEFINE C == CellsIn(g_a, g_b)
            f == [c \in C |-> Jumps(c) \o MovesOfB(c, FALSE)]
<1>1. IsGraph(g_a) /\ IsGraph(g_b) /\ g_a \in Seq(Node) /\ g_b \in Seq(Node)
  BY ProductsAssumption DEF IsGraph
<1>2. ASSUME NEW c \in C
      PROVE  f[c] = Jumps(c) \o MovesOfB(c, FALSE) /\ f[c] \in Seq(CallSet(g_a, g_b))
  <2>1. f[c] = Jumps(c) \o MovesOfB(c, FALSE)
    BY Zenon
  <2>2. Jumps(c) \in Seq(CallSet(g_a, g_b)) /\ MovesOfB(c, FALSE) \in Seq(CallSet(g_a, g_b))
    BY <1>1, JumpsMembers, MovesOfBMembers
  <2>. QED
    BY <2>1, <2>2, RangeOfConcat
<1>3. ForEach(Cells, LAMBDA c : Jumps(c) \o MovesOfB(c, FALSE)) = FlattenSeq([k \in DOMAIN Cells |-> Jumps(Cells[k]) \o MovesOfB(Cells[k], FALSE)])
  BY Zenon DEF ForEach
<1>. HIDE DEF f
<1>4. LET calls == FlattenSeq([k \in DOMAIN Cells |-> f[Cells[k]]])
      IN  /\ calls \in Seq(CallSet(g_a, g_b))
          /\ \A y : y \in Range(calls) <=> \E c \in C : y \in Range(f[c])
          /\ \A k \in DOMAIN Cells : Cells[k] \in C
  BY <1>1, <1>2, CellsLoop
<1>5. ForEach(Cells, LAMBDA c : Jumps(c) \o MovesOfB(c, FALSE)) = FlattenSeq([k \in DOMAIN Cells |-> f[Cells[k]]])
  BY <1>2, <1>3, <1>4, Zenon
<1>. HIDE DEF C
<1>6. \A y : y \in Range(ForEach(Cells, LAMBDA c : Jumps(c) \o MovesOfB(c, FALSE))) <=> \E c \in C : y \in Range(f[c])
  BY <1>4, <1>5
<1>. QED
  BY <1>2, <1>4, <1>5, <1>6, Zenon DEF C

LEMMA MovesOfBCalls ==
  ASSUME g_a \in Operands, g_b \in Operands
  PROVE  /\ ForEach(Cells, LAMBDA c : MovesOfB(c, FALSE)) \in Seq(CallSet(g_a, g_b))
         /\ \A y : y \in Range(ForEach(Cells, LAMBDA c : MovesOfB(c, FALSE))) <=>
              \E c \in CellsIn(g_a, g_b) : y \in Range(MovesOfB(c, FALSE))
<1>. DEFINE C == CellsIn(g_a, g_b)
            f == [c \in C |-> MovesOfB(c, FALSE)]
<1>1. IsGraph(g_a) /\ IsGraph(g_b) /\ g_a \in Seq(Node) /\ g_b \in Seq(Node)
  BY ProductsAssumption DEF IsGraph
<1>2. ASSUME NEW c \in C
      PROVE  f[c] = MovesOfB(c, FALSE) /\ f[c] \in Seq(CallSet(g_a, g_b))
  <2>1. f[c] = MovesOfB(c, FALSE)
    BY Zenon
  <2>. QED
    BY <1>1, <2>1, MovesOfBMembers
<1>3. ForEach(Cells, LAMBDA c : MovesOfB(c, FALSE)) = FlattenSeq([k \in DOMAIN Cells |-> MovesOfB(Cells[k], FALSE)])
  BY Zenon DEF ForEach
<1>. HIDE DEF f
<1>4. LET calls == FlattenSeq([k \in DOMAIN Cells |-> f[Cells[k]]])
      IN  /\ calls \in Seq(CallSet(g_a, g_b))
          /\ \A y : y \in Range(calls) <=> \E c \in C : y \in Range(f[c])
          /\ \A k \in DOMAIN Cells : Cells[k] \in C
  BY <1>1, <1>2, CellsLoop
<1>5. ForEach(Cells, LAMBDA c : MovesOfB(c, FALSE)) = FlattenSeq([k \in DOMAIN Cells |-> f[Cells[k]]])
  BY <1>2, <1>3, <1>4, Zenon
<1>. HIDE DEF C
<1>6. \A y : y \in Range(ForEach(Cells, LAMBDA c : MovesOfB(c, FALSE))) <=> \E c \in C : y \in Range(f[c])
  BY <1>4, <1>5
<1>. QED
  BY <1>2, <1>4, <1>5, <1>6, Zenon DEF C

LEMMA RootCellsAre ==
  ASSUME g_a \in Seq(Node), RootId \in NodesOf(g_b)
  PROVE  /\ RootCells \in Seq(CellsIn(g_a, g_b))
         /\ Range(RootCells) = {c \in CellsIn(g_a, g_b) : c[2] = RootId}
<1>. DEFINE ids == NodeIds(g_a)
            r   == RootId
            T   == NodesOf(g_a)
<1>1. ids \in Seq(T) /\ Range(ids) = T /\ r \in NodesOf(g_b)
  BY NodeIdsMembers
<1>2. RootCells = [i \in DOMAIN ids |-> <<ids[i], r>>]
  BY DEF RootCells
<1>. HIDE DEF ids, r, T
<1>. DEFINE f == [i \in T |-> <<i, r>>]
<1>3. \A i \in T : f[i] = <<i, r>> /\ f[i] \in CellsIn(g_a, g_b)
  BY <1>1 DEF CellsIn, T
<1>. HIDE DEF f
<1>4. \A k \in DOMAIN ids : ids[k] \in T
  BY <1>1, SeqParts
<1>5. RootCells = [k \in DOMAIN ids |-> f[ids[k]]]
  BY <1>2, <1>3, <1>4
<1>6. /\ [k \in DOMAIN ids |-> f[ids[k]]] \in Seq(CellsIn(g_a, g_b))
      /\ \A y : y \in Range([k \in DOMAIN ids |-> f[ids[k]]]) <=> \E i \in Range(ids) : y = f[i]
  <2>. DEFINE C == CellsIn(g_a, g_b)
  <2>1. \A i \in T : f[i] \in C
    BY <1>3
  <2>. HIDE DEF C
  <2>2. /\ [k \in DOMAIN ids |-> f[ids[k]]] \in Seq(C)
        /\ \A y : y \in Range([k \in DOMAIN ids |-> f[ids[k]]]) <=> \E i \in Range(ids) : y = f[i]
    <3>1. ids \in Seq(T)
      BY <1>1
    <3>2. [k \in DOMAIN ids |-> f[ids[k]]] \in Seq(C)
      BY <3>1, <2>1, MapMembers
    <3>3. \A y : y \in Range([k \in DOMAIN ids |-> f[ids[k]]]) <=> \E i \in Range(ids) : y = f[i]
      BY <3>2 DEF Range
    <3>. QED
      BY <3>2, <3>3
  <2>. QED
    BY <2>2 DEF C
<1>7. \A y : y \in Range(RootCells) <=> \E i \in T : y = <<i, r>>
  BY ZenonT(30), <1>1, <1>3, <1>5, <1>6
<1>8. \A y : (\E i \in T : y = <<i, r>>) <=> y \in CellsIn(g_a, g_b) /\ y[2] = r
  BY <1>1 DEF CellsIn, T
<1>. QED
  BY <1>5, <1>6, <1>7, <1>8 DEF r

LEMMA RootCalls ==
  ASSUME g_a \in Operands, g_b \in Operands, RootId \in NodesOf(g_b)
  PROVE  LET calls == ForEach(RootCells, LAMBDA c : MovesOfA(c, FALSE))
         IN  /\ calls \in Seq(CallSet(g_a, g_b))
             /\ \A y : y \in Range(calls) <=>
                  \E c \in CellsIn(g_a, g_b) : c[2] = RootId /\ y \in Range(MovesOfA(c, FALSE))
<1>. DEFINE C == CellsIn(g_a, g_b)
            S == CallSet(g_a, g_b)
            f == [c \in C |-> MovesOfA(c, FALSE)]
            seq == RootCells
            calls == ForEach(RootCells, LAMBDA c : MovesOfA(c, FALSE))
<1>1. IsGraph(g_a) /\ IsGraph(g_b) /\ g_a \in Seq(Node)
  BY ProductsAssumption DEF IsGraph
<1>2. seq \in Seq(C) /\ Range(seq) = {c \in C : c[2] = RootId}
  BY <1>1, RootCellsAre
<1>3. ASSUME NEW c \in C PROVE f[c] = MovesOfA(c, FALSE) /\ f[c] \in Seq(S)
  <2>1. f[c] = MovesOfA(c, FALSE)
    BY Zenon
  <2>. QED
    BY <1>1, <2>1, MovesOfAMembers
<1>4. calls = FlattenSeq([k \in DOMAIN seq |-> MovesOfA(seq[k], FALSE)])
  BY Zenon DEF ForEach
<1>. HIDE DEF C, S, f, seq, calls
<1>5. \A k \in DOMAIN seq : seq[k] \in C
  BY <1>2, SeqParts
<1>6. calls = FlattenSeq([k \in DOMAIN seq |-> f[seq[k]]])
  BY <1>3, <1>4, <1>5, Zenon
<1>7. /\ FlattenSeq([k \in DOMAIN seq |-> f[seq[k]]]) \in Seq(S)
      /\ \A y : y \in Range(FlattenSeq([k \in DOMAIN seq |-> f[seq[k]]])) <=>
                  \E c \in Range(seq) : y \in Range(f[c])
  BY <1>2, <1>3, LoopMembers
<1>8. \A y : y \in Range(calls) <=> \E c \in C : c[2] = RootId /\ y \in Range(MovesOfA(c, FALSE))
  BY <1>2, <1>3, <1>6, <1>7
<1>. QED
  BY <1>6, <1>7, <1>8 DEF C, S, calls

(* What is asked for at one cell. *)
AskedAt(c, y) ==
  \/ kind \in {"cart", "strong"} /\ (y \in Range(MovesOfA(c, TRUE)) \/ y \in Range(MovesOfB(c, TRUE)))
  \/ kind \in {"tens", "strong"} /\ y \in Range(Diagonals(c))
  \/ kind = "lex" /\ y \in Range(Jumps(c))
  \/ kind \in {"lex", "root"} /\ y \in Range(MovesOfB(c, FALSE))
  \/ kind = "root" /\ c[2] = RootId /\ y \in Range(MovesOfA(c, FALSE))

LEMMA CallsMembers ==
  ASSUME g_a \in Operands, g_b \in Operands, kind \in Kinds, ~RootMissing
  PROVE  /\ Calls \in Seq(CallSet(g_a, g_b))
         /\ \A y : y \in Range(Calls) <=> \E c \in CellsIn(g_a, g_b) : AskedAt(c, y)
<1>. DEFINE C == CellsIn(g_a, g_b)
            S == CallSet(g_a, g_b)
            sides == ForEach(Cells, Sides)
            diagonals == ForEach(Cells, Diagonals)
            jumps == ForEach(Cells, LAMBDA c : Jumps(c) \o MovesOfB(c, FALSE))
            moves == ForEach(Cells, LAMBDA c : MovesOfB(c, FALSE))
            roots == ForEach(RootCells, LAMBDA c : MovesOfA(c, FALSE))
<1>1. IsGraph(g_a) /\ IsGraph(g_b)
  BY ProductsAssumption
<1>2. kind \in {"cart", "tens", "lex", "strong", "root"}
  BY ProductsAssumption
<1>3. /\ sides \in Seq(S)
      /\ \A y : y \in Range(sides) <=>
           \E c \in C : y \in Range(MovesOfA(c, TRUE)) \/ y \in Range(MovesOfB(c, TRUE))
  BY <1>1, SidesCalls
<1>4. /\ diagonals \in Seq(S)
      /\ \A y : y \in Range(diagonals) <=> \E c \in C : y \in Range(Diagonals(c))
  BY DiagonalsCalls
<1>5. /\ moves \in Seq(S)
      /\ \A y : y \in Range(moves) <=> \E c \in C : y \in Range(MovesOfB(c, FALSE))
  BY MovesOfBCalls
<1>6. /\ jumps \in Seq(S)
      /\ \A y : y \in Range(jumps) <=>
           \E c \in C : y \in Range(Jumps(c)) \/ y \in Range(MovesOfB(c, FALSE))
  <2>1. /\ jumps \in Seq(S)
        /\ \A y : y \in Range(jumps) <=> \E c \in C : y \in Range(Jumps(c) \o MovesOfB(c, FALSE))
    BY JumpsCalls
  <2>2. ASSUME NEW c \in C
        PROVE  Range(Jumps(c) \o MovesOfB(c, FALSE)) = Range(Jumps(c)) \cup Range(MovesOfB(c, FALSE))
    <3>1. Jumps(c) \in Seq(S) /\ MovesOfB(c, FALSE) \in Seq(S)
      BY <1>1, JumpsMembers, MovesOfBMembers
    <3>. QED
      BY ZenonT(30), <3>1, RangeOfConcat
  <2>. HIDE DEF jumps, S, C
  <2>. QED
    BY <2>1, <2>2
<1>7. ASSUME kind = "root"
      PROVE  /\ roots \in Seq(S)
             /\ \A y : y \in Range(roots) <=>
                  \E c \in C : c[2] = RootId /\ y \in Range(MovesOfA(c, FALSE))
  <2>1. RootId \in NodesOf(g_b)
    BY <1>7 DEF RootMissing, NodesOf
  <2>. QED
    BY <2>1, RootCalls
<1>8. /\ kind = "cart" => Calls = sides
      /\ kind = "tens" => Calls = diagonals
      /\ kind = "lex" => Calls = jumps
      /\ kind = "strong" => Calls = diagonals \o sides
      /\ kind = "root" => Calls = roots \o moves
  BY Zenon DEF Calls
<1>. HIDE DEF C, S, sides, diagonals, jumps, moves, roots
<1>9. CASE kind = "cart"
  BY <1>3, <1>8, <1>9 DEF AskedAt, C, S
<1>10. CASE kind = "tens"
  BY <1>4, <1>8, <1>10 DEF AskedAt, C, S
<1>11. CASE kind = "lex"
  BY <1>6, <1>8, <1>11 DEF AskedAt, C, S
<1>12. CASE kind = "strong"
  <2>1. diagonals \o sides \in Seq(S) /\ Range(diagonals \o sides) = Range(diagonals) \cup Range(sides)
    BY <1>3, <1>4, RangeOfConcat
  <2>. QED
    BY <1>3, <1>4, <1>8, <1>12, <2>1 DEF AskedAt, C, S
<1>13. CASE kind = "root"
  <2>1. roots \o moves \in Seq(S) /\ Range(roots \o moves) = Range(roots) \cup Range(moves)
    BY <1>5, <1>7, <1>13, RangeOfConcat
  <2>. QED
    BY <1>5, <1>7, <1>8, <1>13, <2>1 DEF AskedAt, C, S
<1>. QED
  BY <1>2, <1>9, <1>10, <1>11, <1>12, <1>13

----------------------------------------------------------------------------
(* The invariant: the graph and what is left to do. *)

NamesOf(A, B, cells) == [k \in DOMAIN cells |-> PairIn(A, B, cells[k])]

(* The NODEs made, then those that are to be made, are the pairs in their order. *)
NodesInv ==
  IF pc = "nodes"
  THEN /\ todo \in Seq(CellsIn(g_a, g_b))
       /\ NodeNames(g_prod) \o NamesOf(g_a, g_b, todo) = NamesOf(g_a, g_b, CellList(g_a, g_b))
  ELSE /\ todo \in Seq(CallSet(g_a, g_b))
       /\ NodeNames(g_prod) = NamesOf(g_a, g_b, CellList(g_a, g_b))

(* Pairs that the names tell apart have their gates, or will get them. *)
GatesInv ==
  Tells(g_a, g_b) =>
    /\ Named(g_a, g_b, g_prod)
    /\ OwnGates(g_a, g_b, g_prod)
    /\ pc = "nodes" => NoEdges(g_prod)
    /\ \A c \in CellsIn(g_a, g_b) :
         (pc = "nodes" /\ c \in Range(todo)) \/ Complete(g_a, g_b, g_prod, c)

GraphInv ==
  /\ g_a \in Operands /\ g_b \in Operands /\ kind \in Kinds
  /\ pc \in {"nodes", "edges", "done"}
  /\ res \in {"ok", "ROOT", "CONN"}
  /\ Shape(g_prod)
  /\ NodesInv
  /\ GatesInv

LEMMA FirstAndRest ==
  ASSUME NEW S, NEW s \in Seq(S), s # <<>>
  PROVE  /\ Head(s) \in S /\ Tail(s) \in Seq(S)
         /\ Range(s) = {Head(s)} \cup Range(Tail(s))
<1>1. /\ Len(s) \in Nat /\ Len(s) >= 1 /\ DOMAIN s = 1..Len(s)
      /\ Head(s) = s[1] /\ Head(s) \in S /\ Tail(s) \in Seq(S)
      /\ DOMAIN Tail(s) = 1..(Len(s) - 1)
      /\ \A k \in 1..(Len(s) - 1) : Tail(s)[k] = s[k + 1]
  OBVIOUS
<1>2. ASSUME NEW k \in DOMAIN s PROVE s[k] \in {Head(s)} \cup Range(Tail(s))
  <2>1. CASE k = 1
    BY <1>1, <2>1
  <2>2. CASE k # 1
    <3>1. k - 1 \in DOMAIN Tail(s) /\ (k - 1) + 1 = k
      BY <1>1, <2>2
    <3>2. Tail(s)[k - 1] = s[k]
      BY <1>1, <3>1
    <3>. QED
      BY <3>1, <3>2 DEF Range
  <2>. QED
    BY <2>1, <2>2
<1>3. ASSUME NEW k \in DOMAIN Tail(s) PROVE Tail(s)[k] \in Range(s)
  <2>1. k + 1 \in DOMAIN s /\ Tail(s)[k] = s[k + 1]
    BY <1>1
  <2>. QED
    BY <2>1 DEF Range
<1>4. Head(s) \in Range(s)
  BY <1>1 DEF Range
<1>. QED
  BY <1>1, <1>2, <1>3, <1>4 DEF Range

LEMMA NamesOfFirst ==
  ASSUME NEW A, NEW B, NEW S, NEW s \in Seq(S), s # <<>>, NEW before \in Seq(Names),
         \A c \in S : PairIn(A, B, c) \in Names
  PROVE  (before \o <<PairIn(A, B, Head(s))>>) \o NamesOf(A, B, Tail(s)) = before \o NamesOf(A, B, s)
<1>. DEFINE n == Len(s)
            first == PairIn(A, B, Head(s))
            rest == NamesOf(A, B, Tail(s))
            all == NamesOf(A, B, s)
<1>1. /\ n \in Nat /\ n >= 1 /\ DOMAIN s = 1..n /\ Head(s) = s[1]
      /\ DOMAIN Tail(s) = 1..(n - 1) /\ \A k \in 1..(n - 1) : Tail(s)[k] = s[k + 1]
      /\ \A k \in 1..n : s[k] \in S
  OBVIOUS
<1>2. n - 1 \in Nat /\ \A k \in 1..(n - 1) : k + 1 \in 1..n
  BY <1>1
<1>. HIDE DEF n
<1>3. all \in Seq(Names) /\ Len(all) = n /\ \A k \in 1..n : all[k] = PairIn(A, B, s[k])
  BY <1>1 DEF NamesOf
<1>4. rest \in Seq(Names) /\ Len(rest) = n - 1 /\ \A k \in 1..(n - 1) : rest[k] = PairIn(A, B, s[k + 1])
  BY <1>1, <1>2 DEF NamesOf
<1>5. first \in Names /\ first = all[1]
  BY <1>1, <1>3
<1>. HIDE DEF first, rest, all
<1>6. \A k \in 1..(n - 1) : rest[k] = all[k + 1]
  BY <1>2, <1>3, <1>4
<1>7. <<first>> \o rest = all
  <2>1. <<first>> \o rest \in Seq(Names) /\ Len(<<first>> \o rest) = n
    BY <1>1, <1>4, <1>5
  <2>2. ASSUME NEW k \in 1..n PROVE (<<first>> \o rest)[k] = all[k]
    <3>1. CASE k = 1
      BY <1>4, <1>5, <3>1
    <3>2. CASE k # 1
      <4>1. k - 1 \in 1..(n - 1) /\ (k - 1) + 1 = k
        BY <1>1, <3>2
      <4>2. (<<first>> \o rest)[k] = rest[k - 1]
        BY <1>1, <1>4, <1>5, <4>1
      <4>. QED
        BY <1>6, <4>1, <4>2
    <3>. QED
      BY <3>1, <3>2
  <2>. QED
    BY <1>3, <2>1, <2>2
<1>8. (before \o <<first>>) \o rest = before \o (<<first>> \o rest)
  BY <1>4, <1>5
<1>. QED
  BY <1>7, <1>8 DEF first, rest, all

LEMMA NoNodesNoNames == NodeNames(EmptyGraph) = <<>>
<1>1. <<>> \in Seq(Node) /\ DOMAIN <<>> = {}
  OBVIOUS
<1>2. NodesOf(<<>>) = {}
  BY <1>1 DEF NodesOf
<1>3. NodeIds(<<>>) \in Seq({})
  BY <1>1, <1>2, NodeIdsMembers
<1>4. NodeIds(<<>>) = <<>>
  BY <1>3
<1>. QED
  BY <1>1, <1>4 DEF NodeNames, EmptyGraph

LEMMA PairsAreNames ==
  ASSUME g_a \in Operands, g_b \in Operands
  PROVE  /\ \A c \in CellsIn(g_a, g_b) : PairIn(g_a, g_b, c) \in Names
         /\ \A d \in (DOMAIN g_a) \X (DOMAIN g_b) : PairIn(g_a, g_b, d) \in Names
<1>1. IsGraph(g_a) /\ IsGraph(g_b)
  BY ProductsAssumption
<1>. QED
  BY <1>1, PairIsName, CellsAreIds

LEMMA GraphInvInit ==
  ASSUME Init
  PROVE  GraphInv
<1>1. /\ g_a \in Operands /\ g_b \in Operands /\ kind \in Kinds /\ pc = "nodes" /\ res = "ok"
      /\ g_prod = <<>> /\ todo = Cells
  BY DEF Init, EmptyGraph
<1>2. g_a \in Seq(Node) /\ g_b \in Seq(Node)
  BY <1>1, ProductsAssumption DEF IsGraph
<1>3. Cells = CellList(g_a, g_b) /\ Cells \in Seq(CellsIn(g_a, g_b)) /\ Range(Cells) = CellsIn(g_a, g_b)
  BY <1>2, CellsAre
<1>4. g_prod \in Seq(Node) /\ DOMAIN g_prod = {}
  BY <1>1
<1>5. Shape(g_prod)
  BY <1>4 DEF Shape, IsGraph, Simple, Symmetric, Loopless, NoParallel, NodesAndGates, FoundIn
<1>6. NodesInv
  <2>. DEFINE all == NamesOf(g_a, g_b, CellList(g_a, g_b))
  <2>1. NodeNames(g_prod) = <<>>
    BY <1>1, NoNodesNoNames DEF EmptyGraph
  <2>2. all \in Seq(Names)
    <3>1. \A k \in DOMAIN Cells : PairIn(g_a, g_b, Cells[k]) \in Names
      BY <1>1, <1>3, PairsAreNames, SeqParts
    <3>2. DOMAIN Cells = 1..Len(Cells) /\ Len(Cells) \in Nat
      BY <1>3, SeqParts
    <3>. QED
      BY <1>3, <3>1, <3>2 DEF NamesOf
  <2>. HIDE DEF all
  <2>3. <<>> \o all = all
    BY <2>2
  <2>. QED
    BY <1>1, <1>3, <2>1, <2>3 DEF NodesInv, all
<1>7. GatesInv
  BY <1>1, <1>3, <1>4 DEF GatesInv, Named, OwnGates, NoEdges
<1>. QED
  BY <1>1, <1>5, <1>6, <1>7 DEF GraphInv

LEMMA CellIsMade ==
  ASSUME NEW c
  PROVE  Cell(c) = CellMade(g_a, g_b, g_prod, c)
BY Zenon DEF Cell, CellMade, CellGates, GatesIn, PairName, PairIn

LEMMA AddCellKeepsGraphInv ==
  ASSUME GraphInv, AddCell
  PROVE  GraphInv'
<1>. DEFINE c == Head(todo)
<1>1. /\ g_a \in Operands /\ g_b \in Operands /\ kind \in Kinds
      /\ pc = "nodes" /\ res \in {"ok", "ROOT", "CONN"} /\ Shape(g_prod) /\ todo # <<>>
      /\ todo \in Seq(CellsIn(g_a, g_b))
      /\ NodeNames(g_prod) \o NamesOf(g_a, g_b, todo) = NamesOf(g_a, g_b, CellList(g_a, g_b))
  BY DEF GraphInv, AddCell, NodesInv
<1>2. c \in CellsIn(g_a, g_b) /\ Tail(todo) \in Seq(CellsIn(g_a, g_b)) /\ Range(todo) = {c} \cup Range(Tail(todo))
  BY <1>1, FirstAndRest
<1>3. PICK h : /\ CellMade(g_a, g_b, g_prod, c) = Making(h, PairIn(g_a, g_b, c))
               /\ Shape(h) /\ Keeps(g_prod, h)
               /\ NodeNames(h) = NodeNames(g_prod) \o <<PairIn(g_a, g_b, c)>>
               /\ Tells(g_a, g_b) /\ GatePhase(g_a, g_b, g_prod) =>
                    GatePhase(g_a, g_b, h) /\ Complete(g_a, g_b, h, c)
  BY <1>1, <1>2, CellEffect, OperandsAre
<1>4. Making(h, PairIn(g_a, g_b, c)).graph = h /\ Making(h, PairIn(g_a, g_b, c)).refused = FALSE
  <2>1. Making(h, PairIn(g_a, g_b, c)).graph = h
    BY DEF Making
  <2>2. Making(h, PairIn(g_a, g_b, c)).refused = FALSE
    BY Zenon DEF Making
  <2>. QED
    BY <2>1, <2>2
<1>5. /\ g_prod' = h /\ todo' = Tail(todo)
      /\ UNCHANGED <<g_a, g_b, kind, pc, res>>
  <2>1. Cell(Head(todo)) = Making(h, PairIn(g_a, g_b, c))
    BY <1>3, CellIsMade
  <2>. QED
    BY <1>4, <2>1 DEF AddCell, operands
<1>6. NodesInv'
  <2>1. /\ NodeNames(g_prod) \in Seq(Names)
        /\ \A d \in CellsIn(g_a, g_b) : PairIn(g_a, g_b, d) \in Names
    <3>1. g_prod \in Seq(Node) /\ <<>> \in Names /\ "NODE" \in NodeTypes
      BY <1>1 DEF Shape, IsGraph, Names, NodeTypes
    <3>. QED
      BY <1>1, <3>1, NodeNamesMore, PairsAreNames
  <2>2. (NodeNames(g_prod) \o <<PairIn(g_a, g_b, c)>>) \o NamesOf(g_a, g_b, Tail(todo)) =
           NodeNames(g_prod) \o NamesOf(g_a, g_b, todo)
    BY <1>1, <2>1, NamesOfFirst
  <2>3. NodeNames(h) \o NamesOf(g_a, g_b, Tail(todo)) = NamesOf(g_a, g_b, CellList(g_a, g_b))
    BY <1>1, <1>3, <2>2
  <2>. QED
    BY <1>1, <1>2, <1>5, <2>3 DEF NodesInv
<1>7. GatesInv'
  <2>1. SUFFICES ASSUME Tells(g_a, g_b)
                 PROVE  /\ Named(g_a, g_b, h) /\ OwnGates(g_a, g_b, h) /\ NoEdges(h)
                        /\ \A d \in CellsIn(g_a, g_b) : d \in Range(Tail(todo)) \/ Complete(g_a, g_b, h, d)
    BY <1>1, <1>5 DEF GatesInv
  <2>2. /\ GatePhase(g_a, g_b, g_prod)
        /\ \A d \in CellsIn(g_a, g_b) : d \in Range(todo) \/ Complete(g_a, g_b, g_prod, d)
    BY <1>1, <2>1 DEF GraphInv, GatesInv, GatePhase
  <2>3. GatePhase(g_a, g_b, h) /\ Complete(g_a, g_b, h, c)
    BY <1>3, <2>1, <2>2
  <2>4. ASSUME NEW d \in CellsIn(g_a, g_b), d \notin Range(Tail(todo))
        PROVE  Complete(g_a, g_b, h, d)
    <3>1. CASE d = c
      BY <2>3, <3>1
    <3>2. CASE d # c
      <4>1. Complete(g_a, g_b, g_prod, d)
        BY <1>2, <2>2, <2>4, <3>2
      <4>2. IsGraph(g_prod) /\ IsGraph(h)
        BY <1>1, <1>3 DEF Shape
      <4>. QED
        BY <1>3, <4>1, <4>2, CompleteKept
    <3>. QED
      BY <3>1, <3>2
  <2>. QED
    BY <2>3, <2>4 DEF GatePhase
<1>. QED
  BY <1>1, <1>3, <1>5, <1>6, <1>7 DEF GraphInv

LEMMA CellsDoneKeepsGraphInv ==
  ASSUME GraphInv, CellsDone
  PROVE  GraphInv'
<1>1. /\ g_a \in Operands /\ g_b \in Operands /\ kind \in Kinds /\ ~RootMissing
      /\ pc = "nodes" /\ pc' = "edges" /\ todo = <<>> /\ todo' = Calls
      /\ UNCHANGED <<g_a, g_b, kind, g_prod, res>>
      /\ NodeNames(g_prod) \o NamesOf(g_a, g_b, todo) = NamesOf(g_a, g_b, CellList(g_a, g_b))
  BY DEF GraphInv, CellsDone, NodesInv, operands
<1>2. Calls \in Seq(CallSet(g_a, g_b))
  BY <1>1, CallsMembers
<1>3. NodeNames(g_prod) = NamesOf(g_a, g_b, CellList(g_a, g_b))
  <2>1. NamesOf(g_a, g_b, todo) = <<>>
    BY <1>1 DEF NamesOf
  <2>2. NodeNames(g_prod) \in Seq(Names)
    <3>1. g_prod \in Seq(Node) /\ <<>> \in Names /\ "NODE" \in NodeTypes
      BY DEF GraphInv, Shape, IsGraph, Names, NodeTypes
    <3>. QED
      BY <3>1, NodeNamesMore
  <2>. QED
    BY <1>1, <2>1, <2>2
<1>4. NodesInv'
  BY <1>1, <1>2, <1>3 DEF NodesInv
<1>5. GatesInv'
  <2>1. Range(todo) = {}
    BY <1>1 DEF Range
  <2>. QED
    BY <1>1, <2>1 DEF GraphInv, GatesInv
<1>. QED
  BY <1>1, <1>4, <1>5 DEF GraphInv

LEMMA NoRootKeepsGraphInv ==
  ASSUME GraphInv, NoRoot
  PROVE  GraphInv'
<1>1. /\ pc = "nodes" /\ pc' = "done" /\ todo = <<>> /\ todo' = todo /\ res' = "ROOT"
      /\ UNCHANGED <<g_a, g_b, kind, g_prod>>
      /\ NodeNames(g_prod) \o NamesOf(g_a, g_b, todo) = NamesOf(g_a, g_b, CellList(g_a, g_b))
  BY DEF GraphInv, NoRoot, NodesInv, operands
<1>2. NodeNames(g_prod) = NamesOf(g_a, g_b, CellList(g_a, g_b))
  <2>1. NamesOf(g_a, g_b, todo) = <<>>
    BY <1>1 DEF NamesOf
  <2>2. NodeNames(g_prod) \in Seq(Names)
    <3>1. g_prod \in Seq(Node) /\ <<>> \in Names /\ "NODE" \in NodeTypes
      BY DEF GraphInv, Shape, IsGraph, Names, NodeTypes
    <3>. QED
      BY <3>1, NodeNamesMore
  <2>. QED
    BY <1>1, <2>1, <2>2
<1>3. NodesInv'
  BY <1>1, <1>2 DEF NodesInv
<1>4. GatesInv'
  <2>1. Range(todo) = {}
    BY <1>1 DEF Range
  <2>. QED
    BY <1>1, <2>1 DEF GraphInv, GatesInv
<1>. QED
  BY <1>1, <1>3, <1>4 DEF GraphInv

(* A call comes from a pair; what it leads to is a NODE, if it is there. *)
LEMMA CallParts ==
  ASSUME NEW A, NEW B, NEW call \in CallSet(A, B)
  PROVE  \E c \in CellsIn(A, B), d \in (DOMAIN A) \X (DOMAIN B) :
           call.from = PairIn(A, B, c) /\ call.to = PairIn(A, B, d) /\ call.attrs \in EdgeAttrs
<1>1. PICK t \in CellsIn(A, B) \X ((DOMAIN A) \X (DOMAIN B)) \X EdgeAttrs :
             call = CallOf(A, B, t[1], t[2], t[3])
  BY DEF CallSet
<1>2. /\ call.from = PairIn(A, B, t[1]) /\ call.to = PairIn(A, B, t[2]) /\ call.attrs = t[3]
  BY <1>1 DEF CallOf
<1>3. t[1] \in CellsIn(A, B) /\ t[2] \in (DOMAIN A) \X (DOMAIN B) /\ t[3] \in EdgeAttrs
  BY <1>1
<1>. QED
  BY <1>2, <1>3

LEMMA AddEdgeKeepsGraphInv ==
  ASSUME GraphInv, AddEdge
  PROVE  GraphInv'
<1>. DEFINE call == Head(todo)
            h == AddEdgeName(g_prod, call.from, call.to, call.attrs)
            a == FindNode(g_prod, call.from)
            b == FindNode(g_prod, call.to)
<1>1. /\ g_a \in Operands /\ g_b \in Operands /\ kind \in Kinds
      /\ pc = "edges" /\ res \in {"ok", "ROOT", "CONN"} /\ Shape(g_prod) /\ todo # <<>>
      /\ todo \in Seq(CallSet(g_a, g_b))
      /\ NodeNames(g_prod) = NamesOf(g_a, g_b, CellList(g_a, g_b))
      /\ IsGraph(g_prod) /\ NodesAndGates(g_prod)
  BY DEF GraphInv, AddEdge, NodesInv, Shape
<1>2. /\ g_prod' = h /\ todo' = Tail(todo) /\ pc' \in {"edges", "done"}
      /\ res' \in {"ok", "ROOT", "CONN"} /\ UNCHANGED <<g_a, g_b, kind>>
  BY <1>1 DEF AddEdge, operands
<1>3. call \in CallSet(g_a, g_b) /\ Tail(todo) \in Seq(CallSet(g_a, g_b))
  BY <1>1, FirstAndRest
<1>. HIDE DEF call
<1>4. PICK c \in CellsIn(g_a, g_b), d \in (DOMAIN g_a) \X (DOMAIN g_b) :
        call.from = PairIn(g_a, g_b, c) /\ call.to = PairIn(g_a, g_b, d) /\ call.attrs \in EdgeAttrs
  BY <1>3, CallParts
<1>5. Shape(h)
  BY <1>1, <1>4, AddEdgeNameShape
<1>6. /\ IsGraph(h) /\ DOMAIN h = DOMAIN g_prod /\ Keeps(g_prod, h)
      /\ \A v \in DOMAIN g_prod : \A k \in DOMAIN h[v].adj :
           \/ k \in DOMAIN g_prod[v].adj /\ h[v].adj[k] = g_prod[v].adj[k]
           \/ /\ a \in DOMAIN g_prod /\ b \in DOMAIN g_prod /\ a # b
              /\ \/ v = a /\ h[v].adj[k] = [n |-> b, attrs |-> call.attrs]
                 \/ v = b /\ h[v].adj[k] = [n |-> a, attrs |-> call.attrs]
  BY <1>1, <1>4, AddEdgeNameEffect
<1>7. NodeNames(h) = NodeNames(g_prod)
  BY <1>1, <1>6, NodeNamesSame DEF IsGraph
<1>8. NodesInv'
  BY <1>1, <1>2, <1>3, <1>7 DEF NodesInv
<1>9. /\ a \in DOMAIN g_prod => g_prod[a].name = PairIn(g_a, g_b, c)
      /\ b \in DOMAIN g_prod => g_prod[b].name = PairIn(g_a, g_b, d)
  BY <1>1, <1>4, FindNodeRange DEF IsGraph
<1>. HIDE DEF h, a, b
<1>10. ASSUME Tells(g_a, g_b)
       PROVE  /\ Named(g_a, g_b, h) /\ OwnGates(g_a, g_b, h)
              /\ \A x \in CellsIn(g_a, g_b) : Complete(g_a, g_b, h, x)
  <2>1. /\ Named(g_a, g_b, g_prod) /\ OwnGates(g_a, g_b, g_prod)
        /\ \A x \in CellsIn(g_a, g_b) : Complete(g_a, g_b, g_prod, x)
    BY <1>1, <1>10 DEF GraphInv, GatesInv
  <2>2. \A x \in CellsIn(g_a, g_b) : Complete(g_a, g_b, h, x)
    BY <1>1, <1>6, <2>1, CompleteKept
  <2>3. \A v \in DOMAIN g_prod : h[v].name = g_prod[v].name /\ h[v].type = g_prod[v].type
    BY <1>6 DEF Keeps, Grown
  <2>4. Named(g_a, g_b, h)
    BY <1>6, <2>1, <2>3 DEF Named
  <2>5. /\ a \in DOMAIN g_prod => g_prod[a].type = "NODE"
        /\ b \in DOMAIN g_prod => g_prod[b].type = "NODE"
    BY <1>1, <1>9, <1>10, <2>1, PairIsNode, CellsAreIds
  <2>6. OwnGates(g_a, g_b, h)
    <3>1. SUFFICES ASSUME NEW v \in DOMAIN h, NEW k \in DOMAIN h[v].adj,
                          h[v].type = "NODE", h[h[v].adj[k].n].type = "GATE"
                   PROVE  IsGateOf(g_a, g_b, h[v].name, h[h[v].adj[k].n].name)
      BY DEF OwnGates
    <3>2. CASE k \in DOMAIN g_prod[v].adj /\ h[v].adj[k] = g_prod[v].adj[k]
      <4>. DEFINE w == g_prod[v].adj[k].n
      <4>1. v \in DOMAIN g_prod /\ w \in DOMAIN g_prod
        BY <1>1, <1>6, <3>1, <3>2 DEF IsGraph
      <4>2. IsGateOf(g_a, g_b, g_prod[v].name, g_prod[w].name)
        BY <2>1, <2>3, <3>1, <3>2, <4>1 DEF OwnGates
      <4>. QED
        BY <2>3, <3>2, <4>1, <4>2
    <3>3. CASE /\ a \in DOMAIN g_prod /\ b \in DOMAIN g_prod
               /\ \/ v = a /\ h[v].adj[k] = [n |-> b, attrs |-> call.attrs]
                  \/ v = b /\ h[v].adj[k] = [n |-> a, attrs |-> call.attrs]
      <4>1. h[v].adj[k].n = a \/ h[v].adj[k].n = b
        BY <3>3
      <4>. QED
        BY <2>3, <2>5, <3>1, <3>3, <4>1
    <3>. QED
      BY <1>6, <3>1, <3>2, <3>3
  <2>. QED
    BY <2>2, <2>4, <2>6
<1>11. GatesInv'
  BY <1>2, <1>10 DEF GatesInv
<1>. QED
  BY <1>1, <1>2, <1>5, <1>8, <1>11 DEF GraphInv

LEMMA GraphInvStep ==
  ASSUME GraphInv, [Next]_vars
  PROVE  GraphInv'
<1>1. CASE EdgesDone
  <2>1. /\ UNCHANGED <<g_a, g_b, kind, g_prod, todo, res>> /\ pc = "edges" /\ pc' = "done"
    BY <1>1 DEF EdgesDone, operands
  <2>. QED
    BY <2>1 DEF GraphInv, NodesInv, GatesInv
<1>2. CASE UNCHANGED vars
  BY <1>2 DEF vars, GraphInv, NodesInv, GatesInv
<1>. QED
  BY <1>1, <1>2, AddCellKeepsGraphInv, CellsDoneKeepsGraphInv, NoRootKeepsGraphInv,
     AddEdgeKeepsGraphInv DEF Next

LEMMA GraphInvHolds == Spec => []GraphInv
<1>1. Init => GraphInv
  BY GraphInvInit
<1>2. GraphInv /\ [Next]_vars => GraphInv'
  BY GraphInvStep
<1>. QED
  BY <1>1, <1>2, PTL DEF Spec

----------------------------------------------------------------------------
(* Sequences over a set are sequences over a larger one. *)
LEMMA SeqWiden ==
  ASSUME NEW S, NEW T, S \subseteq T, NEW s \in Seq(S)
  PROVE  s \in Seq(T)
<1>1. Len(s) \in Nat /\ DOMAIN s = 1..Len(s) /\ s = [k \in 1..Len(s) |-> s[k]]
  BY SeqParts
<1>2. \A k \in 1..Len(s) : s[k] \in T
  BY <1>1
<1>. QED
  BY <1>1, <1>2, SequenceOf

(* The variables keep their types in every product of any operands. *)
THEOREM TypeCorrect == Spec => []TypeOK
<1>1. ASSUME GraphInv PROVE TypeOK
  <2>1. /\ g_a \in Operands /\ g_b \in Operands /\ pc \in {"nodes", "edges", "done"}
        /\ res \in {"ok", "ROOT", "CONN"} /\ IsGraph(g_prod)
    BY <1>1 DEF GraphInv, Shape
  <2>2. IsGraph(g_a) /\ IsGraph(g_b)
    BY <2>1, ProductsAssumption
  <2>3. CASE pc = "nodes"
    <3>1. todo \in Seq(CellsIn(g_a, g_b))
      BY <1>1, <2>3 DEF GraphInv, NodesInv
    <3>2. CellsIn(g_a, g_b) \subseteq Nat \X Nat
      <4>1. NodesOf(g_a) \subseteq Nat /\ NodesOf(g_b) \subseteq Nat
        BY <2>2 DEF NodesOf, IsGraph
      <4>. QED
        BY <4>1 DEF CellsIn
    <3>3. todo \in Seq(Nat \X Nat)
      BY <3>1, <3>2, SeqWiden
    <3>. QED
      BY <2>1, <2>3, <3>3 DEF TypeOK
  <2>4. CASE pc # "nodes"
    <3>1. todo \in Seq(CallSet(g_a, g_b))
      BY <1>1, <2>4 DEF GraphInv, NodesInv
    <3>2. ASSUME NEW call \in CallSet(g_a, g_b)
          PROVE  call \in [from : Names, to : Names, attrs : EdgeAttrs]
      <4>1. PICK t \in CellsIn(g_a, g_b) \X ((DOMAIN g_a) \X (DOMAIN g_b)) \X EdgeAttrs :
                   call = CallOf(g_a, g_b, t[1], t[2], t[3])
        BY DEF CallSet
      <4>2. t[1] \in CellsIn(g_a, g_b) /\ t[2] \in (DOMAIN g_a) \X (DOMAIN g_b) /\ t[3] \in EdgeAttrs
        BY <4>1
      <4>3. PairIn(g_a, g_b, t[1]) \in Names /\ PairIn(g_a, g_b, t[2]) \in Names
        BY <2>1, <4>2, PairsAreNames
      <4>. QED
        BY <4>1, <4>2, <4>3 DEF CallOf
    <3>3. todo \in Seq([from : Names, to : Names, attrs : EdgeAttrs])
      <4>. DEFINE T == [from : Names, to : Names, attrs : EdgeAttrs]
      <4>1. CallSet(g_a, g_b) \subseteq T
        BY <3>2
      <4>. HIDE DEF T
      <4>2. todo \in Seq(T)
        BY <3>1, <4>1, SeqWiden
      <4>. QED
        BY <4>2 DEF T
    <3>. QED
      BY <2>1, <2>4, <3>3 DEF TypeOK
  <2>. QED
    BY <2>3, <2>4
<1>. QED
  BY <1>1, GraphInvHolds, PTL

(* Whatever the operands are like, gates or none, simple or not: a product under
   construction never has a half, double or looping edge, which graph_insert,
   that copies it, does not look for. *)
THEOREM ProductStaysSimple == Spec => []ProductIsSimple
<1>1. GraphInv => ProductIsSimple
  BY DEF GraphInv, Shape, NodesAndGates, ProductIsSimple
<1>. QED
  BY <1>1, GraphInvHolds, PTL

(* Every node of a product that has an edge is the one its name finds, so that
   graph_insert, which goes by name, moves none of the edges. *)
THEOREM FoundAlways == Spec => []FoundByName
<1>1. GraphInv => FoundByName
  BY DEF GraphInv, Shape, FoundIn, FoundByName
<1>. QED
  BY <1>1, GraphInvHolds, PTL

LEMMA NamesTellIs ==
  ASSUME g_a \in Operands, g_b \in Operands
  PROVE  CellSet = CellsIn(g_a, g_b) /\ (NamesTell <=> Tells(g_a, g_b))
<1>1. g_a \in Seq(Node) /\ g_b \in Seq(Node)
  BY ProductsAssumption DEF IsGraph
<1>2. CellSet = CellsIn(g_a, g_b)
  BY <1>1, CellsAre DEF CellSet
<1>. QED
  BY <1>2 DEF NamesTell, Tells, PairName, PairIn, CellGates, GatesIn

(* The making of the nodes, which nobody checks for errors, makes them all: one
   NODE for each pair, in order, and next to it, when the names tell the pairs
   apart, copies of the gates of both components and of nothing else; no edge
   that is made afterwards, or refused, changes that. *)
THEOREM GatesStay == Spec => []PairsKeepTheirGates
<1>1. ASSUME GraphInv PROVE PairsKeepTheirGates
  <2>1. SUFFICES ASSUME pc # "nodes" PROVE PairsKeepTheirGates
    BY DEF PairsKeepTheirGates
  <2>2. /\ g_a \in Operands /\ g_b \in Operands /\ IsGraph(g_prod) /\ NodesAndGates(g_prod)
    BY <1>1 DEF GraphInv, Shape
  <2>3. g_a \in Seq(Node) /\ g_b \in Seq(Node)
    BY <2>2, ProductsAssumption DEF IsGraph
  <2>4. LET made == NodeIds(g_prod)
        IN  [k \in DOMAIN made |-> g_prod[made[k]].name] = [k \in DOMAIN Cells |-> PairName(Cells[k])]
    <3>1. NodeNames(g_prod) = NamesOf(g_a, g_b, Cells)
      BY <1>1, <2>1, <2>3, CellsAre DEF GraphInv, NodesInv
    <3>2. NamesOf(g_a, g_b, Cells) = [k \in DOMAIN Cells |-> PairName(Cells[k])]
      BY DEF NamesOf, PairName, PairIn
    <3>. QED
      BY <3>1, <3>2 DEF NodeNames
  <2>5. ASSUME NamesTell, NEW c \in CellSet
        PROVE  {g_prod[x].name : x \in {y \in Neighbours(g_prod, Made(c)) : g_prod[y].type = "GATE"}} =
                 {PairName(c) \o gate.name : gate \in Range(CellGates(c))}
    <3>. DEFINE nm == PairIn(g_a, g_b, c)
                a  == FindNode(g_prod, nm)
                gates == Range(GatesIn(g_a, g_b, c))
                near == {y \in Neighbours(g_prod, a) : g_prod[y].type = "GATE"}
    <3>1. Tells(g_a, g_b) /\ c \in CellsIn(g_a, g_b)
      BY <2>2, <2>5, NamesTellIs
    <3>2. /\ Named(g_a, g_b, g_prod) /\ OwnGates(g_a, g_b, g_prod)
          /\ Complete(g_a, g_b, g_prod, c)
      BY <1>1, <2>1, <3>1 DEF GraphInv, GatesInv
    <3>3. PairName(c) = nm /\ Range(CellGates(c)) = gates /\ Made(c) = a
      BY DEF PairName, PairIn, CellGates, GatesIn, Made
    <3>. HIDE DEF nm, gates
    <3>4. a \in DOMAIN g_prod /\ g_prod[a].name = nm
      BY <2>2, <3>2, FindNodeRange DEF Complete, IsGraph, nm
    <3>. HIDE DEF a
    <3>5. g_prod[a].type = "NODE"
      BY <2>2, <3>1, <3>2, <3>4, PairIsNode, CellsAreIds DEF nm
    <3>6. ASSUME NEW x \in near PROVE \E gate \in gates : g_prod[x].name = nm \o gate.name
      <4>1. PICK k \in DOMAIN g_prod[a].adj : x = g_prod[a].adj[k].n
        BY DEF Neighbours
      <4>2. IsGateOf(g_a, g_b, nm, g_prod[x].name)
        BY <3>2, <3>4, <3>5, <3>6, <4>1 DEF OwnGates
      <4>3. PICK d \in CellsIn(g_a, g_b) :
              nm = PairIn(g_a, g_b, d) /\ \E gate \in Range(GatesIn(g_a, g_b, d)) : g_prod[x].name = nm \o gate.name
        BY <4>2 DEF IsGateOf
      <4>4. d = c
        BY <3>1, <4>3 DEF Tells, nm
      <4>. QED
        BY <4>3, <4>4 DEF gates
    <3>7. ASSUME NEW gate \in gates PROVE \E x \in near : g_prod[x].name = nm \o gate.name
      <4>1. HasGate(g_prod, nm, nm \o gate.name)
        BY <3>2, <3>7 DEF Complete, gates, nm
      <4>2. PICK w \in Neighbours(g_prod, a) : g_prod[w].name = nm \o gate.name
        BY <4>1 DEF HasGate, a
      <4>3. IsGateOf(g_a, g_b, nm, g_prod[w].name)
        BY <3>1, <3>7, <4>2 DEF IsGateOf, gates, nm
      <4>4. w \in DOMAIN g_prod
        BY <2>2, <3>4 DEF IsGraph, Neighbours
      <4>5. g_prod[w].type = "GATE"
        BY <2>2, <3>1, <3>2, <4>3, <4>4, GateIsGate
      <4>. QED
        BY <4>2, <4>5
    <3>8. {g_prod[x].name : x \in near} = {nm \o gate.name : gate \in gates}
      <4>. HIDE DEF near
      <4>1. {g_prod[x].name : x \in near} \subseteq {nm \o gate.name : gate \in gates}
        BY <3>6, Zenon
      <4>2. {nm \o gate.name : gate \in gates} \subseteq {g_prod[x].name : x \in near}
        BY <3>7, Zenon
      <4>. QED
        BY <4>1, <4>2
    <3>. QED
      BY <3>3, <3>8
  <2>. QED
    BY <2>4, <2>5 DEF PairsKeepTheirGates
<1>. QED
  BY <1>1, GraphInvHolds, PTL

----------------------------------------------------------------------------
(* The edges, when the operands and the names are such that all is well. *)

SoundIn(A, B, kd, r) ==
  /\ Tells(A, B)
  /\ Simple(A) /\ Simple(B)
  /\ kd \in {"cart", "root"} \/ AllNodes(B)
  /\ kd = "root" => r \in NodesOf(B)

RelatedIn(A, B, kd, r, c, d) ==
  LET a     == AreAdjacent(A, c[1], d[1])
      b     == AreAdjacent(B, c[2], d[2])
      sides == (a /\ c[2] = d[2]) \/ (c[1] = d[1] /\ b)
  IN  CASE kd = "cart"   -> sides
        [] kd = "tens"   -> a /\ b
        [] kd = "lex"    -> a \/ (c[1] = d[1] /\ b)
        [] kd = "strong" -> sides \/ (a /\ b)
        [] kd = "root"   -> (a /\ c[2] = r /\ d[2] = r) \/ (c[1] = d[1] /\ b)

AttrsIn(A, B, c, d) ==
  IF c[2] = d[2] THEN AttrOf(A, c[1], d[1])
  ELSE IF c[1] = d[1] THEN AttrOf(B, c[2], d[2])
  ELSE JoinedAttrs(AttrOf(A, c[1], d[1]), AttrOf(B, c[2], d[2]))

(* An edge between two names that the product should have, as it should have it. *)
IsEdge(A, B, kd, r, from, to, at) ==
  \E c, d \in CellsIn(A, B) :
    /\ from = PairIn(A, B, c) /\ to = PairIn(A, B, d)
    /\ RelatedIn(A, B, kd, r, c, d)
    /\ kd \in {"cart", "tens", "root"} => at = AttrsIn(A, B, c, d)

OnlyEdges(A, B, kd, r, g) ==
  \A v \in DOMAIN g : \A k \in DOMAIN g[v].adj :
    g[v].type = "NODE" /\ g[g[v].adj[k].n].type = "NODE" =>
      IsEdge(A, B, kd, r, g[v].name, g[g[v].adj[k].n].name, g[v].adj[k].attrs)

Joins(y, from, to) == (y.from = from /\ y.to = to) \/ (y.from = to /\ y.to = from)

(* Every edge that should be there is there, or is still to be asked for. *)
EdgesOrCalls(A, B, kd, r, g, calls) ==
  \A c, d \in CellsIn(A, B) : RelatedIn(A, B, kd, r, c, d) =>
    \/ AreAdjacent(g, FindNode(g, PairIn(A, B, c)), FindNode(g, PairIn(A, B, d)))
    \/ \E y \in calls : Joins(y, PairIn(A, B, c), PairIn(A, B, d))

EdgesInv ==
  SoundIn(g_a, g_b, kind, FindNode(g_b, root)) =>
    /\ res = "ok"
    /\ pc = "done" => todo = <<>>
    /\ pc # "nodes" =>
         /\ \A y \in Range(todo) :
              IsEdge(g_a, g_b, kind, FindNode(g_b, root), y.from, y.to, y.attrs)
         /\ OnlyEdges(g_a, g_b, kind, FindNode(g_b, root), g_prod)
         /\ EdgesOrCalls(g_a, g_b, kind, FindNode(g_b, root), g_prod, Range(todo))

LEMMA AttrOfEntry ==
  ASSUME NEW h, IsGraph(h), NoParallel(h), NEW v \in DOMAIN h, NEW k \in DOMAIN h[v].adj
  PROVE  AttrOf(h, v, h[v].adj[k].n) = h[v].adj[k].attrs
<1>. DEFINE hits == {l \in DOMAIN h[v].adj : h[v].adj[l].n = h[v].adj[k].n}
<1>1. hits = {k}
  BY DEF NoParallel
<1>2. k \in Nat
  <2>1. h[v].adj \in Seq(Edge)
    BY NodeFields
  <2>. QED
    BY <2>1, SeqParts
<1>3. Min(hits) = k
  <2>1. {k} \in SUBSET Nat /\ {k} # {}
    BY <1>2
  <2>2. Min({k}) \in {k}
    BY <2>1, MinIsLeast
  <2>. QED
    BY <1>1, <2>2
<1>. QED
  BY <1>3 DEF AttrOf

LEMMA AdjacentBothWays ==
  ASSUME NEW h, IsGraph(h), Simple(h), NEW v \in DOMAIN h, NEW w, AreAdjacent(h, v, w)
  PROVE  /\ w \in DOMAIN h /\ w # v
         /\ AreAdjacent(h, w, v)
         /\ AttrOf(h, w, v) = AttrOf(h, v, w)
<1>1. PICK k \in DOMAIN h[v].adj : h[v].adj[k].n = w
  BY DEF AreAdjacent
<1>2. w \in DOMAIN h /\ w # v
  BY <1>1 DEF IsGraph, Simple, Loopless
<1>3. PICK l \in DOMAIN h[w].adj : h[w].adj[l] = [n |-> v, attrs |-> h[v].adj[k].attrs]
  BY <1>1 DEF Simple, Symmetric
<1>4. h[w].adj[l].n = v /\ h[w].adj[l].attrs = h[v].adj[k].attrs
  BY <1>3
<1>5. AttrOf(h, v, w) = h[v].adj[k].attrs
  BY <1>1, AttrOfEntry DEF Simple
<1>6. AttrOf(h, w, v) = h[w].adj[l].attrs
  BY <1>2, <1>4, AttrOfEntry DEF Simple
<1>. QED
  BY <1>2, <1>4, <1>5, <1>6 DEF AreAdjacent

(* Products of undirected graphs are undirected, attributes and all. *)
LEMMA RelatedBothWays ==
  ASSUME NEW A, NEW B, IsGraph(A), IsGraph(B), Simple(A), Simple(B),
         NEW kd \in {"cart", "tens", "lex", "strong", "root"}, NEW r,
         NEW c \in CellsIn(A, B), NEW d \in CellsIn(A, B), RelatedIn(A, B, kd, r, c, d)
  PROVE  /\ RelatedIn(A, B, kd, r, d, c) /\ c # d
         /\ kd \in {"cart", "tens", "root"} => AttrsIn(A, B, d, c) = AttrsIn(A, B, c, d)
<1>1. /\ c[1] \in DOMAIN A /\ d[1] \in DOMAIN A
      /\ c[2] \in DOMAIN B /\ d[2] \in DOMAIN B
  BY DEF CellsIn, NodesOf
<1>2. /\ AreAdjacent(A, c[1], d[1]) =>
           /\ AreAdjacent(A, d[1], c[1]) /\ c[1] # d[1]
           /\ AttrOf(A, d[1], c[1]) = AttrOf(A, c[1], d[1])
      /\ AreAdjacent(B, c[2], d[2]) =>
           /\ AreAdjacent(B, d[2], c[2]) /\ c[2] # d[2]
           /\ AttrOf(B, d[2], c[2]) = AttrOf(B, c[2], d[2])
  BY <1>1, AdjacentBothWays
<1>3. AreAdjacent(A, c[1], d[1]) \/ (c[1] = d[1] /\ AreAdjacent(B, c[2], d[2]))
  BY DEF RelatedIn
<1>4. RelatedIn(A, B, kd, r, d, c) /\ c # d
  BY <1>2, <1>3 DEF RelatedIn
<1>5. kd \in {"cart", "tens", "root"} =>
        \/ AreAdjacent(A, c[1], d[1]) /\ c[2] = d[2]
        \/ c[1] = d[1] /\ AreAdjacent(B, c[2], d[2])
        \/ AreAdjacent(A, c[1], d[1]) /\ AreAdjacent(B, c[2], d[2])
  <2>1. CASE kd = "cart"
    BY <2>1 DEF RelatedIn
  <2>2. CASE kd = "tens"
    BY <2>2 DEF RelatedIn
  <2>3. CASE kd = "root"
    BY <2>3 DEF RelatedIn
  <2>. QED
    BY <2>1, <2>2, <2>3
<1>6. kd \in {"cart", "tens", "root"} => AttrsIn(A, B, d, c) = AttrsIn(A, B, c, d)
  BY <1>2, <1>5 DEF AttrsIn
<1>. QED
  BY <1>4, <1>6

LEMMA IsEdgeBothWays ==
  ASSUME NEW A, NEW B, IsGraph(A), IsGraph(B), NEW kd \in {"cart", "tens", "lex", "strong", "root"},
         NEW r, SoundIn(A, B, kd, r), NEW from, NEW to, NEW at, IsEdge(A, B, kd, r, from, to, at)
  PROVE  IsEdge(A, B, kd, r, to, from, at) /\ from # to
<1>1. PICK c \in CellsIn(A, B), d \in CellsIn(A, B) :
        /\ from = PairIn(A, B, c) /\ to = PairIn(A, B, d)
        /\ RelatedIn(A, B, kd, r, c, d)
        /\ kd \in {"cart", "tens", "root"} => at = AttrsIn(A, B, c, d)
  BY DEF IsEdge
<1>2. /\ RelatedIn(A, B, kd, r, d, c) /\ c # d
      /\ kd \in {"cart", "tens", "root"} => AttrsIn(A, B, d, c) = AttrsIn(A, B, c, d)
  BY <1>1, RelatedBothWays DEF SoundIn
<1>3. from # to
  BY <1>1, <1>2 DEF SoundIn, Tells
<1>. QED
  BY <1>1, <1>2, <1>3 DEF IsEdge

(* The loops ask for nothing but such edges. *)
LEMMA MoveOfAIsEdge ==
  ASSUME NEW A, NEW B, IsGraph(A), IsGraph(B), Simple(A), Simple(B),
         NEW kd, NEW r, NEW c \in CellsIn(A, B), kd \in {"cart", "strong"} \/ (kd = "root" /\ c[2] = r),
         NEW higher, NEW e \in MoveSet(A, c[1], higher)
  PROVE  IsEdge(A, B, kd, r, PairIn(A, B, c), PairIn(A, B, <<e.n, c[2]>>), e.attrs)
<1>1. PICK k \in DOMAIN A[c[1]].adj : e = A[c[1]].adj[k]
  BY DEF MoveSet, EntrySet, Range
<1>2. c[1] \in DOMAIN A /\ c[2] \in NodesOf(B)
  BY DEF CellsIn, NodesOf
<1>3. e.n \in DOMAIN A /\ A[e.n].type = "NODE"
  BY <1>1, <1>2 DEF IsGraph, MoveSet, EntrySet
<1>. DEFINE d == <<e.n, c[2]>>
<1>4. d \in CellsIn(A, B) /\ d[1] = e.n /\ d[2] = c[2]
  BY <1>2, <1>3 DEF CellsIn, NodesOf
<1>5. AreAdjacent(A, c[1], e.n) /\ AttrOf(A, c[1], e.n) = e.attrs
  BY <1>1, <1>2, AttrOfEntry DEF AreAdjacent, Simple
<1>. HIDE DEF d
<1>6. RelatedIn(A, B, kd, r, c, d) /\ AttrsIn(A, B, c, d) = e.attrs
  BY <1>4, <1>5 DEF RelatedIn, AttrsIn
<1>7. IsEdge(A, B, kd, r, PairIn(A, B, c), PairIn(A, B, d), e.attrs)
  BY <1>4, <1>6 DEF IsEdge
<1>. QED
  BY <1>7 DEF d

LEMMA MoveOfBIsEdge ==
  ASSUME NEW A, NEW B, IsGraph(A), IsGraph(B), Simple(A), Simple(B),
         NEW kd \in {"cart", "lex", "strong", "root"}, NEW r, NEW c \in CellsIn(A, B),
         NEW higher, NEW e \in MoveSet(B, c[2], higher)
  PROVE  IsEdge(A, B, kd, r, PairIn(A, B, c), PairIn(A, B, <<c[1], e.n>>), e.attrs)
<1>1. PICK k \in DOMAIN B[c[2]].adj : e = B[c[2]].adj[k]
  BY DEF MoveSet, EntrySet, Range
<1>2. c[1] \in NodesOf(A) /\ c[2] \in DOMAIN B
  BY DEF CellsIn, NodesOf
<1>3. e.n \in DOMAIN B /\ B[e.n].type = "NODE" /\ e.n # c[2]
  BY <1>1, <1>2 DEF IsGraph, MoveSet, EntrySet, Simple, Loopless
<1>. DEFINE d == <<c[1], e.n>>
<1>4. d \in CellsIn(A, B) /\ d[1] = c[1] /\ d[2] = e.n
  BY <1>2, <1>3 DEF CellsIn, NodesOf
<1>5. AreAdjacent(B, c[2], e.n) /\ AttrOf(B, c[2], e.n) = e.attrs
  BY <1>1, <1>2, AttrOfEntry DEF AreAdjacent, Simple
<1>. HIDE DEF d
<1>6. RelatedIn(A, B, kd, r, c, d) /\ AttrsIn(A, B, c, d) = e.attrs
  BY <1>3, <1>4, <1>5 DEF RelatedIn, AttrsIn
<1>7. IsEdge(A, B, kd, r, PairIn(A, B, c), PairIn(A, B, d), e.attrs)
  BY <1>4, <1>6 DEF IsEdge
<1>. QED
  BY <1>7 DEF d

LEMMA DiagonalIsEdge ==
  ASSUME NEW A, NEW B, IsGraph(A), IsGraph(B), Simple(A), Simple(B), AllNodes(B),
         NEW kd \in {"tens", "strong"}, NEW r, NEW c \in CellsIn(A, B),
         NEW k \in CrossedIn(A, B, c), NEW l \in DOMAIN B[c[2]].adj
  PROVE  IsEdge(A, B, kd, r, PairIn(A, B, c), PairIn(A, B, <<A[c[1]].adj[k].n, B[c[2]].adj[l].n>>),
                DiagonalAttrs(A, B, kd, c, k, l))
<1>. DEFINE i == A[c[1]].adj[k].n
            j == B[c[2]].adj[l].n
            d == <<i, j>>
<1>1. /\ c[1] \in DOMAIN A /\ c[2] \in DOMAIN B
      /\ k \in DOMAIN A[c[1]].adj /\ A[i].type = "NODE"
  BY DEF CellsIn, NodesOf, CrossedIn
<1>2. i \in DOMAIN A /\ i # c[1] /\ j \in DOMAIN B /\ j # c[2] /\ B[j].type = "NODE"
  BY <1>1 DEF IsGraph, Simple, Loopless, AllNodes
<1>3. /\ AreAdjacent(A, c[1], i) /\ AttrOf(A, c[1], i) = A[c[1]].adj[k].attrs
      /\ AreAdjacent(B, c[2], j) /\ AttrOf(B, c[2], j) = B[c[2]].adj[l].attrs
  BY <1>1, AttrOfEntry DEF AreAdjacent, Simple
<1>. HIDE DEF i, j
<1>4. d \in CellsIn(A, B) /\ d[1] = i /\ d[2] = j
  BY <1>1, <1>2 DEF CellsIn, NodesOf
<1>. HIDE DEF d
<1>5. RelatedIn(A, B, kd, r, c, d)
  BY <1>3, <1>4 DEF RelatedIn
<1>6. kd = "tens" => DiagonalAttrs(A, B, kd, c, k, l) = AttrsIn(A, B, c, d)
  BY <1>2, <1>3, <1>4 DEF AttrsIn, DiagonalAttrs
<1>7. IsEdge(A, B, kd, r, PairIn(A, B, c), PairIn(A, B, d), DiagonalAttrs(A, B, kd, c, k, l))
  BY <1>4, <1>5, <1>6 DEF IsEdge
<1>. QED
  BY <1>7 DEF d, i, j

LEMMA JumpIsEdge ==
  ASSUME NEW A, NEW B, IsGraph(A), IsGraph(B), AllNodes(B), NEW r, NEW c \in CellsIn(A, B),
         NEW k \in CrossedIn(A, B, c), NEW l \in DOMAIN B, NEW at
  PROVE  IsEdge(A, B, "lex", r, PairIn(A, B, c), PairIn(A, B, <<A[c[1]].adj[k].n, l>>), at)
<1>. DEFINE i == A[c[1]].adj[k].n
            d == <<i, l>>
<1>1. /\ c[1] \in DOMAIN A /\ k \in DOMAIN A[c[1]].adj /\ A[i].type = "NODE" /\ B[l].type = "NODE"
  BY DEF CellsIn, NodesOf, CrossedIn, AllNodes
<1>2. i \in DOMAIN A /\ AreAdjacent(A, c[1], i)
  BY <1>1 DEF IsGraph, AreAdjacent
<1>. HIDE DEF i
<1>3. d \in CellsIn(A, B) /\ d[1] = i /\ d[2] = l
  BY <1>1, <1>2 DEF CellsIn, NodesOf
<1>. HIDE DEF d
<1>4. RelatedIn(A, B, "lex", r, c, d)
  BY <1>2, <1>3 DEF RelatedIn
<1>5. IsEdge(A, B, "lex", r, PairIn(A, B, c), PairIn(A, B, d), at)
  BY <1>3, <1>4 DEF IsEdge
<1>. QED
  BY <1>5 DEF d, i

LEMMA CallsAreEdges ==
  ASSUME g_a \in Operands, g_b \in Operands, kind \in Kinds, ~RootMissing,
         SoundIn(g_a, g_b, kind, RootId), NEW y \in Range(Calls)
  PROVE  IsEdge(g_a, g_b, kind, RootId, y.from, y.to, y.attrs)
<1>1. IsGraph(g_a) /\ IsGraph(g_b)
  BY ProductsAssumption
<1>2. Simple(g_a) /\ Simple(g_b) /\ (kind \in {"cart", "root"} \/ AllNodes(g_b))
  BY DEF SoundIn
<1>3. PICK c \in CellsIn(g_a, g_b) : AskedAt(c, y)
  BY CallsMembers
<1>4. ASSUME NEW higher, y \in Range(MovesOfA(c, higher)),
             kind \in {"cart", "strong"} \/ (kind = "root" /\ c[2] = RootId)
      PROVE  IsEdge(g_a, g_b, kind, RootId, y.from, y.to, y.attrs)
  <2>1. PICK e \in MoveSet(g_a, c[1], higher) : y = CallOf(g_a, g_b, c, <<e.n, c[2]>>, e.attrs)
    BY <1>1, <1>4, MovesOfAMembers
  <2>2. y.from = PairIn(g_a, g_b, c) /\ y.to = PairIn(g_a, g_b, <<e.n, c[2]>>) /\ y.attrs = e.attrs
    BY <2>1 DEF CallOf
  <2>. QED
    BY <1>1, <1>2, <1>4, <2>2, MoveOfAIsEdge
<1>5. ASSUME NEW higher, y \in Range(MovesOfB(c, higher)), kind \in {"cart", "lex", "strong", "root"}
      PROVE  IsEdge(g_a, g_b, kind, RootId, y.from, y.to, y.attrs)
  <2>1. PICK e \in MoveSet(g_b, c[2], higher) : y = CallOf(g_a, g_b, c, <<c[1], e.n>>, e.attrs)
    BY <1>1, <1>5, MovesOfBMembers
  <2>2. y.from = PairIn(g_a, g_b, c) /\ y.to = PairIn(g_a, g_b, <<c[1], e.n>>) /\ y.attrs = e.attrs
    BY <2>1 DEF CallOf
  <2>. QED
    BY <1>1, <1>2, <1>5, <2>2, MoveOfBIsEdge
<1>6. ASSUME y \in Range(Diagonals(c)), kind \in {"tens", "strong"}
      PROVE  IsEdge(g_a, g_b, kind, RootId, y.from, y.to, y.attrs)
  <2>1. PICK k \in CrossedIn(g_a, g_b, c), l \in DOMAIN g_b[c[2]].adj :
                y = CallOf(g_a, g_b, c, <<g_a[c[1]].adj[k].n, g_b[c[2]].adj[l].n>>,
                           DiagonalAttrs(g_a, g_b, kind, c, k, l))
    BY <1>6, DiagonalsMembers
  <2>2. /\ y.from = PairIn(g_a, g_b, c)
        /\ y.to = PairIn(g_a, g_b, <<g_a[c[1]].adj[k].n, g_b[c[2]].adj[l].n>>)
        /\ y.attrs = DiagonalAttrs(g_a, g_b, kind, c, k, l)
    BY <2>1 DEF CallOf
  <2>. QED
    BY <1>1, <1>2, <1>6, <2>2, DiagonalIsEdge
<1>7. ASSUME y \in Range(Jumps(c)), kind = "lex"
      PROVE  IsEdge(g_a, g_b, kind, RootId, y.from, y.to, y.attrs)
  <2>1. PICK k \in CrossedIn(g_a, g_b, c), l \in DOMAIN g_b :
                y = CallOf(g_a, g_b, c, <<g_a[c[1]].adj[k].n, l>>, EntryAt(g_b, c[2], k).attrs)
    BY <1>1, <1>7, JumpsMembers
  <2>2. y.from = PairIn(g_a, g_b, c) /\ y.to = PairIn(g_a, g_b, <<g_a[c[1]].adj[k].n, l>>)
    BY <2>1 DEF CallOf
  <2>. QED
    BY <1>1, <1>2, <1>7, <2>2, JumpIsEdge
<1>. QED
  BY <1>3, <1>4, <1>5, <1>6, <1>7 DEF AskedAt

(* And for every one of them, from one end or the other. *)
LEMMA MovesFindA ==
  ASSUME IsGraph(g_a), IsGraph(g_b), Simple(g_a),
         NEW c \in CellsIn(g_a, g_b), NEW d \in CellsIn(g_a, g_b),
         AreAdjacent(g_a, c[1], d[1]), c[2] = d[2], NEW higher, higher => d[1] >= c[1]
  PROVE  \E y \in Range(MovesOfA(c, higher)) :
           y.from = PairIn(g_a, g_b, c) /\ y.to = PairIn(g_a, g_b, d)
<1>1. PICK k \in DOMAIN g_a[c[1]].adj : g_a[c[1]].adj[k].n = d[1]
  BY DEF AreAdjacent
<1>. DEFINE e == g_a[c[1]].adj[k]
<1>2. e \in Range(g_a[c[1]].adj) /\ e.n = d[1]
  BY <1>1 DEF Range
<1>. HIDE DEF e
<1>3. e \in MoveSet(g_a, c[1], higher)
  BY <1>2 DEF MoveSet, EntrySet, CellsIn, NodesOf
<1>4. CallOf(g_a, g_b, c, <<e.n, c[2]>>, e.attrs) \in Range(MovesOfA(c, higher))
  BY <1>3, MovesOfAMembers
<1>5. <<e.n, c[2]>> = d
  BY <1>2 DEF CellsIn
<1>6. CallOf(g_a, g_b, c, d, e.attrs) \in Range(MovesOfA(c, higher))
  BY <1>4, <1>5
<1>7. /\ CallOf(g_a, g_b, c, d, e.attrs).from = PairIn(g_a, g_b, c)
      /\ CallOf(g_a, g_b, c, d, e.attrs).to = PairIn(g_a, g_b, d)
  BY DEF CallOf
<1>. QED
  BY <1>6, <1>7

LEMMA MovesFindB ==
  ASSUME IsGraph(g_a), IsGraph(g_b), Simple(g_b),
         NEW c \in CellsIn(g_a, g_b), NEW d \in CellsIn(g_a, g_b),
         AreAdjacent(g_b, c[2], d[2]), c[1] = d[1], NEW higher, higher => d[2] >= c[2]
  PROVE  \E y \in Range(MovesOfB(c, higher)) :
           y.from = PairIn(g_a, g_b, c) /\ y.to = PairIn(g_a, g_b, d)
<1>1. PICK k \in DOMAIN g_b[c[2]].adj : g_b[c[2]].adj[k].n = d[2]
  BY DEF AreAdjacent
<1>. DEFINE e == g_b[c[2]].adj[k]
<1>2. e \in Range(g_b[c[2]].adj) /\ e.n = d[2]
  BY <1>1 DEF Range
<1>. HIDE DEF e
<1>3. e \in MoveSet(g_b, c[2], higher)
  BY <1>2 DEF MoveSet, EntrySet, CellsIn, NodesOf
<1>4. CallOf(g_a, g_b, c, <<c[1], e.n>>, e.attrs) \in Range(MovesOfB(c, higher))
  BY <1>3, MovesOfBMembers
<1>5. <<c[1], e.n>> = d
  BY <1>2 DEF CellsIn
<1>6. CallOf(g_a, g_b, c, d, e.attrs) \in Range(MovesOfB(c, higher))
  BY <1>4, <1>5
<1>7. /\ CallOf(g_a, g_b, c, d, e.attrs).from = PairIn(g_a, g_b, c)
      /\ CallOf(g_a, g_b, c, d, e.attrs).to = PairIn(g_a, g_b, d)
  BY DEF CallOf
<1>. QED
  BY <1>6, <1>7

(* The test of the wrong neighbour says nothing where there are only NODEs. *)
LEMMA CrossedFinds ==
  ASSUME IsGraph(g_a), IsGraph(g_b), AllNodes(g_b),
         NEW c \in CellsIn(g_a, g_b), NEW d \in CellsIn(g_a, g_b), AreAdjacent(g_a, c[1], d[1])
  PROVE  \E k \in CrossedIn(g_a, g_b, c) : g_a[c[1]].adj[k].n = d[1]
<1>1. PICK k \in DOMAIN g_a[c[1]].adj : g_a[c[1]].adj[k].n = d[1]
  BY DEF AreAdjacent
<1>2. g_a[d[1]].type = "NODE" /\ c[2] \in DOMAIN g_b
  BY DEF CellsIn, NodesOf
<1>3. g_b[EntryAt(g_b, c[2], k).n].type = "NODE"
  BY <1>2, EntryAtIs DEF AllNodes
<1>. QED
  BY <1>1, <1>2, <1>3 DEF CrossedIn

LEMMA DiagonalsFind ==
  ASSUME g_a \in Operands, g_b \in Operands, AllNodes(g_b),
         NEW c \in CellsIn(g_a, g_b), NEW d \in CellsIn(g_a, g_b),
         AreAdjacent(g_a, c[1], d[1]), AreAdjacent(g_b, c[2], d[2])
  PROVE  \E y \in Range(Diagonals(c)) :
           y.from = PairIn(g_a, g_b, c) /\ y.to = PairIn(g_a, g_b, d)
<1>1. PICK k \in CrossedIn(g_a, g_b, c) : g_a[c[1]].adj[k].n = d[1]
  BY CrossedFinds, ProductsAssumption
<1>2. PICK l \in DOMAIN g_b[c[2]].adj : g_b[c[2]].adj[l].n = d[2]
  BY DEF AreAdjacent
<1>3. PICK at : at = DiagonalAttrs(g_a, g_b, kind, c, k, l)
  OBVIOUS
<1>4. <<g_a[c[1]].adj[k].n, g_b[c[2]].adj[l].n>> = d
  BY <1>1, <1>2 DEF CellsIn
<1>5. CallOf(g_a, g_b, c, d, at) \in Range(Diagonals(c))
  BY <1>3, <1>4, DiagonalsMembers
<1>6. /\ CallOf(g_a, g_b, c, d, at).from = PairIn(g_a, g_b, c)
      /\ CallOf(g_a, g_b, c, d, at).to = PairIn(g_a, g_b, d)
  BY DEF CallOf
<1>. QED
  BY <1>5, <1>6

LEMMA JumpsFind ==
  ASSUME IsGraph(g_a), IsGraph(g_b), AllNodes(g_b),
         NEW c \in CellsIn(g_a, g_b), NEW d \in CellsIn(g_a, g_b), AreAdjacent(g_a, c[1], d[1])
  PROVE  \E y \in Range(Jumps(c)) :
           y.from = PairIn(g_a, g_b, c) /\ y.to = PairIn(g_a, g_b, d)
<1>1. PICK k \in CrossedIn(g_a, g_b, c) : g_a[c[1]].adj[k].n = d[1]
  BY CrossedFinds
<1>2. PICK at : at = EntryAt(g_b, c[2], k).attrs
  OBVIOUS
<1>3. d[2] \in DOMAIN g_b /\ <<g_a[c[1]].adj[k].n, d[2]>> = d
  BY <1>1 DEF CellsIn, NodesOf
<1>4. CallOf(g_a, g_b, c, d, at) \in Range(Jumps(c))
  BY <1>2, <1>3, JumpsMembers
<1>5. /\ CallOf(g_a, g_b, c, d, at).from = PairIn(g_a, g_b, c)
      /\ CallOf(g_a, g_b, c, d, at).to = PairIn(g_a, g_b, d)
  BY DEF CallOf
<1>. QED
  BY <1>4, <1>5

LEMMA EdgesAreCalled ==
  ASSUME g_a \in Operands, g_b \in Operands, kind \in Kinds, ~RootMissing,
         SoundIn(g_a, g_b, kind, RootId),
         NEW c \in CellsIn(g_a, g_b), NEW d \in CellsIn(g_a, g_b),
         RelatedIn(g_a, g_b, kind, RootId, c, d)
  PROVE  \E y \in Range(Calls) : Joins(y, PairIn(g_a, g_b, c), PairIn(g_a, g_b, d))
<1>1. IsGraph(g_a) /\ IsGraph(g_b) /\ kind \in {"cart", "tens", "lex", "strong", "root"}
  BY ProductsAssumption
<1>2. Simple(g_a) /\ Simple(g_b) /\ (kind \in {"cart", "root"} \/ AllNodes(g_b))
  BY DEF SoundIn
<1>3. \A y : y \in Range(Calls) <=> \E x \in CellsIn(g_a, g_b) : AskedAt(x, y)
  BY CallsMembers
<1>4. /\ c[1] \in DOMAIN g_a /\ d[1] \in DOMAIN g_a /\ c[2] \in DOMAIN g_b /\ d[2] \in DOMAIN g_b
      /\ c[1] \in Nat /\ d[1] \in Nat /\ c[2] \in Nat /\ d[2] \in Nat
  BY <1>1 DEF CellsIn, NodesOf, IsGraph
<1>5. /\ AreAdjacent(g_a, c[1], d[1]) => AreAdjacent(g_a, d[1], c[1])
      /\ AreAdjacent(g_b, c[2], d[2]) => AreAdjacent(g_b, d[2], c[2])
  BY <1>1, <1>2, <1>4, AdjacentBothWays
<1>6. /\ c[1] >= d[1] \/ d[1] >= c[1]
      /\ c[2] >= d[2] \/ d[2] >= c[2]
  BY <1>4
<1>7. CASE kind \in {"cart", "strong"} /\ AreAdjacent(g_a, c[1], d[1]) /\ c[2] = d[2]
  <2>1. CASE d[1] >= c[1]
    <3>1. PICK y \in Range(MovesOfA(c, TRUE)) :
                 y.from = PairIn(g_a, g_b, c) /\ y.to = PairIn(g_a, g_b, d)
      BY <1>1, <1>2, <1>7, <2>1, MovesFindA
    <3>. QED
      BY <1>3, <1>7, <3>1 DEF AskedAt, Joins
  <2>2. CASE c[1] >= d[1]
    <3>1. PICK y \in Range(MovesOfA(d, TRUE)) :
                 y.from = PairIn(g_a, g_b, d) /\ y.to = PairIn(g_a, g_b, c)
      BY <1>1, <1>2, <1>5, <1>7, <2>2, MovesFindA
    <3>. QED
      BY <1>3, <1>7, <3>1 DEF AskedAt, Joins
  <2>. QED
    BY <1>6, <2>1, <2>2
<1>8. CASE kind \in {"cart", "strong"} /\ AreAdjacent(g_b, c[2], d[2]) /\ c[1] = d[1]
  <2>1. CASE d[2] >= c[2]
    <3>1. PICK y \in Range(MovesOfB(c, TRUE)) :
                 y.from = PairIn(g_a, g_b, c) /\ y.to = PairIn(g_a, g_b, d)
      BY <1>1, <1>2, <1>8, <2>1, MovesFindB
    <3>. QED
      BY <1>3, <1>8, <3>1 DEF AskedAt, Joins
  <2>2. CASE c[2] >= d[2]
    <3>1. PICK y \in Range(MovesOfB(d, TRUE)) :
                 y.from = PairIn(g_a, g_b, d) /\ y.to = PairIn(g_a, g_b, c)
      BY <1>1, <1>2, <1>5, <1>8, <2>2, MovesFindB
    <3>. QED
      BY <1>3, <1>8, <3>1 DEF AskedAt, Joins
  <2>. QED
    BY <1>6, <2>1, <2>2
<1>9. CASE /\ kind \in {"tens", "strong"}
           /\ AreAdjacent(g_a, c[1], d[1]) /\ AreAdjacent(g_b, c[2], d[2])
  <2>1. PICK y \in Range(Diagonals(c)) :
               y.from = PairIn(g_a, g_b, c) /\ y.to = PairIn(g_a, g_b, d)
    BY <1>2, <1>9, DiagonalsFind
  <2>. QED
    BY <1>3, <1>9, <2>1 DEF AskedAt, Joins
<1>10. CASE kind = "lex" /\ AreAdjacent(g_a, c[1], d[1])
  <2>1. PICK y \in Range(Jumps(c)) :
               y.from = PairIn(g_a, g_b, c) /\ y.to = PairIn(g_a, g_b, d)
    BY <1>1, <1>2, <1>10, JumpsFind
  <2>. QED
    BY <1>3, <1>10, <2>1 DEF AskedAt, Joins
<1>11. CASE kind \in {"lex", "root"} /\ AreAdjacent(g_b, c[2], d[2]) /\ c[1] = d[1]
  <2>1. PICK y \in Range(MovesOfB(c, FALSE)) :
               y.from = PairIn(g_a, g_b, c) /\ y.to = PairIn(g_a, g_b, d)
    BY <1>1, <1>2, <1>11, MovesFindB
  <2>. QED
    BY <1>3, <1>11, <2>1 DEF AskedAt, Joins
<1>12. CASE kind = "root" /\ AreAdjacent(g_a, c[1], d[1]) /\ c[2] = RootId /\ d[2] = RootId
  <2>1. PICK y \in Range(MovesOfA(c, FALSE)) :
               y.from = PairIn(g_a, g_b, c) /\ y.to = PairIn(g_a, g_b, d)
    BY ZenonT(30), <1>1, <1>2, <1>12, MovesFindA
  <2>. QED
    BY <1>3, <1>12, <2>1 DEF AskedAt, Joins
<1>. QED
  BY <1>1, <1>7, <1>8, <1>9, <1>10, <1>11, <1>12 DEF RelatedIn

LEMMA SoundInIs ==
  ASSUME g_a \in Operands, g_b \in Operands
  PROVE  Sound <=> SoundIn(g_a, g_b, kind, RootId)
<1>1. NamesTell <=> Tells(g_a, g_b)
  BY NamesTellIs
<1>2. ~RootMissing <=> (kind = "root" => RootId \in NodesOf(g_b))
  BY DEF RootMissing, NodesOf
<1>. QED
  BY <1>1, <1>2 DEF Sound, SoundIn

(* One more edge between two pairs. *)
LEMMA AddEdgeBetweenPairs ==
  ASSUME NEW A, NEW B, IsGraph(A), IsGraph(B), NEW kd \in {"cart", "tens", "lex", "strong", "root"},
         NEW r, SoundIn(A, B, kd, r),
         NEW g, Shape(g), Named(A, B, g), OnlyEdges(A, B, kd, r, g),
         \A c \in CellsIn(A, B) : FindNode(g, PairIn(A, B, c)) \in DOMAIN g,
         NEW from, NEW to, NEW at \in EdgeAttrs, IsEdge(A, B, kd, r, from, to, at)
  PROVE  LET h == AddEdgeName(g, from, to, at)
         IN  /\ ~AddEdgeNameRefused(g, from, to)
             /\ OnlyEdges(A, B, kd, r, h)
             /\ AreAdjacent(h, FindNode(h, from), FindNode(h, to))
             /\ AreAdjacent(h, FindNode(h, to), FindNode(h, from))
             /\ \A c, d \in CellsIn(A, B) :
                  AreAdjacent(g, FindNode(g, PairIn(A, B, c)), FindNode(g, PairIn(A, B, d))) =>
                  AreAdjacent(h, FindNode(h, PairIn(A, B, c)), FindNode(h, PairIn(A, B, d)))
<1>. DEFINE a == FindNode(g, from)
            b == FindNode(g, to)
            h == AddEdgeName(g, from, to, at)
<1>1. IsGraph(g) /\ NodesAndGates(g) /\ g \in Seq(Node) /\ 0 \notin DOMAIN g
  BY DEF Shape, IsGraph
<1>2. IsEdge(A, B, kd, r, to, from, at) /\ from # to
  BY IsEdgeBothWays
<1>3. a \in DOMAIN g /\ b \in DOMAIN g
  BY DEF IsEdge
<1>4. g[a].name = from /\ g[b].name = to
  BY <1>1, <1>3, FindNodeRange
<1>5. ~AddEdgeNameRefused(g, from, to)
  <2>1. a \in 1..Len(g) /\ b \in 1..Len(g) /\ a # b /\ Len(g) \in Nat
    BY <1>1, <1>2, <1>3, <1>4
  <2>. HIDE DEF a, b
  <2>2. ~EdgeRefused(g, a, b)
    BY <2>1 DEF EdgeRefused
  <2>. QED
    BY <2>2 DEF AddEdgeNameRefused, a, b
<1>6. /\ IsGraph(h) /\ DOMAIN h = DOMAIN g
      /\ Keeps(g, h)
      /\ \A v \in DOMAIN g : \A k \in DOMAIN h[v].adj :
           \/ k \in DOMAIN g[v].adj /\ h[v].adj[k] = g[v].adj[k]
           \/ v = a /\ h[v].adj[k] = [n |-> b, attrs |-> at]
           \/ v = b /\ h[v].adj[k] = [n |-> a, attrs |-> at]
      /\ AreAdjacent(h, a, b)
  BY <1>1, <1>5, AddEdgeNameEffect
<1>7. Shape(h)
  BY AddEdgeNameShape
<1>. HIDE DEF h
<1>8. \A name : FindNode(g, name) \in DOMAIN g => FindNode(h, name) = FindNode(g, name)
  BY <1>1, <1>6, KeepsFound
<1>9. AreAdjacent(h, b, a)
  BY <1>3, <1>6, <1>7, AdjacentBothWays DEF Shape
<1>10. \A v, w : v \in DOMAIN g /\ AreAdjacent(g, v, w) => AreAdjacent(h, v, w)
  BY <1>6 DEF AreAdjacent, Keeps, Grown
<1>11. \A c, d \in CellsIn(A, B) :
         AreAdjacent(g, FindNode(g, PairIn(A, B, c)), FindNode(g, PairIn(A, B, d))) =>
         AreAdjacent(h, FindNode(h, PairIn(A, B, c)), FindNode(h, PairIn(A, B, d)))
  BY <1>8, <1>10
<1>12. FindNode(h, from) = a /\ FindNode(h, to) = b
  BY <1>3, <1>8
<1>. HIDE DEF a, b
<1>13. OnlyEdges(A, B, kd, r, h)
  <2>1. SUFFICES ASSUME NEW v \in DOMAIN h, NEW k \in DOMAIN h[v].adj,
                        h[v].type = "NODE", h[h[v].adj[k].n].type = "NODE"
                 PROVE  IsEdge(A, B, kd, r, h[v].name, h[h[v].adj[k].n].name, h[v].adj[k].attrs)
    BY DEF OnlyEdges
  <2>2. \A x \in DOMAIN g : h[x].name = g[x].name /\ h[x].type = g[x].type
    BY <1>6 DEF Keeps, Grown
  <2>3. CASE k \in DOMAIN g[v].adj /\ h[v].adj[k] = g[v].adj[k]
    <3>1. v \in DOMAIN g /\ g[v].adj[k].n \in DOMAIN g
      BY <1>1, <1>6, <2>3 DEF IsGraph
    <3>. QED
      BY <2>1, <2>2, <2>3, <3>1 DEF OnlyEdges
  <2>4. CASE v = a /\ h[v].adj[k] = [n |-> b, attrs |-> at]
    <3>1. h[v].adj[k].n = b /\ h[v].adj[k].attrs = at
      BY <2>4
    <3>2. h[v].name = from /\ h[b].name = to
      BY <1>3, <1>4, <2>2, <2>4
    <3>. QED
      BY <3>1, <3>2
  <2>5. CASE v = b /\ h[v].adj[k] = [n |-> a, attrs |-> at]
    <3>1. h[v].adj[k].n = a /\ h[v].adj[k].attrs = at
      BY <2>5
    <3>2. h[v].name = to /\ h[a].name = from
      BY <1>3, <1>4, <2>2, <2>5
    <3>. QED
      BY <1>2, <3>1, <3>2
  <2>. QED
    BY <1>6, <2>3, <2>4, <2>5
<1>. QED
  BY <1>5, <1>6, <1>9, <1>11, <1>12, <1>13 DEF h

LEMMA EdgesInvInit ==
  ASSUME Init
  PROVE  EdgesInv
BY DEF Init, EdgesInv

LEMMA NodesKeepEdgesInv ==
  ASSUME GraphInv, EdgesInv, AddCell \/ NoRoot
  PROVE  EdgesInv'
<1>1. /\ g_a \in Operands /\ g_b \in Operands /\ pc = "nodes"
      /\ UNCHANGED <<g_a, g_b, kind, root>>
      /\ FindNode(g_b, root)' = FindNode(g_b, root)
  BY DEF GraphInv, AddCell, NoRoot, operands
<1>2. CASE AddCell
  <2>1. pc' = "nodes" /\ res' = res
    BY <1>1, <1>2 DEF AddCell
  <2>. QED
    BY <1>1, <2>1 DEF EdgesInv
<1>3. CASE NoRoot
  <2>1. ~SoundIn(g_a, g_b, kind, FindNode(g_b, root))
    <3>1. RootMissing
      BY <1>3 DEF NoRoot
    <3>. QED
      BY <3>1 DEF RootMissing, RootId, SoundIn, NodesOf
  <2>. QED
    BY <1>1, <2>1 DEF EdgesInv
<1>. QED
  BY <1>2, <1>3

LEMMA CellsDoneKeepsEdgesInv ==
  ASSUME GraphInv, EdgesInv, CellsDone
  PROVE  EdgesInv'
<1>. DEFINE r == FindNode(g_b, root)
<1>1. /\ g_a \in Operands /\ g_b \in Operands /\ kind \in Kinds /\ ~RootMissing
      /\ pc = "nodes" /\ pc' = "edges" /\ todo' = Calls
      /\ UNCHANGED <<g_a, g_b, kind, root, g_prod, res>>
      /\ Shape(g_prod) /\ RootId = r /\ r' = r
  BY DEF GraphInv, CellsDone, operands, RootId
<1>2. ASSUME SoundIn(g_a, g_b, kind, r)
      PROVE  /\ res = "ok"
             /\ \A y \in Range(Calls) : IsEdge(g_a, g_b, kind, r, y.from, y.to, y.attrs)
             /\ OnlyEdges(g_a, g_b, kind, r, g_prod)
             /\ EdgesOrCalls(g_a, g_b, kind, r, g_prod, Range(Calls))
  <2>1. res = "ok"
    BY <1>2 DEF EdgesInv
  <2>2. \A y \in Range(Calls) : IsEdge(g_a, g_b, kind, r, y.from, y.to, y.attrs)
    BY <1>1, <1>2, CallsAreEdges
  <2>3. NoEdges(g_prod)
    BY <1>1, <1>2 DEF GraphInv, GatesInv, SoundIn
  <2>4. OnlyEdges(g_a, g_b, kind, r, g_prod)
    BY <2>3 DEF OnlyEdges, NoEdges
  <2>5. EdgesOrCalls(g_a, g_b, kind, r, g_prod, Range(Calls))
    BY <1>1, <1>2, EdgesAreCalled DEF EdgesOrCalls
  <2>. QED
    BY <2>1, <2>2, <2>4, <2>5
<1>3. Range(todo)' = Range(Calls)
  BY <1>1 DEF Range
<1>. QED
  BY <1>1, <1>2, <1>3 DEF EdgesInv

LEMMA AddEdgeKeepsEdgesInv ==
  ASSUME GraphInv, EdgesInv, AddEdge
  PROVE  EdgesInv'
<1>. DEFINE r == FindNode(g_b, root)
            call == Head(todo)
            h == AddEdgeName(g_prod, call.from, call.to, call.attrs)
<1>1. /\ g_a \in Operands /\ g_b \in Operands /\ kind \in {"cart", "tens", "lex", "strong", "root"}
      /\ pc = "edges" /\ Shape(g_prod) /\ todo # <<>>
      /\ todo \in Seq(CallSet(g_a, g_b))
      /\ IsGraph(g_a) /\ IsGraph(g_b)
  BY ProductsAssumption DEF GraphInv, AddEdge, NodesInv
<1>2. /\ g_prod' = h /\ todo' = Tail(todo)
      /\ ~AddEdgeNameRefused(g_prod, call.from, call.to) => res' = res /\ pc' = pc
      /\ UNCHANGED <<g_a, g_b, kind, root>> /\ r' = r
  BY DEF AddEdge, operands
<1>3. call \in CallSet(g_a, g_b) /\ Range(todo) = {call} \cup Range(Tail(todo))
  BY <1>1, FirstAndRest
<1>4. call.attrs \in EdgeAttrs
  BY <1>3, CallParts
<1>. HIDE DEF call
<1>5. ASSUME SoundIn(g_a, g_b, kind, r)
      PROVE  /\ res' = "ok" /\ pc' # "done"
             /\ \A y \in Range(Tail(todo)) : IsEdge(g_a, g_b, kind, r, y.from, y.to, y.attrs)
             /\ OnlyEdges(g_a, g_b, kind, r, h)
             /\ EdgesOrCalls(g_a, g_b, kind, r, h, Range(Tail(todo)))
  <2>1. /\ res = "ok"
        /\ \A y \in Range(todo) : IsEdge(g_a, g_b, kind, r, y.from, y.to, y.attrs)
        /\ OnlyEdges(g_a, g_b, kind, r, g_prod)
        /\ EdgesOrCalls(g_a, g_b, kind, r, g_prod, Range(todo))
    BY <1>1, <1>5 DEF EdgesInv
  <2>2. /\ Named(g_a, g_b, g_prod)
        /\ \A c \in CellsIn(g_a, g_b) : FindNode(g_prod, PairIn(g_a, g_b, c)) \in DOMAIN g_prod
    BY <1>1, <1>5 DEF GraphInv, GatesInv, SoundIn, Complete
  <2>3. IsEdge(g_a, g_b, kind, r, call.from, call.to, call.attrs)
    BY <1>3, <2>1
  <2>. HIDE DEF r
  <2>4. /\ ~AddEdgeNameRefused(g_prod, call.from, call.to)
        /\ OnlyEdges(g_a, g_b, kind, r, h)
        /\ AreAdjacent(h, FindNode(h, call.from), FindNode(h, call.to))
        /\ AreAdjacent(h, FindNode(h, call.to), FindNode(h, call.from))
        /\ \A c, d \in CellsIn(g_a, g_b) :
             AreAdjacent(g_prod, FindNode(g_prod, PairIn(g_a, g_b, c)), FindNode(g_prod, PairIn(g_a, g_b, d))) =>
             AreAdjacent(h, FindNode(h, PairIn(g_a, g_b, c)), FindNode(h, PairIn(g_a, g_b, d)))
    BY <1>1, <1>4, <1>5, <2>1, <2>2, <2>3, AddEdgeBetweenPairs
  <2>. HIDE DEF h
  <2>5. EdgesOrCalls(g_a, g_b, kind, r, h, Range(Tail(todo)))
    <3>1. SUFFICES ASSUME NEW c \in CellsIn(g_a, g_b), NEW d \in CellsIn(g_a, g_b),
                          RelatedIn(g_a, g_b, kind, r, c, d)
                   PROVE  \/ AreAdjacent(h, FindNode(h, PairIn(g_a, g_b, c)), FindNode(h, PairIn(g_a, g_b, d)))
                          \/ \E y \in Range(Tail(todo)) : Joins(y, PairIn(g_a, g_b, c), PairIn(g_a, g_b, d))
      BY DEF EdgesOrCalls
    <3>2. CASE AreAdjacent(g_prod, FindNode(g_prod, PairIn(g_a, g_b, c)), FindNode(g_prod, PairIn(g_a, g_b, d)))
      BY <2>4, <3>2
    <3>3. CASE \E y \in Range(todo) : Joins(y, PairIn(g_a, g_b, c), PairIn(g_a, g_b, d))
      <4>1. PICK y \in Range(todo) : Joins(y, PairIn(g_a, g_b, c), PairIn(g_a, g_b, d))
        BY <3>3
      <4>2. CASE y = call
        BY <2>4, <4>1, <4>2 DEF Joins
      <4>. QED
        BY <1>3, <4>1, <4>2
    <3>. QED
      BY <2>1, <3>1, <3>2, <3>3 DEF EdgesOrCalls
  <2>. QED
    BY <1>1, <1>2, <1>3, <2>1, <2>4, <2>5
<1>6. Range(todo)' = Range(Tail(todo))
  BY <1>2 DEF Range
<1>. QED
  BY <1>2, <1>5, <1>6 DEF EdgesInv

LEMMA EdgesInvStep ==
  ASSUME GraphInv, EdgesInv, [Next]_vars
  PROVE  EdgesInv'
<1>1. CASE EdgesDone
  <2>1. /\ UNCHANGED <<g_a, g_b, kind, root, g_prod, todo, res>>
        /\ pc = "edges" /\ pc' = "done" /\ todo = <<>>
    BY <1>1 DEF EdgesDone, operands
  <2>. QED
    BY <2>1 DEF EdgesInv
<1>2. CASE UNCHANGED vars
  BY <1>2 DEF vars, EdgesInv
<1>. QED
  BY <1>1, <1>2, NodesKeepEdgesInv, CellsDoneKeepsEdgesInv, AddEdgeKeepsEdgesInv DEF Next

LEMMA EdgesInvHolds == Spec => [](GraphInv /\ EdgesInv)
<1>1. Init => EdgesInv
  BY EdgesInvInit
<1>2. GraphInv /\ EdgesInv /\ [Next]_vars => EdgesInv'
  BY EdgesInvStep
<1>. QED
  BY <1>1, <1>2, GraphInvHolds, PTL DEF Spec

(* What the invariant says of two pairs of a product that is complete. *)
LEMMA DoneIsTextbook ==
  ASSUME GraphInv, EdgesInv, pc = "done", Sound, NEW c \in CellSet, NEW d \in CellSet
  PROVE  /\ AreAdjacent(g_prod, Made(c), Made(d)) <=> RelatedIn(g_a, g_b, kind, RootId, c, d)
         /\ AreAdjacent(g_prod, Made(c), Made(d)) /\ kind \in {"cart", "tens", "root"} =>
              AttrOf(g_prod, Made(c), Made(d)) = AttrsIn(g_a, g_b, c, d)
<1>. DEFINE a == FindNode(g_prod, PairIn(g_a, g_b, c))
            b == FindNode(g_prod, PairIn(g_a, g_b, d))
            r == FindNode(g_b, root)
<1>1. /\ g_a \in Operands /\ g_b \in Operands /\ Shape(g_prod)
      /\ IsGraph(g_prod) /\ NodesAndGates(g_prod) /\ NoParallel(g_prod) /\ g_prod \in Seq(Node)
      /\ RootId = r
  BY DEF GraphInv, Shape, Simple, IsGraph, RootId
<1>2. /\ SoundIn(g_a, g_b, kind, r) /\ Tells(g_a, g_b)
      /\ c \in CellsIn(g_a, g_b) /\ d \in CellsIn(g_a, g_b)
  BY <1>1, SoundInIs, NamesTellIs DEF SoundIn
<1>3. Made(c) = a /\ Made(d) = b
  BY DEF Made, PairName, PairIn
<1>4. /\ OnlyEdges(g_a, g_b, kind, r, g_prod)
      /\ EdgesOrCalls(g_a, g_b, kind, r, g_prod, {})
  <2>1. Range(todo) = {}
    BY <1>2 DEF EdgesInv, Range
  <2>. QED
    BY <1>2, <2>1 DEF EdgesInv
<1>5. /\ Named(g_a, g_b, g_prod)
      /\ a \in DOMAIN g_prod /\ b \in DOMAIN g_prod
  BY <1>2 DEF GraphInv, GatesInv, Complete
<1>6. RelatedIn(g_a, g_b, kind, r, c, d) => AreAdjacent(g_prod, a, b)
  BY <1>2, <1>4 DEF EdgesOrCalls
<1>7. g_prod[a].name = PairIn(g_a, g_b, c) /\ g_prod[b].name = PairIn(g_a, g_b, d)
  <2>1. 0 \notin DOMAIN g_prod
    BY <1>1 DEF IsGraph
  <2>. QED
    BY <1>1, <1>5, <2>1, FindNodeRange
<1>. HIDE DEF a, b, r
<1>8. g_prod[a].type = "NODE" /\ g_prod[b].type = "NODE"
  BY <1>1, <1>2, <1>5, <1>7, PairIsNode, CellsAreIds
<1>9. ASSUME AreAdjacent(g_prod, a, b)
      PROVE  /\ RelatedIn(g_a, g_b, kind, r, c, d)
             /\ kind \in {"cart", "tens", "root"} => AttrOf(g_prod, a, b) = AttrsIn(g_a, g_b, c, d)
  <2>1. PICK k \in DOMAIN g_prod[a].adj : g_prod[a].adj[k].n = b
    BY <1>9 DEF AreAdjacent
  <2>2. IsEdge(g_a, g_b, kind, r, g_prod[a].name, g_prod[b].name, g_prod[a].adj[k].attrs)
    BY <1>4, <1>5, <1>8, <2>1 DEF OnlyEdges
  <2>3. PICK i \in CellsIn(g_a, g_b), j \in CellsIn(g_a, g_b) :
          /\ g_prod[a].name = PairIn(g_a, g_b, i) /\ g_prod[b].name = PairIn(g_a, g_b, j)
          /\ RelatedIn(g_a, g_b, kind, r, i, j)
          /\ kind \in {"cart", "tens", "root"} => g_prod[a].adj[k].attrs = AttrsIn(g_a, g_b, i, j)
    BY <2>2 DEF IsEdge
  <2>4. i = c /\ j = d
    BY <1>2, <1>7, <2>3 DEF Tells
  <2>5. AttrOf(g_prod, a, b) = g_prod[a].adj[k].attrs
    BY <1>1, <1>5, <2>1, AttrOfEntry
  <2>. QED
    BY <2>3, <2>4, <2>5
<1>. QED
  BY <1>1, <1>3, <1>6, <1>9

(* Each of the five products, of any two simple graphs, has exactly the edges of
   its definition once it is complete, and taking it succeeds: whatever gates
   the operands have in the Cartesian and the rooted product, and of a second
   operand without gates in the other three. *)
THEOREM TextbookEdges == Spec => []ProductIsTextbook
<1>1. GraphInv /\ EdgesInv => ProductIsTextbook
  <2>1. SUFFICES ASSUME GraphInv, EdgesInv, pc = "done", Sound
                 PROVE  /\ res = "ok"
                        /\ \A c, d \in CellSet : AreAdjacent(g_prod, Made(c), Made(d)) <=> Related(c, d)
    BY DEF ProductIsTextbook
  <2>2. res = "ok"
    <3>1. SoundIn(g_a, g_b, kind, RootId)
      BY <2>1, SoundInIs DEF GraphInv
    <3>. QED
      BY <2>1, <3>1 DEF EdgesInv, RootId
  <2>3. \A c, d \in CellSet : Related(c, d) <=> RelatedIn(g_a, g_b, kind, RootId, c, d)
    BY DEF Related, RelatedIn
  <2>. QED
    BY <2>1, <2>2, <2>3, DoneIsTextbook
<1>. QED
  BY <1>1, EdgesInvHolds, PTL

(* In the Cartesian, tensor and rooted product every edge has the attribute of
   the edge it comes from, or the attributes of both, from either of its ends
   and whichever of its two calls came first. *)
THEOREM AttrsComeAlong == Spec => []AttrsFollow
<1>1. GraphInv /\ EdgesInv => AttrsFollow
  BY DoneIsTextbook DEF AttrsFollow, AttrsIn
<1>. QED
  BY <1>1, EdgesInvHolds, PTL
=============================================================================
