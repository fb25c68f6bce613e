----------------------------- MODULE ListLemmas -----------------------------
(***************************************************************************)
(* Facts about linked lists, for lists of any length over any set: where a *)
(* walk stops, and what an insertion and an unlinking do to the length,    *)
(* the entries and their order, at any place and at the ends of a queue.   *)
(***************************************************************************)
EXTENDS Lists, SequenceTheorems, WellFoundedInduction, TLAPS

(* A nonempty set of naturals has a least element, and Min is that one.    *)
LEMMA MinInSet ==
  ASSUME NEW I, I \subseteq Nat, I # {}
  PROVE  Min(I) \in I /\ \A y \in I : Min(I) <= y
<1> DEFINE R == {ss \in Nat \X Nat : ss[1] < ss[2]}
<1>1. IsWellFoundedOn(R, Nat)
  BY NatLessThanWellFounded DEF OpToRel
<1> HIDE DEF R
<1>2. PICK x \in I : \A y \in I : ~ (<<y, x>> \in R)
  BY <1>1, WFMin, Zenon
<1>3. ASSUME NEW y \in I PROVE x <= y
  <2>1. /\ x \in Nat /\ y \in Nat
        /\ ~ (<<y, x>> \in R)
    BY <1>2
  <2>2. y < x => <<y, x>> \in R
    BY <2>1 DEF R
  <2> QED
    BY <2>1, <2>2
<1> QED
  BY <1>3 DEF Min

(* The index a walk stops at: of the first entry of a kind, or 0, the head. *)
LEMMA FirstIndex ==
  ASSUME NEW n \in Nat, NEW I, I \subseteq 1..n
  PROVE  (IF I # {} THEN Min(I) ELSE 0) \in 0..n
<1>1. I \subseteq Nat
  OBVIOUS
<1>2. I # {} => Min(I) \in I
  BY <1>1, MinInSet
<1>3. I # {} => Min(I) \in 1..n
  BY <1>2
<1>4. 0 \in 0..n /\ 1..n \subseteq 0..n
  OBVIOUS
<1> QED
  BY <1>3, <1>4

(* The last index of a set.                                                *)
LEMMA LastIndex ==
  ASSUME NEW n \in Nat, NEW I, I \subseteq 1..n, I # {}
  PROVE  (CHOOSE i \in I : \A j \in I : j <= i) \in I
<1> DEFINE J == {n - i : i \in I}
<1>1. \A i \in I : i \in Nat /\ n - i \in Nat
  OBVIOUS
<1>2. J \subseteq Nat
  BY <1>1
<1>3. J # {}
  <2>1. PICK i : i \in I
    OBVIOUS
  <2>2. n - i \in J
    BY <2>1
  <2> QED
    BY <2>2
<1>4. PICK m : m = Min(J)
  OBVIOUS
<1>5. m \in J /\ \A y \in J : m <= y
  <2> HIDE DEF J
  <2> QED
    BY <1>2, <1>3, <1>4, MinInSet
<1>6. PICK i \in I : m = n - i
  BY <1>5
<1>7. ASSUME NEW j \in I PROVE j <= i
  <2>1. m <= n - j
    BY <1>5
  <2>2. i \in Nat /\ j \in Nat /\ n \in Nat
    BY <1>1
  <2> QED
    BY <1>6, <2>1, <2>2
<1> QED
  BY <1>7

(* The index of an entry of a list.                                        *)
LEMMA IndexOf ==
  ASSUME NEW S, NEW L \in Seq(S), NEW e,
         \E i \in 1..Len(L) : L[i] = e
  PROVE  LET k == SelectInSeq(L, LAMBDA v : v = e)
         IN  k \in 1..Len(L) /\ L[k] = e
<1> DEFINE K == {i \in 1..Len(L) : L[i] = e}
<1>1. K \subseteq Nat /\ K # {}
  BY DEF K
<1>2. SelectInSeq(L, LAMBDA v : v = e) = Min(K)
  BY <1>1 DEF SelectInSeq
<1>3. Min(K) \in K
  <2> HIDE DEF K
  <2> QED
    BY <1>1, MinInSet
<1> QED
  BY <1>2, <1>3

(* M is the list L with e put in at i and the entries from i on shifted.   *)
Shifted(S, L, i, e, M) ==
  /\ M \in Seq(S)
  /\ Len(M) = Len(L) + 1
  /\ \A j \in 1..Len(L) + 1 :
       M[j] = IF j < i THEN L[j] ELSE IF j = i THEN e ELSE L[j - 1]

(* InsertAt shifts the entries from i on by one.                           *)
LEMMA InsertAtShape ==
  ASSUME NEW S, NEW L \in Seq(S), NEW i \in 1..Len(L) + 1, NEW e \in S
  PROVE  Shifted(S, L, i, e, InsertAt(L, i, e))
<1> DEFINE A == SubSeq(L, 1, i - 1)
           B == SubSeq(L, i, Len(L))
<1>1. Len(L) \in Nat /\ i \in Int /\ i - 1 \in Int
  OBVIOUS
<1>2. /\ A \in Seq(S) /\ Len(A) = i - 1
      /\ \A j \in 1..i - 1 : A[j] = L[j]
  BY <1>1, SubSeqProperties
<1>3. /\ B \in Seq(S) /\ Len(B) = Len(L) - i + 1
      /\ \A j \in 1..Len(L) - i + 1 : B[j] = L[i + j - 1]
  BY <1>1, SubSeqProperties
<1> HIDE DEF A, B
<1>4. /\ A \o <<e>> \in Seq(S) /\ Len(A \o <<e>>) = i
      /\ \A j \in 1..i : (A \o <<e>>)[j] = IF j < i THEN L[j] ELSE e
  BY <1>1, <1>2
<1>5. /\ (A \o <<e>>) \o B \in Seq(S)
      /\ Len((A \o <<e>>) \o B) = Len(L) + 1
      /\ \A j \in 1..Len(L) + 1 : ((A \o <<e>>) \o B)[j] =
            IF j <= i THEN (A \o <<e>>)[j] ELSE B[j - i]
  BY <1>1, <1>3, <1>4, ConcatProperties
<1>6. \A j \in 1..Len(L) + 1 : ((A \o <<e>>) \o B)[j] =
            IF j < i THEN L[j] ELSE IF j = i THEN e ELSE L[j - 1]
  BY <1>1, <1>3, <1>4, <1>5
<1>7. InsertAt(L, i, e) = (A \o <<e>>) \o B
  BY DEF InsertAt, A, B
<1> QED
  BY <1>5, <1>6, <1>7 DEF Shifted

(* RemoveAt shifts the entries after i back by one.                        *)
LEMMA RemoveAtShape ==
  ASSUME NEW S, NEW L \in Seq(S), NEW i \in 1..Len(L)
  PROVE  LET M == RemoveAt(L, i)
         IN  /\ M \in Seq(S)
             /\ Len(M) = Len(L) - 1
             /\ \A j \in 1..Len(L) - 1 : M[j] = IF j < i THEN L[j] ELSE L[j + 1]
<1> DEFINE A == SubSeq(L, 1, i - 1)
           B == SubSeq(L, i + 1, Len(L))
<1>1. Len(L) \in Nat /\ i \in Int
  OBVIOUS
<1>2. /\ A \in Seq(S) /\ Len(A) = i - 1
      /\ \A j \in 1..i - 1 : A[j] = L[j]
  BY <1>1, SubSeqProperties
<1>3. /\ B \in Seq(S) /\ Len(B) = Len(L) - i
      /\ \A j \in 1..Len(L) - i : B[j] = L[i + j]
  BY <1>1, SubSeqProperties
<1> HIDE DEF A, B
<1>4. /\ A \o B \in Seq(S) /\ Len(A \o B) = Len(L) - 1
      /\ \A j \in 1..Len(L) - 1 : (A \o B)[j] =
            IF j <= i - 1 THEN A[j] ELSE B[j - (i - 1)]
  BY <1>1, <1>2, <1>3, ConcatProperties
<1>5. \A j \in 1..Len(L) - 1 : (A \o B)[j] = IF j < i THEN L[j] ELSE L[j + 1]
  BY <1>1, <1>2, <1>3, <1>4
<1>6. RemoveAt(L, i) = A \o B
  BY DEF RemoveAt, A, B
<1> QED
  BY <1>4, <1>5, <1>6

(* The entries of a list, by index.                                        *)
LEMMA Entries ==
  ASSUME NEW S, NEW L \in Seq(S)
  PROVE  /\ \A e : e \in ToSet(L) <=> \E i \in 1..Len(L) : L[i] = e
         /\ ToSet(L) \subseteq S
         /\ ToSet(L) = {} <=> L = <<>>
<1>1. DOMAIN L = 1..Len(L) /\ Len(L) \in Nat /\ \A i \in 1..Len(L) : L[i] \in S
  BY LenProperties
<1>2. L = <<>> <=> Len(L) = 0
  BY <1>1, EmptySeq
<1>3. L # <<>> => 1 \in DOMAIN L
  BY <1>1, <1>2
<1>4. L = <<>> => DOMAIN L = {}
  BY <1>1, <1>2
<1> QED
  BY <1>1, <1>3, <1>4 DEF ToSet

(***************************************************************************)
(* Linking an unlinked entry anywhere in a list adds exactly that entry    *)
(* and creates no duplicate.                                               *)
(***************************************************************************)
LEMMA InsertAtEntries ==
  ASSUME NEW S, NEW L \in Seq(S), NEW i \in 1..Len(L) + 1, NEW e \in S,
         NoDuplicates(L), e \notin ToSet(L)
  PROVE  LET M == InsertAt(L, i, e)
         IN  /\ M \in Seq(S) /\ Len(M) = Len(L) + 1
             /\ NoDuplicates(M)
             /\ ToSet(M) = ToSet(L) \union {e}
<1> DEFINE M == InsertAt(L, i, e)
           New(j) == IF j < i THEN j ELSE j + 1
<1>1. /\ M \in Seq(S) /\ Len(M) = Len(L) + 1 /\ Len(L) \in Nat
      /\ \A j \in 1..Len(L) + 1 :
           M[j] = IF j < i THEN L[j] ELSE IF j = i THEN e ELSE L[j - 1]
  <2> HIDE DEF New, M
  <2>1. Shifted(S, L, i, e, InsertAt(L, i, e))
    BY InsertAtShape, Zenon
  <2>2. Shifted(S, L, i, e, M)
    BY <2>1, Zenon DEF M
  <2>3. Len(L) \in Nat
    BY LenProperties, Zenon
  <2> QED
    BY <2>2, <2>3, Zenon DEF Shifted
<1> HIDE DEF M
<1>2. \A j \in 1..Len(L) : New(j) \in 1..Len(M) /\ M[New(j)] = L[j]
  <2> SUFFICES ASSUME NEW j \in 1..Len(L) PROVE New(j) \in 1..Len(M) /\ M[New(j)] = L[j]
    OBVIOUS
  <2>1. CASE j < i
    BY <1>1, <2>1
  <2>2. CASE ~ j < i
    <3>1. j + 1 \in 1..Len(L) + 1 /\ ~ j + 1 < i /\ j + 1 # i /\ j + 1 - 1 = j
      BY <1>1, <2>2
    <3>2. M[j + 1] = L[j]
      BY <1>1, <3>1
    <3> QED
      BY <1>1, <2>2, <3>1, <3>2
  <2> QED
    BY <2>1, <2>2
<1>3. i \in 1..Len(M) /\ M[i] = e
  BY <1>1
<1>4. \A j \in 1..Len(M) : j = i \/ \E k \in 1..Len(L) : j = New(k) /\ M[j] = L[k]
  <2> SUFFICES ASSUME NEW j \in 1..Len(M), j # i
               PROVE  \E k \in 1..Len(L) : j = New(k) /\ M[j] = L[k]
    OBVIOUS
  <2>1. CASE j < i
    <3>1. j \in 1..Len(L) /\ j = New(j) /\ M[j] = L[j]
      BY <1>1, <2>1
    <3> QED
      BY <3>1
  <2>2. CASE j > i
    <3>1. j - 1 \in 1..Len(L) /\ j = New(j - 1) /\ M[j] = L[j - 1]
      BY <1>1, <2>2
    <3> QED
      BY <3>1
  <2>3. j < i \/ j > i
    BY <1>1
  <2> QED
    BY <2>1, <2>2, <2>3
<1>5. \A j \in 1..Len(L) : L[j] # e
  BY Entries
<1>6. NoDuplicates(M)
  <2> SUFFICES ASSUME NEW j \in 1..Len(M), NEW k \in 1..Len(M), M[j] = M[k]
               PROVE  j = k
    BY DEF NoDuplicates
  <2> QED
    BY <1>3, <1>4, <1>5 DEF NoDuplicates
<1>7. ToSet(M) = ToSet(L) \union {e}
  <2>1. \A x : x \in ToSet(M) => x \in ToSet(L) \union {e}
    BY <1>1, <1>3, <1>4, Entries
  <2>2. \A x : x \in ToSet(L) \union {e} => x \in ToSet(M)
    BY <1>1, <1>2, <1>3, Entries
  <2> QED
    BY <2>1, <2>2
<1> QED
  BY <1>1, <1>6, <1>7 DEF M

(* list_del_init removes exactly that entry, if it is there.               *)
LEMMA RemoveEntries ==
  ASSUME NEW S, NEW L \in Seq(S), NEW e, NoDuplicates(L)
  PROVE  LET M == RemoveFirst(L, e)
         IN  /\ M \in Seq(S)
             /\ Len(M) = IF e \in ToSet(L) THEN Len(L) - 1 ELSE Len(L)
             /\ NoDuplicates(M)
             /\ ToSet(M) = ToSet(L) \ {e}
<1>1. CASE ~ \E i \in 1..Len(L) : L[i] = e
  <2>1. RemoveFirst(L, e) = L
    BY <1>1 DEF RemoveFirst
  <2>2. e \notin ToSet(L)
    BY <1>1, Entries
  <2> QED
    BY <2>1, <2>2
<1>2. CASE \E i \in 1..Len(L) : L[i] = e
  <2>1. PICK i \in 1..Len(L) : L[i] = e /\ RemoveFirst(L, e) = RemoveAt(L, i)
    <3> DEFINE k == SelectInSeq(L, LAMBDA v : v = e)
    <3>1. k \in 1..Len(L) /\ L[k] = e
      BY <1>2, IndexOf
    <3>2. RemoveFirst(L, e) = RemoveAt(L, k)
      BY <1>2 DEF RemoveFirst
    <3> HIDE DEF k
    <3> QED
      BY <3>1, <3>2
  <2> DEFINE M == RemoveAt(L, i)
             New(j) == IF j < i THEN j ELSE j - 1
  <2>2. RemoveFirst(L, e) = M
    BY <2>1
  <2>3. /\ M \in Seq(S) /\ Len(M) = Len(L) - 1 /\ Len(L) \in Nat
        /\ \A j \in 1..Len(L) - 1 : M[j] = IF j < i THEN L[j] ELSE L[j + 1]
    BY RemoveAtShape
  <2> HIDE DEF M
  <2>4. \A j \in 1..Len(L) : j # i => New(j) \in 1..Len(M) /\ M[New(j)] = L[j]
    BY <2>1, <2>3
  <2>5. \A j \in 1..Len(M) : \E k \in 1..Len(L) : k # i /\ j = New(k) /\ M[j] = L[k]
    <3> SUFFICES ASSUME NEW j \in 1..Len(M)
                 PROVE  \E k \in 1..Len(L) : k # i /\ j = New(k) /\ M[j] = L[k]
      OBVIOUS
    <3>1. CASE j < i
      <4>1. j \in 1..Len(L) /\ j # i /\ j = New(j) /\ M[j] = L[j]
        BY <2>1, <2>3, <3>1
      <4> QED
        BY <4>1
    <3>2. CASE j >= i
      <4>1. j + 1 \in 1..Len(L) /\ j + 1 # i /\ j = New(j + 1) /\ M[j] = L[j + 1]
        BY <2>1, <2>3, <3>2
      <4> QED
        BY <4>1
    <3> QED
      BY <2>1, <2>3, <3>1, <3>2
  <2>6. \A j \in 1..Len(L) : L[j] = e => j = i
    BY <2>1 DEF NoDuplicates
  <2>7. NoDuplicates(M)
    <3> SUFFICES ASSUME NEW j \in 1..Len(M), NEW k \in 1..Len(M), M[j] = M[k]
                 PROVE  j = k
      BY DEF NoDuplicates
    <3> QED
      BY <2>5 DEF NoDuplicates
  <2>8. ToSet(M) = ToSet(L) \ {e}
    <3>1. \A x : x \in ToSet(M) => x \in ToSet(L) \ {e}
      BY <2>3, <2>5, <2>6, Entries
    <3>2. \A x : x \in ToSet(L) \ {e} => x \in ToSet(M)
      BY <2>1, <2>3, <2>4, Entries
    <3> QED
      BY <3>1, <3>2
  <2>9. e \in ToSet(L)
    BY <1>2, Entries
  <2> QED
    BY <2>2, <2>3, <2>7, <2>8, <2>9
<1> QED
  BY <1>1, <1>2

(* Removing the i-th entry is removing that entry.                         *)
LEMMA RemoveAtEntries ==
  ASSUME NEW S, NEW L \in Seq(S), NEW i \in 1..Len(L), NoDuplicates(L)
  PROVE  RemoveAt(L, i) = RemoveFirst(L, L[i])
<1> DEFINE k == SelectInSeq(L, LAMBDA v : v = L[i])
<1>1. k \in 1..Len(L) /\ L[k] = L[i]
  BY IndexOf
<1>2. RemoveFirst(L, L[i]) = RemoveAt(L, k)
  BY DEF RemoveFirst
<1> HIDE DEF k
<1> QED
  BY <1>1, <1>2 DEF NoDuplicates

-----------------------------------------------------------------------------
(* A new entry at the back of a queue.                                     *)
LEMMA AppendEntries ==
  ASSUME NEW S, NEW L \in Seq(S), NEW e \in S, NoDuplicates(L), e \notin ToSet(L)
  PROVE  /\ Append(L, e) \in Seq(S)
         /\ NoDuplicates(Append(L, e))
         /\ ToSet(Append(L, e)) = ToSet(L) \union {e}
<1> DEFINE M == Append(L, e)
<1>1. /\ M \in Seq(S) /\ Len(M) = Len(L) + 1 /\ Len(L) \in Nat /\ M[Len(L) + 1] = e
      /\ \A j \in 1..Len(L) : M[j] = L[j]
  OBVIOUS
<1> HIDE DEF M
<1>2. \A j \in 1..Len(L) : L[j] # e
  BY Entries
<1>3. NoDuplicates(M)
  BY <1>1, <1>2 DEF NoDuplicates
<1>4. \A x : x \in ToSet(M) <=> x \in ToSet(L) \/ x = e
  BY <1>1, Entries
<1> QED
  BY <1>1, <1>3, <1>4 DEF M

(* A new entry at the front of a queue.                                    *)
LEMMA ConsEntries ==
  ASSUME NEW S, NEW L \in Seq(S), NEW e \in S, NoDuplicates(L), e \notin ToSet(L)
  PROVE  /\ Cons(e, L) \in Seq(S)
         /\ NoDuplicates(Cons(e, L))
         /\ ToSet(Cons(e, L)) = ToSet(L) \union {e}
<1> DEFINE M == Cons(e, L)
<1>1. /\ M \in Seq(S) /\ Len(M) = Len(L) + 1 /\ Len(L) \in Nat /\ M[1] = e
      /\ \A j \in 1..Len(L) : M[j + 1] = L[j]
      /\ \A j \in 1..Len(L) + 1 : j # 1 => M[j] = L[j - 1]
  BY DEF Cons
<1> HIDE DEF M
<1>2. \A j \in 1..Len(L) : L[j] # e
  BY Entries
<1>3. NoDuplicates(M)
  <2> SUFFICES ASSUME NEW j \in 1..Len(M), NEW k \in 1..Len(M), M[j] = M[k]
               PROVE  j = k
    BY DEF NoDuplicates
  <2>1. CASE j = 1 \/ k = 1
    <3>1. \A i \in 1..Len(M) : i # 1 => i - 1 \in 1..Len(L) /\ M[i] = L[i - 1]
      BY <1>1
    <3>2. \A i \in 1..Len(M) : i # 1 => M[i] # e
      BY <1>2, <3>1
    <3> QED
      BY <1>1, <2>1, <3>2
  <2>2. CASE j # 1 /\ k # 1
    <3>1. j - 1 \in 1..Len(L) /\ k - 1 \in 1..Len(L) /\ L[j - 1] = L[k - 1]
      BY <1>1, <2>2
    <3>2. j - 1 = k - 1
      BY <3>1 DEF NoDuplicates
    <3> QED
      BY <3>2
  <2> QED
    BY <2>1, <2>2
<1>4. \A x : x \in ToSet(M) <=> x \in ToSet(L) \/ x = e
  <2>1. ASSUME NEW x PROVE (\E j \in 1..Len(M) : M[j] = x) <=> x = e \/ \E j \in 1..Len(L) : L[j] = x
    <3>1. ASSUME NEW j \in 1..Len(M), M[j] = x PROVE x = e \/ \E k \in 1..Len(L) : L[k] = x
      <4>1. j # 1 => j - 1 \in 1..Len(L) /\ L[j - 1] = x
        BY <1>1, <3>1
      <4> QED
        BY <1>1, <3>1, <4>1
    <3>2. ASSUME NEW j \in 1..Len(L), L[j] = x PROVE \E k \in 1..Len(M) : M[k] = x
      <4>1. j + 1 \in 1..Len(M) /\ M[j + 1] = x
        BY <1>1, <3>2
      <4> QED
        BY <4>1
    <3>3. 1 \in 1..Len(M)
      BY <1>1
    <3> QED
      BY <1>1, <3>1, <3>2, <3>3
  <2> QED
    BY <1>1, <2>1, Entries
<1> QED
  BY <1>1, <1>3, <1>4 DEF M

(* The first entry leaves a queue.                                         *)
LEMMA TailEntries ==
  ASSUME NEW S, NEW L \in Seq(S), L # <<>>
  PROVE  /\ Head(L) \in ToSet(L) /\ Head(L) \in S /\ Tail(L) \in Seq(S)
         /\ NoDuplicates(L) => /\ NoDuplicates(Tail(L))
                               /\ ToSet(Tail(L)) = ToSet(L) \ {Head(L)}
<1> DEFINE M == Tail(L)
           h == Head(L)
<1>0. Len(L) \in Nat \ {0}
  BY EmptySeq
<1>1. /\ M \in Seq(S) /\ Len(M) = Len(L) - 1 /\ L[1] = h /\ h \in S
      /\ \A j \in 1..Len(L) - 1 : M[j] = L[j + 1]
      /\ 1 \in 1..Len(L)
  BY <1>0
<1> HIDE DEF M, h
<1>2. h \in ToSet(L)
  BY <1>1, Entries
<1>3. ASSUME NoDuplicates(L) PROVE NoDuplicates(M)
  <2> SUFFICES ASSUME NEW j \in 1..Len(M), NEW k \in 1..Len(M), M[j] = M[k]
               PROVE  j = k
    BY DEF NoDuplicates
  <2>1. j + 1 \in 1..Len(L) /\ k + 1 \in 1..Len(L) /\ L[j + 1] = L[k + 1]
    BY <1>0, <1>1
  <2>2. j + 1 = k + 1
    BY <1>3, <2>1 DEF NoDuplicates
  <2> QED
    BY <2>2
<1>4. ASSUME NoDuplicates(L), NEW x PROVE x \in ToSet(M) <=> x \in ToSet(L) /\ x # h
  <2>1. ASSUME NEW j \in 1..Len(M), M[j] = x PROVE x # h /\ \E k \in 1..Len(L) : L[k] = x
    <3>1. j + 1 \in 1..Len(L) /\ L[j + 1] = x /\ j + 1 # 1
      BY <1>0, <1>1, <2>1
    <3> QED
      BY <1>1, <1>4, <3>1 DEF NoDuplicates
  <2>2. ASSUME NEW j \in 1..Len(L), L[j] = x, x # h PROVE \E k \in 1..Len(M) : M[k] = x
    <3>1. j - 1 \in 1..Len(M) /\ M[j - 1] = x
      BY <1>0, <1>1, <2>2
    <3> QED
      BY <3>1
  <2> QED
    BY <1>1, <2>1, <2>2, Entries
<1> QED
  BY <1>1, <1>2, <1>3, <1>4 DEF M, h

-----------------------------------------------------------------------------
(* The order of a queue: what an entry at the back, one at the front and   *)
(* the loss of the first leave of it.                                      *)
LEMMA AppendOrder ==
  ASSUME NEW S, NEW L \in Seq(S), NEW e \in S, e \notin ToSet(L), NEW a, NEW b \in ToSet(L),
         Before(Append(L, e), a, b)
  PROVE  Before(L, a, b)
<1> DEFINE M == Append(L, e)
<1>1. /\ Len(M) = Len(L) + 1 /\ Len(L) \in Nat /\ M[Len(L) + 1] = e
      /\ \A j \in 1..Len(L) : M[j] = L[j]
  OBVIOUS
<1> HIDE DEF M
<1>2. PICK i, j \in 1..Len(M) : i < j /\ M[i] = a /\ M[j] = b
  BY DEF Before, M
<1>3. j # Len(L) + 1
  BY <1>1, <1>2
<1>4. j \in 1..Len(L) /\ i \in 1..Len(L)
  BY <1>1, <1>2, <1>3
<1> QED
  BY <1>1, <1>2, <1>4 DEF Before

(* A new first entry comes before others, and changes nothing else.        *)
LEMMA ConsOrder ==
  ASSUME NEW S, NEW L \in Seq(S), NEW e \in S, NEW a, a # e, NEW b,
         Before(Cons(e, L), a, b)
  PROVE  Before(L, a, b)
<1> DEFINE M == Cons(e, L)
<1>1. /\ Len(M) = Len(L) + 1 /\ Len(L) \in Nat /\ M[1] = e
      /\ \A j \in 1..Len(L) + 1 : j # 1 => M[j] = L[j - 1]
  BY DEF Cons
<1> HIDE DEF M
<1>2. PICK i, j \in 1..Len(M) : i < j /\ M[i] = a /\ M[j] = b
  BY DEF Before, M
<1>3. i # 1
  BY <1>1, <1>2
<1>4. /\ i - 1 \in 1..Len(L) /\ j - 1 \in 1..Len(L) /\ i - 1 < j - 1
      /\ L[i - 1] = a /\ L[j - 1] = b
  BY <1>1, <1>2, <1>3
<1> QED
  BY <1>4 DEF Before

(* What is left of a queue is in its old order.                            *)
LEMMA TailOrder ==
  ASSUME NEW S, NEW L \in Seq(S), L # <<>>, NEW a, NEW b, Before(Tail(L), a, b)
  PROVE  Before(L, a, b)
<1> DEFINE M == Tail(L)
<1>1. Len(L) \in Nat \ {0}
  BY EmptySeq
<1>2. Len(M) = Len(L) - 1 /\ \A j \in 1..Len(L) - 1 : M[j] = L[j + 1]
  BY <1>1
<1> HIDE DEF M
<1>3. PICK i, j \in 1..Len(M) : i < j /\ M[i] = a /\ M[j] = b
  BY DEF Before, M
<1>4. /\ i + 1 \in 1..Len(L) /\ j + 1 \in 1..Len(L) /\ i + 1 < j + 1
      /\ L[i + 1] = a /\ L[j + 1] = b
  BY <1>1, <1>2, <1>3
<1> QED
  BY <1>4 DEF Before

(* A first entry that is put back leaves the queue as it was.              *)
LEMMA PutBack ==
  ASSUME NEW S, NEW L \in Seq(S), L # <<>>
  PROVE  Cons(Head(L), Tail(L)) = L
  BY EmptySeq DEF Cons
=============================================================================
