--------------------------- MODULE Elevator_proofs ---------------------------
(***************************************************************************)
(* Proofs about one request queue, for any number of requests and bios,    *)
(* wherever the bios lie on the disk, and for any limits.                  *)
(***************************************************************************)
EXTENDS Elevator, ListLemmas, FiniteSetTheorems

Flags == {"PC", "ELVPRIV", "SORTED", "STARTED", "SOFTBARRIER", "NOMERGE"}

(* The types the steps rest on; the two counters are dealt with below.     *)
ListTypes ==
  /\ higher \in Seq(Requests) /\ lower \in Seq(Requests)
  /\ queue_head \in Seq(Requests) /\ plug \in Seq(Requests)
  /\ free \subseteq Requests /\ owned \subseteq Requests /\ driver \subseteq Requests
  /\ NoDuplicates(higher) /\ NoDuplicates(lower)
  /\ NoDuplicates(queue_head) /\ NoDuplicates(plug)

DataTypes ==
  /\ prev_pos \in Nat
  /\ sector \in [Requests -> Nat] /\ nr \in [Requests -> Nat]
  /\ bios \in [Requests -> Seq(Bios)] /\ flags \in [Requests -> SUBSET Flags]
  /\ hkey \in [Requests -> Nat \union {NULL}]

ControlTypes ==
  /\ last_merge \in Requests \union {NULL} /\ boundary_rq \in Requests \union {NULL}
  /\ bstate \in [Bios -> {"fresh", "locking", "waiting", "queued", "done"}]
  /\ pc \in [op : {"idle", "back", "flush", "merge", "insert"},
             rq : Requests \union {NULL}, flag : BOOLEAN]
  /\ run \in BOOLEAN /\ delayed \in BOOLEAN /\ npc \in 0..MaxPC

(* The bios bs lie on sectors s to s + n, in order and without a gap.      *)
End(b) == BioPos[b] + BioLen[b]
Tiles(bs, s, n) ==
  /\ bs # <<>> => BioPos[bs[1]] = s /\ End(bs[Len(bs)]) = s + n
  /\ \A i \in 1..Len(bs) - 1 : End(bs[i]) = BioPos[bs[i + 1]]
  /\ \A i, j \in 1..Len(bs) : i < j => End(bs[i]) <= BioPos[bs[j]]

(* What holds of each request by itself: SORTED while the scheduler holds  *)
(* it, STARTED while the driver does, bios until then, its hash key.       *)
RequestOK(rq) ==
  /\ rq \in Held => "SORTED" \in flags[rq]
  /\ rq \in owned \union ToSet(plug) \union InHand => "SORTED" \notin flags[rq]
  /\ rq \in driver => "STARTED" \in flags[rq]
  /\ rq \in Held \union owned \union ToSet(plug) => bios[rq] # <<>>
  /\ rq \in free => bios[rq] = <<>>
  /\ hkey[rq] # NULL => rq \in Held /\ hkey[rq] = rq_end_sector(rq)
  /\ rq \in Held /\ rq_mergeable(rq) => hkey[rq] # NULL
  /\ Tiles(bios[rq], sector[rq], nr[rq])

(* Every request is in one place.                                          *)
Apart(H) == /\ \A i \in 1..8 : H[i] \subseteq Requests
            /\ \A rq \in Requests : \E i \in 1..8 : rq \in H[i]
            /\ \A i, j \in 1..8 : i # j => H[i] \intersect H[j] = {}

(* The request a loop under the lock works on.                             *)
LoopOK ==
  /\ pc.op \in {"back", "merge", "insert"} => pc.rq \in Requests
  /\ pc.op \in {"merge", "insert"} => bios[pc.rq] # <<>>
  /\ pc.op = "merge" /\ pc.flag => pc.rq \in Held

(* Every bio in a request is in that one alone.                            *)
ChainsOK ==
  /\ \A rq, other \in Requests : rq # other => ToSet(bios[rq]) \intersect ToSet(bios[other]) = {}
  /\ \A b \in Bios : bstate[b] = "queued" <=> \E rq \in Requests : b \in ToSet(bios[rq])

DriverOK == IsFiniteSet(driver) /\ InFlightExact

ElevatorInv ==
  /\ ListTypes /\ DataTypes /\ ControlTypes
  /\ Apart(Homes) /\ LoopOK
  /\ \A rq \in Requests : RequestOK(rq)
  /\ SortedCount /\ CachedPointersLive /\ DriverOK /\ ChainsOK

-----------------------------------------------------------------------------
(* The entry a walk of add_to_higher or add_to_lower stops at, or the list *)
(* head (index 0).                                                         *)
LEMMA SlotRange ==
  ASSUME NEW S, NEW L \in Seq(S), NEW rq, NEW pos
  PROVE  HigherSlot(L, rq, pos) \in 0..Len(L) /\ LowerSlot(L, rq, pos) \in 0..Len(L)
<1> DEFINE H == {i \in 1..Len(L) : pos[L[i]] > pos[rq]}
           W == {i \in 1..Len(L) : pos[L[i]] < pos[rq]}
<1>1. Len(L) \in Nat /\ H \subseteq 1..Len(L) /\ W \subseteq 1..Len(L)
  OBVIOUS
<1>2. /\ HigherSlot(L, rq, pos) = IF H # {} THEN Min(H) ELSE 0
      /\ LowerSlot(L, rq, pos) = IF W # {} THEN Min(W) ELSE 0
  BY DEF HigherSlot, LowerSlot, SelectInSeq
<1> HIDE DEF H, W
<1> QED
  BY <1>1, <1>2, FirstIndex

(* The scheduler links a request into one of its lists.                    *)
LEMMA AddEntries ==
  ASSUME NEW S, NEW L \in Seq(S), NEW rq \in S, NEW pos, NoDuplicates(L), rq \notin ToSet(L),
         NEW M, M = add_to_higher(L, rq, pos) \/ M = add_to_lower(L, rq, pos)
  PROVE  /\ M \in Seq(S) /\ Len(M) = Len(L) + 1
         /\ NoDuplicates(M) /\ ToSet(M) = ToSet(L) \union {rq}
<1>1. PICK i \in 0..Len(L) : M = InsertAt(L, i + 1, rq)
  BY SlotRange DEF add_to_higher, add_to_lower
<1>2. i + 1 \in 1..Len(L) + 1
  BY <1>1
<1> QED
  BY <1>1, <1>2, InsertAtEntries

(* The neighbours of a queued request are other queued requests.           *)
LEMMA Neighbours ==
  ASSUME ListTypes, NEW rq \in Held, NEW n,
         \/ n = greedy_latter_request(higher, lower, rq)
         \/ n = greedy_former_request(higher, lower, rq)
  PROVE  n = NULL \/ (n \in Held /\ n # rq)
<1> DEFINE L == ListOf(higher, lower, rq)
           k == SelectInSeq(L, LAMBDA x : x = rq)
<1>1. /\ L \in Seq(Requests) /\ NoDuplicates(L) /\ ToSet(L) \subseteq Held
      /\ \E i \in 1..Len(L) : L[i] = rq
  BY Entries DEF ListOf, ListTypes, Held
<1>2. k \in 1..Len(L) /\ L[k] = rq
  BY <1>1, IndexOf
<1>3. \/ n = (IF k = Len(L) THEN NULL ELSE L[k + 1])
      \/ n = (IF k <= 1 THEN NULL ELSE L[k - 1])
  BY DEF greedy_latter_request, greedy_former_request
<1> HIDE DEF L, k
<1>4. n = NULL \/ \E i \in 1..Len(L) : i # k /\ n = L[i]
  <2>0. Len(L) \in Nat /\ k \in Int
    BY <1>1, <1>2
  <2>1. CASE n = (IF k = Len(L) THEN NULL ELSE L[k + 1])
    <3>1. k # Len(L) => k + 1 \in 1..Len(L) /\ k + 1 # k
      BY <1>2, <2>0
    <3> QED
      BY <2>1, <3>1
  <2>2. CASE n = (IF k <= 1 THEN NULL ELSE L[k - 1])
    <3>1. ~ (k <= 1) => k - 1 \in 1..Len(L) /\ k - 1 # k
      BY <1>2, <2>0
    <3> QED
      BY <2>2, <3>1
  <2> QED
    BY <1>3, <2>1, <2>2
<1> QED
  BY <1>1, <1>2, <1>4, Entries DEF NoDuplicates

-----------------------------------------------------------------------------
(* Bios and where they end.                                                *)
LEMMA BioFacts ==
  ASSUME NEW b \in Bios
  PROVE  /\ BioPos[b] \in Nat /\ BioLen[b] \in Nat /\ BioLen[b] > 0
         /\ End(b) \in Nat /\ End(b) = BioPos[b] + BioLen[b]
  BY ElevatorAssumption DEF End

(* All bios of a chain end within it, and it is at least as long as its    *)
(* first one.                                                              *)
LEMMA TilesWithin ==
  ASSUME NEW bs \in Seq(Bios), NEW s \in Nat, NEW n \in Nat, Tiles(bs, s, n)
  PROVE  /\ \A i \in 1..Len(bs) : s <= BioPos[bs[i]] /\ End(bs[i]) <= s + n
         /\ bs # <<>> => n >= BioLen[bs[1]] /\ n > 0
         /\ NoDuplicates(bs)
<1> DEFINE m == Len(bs)
<1>1. m \in Nat /\ \A i \in 1..m : bs[i] \in Bios
  OBVIOUS
<1>2. \A i \in 1..m : BioPos[bs[i]] < End(bs[i]) /\ BioPos[bs[i]] \in Nat /\ End(bs[i]) \in Nat
  BY <1>1, BioFacts
<1>3. bs # <<>> => 1 \in 1..m /\ m \in 1..m
  BY <1>1, EmptySeq
<1>4. ASSUME NEW i \in 1..m PROVE s <= BioPos[bs[i]] /\ End(bs[i]) <= s + n
  <2>1. bs # <<>> /\ 1 \in 1..m /\ m \in 1..m
    BY <1>1
  <2>2. i = 1 \/ 1 < i
    BY <1>1
  <2>3. i = m \/ i < m
    BY <1>1
  <2>4. BioPos[bs[1]] = s /\ End(bs[m]) = s + n
    BY <2>1 DEF Tiles
  <2>5. 1 < i => End(bs[1]) <= BioPos[bs[i]]
    BY <2>1 DEF Tiles
  <2>6. i < m => End(bs[i]) <= BioPos[bs[m]]
    BY <2>1 DEF Tiles
  <2>7. /\ BioPos[bs[i]] \in Nat /\ End(bs[i]) \in Nat
        /\ BioPos[bs[1]] < End(bs[1]) /\ End(bs[1]) \in Nat
        /\ BioPos[bs[m]] < End(bs[m]) /\ BioPos[bs[m]] \in Nat
    BY <1>2, <2>1
  <2> HIDE DEF m
  <2>8. s <= BioPos[bs[i]]
    BY <2>2, <2>4, <2>5, <2>7
  <2>9. End(bs[i]) <= s + n
    BY <2>3, <2>4, <2>6, <2>7
  <2> QED
    BY <2>8, <2>9
<1>5. ASSUME bs # <<>> PROVE n >= BioLen[bs[1]] /\ n > 0
  <2>1. bs[1] \in Bios /\ BioPos[bs[1]] = s /\ End(bs[1]) <= s + n
    BY <1>1, <1>3, <1>4, <1>5 DEF Tiles
  <2> QED
    BY <2>1, BioFacts
<1>6. NoDuplicates(bs)
  <2> SUFFICES ASSUME NEW i \in 1..m, NEW j \in 1..m, bs[i] = bs[j], i < j PROVE FALSE
    BY <1>1 DEF NoDuplicates
  <2> QED
    BY <1>2 DEF Tiles
<1> QED
  BY <1>4, <1>5, <1>6

(* One bio tiles its own sectors.                                          *)
LEMMA TilesOne == ASSUME NEW b \in Bios PROVE Tiles(<<b>>, BioPos[b], BioLen[b])
  BY BioFacts DEF Tiles, End

(* A concatenation, entry by entry.                                        *)
LEMMA JoinShape ==
  ASSUME NEW S, NEW es \in Seq(S), NEW bs \in Seq(S)
  PROVE  /\ es \o bs \in Seq(S) /\ Len(es \o bs) = Len(es) + Len(bs)
         /\ \A i \in 1..Len(es) : (es \o bs)[i] = es[i]
         /\ \A i \in 1..Len(es) + Len(bs) : Len(es) < i => (es \o bs)[i] = bs[i - Len(es)]
         /\ \A i \in 1..Len(bs) : (es \o bs)[i + Len(es)] = bs[i]
<1>1. /\ Len(es) \in Nat /\ Len(bs) \in Nat
      /\ es \o bs \in Seq(S) /\ Len(es \o bs) = Len(es) + Len(bs)
  OBVIOUS
<1>2. \A i \in 1..Len(es) : (es \o bs)[i] = es[i]
  OBVIOUS
<1>3. \A i \in 1..Len(es) + Len(bs) : Len(es) < i => (es \o bs)[i] = bs[i - Len(es)]
  OBVIOUS
<1>4. ASSUME NEW i \in 1..Len(bs) PROVE (es \o bs)[i + Len(es)] = bs[i]
  <2>1. /\ i + Len(es) \in 1..Len(es) + Len(bs) /\ Len(es) < i + Len(es)
        /\ (i + Len(es)) - Len(es) = i
    BY <1>1
  <2> QED
    BY <1>3, <2>1
<1> QED
  BY <1>1, <1>2, <1>3, <1>4

(* Two chains that touch tile together (attempt_merge and both bio         *)
(* merges).                                                                *)
LEMMA TilesJoin ==
  ASSUME NEW es \in Seq(Bios), NEW bs \in Seq(Bios), es # <<>>, bs # <<>>,
         NEW s \in Nat, NEW n \in Nat, NEW m \in Nat,
         Tiles(es, s, n), Tiles(bs, s + n, m)
  PROVE  Tiles(es \o bs, s, n + m)
<1> DEFINE cs == es \o bs
           k == Len(es)
           l == Len(bs)
<1>0. k \in Nat \ {0} /\ l \in Nat \ {0}
  BY EmptySeq
<1>1. /\ Len(cs) = k + l
      /\ \A i \in 1..k : cs[i] = es[i]
      /\ \A i \in 1..k + l : k < i => cs[i] = bs[i - k]
  BY JoinShape
<1> HIDE DEF cs
<1>2. /\ \A i \in 1..k : End(es[i]) <= s + n /\ End(es[i]) \in Nat
      /\ \A i \in 1..l : s + n <= BioPos[bs[i]] /\ BioPos[bs[i]] \in Nat
  <2>1. ASSUME NEW i \in 1..k PROVE End(es[i]) <= s + n /\ End(es[i]) \in Nat
    <3>1. es[i] \in Bios
      OBVIOUS
    <3> QED
      BY <3>1, BioFacts, TilesWithin
  <2>2. ASSUME NEW i \in 1..l PROVE s + n <= BioPos[bs[i]] /\ BioPos[bs[i]] \in Nat
    <3>1. bs[i] \in Bios /\ s + n \in Nat
      OBVIOUS
    <3> QED
      BY <3>1, BioFacts, TilesWithin
  <2> QED
    BY <2>1, <2>2
<1>3. es[1] = cs[1] /\ bs[l] = cs[k + l] /\ es[k] = cs[k] /\ bs[1] = cs[k + 1]
  <2>1. /\ 1 \in 1..k /\ k \in 1..k /\ k + l \in 1..k + l /\ k + 1 \in 1..k + l
        /\ k < k + l /\ k < k + 1 /\ (k + l) - k = l /\ (k + 1) - k = 1
    BY <1>0
  <2> QED
    BY <1>1, <2>1
<1>4. Len(cs) = k + l
  BY <1>1
<1> HIDE DEF k, l
<1>5. BioPos[cs[1]] = s /\ End(cs[Len(cs)]) = s + (n + m)
  <2>1. BioPos[es[1]] = s /\ End(bs[l]) = s + n + m
    BY DEF Tiles, l
  <2> QED
    BY <1>3, <1>4, <2>1
<1>6. ASSUME NEW i \in 1..Len(cs) - 1 PROVE End(cs[i]) = BioPos[cs[i + 1]]
  <2>1. CASE i < k
    <3>1. i \in 1..k - 1 /\ cs[i] = es[i] /\ cs[i + 1] = es[i + 1]
      BY <1>0, <1>1, <2>1
    <3> QED
      BY <3>1 DEF Tiles, k
  <2>2. CASE i = k
    <3>1. End(es[k]) = s + n /\ BioPos[bs[1]] = s + n
      BY DEF Tiles, k
    <3> QED
      BY <1>3, <2>2, <3>1
  <2>3. CASE k < i
    <3>1. i - k \in 1..l - 1 /\ cs[i] = bs[i - k] /\ cs[i + 1] = bs[(i - k) + 1]
      <4>1. i \in 1..k + l /\ i + 1 \in 1..k + l /\ k < i + 1 /\ (i + 1) - k = (i - k) + 1
        BY <1>0, <1>1, <1>4, <2>3
      <4> QED
        BY <1>0, <1>1, <1>4, <2>3, <4>1
    <3> QED
      BY <3>1 DEF Tiles, l
  <2> QED
    BY <1>0, <1>1, <1>4, <2>1, <2>2, <2>3
<1>7. ASSUME NEW i \in 1..Len(cs), NEW j \in 1..Len(cs), i < j PROVE End(cs[i]) <= BioPos[cs[j]]
  <2>1. CASE j <= k
    <3>1. i \in 1..k /\ j \in 1..k /\ cs[i] = es[i] /\ cs[j] = es[j]
      BY <1>0, <1>1, <1>4, <1>7, <2>1
    <3> QED
      BY <1>7, <3>1 DEF Tiles, k
  <2>2. CASE i <= k /\ k < j
    <3>1. i \in 1..k /\ j - k \in 1..l /\ cs[i] = es[i] /\ cs[j] = bs[j - k]
      BY <1>0, <1>1, <1>4, <2>2
    <3>2. End(es[i]) <= s + n /\ End(es[i]) \in Nat
      BY <1>2, <3>1
    <3>3. s + n <= BioPos[bs[j - k]] /\ BioPos[bs[j - k]] \in Nat
      BY <1>2, <3>1
    <3> QED
      BY <3>1, <3>2, <3>3
  <2>3. CASE k < i
    <3>0. i - k \in 1..l /\ j - k \in 1..l /\ i - k < j - k /\ k < j
      BY <1>0, <1>4, <1>7, <2>3
    <3>1. i - k \in 1..l /\ j - k \in 1..l /\ i - k < j - k /\ cs[i] = bs[i - k] /\ cs[j] = bs[j - k]
      BY <1>1, <1>4, <2>3, <3>0
    <3> QED
      BY <3>1 DEF Tiles, l
  <2> QED
    BY <1>0, <1>1, <1>4, <1>7, <2>1, <2>2, <2>3
<1> QED
  BY <1>5, <1>6, <1>7 DEF Tiles, cs

(* The first bio of a chain ends (blk_update_request).                     *)
LEMMA TilesTail ==
  ASSUME NEW bs \in Seq(Bios), bs # <<>>, NEW s \in Nat, NEW n \in Nat, Tiles(bs, s, n)
  PROVE  /\ n - BioLen[Head(bs)] \in Nat
         /\ Len(bs) = 1 <=> Tail(bs) = <<>>
         /\ Tail(bs) # <<>> => Tiles(Tail(bs), s + BioLen[Head(bs)], n - BioLen[Head(bs)])
         /\ Tail(bs) = <<>> => \A x : Tiles(Tail(bs), x, n - BioLen[Head(bs)])
<1> DEFINE h == Head(bs)
           ts == Tail(bs)
           m == Len(bs)
<1>1. /\ m \in Nat \ {0} /\ h = bs[1] /\ h \in Bios /\ ts \in Seq(Bios) /\ Len(ts) = m - 1
      /\ \A i \in 1..m - 1 : ts[i] = bs[i + 1]
  BY EmptySeq
<1>2. n >= BioLen[h] /\ BioLen[h] \in Nat /\ BioPos[h] \in Nat /\ End(h) = BioPos[h] + BioLen[h]
  BY <1>1, TilesWithin, BioFacts
<1>3. m = 1 <=> ts = <<>>
  BY <1>1, EmptySeq
<1>4. /\ BioPos[bs[1]] = s /\ End(bs[m]) = s + n
      /\ \A i \in 1..m - 1 : End(bs[i]) = BioPos[bs[i + 1]]
      /\ \A i, j \in 1..m : i < j => End(bs[i]) <= BioPos[bs[j]]
  BY DEF Tiles
<1> HIDE DEF h, ts, m
<1>5. ASSUME ts # <<>> PROVE Tiles(ts, s + BioLen[h], n - BioLen[h])
  <2>1. m >= 2
    BY <1>1, <1>3, <1>5
  <2>2. ts[1] = bs[2] /\ ts[m - 1] = bs[m]
    BY <1>1, <2>1
  <2>3. BioPos[bs[2]] = End(bs[1])
    <3>1. 1 \in 1..m - 1 /\ 1 + 1 = 2
      BY <1>1, <2>1
    <3> QED
      BY <1>4, <3>1
  <2>4. BioPos[ts[1]] = s + BioLen[h] /\ End(ts[Len(ts)]) = (s + BioLen[h]) + (n - BioLen[h])
    BY <1>1, <1>2, <1>4, <2>2, <2>3
  <2>5. ASSUME NEW i \in 1..Len(ts) - 1 PROVE End(ts[i]) = BioPos[ts[i + 1]]
    <3>1. i \in 1..m - 1 /\ i + 1 \in 1..m - 1 /\ i + 1 \in 1..m
      BY <1>1
    <3> QED
      BY <1>1, <1>4, <3>1
  <2>6. ASSUME NEW i \in 1..Len(ts), NEW j \in 1..Len(ts), i < j PROVE End(ts[i]) <= BioPos[ts[j]]
    <3>1. i + 1 \in 1..m /\ j + 1 \in 1..m /\ i + 1 < j + 1 /\ ts[i] = bs[i + 1] /\ ts[j] = bs[j + 1]
      BY <1>1, <2>6
    <3> QED
      BY <1>4, <3>1
  <2> QED
    BY <2>4, <2>5, <2>6 DEF Tiles
<1>6. ASSUME ts = <<>>, NEW x PROVE Tiles(ts, x, n - BioLen[h])
  <2>1. Len(ts) = 0
    BY <1>6
  <2>2. \A i \in 1..Len(ts) : FALSE
    BY <2>1
  <2>3. \A i \in 1..Len(ts) - 1 : FALSE
    BY <2>1
  <2> QED
    BY <1>6, <2>2, <2>3 DEF Tiles
<1> QED
  <2>1. n - BioLen[h] \in Nat
    BY <1>2
  <2> QED
    BY <2>1, <1>3, <1>5, <1>6 DEF h, ts, m

(* No bios, nothing to tile.                                               *)
LEMMA TilesNone == ASSUME NEW s, NEW n PROVE Tiles(<<>>, s, n)
<1>1. Len(<<>>) = 0
  OBVIOUS
<1>2. \A i \in 1..Len(<<>>) : FALSE
  BY <1>1
<1>3. \A i \in 1..Len(<<>>) - 1 : FALSE
  BY <1>1
<1> QED
  BY <1>2, <1>3 DEF Tiles

(* The entries of a concatenation, and of the rest of a list.              *)
LEMMA JoinSet ==
  ASSUME NEW S, NEW es \in Seq(S), NEW bs \in Seq(S)
  PROVE  /\ ToSet(es \o bs) = ToSet(es) \union ToSet(bs)
         /\ es # <<>> => es \o bs # <<>>
<1> DEFINE cs == es \o bs
           k == Len(es)
           l == Len(bs)
<1>0. k \in Nat /\ l \in Nat /\ cs \in Seq(S)
  BY JoinShape
<1>1. /\ Len(cs) = k + l
      /\ \A i \in 1..k : cs[i] = es[i]
      /\ \A i \in 1..k + l : k < i => cs[i] = bs[i - k]
      /\ \A i \in 1..l : cs[i + k] = bs[i]
  BY JoinShape
<1>2. es # <<>> => k # 0
  BY EmptySeq
<1>3. \A x : x \in ToSet(cs) <=> \E i \in 1..k + l : cs[i] = x
  BY <1>0, <1>1, Entries
<1>4. \A x : x \in ToSet(es) <=> \E i \in 1..k : es[i] = x
  BY Entries
<1>5. \A x : x \in ToSet(bs) <=> \E i \in 1..l : bs[i] = x
  BY Entries
<1> HIDE DEF cs, k, l
<1>6. ASSUME NEW x, x \in ToSet(cs) PROVE x \in ToSet(es) \union ToSet(bs)
  <2>1. PICK i \in 1..k + l : cs[i] = x
    BY <1>3, <1>6
  <2>2. i <= k => i \in 1..k
    BY <1>0
  <2>3. k < i => i - k \in 1..l
    BY <1>0
  <2>4. i <= k \/ k < i
    BY <1>0
  <2> QED
    BY <1>1, <1>4, <1>5, <2>1, <2>2, <2>3, <2>4
<1>7. ASSUME NEW x, x \in ToSet(es) \union ToSet(bs) PROVE x \in ToSet(cs)
  <2>1. ASSUME NEW i \in 1..k, es[i] = x PROVE x \in ToSet(cs)
    <3>1. i \in 1..k + l /\ cs[i] = x
      BY <1>0, <1>1, <2>1
    <3> QED
      BY <1>3, <3>1
  <2>2. ASSUME NEW i \in 1..l, bs[i] = x PROVE x \in ToSet(cs)
    <3>1. i + k \in 1..k + l
      BY <1>0
    <3>2. cs[i + k] = x
      BY <1>1, <2>2, <3>1
    <3> QED
      BY <1>3, <3>1, <3>2
  <2> QED
    BY <1>4, <1>5, <1>7, <2>1, <2>2
<1>8. es # <<>> => cs # <<>>
  BY <1>0, <1>1, <1>2, EmptySeq
<1> QED
  BY <1>6, <1>7, <1>8 DEF cs

-----------------------------------------------------------------------------
(* A request that goes from one place to another stays in one place.       *)
LEMMA MoveApart ==
  ASSUME NEW H, NEW K, NEW i \in 1..8, NEW j \in 1..8, i # j, NEW rq \in Requests,
         Apart(H), rq \in H[i], K[i] = H[i] \ {rq}, K[j] = H[j] \union {rq},
         \A k \in (1..8) \ {i, j} : K[k] = H[k]
  PROVE  Apart(K)
<1>1. ASSUME NEW k \in 1..8 PROVE K[k] \subseteq Requests
  <2>1. H[i] \subseteq Requests /\ H[j] \subseteq Requests /\ H[k] \subseteq Requests
    BY DEF Apart
  <2> QED
    BY <2>1
<1>2. ASSUME NEW x \in Requests PROVE \E k \in 1..8 : x \in K[k]
  <2>1. PICK k \in 1..8 : x \in H[k]
    BY DEF Apart
  <2>2. x = rq => x \in K[j]
    OBVIOUS
  <2>3. x # rq => x \in K[k]
    BY <2>1
  <2> QED
    BY <2>2, <2>3
<1>3. ASSUME NEW k \in 1..8, NEW l \in 1..8, k # l PROVE K[k] \intersect K[l] = {}
  <2>1. ASSUME NEW x, x \in K[k], x \in K[l] PROVE FALSE
    <3>1. \A a \in 1..8, b \in 1..8 : a # b => ~ (x \in H[a] /\ x \in H[b])
      BY DEF Apart
    <3>2. CASE x = rq
      <4>1. \A a \in 1..8 : a # i => rq \notin H[a]
        BY <3>1, <3>2
      <4>2. \A a \in 1..8 : a # j => rq \notin K[a]
        BY <4>1
      <4> QED
        BY <1>3, <2>1, <3>2, <4>2
    <3>3. CASE x # rq
      <4>1. \A a \in 1..8 : x \in K[a] => x \in H[a]
        BY <3>3
      <4> QED
        BY <1>3, <2>1, <3>1, <4>1
    <3> QED
      BY <3>2, <3>3
  <2> QED
    BY <2>1
<1> QED
  BY <1>1, <1>2, <1>3 DEF Apart

(* The eight places by name.                                               *)
LEMMA HomeNames ==
  /\ Homes[1] = free /\ Homes[2] = owned /\ Homes[3] = driver /\ Homes[4] = InHand
  /\ Homes[5] = ToSet(higher) /\ Homes[6] = ToSet(lower)
  /\ Homes[7] = ToSet(queue_head) /\ Homes[8] = ToSet(plug)
  /\ Homes[1]' = free' /\ Homes[2]' = owned' /\ Homes[3]' = driver' /\ Homes[4]' = InHand'
  /\ Homes[5]' = ToSet(higher') /\ Homes[6]' = ToSet(lower')
  /\ Homes[7]' = ToSet(queue_head') /\ Homes[8]' = ToSet(plug')
  BY DEF Homes

(* Request rq goes from the i-th place to the j-th.                        *)
Shift(i, j, rq) ==
  /\ rq \in Homes[i] /\ Homes[i]' = Homes[i] \ {rq} /\ Homes[j]' = Homes[j] \union {rq}
  /\ \A k \in (1..8) \ {i, j} : Homes[k]' = Homes[k]

(* What the state says of a request x by its place stays the same.         *)
SamePlace(x) ==
  /\ x \in free' <=> x \in free
  /\ x \in owned' <=> x \in owned
  /\ x \in driver' <=> x \in driver
  /\ x \in InHand' <=> x \in InHand
  /\ x \in Held' <=> x \in Held
  /\ x \in ToSet(plug)' <=> x \in ToSet(plug)

(* A shift keeps the places apart and leaves the other requests where they *)
(* are.                                                                    *)
LEMMA ShiftKeeps ==
  ASSUME Apart(Homes), NEW i \in 1..8, NEW j \in 1..8, i # j, NEW rq \in Requests,
         Shift(i, j, rq)
  PROVE  Apart(Homes)' /\ \A x \in Requests : x # rq => SamePlace(x)
<1>1. Apart(Homes')
  <2> DEFINE H == Homes
             K == Homes'
  <2>1. /\ Apart(H) /\ rq \in H[i] /\ K[i] = H[i] \ {rq} /\ K[j] = H[j] \union {rq}
        /\ \A k \in (1..8) \ {i, j} : K[k] = H[k]
    BY DEF Shift
  <2> HIDE DEF H, K
  <2>2. Apart(K)
    BY <2>1, MoveApart
  <2> QED
    BY <2>2 DEF K
<1>2. ASSUME NEW x \in Requests, x # rq PROVE SamePlace(x)
  <2>1. \A k \in 1..8 : x \in Homes[k]' <=> x \in Homes[k]
    BY <1>2 DEF Shift
  <2>2. /\ x \in Homes[1]' <=> x \in Homes[1]
        /\ x \in Homes[2]' <=> x \in Homes[2]
        /\ x \in Homes[3]' <=> x \in Homes[3]
        /\ x \in Homes[4]' <=> x \in Homes[4]
        /\ x \in Homes[5]' <=> x \in Homes[5]
        /\ x \in Homes[6]' <=> x \in Homes[6]
        /\ x \in Homes[8]' <=> x \in Homes[8]
    BY <2>1
  <2>3. /\ x \in free' <=> x \in free
        /\ x \in owned' <=> x \in owned
        /\ x \in driver' <=> x \in driver
        /\ x \in InHand' <=> x \in InHand
        /\ x \in ToSet(higher)' <=> x \in ToSet(higher)
        /\ x \in ToSet(lower)' <=> x \in ToSet(lower)
        /\ x \in ToSet(plug)' <=> x \in ToSet(plug)
    BY <2>2, HomeNames
  <2>4. x \in Held' <=> x \in Held
    BY <2>3 DEF Held
  <2> QED
    BY <2>3, <2>4 DEF SamePlace
<1> QED
  BY <1>1, <1>2 DEF Apart

(* Who is in one place is in no other.                                     *)
LEMMA PlacesApart ==
  ASSUME Apart(Homes), NEW x
  PROVE  /\ x \in free => /\ x \notin owned /\ x \notin driver /\ x \notin InHand
                          /\ x \notin Held /\ x \notin ToSet(queue_head) /\ x \notin ToSet(plug)
         /\ x \in owned => /\ x \notin driver /\ x \notin InHand /\ x \notin Held
                           /\ x \notin ToSet(queue_head) /\ x \notin ToSet(plug)
         /\ x \in driver => /\ x \notin InHand /\ x \notin Held
                            /\ x \notin ToSet(queue_head) /\ x \notin ToSet(plug)
         /\ x \in InHand => x \notin Held /\ x \notin ToSet(queue_head) /\ x \notin ToSet(plug)
         /\ x \in Held => x \notin ToSet(queue_head) /\ x \notin ToSet(plug)
         /\ x \in ToSet(higher) => x \notin ToSet(lower)
         /\ x \in ToSet(queue_head) => x \notin ToSet(plug)
<1>1. \A i, j \in 1..8 : i # j /\ x \in Homes[i] => x \notin Homes[j]
  BY DEF Apart
<1>2. /\ x \in Homes[1] => \A j \in 2..8 : x \notin Homes[j]
      /\ x \in Homes[2] => \A j \in 3..8 : x \notin Homes[j]
      /\ x \in Homes[3] => \A j \in 4..8 : x \notin Homes[j]
      /\ x \in Homes[4] => \A j \in 5..8 : x \notin Homes[j]
      /\ x \in Homes[5] => \A j \in 6..8 : x \notin Homes[j]
      /\ x \in Homes[6] => \A j \in 7..8 : x \notin Homes[j]
      /\ x \in Homes[7] => x \notin Homes[8]
  BY <1>1
<1> QED
  BY <1>2, HomeNames DEF Held

(* The same in the next state.                                             *)
LEMMA PlacesApartNext ==
  ASSUME Apart(Homes)', NEW x
  PROVE  /\ x \in free' => /\ x \notin owned' /\ x \notin driver' /\ x \notin InHand'
                           /\ x \notin Held' /\ x \notin ToSet(queue_head)' /\ x \notin ToSet(plug)'
         /\ x \in owned' => /\ x \notin driver' /\ x \notin InHand' /\ x \notin Held'
                            /\ x \notin ToSet(queue_head)' /\ x \notin ToSet(plug)'
         /\ x \in driver' => /\ x \notin InHand' /\ x \notin Held'
                             /\ x \notin ToSet(queue_head)' /\ x \notin ToSet(plug)'
         /\ x \in InHand' => x \notin Held' /\ x \notin ToSet(queue_head)' /\ x \notin ToSet(plug)'
         /\ x \in Held' => x \notin ToSet(queue_head)' /\ x \notin ToSet(plug)'
         /\ x \in ToSet(higher)' => x \notin ToSet(lower)'
         /\ x \in ToSet(queue_head)' => x \notin ToSet(plug)'
<1>1. \A i, j \in 1..8 : i # j /\ x \in Homes[i]' => x \notin Homes[j]'
  BY DEF Apart
<1>2. /\ x \in Homes[1]' => \A j \in 2..8 : x \notin Homes[j]'
      /\ x \in Homes[2]' => \A j \in 3..8 : x \notin Homes[j]'
      /\ x \in Homes[3]' => \A j \in 4..8 : x \notin Homes[j]'
      /\ x \in Homes[4]' => \A j \in 5..8 : x \notin Homes[j]'
      /\ x \in Homes[5]' => \A j \in 6..8 : x \notin Homes[j]'
      /\ x \in Homes[6]' => \A j \in 7..8 : x \notin Homes[j]'
      /\ x \in Homes[7]' => x \notin Homes[8]'
  BY <1>1
<1> QED
  BY <1>2, HomeNames DEF Held

(* What is known of a request, but for its place: no more than that it is  *)
(* marked NOMERGE, or unhashed because it is not mergeable.                *)
SameData(x) ==
  /\ flags[x] \subseteq flags'[x] /\ flags'[x] \subseteq flags[x] \union {"NOMERGE"}
  /\ sector'[x] = sector[x] /\ nr'[x] = nr[x] /\ bios'[x] = bios[x]
  /\ hkey'[x] = hkey[x] \/ (hkey'[x] = NULL /\ ~ rq_mergeable(x))

(* The other requests stay as they should be.                              *)
LEMMA OthersOK ==
  ASSUME NEW x \in Requests, RequestOK(x), SameData(x), SamePlace(x)
  PROVE  RequestOK(x)'
<1>1. rq_mergeable(x)' => rq_mergeable(x)
  BY DEF SameData, rq_mergeable
<1>2. rq_end_sector(x)' = rq_end_sector(x)
  BY DEF SameData, rq_end_sector
<1>3. Tiles(bios[x], sector[x], nr[x])'
  <2>1. Tiles(bios'[x], sector'[x], nr'[x])
    BY DEF SameData, RequestOK
  <2> QED
    BY <2>1 DEF Tiles, End
<1>4. /\ "SORTED" \in flags'[x] <=> "SORTED" \in flags[x]
      /\ "STARTED" \in flags[x] => "STARTED" \in flags'[x]
  BY DEF SameData
<1>5. /\ hkey'[x] # NULL => hkey'[x] = hkey[x]
      /\ rq_mergeable(x)' => hkey'[x] = hkey[x]
  BY <1>1 DEF SameData
<1> QED
  BY <1>1, <1>2, <1>3, <1>4, <1>5 DEF RequestOK, SamePlace, SameData

-----------------------------------------------------------------------------
(* The chains when requests change hands of bios.                          *)
Own(x) == ToSet(bios[x])

(* rq takes over the bios of next (unless they are the same) and those of  *)
(* E, which are new.                                                       *)
LEMMA ChainsJoin ==
  ASSUME ChainsOK, NEW rq \in Requests, NEW next \in Requests,
         NEW E \in SUBSET Bios, \A b \in E : bstate[b] # "queued",
         Own(rq)' = Own(rq) \union Own(next) \union E,
         next # rq => Own(next)' = {},
         \A x \in Requests \ {rq, next} : Own(x)' = Own(x),
         \A b \in Bios : IF b \in E THEN bstate'[b] = "queued" ELSE bstate'[b] = bstate[b]
  PROVE  ChainsOK'
<1>1. /\ \A x, y \in Requests : x # y => Own(x) \intersect Own(y) = {}
      /\ \A b \in Bios : bstate[b] = "queued" <=> \E x \in Requests : b \in Own(x)
  BY DEF ChainsOK, Own
<1>2. \A x \in Requests : Own(x) \intersect E = {}
  BY <1>1
<1>3. ASSUME NEW x \in Requests, NEW y \in Requests, x # y PROVE Own(x)' \intersect Own(y)' = {}
  BY <1>1, <1>2, <1>3
<1>4. ASSUME NEW b \in Bios PROVE bstate'[b] = "queued" <=> \E x \in Requests : b \in Own(x)'
  <2>1. CASE b \in E
    BY <2>1
  <2>2. CASE b \notin E
    <3>1. ASSUME NEW x \in Requests, b \in Own(x) PROVE \E y \in Requests : b \in Own(y)'
      BY <3>1
    <3>2. ASSUME NEW x \in Requests, b \in Own(x)' PROVE \E y \in Requests : b \in Own(y)
      BY <2>2, <3>2
    <3> QED
      BY <1>1, <2>2, <3>1, <3>2
  <2> QED
    BY <2>1, <2>2
<1> QED
  BY <1>3, <1>4 DEF ChainsOK, Own

(* Some bios of rq end.                                                    *)
LEMMA ChainsEnd ==
  ASSUME ChainsOK, NEW rq \in Requests, NEW D, D \subseteq Own(rq),
         Own(rq)' = Own(rq) \ D, \A x \in Requests \ {rq} : Own(x)' = Own(x),
         \A b \in Bios : IF b \in D THEN bstate'[b] = "done" ELSE bstate'[b] = bstate[b]
  PROVE  ChainsOK'
<1>1. /\ \A x, y \in Requests : x # y => Own(x) \intersect Own(y) = {}
      /\ \A b \in Bios : bstate[b] = "queued" <=> \E x \in Requests : b \in Own(x)
  BY DEF ChainsOK, Own
<1>2. ASSUME NEW x \in Requests, NEW y \in Requests, x # y PROVE Own(x)' \intersect Own(y)' = {}
  BY <1>1, <1>2
<1>3. ASSUME NEW b \in Bios PROVE bstate'[b] = "queued" <=> \E x \in Requests : b \in Own(x)'
  <2>1. CASE b \in D
    <3>1. \A x \in Requests : b \notin Own(x)'
      BY <1>1, <2>1
    <3> QED
      BY <2>1, <3>1
  <2>2. CASE b \notin D
    BY <1>1, <2>2
  <2> QED
    BY <2>1, <2>2
<1> QED
  BY <1>2, <1>3 DEF ChainsOK, Own

(* Nothing happens to the chains.                                          *)
LEMMA ChainsKept ==
  ASSUME ChainsOK, \A x \in Requests : bios'[x] = bios[x],
         \A b \in Bios : bstate'[b] = "queued" <=> bstate[b] = "queued"
  PROVE  ChainsOK'
  BY DEF ChainsOK

(* The driver's requests stay, and what they are.                          *)
LEMMA DriverKept ==
  ASSUME DriverOK, driver' = driver, in_flight' = in_flight,
         \A x \in driver : "PC" \in flags'[x] <=> "PC" \in flags[x]
  PROVE  DriverOK'
<1>1. {x \in driver : IsFs(x)}' = {x \in driver : IsFs(x)}
  BY DEF IsFs
<1> QED
  BY <1>1 DEF DriverOK, InFlightExact

-----------------------------------------------------------------------------
(* The six places outside the scheduler.                                   *)
Outside == {1, 2, 3, 4, 7, 8}

(* greedy_add_request: rq goes from a place outside to one of the lists.   *)
LEMMA AddHeld ==
  ASSUME ListTypes, Apart(Homes), NEW rq \in Requests, NEW i \in Outside,
         rq \in Homes[i], Homes[i]' = Homes[i] \ {rq},
         \A k \in Outside \ {i} : Homes[k]' = Homes[k],
         \/ lower' = add_to_lower(lower, rq, sector) /\ higher' = higher
         \/ higher' = add_to_higher(higher, rq, sector) /\ lower' = lower
  PROVE  /\ higher' \in Seq(Requests) /\ lower' \in Seq(Requests)
         /\ NoDuplicates(higher') /\ NoDuplicates(lower')
         /\ Len(higher') + Len(lower') = Len(higher) + Len(lower) + 1
         /\ Held' = Held \union {rq}
         /\ Apart(Homes)' /\ \A x \in Requests : x # rq => SamePlace(x)
<1>1. rq \notin ToSet(higher) /\ rq \notin ToSet(lower)
  <2>1. i # 5 /\ i # 6 /\ i \in 1..8
    BY DEF Outside
  <2>2. Homes[i] \intersect Homes[5] = {} /\ Homes[i] \intersect Homes[6] = {}
    BY <2>1 DEF Apart
  <2> QED
    BY <2>2, HomeNames
<1>2. higher \in Seq(Requests) /\ lower \in Seq(Requests) /\ NoDuplicates(higher) /\ NoDuplicates(lower)
  BY DEF ListTypes
<1>3. CASE lower' = add_to_lower(lower, rq, sector) /\ higher' = higher
  <2>1. /\ lower' \in Seq(Requests) /\ Len(lower') = Len(lower) + 1
        /\ NoDuplicates(lower') /\ ToSet(lower') = ToSet(lower) \union {rq}
    BY <1>1, <1>2, <1>3, AddEntries
  <2>2. Homes[6]' = Homes[6] \union {rq} /\ Homes[5]' = Homes[5]
    BY <1>3, <2>1, HomeNames
  <2>3. Shift(i, 6, rq) /\ i \in 1..8 /\ i # 6
    <3>1. \A k \in (1..8) \ {i, 6} : k \in Outside \ {i} \/ k = 5
      BY DEF Outside
    <3>2. \A k \in (1..8) \ {i, 6} : Homes[k]' = Homes[k]
      BY <2>2, <3>1
    <3> QED
      BY <2>2, <3>2 DEF Shift, Outside
  <2>4. Apart(Homes)' /\ \A x \in Requests : x # rq => SamePlace(x)
    BY <2>3, ShiftKeeps
  <2>5. Len(higher') + Len(lower') = Len(higher) + Len(lower) + 1
    BY <1>2, <1>3, <2>1
  <2> QED
    BY <1>2, <1>3, <2>1, <2>4, <2>5 DEF Held
<1>4. CASE higher' = add_to_higher(higher, rq, sector) /\ lower' = lower
  <2>1. /\ higher' \in Seq(Requests) /\ Len(higher') = Len(higher) + 1
        /\ NoDuplicates(higher') /\ ToSet(higher') = ToSet(higher) \union {rq}
    BY <1>1, <1>2, <1>4, AddEntries
  <2>2. Homes[5]' = Homes[5] \union {rq} /\ Homes[6]' = Homes[6]
    BY <1>4, <2>1, HomeNames
  <2>3. Shift(i, 5, rq) /\ i \in 1..8 /\ i # 5
    <3>1. \A k \in (1..8) \ {i, 5} : k \in Outside \ {i} \/ k = 6
      BY DEF Outside
    <3>2. \A k \in (1..8) \ {i, 5} : Homes[k]' = Homes[k]
      BY <2>2, <3>1
    <3> QED
      BY <2>2, <3>2 DEF Shift, Outside
  <2>4. Apart(Homes)' /\ \A x \in Requests : x # rq => SamePlace(x)
    BY <2>3, ShiftKeeps
  <2>5. Len(higher') + Len(lower') = Len(higher) + Len(lower) + 1
    BY <1>2, <1>4, <2>1
  <2> QED
    BY <1>2, <1>4, <2>1, <2>4, <2>5 DEF Held
<1> QED
  BY <1>3, <1>4

(* list_del_init of a queued request, which goes to a place outside.       *)
LEMMA UnlinkHeld ==
  ASSUME ListTypes, Apart(Homes), NEW rq \in Held, NEW j \in Outside,
         Homes[j]' = Homes[j] \union {rq},
         \A k \in Outside \ {j} : Homes[k]' = Homes[k],
         higher' = Unlink(higher, rq), lower' = Unlink(lower, rq)
  PROVE  /\ higher' \in Seq(Requests) /\ lower' \in Seq(Requests)
         /\ NoDuplicates(higher') /\ NoDuplicates(lower')
         /\ Len(higher') + Len(lower') = Len(higher) + Len(lower) - 1
         /\ Held' = Held \ {rq}
         /\ Apart(Homes)' /\ \A x \in Requests : x # rq => SamePlace(x)
<1>1. higher \in Seq(Requests) /\ lower \in Seq(Requests) /\ NoDuplicates(higher) /\ NoDuplicates(lower)
  BY DEF ListTypes
<1>2. /\ higher' \in Seq(Requests) /\ NoDuplicates(higher') /\ ToSet(higher') = ToSet(higher) \ {rq}
      /\ Len(higher') = IF rq \in ToSet(higher) THEN Len(higher) - 1 ELSE Len(higher)
  BY <1>1, RemoveEntries DEF Unlink
<1>3. /\ lower' \in Seq(Requests) /\ NoDuplicates(lower') /\ ToSet(lower') = ToSet(lower) \ {rq}
      /\ Len(lower') = IF rq \in ToSet(lower) THEN Len(lower) - 1 ELSE Len(lower)
  BY <1>1, RemoveEntries DEF Unlink
<1>4. Len(higher) \in Nat /\ Len(lower) \in Nat
  BY <1>1
<1>5. PICK i \in {5, 6} : rq \in Homes[i]
  BY HomeNames DEF Held
<1>6. i \in 1..8 /\ j \in 1..8 /\ i # j /\ rq \in Requests
  BY <1>1, Entries DEF Outside, Held
<1>7. \A k \in 1..8 : k # i => rq \notin Homes[k]
  BY <1>5, <1>6 DEF Apart
<1>8. /\ rq \in ToSet(higher) => rq \notin ToSet(lower)
      /\ rq \in ToSet(higher) \/ rq \in ToSet(lower)
  BY PlacesApart DEF Held
<1>9. Shift(i, j, rq)
  <2>1. Homes[5]' = Homes[5] \ {rq} /\ Homes[6]' = Homes[6] \ {rq}
    BY <1>2, <1>3, HomeNames
  <2>2. \A k \in (1..8) \ {i, j} : k \in Outside \ {j} \/ (k \in {5, 6} /\ k # i)
    BY <1>5 DEF Outside
  <2>3. \A k \in {5, 6} : k # i => Homes[k]' = Homes[k]
    BY <1>7, <2>1
  <2>4. \A k \in (1..8) \ {i, j} : Homes[k]' = Homes[k]
    BY <2>2, <2>3
  <2>5. Homes[i]' = Homes[i] \ {rq}
    BY <1>5, <2>1
  <2> QED
    BY <1>5, <2>4, <2>5 DEF Shift
<1>10. Apart(Homes)' /\ \A x \in Requests : x # rq => SamePlace(x)
  BY <1>6, <1>9, ShiftKeeps
<1>11. Len(higher') + Len(lower') = Len(higher) + Len(lower) - 1
  <2>1. CASE rq \in ToSet(higher)
    <3>1. Len(higher') = Len(higher) - 1 /\ Len(lower') = Len(lower)
      BY <1>2, <1>3, <1>8, <2>1
    <3> QED
      BY <1>4, <3>1
  <2>2. CASE rq \notin ToSet(higher)
    <3>1. Len(higher') = Len(higher) /\ Len(lower') = Len(lower) - 1
      BY <1>2, <1>3, <1>8, <2>2
    <3> QED
      BY <1>4, <3>1
  <2> QED
    BY <2>1, <2>2
<1>12. Held' = Held \ {rq}
  BY <1>2, <1>3 DEF Held
<1> QED
  BY <1>2, <1>3, <1>10, <1>11, <1>12

-----------------------------------------------------------------------------
(* What changes hkey may have seen before a merge: requests that are not   *)
(* mergeable may have been unhashed.                                       *)
Trimmed(h) == /\ h \in [Requests -> Nat \union {NULL}]
              /\ \A x \in Requests : h[x] = hkey[x] \/ (h[x] = NULL /\ ~ rq_mergeable(x))

(* The parts of the invariant that a merge concerns.                       *)
MergedOK ==
  /\ higher' \in Seq(Requests) /\ lower' \in Seq(Requests)
  /\ NoDuplicates(higher') /\ NoDuplicates(lower') /\ free' \subseteq Requests
  /\ DataTypes' /\ Apart(Homes)' /\ SortedCount' /\ ChainsOK'
  /\ \A x \in Requests : RequestOK(x)'
  /\ last_merge' \in Held'

(* The bios of E, and no others, join a request in this step.              *)
Joining(E) ==
  /\ \A b \in E : bstate[b] # "queued"
  /\ \A b \in Bios : IF b \in E THEN bstate'[b] = "queued" ELSE bstate'[b] = bstate[b]

(* Where a request that is merged into another comes from: the scheduler,  *)
(* a loop under the lock, or the plug list.                                *)
MergedFrom(next) ==
  \/ next \in Held /\ \A k \in Outside \ {1} : Homes[k]' = Homes[k]
  \/ \E i \in {4, 8} : /\ next \in Homes[i] /\ Homes[i]' = Homes[i] \ {next}
                       /\ \A k \in Outside \ {1, i} : Homes[k]' = Homes[k]

(***************************************************************************)
(* attempt_merge with elv_merge_requests: next, which the scheduler holds  *)
(* or which the plug list or a loop has brought, becomes part of req and   *)
(* is freed.                                                               *)
(***************************************************************************)
LEMMA MergeRequests ==
  ASSUME ElevatorInv, NEW req \in Held, NEW next \in Requests, next # req,
         NEW h, Trimmed(h), NEW s \in Nat, NEW n \in Nat, NEW bs \in Seq(Bios),
         elv_merge_requests(h, req, next, s, n, bs), bs # <<>>, Tiles(bs, s, n),
         MergedFrom(next), NEW E \in SUBSET Bios, Joining(E),
         ToSet(bs) = Own(req) \union Own(next) \union E
  PROVE  MergedOK
<1>0. /\ ListTypes /\ DataTypes /\ Apart(Homes) /\ SortedCount /\ ChainsOK
      /\ \A x \in Requests : RequestOK(x)
  BY DEF ElevatorInv
<1>1. req \in Requests /\ Held \subseteq Requests
  BY <1>0, Entries DEF Held, ListTypes
<1>2. /\ sector' = [sector EXCEPT ![req] = s, ![next] = 0]
      /\ nr' = [nr EXCEPT ![req] = n, ![next] = 0]
      /\ bios' = [bios EXCEPT ![req] = bs, ![next] = <<>>]
      /\ flags' = [flags EXCEPT ![next] = {}]
      /\ free' = free \union {next} /\ last_merge' = req /\ prev_pos' = prev_pos
  BY DEF elv_merge_requests
<1>3. /\ sector'[req] = s /\ nr'[req] = n /\ bios'[req] = bs /\ flags'[req] = flags[req]
      /\ sector'[next] = 0 /\ nr'[next] = 0 /\ bios'[next] = <<>> /\ flags'[next] = {}
      /\ \A x \in Requests \ {req, next} :
           /\ sector'[x] = sector[x] /\ nr'[x] = nr[x] /\ bios'[x] = bios[x]
           /\ flags'[x] = flags[x]
  BY <1>0, <1>1, <1>2 DEF DataTypes
<1>4. Homes[1]' = Homes[1] \union {next} /\ 1 \in Outside
  BY <1>2, HomeNames DEF Outside
<1> DEFINE Unlinked == /\ higher' \in Seq(Requests) /\ lower' \in Seq(Requests)
                       /\ NoDuplicates(higher') /\ NoDuplicates(lower')
                       /\ Apart(Homes)' /\ SortedCount'
                       /\ \A x \in Requests : x # next => SamePlace(x)
           Rehashed == /\ hkey' \in [Requests -> Nat \union {NULL}]
                       /\ hkey'[req] = s + n /\ hkey'[next] = NULL
                       /\ \A x \in Requests \ {req, next} : hkey'[x] = h[x]
<1>5. ASSUME next \in Held, \A k \in Outside \ {1} : Homes[k]' = Homes[k]
      PROVE  Unlinked /\ Rehashed
  <2>1. NextSorted(next)
    BY <1>0, <1>5 DEF NextSorted, RequestOK
  <2>2. /\ higher' = Unlink(higher, next) /\ lower' = Unlink(lower, next)
        /\ hkey' = elv_rqhash_del(elv_rqhash_reposition(h, req, s + n), next)
        /\ nr_sorted' = nr_sorted - 1
    BY <2>1 DEF elv_merge_requests
  <2>3. /\ higher' \in Seq(Requests) /\ lower' \in Seq(Requests)
        /\ NoDuplicates(higher') /\ NoDuplicates(lower')
        /\ Len(higher') + Len(lower') = Len(higher) + Len(lower) - 1
        /\ Held' = Held \ {next}
        /\ Apart(Homes)' /\ \A x \in Requests : x # next => SamePlace(x)
    BY <1>0, <1>4, <1>5, <2>2, UnlinkHeld
  <2>4. hkey' = [h EXCEPT ![req] = s + n, ![next] = NULL]
    BY <2>2 DEF elv_rqhash_del, elv_rqhash_reposition
  <2>5. /\ hkey' \in [Requests -> Nat \union {NULL}] /\ hkey'[req] = s + n /\ hkey'[next] = NULL
        /\ \A x \in Requests \ {req, next} : hkey'[x] = h[x]
    BY <1>1, <2>4 DEF Trimmed
  <2>6. SortedCount'
    <3>1. Len(higher) \in Nat /\ Len(lower) \in Nat
      BY <1>0 DEF ListTypes
    <3> QED
      BY <1>0, <2>2, <2>3, <3>1 DEF SortedCount
  <2> QED
    BY <2>3, <2>5, <2>6
<1>6. ASSUME NEW i \in {4, 8}, next \in Homes[i], Homes[i]' = Homes[i] \ {next},
             \A k \in Outside \ {1, i} : Homes[k]' = Homes[k]
      PROVE  Unlinked /\ Rehashed
  <2>1. next \in InHand \/ next \in ToSet(plug)
    BY <1>6, HomeNames
  <2>2. next \notin Held /\ ~ NextSorted(next) /\ hkey[next] = NULL
    BY <1>0, <2>1, PlacesApart DEF NextSorted, RequestOK
  <2>3. /\ higher' = higher /\ lower' = lower /\ nr_sorted' = nr_sorted
        /\ hkey' = elv_rqhash_reposition(h, req, s + n)
    BY <2>2 DEF elv_merge_requests
  <2>4. Shift(i, 1, next) /\ i \in 1..8 /\ i # 1
    <3>1. \A k \in (1..8) \ {i, 1} : k \in Outside \ {1, i} \/ k \in {5, 6}
      BY DEF Outside
    <3>2. \A k \in {5, 6} : Homes[k]' = Homes[k]
      BY <2>3, HomeNames
    <3>3. \A k \in (1..8) \ {i, 1} : Homes[k]' = Homes[k]
      BY <1>6, <3>1, <3>2
    <3> QED
      BY <1>4, <1>6, <3>3 DEF Shift
  <2>5. Apart(Homes)' /\ \A x \in Requests : x # next => SamePlace(x)
    BY <1>0, <2>4, ShiftKeeps
  <2>6. hkey' = [h EXCEPT ![req] = s + n]
    BY <2>3 DEF elv_rqhash_reposition
  <2>7. h[next] = NULL
    BY <2>2 DEF Trimmed
  <2>8. Rehashed
    BY <1>1, <2>6, <2>7 DEF Trimmed
  <2>9. SortedCount'
    BY <1>0, <2>3 DEF SortedCount
  <2> QED
    BY <1>0, <2>3, <2>5, <2>8, <2>9 DEF ListTypes
<1>7. Unlinked /\ Rehashed
  BY <1>5, <1>6 DEF MergedFrom
<1> HIDE DEF Unlinked, Rehashed
<1>8. req \in Held' /\ req \notin free' /\ SamePlace(req)
  BY <1>1, <1>7, PlacesApartNext DEF SamePlace, Unlinked
<1>9. DataTypes'
  <2>1. /\ sector' \in [Requests -> Nat] /\ nr' \in [Requests -> Nat]
        /\ bios' \in [Requests -> Seq(Bios)]
    <3>1. /\ [sector EXCEPT ![req] = s] \in [Requests -> Nat]
          /\ [nr EXCEPT ![req] = n] \in [Requests -> Nat]
          /\ [bios EXCEPT ![req] = bs] \in [Requests -> Seq(Bios)] /\ <<>> \in Seq(Bios)
      BY <1>0, <1>1 DEF DataTypes
    <3> QED
      BY <1>2, <3>1
  <2>2. flags' \in [Requests -> SUBSET Flags] /\ prev_pos' \in Nat
    BY <1>0, <1>1, <1>2 DEF DataTypes
  <2> QED
    BY <1>7, <2>1, <2>2 DEF DataTypes, Rehashed
<1>10. RequestOK(req)'
  <2>1. /\ hkey'[req] = s + n /\ s + n # NULL /\ rq_end_sector(req)' = s + n
    BY <1>3, <1>7, ElevatorAssumption DEF Rehashed, rq_end_sector
  <2>2. Tiles(bios[req], sector[req], nr[req])'
    BY <1>3 DEF Tiles, End
  <2>3. /\ "SORTED" \in flags'[req] /\ bios'[req] # <<>>
    BY <1>0, <1>1, <1>3 DEF RequestOK
  <2> QED
    BY <1>7, <1>8, <2>1, <2>2, <2>3, PlacesApartNext DEF RequestOK, Unlinked
<1>11. RequestOK(next)'
  <2>1. /\ next \in free' /\ next \notin Held' /\ next \notin owned' /\ next \notin ToSet(plug)'
        /\ next \notin InHand' /\ next \notin driver'
    BY <1>2, <1>7, PlacesApartNext DEF Unlinked
  <2>2. hkey'[next] = NULL
    BY <1>7 DEF Rehashed
  <2>3. Tiles(bios[next], sector[next], nr[next])'
    <3>1. Tiles(<<>>, sector'[next], nr'[next])
      BY TilesNone
    <3> QED
      BY <1>3, <3>1 DEF Tiles, End
  <2> QED
    BY <1>3, <2>1, <2>2, <2>3 DEF RequestOK
<1>12. ASSUME NEW x \in Requests, x # req, x # next PROVE RequestOK(x)'
  <2>1. SameData(x)
    BY <1>3, <1>7, <1>12 DEF SameData, Rehashed, Trimmed
  <2>2. SamePlace(x)
    BY <1>7, <1>12 DEF Unlinked
  <2> QED
    BY <1>0, <2>1, <2>2, OthersOK
<1>13. ChainsOK'
  <2>1. /\ Own(req)' = Own(req) \union Own(next) \union E /\ Own(next)' = {}
        /\ \A x \in Requests \ {req, next} : Own(x)' = Own(x)
    <3>1. ToSet(<<>>) = {}
      BY DEF ToSet
    <3>2. Own(req)' = ToSet(bs) /\ Own(next)' = ToSet(<<>>)
      BY <1>3 DEF Own
    <3>3. \A x \in Requests \ {req, next} : Own(x)' = Own(x)
      BY <1>3 DEF Own
    <3> QED
      BY <3>1, <3>2, <3>3
  <2>2. /\ \A b \in E : bstate[b] # "queued"
        /\ \A b \in Bios : IF b \in E THEN bstate'[b] = "queued" ELSE bstate'[b] = bstate[b]
    BY DEF Joining
  <2> QED
    BY <1>0, <1>1, <2>1, <2>2, ChainsJoin
<1> QED
  BY <1>0, <1>2, <1>7, <1>8, <1>9, <1>10, <1>11, <1>12, <1>13 DEF MergedOK, Unlinked, ListTypes

(* No request changes its place.                                           *)
LEMMA AllStay ==
  ASSUME Apart(Homes), higher' = higher, lower' = lower, queue_head' = queue_head, plug' = plug,
         free' = free, owned' = owned, driver' = driver, InHand' = InHand
  PROVE  Apart(Homes)' /\ \A x \in Requests : SamePlace(x)
<1>1. Homes' = Homes
  BY DEF Homes
<1> QED
  BY <1>1 DEF Apart, SamePlace, Held

(***************************************************************************)
(* A bio joins a request that the scheduler or the plug list has; others   *)
(* may be marked NOMERGE or unhashed meanwhile.                            *)
(***************************************************************************)
LEMMA BioJoins ==
  ASSUME ElevatorInv, \A x \in Requests : SamePlace(x),
         NEW rq \in Requests, rq \in Held \union ToSet(plug),
         NEW b \in Bios, bstate[b] # "queued", bstate' = [bstate EXCEPT ![b] = "queued"],
         NEW s \in Nat, NEW n \in Nat, NEW bs \in Seq(Bios),
         bs # <<>>, Tiles(bs, s, n), ToSet(bs) = Own(rq) \union {b},
         sector' = [sector EXCEPT ![rq] = s], nr' = [nr EXCEPT ![rq] = n],
         bios' = [bios EXCEPT ![rq] = bs], prev_pos' = prev_pos,
         flags' \in [Requests -> SUBSET Flags],
         \A x \in Requests : /\ flags[x] \subseteq flags'[x]
                             /\ flags'[x] \subseteq flags[x] \union {"NOMERGE"},
         NEW h, Trimmed(h), hkey' \in [Requests -> Nat \union {NULL}],
         \A x \in Requests \ {rq} : hkey'[x] = h[x],
         IF rq \in Held THEN hkey'[rq] = s + n ELSE hkey'[rq] = NULL
  PROVE  DataTypes' /\ ChainsOK' /\ \A x \in Requests : RequestOK(x)'
<1>0. DataTypes /\ ChainsOK /\ ControlTypes /\ \A x \in Requests : RequestOK(x)
  BY DEF ElevatorInv
<1>1. /\ sector'[rq] = s /\ nr'[rq] = n /\ bios'[rq] = bs
      /\ \A x \in Requests \ {rq} : sector'[x] = sector[x] /\ nr'[x] = nr[x] /\ bios'[x] = bios[x]
  BY <1>0 DEF DataTypes
<1>2. DataTypes'
  <2>1. sector' \in [Requests -> Nat] /\ nr' \in [Requests -> Nat] /\ bios' \in [Requests -> Seq(Bios)]
    BY <1>0 DEF DataTypes
  <2> QED
    BY <1>0, <2>1 DEF DataTypes
<1>3. RequestOK(rq)'
  <2>1. rq_end_sector(rq)' = s + n /\ s + n # NULL
    BY <1>1, ElevatorAssumption DEF rq_end_sector
  <2>2. Tiles(bios[rq], sector[rq], nr[rq])'
    BY <1>1 DEF Tiles, End
  <2>3. SamePlace(rq) /\ RequestOK(rq) /\ bios'[rq] # <<>>
    BY <1>0, <1>1
  <2>4. rq \notin free /\ rq \notin owned /\ rq \notin driver /\ Apart(Homes)
    BY PlacesApart DEF ElevatorInv
  <2>5. "SORTED" \in flags'[rq] <=> "SORTED" \in flags[rq]
    OBVIOUS
  <2> QED
    BY <2>1, <2>2, <2>3, <2>4, <2>5 DEF RequestOK, SamePlace
<1>4. ASSUME NEW x \in Requests, x # rq PROVE RequestOK(x)'
  <2>1. SameData(x)
    BY <1>1, <1>4 DEF SameData, Trimmed
  <2> QED
    BY <1>0, <2>1, OthersOK
<1>5. ChainsOK'
  <2>1. /\ Own(rq)' = Own(rq) \union Own(rq) \union {b}
        /\ \A x \in Requests \ {rq, rq} : Own(x)' = Own(x)
    BY <1>1 DEF Own
  <2>2. \A c \in Bios : IF c \in {b} THEN bstate'[c] = "queued" ELSE bstate'[c] = bstate[c]
    BY <1>0 DEF ControlTypes
  <2>3. {b} \in SUBSET Bios /\ \A c \in {b} : bstate[c] # "queued"
    OBVIOUS
  <2> HIDE DEF Own
  <2> QED
    BY <1>0, <2>1, <2>2, <2>3, ChainsJoin
<1> QED
  BY <1>2, <1>3, <1>4, <1>5

-----------------------------------------------------------------------------
(* elv_rqhash_find returns a queued, mergeable request that ends at the    *)
(* offset, and unhashes none that is mergeable.                            *)
LEMMA HashFinds ==
  ASSUME ElevatorInv, NEW offset \in Nat, NEW hit, NEW unhashed,
         elv_rqhash_find(offset, hit, unhashed)
  PROVE  /\ Trimmed(Unhash(unhashed))
         /\ hit # NULL => hit \in Held /\ rq_mergeable(hit) /\ rq_end_sector(hit) = offset
<1>1. /\ \A x \in Requests : RequestOK(x)
      /\ hkey \in [Requests -> Nat \union {NULL}] /\ offset # NULL
  BY ElevatorAssumption DEF ElevatorInv, DataTypes
<1>2. \A x \in unhashed : x \in Requests /\ ~ rq_mergeable(x)
  BY DEF elv_rqhash_find
<1>3. Trimmed(Unhash(unhashed))
  BY <1>1, <1>2 DEF Trimmed, Unhash
<1>4. hit # NULL => hit \in Requests /\ hkey[hit] = offset /\ rq_mergeable(hit) /\ rq_end_sector(hit) = offset
  BY DEF elv_rqhash_find
<1> QED
  BY <1>1, <1>3, <1>4 DEF RequestOK

(* elv_merge: the request for a merge is queued and mergeable, and the bio *)
(* touches it on that side.                                                *)
LEMMA MergeFinds ==
  ASSUME ElevatorInv, NEW b \in Bios, NEW rq, NEW type, NEW unhashed,
         elv_merge(b, rq, type, unhashed)
  PROVE  /\ Trimmed(Unhash(unhashed))
         /\ type # "none" => rq \in Held /\ rq_mergeable(rq)
         /\ type = "back" => rq_end_sector(rq) = BioPos[b]
         /\ type = "front" => End(b) = sector[rq]
<1>1. /\ last_merge # NULL => last_merge \in Held
      /\ hkey \in [Requests -> Nat \union {NULL}] /\ BioPos[b] \in Nat
  BY BioFacts DEF ElevatorInv, CachedPointersLive, DataTypes
<1> DEFINE cached == IF last_merge = NULL THEN "none" ELSE blk_try_merge(last_merge, b)
<1>2. \/ cached # "none" /\ rq = last_merge /\ type = cached /\ unhashed = {}
      \/ /\ cached = "none" /\ elv_rqhash_find(BioPos[b], rq, unhashed)
         /\ type = IF rq = NULL THEN "none" ELSE "back"
  BY DEF elv_merge
<1>3. CASE cached # "none" /\ rq = last_merge /\ type = cached /\ unhashed = {}
  <2>1. Trimmed(Unhash(unhashed))
    BY <1>1, <1>3 DEF Trimmed, Unhash
  <2>2. rq # NULL /\ rq \in Held /\ type = blk_try_merge(rq, b)
    BY <1>1, <1>3
  <2> QED
    BY <1>3, <2>1, <2>2 DEF blk_try_merge, End
<1>4. CASE /\ cached = "none" /\ elv_rqhash_find(BioPos[b], rq, unhashed)
           /\ type = IF rq = NULL THEN "none" ELSE "back"
  BY <1>1, <1>4, HashFinds
<1> QED
  BY <1>2, <1>3, <1>4

-----------------------------------------------------------------------------
(* bio_attempt_back_merge and bio_attempt_front_merge keep the chain       *)
(* together.                                                               *)
LEMMA BackGrows ==
  ASSUME NEW bs \in Seq(Bios), bs # <<>>, NEW b \in Bios, NEW s \in Nat, NEW n \in Nat,
         Tiles(bs, s, n), s + n = BioPos[b]
  PROVE  LET cs == bio_attempt_back_merge(bs, b)
         IN  /\ cs \in Seq(Bios) /\ cs # <<>> /\ ToSet(cs) = ToSet(bs) \union {b}
             /\ Tiles(cs, s, n + BioLen[b])
<1>1. <<b>> \in Seq(Bios) /\ <<b>> # <<>> /\ ToSet(<<b>>) = {b}
  BY DEF ToSet
<1>2. Append(bs, b) = bs \o <<b>>
  OBVIOUS
<1>3. Tiles(<<b>>, s + n, BioLen[b]) /\ BioLen[b] \in Nat
  BY TilesOne, BioFacts
<1>4. Tiles(bs \o <<b>>, s, n + BioLen[b])
  BY <1>1, <1>3, TilesJoin
<1>5. bs \o <<b>> \in Seq(Bios) /\ bs \o <<b>> # <<>> /\ ToSet(bs \o <<b>>) = ToSet(bs) \union {b}
  <2>1. PICK one : one = <<b>>
    OBVIOUS
  <2>2. one \in Seq(Bios) /\ ToSet(one) = {b}
    BY <1>1, <2>1
  <2>3. bs \o one \in Seq(Bios) /\ bs \o one # <<>> /\ ToSet(bs \o one) = ToSet(bs) \union ToSet(one)
    BY <2>2, JoinSet, JoinShape
  <2> QED
    BY <2>1, <2>2, <2>3
<1> QED
  BY <1>2, <1>4, <1>5 DEF bio_attempt_back_merge

(* The front.                                                              *)
LEMMA FrontGrows ==
  ASSUME NEW bs \in Seq(Bios), bs # <<>>, NEW b \in Bios, NEW s \in Nat, NEW n \in Nat,
         Tiles(bs, s, n), End(b) = s
  PROVE  LET cs == bio_attempt_front_merge(bs, b)
         IN  /\ cs \in Seq(Bios) /\ cs # <<>> /\ ToSet(cs) = ToSet(bs) \union {b}
             /\ Tiles(cs, BioPos[b], n + BioLen[b])
<1>1. <<b>> \in Seq(Bios) /\ <<b>> # <<>> /\ ToSet(<<b>>) = {b}
  BY DEF ToSet
<1>2. BioPos[b] \in Nat /\ BioLen[b] \in Nat /\ BioPos[b] + BioLen[b] = s
  BY BioFacts
<1>3. Tiles(<<b>>, BioPos[b], BioLen[b])
  BY TilesOne
<1>4. Tiles(<<b>> \o bs, BioPos[b], BioLen[b] + n)
  BY <1>1, <1>2, <1>3, TilesJoin
<1>5. <<b>> \o bs \in Seq(Bios) /\ <<b>> \o bs # <<>> /\ ToSet(<<b>> \o bs) = ToSet(bs) \union {b}
  <2>1. PICK one : one = <<b>>
    OBVIOUS
  <2>2. one \in Seq(Bios) /\ one # <<>> /\ ToSet(one) = {b}
    BY <1>1, <2>1
  <2>3. one \o bs \in Seq(Bios) /\ one \o bs # <<>> /\ ToSet(one \o bs) = ToSet(one) \union ToSet(bs)
    BY <2>2, JoinSet, JoinShape
  <2> QED
    BY <2>1, <2>2, <2>3
<1>6. BioLen[b] + n = n + BioLen[b]
  BY <1>2
<1> QED
  BY <1>4, <1>5, <1>6 DEF bio_attempt_front_merge

(* Two requests that touch (attempt_merge).                                *)
LEMMA RequestsGrow ==
  ASSUME NEW es \in Seq(Bios), NEW bs \in Seq(Bios), es # <<>>, bs # <<>>,
         NEW s \in Nat, NEW n \in Nat, NEW t \in Nat, NEW m \in Nat,
         Tiles(es, s, n), Tiles(bs, t, m), s + n = t
  PROVE  /\ es \o bs \in Seq(Bios) /\ es \o bs # <<>> /\ n + m \in Nat
         /\ ToSet(es \o bs) = ToSet(es) \union ToSet(bs)
         /\ Tiles(es \o bs, s, n + m)
<1>1. Tiles(es \o bs, s, n + m)
  BY TilesJoin
<1> QED
  BY <1>1, JoinSet, JoinShape

(* Steps that leave the dispatch queue, the plug, the driver and the lock  *)
(* alone.                                                                  *)
LEMMA RestStays ==
  ASSUME queue_head' = queue_head, owned' = owned, plug' = plug, driver' = driver, pc' = pc
  PROVE  InHand' = InHand /\ \A k \in Outside \ {1} : Homes[k]' = Homes[k]
<1>1. InHand' = InHand
  BY DEF InHand
<1>2. /\ Homes[2]' = Homes[2] /\ Homes[3]' = Homes[3] /\ Homes[4]' = Homes[4]
      /\ Homes[7]' = Homes[7] /\ Homes[8]' = Homes[8]
  BY <1>1, HomeNames
<1> QED
  BY <1>1, <1>2 DEF Outside

(* A merge is possible only between requests with bios, one of them b's.   *)
LEMMA HeldFacts ==
  ASSUME ElevatorInv, NEW rq \in Held \union ToSet(plug) \union owned
  PROVE  /\ rq \in Requests /\ sector[rq] \in Nat /\ nr[rq] \in Nat /\ bios[rq] \in Seq(Bios)
         /\ bios[rq] # <<>> /\ Tiles(bios[rq], sector[rq], nr[rq]) /\ nr[rq] > 0
<1>1. rq \in Requests /\ RequestOK(rq) /\ DataTypes
  BY Entries DEF ElevatorInv, ListTypes, Held
<1>2. /\ sector[rq] \in Nat /\ nr[rq] \in Nat /\ bios[rq] \in Seq(Bios)
      /\ bios[rq] # <<>> /\ Tiles(bios[rq], sector[rq], nr[rq])
  BY <1>1 DEF DataTypes, RequestOK
<1>3. nr[rq] > 0
  BY <1>2, TilesWithin
<1> QED
  BY <1>1, <1>2, <1>3

-----------------------------------------------------------------------------
(* At the start all requests are free.                                     *)
LEMMA InitOK == Init => ElevatorInv
<1> SUFFICES ASSUME Init PROVE ElevatorInv
  OBVIOUS
<1>1. /\ ToSet(<<>>) = {} /\ Len(<<>>) = 0 /\ NoDuplicates(<<>>)
      /\ <<>> \in Seq(Requests) /\ <<>> \in Seq(Bios)
  BY DEF ToSet, NoDuplicates
<1>2. InHand = {} /\ Held = {} /\ pc.op = "idle"
  BY <1>1 DEF Init, InHand, Held, Idle, At
<1>3. ListTypes /\ DataTypes
  BY <1>1 DEF Init, ListTypes, DataTypes
<1>4. ControlTypes
  <2>1. npc \in 0..MaxPC
    BY ElevatorAssumption DEF Init
  <2>2. pc \in [op : {"idle", "back", "flush", "merge", "insert"},
                rq : Requests \union {NULL}, flag : BOOLEAN]
    BY DEF Init, Idle, At
  <2>3. bstate \in [Bios -> {"fresh", "locking", "waiting", "queued", "done"}]
    BY DEF Init
  <2> QED
    BY <2>1, <2>2, <2>3 DEF Init, ControlTypes
<1>5. Apart(Homes)
  <2>1. /\ Homes[1] = Requests /\ Homes[2] = {} /\ Homes[3] = {} /\ Homes[4] = {}
        /\ Homes[5] = {} /\ Homes[6] = {} /\ Homes[7] = {} /\ Homes[8] = {}
    BY <1>1, <1>2, HomeNames DEF Init
  <2>2. \A i \in 2..8 : Homes[i] = {}
    BY <2>1
  <2>3. \A i \in 1..8 : i = 1 \/ i \in 2..8
    OBVIOUS
  <2> QED
    BY <2>1, <2>2, <2>3 DEF Apart
<1>6. LoopOK
  BY <1>2 DEF LoopOK
<1>7. ASSUME NEW rq \in Requests PROVE RequestOK(rq)
  <2>1. Tiles(bios[rq], sector[rq], nr[rq])
    BY TilesNone DEF Init
  <2> QED
    BY <1>1, <1>2, <2>1 DEF Init, RequestOK
<1>8. SortedCount /\ CachedPointersLive
  BY <1>1 DEF Init, SortedCount, CachedPointersLive
<1>9. DriverOK
  <2>1. {rq \in driver : IsFs(rq)} = {}
    BY DEF Init
  <2> QED
    BY <2>1, FS_EmptySet DEF Init, DriverOK, InFlightExact
<1>10. ChainsOK
  BY <1>1 DEF Init, ChainsOK
<1> QED
  BY <1>3, <1>4, <1>5, <1>6, <1>7, <1>8, <1>9, <1>10 DEF ElevatorInv

(***************************************************************************)
(* A step in which no request goes to another place, no bio joins or       *)
(* leaves a request, and no request becomes more mergeable than it was.    *)
(***************************************************************************)
LEMMA NothingMoves ==
  ASSUME ElevatorInv,
         UNCHANGED <<sched, queue_head, nr_sorted, geometry, places, boundary_rq, in_flight>>,
         InHand' = InHand, last_merge' \in {last_merge, NULL},
         flags' \in [Requests -> SUBSET Flags], hkey' \in [Requests -> Nat \union {NULL}],
         \A x \in Requests : SameData(x), ControlTypes', LoopOK',
         \A b \in Bios : bstate'[b] = "queued" <=> bstate[b] = "queued"
  PROVE  ElevatorInv'
<1>1. /\ higher' = higher /\ lower' = lower /\ queue_head' = queue_head /\ plug' = plug
      /\ free' = free /\ owned' = owned /\ driver' = driver /\ Held' = Held
  BY DEF sched, places, Held
<1>2. Apart(Homes)' /\ \A x \in Requests : SamePlace(x)
  BY <1>1, AllStay DEF ElevatorInv
<1>3. \A x \in Requests : RequestOK(x)'
  BY <1>2, OthersOK DEF ElevatorInv
<1>4. ListTypes' /\ SortedCount' /\ CachedPointersLive'
  BY <1>1 DEF ElevatorInv, ListTypes, SortedCount, CachedPointersLive
<1>5. DataTypes'
  BY DEF ElevatorInv, DataTypes, geometry, sched
<1>6. DriverOK'
  BY <1>1, DriverKept DEF ElevatorInv, SameData, ListTypes
<1>7. ChainsOK'
  BY ChainsKept DEF ElevatorInv, geometry
<1> QED
  BY <1>2, <1>3, <1>4, <1>5, <1>6, <1>7 DEF ElevatorInv

(* The steps that only say who holds the lock, or that a run is due.       *)
LEMMA RunStep ==
  ASSUME ElevatorInv,
         \/ flush_end \/ peek_nothing \/ blk_delay_work \/ blk_flush_plug_list
         \/ blk_set_queue_dying
  PROVE  ElevatorInv'
<1>1. /\ UNCHANGED <<sched, queue_head, nr_sorted, geometry, places, boundary_rq, in_flight>>
      /\ UNCHANGED <<last_merge, flags, hkey, bstate, npc>>
      /\ run' \in BOOLEAN /\ delayed' \in BOOLEAN
  BY DEF flush_end, peek_nothing, blk_delay_work, blk_flush_plug_list, blk_set_queue_dying,
         driving, ElevatorInv, ControlTypes
<1>2. \/ pc' = pc
      \/ /\ pc.op \in {"idle", "flush"} /\ pc'.op \in {"idle", "flush"}
         /\ pc' \in [op : {"idle", "back", "flush", "merge", "insert"},
                     rq : Requests \union {NULL}, flag : BOOLEAN]
  <2>1. \/ pc' = pc
        \/ pc.op \in {"idle", "flush"} /\ (pc' = Idle \/ pc' = At("flush", NULL, FALSE))
    BY DEF flush_end, peek_nothing, blk_delay_work, blk_flush_plug_list, blk_set_queue_dying
  <2>2. /\ Idle.op = "idle" /\ At("flush", NULL, FALSE).op = "flush"
        /\ \A p \in {Idle, At("flush", NULL, FALSE)} :
             p \in [op : {"idle", "back", "flush", "merge", "insert"},
                   rq : Requests \union {NULL}, flag : BOOLEAN]
    BY DEF Idle, At
  <2> QED
    BY <2>1, <2>2
<1>3. InHand' = InHand
  <2>1. CASE pc' = pc
    BY <2>1 DEF InHand
  <2>2. CASE pc.op \in {"idle", "flush"} /\ pc'.op \in {"idle", "flush"}
    <3>1. InHand = {}
      BY <2>2 DEF InHand
    <3>2. InHand' = {}
      BY <2>2 DEF InHand
    <3> QED
      BY <3>1, <3>2
  <2> QED
    BY <1>2, <2>1, <2>2
<1>4. ControlTypes'
  BY <1>1, <1>2 DEF ElevatorInv, ControlTypes
<1>5. LoopOK'
  BY <1>1, <1>2 DEF ElevatorInv, LoopOK, geometry, sched, Held
<1>6. \A x \in Requests : SameData(x)
  BY <1>1 DEF SameData, geometry
<1>7. /\ last_merge' \in {last_merge, NULL}
      /\ flags' \in [Requests -> SUBSET Flags] /\ hkey' \in [Requests -> Nat \union {NULL}]
      /\ \A b \in Bios : bstate'[b] = "queued" <=> bstate[b] = "queued"
  BY <1>1 DEF ElevatorInv, DataTypes
<1> QED
  BY <1>1, <1>3, <1>4, <1>5, <1>6, <1>7, NothingMoves

(* A chain of steps that leaves everything as it was.                      *)
LEMMA StutterStep == ASSUME ElevatorInv, UNCHANGED vars PROVE ElevatorInv'
<1>1. /\ UNCHANGED <<sched, queue_head, nr_sorted, geometry, places, boundary_rq, in_flight>>
      /\ UNCHANGED <<last_merge, flags, hkey, bstate, npc, pc, run, delayed>>
  BY DEF vars, driving
<1>2. InHand' = InHand /\ ControlTypes' /\ LoopOK'
  BY <1>1 DEF ElevatorInv, InHand, ControlTypes, LoopOK, geometry, sched, Held
<1>3. \A x \in Requests : SameData(x)
  BY <1>1 DEF SameData, geometry
<1>4. /\ last_merge' \in {last_merge, NULL}
      /\ flags' \in [Requests -> SUBSET Flags] /\ hkey' \in [Requests -> Nat \union {NULL}]
      /\ \A b \in Bios : bstate'[b] = "queued" <=> bstate[b] = "queued"
  BY <1>1 DEF ElevatorInv, DataTypes
<1> QED
  BY <1>1, <1>2, <1>3, <1>4, NothingMoves

(* A dying queue gives no request: the bio ends.                           *)
LEMMA GetFailsOK ==
  ASSUME ElevatorInv, NEW b \in Bios, get_request_fails(b) PROVE ElevatorInv'
<1>1. /\ UNCHANGED <<sched, queue_head, nr_sorted, geometry, places, boundary_rq, in_flight>>
      /\ UNCHANGED <<last_merge, flags, hkey, npc, pc, run, delayed>>
      /\ bstate[b] = "waiting" /\ bstate' = [bstate EXCEPT ![b] = "done"]
  BY DEF get_request_fails, driving
<1>2. InHand' = InHand /\ ControlTypes' /\ LoopOK'
  <2>1. bstate' \in [Bios -> {"fresh", "locking", "waiting", "queued", "done"}]
    BY <1>1 DEF ElevatorInv, ControlTypes
  <2> QED
    BY <1>1, <2>1 DEF ElevatorInv, InHand, ControlTypes, LoopOK, geometry, sched, Held
<1>3. \A x \in Requests : SameData(x)
  BY <1>1 DEF SameData, geometry
<1>4. /\ last_merge' \in {last_merge, NULL}
      /\ flags' \in [Requests -> SUBSET Flags] /\ hkey' \in [Requests -> Nat \union {NULL}]
  BY <1>1 DEF ElevatorInv, DataTypes
<1>5. \A a \in Bios : bstate'[a] = "queued" <=> bstate[a] = "queued"
  BY <1>1 DEF ElevatorInv, ControlTypes
<1> QED
  BY <1>1, <1>2, <1>3, <1>4, <1>5, NothingMoves

(***************************************************************************)
(* A step of one request rq: whatever it moves or changes, the other       *)
(* requests stay where and as they are.                                    *)
(***************************************************************************)
LEMMA OneRequest ==
  ASSUME ElevatorInv, NEW rq, RequestOK(rq)',
         \A x \in Requests : x # rq => SamePlace(x) /\ SameData(x),
         ListTypes', DataTypes', ControlTypes', Apart(Homes)', LoopOK', SortedCount',
         CachedPointersLive', DriverOK', ChainsOK'
  PROVE  ElevatorInv'
<1>1. ASSUME NEW x \in Requests PROVE RequestOK(x)'
  BY OthersOK DEF ElevatorInv
<1> QED
  BY <1>1 DEF ElevatorInv

-----------------------------------------------------------------------------
(* get_request: a free request is taken for one bio.                       *)
LEMMA GetRequestOK ==
  ASSUME ElevatorInv, NEW b \in Bios, NEW rq \in Requests, get_request(b, rq)
  PROVE  ElevatorInv'
<1>0. /\ rq \in free /\ free' = free \ {rq} /\ owned' = owned \union {rq}
      /\ UNCHANGED <<sched, queue_head, nr_sorted, last_merge, hkey, plug, driver, driving, pc, npc>>
      /\ sector' = [sector EXCEPT ![rq] = BioPos[b]] /\ nr' = [nr EXCEPT ![rq] = BioLen[b]]
      /\ bios' = [bios EXCEPT ![rq] = <<b>>] /\ bstate' = [bstate EXCEPT ![b] = "queued"]
      /\ bstate[b] = "waiting" /\ pc.op = "idle"
  BY DEF get_request, init_request_from_bio, blk_rq_bio_prep
<1>1. PICK f \in {{"ELVPRIV"}, {}} : flags' = [flags EXCEPT ![rq] = f]
  BY DEF get_request
<1>2. /\ ListTypes /\ DataTypes /\ ControlTypes /\ Apart(Homes) /\ ChainsOK /\ RequestOK(rq)
      /\ higher' = higher /\ lower' = lower /\ InHand' = InHand /\ Held' = Held
  BY <1>0 DEF ElevatorInv, sched, InHand, Held
<1>3. Shift(1, 2, rq)
  BY <1>0, <1>2, HomeNames DEF Shift
<1>4. Apart(Homes)' /\ \A x \in Requests : x # rq => SamePlace(x)
  BY <1>2, <1>3, ShiftKeeps
<1>5. /\ sector'[rq] = BioPos[b] /\ nr'[rq] = BioLen[b] /\ bios'[rq] = <<b>> /\ flags'[rq] = f
      /\ hkey'[rq] = hkey[rq]
      /\ \A x \in Requests : x # rq => /\ sector'[x] = sector[x] /\ nr'[x] = nr[x]
                                       /\ bios'[x] = bios[x] /\ flags'[x] = flags[x]
                                       /\ hkey'[x] = hkey[x]
  BY <1>0, <1>1, <1>2 DEF DataTypes
<1>6. \A x \in Requests : x # rq => SameData(x)
  BY <1>5 DEF SameData
<1>7. ListTypes'
  BY <1>0, <1>2 DEF ListTypes
<1>8. DataTypes'
  <2>1. BioPos[b] \in Nat /\ BioLen[b] \in Nat /\ <<b>> \in Seq(Bios) /\ f \in SUBSET Flags
    BY BioFacts DEF Flags
  <2> QED
    BY <1>0, <1>1, <1>2, <2>1 DEF DataTypes, sched
<1>9. ControlTypes'
  BY <1>0, <1>2 DEF ControlTypes, driving
<1>10. rq \notin Held' /\ rq \notin ToSet(plug)' /\ rq \notin InHand' /\ rq \notin driver' /\ rq \notin free'
  BY <1>0, <1>2, PlacesApart
<1>11. RequestOK(rq)'
  <2>1. Tiles(bios[rq], sector[rq], nr[rq])'
    <3>1. Tiles(bios'[rq], sector'[rq], nr'[rq])
      BY <1>5, TilesOne
    <3> QED
      BY <3>1 DEF Tiles, End
  <2>2. hkey'[rq] = NULL /\ bios'[rq] # <<>> /\ "SORTED" \notin flags'[rq]
    BY <1>2, <1>5, <1>0, PlacesApart DEF RequestOK
  <2> QED
    BY <1>10, <2>1, <2>2 DEF RequestOK
<1>12. LoopOK'
  BY <1>0 DEF LoopOK
<1>13. SortedCount' /\ CachedPointersLive'
  BY <1>0, <1>2 DEF ElevatorInv, SortedCount, CachedPointersLive, driving
<1>14. DriverOK'
  <2>1. \A x \in driver : x \in Requests /\ x # rq
    BY <1>0, <1>2, PlacesApart DEF ListTypes
  <2> QED
    BY <1>0, <1>5, <2>1, DriverKept DEF ElevatorInv, driving
<1>15. ChainsOK'
  <2>1. Own(rq) = {} /\ Own(rq)' = {b}
    <3>1. bios[rq] = <<>> /\ ToSet(<<>>) = {} /\ ToSet(<<b>>) = {b}
      BY <1>0, <1>2 DEF RequestOK, ToSet
    <3> QED
      BY <1>5, <3>1 DEF Own
  <2>2. \A x \in Requests \ {rq, rq} : Own(x)' = Own(x)
    BY <1>5 DEF Own
  <2>3. \A c \in Bios : IF c \in {b} THEN bstate'[c] = "queued" ELSE bstate'[c] = bstate[c]
    BY <1>0, <1>2 DEF ControlTypes
  <2>4. {b} \in SUBSET Bios /\ \A c \in {b} : bstate[c] # "queued"
    BY <1>0
  <2>5. Own(rq)' = Own(rq) \union Own(rq) \union {b}
    BY <2>1
  <2> QED
    BY <1>2, <2>2, <2>3, <2>4, <2>5, ChainsJoin
<1> QED
  BY <1>4, <1>6, <1>7, <1>8, <1>9, <1>11, <1>12, <1>13, <1>14, <1>15, OneRequest

(* blk_queue_bio adds the request to the plug list.                        *)
LEMMA AddToPlugOK ==
  ASSUME ElevatorInv, NEW rq \in Requests, add_to_plug(rq)
  PROVE  ElevatorInv'
<1>0. /\ rq \in owned /\ owned' = owned \ {rq} /\ plug' = Append(plug, rq)
      /\ UNCHANGED <<sched, queue_head, nr_sorted, last_merge, hkey, geometry, flags, free, driver,
                     driving, bstate, pc, npc>>
  BY DEF add_to_plug
<1>2. /\ ListTypes /\ DataTypes /\ ControlTypes /\ Apart(Homes) /\ ChainsOK /\ RequestOK(rq)
      /\ higher' = higher /\ lower' = lower /\ InHand' = InHand /\ Held' = Held
  BY <1>0 DEF ElevatorInv, sched, InHand, Held
<1>3. plug' \in Seq(Requests) /\ NoDuplicates(plug') /\ ToSet(plug') = ToSet(plug) \union {rq}
  BY <1>0, <1>2, AppendEntries, PlacesApart DEF ListTypes
<1>4. Apart(Homes)' /\ \A x \in Requests : x # rq => SamePlace(x)
  <2>1. Shift(2, 8, rq)
    BY <1>0, <1>2, <1>3, HomeNames DEF Shift
  <2> QED
    BY <1>2, <2>1, ShiftKeeps
<1>5. \A x \in Requests : SameData(x)
  BY <1>0 DEF SameData, geometry
<1>6. ListTypes'
  BY <1>0, <1>2, <1>3 DEF ListTypes
<1>7. DataTypes' /\ ControlTypes'
  BY <1>0, <1>2 DEF DataTypes, ControlTypes, geometry, sched, driving
<1>8. RequestOK(rq)'
  <2>1. Tiles(bios[rq], sector[rq], nr[rq])'
    BY <1>0, <1>2 DEF RequestOK, Tiles, End, geometry
  <2>2. rq \notin Held' /\ rq \notin InHand' /\ rq \notin driver' /\ rq \notin free'
    BY <1>0, <1>2, PlacesApart
  <2>3. hkey'[rq] = NULL /\ bios'[rq] # <<>> /\ "SORTED" \notin flags'[rq]
    BY <1>0, <1>2, <2>2 DEF RequestOK, geometry
  <2> QED
    BY <2>1, <2>2, <2>3 DEF RequestOK
<1>9. LoopOK' /\ SortedCount' /\ CachedPointersLive'
  BY <1>0, <1>2 DEF ElevatorInv, LoopOK, SortedCount, CachedPointersLive, driving, geometry
<1>10. DriverOK' /\ ChainsOK'
  <2>1. DriverOK'
    BY <1>0, DriverKept DEF ElevatorInv, driving
  <2>2. ChainsOK'
    BY <1>0, <1>2, ChainsKept DEF geometry
  <2> QED
    BY <2>1, <2>2
<1> QED
  BY <1>4, <1>5, <1>6, <1>7, <1>8, <1>9, <1>10, OneRequest

(***************************************************************************)
(* __elv_add_request with ELEVATOR_INSERT_SORT: a request that a task or a *)
(* loop has brought goes to the scheduler.                                 *)
(***************************************************************************)
LEMMA InsertSortOK ==
  ASSUME ElevatorInv, NEW rq \in Requests, NEW i \in {2, 4}, rq \in Homes[i],
         Homes[i]' = Homes[i] \ {rq}, \A k \in Outside \ {i} : Homes[k]' = Homes[k],
         InsertSort(rq), bios[rq] # <<>>, owned' \subseteq Requests,
         UNCHANGED <<queue_head, geometry, free, plug, driver, boundary_rq, in_flight, bstate>>,
         ControlTypes', LoopOK'
  PROVE  ElevatorInv'
<1>1. /\ ListTypes /\ DataTypes /\ ControlTypes /\ Apart(Homes) /\ ChainsOK /\ RequestOK(rq)
      /\ SortedCount /\ CachedPointersLive /\ i \in Outside /\ i \in 1..8
  BY DEF ElevatorInv, Outside
<1>2. /\ higher' \in Seq(Requests) /\ lower' \in Seq(Requests)
      /\ NoDuplicates(higher') /\ NoDuplicates(lower')
      /\ Len(higher') + Len(lower') = Len(higher) + Len(lower) + 1
      /\ Held' = Held \union {rq}
      /\ Apart(Homes)' /\ \A x \in Requests : x # rq => SamePlace(x)
  <2>1. \/ lower' = add_to_lower(lower, rq, sector) /\ higher' = higher
        \/ higher' = add_to_higher(higher, rq, sector) /\ lower' = lower
    BY DEF InsertSort
  <2> QED
    BY <1>1, <2>1, AddHeld
<1>3. rq \notin Held /\ rq \notin driver
  BY <1>1, PlacesApart, HomeNames
<1>4. hkey[rq] = NULL
  BY <1>1, <1>3 DEF RequestOK
<1>5. /\ flags' = [flags EXCEPT ![rq] = @ \union {"SORTED"}] /\ nr_sorted' = nr_sorted + 1
      /\ hkey' = IF rq_mergeable(rq) THEN elv_rqhash_add(hkey, rq, rq_end_sector(rq)) ELSE hkey
      /\ last_merge' = IF rq_mergeable(rq) /\ last_merge = NULL THEN rq ELSE last_merge
      /\ prev_pos' = prev_pos /\ sector' = sector /\ nr' = nr /\ bios' = bios
  BY DEF InsertSort, geometry
<1>6. rq_end_sector(rq) \in Nat /\ rq_end_sector(rq)' = rq_end_sector(rq)
  BY <1>1, <1>5 DEF DataTypes, rq_end_sector
<1>7. /\ hkey' \in [Requests -> Nat \union {NULL}]
      /\ hkey'[rq] = IF rq_mergeable(rq) THEN rq_end_sector(rq) ELSE NULL
      /\ \A x \in Requests : x # rq => hkey'[x] = hkey[x]
  BY <1>1, <1>4, <1>5, <1>6 DEF DataTypes, elv_rqhash_add
<1>8. /\ flags' \in [Requests -> SUBSET Flags]
      /\ flags'[rq] = flags[rq] \union {"SORTED"}
      /\ \A x \in Requests : x # rq => flags'[x] = flags[x]
  <2>1. flags[rq] \union {"SORTED"} \in SUBSET Flags
    BY <1>1 DEF DataTypes, Flags
  <2> QED
    BY <1>1, <1>5, <2>1 DEF DataTypes
<1>9. DataTypes'
  BY <1>1, <1>5, <1>7, <1>8 DEF DataTypes
<1>10. ListTypes'
  BY <1>1, <1>2 DEF ListTypes
<1>11. SortedCount' /\ CachedPointersLive'
  <2>1. SortedCount'
    <3>1. Len(higher) \in Nat /\ Len(lower) \in Nat
      BY <1>1 DEF ListTypes
    <3> QED
      BY <1>1, <1>2, <1>5, <3>1 DEF SortedCount
  <2>2. CachedPointersLive'
    BY <1>1, <1>2, <1>5 DEF CachedPointersLive
  <2> QED
    BY <2>1, <2>2
<1>12. RequestOK(rq)'
  <2>1. rq_mergeable(rq)' <=> rq_mergeable(rq)
    BY <1>8 DEF rq_mergeable
  <2>2. /\ rq \in Held' /\ rq \notin owned' /\ rq \notin ToSet(plug)' /\ rq \notin InHand'
        /\ rq \notin driver' /\ rq \notin free'
    BY <1>2, PlacesApartNext
  <2>3. Tiles(bios[rq], sector[rq], nr[rq])'
    BY <1>1, <1>5 DEF RequestOK, Tiles, End
  <2>4. /\ hkey'[rq] # NULL => hkey'[rq] = rq_end_sector(rq)'
        /\ rq_mergeable(rq)' => hkey'[rq] # NULL
    BY <1>6, <1>7, <2>1, ElevatorAssumption
  <2> QED
    BY <1>5, <1>8, <2>2, <2>3, <2>4 DEF RequestOK
<1>13. \A x \in Requests : x # rq => SameData(x)
  BY <1>5, <1>7, <1>8 DEF SameData
<1>14. DriverOK'
  <2>1. \A x \in driver : x \in Requests /\ x # rq
    BY <1>1, <1>3 DEF ListTypes
  <2> QED
    BY <1>8, <2>1, DriverKept DEF ElevatorInv
<1>15. ChainsOK'
  BY <1>1, <1>5, ChainsKept
<1> QED
  BY <1>2, <1>9, <1>10, <1>11, <1>12, <1>13, <1>14, <1>15, OneRequest

-----------------------------------------------------------------------------
(***************************************************************************)
(* A step that takes a request from one place outside the scheduler to     *)
(* another, and may change that request.                                   *)
(***************************************************************************)
LEMMA OutsideMove ==
  ASSUME ElevatorInv, NEW rq \in Requests, NEW i \in Outside, NEW j \in Outside, i # j,
         Shift(i, j, rq), UNCHANGED <<sched, nr_sorted, last_merge, hkey>>,
         \A x \in Requests : x # rq => /\ flags'[x] = flags[x] /\ sector'[x] = sector[x]
                                       /\ nr'[x] = nr[x] /\ bios'[x] = bios[x],
         ListTypes', DataTypes', ControlTypes', LoopOK', DriverOK', ChainsOK',
         boundary_rq' # NULL => boundary_rq' \in ToSet(queue_head'),
         Tiles(bios'[rq], sector'[rq], nr'[rq]),
         j \in {2, 8} => bios'[rq] # <<>>, j = 1 => bios'[rq] = <<>>,
         j \in {2, 4, 8} => "SORTED" \notin flags'[rq], j = 3 => "STARTED" \in flags'[rq]
  PROVE  ElevatorInv'
<1>1. /\ Apart(Homes) /\ RequestOK(rq) /\ SortedCount /\ CachedPointersLive
      /\ i \in 1..8 /\ j \in 1..8
  BY DEF ElevatorInv, Outside
<1>2. Apart(Homes)' /\ \A x \in Requests : x # rq => SamePlace(x)
  BY <1>1, ShiftKeeps
<1>3. higher' = higher /\ lower' = lower /\ Held' = Held /\ hkey' = hkey
  BY DEF sched, Held
<1>4. rq \notin Held
  BY <1>1, PlacesApart, HomeNames DEF Shift, Outside
<1>5. rq \in Homes[j]' /\ \A k \in 1..8 : k # j => rq \notin Homes[k]'
  BY <1>1, <1>2 DEF Shift, Apart
<1>6. \A x \in Requests : x # rq => SameData(x)
  BY <1>3 DEF SameData
<1>7. RequestOK(rq)'
  <2>1. Tiles(bios[rq], sector[rq], nr[rq])'
    BY DEF Tiles, End
  <2>2. hkey'[rq] = NULL /\ rq \notin Held'
    BY <1>1, <1>3, <1>4 DEF RequestOK
  <2>3. /\ rq \in free' => j = 1
        /\ rq \in owned' => j = 2
        /\ rq \in driver' => j = 3
        /\ rq \in InHand' => j = 4
        /\ rq \in ToSet(plug)' => j = 8
    BY <1>5, HomeNames
  <2> QED
    BY <2>1, <2>2, <2>3 DEF RequestOK
<1>8. SortedCount' /\ CachedPointersLive'
  BY <1>1, <1>3 DEF SortedCount, CachedPointersLive
<1> QED
  BY <1>2, <1>6, <1>7, <1>8, OneRequest

(* The fields of the lock's holder.                                        *)
LEMMA HolderFields ==
  ASSUME NEW o \in {"idle", "back", "flush", "merge", "insert"},
         NEW r \in Requests \union {NULL}, NEW f \in BOOLEAN, pc' = At(o, r, f)
  PROVE  /\ pc'.op = o /\ pc'.rq = r /\ pc'.flag = f
         /\ pc' \in [op : {"idle", "back", "flush", "merge", "insert"},
                     rq : Requests \union {NULL}, flag : BOOLEAN]
  BY DEF At

(* blk_queue_bio inserts the request it got.                               *)
LEMMA BioInsertOK ==
  ASSUME ElevatorInv, NEW rq \in Requests, blk_queue_bio_insert(rq)
  PROVE  ElevatorInv'
<1>0. /\ rq \in owned /\ owned' = owned \ {rq} /\ pc.op = "idle"
      /\ UNCHANGED <<queue_head, geometry, free, plug, driver, boundary_rq, in_flight, delayed,
                     bstate, npc>>
  BY DEF blk_queue_bio_insert
<1>1. /\ ListTypes /\ DataTypes /\ ControlTypes /\ Apart(Homes) /\ ChainsOK /\ RequestOK(rq)
      /\ InHand = {}
  BY <1>0 DEF ElevatorInv, InHand
<1>2. bios[rq] # <<>> /\ "SORTED" \notin flags[rq]
  BY <1>0, <1>1 DEF RequestOK
<1>3. CASE InsertSort(rq) /\ run' = TRUE /\ pc' = pc
  <2>1. InHand' = InHand
    BY <1>3 DEF InHand
  <2>2. rq \in Homes[2] /\ Homes[2]' = Homes[2] \ {rq} /\ \A k \in Outside \ {2} : Homes[k]' = Homes[k]
    BY <1>0, <2>1, HomeNames DEF Outside
  <2>3. ControlTypes'
    <3>1. last_merge' \in Requests \union {NULL}
      BY <1>1, <1>3 DEF InsertSort, ControlTypes
    <3> QED
      BY <1>0, <1>1, <1>3, <3>1 DEF ControlTypes
  <2>4. LoopOK'
    BY <1>0, <1>3 DEF LoopOK
  <2>5. owned' \subseteq Requests
    BY <1>0, <1>1 DEF ListTypes
  <2> QED
    BY <1>0, <1>2, <1>3, <2>2, <2>3, <2>4, <2>5, InsertSortOK
<1>4. CASE pc' = At("back", rq, FALSE) /\ UNCHANGED <<sched, nr_sorted, last_merge, hkey, flags, run>>
  <2>1. /\ pc'.op = "back" /\ pc'.rq = rq
        /\ pc' \in [op : {"idle", "back", "flush", "merge", "insert"},
                    rq : Requests \union {NULL}, flag : BOOLEAN]
    BY <1>4, HolderFields
  <2>2. InHand' = {rq}
    BY <2>1 DEF InHand
  <2>3. /\ Shift(2, 4, rq) /\ 2 \in Outside /\ 4 \in Outside
        /\ higher' = higher /\ lower' = lower
    <3>1. higher' = higher /\ lower' = lower
      BY <1>4 DEF sched
    <3> QED
      BY <1>0, <1>1, <2>2, <3>1, HomeNames DEF Shift, Outside
  <2>4. ControlTypes' /\ LoopOK'
    BY <1>0, <1>1, <1>4, <2>1 DEF ControlTypes, LoopOK
  <2>5. ListTypes' /\ DataTypes'
    BY <1>0, <1>1, <1>4, <2>3 DEF ListTypes, DataTypes, geometry, sched
  <2>6. DriverOK'
    BY <1>0, <1>4, DriverKept DEF ElevatorInv
  <2>7. ChainsOK'
    BY <1>0, <1>1, ChainsKept DEF geometry
  <2>8. boundary_rq' # NULL => boundary_rq' \in ToSet(queue_head')
    BY <1>0 DEF ElevatorInv, CachedPointersLive
  <2>9. Tiles(bios'[rq], sector'[rq], nr'[rq]) /\ "SORTED" \notin flags'[rq]
    BY <1>0, <1>1, <1>2, <1>4 DEF RequestOK, geometry
  <2>10. \A x \in Requests : x # rq => /\ flags'[x] = flags[x] /\ sector'[x] = sector[x]
                                       /\ nr'[x] = nr[x] /\ bios'[x] = bios[x]
    BY <1>0, <1>4 DEF geometry
  <2> QED
    BY <1>4, <2>3, <2>4, <2>5, <2>6, <2>7, <2>8, <2>9, <2>10, OutsideMove
<1> QED
  BY <1>3, <1>4 DEF blk_queue_bio_insert

(* The last part of a flush round: the request that found no partner.      *)
LEMMA FlushInsertOK == ASSUME ElevatorInv, flush_insert PROVE ElevatorInv'
<1>0. /\ pc.op = "insert" /\ InsertSort(pc.rq) /\ pc' = At("flush", NULL, FALSE)
      /\ UNCHANGED <<queue_head, geometry, places, driving, bstate, npc>>
  BY DEF flush_insert
<1>1. /\ ListTypes /\ DataTypes /\ ControlTypes /\ Apart(Homes) /\ LoopOK
      /\ InHand = {pc.rq} /\ pc.rq \in Requests /\ bios[pc.rq] # <<>>
  BY <1>0 DEF ElevatorInv, LoopOK, InHand
<1>2. PICK rq \in Requests : rq = pc.rq
  BY <1>1
<1>3. /\ pc'.op = "flush"
      /\ pc' \in [op : {"idle", "back", "flush", "merge", "insert"},
                  rq : Requests \union {NULL}, flag : BOOLEAN]
  BY <1>0, HolderFields
<1>4. InHand' = {}
  BY <1>3 DEF InHand
<1>5. /\ rq \in Homes[4] /\ Homes[4]' = Homes[4] \ {rq}
      /\ \A k \in Outside \ {4} : Homes[k]' = Homes[k]
  BY <1>0, <1>1, <1>2, <1>4, HomeNames DEF Outside, places
<1>6. ControlTypes'
  <2>1. last_merge' \in Requests \union {NULL}
    BY <1>0, <1>1 DEF InsertSort, ControlTypes
  <2> QED
    BY <1>0, <1>1, <1>3, <2>1 DEF ControlTypes, driving
<1>7. LoopOK'
  BY <1>3 DEF LoopOK
<1>8. /\ InsertSort(rq) /\ bios[rq] # <<>> /\ owned' \subseteq Requests
      /\ UNCHANGED <<queue_head, geometry, free, plug, driver, boundary_rq, in_flight, bstate>>
  BY <1>0, <1>1, <1>2 DEF ListTypes, places, driving
<1> QED
  BY <1>5, <1>6, <1>7, <1>8, InsertSortOK

(* A BLOCK_PC request is taken and put at the front of the dispatch queue, *)
(* or the scheduler is to be drained for it.                               *)
LEMMA InsertPcOK ==
  ASSUME ElevatorInv, NEW rq \in Requests, NEW where, insert_pc(rq, where)
  PROVE  ElevatorInv'
<1>0. /\ pc.op = "idle" /\ npc < MaxPC /\ rq \in free /\ free' = free \ {rq} /\ npc' = npc + 1
      /\ UNCHANGED <<sched, nr_sorted, last_merge, hkey, geometry, owned, plug, driver,
                     boundary_rq, in_flight, delayed, bstate>>
  BY DEF insert_pc
<1>1. /\ ListTypes /\ DataTypes /\ ControlTypes /\ Apart(Homes) /\ ChainsOK /\ RequestOK(rq)
      /\ InHand = {} /\ higher' = higher /\ lower' = lower
  BY <1>0 DEF ElevatorInv, InHand, sched
<1>2. PICK f \in SUBSET Flags : flags' = [flags EXCEPT ![rq] = f] /\ "SORTED" \notin f
  BY DEF insert_pc, blk_rq_set_block_pc, Flags
<1>3. npc' \in 0..MaxPC
  BY <1>0, <1>1, ElevatorAssumption DEF ControlTypes
<1>4. flags' \in [Requests -> SUBSET Flags] /\ flags'[rq] = f /\ \A x \in Requests : x # rq => flags'[x] = flags[x]
  BY <1>1, <1>2 DEF DataTypes
<1>5. DataTypes'
  BY <1>0, <1>1, <1>4 DEF DataTypes, geometry, sched
<1>6. DriverOK'
  <2>1. \A x \in driver : x \in Requests /\ x # rq
    BY <1>0, <1>1, PlacesApart DEF ListTypes
  <2> QED
    BY <1>0, <1>4, <2>1, DriverKept DEF ElevatorInv
<1>7. ChainsOK'
  BY <1>0, <1>1, ChainsKept DEF geometry
<1>8. \A x \in Requests : x # rq => /\ flags'[x] = flags[x] /\ sector'[x] = sector[x]
                                    /\ nr'[x] = nr[x] /\ bios'[x] = bios[x]
  BY <1>0, <1>4 DEF geometry
<1>9. Tiles(bios'[rq], sector'[rq], nr'[rq])
  BY <1>0, <1>1 DEF RequestOK, geometry
<1>10. 1 \in Outside /\ 4 \in Outside /\ 7 \in Outside
  BY DEF Outside
<1>11. boundary_rq # NULL => boundary_rq \in ToSet(queue_head)
  BY DEF ElevatorInv, CachedPointersLive
<1>12. CASE queue_head' = <<rq>> \o queue_head /\ run' = TRUE /\ pc' = pc
  <2>1. /\ queue_head' \in Seq(Requests) /\ NoDuplicates(queue_head')
        /\ ToSet(queue_head') = ToSet(queue_head) \union {rq}
    <3>1. queue_head' = Cons(rq, queue_head)
      BY <1>12 DEF Cons
    <3> QED
      BY <1>0, <1>1, <3>1, ConsEntries, PlacesApart DEF ListTypes
  <2>2. InHand' = InHand
    BY <1>12 DEF InHand
  <2>3. Shift(1, 7, rq)
    <3>1. /\ rq \in Homes[1] /\ Homes[1]' = Homes[1] \ {rq} /\ Homes[2]' = Homes[2]
          /\ Homes[3]' = Homes[3] /\ Homes[4]' = Homes[4] /\ Homes[5]' = Homes[5]
          /\ Homes[6]' = Homes[6] /\ Homes[8]' = Homes[8]
      BY <1>0, <1>1, <2>2, HomeNames
    <3>2. Homes[7]' = Homes[7] \union {rq}
      BY <2>1, HomeNames
    <3> QED
      BY <3>1, <3>2 DEF Shift
  <2>4. ListTypes'
    BY <1>0, <1>1, <2>1 DEF ListTypes
  <2>5. ControlTypes' /\ LoopOK'
    BY <1>0, <1>1, <1>3, <1>12 DEF ControlTypes, LoopOK
  <2>6. boundary_rq' # NULL => boundary_rq' \in ToSet(queue_head')
    BY <1>0, <1>11, <2>1
  <2> QED
    BY <1>0, <1>5, <1>6, <1>7, <1>8, <1>9, <1>10, <2>3, <2>4, <2>5, <2>6, OutsideMove
<1>13. CASE pc' = At("back", rq, FALSE) /\ UNCHANGED <<queue_head, run>>
  <2>1. /\ pc'.op = "back" /\ pc'.rq = rq
        /\ pc' \in [op : {"idle", "back", "flush", "merge", "insert"},
                    rq : Requests \union {NULL}, flag : BOOLEAN]
    BY <1>13, HolderFields
  <2>2. InHand' = {rq}
    BY <2>1 DEF InHand
  <2>3. Shift(1, 4, rq)
    BY <1>0, <1>1, <1>13, <2>2, HomeNames DEF Shift
  <2>4. ListTypes'
    BY <1>0, <1>1, <1>13 DEF ListTypes
  <2>5. ControlTypes' /\ LoopOK'
    BY <1>0, <1>1, <1>3, <1>13, <2>1 DEF ControlTypes, LoopOK
  <2>6. boundary_rq' # NULL => boundary_rq' \in ToSet(queue_head')
    BY <1>0, <1>11, <1>13
  <2> QED
    BY <1>0, <1>2, <1>4, <1>5, <1>6, <1>7, <1>8, <1>9, <1>10, <2>3, <2>4, <2>5, <2>6, OutsideMove
<1> QED
  BY <1>12, <1>13 DEF insert_pc

(* ELEVATOR_INSERT_BACK once the scheduler holds nothing.                  *)
LEMMA InsertBackOK == ASSUME ElevatorInv, insert_back PROVE ElevatorInv'
<1>0. /\ pc.op = "back" /\ flags' = [flags EXCEPT ![pc.rq] = @ \union {"SOFTBARRIER"}]
      /\ queue_head' = Append(queue_head, pc.rq) /\ run' = TRUE
      /\ pc' = At("flush", NULL, TRUE) \/ pc' = At("idle", NULL, FALSE)
      /\ UNCHANGED <<sched, nr_sorted, last_merge, hkey, geometry, places, boundary_rq, in_flight,
                     delayed, bstate, npc>>
  BY DEF insert_back, list_add_tail, Idle
<1>1. /\ ListTypes /\ DataTypes /\ ControlTypes /\ Apart(Homes) /\ ChainsOK
      /\ InHand = {pc.rq} /\ higher' = higher /\ lower' = lower /\ pc.rq \in Requests
  BY <1>0 DEF ElevatorInv, InHand, sched, LoopOK
<1>2. PICK rq \in Requests : rq = pc.rq
  BY <1>1
<1>3. RequestOK(rq) /\ rq \in InHand
  BY <1>1, <1>2 DEF ElevatorInv
<1>4. /\ pc'.op \in {"flush", "idle"}
      /\ pc' \in [op : {"idle", "back", "flush", "merge", "insert"},
                  rq : Requests \union {NULL}, flag : BOOLEAN]
  BY <1>0, HolderFields
<1>5. InHand' = {}
  BY <1>4 DEF InHand
<1>6. /\ queue_head' \in Seq(Requests) /\ NoDuplicates(queue_head')
      /\ ToSet(queue_head') = ToSet(queue_head) \union {rq}
  BY <1>0, <1>1, <1>2, <1>3, AppendEntries, PlacesApart DEF ListTypes
<1>7. /\ flags' \in [Requests -> SUBSET Flags] /\ flags'[rq] = flags[rq] \union {"SOFTBARRIER"}
      /\ \A x \in Requests : x # rq => flags'[x] = flags[x]
  <2>1. flags[rq] \union {"SOFTBARRIER"} \in SUBSET Flags
    BY <1>1 DEF DataTypes, Flags
  <2> QED
    BY <1>0, <1>1, <1>2, <2>1 DEF DataTypes
<1>8. Shift(4, 7, rq) /\ 4 \in Outside /\ 7 \in Outside
  <2>1. /\ rq \in Homes[4] /\ Homes[1]' = Homes[1] /\ Homes[2]' = Homes[2]
        /\ Homes[3]' = Homes[3] /\ Homes[4]' = Homes[4] \ {rq} /\ Homes[5]' = Homes[5]
        /\ Homes[6]' = Homes[6] /\ Homes[8]' = Homes[8]
    BY <1>0, <1>1, <1>2, <1>3, <1>5, HomeNames DEF places
  <2>2. Homes[7]' = Homes[7] \union {rq}
    BY <1>6, HomeNames
  <2> QED
    BY <2>1, <2>2 DEF Shift, Outside
<1>9. ListTypes' /\ DataTypes'
  BY <1>0, <1>1, <1>6, <1>7 DEF ListTypes, DataTypes, geometry, sched, places
<1>10. ControlTypes' /\ LoopOK'
  BY <1>0, <1>1, <1>4 DEF ControlTypes, LoopOK
<1>11. DriverOK'
  <2>1. \A x \in driver : x \in Requests /\ x # rq
    BY <1>1, <1>3, PlacesApart DEF ListTypes
  <2> QED
    BY <1>0, <1>7, <2>1, DriverKept DEF ElevatorInv, places
<1>12. ChainsOK'
  BY <1>0, <1>1, ChainsKept DEF geometry
<1>13. \A x \in Requests : x # rq => /\ flags'[x] = flags[x] /\ sector'[x] = sector[x]
                                     /\ nr'[x] = nr[x] /\ bios'[x] = bios[x]
  BY <1>0, <1>7 DEF geometry
<1>14. Tiles(bios'[rq], sector'[rq], nr'[rq])
  BY <1>0, <1>3 DEF RequestOK, geometry
<1>15. boundary_rq' # NULL => boundary_rq' \in ToSet(queue_head')
  BY <1>0, <1>6 DEF ElevatorInv, CachedPointersLive
<1>16. UNCHANGED <<sched, nr_sorted, last_merge, hkey>>
  BY <1>0
<1> QED
  BY <1>8, <1>9, <1>10, <1>11, <1>12, <1>13, <1>14, <1>15, <1>16, OutsideMove

-----------------------------------------------------------------------------
(* greedy_dispatch takes a request the scheduler holds, unhashes and       *)
(* forgets it.                                                             *)
LEMMA DispatchTakes ==
  ASSUME ElevatorInv, NEW rq, Dispatch(rq)
  PROVE  /\ rq \in Held /\ rq \in Requests
         /\ prev_pos' \in Nat /\ nr_sorted' = nr_sorted - 1
         /\ higher' = Unlink(higher, rq) /\ lower' = Unlink(lower, rq)
         /\ hkey' \in [Requests -> Nat \union {NULL}] /\ hkey'[rq] = NULL
         /\ \A x \in Requests : x # rq => hkey'[x] = hkey[x]
         /\ last_merge' \in {last_merge, NULL} /\ (last_merge' = NULL \/ last_merge' # rq)
<1>1. /\ higher \in Seq(Requests) /\ lower \in Seq(Requests) /\ DataTypes
      /\ Held # {} /\ rq = Target
  BY DEF ElevatorInv, ListTypes, Dispatch
<1>2. /\ higher # <<>> => Head(higher) \in ToSet(higher) /\ Head(higher) \in Requests
      /\ lower # <<>> => Head(lower) \in ToSet(lower) /\ Head(lower) \in Requests
  BY <1>1, TailEntries
<1>3. lower = <<>> => higher # <<>>
  <2>1. ToSet(<<>>) = {}
    BY DEF ToSet
  <2> QED
    BY <1>1, <2>1 DEF Held
<1>4. rq \in Held /\ rq \in Requests
  <2>1. CASE TakesLower(higher, lower, prev_pos, sector)
    <3>1. lower # <<>> /\ rq = Head(lower)
      BY <1>1, <2>1 DEF Target, DispatchTarget, TakesLower
    <3> QED
      BY <1>2, <3>1 DEF Held
  <2>2. CASE ~ TakesLower(higher, lower, prev_pos, sector)
    <3>1. higher # <<>> /\ rq = Head(higher)
      BY <1>1, <1>3, <2>2 DEF Target, DispatchTarget, TakesLower
    <3> QED
      BY <1>2, <3>1 DEF Held
  <2> QED
    BY <2>1, <2>2
<1>5. prev_pos' \in Nat
  BY <1>1, <1>4 DEF Dispatch, DataTypes, rq_end_sector
<1>6. /\ hkey' \in [Requests -> Nat \union {NULL}] /\ hkey'[rq] = NULL
      /\ \A x \in Requests : x # rq => hkey'[x] = hkey[x]
  BY <1>1, <1>4 DEF Dispatch, DataTypes, elv_rqhash_del
<1> QED
  BY <1>4, <1>5, <1>6 DEF Dispatch, ForgetLastMerge

(***************************************************************************)
(* A step that dispatches a request to the dispatch queue, to the driver,  *)
(* or, killed, to the free ones.                                           *)
(***************************************************************************)
LEMMA DispatchMove ==
  ASSUME ElevatorInv, NEW rq, Dispatch(rq), NEW j \in {1, 3, 7},
         Homes[j]' = Homes[j] \union {rq}, \A k \in Outside \ {j} : Homes[k]' = Homes[k],
         \A x \in Requests : x # rq => /\ flags'[x] = flags[x] /\ sector'[x] = sector[x]
                                       /\ nr'[x] = nr[x] /\ bios'[x] = bios[x],
         queue_head' \in Seq(Requests), NoDuplicates(queue_head'), plug' = plug,
         free' \subseteq Requests, owned' = owned, driver' \subseteq Requests,
         sector' \in [Requests -> Nat], nr' \in [Requests -> Nat],
         bios' \in [Requests -> Seq(Bios)], flags' \in [Requests -> SUBSET Flags],
         bstate' \in [Bios -> {"fresh", "locking", "waiting", "queued", "done"}],
         boundary_rq' \in Requests \union {NULL}, run' \in BOOLEAN, delayed' \in BOOLEAN,
         pc' = pc, pc.op # "merge", pc.op # "insert", npc' = npc, DriverOK', ChainsOK',
         boundary_rq' # NULL => boundary_rq' \in ToSet(queue_head'),
         Tiles(bios'[rq], sector'[rq], nr'[rq]),
         j = 1 => bios'[rq] = <<>>, j = 3 => "STARTED" \in flags'[rq]
  PROVE  ElevatorInv'
<1>1. /\ ListTypes /\ DataTypes /\ ControlTypes /\ Apart(Homes) /\ LoopOK
      /\ SortedCount /\ CachedPointersLive /\ j \in Outside /\ j \in 1..8
  BY DEF ElevatorInv, Outside
<1>2. /\ rq \in Held /\ rq \in Requests
      /\ prev_pos' \in Nat /\ nr_sorted' = nr_sorted - 1
      /\ higher' = Unlink(higher, rq) /\ lower' = Unlink(lower, rq)
      /\ hkey' \in [Requests -> Nat \union {NULL}] /\ hkey'[rq] = NULL
      /\ \A x \in Requests : x # rq => hkey'[x] = hkey[x]
      /\ last_merge' \in {last_merge, NULL} /\ (last_merge' = NULL \/ last_merge' # rq)
  BY DispatchTakes
<1>3. /\ higher' \in Seq(Requests) /\ lower' \in Seq(Requests)
      /\ NoDuplicates(higher') /\ NoDuplicates(lower')
      /\ Len(higher') + Len(lower') = Len(higher) + Len(lower) - 1
      /\ Held' = Held \ {rq}
      /\ Apart(Homes)' /\ \A x \in Requests : x # rq => SamePlace(x)
  BY <1>1, <1>2, UnlinkHeld
<1>4. ListTypes'
  BY <1>1, <1>3 DEF ListTypes
<1>5. DataTypes'
  BY <1>2 DEF DataTypes
<1>6. ControlTypes'
  BY <1>1, <1>2 DEF ControlTypes
<1>7. LoopOK'
  BY <1>1 DEF LoopOK
<1>8. SortedCount'
  <2>1. Len(higher) \in Nat /\ Len(lower) \in Nat
    BY <1>1 DEF ListTypes
  <2> QED
    BY <1>1, <1>2, <1>3, <2>1 DEF SortedCount
<1>9. CachedPointersLive'
  BY <1>1, <1>2, <1>3 DEF CachedPointersLive
<1>10. \A x \in Requests : x # rq => SameData(x)
  BY <1>2 DEF SameData
<1>11. RequestOK(rq)'
  <2>1. Tiles(bios[rq], sector[rq], nr[rq])'
    BY DEF Tiles, End
  <2>2. rq \in Homes[j]' /\ \A k \in 1..8 : k # j => rq \notin Homes[k]'
    BY <1>1, <1>3 DEF Apart
  <2>3. /\ rq \in free' => j = 1
        /\ rq \in driver' => j = 3
        /\ rq \notin owned' /\ rq \notin InHand' /\ rq \notin ToSet(plug)' /\ rq \notin Held'
    BY <1>3, <2>2, HomeNames
  <2> QED
    BY <1>2, <2>1, <2>3 DEF RequestOK
<1> QED
  BY <1>3, <1>4, <1>5, <1>6, <1>7, <1>8, <1>9, <1>10, <1>11, OneRequest

-----------------------------------------------------------------------------
(* blk_start_request: the driver takes a request and in_flight counts it.  *)
LEMMA DriverTakes ==
  ASSUME DriverOK, NEW rq, rq \notin driver, driver' = driver \union {rq},
         \A x \in driver : flags'[x] = flags[x], "STARTED" \in flags'[rq],
         in_flight' = in_flight + One(blk_account_rq(flags'[rq]))
  PROVE  DriverOK'
<1> DEFINE F == {x \in driver : IsFs(x)}
           G == {x \in driver' : "PC" \notin flags'[x]}
<1>1. IsFiniteSet(driver) /\ IsFiniteSet(driver') /\ in_flight = Cardinality(F)
  BY FS_AddElement DEF DriverOK, InFlightExact
<1>2. IsFiniteSet(F) /\ Cardinality(F) \in Nat /\ rq \notin F
  BY <1>1, FS_Subset, FS_CardinalityType
<1>3. G = IF "PC" \in flags'[rq] THEN F ELSE F \union {rq}
  BY DEF IsFs
<1> HIDE DEF F, G
<1>4. in_flight' = Cardinality(G)
  <2>1. CASE "PC" \in flags'[rq]
    <3>1. in_flight' = in_flight + 0
      BY <2>1 DEF One, blk_account_rq
    <3> QED
      BY <1>1, <1>2, <1>3, <2>1, <3>1
  <2>2. CASE "PC" \notin flags'[rq]
    <3>1. Cardinality(F \union {rq}) = Cardinality(F) + 1
      BY <1>2, FS_AddElement
    <3>2. in_flight' = in_flight + 1
      BY <2>2 DEF One, blk_account_rq
    <3> QED
      BY <1>1, <1>3, <2>2, <3>1, <3>2
  <2> QED
    BY <2>1, <2>2
<1> QED
  BY <1>1, <1>4 DEF DriverOK, InFlightExact, IsFs, G

(* The driver gives a request back, requeued or finished.                  *)
LEMMA DriverGives ==
  ASSUME DriverOK, NEW rq \in driver, driver' = driver \ {rq},
         \A x \in driver : x # rq => flags'[x] = flags[x], "STARTED" \in flags[rq],
         in_flight' = in_flight - One(blk_account_rq(flags[rq]))
  PROVE  DriverOK' /\ in_flight' \in Nat
<1> DEFINE F == {x \in driver : IsFs(x)}
           G == {x \in driver' : "PC" \notin flags'[x]}
<1>1. IsFiniteSet(driver) /\ IsFiniteSet(driver') /\ in_flight = Cardinality(F)
  BY FS_RemoveElement DEF DriverOK, InFlightExact
<1>2. IsFiniteSet(F) /\ Cardinality(F) \in Nat /\ IsFiniteSet(F \ {rq})
  BY <1>1, FS_Subset, FS_CardinalityType, FS_RemoveElement
<1>3. G = F \ {rq}
  BY DEF IsFs
<1> HIDE DEF F, G
<1>4. in_flight' = Cardinality(G)
  <2>1. CASE "PC" \in flags[rq]
    <3>1. F \ {rq} = F
      BY <2>1 DEF IsFs, F
    <3> QED
      <4>1. in_flight' = in_flight - 0
        BY <2>1 DEF One, blk_account_rq
      <4> QED
        BY <1>1, <1>2, <1>3, <3>1, <4>1
  <2>2. CASE "PC" \notin flags[rq]
    <3>1. rq \in F
      BY <2>2 DEF IsFs, F
    <3>2. Cardinality(F \ {rq}) = Cardinality(F) - 1
      BY <1>2, <3>1, FS_RemoveElement
    <3>3. in_flight' = in_flight - 1
      BY <2>2 DEF One, blk_account_rq
    <3> QED
      BY <1>1, <1>3, <3>2, <3>3
  <2> QED
    BY <2>1, <2>2
<1> QED
  BY <1>1, <1>2, <1>3, <1>4, FS_CardinalityType DEF DriverOK, InFlightExact, IsFs, G

(* One round of elv_drain_elevator.                                        *)
LEMMA DrainOK == ASSUME ElevatorInv, elv_drain_elevator PROVE ElevatorInv'
<1>1. PICK rq \in Requests : /\ Dispatch(rq) /\ boundary_rq' = rq
                             /\ queue_head' = Append(queue_head, rq)
  BY DEF elv_drain_elevator, list_add_tail
<1>2. /\ pc.op = "back"
      /\ UNCHANGED <<geometry, flags, places, in_flight, run, delayed, bstate, pc, npc>>
  BY DEF elv_drain_elevator
<1>3. /\ ListTypes /\ DataTypes /\ ControlTypes /\ Apart(Homes) /\ ChainsOK /\ RequestOK(rq)
      /\ rq \in Held
  BY <1>1, DispatchTakes DEF ElevatorInv
<1>4. /\ queue_head' \in Seq(Requests) /\ NoDuplicates(queue_head')
      /\ ToSet(queue_head') = ToSet(queue_head) \union {rq}
  BY <1>1, <1>3, AppendEntries, PlacesApart DEF ListTypes
<1>5. Homes[7]' = Homes[7] \union {rq}
  BY <1>4, HomeNames
<1>6. \A k \in Outside \ {7} : Homes[k]' = Homes[k]
  <2>1. InHand' = InHand
    BY <1>2 DEF InHand
  <2> QED
    BY <1>2, <2>1, HomeNames DEF Outside, places
<1>7. DriverOK'
  BY <1>2, DriverKept DEF ElevatorInv, places
<1>8. ChainsOK'
  BY <1>2, <1>3, ChainsKept DEF geometry
<1>9. /\ plug' = plug /\ free' \subseteq Requests /\ owned' = owned /\ driver' \subseteq Requests
      /\ sector' \in [Requests -> Nat] /\ nr' \in [Requests -> Nat]
      /\ bios' \in [Requests -> Seq(Bios)] /\ flags' \in [Requests -> SUBSET Flags]
  BY <1>2, <1>3 DEF ListTypes, DataTypes, geometry, places
<1>10. /\ bstate' \in [Bios -> {"fresh", "locking", "waiting", "queued", "done"}]
       /\ run' \in BOOLEAN /\ delayed' \in BOOLEAN
       /\ pc' = pc /\ pc.op # "merge" /\ pc.op # "insert" /\ npc' = npc
  BY <1>2, <1>3 DEF ControlTypes
<1>11. \A x \in Requests : x # rq => /\ flags'[x] = flags[x] /\ sector'[x] = sector[x]
                                     /\ nr'[x] = nr[x] /\ bios'[x] = bios[x]
  BY <1>2 DEF geometry
<1>12. Tiles(bios'[rq], sector'[rq], nr'[rq])
  BY <1>2, <1>3 DEF RequestOK, geometry
<1>13. /\ boundary_rq' \in Requests \union {NULL}
       /\ boundary_rq' # NULL => boundary_rq' \in ToSet(queue_head')
  BY <1>1, <1>4
<1>14. Dispatch(rq) /\ queue_head' \in Seq(Requests) /\ NoDuplicates(queue_head')
  BY <1>1, <1>4
<1>15. 7 \in {1, 3, 7} /\ 7 # 1 /\ 7 # 3
  OBVIOUS
<1> QED
  BY <1>5, <1>6, <1>7, <1>8, <1>9, <1>10, <1>11, <1>12, <1>13, <1>14, <1>15, DispatchMove

(***************************************************************************)
(* blk_peek_request when the request then leaves the queue: for the driver *)
(* or, killed, for the free ones.                                          *)
(***************************************************************************)
LEMMA PeekMove ==
  ASSUME ElevatorInv, NEW rq \in Requests, CanRun, blk_peek_request(rq),
         queue_head' = RestOfQueue, NEW j \in {1, 3},
         Homes[j]' = Homes[j] \union {rq}, \A k \in Outside \ {j, 7} : Homes[k]' = Homes[k],
         \A x \in Requests : x # rq => /\ flags'[x] = flags[x] /\ sector'[x] = sector[x]
                                       /\ nr'[x] = nr[x] /\ bios'[x] = bios[x],
         plug' = plug, free' \subseteq Requests, owned' = owned, driver' \subseteq Requests,
         sector' \in [Requests -> Nat], nr' \in [Requests -> Nat],
         bios' \in [Requests -> Seq(Bios)], flags' \in [Requests -> SUBSET Flags],
         bstate' \in [Bios -> {"fresh", "locking", "waiting", "queued", "done"}],
         run' = run, delayed' = delayed, pc' = pc, npc' = npc, DriverOK', ChainsOK',
         Tiles(bios'[rq], sector'[rq], nr'[rq]),
         j = 1 => bios'[rq] = <<>>, j = 3 => "STARTED" \in flags'[rq]
  PROVE  ElevatorInv'
<1>1. /\ ListTypes /\ DataTypes /\ ControlTypes /\ Apart(Homes) /\ CachedPointersLive
      /\ pc.op # "merge" /\ pc.op # "insert" /\ pc.op # "back"
      /\ j \in Outside /\ 7 \in Outside /\ j # 7 /\ j \in 1..8
  BY DEF ElevatorInv, CanRun, Outside
<1>2. CASE /\ queue_head # <<>> /\ rq = Head(queue_head)
           /\ boundary_rq' = IF boundary_rq = rq THEN NULL ELSE boundary_rq
           /\ UNCHANGED <<sched, nr_sorted, last_merge, hkey>>
  <2>1. /\ rq \in ToSet(queue_head) /\ queue_head' \in Seq(Requests) /\ NoDuplicates(queue_head')
        /\ ToSet(queue_head') = ToSet(queue_head) \ {rq}
    BY <1>1, <1>2, TailEntries DEF ListTypes, RestOfQueue
  <2>2. Shift(7, j, rq)
    <3>1. rq \in Homes[7] /\ Homes[7]' = Homes[7] \ {rq}
      BY <2>1, HomeNames
    <3>2. Homes[5]' = Homes[5] /\ Homes[6]' = Homes[6]
      BY <1>2, HomeNames DEF sched
    <3>3. ASSUME NEW k \in (1..8) \ {7, j} PROVE Homes[k]' = Homes[k]
      BY <3>2 DEF Outside
    <3> QED
      BY <3>1, <3>3 DEF Shift
  <2>3. ListTypes' /\ DataTypes'
    BY <1>1, <1>2, <2>1 DEF ListTypes, DataTypes, sched
  <2>4. ControlTypes' /\ LoopOK'
    <3>1. boundary_rq' \in Requests \union {NULL}
      BY <1>1, <1>2 DEF ControlTypes
    <3> QED
      BY <1>1, <1>2, <3>1 DEF ControlTypes, LoopOK
  <2>5. boundary_rq' # NULL => boundary_rq' \in ToSet(queue_head')
    BY <1>1, <1>2, <2>1 DEF CachedPointersLive
  <2>6. /\ j \in {2, 8} => bios'[rq] # <<>>
        /\ j \in {2, 4, 8} => "SORTED" \notin flags'[rq]
    OBVIOUS
  <2>7. UNCHANGED <<sched, nr_sorted, last_merge, hkey>>
    BY <1>2
  <2> QED
    BY <1>1, <2>2, <2>3, <2>4, <2>5, <2>6, <2>7, OutsideMove
<1>3. CASE queue_head = <<>> /\ Dispatch(rq) /\ boundary_rq' = NULL
  <2>1. queue_head' = <<>> /\ queue_head' \in Seq(Requests) /\ NoDuplicates(queue_head')
    BY <1>1, <1>3 DEF RestOfQueue, ListTypes
  <2>2. Homes[7]' = Homes[7]
    BY <1>3, <2>1, HomeNames
  <2>3. \A k \in Outside \ {j} : Homes[k]' = Homes[k]
    BY <2>2
  <2>4. /\ boundary_rq' \in Requests \union {NULL}
        /\ boundary_rq' # NULL => boundary_rq' \in ToSet(queue_head')
        /\ run' \in BOOLEAN /\ delayed' \in BOOLEAN
    BY <1>1, <1>3 DEF ControlTypes
  <2>5. j \in {1, 3, 7}
    OBVIOUS
  <2> QED
    BY <1>1, <1>3, <2>1, <2>3, <2>4, <2>5, DispatchMove
<1> QED
  BY <1>2, <1>3 DEF blk_peek_request

(* A request that is looked at is in the dispatch queue or the scheduler.  *)
LEMMA PeekFinds ==
  ASSUME ElevatorInv, NEW rq \in Requests, blk_peek_request(rq)
  PROVE  rq \in ToSet(queue_head) \union Held
<1>1. CASE queue_head # <<>> /\ rq = Head(queue_head)
  BY <1>1, TailEntries DEF ElevatorInv, ListTypes
<1>2. CASE Dispatch(rq)
  BY <1>2, DispatchTakes
<1> QED
  BY <1>1, <1>2 DEF blk_peek_request

(* blk_fetch_request: the driver takes the next request.                   *)
LEMMA FetchOK ==
  ASSUME ElevatorInv, NEW rq \in Requests, blk_fetch_request(rq)
  PROVE  ElevatorInv'
<1>0. /\ CanRun /\ blk_peek_request(rq) /\ queue_head' = RestOfQueue /\ driver' = driver \union {rq}
      /\ flags' = [flags EXCEPT ![rq] = @ \union {"STARTED"}]
      /\ in_flight' = in_flight + One(blk_account_rq(flags'[rq]))
      /\ UNCHANGED <<geometry, free, owned, plug, run, delayed, bstate, pc, npc>>
  BY DEF blk_fetch_request
<1>1. /\ ListTypes /\ DataTypes /\ ControlTypes /\ Apart(Homes) /\ ChainsOK /\ RequestOK(rq)
      /\ DriverOK
  BY DEF ElevatorInv
<1>2. rq \notin driver
  BY <1>0, <1>1, PeekFinds, PlacesApart
<1>3. /\ flags' \in [Requests -> SUBSET Flags] /\ flags'[rq] = flags[rq] \union {"STARTED"}
      /\ \A x \in Requests : x # rq => flags'[x] = flags[x]
  <2>1. flags[rq] \union {"STARTED"} \in SUBSET Flags
    BY <1>1 DEF DataTypes, Flags
  <2> QED
    BY <1>0, <1>1, <2>1 DEF DataTypes
<1>4. DriverOK'
  <2>1. \A x \in driver : flags'[x] = flags[x]
    BY <1>1, <1>2, <1>3 DEF ListTypes
  <2>2. "STARTED" \in flags'[rq]
    BY <1>3
  <2>3. driver' = driver \union {rq} /\ in_flight' = in_flight + One(blk_account_rq(flags'[rq]))
    BY <1>0
  <2> QED
    BY <1>1, <1>2, <2>1, <2>2, <2>3, DriverTakes
<1>5. ChainsOK'
  BY <1>0, <1>1, ChainsKept DEF geometry
<1>6. Homes[3]' = Homes[3] \union {rq} /\ \A k \in Outside \ {3, 7} : Homes[k]' = Homes[k]
  <2>1. InHand' = InHand
    BY <1>0 DEF InHand
  <2> QED
    BY <1>0, <2>1, HomeNames DEF Outside
<1>7. \A x \in Requests : x # rq => /\ flags'[x] = flags[x] /\ sector'[x] = sector[x]
                                    /\ nr'[x] = nr[x] /\ bios'[x] = bios[x]
  BY <1>0, <1>3 DEF geometry
<1>8. /\ plug' = plug /\ free' \subseteq Requests /\ owned' = owned /\ driver' \subseteq Requests
      /\ sector' \in [Requests -> Nat] /\ nr' \in [Requests -> Nat]
      /\ bios' \in [Requests -> Seq(Bios)] /\ flags' \in [Requests -> SUBSET Flags]
      /\ bstate' \in [Bios -> {"fresh", "locking", "waiting", "queued", "done"}]
  BY <1>0, <1>1, <1>3 DEF ListTypes, DataTypes, ControlTypes, geometry
<1>9. Tiles(bios'[rq], sector'[rq], nr'[rq]) /\ "STARTED" \in flags'[rq]
  BY <1>0, <1>1, <1>3 DEF RequestOK, geometry
<1>10. /\ CanRun /\ blk_peek_request(rq) /\ queue_head' = RestOfQueue /\ 3 \in {1, 3} /\ 3 # 1
       /\ run' = run /\ delayed' = delayed /\ pc' = pc /\ npc' = npc
  BY <1>0
<1> QED
  BY <1>4, <1>5, <1>6, <1>7, <1>8, <1>9, <1>10, PeekMove

(* BLKPREP_KILL: the next request is ended at once.                        *)
LEMMA KillOK ==
  ASSUME ElevatorInv, NEW rq \in Requests, peek_and_kill(rq)
  PROVE  ElevatorInv'
<1>0. /\ CanRun /\ blk_peek_request(rq) /\ queue_head' = RestOfQueue
      /\ flags' = [flags EXCEPT ![rq] = {}]
      /\ sector' = [sector EXCEPT ![rq] = 0] /\ nr' = [nr EXCEPT ![rq] = 0]
      /\ bios' = [bios EXCEPT ![rq] = <<>>]
      /\ bstate' = [b \in Bios |-> IF b \in Own(rq) THEN "done" ELSE bstate[b]]
      /\ free' = free \union {rq}
      /\ UNCHANGED <<owned, plug, driver, in_flight, run, delayed, pc, npc>>
  BY DEF peek_and_kill, Own
<1>1. /\ ListTypes /\ DataTypes /\ ControlTypes /\ Apart(Homes) /\ ChainsOK /\ RequestOK(rq)
      /\ DriverOK
  BY DEF ElevatorInv
<1>2. rq \notin driver
  BY <1>0, <1>1, PeekFinds, PlacesApart
<1>3. /\ sector' \in [Requests -> Nat] /\ nr' \in [Requests -> Nat]
      /\ bios' \in [Requests -> Seq(Bios)] /\ flags' \in [Requests -> SUBSET Flags]
      /\ bstate' \in [Bios -> {"fresh", "locking", "waiting", "queued", "done"}]
      /\ bios'[rq] = <<>>
  <2>1. <<>> \in Seq(Bios) /\ {} \in SUBSET Flags
    OBVIOUS
  <2> QED
    BY <1>0, <1>1, <2>1 DEF DataTypes, ControlTypes
<1>4. \A x \in Requests : x # rq => /\ flags'[x] = flags[x] /\ sector'[x] = sector[x]
                                    /\ nr'[x] = nr[x] /\ bios'[x] = bios[x]
  BY <1>0, <1>1 DEF DataTypes
<1>5. DriverOK'
  <2>1. \A x \in driver : x \in Requests /\ x # rq
    BY <1>1, <1>2 DEF ListTypes
  <2> QED
    BY <1>0, <1>1, <1>4, <2>1, DriverKept
<1>6. ChainsOK'
  <2>1. ToSet(<<>>) = {}
    BY DEF ToSet
  <2>2. Own(rq)' = {} /\ \A x \in Requests \ {rq} : Own(x)' = Own(x)
    BY <1>3, <1>4, <2>1 DEF Own
  <2>3. \A b \in Bios : IF b \in Own(rq) THEN bstate'[b] = "done" ELSE bstate'[b] = bstate[b]
    BY <1>0
  <2>4. PICK D : D = Own(rq)
    OBVIOUS
  <2> QED
    BY <1>1, <2>2, <2>3, <2>4, ChainsEnd
<1>7. Homes[1]' = Homes[1] \union {rq} /\ \A k \in Outside \ {1, 7} : Homes[k]' = Homes[k]
  <2>1. InHand' = InHand
    BY <1>0 DEF InHand
  <2> QED
    BY <1>0, <2>1, HomeNames DEF Outside
<1>8. plug' = plug /\ free' \subseteq Requests /\ owned' = owned /\ driver' \subseteq Requests
  BY <1>0, <1>1 DEF ListTypes
<1>9. Tiles(bios'[rq], sector'[rq], nr'[rq])
  BY <1>3, TilesNone
<1>10. /\ CanRun /\ blk_peek_request(rq) /\ queue_head' = RestOfQueue /\ 1 \in {1, 3} /\ 1 # 3
       /\ run' = run /\ delayed' = delayed /\ pc' = pc /\ npc' = npc
  BY <1>0
<1> QED
  BY <1>3, <1>4, <1>5, <1>6, <1>7, <1>8, <1>9, <1>10, PeekMove

(* A request that is looked at and left in the queue.                      *)
LEMMA LeaveOK ==
  ASSUME ElevatorInv, NEW rq \in Requests, peek_and_leave(rq)
  PROVE  ElevatorInv'
<1>0. /\ CanRun /\ blk_peek_request(rq) /\ queue_head' = <<rq>> \o RestOfQueue
      /\ flags' = [flags EXCEPT ![rq] = @ \union {"STARTED"}] /\ run' = FALSE
      /\ delayed' = (delayed \/ Cardinality(driver) < Depth)
      /\ UNCHANGED <<geometry, places, in_flight, bstate, pc, npc>>
  BY DEF peek_and_leave
<1>1. /\ ListTypes /\ DataTypes /\ ControlTypes /\ Apart(Homes) /\ ChainsOK /\ RequestOK(rq)
      /\ DriverOK /\ CachedPointersLive /\ SortedCount
      /\ pc.op # "merge" /\ pc.op # "insert" /\ pc.op # "back"
  BY <1>0 DEF ElevatorInv, CanRun
<1>2. rq \notin driver /\ rq \notin free /\ rq \notin owned /\ rq \notin ToSet(plug) /\ rq \notin InHand
  BY <1>0, <1>1, PeekFinds, PlacesApart
<1>3. /\ flags' \in [Requests -> SUBSET Flags] /\ flags'[rq] = flags[rq] \union {"STARTED"}
      /\ \A x \in Requests : x # rq => flags'[x] = flags[x]
  <2>1. flags[rq] \union {"STARTED"} \in SUBSET Flags
    BY <1>1 DEF DataTypes, Flags
  <2> QED
    BY <1>0, <1>1, <2>1 DEF DataTypes
<1>4. DriverOK'
  <2>1. \A x \in driver : x \in Requests /\ x # rq
    BY <1>1, <1>2 DEF ListTypes
  <2> QED
    BY <1>0, <1>1, <1>3, <2>1, DriverKept DEF places
<1>5. ChainsOK'
  BY <1>0, <1>1, ChainsKept DEF geometry
<1>6. \A x \in Requests : x # rq => /\ flags'[x] = flags[x] /\ sector'[x] = sector[x]
                                    /\ nr'[x] = nr[x] /\ bios'[x] = bios[x]
  BY <1>0, <1>3 DEF geometry
<1>7. \A k \in Outside \ {7} : Homes[k]' = Homes[k]
  <2>1. InHand' = InHand
    BY <1>0 DEF InHand
  <2> QED
    BY <1>0, <2>1, HomeNames DEF Outside, places
<1>8. Tiles(bios'[rq], sector'[rq], nr'[rq])
  BY <1>0, <1>1 DEF RequestOK, geometry
<1>9. /\ plug' = plug /\ free' \subseteq Requests /\ owned' = owned /\ driver' \subseteq Requests
      /\ sector' \in [Requests -> Nat] /\ nr' \in [Requests -> Nat]
      /\ bios' \in [Requests -> Seq(Bios)] /\ flags' \in [Requests -> SUBSET Flags]
  BY <1>0, <1>1, <1>3 DEF ListTypes, DataTypes, geometry, places
<1>10. /\ bstate' \in [Bios -> {"fresh", "locking", "waiting", "queued", "done"}]
       /\ run' \in BOOLEAN /\ delayed' \in BOOLEAN /\ pc' = pc /\ npc' = npc
  BY <1>0, <1>1 DEF ControlTypes
<1>11. /\ RestOfQueue \in Seq(Requests) /\ NoDuplicates(RestOfQueue) /\ rq \notin ToSet(RestOfQueue)
       /\ ToSet(RestOfQueue) = ToSet(queue_head) \ {rq}
  <2>1. CASE queue_head # <<>> /\ rq = Head(queue_head)
    BY <1>1, <2>1, TailEntries DEF ListTypes, RestOfQueue
  <2>2. CASE queue_head = <<>>
    <3>1. ToSet(<<>>) = {} /\ RestOfQueue = <<>>
      BY <2>2 DEF ToSet, RestOfQueue
    <3> QED
      BY <1>1, <2>2, <3>1 DEF ListTypes
  <2> QED
    BY <1>0, <2>1, <2>2 DEF blk_peek_request
<1>12. /\ queue_head' \in Seq(Requests) /\ NoDuplicates(queue_head')
       /\ ToSet(queue_head') = ToSet(queue_head) \union {rq}
  <2>1. queue_head' = Cons(rq, RestOfQueue)
    BY <1>0 DEF Cons
  <2>2. /\ Cons(rq, RestOfQueue) \in Seq(Requests) /\ NoDuplicates(Cons(rq, RestOfQueue))
        /\ ToSet(Cons(rq, RestOfQueue)) = ToSet(RestOfQueue) \union {rq}
    BY <1>11, ConsEntries
  <2> QED
    BY <1>11, <2>1, <2>2
<1>13. Homes[7]' = Homes[7] \union {rq}
  BY <1>12, HomeNames
<1>14. CASE /\ queue_head # <<>> /\ rq = Head(queue_head)
            /\ boundary_rq' = IF boundary_rq = rq THEN NULL ELSE boundary_rq
            /\ UNCHANGED <<sched, nr_sorted, last_merge, hkey>>
  <2>1. rq \in ToSet(queue_head)
    BY <1>1, <1>14, TailEntries DEF ListTypes
  <2>2. \A k \in 1..8 : Homes[k]' = Homes[k]
    <3>1. Homes[7]' = Homes[7]
      BY <1>13, <2>1, HomeNames
    <3>2. Homes[5]' = Homes[5] /\ Homes[6]' = Homes[6]
      BY <1>14, HomeNames DEF sched
    <3> QED
      BY <1>7, <3>1, <3>2 DEF Outside
  <2>3. Apart(Homes)'
    BY <1>1, <2>2 DEF Apart
  <2>4. higher' = higher /\ lower' = lower /\ InHand' = InHand /\ Held' = Held /\ rq \notin Held
    BY <1>0, <1>1, <1>14, <2>1, PlacesApart DEF sched, InHand, Held
  <2>5. \A x \in Requests : SamePlace(x)
    BY <1>0, <2>4 DEF SamePlace, places
  <2>6. \A x \in Requests : x # rq => SameData(x)
    BY <1>6, <1>14 DEF SameData
  <2>7. ListTypes' /\ DataTypes'
    BY <1>0, <1>1, <1>9, <1>12, <1>14, <2>4 DEF ListTypes, DataTypes, sched
  <2>8. ControlTypes' /\ LoopOK'
    <3>1. boundary_rq' \in Requests \union {NULL}
      BY <1>1, <1>14 DEF ControlTypes
    <3> QED
      BY <1>1, <1>10, <1>14, <3>1 DEF ControlTypes, LoopOK
  <2>9. SortedCount' /\ CachedPointersLive'
    BY <1>1, <1>12, <1>14, <2>4 DEF SortedCount, CachedPointersLive
  <2>10. RequestOK(rq)'
    <3>1. Tiles(bios[rq], sector[rq], nr[rq])'
      BY <1>8 DEF Tiles, End
    <3>2. hkey'[rq] = NULL
      BY <1>1, <1>14, <2>4 DEF RequestOK
    <3> QED
      BY <1>2, <2>4, <2>5, <3>1, <3>2 DEF RequestOK, SamePlace
  <2> QED
    BY <1>4, <1>5, <2>3, <2>5, <2>6, <2>7, <2>8, <2>9, <2>10, OneRequest
<1>15. CASE queue_head = <<>> /\ Dispatch(rq) /\ boundary_rq' = NULL
  <2>1. /\ boundary_rq' \in Requests \union {NULL}
        /\ boundary_rq' # NULL => boundary_rq' \in ToSet(queue_head')
        /\ queue_head' \in Seq(Requests) /\ NoDuplicates(queue_head')
        /\ pc.op # "merge" /\ pc.op # "insert" /\ 7 \in {1, 3, 7} /\ 7 # 1 /\ 7 # 3
    BY <1>1, <1>12, <1>15
  <2> QED
    BY <1>4, <1>5, <1>6, <1>7, <1>8, <1>9, <1>10, <1>13, <1>15, <2>1, DispatchMove
<1> QED
  BY <1>0, <1>14, <1>15 DEF blk_peek_request

-----------------------------------------------------------------------------
(* blk_requeue_request: the driver gives a request back, unfinished.       *)
LEMMA RequeueOK ==
  ASSUME ElevatorInv, NEW rq \in Requests, blk_requeue_request(rq)
  PROVE  ElevatorInv'
<1>0. /\ pc.op = "idle" /\ rq \in driver /\ driver' = driver \ {rq} /\ delayed' = TRUE
      /\ in_flight' = in_flight - One(blk_account_rq(flags[rq]))
      /\ boundary_rq' = IF "SOFTBARRIER" \in flags[rq] /\ IsFs(rq) THEN rq ELSE boundary_rq
      /\ flags' = [flags EXCEPT ![rq] = (@ \ {"STARTED"}) \union {"SOFTBARRIER"}]
      /\ queue_head' = <<rq>> \o queue_head
      /\ UNCHANGED <<sched, nr_sorted, last_merge, hkey, geometry, free, owned, plug, run, bstate,
                     pc, npc>>
  BY DEF blk_requeue_request, elv_requeue_request
<1>1. /\ ListTypes /\ DataTypes /\ ControlTypes /\ Apart(Homes) /\ ChainsOK /\ RequestOK(rq)
      /\ DriverOK /\ CachedPointersLive /\ higher' = higher /\ lower' = lower /\ InHand' = InHand
  BY <1>0 DEF ElevatorInv, sched, InHand
<1>2. /\ queue_head' \in Seq(Requests) /\ NoDuplicates(queue_head')
      /\ ToSet(queue_head') = ToSet(queue_head) \union {rq}
  <2>1. queue_head' = Cons(rq, queue_head)
    BY <1>0 DEF Cons
  <2>2. rq \notin ToSet(queue_head) /\ queue_head \in Seq(Requests) /\ NoDuplicates(queue_head)
    BY <1>0, <1>1, PlacesApart DEF ListTypes
  <2> QED
    BY <2>1, <2>2, ConsEntries
<1>3. /\ flags' \in [Requests -> SUBSET Flags]
      /\ \A x \in Requests : x # rq => flags'[x] = flags[x]
  <2>1. (flags[rq] \ {"STARTED"}) \union {"SOFTBARRIER"} \in SUBSET Flags
    BY <1>1 DEF DataTypes, Flags
  <2> QED
    BY <1>0, <1>1, <2>1 DEF DataTypes
<1>4. Shift(3, 7, rq) /\ 3 \in Outside /\ 7 \in Outside
  <2>1. /\ rq \in Homes[3] /\ Homes[1]' = Homes[1] /\ Homes[2]' = Homes[2]
        /\ Homes[3]' = Homes[3] \ {rq} /\ Homes[4]' = Homes[4] /\ Homes[5]' = Homes[5]
        /\ Homes[6]' = Homes[6] /\ Homes[8]' = Homes[8]
    BY <1>0, <1>1, HomeNames
  <2>2. Homes[7]' = Homes[7] \union {rq}
    BY <1>2, HomeNames
  <2> QED
    BY <2>1, <2>2 DEF Shift, Outside
<1>5. ListTypes' /\ DataTypes'
  BY <1>0, <1>1, <1>2, <1>3 DEF ListTypes, DataTypes, geometry, sched
<1>6. ControlTypes' /\ LoopOK'
  <2>1. boundary_rq' \in Requests \union {NULL}
    BY <1>0, <1>1 DEF ControlTypes
  <2> QED
    BY <1>0, <1>1, <2>1 DEF ControlTypes, LoopOK
<1>7. DriverOK'
  <2>1. \A x \in driver : x # rq => flags'[x] = flags[x]
    BY <1>1, <1>3 DEF ListTypes
  <2>2. /\ "STARTED" \in flags[rq] /\ rq \in driver /\ driver' = driver \ {rq}
        /\ in_flight' = in_flight - One(blk_account_rq(flags[rq]))
    BY <1>0, <1>1 DEF RequestOK
  <2> QED
    BY <1>1, <2>1, <2>2, DriverGives
<1>8. ChainsOK'
  BY <1>0, <1>1, ChainsKept DEF geometry
<1>9. \A x \in Requests : x # rq => /\ flags'[x] = flags[x] /\ sector'[x] = sector[x]
                                    /\ nr'[x] = nr[x] /\ bios'[x] = bios[x]
  BY <1>0, <1>3 DEF geometry
<1>10. Tiles(bios'[rq], sector'[rq], nr'[rq])
  BY <1>0, <1>1 DEF RequestOK, geometry
<1>11. boundary_rq' # NULL => boundary_rq' \in ToSet(queue_head')
  BY <1>0, <1>1, <1>2 DEF CachedPointersLive
<1>12. UNCHANGED <<sched, nr_sorted, last_merge, hkey>>
  BY <1>0
<1> QED
  BY <1>4, <1>5, <1>6, <1>7, <1>8, <1>9, <1>10, <1>11, <1>12, OutsideMove

(* blk_finish_request and __blk_put_request.                               *)
LEMMA FinishOK ==
  ASSUME ElevatorInv, NEW rq \in Requests, blk_finish_request(rq)
  PROVE  ElevatorInv'
<1>0. /\ pc.op = "idle" /\ rq \in driver /\ driver' = driver \ {rq} /\ run' = TRUE
      /\ bios[rq] = <<>> /\ free' = free \union {rq}
      /\ in_flight' = in_flight - One(blk_account_rq(flags[rq]))
      /\ flags' = [flags EXCEPT ![rq] = {}] /\ sector' = [sector EXCEPT ![rq] = 0]
      /\ UNCHANGED <<sched, queue_head, nr_sorted, last_merge, hkey, nr, bios, owned, plug,
                     boundary_rq, delayed, bstate, pc, npc>>
  BY DEF blk_finish_request, __blk_put_request, elv_completed_request
<1>1. /\ ListTypes /\ DataTypes /\ ControlTypes /\ Apart(Homes) /\ ChainsOK /\ RequestOK(rq)
      /\ DriverOK /\ CachedPointersLive /\ higher' = higher /\ lower' = lower /\ InHand' = InHand
  BY <1>0 DEF ElevatorInv, sched, InHand
<1>2. /\ flags' \in [Requests -> SUBSET Flags] /\ sector' \in [Requests -> Nat]
      /\ \A x \in Requests : x # rq => flags'[x] = flags[x] /\ sector'[x] = sector[x]
  BY <1>0, <1>1 DEF DataTypes
<1>3. Shift(3, 1, rq) /\ 3 \in Outside /\ 1 \in Outside
  BY <1>0, <1>1, HomeNames DEF Shift, Outside
<1>4. ListTypes' /\ DataTypes'
  BY <1>0, <1>1, <1>2 DEF ListTypes, DataTypes, sched
<1>5. ControlTypes' /\ LoopOK'
  BY <1>0, <1>1 DEF ControlTypes, LoopOK
<1>6. DriverOK'
  <2>1. \A x \in driver : x # rq => flags'[x] = flags[x]
    BY <1>1, <1>2 DEF ListTypes
  <2>2. /\ "STARTED" \in flags[rq] /\ rq \in driver /\ driver' = driver \ {rq}
        /\ in_flight' = in_flight - One(blk_account_rq(flags[rq]))
    BY <1>0, <1>1 DEF RequestOK
  <2> QED
    BY <1>1, <2>1, <2>2, DriverGives
<1>7. ChainsOK'
  BY <1>0, <1>1, ChainsKept
<1>8. \A x \in Requests : x # rq => /\ flags'[x] = flags[x] /\ sector'[x] = sector[x]
                                    /\ nr'[x] = nr[x] /\ bios'[x] = bios[x]
  BY <1>0, <1>2
<1>9. Tiles(bios'[rq], sector'[rq], nr'[rq]) /\ bios'[rq] = <<>>
  BY <1>0, TilesNone
<1>10. boundary_rq' # NULL => boundary_rq' \in ToSet(queue_head')
  BY <1>0, <1>1 DEF CachedPointersLive
<1>11. UNCHANGED <<sched, nr_sorted, last_merge, hkey>>
  BY <1>0
<1> QED
  BY <1>3, <1>4, <1>5, <1>6, <1>7, <1>8, <1>9, <1>10, <1>11, OutsideMove

(* An iteration of blk_update_request: one bio of a started request ends.  *)
LEMMA UpdateOK ==
  ASSUME ElevatorInv, NEW rq \in Requests, blk_update_request(rq)
  PROVE  ElevatorInv'
<1> DEFINE bs == bios[rq]
<1>0. PICK b : b = Head(bs)
  OBVIOUS
<1>1. /\ rq \in driver /\ bs # <<>>
      /\ bstate' = [bstate EXCEPT ![b] = "done"] /\ bios' = [bios EXCEPT ![rq] = Tail(bs)]
      /\ nr' = [nr EXCEPT ![rq] = nr[rq] - BioLen[b]]
      /\ sector' = [sector EXCEPT ![rq] = IF Len(bs) = 1 THEN sector[rq] ELSE sector[rq] + BioLen[b]]
      /\ UNCHANGED <<sched, queue_head, nr_sorted, last_merge, hkey, flags, places, driving,
                     pc, npc>>
  BY <1>0 DEF blk_update_request
<1>2. /\ ListTypes /\ DataTypes /\ ControlTypes /\ Apart(Homes) /\ ChainsOK /\ RequestOK(rq)
      /\ DriverOK /\ CachedPointersLive /\ SortedCount /\ LoopOK
      /\ higher' = higher /\ lower' = lower /\ InHand' = InHand /\ Held' = Held
  BY <1>1 DEF ElevatorInv, sched, InHand, Held
<1>3. bs \in Seq(Bios) /\ sector[rq] \in Nat /\ nr[rq] \in Nat /\ Tiles(bs, sector[rq], nr[rq])
  BY <1>2 DEF DataTypes, RequestOK
<1> HIDE DEF bs
<1>4. /\ nr[rq] - BioLen[b] \in Nat
      /\ Len(bs) = 1 <=> Tail(bs) = <<>>
      /\ Tail(bs) # <<>> => Tiles(Tail(bs), sector[rq] + BioLen[b], nr[rq] - BioLen[b])
      /\ Tail(bs) = <<>> => Tiles(Tail(bs), sector[rq], nr[rq] - BioLen[b])
  BY <1>0, <1>1, <1>3, TilesTail
<1>5. /\ b \in ToSet(bs) /\ b \in Bios /\ Tail(bs) \in Seq(Bios) /\ NoDuplicates(bs)
      /\ ToSet(Tail(bs)) = ToSet(bs) \ {b}
  <2>1. NoDuplicates(bs)
    BY <1>3, TilesWithin
  <2> QED
    BY <1>0, <1>1, <1>3, <2>1, TailEntries
<1>6. BioLen[b] \in Nat
  BY <1>5, BioFacts
<1>7. /\ nr' \in [Requests -> Nat] /\ sector' \in [Requests -> Nat] /\ bios' \in [Requests -> Seq(Bios)]
      /\ \A x \in Requests : x # rq => sector'[x] = sector[x] /\ nr'[x] = nr[x] /\ bios'[x] = bios[x]
      /\ nr'[rq] = nr[rq] - BioLen[b] /\ bios'[rq] = Tail(bs)
      /\ sector'[rq] = IF Len(bs) = 1 THEN sector[rq] ELSE sector[rq] + BioLen[b]
  BY <1>1, <1>2, <1>3, <1>4, <1>5, <1>6 DEF DataTypes
<1>8. Tiles(bios'[rq], sector'[rq], nr'[rq])
  BY <1>4, <1>7
<1>9. Apart(Homes)' /\ \A x \in Requests : SamePlace(x)
  BY <1>1, <1>2, AllStay DEF places
<1>10. \A x \in Requests : x # rq => SameData(x)
  BY <1>1, <1>7 DEF SameData
<1>11. /\ rq \notin Held /\ rq \notin owned /\ rq \notin ToSet(plug) /\ rq \notin InHand
       /\ rq \notin free
  BY <1>1, <1>2, PlacesApart
<1>12. RequestOK(rq)'
  <2>1. Tiles(bios[rq], sector[rq], nr[rq])'
    BY <1>8 DEF Tiles, End
  <2>2. hkey'[rq] = NULL /\ "STARTED" \in flags'[rq]
    BY <1>1, <1>2, <1>11 DEF RequestOK
  <2> QED
    BY <1>9, <1>11, <2>1, <2>2 DEF RequestOK, SamePlace
<1>13. ListTypes' /\ DataTypes'
  BY <1>1, <1>2, <1>7 DEF ListTypes, DataTypes, sched, places
<1>14. ControlTypes'
  BY <1>1, <1>2 DEF ControlTypes, driving
<1>15. LoopOK'
  <2>1. ASSUME pc.op \in {"merge", "insert"} PROVE pc.rq # rq
    BY <1>2, <1>11, <2>1 DEF LoopOK, InHand
  <2> QED
    BY <1>1, <1>2, <1>7, <2>1 DEF LoopOK
<1>16. SortedCount' /\ CachedPointersLive'
  BY <1>1, <1>2 DEF SortedCount, CachedPointersLive, driving
<1>17. DriverOK'
  BY <1>1, <1>2, DriverKept DEF places, driving
<1>18. ChainsOK'
  <2>1. PICK D : D = {b}
    OBVIOUS
  <2>2. D \subseteq Own(rq) /\ Own(rq)' = Own(rq) \ D /\ \A x \in Requests \ {rq} : Own(x)' = Own(x)
    BY <1>5, <1>7, <2>1 DEF Own, bs
  <2>3. \A c \in Bios : IF c \in D THEN bstate'[c] = "done" ELSE bstate'[c] = bstate[c]
    BY <1>1, <1>2, <2>1 DEF ControlTypes
  <2> QED
    BY <1>2, <2>2, <2>3, ChainsEnd
<1> QED
  BY <1>9, <1>10, <1>12, <1>13, <1>14, <1>15, <1>16, <1>17, <1>18, OneRequest

-----------------------------------------------------------------------------
(* The rest of the invariant after a merge.                                *)
LEMMA AfterMerge ==
  ASSUME ElevatorInv, MergedOK, queue_head' = queue_head, owned' = owned, driver' = driver,
         plug' \in Seq(Requests), NoDuplicates(plug'), ControlTypes', LoopOK',
         boundary_rq' = boundary_rq, in_flight' = in_flight,
         \A x \in driver : "PC" \in flags'[x] <=> "PC" \in flags[x]
  PROVE  ElevatorInv'
<1>1. ListTypes'
  BY DEF ElevatorInv, MergedOK, ListTypes
<1>2. CachedPointersLive'
  BY DEF ElevatorInv, MergedOK, CachedPointersLive
<1>3. DriverOK'
  BY DriverKept DEF ElevatorInv
<1> QED
  BY <1>1, <1>2, <1>3 DEF ElevatorInv, MergedOK

(* A merge frees no request of the driver.                                 *)
LEMMA MergeSparesDriver ==
  ASSUME ElevatorInv, NEW h, NEW req, NEW next \in Requests, NEW s, NEW n, NEW bs,
         elv_merge_requests(h, req, next, s, n, bs), next \notin driver
  PROVE  \A x \in driver : "PC" \in flags'[x] <=> "PC" \in flags[x]
<1>1. /\ flags' = [flags EXCEPT ![next] = {}] /\ flags \in [Requests -> SUBSET Flags]
      /\ driver \subseteq Requests
  BY DEF elv_merge_requests, ElevatorInv, DataTypes, ListTypes
<1> QED
  BY <1>1

(* blk_flush_plug_list takes the next request of the plug list.            *)
LEMMA FlushNextOK ==
  ASSUME ElevatorInv, NEW i \in 1..Len(plug), flush_next(i)
  PROVE  ElevatorInv'
<1>0. PICK rq : rq = plug[i]
  OBVIOUS
<1>1. /\ ListTypes /\ DataTypes /\ ControlTypes /\ Apart(Homes) /\ ChainsOK /\ CachedPointersLive
      /\ \A x \in Requests : RequestOK(x)
  BY DEF ElevatorInv
<1>2. /\ pc.op = "flush" /\ plug' = RemoveAt(plug, i)
      /\ UNCHANGED <<queue_head, owned, driver, driving, bstate, npc>>
  BY DEF flush_next
<1>3. /\ rq \in ToSet(plug) /\ rq \in Requests /\ plug' \in Seq(Requests) /\ NoDuplicates(plug')
      /\ ToSet(plug') = ToSet(plug) \ {rq}
  <2>1. plug \in Seq(Requests) /\ NoDuplicates(plug)
    BY <1>1 DEF ListTypes
  <2>2. plug' = RemoveFirst(plug, rq)
    BY <1>0, <1>2, <2>1, RemoveAtEntries
  <2>3. rq \in Requests /\ rq \in ToSet(plug)
    BY <1>0, <2>1, Entries
  <2> QED
    BY <2>1, <2>2, <2>3, RemoveEntries
<1>4. /\ InHand = {} /\ "SORTED" \notin flags[rq] /\ bios[rq] # <<>>
      /\ Tiles(bios[rq], sector[rq], nr[rq]) /\ rq \notin driver /\ rq \notin Held
  BY <1>1, <1>2, <1>3, PlacesApart DEF InHand, RequestOK
<1>5. ASSUME pc' = At("back", rq, TRUE) \/ pc' = At("merge", rq, FALSE),
             UNCHANGED <<sched, nr_sorted, last_merge, hkey, geometry, flags, free>>
      PROVE  ElevatorInv'
  <2>1. /\ pc'.op \in {"back", "merge"} /\ pc'.rq = rq /\ (pc'.op = "merge" => ~ pc'.flag)
        /\ pc' \in [op : {"idle", "back", "flush", "merge", "insert"},
                    rq : Requests \union {NULL}, flag : BOOLEAN]
    BY <1>3, <1>5, HolderFields
  <2>2. InHand' = {rq}
    BY <2>1 DEF InHand
  <2>3. Shift(8, 4, rq) /\ 4 \in Outside /\ 8 \in Outside
    <3>1. /\ rq \in Homes[8] /\ Homes[1]' = Homes[1] /\ Homes[2]' = Homes[2]
          /\ Homes[3]' = Homes[3] /\ Homes[4]' = Homes[4] \union {rq} /\ Homes[5]' = Homes[5]
          /\ Homes[6]' = Homes[6] /\ Homes[7]' = Homes[7]
      BY <1>2, <1>3, <1>4, <1>5, <2>2, HomeNames DEF sched
    <3>2. Homes[8]' = Homes[8] \ {rq}
      BY <1>3, HomeNames
    <3> QED
      BY <3>1, <3>2 DEF Shift, Outside
  <2>4. ListTypes' /\ DataTypes'
    BY <1>1, <1>2, <1>3, <1>5 DEF ListTypes, DataTypes, geometry, sched
  <2>5. ControlTypes' /\ LoopOK'
    <3>1. LoopOK'
      BY <1>3, <1>4, <1>5, <2>1 DEF LoopOK, geometry
    <3> QED
      BY <1>1, <1>2, <1>5, <2>1, <3>1 DEF ControlTypes, driving
  <2>6. DriverOK'
    BY <1>2, <1>5, DriverKept DEF ElevatorInv, driving
  <2>7. ChainsOK'
    BY <1>1, <1>2, <1>5, ChainsKept DEF geometry
  <2>8. \A x \in Requests : x # rq => /\ flags'[x] = flags[x] /\ sector'[x] = sector[x]
                                      /\ nr'[x] = nr[x] /\ bios'[x] = bios[x]
    BY <1>5 DEF geometry
  <2>9. Tiles(bios'[rq], sector'[rq], nr'[rq]) /\ "SORTED" \notin flags'[rq]
    BY <1>4, <1>5 DEF geometry
  <2>10. boundary_rq' # NULL => boundary_rq' \in ToSet(queue_head')
    BY <1>1, <1>2 DEF CachedPointersLive, driving
  <2>11. UNCHANGED <<sched, nr_sorted, last_merge, hkey>>
    BY <1>5
  <2> QED
    BY <1>3, <2>3, <2>4, <2>5, <2>6, <2>7, <2>8, <2>9, <2>10, <2>11, OutsideMove
<1>6. ASSUME last_merge # NULL,
             MayJoin(last_merge, rq, rq_end_sector(last_merge), sector[rq],
                     nr[last_merge] + nr[rq]),
             elv_merge_requests(hkey, last_merge, rq, sector[last_merge],
                                nr[last_merge] + nr[rq], bios[last_merge] \o bios[rq]),
             pc' = At("flush", NULL, FALSE)
      PROVE  ElevatorInv'
  <2>1. PICK req : req = last_merge
    OBVIOUS
  <2>2. req \in Held /\ req # rq
    BY <1>1, <1>4, <1>6, <2>1 DEF CachedPointersLive
  <2>3. /\ req \in Requests /\ sector[req] \in Nat /\ nr[req] \in Nat /\ bios[req] \in Seq(Bios)
        /\ bios[req] # <<>> /\ Tiles(bios[req], sector[req], nr[req])
        /\ sector[rq] \in Nat /\ nr[rq] \in Nat /\ bios[rq] \in Seq(Bios)
    BY <1>3, <2>2, HeldFacts
  <2>4. sector[req] + nr[req] = sector[rq]
    BY <1>6, <2>1 DEF MayJoin, rq_end_sector
  <2>5. PICK bs : bs = bios[req] \o bios[rq]
    OBVIOUS
  <2>6. PICK n : n = nr[req] + nr[rq]
    OBVIOUS
  <2>7. /\ bs \in Seq(Bios) /\ bs # <<>> /\ n \in Nat /\ Tiles(bs, sector[req], n)
        /\ ToSet(bs) = Own(req) \union Own(rq)
    BY <1>4, <2>3, <2>4, <2>5, <2>6, RequestsGrow DEF Own
  <2>8. elv_merge_requests(hkey, req, rq, sector[req], n, bs)
    BY <1>6, <2>1, <2>5, <2>6
  <2>9. Trimmed(hkey)
    BY <1>1 DEF Trimmed, DataTypes
  <2>10. /\ pc'.op = "flush"
         /\ pc' \in [op : {"idle", "back", "flush", "merge", "insert"},
                     rq : Requests \union {NULL}, flag : BOOLEAN]
    BY <1>6, HolderFields
  <2>11. MergedFrom(rq)
    <3>1. InHand' = InHand
      BY <1>4, <2>10 DEF InHand
    <3>2. rq \in Homes[8] /\ Homes[8]' = Homes[8] \ {rq}
      BY <1>3, HomeNames
    <3>3. Homes[2]' = Homes[2] /\ Homes[3]' = Homes[3] /\ Homes[4]' = Homes[4] /\ Homes[7]' = Homes[7]
      BY <1>2, <3>1, HomeNames
    <3> QED
      BY <3>2, <3>3 DEF Outside, MergedFrom
  <2>12. PICK E \in SUBSET Bios : E = {}
    OBVIOUS
  <2>13. ToSet(bs) = Own(req) \union Own(rq) \union E /\ Joining(E)
    BY <1>2, <2>7, <2>12 DEF Joining
  <2>14. MergedOK
    BY <1>3, <2>2, <2>3, <2>7, <2>8, <2>9, <2>11, <2>13, MergeRequests
  <2>15. ControlTypes' /\ LoopOK'
    <3>1. last_merge' \in Requests
      BY <2>3, <2>8 DEF elv_merge_requests
    <3> QED
      BY <1>1, <1>2, <2>10, <3>1 DEF ControlTypes, LoopOK, driving
  <2>16. \A x \in driver : "PC" \in flags'[x] <=> "PC" \in flags[x]
    BY <1>3, <1>4, <2>8, MergeSparesDriver
  <2> QED
    BY <1>2, <1>3, <2>14, <2>15, <2>16, AfterMerge DEF driving
<1> QED
  <2>1. \/ /\ pc' = At("back", rq, TRUE) \/ pc' = At("merge", rq, FALSE)
           /\ UNCHANGED <<sched, nr_sorted, last_merge, hkey, geometry, flags, free>>
        \/ /\ last_merge # NULL
           /\ MayJoin(last_merge, rq, rq_end_sector(last_merge), sector[rq],
                      nr[last_merge] + nr[rq])
           /\ elv_merge_requests(hkey, last_merge, rq, sector[last_merge],
                                 nr[last_merge] + nr[rq], bios[last_merge] \o bios[rq])
           /\ pc' = At("flush", NULL, FALSE)
    BY <1>0 DEF flush_next
  <2> QED
    BY <1>5, <1>6, <2>1

(* On a dying queue it ends that request instead.                          *)
LEMMA FlushEndsOK ==
  ASSUME ElevatorInv, NEW i \in 1..Len(plug), flush_ends_next(i)
  PROVE  ElevatorInv'
<1>0. PICK rq : rq = plug[i]
  OBVIOUS
<1>1. /\ ListTypes /\ DataTypes /\ ControlTypes /\ Apart(Homes) /\ ChainsOK /\ CachedPointersLive
      /\ DriverOK
  BY DEF ElevatorInv
<1>2. /\ pc.op = "flush" /\ plug' = RemoveAt(plug, i) /\ pc' = At("flush", NULL, FALSE)
      /\ flags' = [flags EXCEPT ![rq] = {}]
      /\ sector' = [sector EXCEPT ![rq] = 0] /\ nr' = [nr EXCEPT ![rq] = 0]
      /\ bios' = [bios EXCEPT ![rq] = <<>>]
      /\ bstate' = [b \in Bios |-> IF b \in Own(rq) THEN "done" ELSE bstate[b]]
      /\ free' = free \union {rq}
      /\ UNCHANGED <<sched, queue_head, nr_sorted, last_merge, hkey, owned, driver, driving, npc>>
  BY <1>0 DEF flush_ends_next, Own
<1>3. /\ rq \in ToSet(plug) /\ rq \in Requests /\ plug' \in Seq(Requests) /\ NoDuplicates(plug')
      /\ ToSet(plug') = ToSet(plug) \ {rq}
  <2>1. plug \in Seq(Requests) /\ NoDuplicates(plug)
    BY <1>1 DEF ListTypes
  <2>2. plug' = RemoveFirst(plug, rq)
    BY <1>0, <1>2, <2>1, RemoveAtEntries
  <2>3. rq \in Requests /\ rq \in ToSet(plug)
    BY <1>0, <2>1, Entries
  <2> QED
    BY <2>1, <2>2, <2>3, RemoveEntries
<1>4. /\ pc'.op = "flush" /\ InHand = {} /\ InHand' = {} /\ rq \notin driver
      /\ pc' \in [op : {"idle", "back", "flush", "merge", "insert"},
                  rq : Requests \union {NULL}, flag : BOOLEAN]
  <2>1. /\ pc'.op = "flush"
        /\ pc' \in [op : {"idle", "back", "flush", "merge", "insert"},
                    rq : Requests \union {NULL}, flag : BOOLEAN]
    BY <1>2, HolderFields
  <2> QED
    BY <1>1, <1>2, <1>3, <2>1, PlacesApart DEF InHand
<1>5. /\ sector' \in [Requests -> Nat] /\ nr' \in [Requests -> Nat]
      /\ bios' \in [Requests -> Seq(Bios)] /\ flags' \in [Requests -> SUBSET Flags]
      /\ bstate' \in [Bios -> {"fresh", "locking", "waiting", "queued", "done"}]
      /\ bios'[rq] = <<>>
  <2>1. <<>> \in Seq(Bios) /\ {} \in SUBSET Flags
    OBVIOUS
  <2> QED
    BY <1>1, <1>2, <1>3, <2>1 DEF DataTypes, ControlTypes
<1>6. \A x \in Requests : x # rq => /\ flags'[x] = flags[x] /\ sector'[x] = sector[x]
                                    /\ nr'[x] = nr[x] /\ bios'[x] = bios[x]
  BY <1>1, <1>2 DEF DataTypes
<1>7. Shift(8, 1, rq) /\ 8 \in Outside /\ 1 \in Outside
  <2>1. /\ rq \in Homes[8] /\ Homes[1]' = Homes[1] \union {rq} /\ Homes[2]' = Homes[2]
        /\ Homes[3]' = Homes[3] /\ Homes[4]' = Homes[4] /\ Homes[5]' = Homes[5]
        /\ Homes[6]' = Homes[6] /\ Homes[7]' = Homes[7]
    BY <1>2, <1>3, <1>4, HomeNames DEF sched
  <2>2. Homes[8]' = Homes[8] \ {rq}
    BY <1>3, HomeNames
  <2> QED
    BY <2>1, <2>2 DEF Shift, Outside
<1>8. ListTypes' /\ DataTypes'
  BY <1>1, <1>2, <1>3, <1>5 DEF ListTypes, DataTypes, sched
<1>9. ControlTypes' /\ LoopOK'
  BY <1>1, <1>2, <1>4, <1>5 DEF ControlTypes, LoopOK, driving
<1>10. DriverOK'
  <2>1. \A x \in driver : x \in Requests /\ x # rq
    BY <1>1, <1>4 DEF ListTypes
  <2> QED
    BY <1>1, <1>2, <1>6, <2>1, DriverKept DEF driving
<1>11. ChainsOK'
  <2>1. ToSet(<<>>) = {}
    BY DEF ToSet
  <2>2. Own(rq)' = {} /\ \A x \in Requests \ {rq} : Own(x)' = Own(x)
    BY <1>5, <1>6, <2>1 DEF Own
  <2>3. \A b \in Bios : IF b \in Own(rq) THEN bstate'[b] = "done" ELSE bstate'[b] = bstate[b]
    BY <1>2
  <2>4. PICK D : D = Own(rq)
    OBVIOUS
  <2> QED
    BY <1>1, <1>3, <2>2, <2>3, <2>4, ChainsEnd
<1>12. Tiles(bios'[rq], sector'[rq], nr'[rq])
  BY <1>5, TilesNone
<1>13. boundary_rq' # NULL => boundary_rq' \in ToSet(queue_head')
  BY <1>1, <1>2 DEF CachedPointersLive, driving
<1>14. UNCHANGED <<sched, nr_sorted, last_merge, hkey>>
  BY <1>2
<1>15. bios'[rq] = <<>> /\ 8 # 1 /\ 1 \notin {2, 4, 8} /\ 1 # 3
  BY <1>5
<1> QED
  BY <1>3, <1>6, <1>7, <1>8, <1>9, <1>10, <1>11, <1>12, <1>13, <1>14, <1>15, OutsideMove

(***************************************************************************)
(* A round of elv_attempt_insert_merge: the request in hand, or one that a *)
(* round before has grown, joins the request the hash finds.               *)
(***************************************************************************)
LEMMA InsertMergeOK ==
  ASSUME ElevatorInv, elv_attempt_insert_merge
  PROVE  ElevatorInv'
<1>1. /\ ListTypes /\ DataTypes /\ ControlTypes /\ Apart(Homes) /\ LoopOK
      /\ \A x \in Requests : RequestOK(x)
  BY DEF ElevatorInv
<1>2. /\ pc.op = "merge" /\ UNCHANGED <<queue_head, owned, plug, driver, driving, bstate, npc>>
  BY DEF elv_attempt_insert_merge
<1>3. PICK rq : rq = pc.rq
  OBVIOUS
<1>4. /\ rq \in Requests /\ bios[rq] # <<>> /\ (pc.flag => rq \in Held) /\ pc.flag \in BOOLEAN
      /\ RequestOK(rq)
  BY <1>1, <1>2, <1>3 DEF LoopOK, ControlTypes
<1>5. /\ sector[rq] \in Nat /\ nr[rq] \in Nat /\ bios[rq] \in Seq(Bios)
      /\ Tiles(bios[rq], sector[rq], nr[rq])
  BY <1>1, <1>4 DEF DataTypes, RequestOK
<1>6. nr[rq] > 0
  BY <1>4, <1>5, TilesWithin
<1>7. InHand = IF pc.flag THEN {} ELSE {rq}
  BY <1>2, <1>3 DEF InHand
<1>8. rq \notin driver
  BY <1>1, <1>4, <1>7, PlacesApart
<1>9. PICK hit \in Requests \union {NULL}, unhashed \in SUBSET Requests :
        /\ elv_rqhash_find(sector[rq], hit, unhashed)
        /\ \/ /\ hit # NULL
              /\ MayJoin(hit, rq, rq_end_sector(hit), sector[rq], nr[hit] + nr[rq])
              /\ elv_merge_requests(Unhash(unhashed), hit, rq, sector[hit],
                                    nr[hit] + nr[rq], bios[hit] \o bios[rq])
              /\ pc' = At("merge", hit, TRUE)
           \/ /\ \/ pc.flag /\ pc' = At("flush", NULL, FALSE)
                 \/ ~ pc.flag /\ pc' = At("insert", rq, FALSE)
              /\ hkey' = Unhash(unhashed)
              /\ UNCHANGED <<sched, nr_sorted, last_merge, geometry, flags, free>>
  BY <1>3 DEF elv_attempt_insert_merge
<1>10. PICK h : h = Unhash(unhashed)
  OBVIOUS
<1>11. Trimmed(h) /\ (hit # NULL => hit \in Held /\ rq_mergeable(hit) /\ rq_end_sector(hit) = sector[rq])
  BY <1>5, <1>9, <1>10, HashFinds
<1>12. ASSUME hit # NULL, elv_merge_requests(h, hit, rq, sector[hit],
                                             nr[hit] + nr[rq], bios[hit] \o bios[rq]),
              pc' = At("merge", hit, TRUE)
       PROVE  ElevatorInv'
  <2>1. /\ hit \in Held /\ hit \in Requests /\ sector[hit] \in Nat /\ nr[hit] \in Nat
        /\ bios[hit] \in Seq(Bios) /\ bios[hit] # <<>> /\ Tiles(bios[hit], sector[hit], nr[hit])
    BY <1>11, <1>12, HeldFacts
  <2>2. sector[hit] + nr[hit] = sector[rq]
    BY <1>11, <1>12 DEF rq_end_sector
  <2>3. hit # rq
    BY <1>5, <1>6, <2>2
  <2>4. PICK bs, n : bs = bios[hit] \o bios[rq] /\ n = nr[hit] + nr[rq]
    OBVIOUS
  <2>5. /\ bs \in Seq(Bios) /\ bs # <<>> /\ n \in Nat /\ Tiles(bs, sector[hit], n)
        /\ ToSet(bs) = Own(hit) \union Own(rq)
    BY <1>4, <1>5, <2>1, <2>2, <2>4, RequestsGrow DEF Own
  <2>6. elv_merge_requests(h, hit, rq, sector[hit], n, bs)
    BY <1>12, <2>4
  <2>7. /\ pc'.op = "merge" /\ pc'.rq = hit /\ pc'.flag = TRUE
        /\ pc' \in [op : {"idle", "back", "flush", "merge", "insert"},
                    rq : Requests \union {NULL}, flag : BOOLEAN]
    BY <1>12, <2>1, HolderFields
  <2>8. InHand' = {}
    BY <2>7 DEF InHand
  <2>9. MergedFrom(rq)
    <3>1. Homes[2]' = Homes[2] /\ Homes[3]' = Homes[3] /\ Homes[7]' = Homes[7] /\ Homes[8]' = Homes[8]
      BY <1>2, HomeNames
    <3>2. CASE pc.flag
      <4>1. Homes[4]' = Homes[4]
        BY <1>7, <2>8, <3>2, HomeNames
      <4> QED
        BY <1>4, <3>1, <3>2, <4>1 DEF MergedFrom, Outside
    <3>3. CASE ~ pc.flag
      <4>1. rq \in Homes[4] /\ Homes[4]' = Homes[4] \ {rq}
        BY <1>7, <2>8, <3>3, HomeNames
      <4> QED
        BY <3>1, <4>1 DEF MergedFrom, Outside
    <3> QED
      BY <3>2, <3>3
  <2>10. PICK E \in SUBSET Bios : E = {}
    OBVIOUS
  <2>11. ToSet(bs) = Own(hit) \union Own(rq) \union E /\ Joining(E)
    BY <1>2, <2>5, <2>10 DEF Joining
  <2>12. MergedOK
    BY <1>4, <1>11, <2>1, <2>3, <2>5, <2>6, <2>9, <2>11, MergeRequests
  <2>13. last_merge' = hit /\ hit \in Held'
    BY <2>6, <2>12 DEF elv_merge_requests, MergedOK
  <2>14. bios'[hit] # <<>>
    <3>1. RequestOK(hit)'
      BY <2>1, <2>12 DEF MergedOK
    <3> QED
      BY <2>13, <3>1 DEF RequestOK
  <2>15. ControlTypes' /\ LoopOK'
    <3>1. LoopOK'
      BY <2>1, <2>7, <2>13, <2>14 DEF LoopOK
    <3> QED
      BY <1>1, <1>2, <2>1, <2>7, <2>13, <3>1 DEF ControlTypes, driving
  <2>16. \A x \in driver : "PC" \in flags'[x] <=> "PC" \in flags[x]
    BY <1>4, <1>8, <2>6, MergeSparesDriver
  <2>17. plug' \in Seq(Requests) /\ NoDuplicates(plug')
    BY <1>1, <1>2 DEF ListTypes
  <2> QED
    BY <1>2, <2>12, <2>15, <2>16, <2>17, AfterMerge DEF driving
<1>13. ASSUME \/ pc.flag /\ pc' = At("flush", NULL, FALSE)
              \/ ~ pc.flag /\ pc' = At("insert", rq, FALSE),
              hkey' = h, UNCHANGED <<sched, nr_sorted, last_merge, geometry, flags, free>>
       PROVE  ElevatorInv'
  <2>1. /\ pc.flag => pc'.op = "flush"
        /\ ~ pc.flag => pc'.op = "insert" /\ pc'.rq = rq
        /\ pc' \in [op : {"idle", "back", "flush", "merge", "insert"},
                    rq : Requests \union {NULL}, flag : BOOLEAN]
    BY <1>4, <1>13, HolderFields
  <2>2. InHand' = InHand
    <3>1. CASE pc.flag
      <4>1. InHand' = {}
        BY <2>1, <3>1 DEF InHand
      <4> QED
        BY <1>7, <3>1, <4>1
    <3>2. CASE ~ pc.flag
      <4>1. InHand' = {rq}
        BY <2>1, <3>2 DEF InHand
      <4> QED
        BY <1>7, <3>2, <4>1
    <3> QED
      BY <3>1, <3>2
  <2>3. ControlTypes' /\ LoopOK'
    <3>1. bios'[rq] # <<>>
      BY <1>4, <1>13 DEF geometry
    <3>2. LoopOK'
      BY <1>4, <2>1, <3>1 DEF LoopOK
    <3> QED
      BY <1>1, <1>2, <1>13, <2>1, <3>2 DEF ControlTypes, driving
  <2>4. \A x \in Requests : SameData(x)
    BY <1>11, <1>13 DEF SameData, geometry, Trimmed
  <2>5. /\ last_merge' \in {last_merge, NULL}
        /\ flags' \in [Requests -> SUBSET Flags] /\ hkey' \in [Requests -> Nat \union {NULL}]
        /\ \A b \in Bios : bstate'[b] = "queued" <=> bstate[b] = "queued"
    BY <1>1, <1>2, <1>11, <1>13 DEF DataTypes, Trimmed
  <2>6. UNCHANGED <<sched, queue_head, nr_sorted, geometry, places, boundary_rq, in_flight>>
    BY <1>2, <1>13 DEF places, driving
  <2> QED
    BY <2>2, <2>3, <2>4, <2>5, <2>6, NothingMoves
<1> QED
  BY <1>9, <1>10, <1>12, <1>13

-----------------------------------------------------------------------------
(* The part of a step in which one bio, and no other, joins a request.     *)
LEMMA OneJoins ==
  ASSUME ControlTypes, NEW b \in Bios, bstate[b] # "queued",
         bstate' = [bstate EXCEPT ![b] = "queued"]
  PROVE  /\ Joining({b})
         /\ bstate' \in [Bios -> {"fresh", "locking", "waiting", "queued", "done"}]
  BY DEF Joining, ControlTypes

(***************************************************************************)
(* blk_queue_bio under the lock: a request that a bio has joined is joined *)
(* to its neighbour.  The request that remains is req, the other is next.  *)
(***************************************************************************)
LEMMA BioMergesTwo ==
  ASSUME ElevatorInv, NEW req \in Held, NEW next \in Held, next # req, NEW h, Trimmed(h),
         NEW s \in Nat, NEW n \in Nat, NEW bs \in Seq(Bios), bs # <<>>, Tiles(bs, s, n),
         elv_merge_requests(h, req, next, s, n, bs),
         NEW b \in Bios, ToSet(bs) = Own(req) \union Own(next) \union {b},
         bstate[b] # "queued", bstate' = [bstate EXCEPT ![b] = "queued"], pc.op = "idle",
         UNCHANGED <<queue_head, owned, plug, driver, driving, pc, npc>>
  PROVE  ElevatorInv'
<1>1. ListTypes /\ ControlTypes /\ Apart(Homes) /\ next \in Requests /\ req \in Requests
  BY HeldFacts DEF ElevatorInv
<1>2. PICK E \in SUBSET Bios : E = {b}
  OBVIOUS
<1>3. ToSet(bs) = Own(req) \union Own(next) \union E /\ Joining(E)
  BY <1>1, <1>2, OneJoins
<1>4. MergedFrom(next)
  BY RestStays DEF MergedFrom
<1>5. MergedOK
  BY <1>1, <1>3, <1>4, MergeRequests
<1>6. ControlTypes' /\ LoopOK'
  <2>1. last_merge' \in Requests
    BY <1>1 DEF elv_merge_requests
  <2>2. bstate' \in [Bios -> {"fresh", "locking", "waiting", "queued", "done"}]
    BY <1>1, OneJoins
  <2> QED
    BY <1>1, <2>1, <2>2 DEF ControlTypes, LoopOK, driving
<1>7. \A x \in driver : "PC" \in flags'[x] <=> "PC" \in flags[x]
  <2>1. next \notin driver
    BY <1>1, PlacesApart
  <2> QED
    BY <1>1, <2>1, MergeSparesDriver
<1>8. plug' \in Seq(Requests) /\ NoDuplicates(plug')
  BY <1>1 DEF ListTypes
<1> QED
  BY <1>5, <1>6, <1>7, <1>8, AfterMerge DEF driving

(***************************************************************************)
(* The same, when the neighbour is not joined: elv_merged_request moves    *)
(* the hash key to the end of the request.                                 *)
(***************************************************************************)
LEMMA BioMergesOne ==
  ASSUME ElevatorInv, NEW rq \in Held, NEW h, Trimmed(h),
         NEW s \in Nat, NEW n \in Nat, NEW bs \in Seq(Bios), bs # <<>>, Tiles(bs, s, n),
         NEW b \in Bios, ToSet(bs) = Own(rq) \union {b},
         bstate[b] # "queued", bstate' = [bstate EXCEPT ![b] = "queued"], pc.op = "idle",
         sector' = [sector EXCEPT ![rq] = s], nr' = [nr EXCEPT ![rq] = n],
         bios' = [bios EXCEPT ![rq] = bs],
         hkey' = [h EXCEPT ![rq] = s + n], last_merge' = rq,
         UNCHANGED <<sched, nr_sorted, flags, free>>,
         UNCHANGED <<queue_head, owned, plug, driver, driving, pc, npc>>
  PROVE  ElevatorInv'
<1>1. /\ ListTypes /\ DataTypes /\ ControlTypes /\ Apart(Homes) /\ rq \in Requests
      /\ SortedCount /\ CachedPointersLive
  BY HeldFacts DEF ElevatorInv
<1>2. higher' = higher /\ lower' = lower /\ Held' = Held /\ prev_pos' = prev_pos /\ InHand' = InHand
  BY DEF sched, Held, InHand
<1>3. Apart(Homes)' /\ \A x \in Requests : SamePlace(x)
  BY <1>1, <1>2, AllStay
<1>4. /\ hkey' \in [Requests -> Nat \union {NULL}] /\ hkey'[rq] = s + n
      /\ \A x \in Requests \ {rq} : hkey'[x] = h[x]
  <2>1. s + n \in Nat
    OBVIOUS
  <2> QED
    BY <1>1, <2>1 DEF Trimmed
<1>5. /\ flags' \in [Requests -> SUBSET Flags]
      /\ \A x \in Requests : /\ flags[x] \subseteq flags'[x]
                             /\ flags'[x] \subseteq flags[x] \union {"NOMERGE"}
  BY <1>1 DEF DataTypes
<1>6. rq \in Held \union ToSet(plug) /\ (IF rq \in Held THEN hkey'[rq] = s + n ELSE hkey'[rq] = NULL)
  BY <1>4
<1>7. DataTypes' /\ ChainsOK' /\ \A x \in Requests : RequestOK(x)'
  BY <1>1, <1>2, <1>3, <1>4, <1>5, <1>6, BioJoins
<1>8. ControlTypes' /\ LoopOK'
  <2>1. bstate' \in [Bios -> {"fresh", "locking", "waiting", "queued", "done"}]
    BY <1>1, OneJoins
  <2> QED
    BY <1>1, <2>1 DEF ControlTypes, LoopOK, driving
<1>9. ListTypes' /\ SortedCount' /\ CachedPointersLive'
  BY <1>1, <1>2 DEF ListTypes, SortedCount, CachedPointersLive, driving
<1>10. DriverOK'
  BY DriverKept DEF ElevatorInv, driving
<1> QED
  BY <1>3, <1>7, <1>8, <1>9, <1>10 DEF ElevatorInv

(* The back merge of a bio, with or without the request behind.            *)
LEMMA BackMergeOK ==
  ASSUME ElevatorInv, NEW rq \in Held, NEW h, Trimmed(h), NEW b \in Bios,
         rq_end_sector(rq) = BioPos[b], BackMerge(h, rq, b),
         bstate[b] # "queued", bstate' = [bstate EXCEPT ![b] = "queued"], pc.op = "idle",
         UNCHANGED <<queue_head, owned, plug, driver, driving, pc, npc>>
  PROVE  ElevatorInv'
<1>1. /\ rq \in Requests /\ sector[rq] \in Nat /\ nr[rq] \in Nat /\ bios[rq] \in Seq(Bios)
      /\ bios[rq] # <<>> /\ Tiles(bios[rq], sector[rq], nr[rq])
  BY HeldFacts
<1>2. PICK n, bs : n = nr[rq] + BioLen[b] /\ bs = bio_attempt_back_merge(bios[rq], b)
  OBVIOUS
<1>3. /\ bs \in Seq(Bios) /\ bs # <<>> /\ ToSet(bs) = Own(rq) \union {b}
      /\ Tiles(bs, sector[rq], n) /\ n \in Nat
  <2>1. sector[rq] + nr[rq] = BioPos[b]
    BY DEF rq_end_sector
  <2>2. n \in Nat
    BY <1>1, <1>2, BioFacts
  <2> QED
    BY <1>1, <1>2, <2>1, <2>2, BackGrows DEF Own
<1>4. PICK next : next = greedy_latter_request(higher, lower, rq)
  OBVIOUS
<1>5. \/ /\ next # NULL /\ MayJoin(rq, next, sector[rq] + n, sector[next], n + nr[next])
         /\ elv_merge_requests(h, rq, next, sector[rq], n + nr[next], bs \o bios[next])
      \/ /\ nr' = [nr EXCEPT ![rq] = n] /\ bios' = [bios EXCEPT ![rq] = bs]
         /\ elv_merged_request(h, rq, "back", sector[rq] + n)
         /\ UNCHANGED <<sched, nr_sorted, sector, flags, free>>
  BY <1>2, <1>4 DEF BackMerge
<1>6. ASSUME next # NULL, MayJoin(rq, next, sector[rq] + n, sector[next], n + nr[next]),
             elv_merge_requests(h, rq, next, sector[rq], n + nr[next], bs \o bios[next])
      PROVE  ElevatorInv'
  <2>1. next \in Held /\ next # rq
    BY <1>4, <1>6, Neighbours DEF ElevatorInv
  <2>2. /\ next \in Requests /\ sector[next] \in Nat /\ nr[next] \in Nat /\ bios[next] \in Seq(Bios)
        /\ bios[next] # <<>> /\ Tiles(bios[next], sector[next], nr[next])
    BY <2>1, HeldFacts
  <2>3. sector[rq] + n = sector[next]
    BY <1>6 DEF MayJoin
  <2>4. PICK m, cs : m = n + nr[next] /\ cs = bs \o bios[next]
    OBVIOUS
  <2>5. /\ cs \in Seq(Bios) /\ cs # <<>> /\ m \in Nat /\ Tiles(cs, sector[rq], m)
        /\ ToSet(cs) = ToSet(bs) \union Own(next)
    BY <1>1, <1>3, <2>2, <2>3, <2>4, RequestsGrow DEF Own
  <2>6. ToSet(cs) = Own(rq) \union Own(next) \union {b}
    BY <1>3, <2>5
  <2>7. elv_merge_requests(h, rq, next, sector[rq], m, cs)
    BY <1>6, <2>4
  <2> QED
    BY <1>1, <2>1, <2>5, <2>6, <2>7, BioMergesTwo
<1>7. ASSUME nr' = [nr EXCEPT ![rq] = n], bios' = [bios EXCEPT ![rq] = bs],
             elv_merged_request(h, rq, "back", sector[rq] + n),
             UNCHANGED <<sched, nr_sorted, sector, flags, free>>
      PROVE  ElevatorInv'
  <2>1. PICK s \in Nat : s = sector[rq]
    BY <1>1
  <2>2. sector' = [sector EXCEPT ![rq] = s]
    BY <1>7, <2>1 DEF ElevatorInv, DataTypes
  <2>3. hkey' = [h EXCEPT ![rq] = s + n] /\ last_merge' = rq
    BY <1>7, <2>1 DEF elv_merged_request, elv_rqhash_reposition
  <2>4. UNCHANGED <<sched, nr_sorted, flags, free>>
    BY <1>7
  <2> QED
    BY <1>3, <1>7, <2>1, <2>2, <2>3, <2>4, BioMergesOne
<1> QED
  BY <1>5, <1>6, <1>7

(* The front merge of a bio, with or without the request in front.         *)
LEMMA FrontMergeOK ==
  ASSUME ElevatorInv, NEW rq \in Held, rq_mergeable(rq), NEW h, Trimmed(h), NEW b \in Bios,
         End(b) = sector[rq], FrontMerge(h, rq, b),
         bstate[b] # "queued", bstate' = [bstate EXCEPT ![b] = "queued"], pc.op = "idle",
         UNCHANGED <<queue_head, owned, plug, driver, driving, pc, npc>>
  PROVE  ElevatorInv'
<1>1. /\ rq \in Requests /\ sector[rq] \in Nat /\ nr[rq] \in Nat /\ bios[rq] \in Seq(Bios)
      /\ bios[rq] # <<>> /\ Tiles(bios[rq], sector[rq], nr[rq])
      /\ BioPos[b] \in Nat /\ BioLen[b] \in Nat /\ End(b) = BioPos[b] + BioLen[b]
  BY HeldFacts, BioFacts
<1>2. PICK n, bs, s : n = nr[rq] + BioLen[b] /\ bs = bio_attempt_front_merge(bios[rq], b) /\ s = BioPos[b]
  OBVIOUS
<1>3. /\ bs \in Seq(Bios) /\ bs # <<>> /\ ToSet(bs) = Own(rq) \union {b}
      /\ Tiles(bs, s, n) /\ n \in Nat /\ s \in Nat
  <2>1. n \in Nat /\ s \in Nat
    BY <1>1, <1>2
  <2> QED
    BY <1>1, <1>2, <2>1, FrontGrows DEF Own
<1>4. PICK prev : prev = greedy_former_request(higher, lower, rq)
  OBVIOUS
<1>5. \/ /\ prev # NULL /\ MayJoin(prev, rq, rq_end_sector(prev), s, nr[prev] + n)
         /\ elv_merge_requests(h, prev, rq, sector[prev], nr[prev] + n, bios[prev] \o bs)
      \/ /\ sector' = [sector EXCEPT ![rq] = s]
         /\ nr' = [nr EXCEPT ![rq] = n] /\ bios' = [bios EXCEPT ![rq] = bs]
         /\ elv_merged_request(h, rq, "front", sector[rq] + nr[rq])
         /\ UNCHANGED <<sched, nr_sorted, flags, free>>
  BY <1>2, <1>4 DEF FrontMerge
<1>6. ASSUME prev # NULL, MayJoin(prev, rq, rq_end_sector(prev), s, nr[prev] + n),
             elv_merge_requests(h, prev, rq, sector[prev], nr[prev] + n, bios[prev] \o bs)
      PROVE  ElevatorInv'
  <2>1. prev \in Held /\ prev # rq
    BY <1>4, <1>6, Neighbours DEF ElevatorInv
  <2>2. /\ prev \in Requests /\ sector[prev] \in Nat /\ nr[prev] \in Nat /\ bios[prev] \in Seq(Bios)
        /\ bios[prev] # <<>> /\ Tiles(bios[prev], sector[prev], nr[prev])
    BY <2>1, HeldFacts
  <2>3. sector[prev] + nr[prev] = s
    BY <1>6 DEF MayJoin, rq_end_sector
  <2>4. PICK m, cs : m = nr[prev] + n /\ cs = bios[prev] \o bs
    OBVIOUS
  <2>5. /\ cs \in Seq(Bios) /\ cs # <<>> /\ m \in Nat /\ Tiles(cs, sector[prev], m)
        /\ ToSet(cs) = Own(prev) \union ToSet(bs)
    BY <1>1, <1>3, <2>2, <2>3, <2>4, RequestsGrow DEF Own
  <2>6. ToSet(cs) = Own(prev) \union Own(rq) \union {b}
    BY <1>3, <2>5
  <2>7. elv_merge_requests(h, prev, rq, sector[prev], m, cs)
    BY <1>6, <2>4
  <2> QED
    BY <2>1, <2>2, <2>5, <2>6, <2>7, BioMergesTwo
<1>7. ASSUME sector' = [sector EXCEPT ![rq] = s], nr' = [nr EXCEPT ![rq] = n],
             bios' = [bios EXCEPT ![rq] = bs],
             elv_merged_request(h, rq, "front", sector[rq] + nr[rq]),
             UNCHANGED <<sched, nr_sorted, flags, free>>
      PROVE  ElevatorInv'
  <2>1. hkey' = h /\ last_merge' = rq
    BY <1>7 DEF elv_merged_request
  <2>2. h[rq] = s + n
    <3>1. h[rq] = hkey[rq] /\ hkey[rq] = rq_end_sector(rq)
      BY <1>1 DEF Trimmed, ElevatorInv, RequestOK
    <3>2. sector[rq] + nr[rq] = s + n
      BY <1>1, <1>2
    <3> QED
      BY <3>1, <3>2 DEF rq_end_sector
  <2>3. hkey' = [h EXCEPT ![rq] = s + n]
    BY <2>1, <2>2 DEF Trimmed
  <2> QED
    BY <1>3, <1>7, <2>1, <2>3, BioMergesOne
<1> QED
  BY <1>5, <1>6, <1>7

(* blk_queue_bio under the lock, up to get_request.                        *)
LEMMA BioMergeOK ==
  ASSUME ElevatorInv, NEW b \in Bios, blk_queue_bio_merge(b)
  PROVE  ElevatorInv'
<1>1. /\ pc.op = "idle" /\ bstate[b] # "queued" /\ DataTypes /\ ControlTypes
      /\ UNCHANGED <<queue_head, owned, plug, driver, driving, pc, npc>>
  BY DEF blk_queue_bio_merge, ElevatorInv
<1>2. PICK rq \in Requests \union {NULL}, type \in {"back", "front", "none"},
           unhashed \in SUBSET Requests :
       /\ elv_merge(b, rq, type, unhashed)
       /\ \/ /\ type = "none"
             /\ hkey' = Unhash(unhashed)
             /\ bstate' = [bstate EXCEPT ![b] = "waiting"]
             /\ UNCHANGED <<sched, nr_sorted, last_merge, geometry, flags, free>>
          \/ /\ type # "none" /\ ~ Fits(rq, b)
             /\ hkey' = Unhash(unhashed)
             /\ flags' = [flags EXCEPT ![rq] = @ \union {"NOMERGE"}]
             /\ last_merge' = ForgetLastMerge(rq)
             /\ bstate' = [bstate EXCEPT ![b] = "waiting"]
             /\ UNCHANGED <<sched, nr_sorted, geometry, free>>
          \/ /\ type = "back" /\ Fits(rq, b)
             /\ BackMerge(Unhash(unhashed), rq, b)
             /\ bstate' = [bstate EXCEPT ![b] = "queued"]
          \/ /\ type = "front" /\ Fits(rq, b)
             /\ FrontMerge(Unhash(unhashed), rq, b)
             /\ bstate' = [bstate EXCEPT ![b] = "queued"]
  BY DEF blk_queue_bio_merge
<1>3. PICK h : h = Unhash(unhashed)
  OBVIOUS
<1>4. /\ Trimmed(h)
      /\ type # "none" => rq \in Held /\ rq_mergeable(rq)
      /\ type = "back" => rq_end_sector(rq) = BioPos[b]
      /\ type = "front" => End(b) = sector[rq]
  BY <1>2, <1>3, MergeFinds
<1>5. ASSUME hkey' = h, bstate' = [bstate EXCEPT ![b] = "waiting"],
             UNCHANGED <<sched, nr_sorted, geometry, free>>, last_merge' \in {last_merge, NULL},
             flags' \in [Requests -> SUBSET Flags],
             \A x \in Requests : /\ flags[x] \subseteq flags'[x]
                                 /\ flags'[x] \subseteq flags[x] \union {"NOMERGE"}
      PROVE  ElevatorInv'
  <2>1. UNCHANGED <<sched, queue_head, nr_sorted, geometry, places, boundary_rq, in_flight>>
    BY <1>1, <1>5 DEF places, driving
  <2>2. InHand' = InHand /\ hkey' \in [Requests -> Nat \union {NULL}]
    BY <1>1, <1>4, <1>5 DEF InHand, Trimmed
  <2>3. \A x \in Requests : SameData(x)
    BY <1>4, <1>5 DEF SameData, Trimmed, geometry
  <2>4. ControlTypes' /\ LoopOK'
    <3>1. /\ bstate' \in [Bios -> {"fresh", "locking", "waiting", "queued", "done"}]
          /\ last_merge' \in Requests \union {NULL}
      BY <1>1, <1>5 DEF ControlTypes
    <3> QED
      BY <1>1, <3>1 DEF ControlTypes, LoopOK, driving
  <2>5. \A c \in Bios : bstate'[c] = "queued" <=> bstate[c] = "queued"
    BY <1>1, <1>5 DEF ControlTypes
  <2> QED
    BY <1>5, <2>1, <2>2, <2>3, <2>4, <2>5, NothingMoves
<1>6. CASE type = "none"
  <2>1. /\ hkey' = h /\ bstate' = [bstate EXCEPT ![b] = "waiting"] /\ flags' = flags
        /\ UNCHANGED <<sched, nr_sorted, geometry, free>> /\ last_merge' \in {last_merge, NULL}
    BY <1>2, <1>3, <1>6
  <2> QED
    BY <1>1, <1>5, <2>1 DEF DataTypes
<1>7. CASE type # "none" /\ ~ Fits(rq, b)
  <2>1. /\ hkey' = h /\ bstate' = [bstate EXCEPT ![b] = "waiting"]
        /\ flags' = [flags EXCEPT ![rq] = @ \union {"NOMERGE"}]
        /\ UNCHANGED <<sched, nr_sorted, geometry, free>> /\ last_merge' \in {last_merge, NULL}
    BY <1>2, <1>3, <1>7 DEF ForgetLastMerge
  <2>2. rq \in Requests
    BY <1>4, <1>7, HeldFacts
  <2>3. /\ flags' \in [Requests -> SUBSET Flags]
        /\ \A x \in Requests : /\ flags[x] \subseteq flags'[x]
                               /\ flags'[x] \subseteq flags[x] \union {"NOMERGE"}
    <3>1. flags[rq] \union {"NOMERGE"} \in SUBSET Flags
      BY <1>1, <2>2 DEF DataTypes, Flags
    <3> QED
      BY <1>1, <2>1, <2>2, <3>1 DEF DataTypes
  <2> QED
    BY <1>5, <2>1, <2>3
<1>8. CASE type = "back" /\ Fits(rq, b)
  <2>1. BackMerge(h, rq, b) /\ bstate' = [bstate EXCEPT ![b] = "queued"]
    BY <1>2, <1>3, <1>8
  <2> QED
    BY <1>1, <1>4, <1>8, <2>1, BackMergeOK
<1>9. CASE type = "front" /\ Fits(rq, b)
  <2>1. FrontMerge(h, rq, b) /\ bstate' = [bstate EXCEPT ![b] = "queued"]
    BY <1>2, <1>3, <1>9
  <2> QED
    BY <1>1, <1>4, <1>9, <2>1, FrontMergeOK
<1> QED
  BY <1>6, <1>7, <1>8, <1>9

(***************************************************************************)
(* blk_attempt_plug_merge: the bio joins a request of the plug list, and   *)
(* those that would grow too large are marked.                             *)
(***************************************************************************)
LEMMA PlugMergeOK ==
  ASSUME ElevatorInv, NEW b \in Bios, blk_attempt_plug_merge(b)
  PROVE  ElevatorInv'
<1>1. /\ ListTypes /\ DataTypes /\ ControlTypes /\ Apart(Homes) /\ SortedCount /\ CachedPointersLive
      /\ \A x \in Requests : RequestOK(x)
  BY DEF ElevatorInv
<1>2. /\ bstate[b] = "fresh" /\ pc.op = "idle"
      /\ UNCHANGED <<sched, queue_head, nr_sorted, last_merge, hkey, places, driving, pc, npc>>
  BY DEF blk_attempt_plug_merge
<1> DEFINE tried == {i \in 1..Len(plug) : blk_try_merge(plug[i], b) # "none"}
           hits  == {i \in tried : Fits(plug[i], b)}
           last  == IF hits = {} THEN 0 ELSE CHOOSE i \in hits : \A j \in hits : j <= i
           refused == {plug[i] : i \in {j \in tried : j > last}}
           Joined == LET rq == plug[last]
                         back == blk_try_merge(rq, b) = "back"
                     IN  /\ sector' = [sector EXCEPT ![rq] = IF back THEN @ ELSE BioPos[b]]
                         /\ nr' = [nr EXCEPT ![rq] = @ + BioLen[b]]
                         /\ bios' = [bios EXCEPT ![rq] = IF back THEN bio_attempt_back_merge(@, b)
                                                         ELSE bio_attempt_front_merge(@, b)]
<1>3. /\ flags' = [rq \in Requests |-> IF rq \in refused THEN flags[rq] \union {"NOMERGE"} ELSE flags[rq]]
      /\ \/ bstate' = [bstate EXCEPT ![b] = "locking"] /\ UNCHANGED geometry
         \/ last > 0 /\ bstate' = [bstate EXCEPT ![b] = "queued"] /\ Joined
  BY DEF blk_attempt_plug_merge
<1> HIDE DEF tried, hits, last, refused, Joined
<1>4. flags' = [rq \in Requests |-> IF rq \in refused THEN flags[rq] \union {"NOMERGE"} ELSE flags[rq]]
  BY <1>3
<1>5. /\ flags' \in [Requests -> SUBSET Flags]
      /\ \A x \in Requests : /\ flags[x] \subseteq flags'[x]
                             /\ flags'[x] \subseteq flags[x] \union {"NOMERGE"}
  <2>1. ASSUME NEW x \in Requests PROVE flags[x] \union {"NOMERGE"} \in SUBSET Flags
    BY <1>1 DEF DataTypes, Flags
  <2> QED
    BY <1>1, <1>4, <2>1 DEF DataTypes
<1>6. /\ higher' = higher /\ lower' = lower /\ Held' = Held /\ prev_pos' = prev_pos
      /\ InHand' = InHand
  BY <1>2 DEF sched, Held, InHand
<1>7. Apart(Homes)' /\ \A x \in Requests : SamePlace(x)
  BY <1>1, <1>2, <1>6, AllStay DEF places
<1>8. ASSUME bstate' = [bstate EXCEPT ![b] = "locking"], UNCHANGED geometry
      PROVE  ElevatorInv'
  <2>1. UNCHANGED <<sched, queue_head, nr_sorted, geometry, places, boundary_rq, in_flight>>
    BY <1>2, <1>8 DEF driving
  <2>2. hkey' \in [Requests -> Nat \union {NULL}] /\ last_merge' \in {last_merge, NULL}
    BY <1>1, <1>2 DEF DataTypes
  <2>3. \A x \in Requests : SameData(x)
    BY <1>2, <1>5, <1>8 DEF SameData, geometry
  <2>4. ControlTypes' /\ LoopOK'
    <3>1. bstate' \in [Bios -> {"fresh", "locking", "waiting", "queued", "done"}]
      BY <1>1, <1>8 DEF ControlTypes
    <3> QED
      BY <1>1, <1>2, <3>1 DEF ControlTypes, LoopOK, driving
  <2>5. \A c \in Bios : bstate'[c] = "queued" <=> bstate[c] = "queued"
    BY <1>1, <1>2, <1>8 DEF ControlTypes
  <2> QED
    BY <1>5, <1>6, <2>1, <2>2, <2>3, <2>4, <2>5, NothingMoves
<1>9. ASSUME last > 0, bstate' = [bstate EXCEPT ![b] = "queued"], Joined
      PROVE  ElevatorInv'
  <2>1. last \in tried /\ last \in 1..Len(plug)
    <3>1. hits \subseteq 1..Len(plug) /\ Len(plug) \in Nat /\ hits # {}
      BY <1>1, <1>9 DEF ListTypes, hits, tried, last
    <3>2. (CHOOSE i \in hits : \A j \in hits : j <= i) \in hits
      BY <3>1, LastIndex
    <3>3. last \in hits
      BY <3>1, <3>2 DEF last
    <3> QED
      BY <3>3 DEF hits, tried
  <2>2. PICK rq : rq = plug[last]
    OBVIOUS
  <2>3. rq \in ToSet(plug) /\ blk_try_merge(rq, b) # "none"
    <3>1. rq \in ToSet(plug)
      BY <1>1, <2>1, <2>2, Entries DEF ListTypes
    <3>2. blk_try_merge(rq, b) # "none"
      BY <2>1, <2>2 DEF tried
    <3> QED
      BY <3>1, <3>2
  <2>4. /\ rq \in Requests /\ sector[rq] \in Nat /\ nr[rq] \in Nat /\ bios[rq] \in Seq(Bios)
        /\ bios[rq] # <<>> /\ Tiles(bios[rq], sector[rq], nr[rq])
        /\ BioPos[b] \in Nat /\ BioLen[b] \in Nat /\ End(b) = BioPos[b] + BioLen[b]
    BY <2>3, HeldFacts, BioFacts
  <2>5. rq \notin Held /\ hkey[rq] = NULL
    BY <1>1, <2>3, <2>4, PlacesApart DEF RequestOK
  <2>6. PICK n : n = nr[rq] + BioLen[b]
    OBVIOUS
  <2>7. \E s \in Nat, bs \in Seq(Bios) :
          /\ sector' = [sector EXCEPT ![rq] = s] /\ bios' = [bios EXCEPT ![rq] = bs]
          /\ bs # <<>> /\ Tiles(bs, s, n) /\ ToSet(bs) = Own(rq) \union {b}
    <3>1. CASE blk_try_merge(rq, b) = "back"
      <4>1. sector[rq] + nr[rq] = BioPos[b]
        BY <2>3, <3>1 DEF blk_try_merge, rq_end_sector
      <4>2. PICK bs : bs = bio_attempt_back_merge(bios[rq], b)
        OBVIOUS
      <4>3. bs \in Seq(Bios) /\ bs # <<>> /\ Tiles(bs, sector[rq], n) /\ ToSet(bs) = Own(rq) \union {b}
        BY <2>4, <2>6, <4>1, <4>2, BackGrows DEF Own
      <4>4. sector' = [sector EXCEPT ![rq] = sector[rq]] /\ bios' = [bios EXCEPT ![rq] = bs]
        BY <1>9, <2>2, <3>1, <4>2 DEF Joined
      <4> QED
        BY <2>4, <4>3, <4>4
    <3>2. CASE blk_try_merge(rq, b) # "back"
      <4>1. End(b) = sector[rq]
        BY <2>3, <2>4, <3>2 DEF blk_try_merge
      <4>2. PICK bs : bs = bio_attempt_front_merge(bios[rq], b)
        OBVIOUS
      <4>3. bs \in Seq(Bios) /\ bs # <<>> /\ Tiles(bs, BioPos[b], n) /\ ToSet(bs) = Own(rq) \union {b}
        BY <2>4, <2>6, <4>1, <4>2, FrontGrows DEF Own
      <4>4. sector' = [sector EXCEPT ![rq] = BioPos[b]] /\ bios' = [bios EXCEPT ![rq] = bs]
        BY <1>9, <2>2, <3>2, <4>2 DEF Joined
      <4> QED
        BY <2>4, <4>3, <4>4
    <3> QED
      BY <3>1, <3>2
  <2>8. PICK s \in Nat, bs \in Seq(Bios) :
          /\ sector' = [sector EXCEPT ![rq] = s] /\ bios' = [bios EXCEPT ![rq] = bs]
          /\ bs # <<>> /\ Tiles(bs, s, n) /\ ToSet(bs) = Own(rq) \union {b}
    BY <2>7
  <2>9. nr' = [nr EXCEPT ![rq] = n] /\ n \in Nat
    BY <1>9, <2>2, <2>4, <2>6 DEF Joined
  <2>10. Trimmed(hkey) /\ hkey' = hkey /\ hkey' \in [Requests -> Nat \union {NULL}]
    BY <1>1, <1>2 DEF Trimmed, DataTypes
  <2>11. /\ rq \in Held \union ToSet(plug) /\ bstate[b] # "queued"
         /\ \A x \in Requests \ {rq} : hkey'[x] = hkey[x]
         /\ IF rq \in Held THEN hkey'[rq] = s + n ELSE hkey'[rq] = NULL
    BY <1>2, <2>3, <2>5, <2>10
  <2>12. DataTypes' /\ ChainsOK' /\ \A x \in Requests : RequestOK(x)'
    BY <1>5, <1>6, <1>7, <1>9, <2>4, <2>8, <2>9, <2>10, <2>11, BioJoins
  <2>13. ControlTypes' /\ LoopOK'
    <3>1. bstate' \in [Bios -> {"fresh", "locking", "waiting", "queued", "done"}]
      BY <1>1, <1>9 DEF ControlTypes
    <3> QED
      BY <1>1, <1>2, <3>1 DEF ControlTypes, LoopOK, driving
  <2>14. ListTypes' /\ SortedCount' /\ CachedPointersLive'
    BY <1>1, <1>2, <1>6 DEF ListTypes, SortedCount, CachedPointersLive, driving, places
  <2>15. DriverOK'
    <3>1. \A x \in driver : "PC" \in flags'[x] <=> "PC" \in flags[x]
      BY <1>1, <1>5 DEF ListTypes
    <3> QED
      BY <1>2, <3>1, DriverKept DEF ElevatorInv, driving, places
  <2> QED
    BY <1>7, <2>12, <2>13, <2>14, <2>15 DEF ElevatorInv
<1> QED
  BY <1>3, <1>8, <1>9

-----------------------------------------------------------------------------
(* Every step keeps the invariant.                                         *)
LEMMA StepOK == ElevatorInv /\ [Next]_vars => ElevatorInv'
<1> SUFFICES ASSUME ElevatorInv, [Next]_vars PROVE ElevatorInv'
  OBVIOUS
<1>1. CASE UNCHANGED vars
  BY <1>1, StutterStep
<1>2. CASE Submission
  BY <1>2, PlugMergeOK, BioMergeOK DEF Submission
<1>3. CASE \E b \in Bios, rq \in Requests : get_request(b, rq)
  BY <1>3, GetRequestOK
<1>4. CASE \E rq \in Requests : add_to_plug(rq) \/ blk_queue_bio_insert(rq)
  BY <1>4, AddToPlugOK, BioInsertOK
<1>5. CASE \E rq \in Requests, where \in {"FRONT", "BACK"} : insert_pc(rq, where)
  BY <1>5, InsertPcOK
<1>6. CASE blk_flush_plug_list \/ peek_nothing \/ blk_delay_work \/ blk_set_queue_dying
  BY <1>6, RunStep
<1>7. CASE LockHolder
  BY <1>7, DrainOK, InsertBackOK, FlushNextOK, FlushEndsOK, InsertMergeOK, FlushInsertOK, RunStep DEF LockHolder
<1>8. CASE \E rq \in Requests : blk_fetch_request(rq) \/ peek_and_leave(rq) \/ peek_and_kill(rq)
  BY <1>8, FetchOK, LeaveOK, KillOK
<1>9. CASE \E rq \in Requests : blk_requeue_request(rq) \/ blk_end_bidi_request(rq)
  BY <1>9, RequeueOK, UpdateOK, FinishOK DEF blk_end_bidi_request
<1>10. CASE \E b \in Bios : get_request_fails(b)
  BY <1>10, GetFailsOK
<1> QED
  BY <1>1, <1>2, <1>3, <1>4, <1>5, <1>6, <1>7, <1>8, <1>9, <1>10 DEF Next

(* The invariant of the queue holds always.                                *)
LEMMA ElevatorSafe == Spec => []ElevatorInv
  BY InitOK, StepOK, PTL DEF Spec

-----------------------------------------------------------------------------
(* The queue is marked dying, and stays so.                                *)
LEMMA DyingStays == ASSUME [Next]_vars PROVE dying' \in {dying, TRUE}
<1>1. CASE UNCHANGED vars
  BY <1>1 DEF vars
<1>2. CASE Submission
  BY <1>2 DEF Submission, blk_attempt_plug_merge, blk_queue_bio_merge
<1>3. CASE \/ \E b \in Bios, rq \in Requests : get_request(b, rq)
           \/ \E b \in Bios : get_request_fails(b)
           \/ \E rq \in Requests : add_to_plug(rq) \/ blk_queue_bio_insert(rq)
           \/ \E rq \in Requests, where \in {"FRONT", "BACK"} : insert_pc(rq, where)
  BY <1>3 DEF get_request, get_request_fails, add_to_plug, blk_queue_bio_insert, insert_pc
<1>4. CASE LockHolder
  BY <1>4 DEF LockHolder, elv_drain_elevator, insert_back, flush_next, flush_ends_next,
     elv_attempt_insert_merge, flush_insert, flush_end
<1>5. CASE \E rq \in Requests : blk_fetch_request(rq) \/ peek_and_leave(rq) \/ peek_and_kill(rq)
  BY <1>5 DEF blk_fetch_request, peek_and_leave, peek_and_kill
<1>6. CASE \E rq \in Requests : blk_requeue_request(rq) \/ blk_end_bidi_request(rq)
  BY <1>6 DEF blk_requeue_request, blk_end_bidi_request, blk_update_request, blk_finish_request
<1>7. CASE blk_flush_plug_list \/ peek_nothing \/ blk_delay_work \/ blk_set_queue_dying
  BY <1>7 DEF blk_flush_plug_list, peek_nothing, blk_delay_work, blk_set_queue_dying
<1> QED
  BY <1>1, <1>2, <1>3, <1>4, <1>5, <1>6, <1>7 DEF Next

(***************************************************************************)
(* The types of the queue's variables: in particular the counts nr_sorted  *)
(* and in_flight never go below zero.                                      *)
(***************************************************************************)
THEOREM ElevatorTypeCorrect == Spec => []TypeOK
<1>1. ElevatorInv /\ dying \in BOOLEAN => TypeOK
  <2> SUFFICES ASSUME ElevatorInv, dying \in BOOLEAN PROVE TypeOK
    OBVIOUS
  <2>1. nr_sorted \in Nat
    <3>1. Len(higher) \in Nat /\ Len(lower) \in Nat
      BY DEF ElevatorInv, ListTypes
    <3> QED
      BY <3>1 DEF ElevatorInv, SortedCount
  <2>2. in_flight \in Nat
    <3> DEFINE F == {rq \in driver : IsFs(rq)}
    <3>1. IsFiniteSet(F) /\ in_flight = Cardinality(F)
      BY FS_Subset DEF ElevatorInv, DriverOK, InFlightExact
    <3> HIDE DEF F
    <3> QED
      BY <3>1, FS_CardinalityType
  <2> QED
    BY <2>1, <2>2 DEF ElevatorInv, TypeOK, ListTypes, DataTypes, ControlTypes, Flags
<1>2. Init => dying \in BOOLEAN
  BY DEF Init
<1>3. dying \in BOOLEAN /\ [Next]_vars => (dying \in BOOLEAN)'
  BY DyingStays
<1> QED
  BY <1>1, <1>2, <1>3, ElevatorSafe, PTL DEF Spec

(***************************************************************************)
(* Every struct request is in exactly one place: whatever merges, flushes, *)
(* drains, requeues and kills happen in whatever order, none is leaked,    *)
(* linked twice, freed while linked or started while still queued.         *)
(***************************************************************************)
THEOREM RequestsHaveOneHome == Spec => []OneHome
<1>1. ElevatorInv => OneHome
  <2> SUFFICES ASSUME ElevatorInv PROVE OneHome
    OBVIOUS
  <2>1. Apart(Homes)
    BY DEF ElevatorInv
  <2>2. UNION {Homes[i] : i \in 1..8} = Requests
    BY <2>1 DEF Apart
  <2>3. \A i, j \in 1..8 : i # j => Homes[i] \intersect Homes[j] = {}
    BY <2>1 DEF Apart
  <2>4. \A L \in {higher, lower, queue_head, plug} : NoDuplicates(L)
    BY DEF ElevatorInv, ListTypes
  <2> QED
    BY <2>2, <2>3, <2>4 DEF OneHome
<1> QED
  BY <1>1, ElevatorSafe, PTL

(* q->nr_sorted is the number of requests on the scheduler's lists.        *)
THEOREM SortedCountExact == Spec => []SortedCount
<1>1. ElevatorInv => SortedCount
  BY DEF ElevatorInv
<1> QED
  BY <1>1, ElevatorSafe, PTL

(***************************************************************************)
(* The merge hash and the scheduler's lists agree: hashed requests are     *)
(* queued and hashed under their present end, mergeable queued ones are    *)
(* hashed.                                                                 *)
(***************************************************************************)
THEOREM MergeHashExact == Spec => []HashExact
<1>1. ElevatorInv => HashExact
  <2> SUFFICES ASSUME ElevatorInv PROVE HashExact
    OBVIOUS
  <2>1. \A rq \in Requests : RequestOK(rq)
    BY DEF ElevatorInv
  <2>2. \A rq \in Held : rq \in Requests
    BY HeldFacts
  <2> QED
    BY <2>1, <2>2 DEF HashExact, RequestOK
<1> QED
  BY <1>1, ElevatorSafe, PTL

(* q->last_merge and q->boundary_rq never dangle.                          *)
THEOREM CachedPointersSafe == Spec => []CachedPointersLive
<1>1. ElevatorInv => CachedPointersLive
  BY DEF ElevatorInv
<1> QED
  BY <1>1, ElevatorSafe, PTL

(* q->in_flight counts the fs requests with the driver, exactly.           *)
THEOREM InFlightCounted == Spec => []InFlightExact
<1>1. ElevatorInv => InFlightExact
  BY DEF ElevatorInv, DriverOK
<1> QED
  BY <1>1, ElevatorSafe, PTL

(***************************************************************************)
(* Every bio that was queued and has not ended is in exactly one request,  *)
(* and the bios of each request cover its sectors in order, through every  *)
(* merge, partial completion and requeue.                                  *)
(***************************************************************************)
THEOREM BiosTileRequests == Spec => []BiosTile
<1>1. ElevatorInv => BiosTile
  <2> SUFFICES ASSUME ElevatorInv PROVE BiosTile
    OBVIOUS
  <2>1. ASSUME NEW rq \in Requests
        PROVE  /\ NoDuplicates(bios[rq])
               /\ bios[rq] # <<>> =>
                    /\ BioPos[Head(bios[rq])] = sector[rq]
                    /\ BioPos[Last(bios[rq])] + BioLen[Last(bios[rq])] = rq_end_sector(rq)
               /\ \A i \in 1..Len(bios[rq]) - 1 :
                    BioPos[bios[rq][i]] + BioLen[bios[rq][i]] = BioPos[bios[rq][i + 1]]
    <3>1. /\ bios[rq] \in Seq(Bios) /\ sector[rq] \in Nat /\ nr[rq] \in Nat
          /\ Tiles(bios[rq], sector[rq], nr[rq])
      BY DEF ElevatorInv, DataTypes, RequestOK
    <3>2. NoDuplicates(bios[rq])
      BY <3>1, TilesWithin
    <3>3. bios[rq] # <<>> => Head(bios[rq]) = bios[rq][1]
      BY <3>1
    <3> QED
      BY <3>1, <3>2, <3>3 DEF Tiles, End, Last, rq_end_sector
  <2>2. ASSUME NEW b \in Bios
        PROVE  bstate[b] = "queued" <=>
                 \E rq \in Requests : /\ b \in ToSet(bios[rq])
                                      /\ \A other \in Requests \ {rq} : b \notin ToSet(bios[other])
    <3>1. /\ \A rq, other \in Requests :
               rq # other => ToSet(bios[rq]) \intersect ToSet(bios[other]) = {}
          /\ bstate[b] = "queued" <=> \E rq \in Requests : b \in ToSet(bios[rq])
      BY DEF ElevatorInv, ChainsOK
    <3> QED
      BY <3>1
  <2> QED
    BY <2>1, <2>2 DEF BiosTile
<1> QED
  BY <1>1, ElevatorSafe, PTL

(***************************************************************************)
(* Whoever gets in front of a request of the dispatch queue, started or    *)
(* not, is a BLOCK_PC request or one the driver puts back.                 *)
(***************************************************************************)
LEMMA NoOvertaking ==
  ASSUME ElevatorInv, Next, NEW rq \in ToSet(queue_head), NEW new,
         Before(queue_head', new, rq), ~ Before(queue_head, new, rq)
  PROVE  "PC" \in flags'[new] \/ new \in driver
<1>0. queue_head \in Seq(Requests) /\ Apart(Homes)
  BY DEF ElevatorInv, ListTypes
<1>1. queue_head' # queue_head
  OBVIOUS
<1>2. CASE Submission
  BY <1>1, <1>2 DEF Submission, blk_attempt_plug_merge, blk_queue_bio_merge
<1>3. CASE \E b \in Bios, r \in Requests : get_request(b, r)
  BY <1>1, <1>3 DEF get_request
<1>4. CASE \E r \in Requests : add_to_plug(r) \/ blk_queue_bio_insert(r)
  BY <1>1, <1>4 DEF add_to_plug, blk_queue_bio_insert
<1>5. CASE \E r \in Requests, where \in {"FRONT", "BACK"} : insert_pc(r, where)
  <2>1. PICK r \in Requests : /\ queue_head' = Cons(r, queue_head)
                              /\ flags' = [flags EXCEPT ![r] =
                                             blk_rq_set_block_pc({"ELVPRIV", "SOFTBARRIER"})]
    BY <1>1, <1>5 DEF insert_pc, Cons
  <2>2. "PC" \in flags'[r]
    BY <2>1 DEF blk_rq_set_block_pc, ElevatorInv, DataTypes
  <2> QED
    BY <1>0, <2>1, <2>2, ConsOrder
<1>6. CASE blk_flush_plug_list \/ peek_nothing \/ blk_delay_work \/ blk_set_queue_dying
  BY <1>1, <1>6 DEF blk_flush_plug_list, peek_nothing, blk_delay_work, blk_set_queue_dying
<1>7. CASE LockHolder
  <2>1. PICK r \in Requests : r \notin ToSet(queue_head) /\ queue_head' = Append(queue_head, r)
    <3>1. CASE elv_drain_elevator
      <4>1. PICK r \in Requests : Dispatch(r) /\ queue_head' = Append(queue_head, r)
        BY <3>1 DEF elv_drain_elevator, list_add_tail
      <4>2. r \in Held
        BY <4>1, DispatchTakes
      <4> QED
        BY <1>0, <4>1, <4>2, PlacesApart
    <3>2. CASE insert_back
      <4>1. pc.op = "back" /\ queue_head' = Append(queue_head, pc.rq)
        BY <3>2 DEF insert_back, list_add_tail
      <4>2. pc.rq \in Requests /\ pc.rq \in InHand
        BY <4>1 DEF ElevatorInv, LoopOK, InHand
      <4> QED
        BY <1>0, <4>1, <4>2, PlacesApart
    <3>3. CASE \E i \in 1..Len(plug) : flush_next(i) \/ flush_ends_next(i)
      BY <1>1, <3>3 DEF flush_next, flush_ends_next
    <3>4. CASE elv_attempt_insert_merge \/ flush_insert \/ flush_end
      BY <1>1, <3>4 DEF elv_attempt_insert_merge, flush_insert, flush_end
    <3> QED
      BY <1>7, <3>1, <3>2, <3>3, <3>4 DEF LockHolder
  <2> QED
    BY <1>0, <2>1, AppendOrder
<1>8. CASE \E r \in Requests : blk_fetch_request(r) \/ peek_and_leave(r) \/ peek_and_kill(r)
  <2>1. queue_head # <<>>
    BY EmptySeq DEF ToSet
  <2>2. PICK r \in Requests : /\ blk_peek_request(r)
                              /\ queue_head' = Tail(queue_head)
                                   \/ queue_head' = Cons(r, Tail(queue_head))
    BY <1>8, <2>1 DEF blk_fetch_request, peek_and_leave, peek_and_kill, RestOfQueue, Cons
  <2>3. r = Head(queue_head)
    BY <2>1, <2>2 DEF blk_peek_request
  <2>4. queue_head' = Tail(queue_head)
    BY <1>0, <1>1, <2>1, <2>2, <2>3, PutBack
  <2> QED
    BY <1>0, <2>1, <2>4, TailOrder
<1>9. CASE \E r \in Requests : blk_requeue_request(r) \/ blk_end_bidi_request(r)
  <2>1. PICK r \in Requests : r \in driver /\ queue_head' = Cons(r, queue_head)
    BY <1>1, <1>9 DEF blk_requeue_request, elv_requeue_request, blk_end_bidi_request,
       blk_update_request, blk_finish_request, Cons
  <2> QED
    BY <1>0, <2>1, ConsOrder
<1>10. CASE \E b \in Bios : get_request_fails(b)
  BY <1>1, <1>10 DEF get_request_fails
<1> QED
  BY <1>2, <1>3, <1>4, <1>5, <1>6, <1>7, <1>8, <1>9, <1>10 DEF Next

(***************************************************************************)
(* A request the driver has peeked at and left is not passed by a new fs   *)
(* request: what the comment of blk_peek_request promises.                 *)
(***************************************************************************)
THEOREM StartedKeepsPlace == Spec => StartedNotPassed
<1> DEFINE Kept == \A rq, new \in ToSet(queue_head') :
                     (/\ rq \in ToSet(queue_head) /\ "STARTED" \in flags[rq]
                      /\ Before(queue_head', new, rq) /\ ~ Before(queue_head, new, rq))
                     => "PC" \in flags'[new] \/ new \in driver
<1>1. ElevatorInv /\ [Next]_vars => [Kept]_vars
  BY NoOvertaking
<1> HIDE DEF Kept
<1>2. Spec => [][Kept]_vars
  BY <1>1, ElevatorSafe, PTL DEF Spec
<1> QED
  BY <1>2 DEF Kept, StartedNotPassed
=============================================================================
