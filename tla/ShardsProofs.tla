----------------------------- MODULE ShardsProofs -----------------------------
(* Proofs about Shards, for any number of ids and any types, values, data  *)
(* and page sizes.                                                         *)
EXTENDS Shards, OrdersProofs, SequenceTheorems

USE DEF Ids, NoId

-----------------------------------------------------------------------------
(* Parts of sequences.                                                     *)

(* What is left of a sequence from an index on.                            *)
LEMMA FromIs ==
  ASSUME NEW S, NEW seq \in Seq(S), NEW k \in 0 .. Len(seq)
  PROVE  /\ From(seq, k) \in [1 .. Len(seq) - k -> S]
         /\ Len(seq) - k \in Nat
         /\ From(seq, k) \in Seq(S) /\ Len(From(seq, k)) = Len(seq) - k
         /\ \A i \in 1 .. Len(seq) - k : From(seq, k)[i] = seq[k + i]
<1>1. /\ k + 1 \in Int /\ Len(seq) \in Int /\ Len(seq) \in Nat
      /\ \A i \in k + 1 .. Len(seq) : seq[i] \in S
  OBVIOUS
<1>2. /\ SubSeq(seq, k + 1, Len(seq)) \in Seq(S)
      /\ Len(SubSeq(seq, k + 1, Len(seq))) =
           IF k + 1 <= Len(seq) THEN Len(seq) - (k + 1) + 1 ELSE 0
      /\ \A i \in 1 .. Len(seq) - (k + 1) + 1 :
           SubSeq(seq, k + 1, Len(seq))[i] = seq[k + 1 + i - 1]
  BY <1>1, SubSeqProperties
<1>3. /\ From(seq, k) \in Seq(S) /\ Len(From(seq, k)) = Len(seq) - k /\ Len(seq) - k \in Nat
      /\ \A i \in 1 .. Len(seq) - k : From(seq, k)[i] = seq[k + i]
  BY <1>1, <1>2 DEF From
<1>4. From(seq, k) \in [1 .. Len(From(seq, k)) -> S]
  BY <1>3
<1> QED BY <1>3, <1>4

(* A page is the beginning of what there is: all of it when the page size  *)
(* is 0, and something when there is something.                            *)
LEMMA PageOf ==
  ASSUME NEW S, NEW seq \in Seq(S), NEW first \in Nat
  PROVE  /\ UpTo(seq, first) \in Seq(S)
         /\ Len(UpTo(seq, first)) \in 0 .. Len(seq)
         /\ \A i \in 1 .. Len(UpTo(seq, first)) : UpTo(seq, first)[i] = seq[i]
         /\ first = 0 => UpTo(seq, first) = seq
         /\ UpTo(seq, first) = <<>> => seq = <<>>
<1>1. CASE first = 0 \/ first >= Len(seq)
  BY <1>1 DEF UpTo
<1>2. CASE ~(first = 0 \/ first >= Len(seq))
  <2>1. first \in Int /\ 1 \in Int /\ 1 <= first /\ \A i \in 1 .. first : seq[i] \in S
    BY <1>2
  <2>2. /\ SubSeq(seq, 1, first) \in Seq(S)
        /\ Len(SubSeq(seq, 1, first)) = IF 1 <= first THEN first - 1 + 1 ELSE 0
        /\ \A i \in 1 .. first - 1 + 1 : SubSeq(seq, 1, first)[i] = seq[1 + i - 1]
    BY <2>1, SubSeqProperties
  <2>3. UpTo(seq, first) = SubSeq(seq, 1, first)
    BY <1>2 DEF UpTo
  <2>4. Len(UpTo(seq, first)) = first
    BY <2>1, <2>2, <2>3
  <2>5. UpTo(seq, first) # <<>>
    BY <2>1, <2>4
  <2> QED BY <1>2, <2>1, <2>2, <2>3, <2>4, <2>5
<1> QED BY <1>1, <1>2

(* From the numbers in ascending order on, past a number: those above it.  *)
LEMMA FromAscending ==
  ASSUME NEW S \in SUBSET Nat, IsFiniteSet(S), NEW after \in Nat,
         NEW k \in 0 .. Len(Ascending(S)),
         \A i \in 1 .. Len(Ascending(S)) : Ascending(S)[i] > after <=> i > k
  PROVE  From(Ascending(S), k) = Ascending({x \in S : x > after})
<1> DEFINE seq == Ascending(S)
           T == {x \in S : x > after}
           n == Len(seq) - k
           rest == From(seq, k)
<1>1. /\ seq \in Seq(S) /\ Len(seq) \in Nat
      /\ \A i, j \in 1 .. Len(seq) : i < j => seq[i] < seq[j]
      /\ \A x \in S : \E i \in 1 .. Len(seq) : seq[i] = x
      /\ \A i \in 1 .. Len(seq) : seq[i] > after <=> i > k
  BY AscendingIs
<1> HIDE DEF seq
<1>2. /\ n \in Nat /\ rest \in [1 .. n -> S] /\ \A i \in 1 .. n : rest[i] = seq[k + i]
  BY <1>1, FromIs DEF seq
<1>3. \A i \in 1 .. n : k + i \in 1 .. Len(seq) /\ k + i > k
  BY <1>1 DEF seq
<1> HIDE DEF rest
<1>4. \A i \in 1 .. n : rest[i] \in T
  BY <1>1, <1>2, <1>3
<1>5. rest \in [1 .. n -> T]
  BY <1>2, <1>4
<1>6. \A i, j \in 1 .. n : i < j => rest[i] < rest[j]
  <2>1. \A i, j \in 1 .. n : i < j => k + i < k + j
    OBVIOUS
  <2> QED BY <1>1, <1>2, <1>3, <2>1
<1>7. \A x \in T : \E i \in 1 .. n : rest[i] = x
  <2>1. TAKE x \in T
  <2>2. PICK j \in 1 .. Len(seq) : seq[j] = x
    BY <1>1
  <2>3. j > k
    BY <1>1, <2>2
  <2>4. j - k \in 1 .. n /\ k + (j - k) = j
    BY <1>1, <2>3 DEF seq
  <2> QED BY <1>2, <2>2, <2>4
<1>8. T \in SUBSET Nat
  OBVIOUS
<1> HIDE DEF T, n
<1>9. Ascending(T) = rest
  BY <1>2, <1>5, <1>6, <1>7, <1>8, AscendingOf
<1> QED BY <1>9 DEF T, rest, seq

(* memshard.py's count of the ids up to after is the index of the next one *)
(* in the sorted list.                                                     *)
LEMMA AfterIndex ==
  ASSUME NEW S \in SUBSET Nat, IsFiniteSet(S), NEW after \in Nat
  PROVE  LET k == Cardinality({i \in DOMAIN Ascending(S) : after >= Ascending(S)[i]})
         IN  /\ k \in 0 .. Len(Ascending(S))
             /\ \A i \in 1 .. Len(Ascending(S)) : Ascending(S)[i] > after <=> i > k
<1> DEFINE seq == Ascending(S)
           n == Len(seq)
           D == {i \in 1 .. n : after >= seq[i]}
           E == {i \in 1 .. n : ~(after >= seq[i])}
<1>1. /\ seq \in Seq(S) /\ n \in Nat /\ DOMAIN seq = 1 .. n
      /\ \A i, j \in 1 .. n : i < j => seq[i] < seq[j]
      /\ \A i \in 1 .. n : seq[i] \in Nat
  BY AscendingIs
<1> HIDE DEF seq, n
<1>2. \E m \in 0 .. n : D = 1 .. m
  <2>1. CASE E = {}
    <3>1. D = 1 .. n /\ n \in 0 .. n
      BY <1>1, <2>1
    <3> QED BY <3>1
  <2>2. CASE E # {}
    <3>1. E \in SUBSET Nat
      OBVIOUS
    <3>2. PICK j \in E : \A i \in E : j <= i
      BY <2>2, <3>1, LeastNumber
    <3>3. j \in 1 .. n /\ seq[j] > after
      BY <1>1, <3>2
    <3>4. \A i \in 1 .. n : i >= j => seq[i] > after
      BY <1>1, <3>3, SMTT(30)
    <3>5. \A i \in 1 .. n : i < j => after >= seq[i]
      BY <3>2, <3>3
    <3>6. D = 1 .. j - 1 /\ j - 1 \in 0 .. n
      BY <1>1, <3>3, <3>4, <3>5
    <3> QED BY <3>6
  <2> QED BY <2>1, <2>2
<1>3. PICK m \in 0 .. n : D = 1 .. m
  BY <1>2
<1>4. \A i \in 1 .. n : seq[i] > after <=> i > m
  <2>1. \A i \in 1 .. n : i \in D <=> i <= m
    BY <1>1, <1>3
  <2> QED BY <1>1, <1>3, <2>1
<1>5. Cardinality(D) = m
  <2>1. m \in Nat
    BY <1>1
  <2> HIDE DEF D
  <2> QED BY <1>3, <2>1, FirstNumbers
<1>6. Cardinality({i \in DOMAIN seq : after >= seq[i]}) = m
  BY <1>1, <1>5
<1> QED BY <1>4, <1>6 DEF seq, n

-----------------------------------------------------------------------------
(* The two shards answer the same.                                         *)

(* There are finitely many ids.                                            *)
LEMMA IdsFinite ==
  /\ Ids \in SUBSET Nat /\ IsFiniteSet(Ids) /\ Ids = 1 .. MaxId /\ MaxId \in Nat
  /\ \A S \in SUBSET Ids : S \in SUBSET Nat /\ IsFiniteSet(S)
<1>1. Ids \in SUBSET Nat /\ IsFiniteSet(Ids) /\ MaxId \in Nat
  BY ShardsAssumption, FirstNumbers
<1> QED BY <1>1, FS_Subset

(* Nothing in order is the empty sequence.                                 *)
LEMMA AscendingNothing == Ascending({}) = <<>>
<1>1. {} \in SUBSET Nat /\ 0 \in Nat /\ <<>> \in [1 .. 0 -> {}]
  OBVIOUS
<1> HIDE DEF Ids, NoId
<1>2. \A i, j \in 1 .. 0 : i < j => <<>>[i] < <<>>[j]
  OBVIOUS
<1> QED BY <1>1, <1>2, AscendingOf

(* The elements at the positions, as many.                                 *)
LEMMA AtPositionsIs ==
  ASSUME NEW S, NEW seq \in Seq(S), NEW P \in SUBSET DOMAIN seq
  PROVE  /\ P \in SUBSET Nat /\ IsFiniteSet(P)
         /\ AtPositions(seq, P) \in Seq(S)
         /\ Len(AtPositions(seq, P)) = Len(Ascending(P)) /\ Len(Ascending(P)) \in Nat
         /\ DOMAIN AtPositions(seq, P) = 1 .. Len(Ascending(P))
         /\ DOMAIN Ascending(P) = 1 .. Len(Ascending(P))
         /\ \A i \in 1 .. Len(Ascending(P)) :
              Ascending(P)[i] \in P /\ AtPositions(seq, P)[i] = seq[Ascending(P)[i]]
<1>1. DOMAIN seq = 1 .. Len(seq) /\ Len(seq) \in Nat
  OBVIOUS
<1>2. P \in SUBSET Nat /\ IsFiniteSet(P)
  <2>1. IsFiniteSet(1 .. Len(seq))
    BY <1>1, FirstNumbers
  <2> QED BY <1>1, <2>1, FS_Subset
<1> DEFINE sorted == Ascending(P)
           n == Len(sorted)
<1>3. sorted \in Seq(P) /\ n \in Nat /\ DOMAIN sorted = 1 .. n /\ \A i \in 1 .. n : sorted[i] \in P
  BY <1>2, AscendingIs
<1>4. AtPositions(seq, P) = [i \in DOMAIN sorted |-> seq[sorted[i]]]
  BY DEF AtPositions
<1> HIDE DEF sorted, n
<1>5. \A i \in 1 .. n : seq[sorted[i]] \in S
  BY <1>1, <1>3
<1>6. AtPositions(seq, P) \in [1 .. n -> S] /\ \A i \in 1 .. n : AtPositions(seq, P)[i] = seq[sorted[i]]
  BY <1>3, <1>4, <1>5
<1>7. AtPositions(seq, P) \in Seq(S) /\ Len(AtPositions(seq, P)) = n /\ DOMAIN AtPositions(seq, P) = 1 .. n
  BY <1>3, <1>6, FunctionIsSequence
<1> QED BY <1>2, <1>3, <1>6, <1>7 DEF n, sorted

(* Nothing is at no position.                                              *)
LEMMA NothingAt == \A S : \A seq \in Seq(S) : AtPositions(seq, {}) = <<>>
<1>1. Len(Ascending({})) = 0
  BY AscendingNothing
<1>2. ASSUME NEW S, NEW seq \in Seq(S)
      PROVE  AtPositions(seq, {}) = <<>>
  <2>1. {} \in SUBSET DOMAIN seq
    OBVIOUS
  <2>2. AtPositions(seq, {}) \in Seq(S) /\ Len(AtPositions(seq, {})) = 0
    BY <1>1, <2>1, AtPositionsIs
  <2> QED BY <2>2
<1> QED BY <1>2

(* The rows of a source, and the objects they lead to.                     *)
Tos == [row \in DOMAIN db.edges |-> db.edges[row][2]]
RowsOf(from) == {row \in DOMAIN db.edges : db.edges[row][1] = from}

(* The rows of the table of edges.                                         *)
LEMMA RowsAre ==
  ASSUME ShardsTypeOK
  PROVE  /\ db.edges \in Seq(Ids \X Ids) /\ DOMAIN db.edges = 1 .. Len(db.edges)
         /\ Len(db.edges) \in Nat
         /\ \A row \in DOMAIN db.edges :
              /\ db.edges[row][1] \in Ids /\ db.edges[row][2] \in Ids
              /\ db.edges[row] = <<db.edges[row][1], db.edges[row][2]>>
         /\ Tos \in Seq(Ids) /\ DOMAIN Tos = DOMAIN db.edges
         /\ \A row \in DOMAIN db.edges : Tos[row] = db.edges[row][2]
<1>1. /\ db.edges \in Seq(Ids \X Ids) /\ DOMAIN db.edges = 1 .. Len(db.edges)
      /\ Len(db.edges) \in Nat
  BY DEF ShardsTypeOK
<1>2. \A row \in DOMAIN db.edges : db.edges[row] \in Ids \X Ids
  BY <1>1
<1>3. \A row \in DOMAIN db.edges :
              /\ db.edges[row][1] \in Ids /\ db.edges[row][2] \in Ids
              /\ db.edges[row] = <<db.edges[row][1], db.edges[row][2]>>
  BY <1>2
<1>4. Tos \in [1 .. Len(db.edges) -> Ids]
  BY <1>1, <1>3 DEF Tos
<1> QED BY <1>1, <1>3, <1>4, FunctionIsSequence DEF Tos

(* All edges of a source, and those after an id, as the MySQL shard reads  *)
(* them.                                                                   *)
LEMMA EdgesOfIs ==
  ASSUME ShardsTypeOK, NEW from
  PROVE  /\ EdgesOf(from) = AtPositions(Tos, RowsOf(from))
         /\ EdgesOf(from) \in Seq(Ids)
         /\ \A first : DbGenEdges(from, NoId, first) = UpTo(EdgesOf(from), first)
         /\ \A after, first : after # NoId =>
              DbGenEdges(from, after, first) =
                UpTo(AtPositions(Tos, {row \in RowsOf(from) : \E last \in RowId(from, after) : row > last}),
                     first)
<1>1. {row \in DOMAIN db.edges : /\ db.edges[row][1] = from
                                 /\ NoId # NoId => \E last \in RowId(from, NoId) : row > last}
        = RowsOf(from)
  BY DEF RowsOf
<1>2. \A first : DbGenEdges(from, NoId, first) = UpTo(AtPositions(Tos, RowsOf(from)), first)
  BY <1>1 DEF DbGenEdges, Tos
<1>3. EdgesOf(from) = AtPositions(Tos, RowsOf(from))
  BY <1>2 DEF EdgesOf, UpTo
<1>4. ASSUME NEW after, NEW first, after # NoId
      PROVE  DbGenEdges(from, after, first) =
               UpTo(AtPositions(Tos, {row \in RowsOf(from) : \E last \in RowId(from, after) : row > last}),
                    first)
  <2>1. {row \in DOMAIN db.edges : /\ db.edges[row][1] = from
                                   /\ after # NoId => \E last \in RowId(from, after) : row > last}
          = {row \in RowsOf(from) : \E last \in RowId(from, after) : row > last}
    BY <1>4 DEF RowsOf
  <2> QED BY <2>1 DEF DbGenEdges, Tos
<1>5. RowsOf(from) \in SUBSET DOMAIN Tos
  BY RowsAre DEF RowsOf
<1>6. EdgesOf(from) \in Seq(Ids)
  BY <1>3, <1>5, RowsAre, AtPositionsIs
<1> QED BY <1>2, <1>3, <1>4, <1>6

(* A position in the list of a source is a row of it.                      *)
LEMMA RowAtPosition ==
  ASSUME ShardsTypeOK, NEW from
  PROVE  LET rows == Ascending(RowsOf(from))
             L == EdgesOf(from)
         IN  /\ RowsOf(from) \in SUBSET Nat /\ IsFiniteSet(RowsOf(from))
             /\ rows \in Seq(RowsOf(from)) /\ Len(rows) = Len(L) /\ Len(L) \in Nat
             /\ DOMAIN L = 1 .. Len(L) /\ DOMAIN rows = 1 .. Len(L)
             /\ \A i \in 1 .. Len(L) : /\ rows[i] \in RowsOf(from)
                                       /\ L[i] = db.edges[rows[i]][2]
             /\ \A i, j \in 1 .. Len(L) : i < j => rows[i] < rows[j]
             /\ \A row \in RowsOf(from) : \E i \in 1 .. Len(L) : rows[i] = row
<1>1. RowsOf(from) \in SUBSET DOMAIN Tos /\ Tos \in Seq(Ids)
  BY RowsAre DEF RowsOf
<1>2. /\ RowsOf(from) \in SUBSET Nat /\ IsFiniteSet(RowsOf(from))
      /\ EdgesOf(from) = AtPositions(Tos, RowsOf(from))
      /\ Len(EdgesOf(from)) = Len(Ascending(RowsOf(from))) /\ Len(EdgesOf(from)) \in Nat
      /\ DOMAIN EdgesOf(from) = 1 .. Len(EdgesOf(from))
      /\ DOMAIN Ascending(RowsOf(from)) = 1 .. Len(EdgesOf(from))
      /\ \A i \in 1 .. Len(EdgesOf(from)) :
           /\ Ascending(RowsOf(from))[i] \in RowsOf(from)
           /\ EdgesOf(from)[i] = Tos[Ascending(RowsOf(from))[i]]
  BY <1>1, AtPositionsIs, EdgesOfIs
<1>3. \A row \in RowsOf(from) : Tos[row] = db.edges[row][2]
  BY RowsAre DEF RowsOf
<1>4. /\ Ascending(RowsOf(from)) \in Seq(RowsOf(from))
      /\ \A i, j \in 1 .. Len(Ascending(RowsOf(from))) :
           i < j => Ascending(RowsOf(from))[i] < Ascending(RowsOf(from))[j]
      /\ \A row \in RowsOf(from) :
           \E i \in 1 .. Len(Ascending(RowsOf(from))) : Ascending(RowsOf(from))[i] = row
  BY <1>2, AscendingIs
<1> QED BY <1>2, <1>3, <1>4

(* The edges after an id: in memory those after its position in the list   *)
(* of the source, in MySQL the rows after its row.  Both are none when the *)
(* id has no edge from that source.                                        *)
LEMMA EdgesAfter ==
  ASSUME ShardsTypeOK, SameEdges, NEW from, NEW after \in Ids
  PROVE  /\ get_after_index(EdgesOf(from), after) \in 0 .. Len(EdgesOf(from))
         /\ From(EdgesOf(from), get_after_index(EdgesOf(from), after)) =
              AtPositions(Tos, {row \in RowsOf(from) : \E last \in RowId(from, after) : row > last})
<1> DEFINE R == RowsOf(from)
           L == EdgesOf(from)
           n == Len(L)
           rows == Ascending(R)
           start == RowId(from, after)
           later == {row \in R : \E last \in start : row > last}
           hits == {i \in DOMAIN L : L[i] = after}
<1>1. /\ R \in SUBSET Nat /\ IsFiniteSet(R)
      /\ rows \in Seq(R) /\ Len(rows) = n /\ n \in Nat
      /\ DOMAIN L = 1 .. n /\ DOMAIN rows = 1 .. n
      /\ \A i \in 1 .. n : rows[i] \in R /\ L[i] = db.edges[rows[i]][2]
      /\ \A i, j \in 1 .. n : i < j => rows[i] < rows[j]
      /\ \A row \in R : \E i \in 1 .. n : rows[i] = row
  BY RowAtPosition
<1>2. /\ \A row \in R : row \in DOMAIN db.edges /\ db.edges[row] = <<from, db.edges[row][2]>>
      /\ L \in Seq(Ids)
      /\ \A row, other \in DOMAIN db.edges : db.edges[row][2] = db.edges[other][2] => row = other
  BY RowsAre, EdgesOfIs DEF RowsOf, SameEdges
<1>3. \A row \in start : row \in R /\ db.edges[row][2] = after
  BY DEF RowId, RowsOf
<1> HIDE DEF R, L, rows, start
<1>4. CASE hits = {}
  <2>1. ASSUME NEW row \in start
        PROVE  FALSE
    <3>1. PICK i \in 1 .. n : rows[i] = row
      BY <1>1, <1>3
    <3>2. L[i] = after /\ i \in DOMAIN L
      BY <1>1, <1>3, <3>1
    <3> QED BY <1>4, <3>2
  <2>2. later = {}
    BY <2>1
  <2>3. AtPositions(Tos, later) = <<>>
    BY <2>2, NothingAt, RowsAre
  <2>4. get_after_index(L, after) = n
    BY <1>4 DEF get_after_index
  <2>5. n \in 0 .. n /\ n \in Int /\ n + 1 \in Int /\ n < n + 1
    BY <1>1
  <2>6. From(L, n) = <<>>
    BY <2>5, SubSeqEmpty DEF From
  <2> QED BY <2>3, <2>4, <2>5, <2>6 DEF L, start, R
<1>5. CASE hits # {}
  <2>1. hits \in SUBSET Nat
    BY <1>1
  <2>2. PICK p \in hits : \A i \in hits : p <= i
    BY <1>5, <2>1, LeastNumber
  <2>3. Min(hits) = p
    BY <2>1, <2>2 DEF Min
  <2>4. get_after_index(L, after) = p /\ p \in 1 .. n /\ L[p] = after
    BY <1>1, <1>5, <2>2, <2>3 DEF get_after_index
  <2> DEFINE r == rows[p]
             S == {row \in R : row > r}
             rest == From(rows, p)
  <2>5. r \in R /\ r \in DOMAIN db.edges /\ db.edges[r] = <<from, after>> /\ r \in Nat
    <3>1. r \in R /\ L[p] = db.edges[r][2]
      BY <1>1, <2>4
    <3>2. r \in Nat
      BY <1>1, <3>1
    <3> QED BY <1>2, <2>4, <3>1, <3>2
  <2>6. start = {r}
    BY <1>2, <1>3, <2>5 DEF RowId, start
  <2>7. later = S
    BY <2>6
  <2>8. \A i \in 1 .. n : rows[i] > r <=> i > p
    <3>1. \A i \in 1 .. n : rows[i] \in Nat
      BY <1>1
    <3>2. \A i \in 1 .. n : i < p \/ i = p \/ i > p
      BY <2>4
    <3> QED BY <1>1, <2>4, <3>1, <3>2
  <2> HIDE DEF r
  <2>9. rest = Ascending(S)
    <3>1. p \in 0 .. Len(Ascending(R)) /\ \A i \in 1 .. Len(Ascending(R)) : Ascending(R)[i] > r <=> i > p
      BY <1>1, <2>4, <2>8 DEF rows
    <3> QED BY <1>1, <2>5, <3>1, FromAscending DEF rows
  <2>10. p \in 0 .. Len(rows) /\ p \in 0 .. Len(L) /\ Len(rows) = n
    BY <1>1, <2>4
  <2> HIDE DEF n
  <2>11. /\ DOMAIN rest = 1 .. n - p /\ \A i \in 1 .. n - p : rest[i] = rows[p + i]
    <3>0. rows \in Seq(R)
      BY <1>1
    <3>1. /\ From(rows, p) \in [1 .. Len(rows) - p -> R]
          /\ \A i \in 1 .. Len(rows) - p : From(rows, p)[i] = rows[p + i]
      BY <3>0, <2>10, FromIs
    <3> QED BY <2>10, <3>1
  <2>12. /\ From(L, p) \in [1 .. n - p -> Ids] /\ \A i \in 1 .. n - p : From(L, p)[i] = L[p + i]
    <3>0. L \in Seq(Ids)
      BY <1>2
    <3>1. /\ From(L, p) \in [1 .. Len(L) - p -> Ids]
          /\ \A i \in 1 .. Len(L) - p : From(L, p)[i] = L[p + i]
      BY <3>0, <2>10, FromIs
    <3> QED BY <3>1 DEF n
  <2> HIDE DEF rest, S
  <2>13. AtPositions(Tos, later) = [i \in 1 .. n - p |-> Tos[rest[i]]]
    BY <2>7, <2>9, <2>11 DEF AtPositions
  <2>14. \A i \in 1 .. n - p : Tos[rest[i]] = From(L, p)[i]
    <3>1. TAKE i \in 1 .. n - p
    <3>2. p + i \in 1 .. n
      BY <1>1, <2>4
    <3>3. \A row \in R : Tos[row] = db.edges[row][2]
      BY <1>2, RowsAre
    <3>4. rest[i] = rows[p + i] /\ From(L, p)[i] = L[p + i]
      BY <2>11, <2>12
    <3>5. rows[p + i] \in R /\ L[p + i] = db.edges[rows[p + i]][2]
      BY <1>1, <3>2
    <3> QED BY <3>3, <3>4, <3>5
  <2>15. From(L, p) = [i \in 1 .. n - p |-> From(L, p)[i]]
    BY <2>12
  <2>16. AtPositions(Tos, later) = From(L, p)
    BY <2>13, <2>14, <2>15, Zenon
  <2> QED BY <2>4, <2>10, <2>16 DEF L, start, R
<1> QED BY <1>4, <1>5

(* So a page of edges is the same from both shards.                        *)
LEMMA SamePagesOfEdges ==
  ASSUME ShardsTypeOK, SameEdges, NEW from \in DOMAIN mem.edges, NEW after \in Afters, NEW first
  PROVE  MemGenEdges(from, after, first) = DbGenEdges(from, after, first)
<1>1. mem.edges[from] = EdgesOf(from)
  BY DEF SameEdges
<1>2. CASE after = NoId
  BY <1>1, <1>2, EdgesOfIs DEF MemGenEdges
<1>3. CASE after # NoId
  <2>1. after \in Ids
    BY <1>3 DEF Afters
  <2>2. MemGenEdges(from, after, first) =
          UpTo(From(EdgesOf(from), get_after_index(EdgesOf(from), after)), first)
    BY <1>1, <1>3 DEF MemGenEdges
  <2>3. From(EdgesOf(from), get_after_index(EdgesOf(from), after)) =
          AtPositions(Tos, {row \in RowsOf(from) : \E last \in RowId(from, after) : row > last})
    BY <2>1, EdgesAfter
  <2>4. DbGenEdges(from, after, first) =
          UpTo(AtPositions(Tos, {row \in RowsOf(from) : \E last \in RowId(from, after) : row > last}),
               first)
    BY <1>3, EdgesOfIs
  <2> QED BY <2>2, <2>3, <2>4
<1> QED BY <1>2, <1>3

(* And a page of objects.                                                  *)
LEMMA SamePagesOfObjects ==
  ASSUME ShardsTypeOK, SameObjects, NEW type, NEW after \in Afters, NEW first
  PROVE  MemGenObjectsOfType(type, after, first) = DbGenObjectsOfType(type, after, first)
<1> DEFINE S == {id \in DOMAIN mem.objects : mem.objects[id].type = type}
           T == {id \in S : id > after}
           U == {id \in DOMAIN db.objects : db.objects[id].type = type /\ id > after}
           k == Cardinality({i \in DOMAIN Ascending(S) : after >= Ascending(S)[i]})
<1>1. S \in SUBSET Ids
  BY DEF ShardsTypeOK, IsObjects
<1>2. S \in SUBSET Nat /\ IsFiniteSet(S) /\ after \in Nat
  BY <1>1, IdsFinite DEF Afters
<1>3. T = U
  BY DEF SameObjects, SameObject
<1> HIDE DEF S
<1>4. /\ k \in 0 .. Len(Ascending(S))
      /\ \A i \in 1 .. Len(Ascending(S)) : Ascending(S)[i] > after <=> i > k
  BY <1>2, AfterIndex
<1> HIDE DEF k
<1>5. From(Ascending(S), k) = Ascending(T)
  BY <1>2, <1>4, FromAscending
<1>6. after = NoId => T = S
  <2>1. \A id \in S : id > 0
    BY <1>1
  <2> QED BY <2>1
<1> HIDE DEF T, U
<1>7. MemGenObjectsOfType(type, after, first) =
        UpTo(IF after = NoId THEN Ascending(S) ELSE From(Ascending(S), k), first)
  BY DEF MemGenObjectsOfType, S, k
<1>8. DbGenObjectsOfType(type, after, first) = UpTo(Ascending(U), first)
  BY DEF DbGenObjectsOfType, U
<1> QED BY <1>3, <1>5, <1>6, <1>7, <1>8

(* The lists and tables agree on what the reads of the two shards give.    *)
LEMMA StoresAnswerAlike ==
  ASSUME ShardsTypeOK, SameObjects, SameEdges, SameEntries
  PROVE  SameAnswers
<1>0. MemGenObjects({}) = <<>> /\ DbGenObjects({}) = Raises
  BY DEF MemGenObjects, DbGenObjects
<1>1. ASSUME NEW ids \in SUBSET Ids \ {{}}, NEW id \in ids
      PROVE  /\ MemGenObjects(ids)[id] = {} <=> DbGenObjects(ids)[id] = {}
             /\ \A stored \in MemGenObjects(ids)[id], row \in DbGenObjects(ids)[id] :
                  SameObject(stored, row)
  <2>1. MemGenObjects(ids)[id] = IF id \in DOMAIN mem.objects THEN {mem.objects[id]} ELSE {}
    BY DEF MemGenObjects
  <2>2. DbGenObjects(ids)[id] = IF id \in DOMAIN db.objects THEN {db.objects[id]} ELSE {}
    BY DEF DbGenObjects, Restrict
  <2> QED BY <2>1, <2>2 DEF SameObjects
<1>2. ASSUME NEW from \in Ids, NEW after \in Afters, NEW first \in Firsts
      PROVE  IF from \in {row[1] : row \in Range(db.edges)}
               THEN MemGenEdges(from, after, first) = DbGenEdges(from, after, first)
               ELSE /\ MemGenEdges(from, after, first) = Raises
                    /\ DbGenEdges(from, after, first) = <<>>
  <2>1. from \in {row[1] : row \in Range(db.edges)} <=> from \in DOMAIN mem.edges
    BY DEF SameEdges, Range
  <2>2. CASE from \in DOMAIN mem.edges
    BY <2>1, <2>2, SamePagesOfEdges
  <2>3. CASE from \notin DOMAIN mem.edges
    <3>1. MemGenEdges(from, after, first) = Raises
      BY <2>3 DEF MemGenEdges
    <3>2. DbGenEdges(from, after, first) = <<>>
      <4> DEFINE rows == {row \in DOMAIN db.edges :
                            /\ db.edges[row][1] = from
                            /\ after # NoId => \E last \in RowId(from, after) : row > last}
      <4>1. rows = {}
        BY <2>3 DEF SameEdges
      <4>2. DbGenEdges(from, after, first) = UpTo(AtPositions(Tos, rows), first)
        BY DEF DbGenEdges, Tos
      <4>3. AtPositions(Tos, {}) = <<>>
        BY NothingAt, RowsAre
      <4>4. first \in Nat /\ Len(<<>>) = 0
        BY ShardsAssumption
      <4>5. UpTo(<<>>, first) = <<>>
        BY <4>4 DEF UpTo
      <4> HIDE DEF rows
      <4> QED BY <4>1, <4>2, <4>3, <4>5
    <3> QED BY <2>1, <2>3, <3>1, <3>2
  <2> QED BY <2>2, <2>3
<1>3. ASSUME NEW value \in Values
      PROVE  /\ Range(MemGenIndexEntries(value)) = Range(DbGenIndexEntries(value))
             /\ Len(MemGenIndexEntries(value)) = Len(DbGenIndexEntries(value))
  <2> DEFINE entries == MemGenIndexEntries(value)
             T == Targets(value)
  <2>1. T \in SUBSET Nat /\ IsFiniteSet(T)
    BY IdsFinite DEF Targets
  <2>2. DbGenIndexEntries(value) = Ascending(T)
    BY DEF DbGenIndexEntries, Targets
  <2>3. entries \in Seq(Ids) /\ IsInjective(entries) /\ Range(entries) = T
    BY DEF SameEntries
  <2> HIDE DEF entries, T
  <2>4. Len(entries) = Cardinality(T)
    BY <2>3, FiniteRange
  <2>5. Len(Ascending(T)) = Cardinality(T) /\ Range(Ascending(T)) = T
    BY <2>1, AscendingIs
  <2> QED BY <2>2, <2>3, <2>4, <2>5 DEF entries
<1> QED BY <1>0, <1>1, <1>2, <1>3, SamePagesOfObjects DEF SameAnswers

-----------------------------------------------------------------------------
(* What the calls leave alone.                                             *)

(* The list of a source depends on the table of edges only, and no two     *)
(* positions of it hold the same object.                                   *)
LEMMA ListDistinct ==
  ASSUME ShardsTypeOK, SameEdges, NEW from
  PROVE  \A i, j \in DOMAIN EdgesOf(from) : EdgesOf(from)[i] = EdgesOf(from)[j] => i = j
<1> DEFINE rows == Ascending(RowsOf(from))
           L == EdgesOf(from)
<1>1. /\ DOMAIN L = 1 .. Len(L) /\ Len(L) \in Nat
      /\ \A i \in 1 .. Len(L) : rows[i] \in RowsOf(from) /\ L[i] = db.edges[rows[i]][2]
      /\ \A i, j \in 1 .. Len(L) : i < j => rows[i] < rows[j]
      /\ RowsOf(from) \in SUBSET Nat
  BY RowAtPosition
<1>2. RowsOf(from) \in SUBSET DOMAIN db.edges
  BY DEF RowsOf
<1> HIDE DEF rows, L
<1>3. ASSUME NEW i \in 1 .. Len(L), NEW j \in 1 .. Len(L), L[i] = L[j]
      PROVE  i = j
  <2>1. rows[i] = rows[j]
    BY <1>1, <1>2, <1>3 DEF SameEdges
  <2>2. rows[i] \in Nat
    BY <1>1
  <2>3. ~(i < j) /\ ~(j < i)
    BY <1>1, <2>1, <2>2
  <2> QED BY <2>3
<1> QED BY <1>1, <1>3 DEF L

(* Edges and index entries are as they were when the lists and tables are. *)
LEMMA EdgesKept ==
  ASSUME mem'.edges = mem.edges, db'.edges = db.edges
  PROVE  /\ \A from : EdgesOf(from)' = EdgesOf(from)
         /\ SameEdges => SameEdges'
<1>1. \A from : EdgesOf(from)' = EdgesOf(from)
  BY DEF EdgesOf, DbGenEdges, RowId
<1> QED BY <1>1 DEF SameEdges

(* The same of index entries.                                              *)
LEMMA EntriesKept ==
  ASSUME mem'.index = mem.index, db'.index = db.index
  PROVE  SameEntries => SameEntries'
<1>1. \A value : MemGenIndexEntries(value)' = MemGenIndexEntries(value) /\ Targets(value)' = Targets(value)
  BY DEF MemGenIndexEntries, Targets
<1> QED BY <1>1 DEF SameEntries

(* Paging goes on as before when what is paged through is as it was.       *)
LEMMA PagingKept ==
  ASSUME Paged, pager' = pager, mem'.edges = mem.edges, db'.edges = db.edges,
         \A id \in pager.throughout :
           id \in DOMAIN db.objects =>
             id \in DOMAIN db'.objects /\ db'.objects[id].type = db.objects[id].type
  PROVE  Paged'
<1>1. PagedObjects'
  BY DEF Paged, PagedObjects, LastSeen
<1>2. \A from : EdgesOf(from)' = EdgesOf(from)
  BY EdgesKept
<1>3. PagedEdges'
  BY <1>2 DEF Paged, PagedEdges, LastSeen
<1> QED BY <1>1, <1>3 DEF Paged, NoPager

-----------------------------------------------------------------------------
(* Calls about objects.                                                    *)

(* The types that only the edges, the index and the pager have a say in.   *)
LEMMA OthersTyped ==
  ASSUME ShardsTypeOK, mem'.edges = mem.edges, mem'.index = mem.index,
         db'.edges = db.edges, db'.index = db.index
  PROVE  /\ DOMAIN mem'.edges \subseteq Ids /\ \A from \in DOMAIN mem'.edges : mem'.edges[from] \in Seq(Ids)
         /\ db'.edges \in Seq(Ids \X Ids) /\ db'.index \subseteq Values \X Ids
         /\ DOMAIN mem'.index \subseteq Values
BY DEF ShardsTypeOK

(* Same but for `updated` when overwritten with the same, stamped or not.  *)
LEMMA SameMerged ==
  ASSUME NEW stored, NEW row, NEW patch, Untimed(stored) = Untimed(row)
  PROVE  /\ Untimed(Merge(Merge(stored, patch), Stamp)) = Untimed(Merge(row, patch))
         /\ "updated" \in DOMAIN Merge(Merge(stored, patch), Stamp)
<1> DEFINE D == DOMAIN stored \cup DOMAIN patch
           merged == Merge(stored, patch)
           stamped == Merge(merged, Stamp)
           written == Merge(row, patch)
<1>1. /\ DOMAIN stored \ {"updated"} = DOMAIN row \ {"updated"}
      /\ \A k \in DOMAIN stored \ {"updated"} : stored[k] = row[k]
  <2>1. /\ DOMAIN Untimed(stored) = DOMAIN stored \ {"updated"}
        /\ DOMAIN Untimed(row) = DOMAIN row \ {"updated"}
        /\ \A k \in DOMAIN stored \ {"updated"} : Untimed(stored)[k] = stored[k]
        /\ \A k \in DOMAIN row \ {"updated"} : Untimed(row)[k] = row[k]
    BY DEF Untimed, Without
  <2> QED BY <2>1
<1>2. /\ DOMAIN merged = D
      /\ \A k \in D : merged[k] = IF k \in DOMAIN patch THEN patch[k] ELSE stored[k]
  BY DEF Merge
<1>3. /\ DOMAIN written = DOMAIN row \cup DOMAIN patch
      /\ \A k \in DOMAIN written : written[k] = IF k \in DOMAIN patch THEN patch[k] ELSE row[k]
  BY DEF Merge
<1> HIDE DEF merged, written
<1>4. /\ DOMAIN stamped = DOMAIN merged \cup {"updated"}
      /\ \A k \in DOMAIN merged \ {"updated"} : stamped[k] = merged[k]
  BY DEF Merge, Stamp
<1> HIDE DEF stamped
<1>5. DOMAIN stamped \ {"updated"} = DOMAIN written \ {"updated"}
  BY <1>1, <1>2, <1>3, <1>4
<1>6. \A k \in DOMAIN stamped \ {"updated"} : stamped[k] = written[k]
  BY <1>1, <1>2, <1>3, <1>4
<1>7. Untimed(stamped) = Untimed(written)
  BY <1>5, <1>6 DEF Untimed, Without
<1> QED BY <1>4, <1>7 DEF stamped, merged, written

(* A new object is its row, stamped.                                       *)
LEMMA SameNew ==
  ASSUME NEW type, NEW data
  PROVE  SameObject([type |-> type, data |-> Stamped(data)], [type |-> type, data |-> data])
<1> DEFINE stamped == Stamped(data)
<1>1. /\ DOMAIN stamped = DOMAIN data \cup {"updated"}
      /\ \A k \in DOMAIN data : stamped[k] = data[k]
  BY DEF Stamped, Merge, Stamp
<1> HIDE DEF stamped
<1>2. Untimed(stamped) = Untimed(data) /\ "updated" \in DOMAIN stamped
  BY <1>1 DEF Untimed, Without
<1>3. /\ [type |-> type, data |-> stamped].type = type
      /\ [type |-> type, data |-> stamped].data = stamped
      /\ [type |-> type, data |-> data].type = type
      /\ [type |-> type, data |-> data].data = data
  OBVIOUS
<1> QED BY <1>2, <1>3 DEF SameObject, stamped

(* What has its type and data and nothing else.                            *)
IsObject(obj) == obj = [type |-> obj.type, data |-> obj.data] /\ obj.type \in Types

(* Objects stored in the shards, in place of those before, with the types  *)
(* that a pager relies on.                                                 *)
LEMMA ObjectsStored ==
  ASSUME ShardsTypeOK, ShardsInv, NEW objects, NEW rows,
         mem' = [mem EXCEPT !.objects = objects], db' = [db EXCEPT !.objects = rows],
         pager' = pager, used \subseteq used', used' \subseteq Ids,
         DOMAIN objects = DOMAIN rows, DOMAIN rows \subseteq used',
         \A id \in DOMAIN rows : /\ IsObject(objects[id]) /\ IsObject(rows[id])
                                 /\ SameObject(objects[id], rows[id]),
         \A id \in DOMAIN db.objects : id \in DOMAIN rows /\ rows[id].type = db.objects[id].type
  PROVE  ShardsTypeOK' /\ ShardsInv'
<1>1. Shapes /\ SameObjects /\ SameEdges /\ SameEntries /\ Paged
  BY DEF ShardsInv
<1>2. /\ mem' = [objects |-> objects, edges |-> mem.edges, index |-> mem.index]
      /\ db' = [objects |-> rows, edges |-> db.edges, index |-> db.index]
  BY <1>1 DEF Shapes
<1>3. /\ mem'.objects = objects /\ db'.objects = rows
      /\ mem'.edges = mem.edges /\ mem'.index = mem.index
      /\ db'.edges = db.edges /\ db'.index = db.index
  BY <1>2
<1>4. ShardsTypeOK'
  <2>1. IsObjects(mem.objects)' /\ IsObjects(db.objects)'
    BY <1>3 DEF IsObjects, IsObject
  <2>2. pager'.seen \in Seq(Ids) /\ pager'.after \in Afters /\ pager'.throughout \subseteq Ids
    BY DEF ShardsTypeOK
  <2> QED BY <1>3, <2>1, <2>2, OthersTyped DEF ShardsTypeOK, Afters
<1>5. Shapes'
  BY <1>1, <1>2 DEF Shapes, IsObject
<1>6. SameObjects'
  BY <1>3 DEF SameObjects, SameObject, Untimed, Without
<1>7. SameEdges' /\ SameEntries'
  BY <1>1, <1>3, EdgesKept, EntriesKept
<1>8. Paged'
  BY <1>1, <1>3, PagingKept
<1> QED BY <1>4, <1>5, <1>6, <1>7, <1>8 DEF ShardsInv

(* What the shards store now.                                              *)
LEMMA StoredNow ==
  ASSUME ShardsTypeOK, ShardsInv
  PROVE  /\ used \subseteq Ids /\ DOMAIN mem.objects = DOMAIN db.objects
         /\ DOMAIN db.objects \subseteq used
         /\ \A id \in DOMAIN db.objects : /\ IsObject(mem.objects[id]) /\ IsObject(db.objects[id])
                                          /\ SameObject(mem.objects[id], db.objects[id])
BY DEF ShardsTypeOK, ShardsInv, Shapes, SameObjects, IsObjects, IsObject

(* New objects have new ids, and come into both shards.                    *)
LEMMA InsertObjectsKeeps ==
  ASSUME ShardsTypeOK, ShardsInv, NEW ids \in SUBSET Ids, NEW type \in Types, NEW data,
         InsertObjects(ids, type, data)
  PROVE  ShardsTypeOK' /\ ShardsInv'
<1> DEFINE stored == [type |-> type, data |-> Stamped(data)]
           row == [type |-> type, data |-> data]
           objects == [id \in DOMAIN mem.objects \cup ids |->
                         IF id \in ids THEN stored ELSE mem.objects[id]]
           rows == [id \in DOMAIN db.objects \cup ids |->
                      IF id \in ids THEN row ELSE db.objects[id]]
<1>1. /\ ids \cap used = {} /\ used' = used \cup ids
      /\ mem' = [mem EXCEPT !.objects = objects] /\ db' = [db EXCEPT !.objects = rows]
      /\ pager' = pager
  BY DEF InsertObjects
<1>2. IsObject(stored) /\ IsObject(row) /\ SameObject(stored, row)
  BY SameNew DEF IsObject
<1> HIDE DEF stored, row
<1>3. /\ DOMAIN objects = DOMAIN mem.objects \cup ids
      /\ DOMAIN rows = DOMAIN db.objects \cup ids
      /\ \A id \in DOMAIN rows : rows[id] = IF id \in ids THEN row ELSE db.objects[id]
      /\ \A id \in DOMAIN objects : objects[id] = IF id \in ids THEN stored ELSE mem.objects[id]
  OBVIOUS
<1> HIDE DEF objects, rows
<1>4. \A id \in DOMAIN db.objects : id \notin ids /\ id \in DOMAIN rows /\ rows[id] = db.objects[id]
  BY <1>1, <1>3, StoredNow
<1>5. DOMAIN objects = DOMAIN rows /\ DOMAIN rows \subseteq used' /\ used' \subseteq Ids
  BY <1>1, <1>3, StoredNow
<1>6. \A id \in DOMAIN rows : /\ IsObject(objects[id]) /\ IsObject(rows[id])
                              /\ SameObject(objects[id], rows[id])
  BY <1>2, <1>3, <1>5, StoredNow
<1> QED BY <1>1, <1>4, <1>5, <1>6, ObjectsStored

(* An update overwrites the same data in both shards, and stamps the dict  *)
(* in memory.                                                              *)
LEMMA UpdateObjectKeeps ==
  ASSUME ShardsTypeOK, ShardsInv, NEW id \in Ids, NEW patch, UpdateObject(id, patch)
  PROVE  ShardsTypeOK' /\ ShardsInv'
<1>1. Shapes /\ SameObjects /\ SameEdges /\ SameEntries /\ Paged
  BY DEF ShardsInv
<1>2. pager' = pager /\ used' = used
  BY DEF UpdateObject
<1>3. CASE id \notin DOMAIN db.objects
  <2>1. mem' = mem /\ db' = db
    BY <1>3, StoredNow DEF UpdateObject
  <2>2. ShardsTypeOK'
    BY <1>2, <2>1 DEF ShardsTypeOK, IsObjects, Afters
  <2>3. Shapes' /\ SameObjects'
    BY <1>1, <1>2, <2>1 DEF Shapes, SameObjects
  <2>4. SameEdges' /\ SameEntries' /\ Paged'
    BY <1>1, <1>2, <2>1, EdgesKept, EntriesKept, PagingKept
  <2> QED BY <2>2, <2>3, <2>4 DEF ShardsInv
<1>4. CASE id \in DOMAIN db.objects
  <2> DEFINE data == Merge(Merge(mem.objects[id].data, patch), Stamp)
             body == Merge(db.objects[id].data, patch)
             stored == [type |-> mem.objects[id].type, data |-> data]
             row == [type |-> db.objects[id].type, data |-> body]
             objects == [mem.objects EXCEPT ![id] = stored]
             rows == [db.objects EXCEPT ![id] = row]
  <2>1. mem' = [mem EXCEPT !.objects[id].data = data] /\ db' = [db EXCEPT !.objects[id].data = body]
    BY <1>4, StoredNow DEF UpdateObject
  <2>2. /\ mem.objects[id] = [type |-> mem.objects[id].type, data |-> mem.objects[id].data]
        /\ db.objects[id] = [type |-> db.objects[id].type, data |-> db.objects[id].data]
        /\ mem.objects[id].type = db.objects[id].type /\ db.objects[id].type \in Types
        /\ Untimed(mem.objects[id].data) = Untimed(db.objects[id].data)
    BY <1>4, StoredNow DEF IsObject, SameObject
  <2>3. Untimed(data) = Untimed(body) /\ "updated" \in DOMAIN data
    BY <2>2, SameMerged
  <2> HIDE DEF data, body
  <2>4. mem' = [mem EXCEPT !.objects = objects] /\ db' = [db EXCEPT !.objects = rows]
    <3>1. [mem.objects EXCEPT ![id].data = data] = objects
      BY <2>2
    <3>2. [db.objects EXCEPT ![id].data = body] = rows
      BY <2>2
    <3> QED BY <2>1, <3>1, <3>2
  <2>5. /\ stored.type = mem.objects[id].type /\ stored.data = data
        /\ row.type = db.objects[id].type /\ row.data = body
    OBVIOUS
  <2>6. IsObject(stored) /\ IsObject(row) /\ SameObject(stored, row)
    BY <2>2, <2>3, <2>5 DEF IsObject, SameObject
  <2> HIDE DEF stored, row
  <2>7. /\ DOMAIN objects = DOMAIN mem.objects /\ DOMAIN rows = DOMAIN db.objects
        /\ \A x \in DOMAIN mem.objects : objects[x] = IF x = id THEN stored ELSE mem.objects[x]
        /\ \A x \in DOMAIN db.objects : rows[x] = IF x = id THEN row ELSE db.objects[x]
    BY StoredNow DEF SameObjects
  <2> HIDE DEF objects, rows
  <2>8. \A x \in DOMAIN rows : /\ IsObject(objects[x]) /\ IsObject(rows[x])
                               /\ SameObject(objects[x], rows[x])
    BY <2>6, <2>7, StoredNow
  <2>9. \A x \in DOMAIN db.objects : x \in DOMAIN rows /\ rows[x].type = db.objects[x].type
    BY <2>5, <2>7
  <2>10. /\ DOMAIN objects = DOMAIN rows /\ DOMAIN rows \subseteq used'
         /\ used \subseteq used' /\ used' \subseteq Ids
    BY <1>2, <2>7, StoredNow
  <2> QED BY <1>2, <2>4, <2>8, <2>9, <2>10, ObjectsStored
<1> QED BY <1>3, <1>4

(* A delete takes the object out of both shards, and out of what a client  *)
(* that pages through objects was promised.                                *)
LEMMA DeleteObjectKeeps ==
  ASSUME ShardsTypeOK, ShardsInv, NEW id \in Ids, DeleteObject(id)
  PROVE  ShardsTypeOK' /\ ShardsInv'
<1> DEFINE left == Without(mem.objects, id)
           rows == Without(db.objects, id)
<1>1. Shapes /\ SameObjects /\ SameEdges /\ SameEntries /\ Paged
  BY DEF ShardsInv
<1>2. /\ mem' = [mem EXCEPT !.objects = left] /\ db' = [db EXCEPT !.objects = rows]
      /\ pager' = IF pager.what = "objects"
                  THEN [pager EXCEPT !.throughout = pager.throughout \ {id}] ELSE pager
      /\ used' = used
  BY DEF DeleteObject
<1>3. /\ DOMAIN left = DOMAIN mem.objects \ {id}
      /\ \A x \in DOMAIN mem.objects \ {id} : left[x] = mem.objects[x]
      /\ DOMAIN rows = DOMAIN db.objects \ {id}
      /\ \A x \in DOMAIN db.objects \ {id} : rows[x] = db.objects[x]
  BY DEF Without
<1> HIDE DEF left, rows
<1>4. /\ mem' = [objects |-> left, edges |-> mem.edges, index |-> mem.index]
      /\ db' = [objects |-> rows, edges |-> db.edges, index |-> db.index]
  BY <1>1, <1>2 DEF Shapes
<1>5. /\ mem'.objects = left /\ db'.objects = rows
      /\ mem'.edges = mem.edges /\ mem'.index = mem.index
      /\ db'.edges = db.edges /\ db'.index = db.index
  BY <1>4
<1>6. /\ pager' = [what |-> pager'.what, shard |-> pager'.shard, of |-> pager'.of,
                   first |-> pager'.first, after |-> pager'.after, seen |-> pager'.seen,
                   throughout |-> pager'.throughout, done |-> pager'.done]
      /\ pager'.what = pager.what /\ pager'.shard = pager.shard /\ pager'.of = pager.of
      /\ pager'.first = pager.first /\ pager'.after = pager.after /\ pager'.seen = pager.seen
      /\ pager'.done = pager.done
      /\ pager'.what = "objects" => pager'.throughout = pager.throughout \ {id}
      /\ pager'.what # "objects" => pager' = pager
  BY <1>1, <1>2 DEF Shapes
<1>7. ShardsTypeOK'
  <2>1. IsObjects(mem.objects)' /\ IsObjects(db.objects)'
    BY <1>2, <1>3, <1>5 DEF ShardsTypeOK, IsObjects
  <2>2. used' \subseteq Ids
    BY <1>2 DEF ShardsTypeOK
  <2>3. pager'.seen \in Seq(Ids) /\ pager'.after \in Afters /\ pager'.throughout \subseteq Ids
    BY <1>6 DEF ShardsTypeOK
  <2> QED BY <1>5, <2>1, <2>2, <2>3, OthersTyped DEF ShardsTypeOK, Afters
<1>8. Shapes'
  BY <1>1, <1>2, <1>3, <1>4, <1>6 DEF Shapes
<1>9. SameObjects'
  <2>1. DOMAIN left = DOMAIN rows /\ \A x \in DOMAIN rows : SameObject(left[x], rows[x])
    BY <1>3, StoredNow
  <2> QED BY <1>5, <2>1 DEF SameObjects, SameObject, Untimed, Without
<1>10. SameEdges' /\ SameEntries' /\ \A from : EdgesOf(from)' = EdgesOf(from)
  BY <1>1, <1>5, EdgesKept, EntriesKept
<1>11. Paged'
  <2>1. PagedObjects'
    BY <1>1, <1>3, <1>5, <1>6 DEF Paged, PagedObjects, LastSeen
  <2>2. PagedEdges'
    BY <1>1, <1>5, <1>6, <1>10 DEF Paged, PagedEdges, LastSeen
  <2> QED BY <1>1, <1>6, <2>1, <2>2 DEF Paged, NoPager
<1> QED BY <1>7, <1>8, <1>9, <1>10, <1>11 DEF ShardsInv

-----------------------------------------------------------------------------
(* Calls about edges.                                                      *)

(* The list of a source in a table of edges.                               *)
TosIn(table) == [row \in DOMAIN table |-> table[row][2]]
RowsIn(table, from) == {row \in DOMAIN table : table[row][1] = from}
ListIn(table, from) == AtPositions(TosIn(table), RowsIn(table, from))

(* EdgesOf is that of the table there is, before and after a step.         *)
LEMMA ListOf ==
  \A from : /\ EdgesOf(from) = ListIn(db.edges, from)
            /\ EdgesOf(from)' = ListIn(db'.edges, from)
<1> DEFINE R(from) == {row \in DOMAIN db.edges : /\ db.edges[row][1] = from
                                                 /\ NoId # NoId => \E last \in RowId(from, NoId) : row > last}
<1>1. \A from : R(from) = RowsIn(db.edges, from)
  BY DEF RowsIn
<1>2. \A from : R(from)' = RowsIn(db'.edges, from)
  BY DEF RowsIn
<1>3. \A from : EdgesOf(from) = AtPositions(TosIn(db.edges), R(from))
  BY DEF EdgesOf, DbGenEdges, UpTo, TosIn
<1>4. \A from : EdgesOf(from)' = AtPositions(TosIn(db'.edges), R(from)')
  BY DEF EdgesOf, DbGenEdges, UpTo, TosIn
<1> HIDE DEF R
<1> QED BY <1>1, <1>2, <1>3, <1>4 DEF ListIn

(* A number above all others comes last.                                   *)
LEMMA AscendingLast ==
  ASSUME NEW S \in SUBSET Nat, IsFiniteSet(S), NEW last \in Nat, \A x \in S : x < last
  PROVE  LET m == Len(Ascending(S))
         IN  /\ m \in Nat /\ Len(Ascending(S \cup {last})) = m + 1
             /\ \A i \in 1 .. m : Ascending(S \cup {last})[i] = Ascending(S)[i]
             /\ Ascending(S \cup {last})[m + 1] = last
<1> DEFINE seq == Ascending(S)
           m == Len(seq)
           T == S \cup {last}
           all == [i \in 1 .. m + 1 |-> IF i = m + 1 THEN last ELSE seq[i]]
<1>1. /\ m \in Nat /\ \A i \in 1 .. m : seq[i] \in S
      /\ \A i, j \in 1 .. m : i < j => seq[i] < seq[j]
      /\ \A x \in S : \E i \in 1 .. m : seq[i] = x
  BY AscendingIs
<1> HIDE DEF seq, m
<1>2. \A i \in 1 .. m + 1 : i \in 1 .. m \/ i = m + 1
  BY <1>1
<1>3. \A i \in 1 .. m : i \in 1 .. m + 1 /\ i # m + 1 /\ i < m + 1
  BY <1>1
<1>4. m + 1 \in 1 .. m + 1 /\ m + 1 \in Nat
  BY <1>1
<1>5. /\ \A i \in 1 .. m : all[i] = seq[i]
      /\ all[m + 1] = last
  BY <1>3, <1>4
<1>6. all \in [1 .. m + 1 -> T]
  BY <1>1, <1>2, <1>5
<1> HIDE DEF all
<1>7. \A i, j \in 1 .. m + 1 : i < j => all[i] < all[j]
  <2>1. TAKE i, j \in 1 .. m + 1
  <2>2. HAVE i < j
  <2>3. i \in 1 .. m
    BY <1>1, <2>2
  <2>4. CASE j \in 1 .. m
    BY <1>1, <1>5, <2>2, <2>3, <2>4
  <2>5. CASE j = m + 1
    BY <1>1, <1>5, <2>3, <2>5
  <2> QED BY <1>2, <2>4, <2>5
<1>8. \A x \in T : \E i \in 1 .. m + 1 : all[i] = x
  BY <1>1, <1>3, <1>4, <1>5
<1>9. T \in SUBSET Nat
  OBVIOUS
<1> HIDE DEF T
<1>10. Ascending(T) = all
  BY <1>4, <1>6, <1>7, <1>8, <1>9, AscendingOf
<1>11. Len(all) = m + 1
  BY <1>4, <1>6, FunctionIsSequence
<1> QED BY <1>1, <1>5, <1>10, <1>11 DEF T, m, seq

(* A new row is the last of its source, and nothing to the others.         *)
LEMMA ListAppended ==
  ASSUME NEW table \in Seq(Ids \X Ids), NEW from \in Ids, NEW to \in Ids, NEW other
  PROVE  ListIn(Append(table, <<from, to>>), other) =
           IF other = from THEN Append(ListIn(table, from), to) ELSE ListIn(table, other)
<1> DEFINE n == Len(table)
           longer == Append(table, <<from, to>>)
           R == RowsIn(table, other)
           L == ListIn(table, other)
           m == Len(Ascending(R))
<1>1. /\ n \in Nat /\ DOMAIN table = 1 .. n
      /\ DOMAIN longer = 1 .. n + 1 /\ longer[n + 1] = <<from, to>>
      /\ \A i \in 1 .. n : longer[i] = table[i]
      /\ \A i \in 1 .. n : table[i][2] \in Ids
  <2>1. \A i \in 1 .. n : table[i] \in Ids \X Ids
    OBVIOUS
  <2>2. \A i \in 1 .. n : table[i][2] \in Ids
    BY <2>1
  <2> QED BY <2>2
<1> HIDE DEF n, longer
<1>2. /\ TosIn(longer) \in [1 .. n + 1 -> Ids]
      /\ TosIn(table) \in [1 .. n -> Ids]
      /\ \A i \in 1 .. n : TosIn(longer)[i] = TosIn(table)[i]
      /\ TosIn(longer)[n + 1] = to
  <2>1. \A i \in 1 .. n + 1 : i \in 1 .. n \/ i = n + 1
    BY <1>1
  <2>2. \A i \in 1 .. n : i \in 1 .. n + 1
    BY <1>1
  <2>3. n + 1 \in 1 .. n + 1
    BY <1>1
  <2>4. TosIn(table) = [i \in 1 .. n |-> table[i][2]]
    BY <1>1 DEF TosIn
  <2>5. TosIn(longer) = [i \in 1 .. n + 1 |-> longer[i][2]]
    BY <1>1 DEF TosIn
  <2>6. \A i \in 1 .. n : longer[i][2] = table[i][2]
    BY <1>1
  <2>7. longer[n + 1][2] = to
    BY <1>1
  <2>8. \A i \in 1 .. n + 1 : longer[i][2] \in Ids
    BY <1>1, <2>1, <2>6, <2>7
  <2> QED BY <1>1, <2>2, <2>3, <2>4, <2>5, <2>6, <2>7, <2>8
<1>3. TosIn(longer) \in Seq(Ids) /\ TosIn(table) \in Seq(Ids)
      /\ DOMAIN TosIn(longer) = 1 .. n + 1 /\ DOMAIN TosIn(table) = 1 .. n
  <2>1. n + 1 \in Nat /\ n \in Nat
    BY <1>1
  <2> QED BY <1>2, <2>1, FunctionIsSequence
<1>4. R \in SUBSET (1 .. n)
  BY <1>1 DEF RowsIn
<1>5. /\ R \in SUBSET Nat /\ IsFiniteSet(R) /\ m \in Nat
      /\ L \in Seq(Ids) /\ Len(L) = m /\ DOMAIN L = 1 .. m
      /\ DOMAIN Ascending(R) = 1 .. m
      /\ \A i \in 1 .. m : Ascending(R)[i] \in R /\ L[i] = TosIn(table)[Ascending(R)[i]]
  <2>1. R \in SUBSET DOMAIN TosIn(table)
    BY <1>3, <1>4
  <2>2. L = AtPositions(TosIn(table), R)
    BY DEF ListIn
  <2> HIDE DEF R, L
  <2>3. TosIn(table) \in Seq(Ids)
    BY <1>3
  <2> QED BY <2>1, <2>2, <2>3, AtPositionsIs
<1>6. CASE other # from
  <2>1. RowsIn(longer, other) = R
    BY <1>1, <1>6 DEF RowsIn
  <2>2. AtPositions(TosIn(longer), R) = [i \in 1 .. m |-> TosIn(longer)[Ascending(R)[i]]]
    BY <1>5 DEF AtPositions
  <2>3. L = [i \in 1 .. m |-> TosIn(table)[Ascending(R)[i]]]
    BY <1>5 DEF ListIn, AtPositions
  <2> HIDE DEF R, L, m
  <2>4. \A i \in 1 .. m : TosIn(longer)[Ascending(R)[i]] = TosIn(table)[Ascending(R)[i]]
    BY <1>2, <1>4, <1>5
  <2>5. AtPositions(TosIn(longer), R) = L
    BY <2>2, <2>3, <2>4, Zenon
  <2> QED BY <1>6, <2>1, <2>5 DEF ListIn, longer, L, R
<1>7. CASE other = from
  <2> DEFINE T == R \cup {n + 1}
  <2>1. RowsIn(longer, other) = T
    <3>1. \A i \in 1 .. n + 1 : i \in 1 .. n \/ i = n + 1
      BY <1>1
    <3>2. \A i \in 1 .. n : i \in 1 .. n + 1
      BY <1>1
    <3>3. n + 1 \in 1 .. n + 1 /\ longer[n + 1][1] = other
      BY <1>1, <1>7
    <3> QED BY <1>1, <3>1, <3>2, <3>3 DEF RowsIn
  <2> HIDE DEF R, L
  <2>2. n + 1 \in Nat /\ \A x \in R : x < n + 1
    BY <1>1, <1>4
  <2>3. /\ Len(Ascending(T)) = m + 1
        /\ \A i \in 1 .. m : Ascending(T)[i] = Ascending(R)[i]
        /\ Ascending(T)[m + 1] = n + 1
    BY <1>5, <2>2, AscendingLast
  <2>4. T \in SUBSET Nat /\ IsFiniteSet(T)
    BY <1>5, <2>2, FS_AddElement
  <2>5. DOMAIN Ascending(T) = 1 .. m + 1
    BY <2>3, <2>4, AscendingIs
  <2> HIDE DEF T, m
  <2>6. AtPositions(TosIn(longer), T) = [i \in 1 .. m + 1 |-> TosIn(longer)[Ascending(T)[i]]]
    BY <2>5 DEF AtPositions
  <2>7. /\ Append(L, to) \in [1 .. m + 1 -> Ids] /\ Append(L, to)[m + 1] = to
        /\ \A i \in 1 .. m : Append(L, to)[i] = L[i]
    <3>1. L \in Seq(Ids) /\ Len(L) = m /\ m \in Nat
      BY <1>5
    <3>2. /\ Append(L, to) \in Seq(Ids) /\ Len(Append(L, to)) = m + 1
          /\ \A i \in 1 .. m : Append(L, to)[i] = L[i]
          /\ Append(L, to)[m + 1] = to
      BY <3>1, AppendProperties
    <3> DEFINE app == Append(L, to)
    <3>3. app \in Seq(Ids) /\ Len(app) = m + 1
      BY <3>2
    <3> HIDE DEF app, Ids, NoId
    <3>4. app \in [1 .. Len(app) -> Ids]
      BY <3>3
    <3> QED BY <3>2, <3>3, <3>4 DEF app
  <2>8. Append(L, to) = [i \in 1 .. m + 1 |-> Append(L, to)[i]]
    BY <2>7
  <2>9. \A i \in 1 .. m + 1 : TosIn(longer)[Ascending(T)[i]] = Append(L, to)[i]
    <3>1. \A i \in 1 .. m + 1 : i \in 1 .. m \/ i = m + 1
      BY <1>5
    <3>2. ASSUME NEW i \in 1 .. m
          PROVE  TosIn(longer)[Ascending(T)[i]] = Append(L, to)[i]
      <4>1. Ascending(T)[i] = Ascending(R)[i] /\ Append(L, to)[i] = L[i]
        BY <2>3, <2>7
      <4>2. Ascending(R)[i] \in 1 .. n /\ L[i] = TosIn(table)[Ascending(R)[i]]
        BY <1>4, <1>5
      <4> QED BY <1>2, <4>1, <4>2
    <3>3. TosIn(longer)[Ascending(T)[m + 1]] = Append(L, to)[m + 1]
      BY <1>2, <2>3, <2>7
    <3> QED BY <3>1, <3>2, <3>3
  <2>10. AtPositions(TosIn(longer), T) = Append(L, to)
    BY <2>6, <2>8, <2>9, Zenon
  <2> QED BY <1>7, <2>1, <2>10 DEF ListIn, longer, L
<1> QED BY <1>6, <1>7

(* An edge comes at the end of the list of its source, and of the table.   *)
LEMMA InsertEdgeKeeps ==
  ASSUME ShardsTypeOK, ShardsInv, NEW from \in Ids, NEW to \in Ids, InsertEdge(from, to)
  PROVE  ShardsTypeOK' /\ ShardsInv'
<1> DEFINE old == IF from \in DOMAIN mem.edges THEN mem.edges[from] ELSE <<>>
           edges == Put(mem.edges, from, Append(old, to))
           table == Append(db.edges, <<from, to>>)
<1>1. Shapes /\ SameObjects /\ SameEdges /\ SameEntries /\ Paged
  BY DEF ShardsInv
<1>2. /\ mem' = [mem EXCEPT !.edges = edges] /\ db' = [db EXCEPT !.edges = table]
       /\ pager' = pager /\ used' = used
      /\ \A row \in Range(db.edges) : row[2] # to
  BY DEF InsertEdge
<1>3. DOMAIN edges = DOMAIN mem.edges \cup {from}
      /\ \A x \in DOMAIN edges : edges[x] = IF x = from THEN Append(old, to) ELSE mem.edges[x]
  BY DEF Put
<1> HIDE DEF edges, table
<1>4. /\ mem' = [objects |-> mem.objects, edges |-> edges, index |-> mem.index]
      /\ db' = [objects |-> db.objects, edges |-> table, index |-> db.index]
  BY <1>1, <1>2 DEF Shapes
<1>5. /\ mem'.edges = edges /\ db'.edges = table
      /\ mem'.objects = mem.objects /\ mem'.index = mem.index
      /\ db'.objects = db.objects /\ db'.index = db.index
  BY <1>4
<1>6. /\ \A other : EdgesOf(other) = ListIn(db.edges, other)
      /\ \A other : EdgesOf(other)' = ListIn(table, other)
  BY <1>5, ListOf
<1>7. \A other : EdgesOf(other)' = IF other = from THEN Append(EdgesOf(from), to) ELSE EdgesOf(other)
  <2>1. \A other : ListIn(table, other) =
          IF other = from THEN Append(ListIn(db.edges, from), to) ELSE ListIn(db.edges, other)
    <3>1. db.edges \in Seq(Ids \X Ids)
      BY RowsAre
    <3>2. \A other : ListIn(Append(db.edges, <<from, to>>), other) =
            IF other = from THEN Append(ListIn(db.edges, from), to) ELSE ListIn(db.edges, other)
      BY <3>1, ListAppended, Zenon
    <3> QED BY <3>2 DEF table
  <2> QED BY <1>6, <2>1
<1>8. old = EdgesOf(from) /\ EdgesOf(from) \in Seq(Ids) /\ \A other : EdgesOf(other) \in Seq(Ids)
  <2>1. \A other : EdgesOf(other) \in Seq(Ids)
    BY EdgesOfIs
  <2>2. CASE from \in DOMAIN mem.edges
    BY <1>1, <2>1, <2>2 DEF SameEdges
  <2>3. CASE from \notin DOMAIN mem.edges
    <3>1. RowsOf(from) = {}
      BY <1>1, <2>3 DEF RowsOf, SameEdges
    <3>2. EdgesOf(from) = <<>>
      BY <3>1, EdgesOfIs, NothingAt, RowsAre
    <3> QED BY <2>1, <2>3, <3>2
  <2> QED BY <2>2, <2>3
<1> HIDE DEF old
<1>9. /\ Append(old, to) \in Seq(Ids) /\ Len(old) \in Nat
      /\ Len(Append(old, to)) = Len(old) + 1
      /\ \A i \in 1 .. Len(old) : Append(old, to)[i] = old[i]
  BY <1>8, AppendProperties
<1>10. /\ table \in Seq(Ids \X Ids) /\ Len(table) = Len(db.edges) + 1 /\ Len(db.edges) \in Nat
       /\ \A row \in 1 .. Len(db.edges) : table[row] = db.edges[row]
       /\ table[Len(db.edges) + 1] = <<from, to>>
       /\ DOMAIN table = 1 .. Len(db.edges) + 1 /\ DOMAIN db.edges = 1 .. Len(db.edges)
  <2>1. db.edges \in Seq(Ids \X Ids) /\ <<from, to>> \in Ids \X Ids
    BY DEF ShardsTypeOK
  <2>2. /\ table \in Seq(Ids \X Ids) /\ Len(table) = Len(db.edges) + 1 /\ Len(db.edges) \in Nat
        /\ \A row \in 1 .. Len(db.edges) : table[row] = db.edges[row]
        /\ table[Len(db.edges) + 1] = <<from, to>>
    BY <2>1, AppendProperties DEF table
  <2>3. DOMAIN table = 1 .. Len(table) /\ DOMAIN db.edges = 1 .. Len(db.edges)
    BY <2>1, <2>2
  <2> QED BY <2>2, <2>3
<1>11. ShardsTypeOK'
  <2>1. used' \subseteq Ids /\ IsObjects(mem.objects)' /\ IsObjects(db.objects)'
    BY <1>2, <1>5 DEF ShardsTypeOK, IsObjects
  <2>2. DOMAIN mem'.edges \subseteq Ids /\ \A x \in DOMAIN mem'.edges : mem'.edges[x] \in Seq(Ids)
    <3>1. DOMAIN mem'.edges \subseteq Ids
      BY <1>3, <1>5 DEF ShardsTypeOK
    <3>2. \A x \in DOMAIN mem.edges : mem.edges[x] \in Seq(Ids)
      BY DEF ShardsTypeOK
    <3> QED BY <1>3, <1>5, <1>9, <3>1, <3>2
  <2>3. db'.edges \in Seq(Ids \X Ids) /\ db'.index \subseteq Values \X Ids
        /\ DOMAIN mem'.index \subseteq Values
    BY <1>5, <1>10 DEF ShardsTypeOK
  <2>4. /\ pager'.seen \in Seq(Ids) /\ pager'.after \in Afters /\ pager'.throughout \subseteq Ids
    BY <1>2 DEF ShardsTypeOK
  <2> QED BY <2>1, <2>2, <2>3, <2>4 DEF ShardsTypeOK, Afters
<1>12. Shapes'
  BY <1>1, <1>2, <1>4 DEF Shapes
<1>13. SameObjects'
  BY <1>1, <1>5 DEF SameObjects
<1>14. SameEdges'
  <2>1. \A x \in DOMAIN mem'.edges : mem'.edges[x] = EdgesOf(x)'
    BY <1>1, <1>3, <1>5, <1>7, <1>8 DEF SameEdges
  <2> DEFINE n == Len(db.edges)
  <2>2. /\ n \in Nat /\ DOMAIN table = 1 .. n + 1 /\ DOMAIN db.edges = 1 .. n
        /\ \A row \in 1 .. n : table[row] = db.edges[row]
        /\ table[n + 1][1] = from /\ table[n + 1][2] = to
    BY <1>10
  <2>3. /\ \A row \in 1 .. n : db.edges[row][1] \in DOMAIN mem.edges
        /\ \A row, other \in 1 .. n : db.edges[row][2] = db.edges[other][2] => row = other
    BY <1>1, <2>2 DEF SameEdges
  <2>4. \A row \in 1 .. n : db.edges[row][2] # to
    <3>1. \A row \in 1 .. n : db.edges[row] \in Range(db.edges)
      BY <1>10 DEF Range
    <3> QED BY <1>2, <3>1
  <2> HIDE DEF n
  <2>5. \A row \in 1 .. n + 1 : row \in 1 .. n \/ row = n + 1
    BY <2>2
  <2>6. \A row \in 1 .. n + 1 : table[row][1] \in DOMAIN edges
    BY <1>3, <2>2, <2>3, <2>5
  <2>7. \A row, other \in 1 .. n + 1 : table[row][2] = table[other][2] => row = other
    <3>1. TAKE row, other \in 1 .. n + 1
    <3>2. CASE row \in 1 .. n /\ other \in 1 .. n
      BY <2>2, <2>3, <3>2
    <3>3. CASE row = n + 1 /\ other \in 1 .. n
      BY <2>2, <2>4, <3>3
    <3>4. CASE row \in 1 .. n /\ other = n + 1
      BY <2>2, <2>4, <3>4
    <3> QED BY <2>5, <3>2, <3>3, <3>4
  <2>8. /\ \A row \in DOMAIN db'.edges : db'.edges[row][1] \in DOMAIN mem'.edges
        /\ \A row, other \in DOMAIN db'.edges : db'.edges[row][2] = db'.edges[other][2] => row = other
    BY <1>5, <2>2, <2>6, <2>7
  <2>9. \A x \in DOMAIN mem'.edges : \E row \in DOMAIN db'.edges : db'.edges[row][1] = x
    <3>1. \A x \in DOMAIN mem.edges : \E row \in 1 .. n : db.edges[row][1] = x
      BY <1>1, <2>2 DEF SameEdges
    <3>2. 1 .. n \subseteq 1 .. n + 1 /\ n + 1 \in 1 .. n + 1
      BY <2>2
    <3> QED BY <1>3, <1>5, <2>2, <3>1, <3>2
  <2> QED BY <2>1, <2>8, <2>9 DEF SameEdges
<1>15. SameEntries'
  BY <1>1, <1>5, EntriesKept
<1>16. Paged'
  <2>1. PagedObjects'
    BY <1>1, <1>2, <1>5 DEF Paged, PagedObjects, LastSeen
  <2>2. \A x : /\ DOMAIN EdgesOf(x) \subseteq DOMAIN (EdgesOf(x)')
               /\ \A i \in DOMAIN EdgesOf(x) : EdgesOf(x)'[i] = EdgesOf(x)[i]
    <3>1. TAKE x
    <3>2. CASE x = from
      <4>1. /\ EdgesOf(x)' = Append(old, to) /\ EdgesOf(x) = old
        BY <1>7, <1>8, <3>2
      <4>2. DOMAIN old = 1 .. Len(old) /\ DOMAIN Append(old, to) = 1 .. Len(old) + 1
        BY <1>8, <1>9
      <4>3. \A i \in 1 .. Len(old) : i \in 1 .. Len(old) + 1
        BY <1>9
      <4> QED BY <1>9, <4>1, <4>2, <4>3
    <3>3. CASE x # from
      BY <1>7, <3>3
    <3> QED BY <3>2, <3>3
  <2>3. \A x : Range(EdgesOf(x)) \subseteq Range(EdgesOf(x)')
    BY <2>2 DEF Range
  <2>4. PagedEdges'
    <3> SUFFICES ASSUME pager'.what = "edges"
                 PROVE  /\ pager'.shard = "mem" => pager'.of \in DOMAIN mem'.edges
                        /\ pager'.after = LastSeen'
                        /\ DOMAIN pager'.seen \subseteq DOMAIN (EdgesOf(pager.of)')
                        /\ \A i \in DOMAIN pager'.seen : pager'.seen[i] = EdgesOf(pager.of)'[i]
                        /\ pager'.throughout \subseteq Range(EdgesOf(pager.of)')
                        /\ pager'.done => pager'.throughout \subseteq Range(pager'.seen)
      BY <1>2 DEF PagedEdges
    <3>2. PagedEdges /\ pager.what = "edges"
      BY <1>1, <1>2 DEF Paged
    <3>3. /\ pager'.shard = "mem" => pager'.of \in DOMAIN mem'.edges
          /\ pager'.after = LastSeen'
      BY <1>2, <1>3, <1>5, <3>2 DEF PagedEdges, LastSeen
    <3>4. /\ DOMAIN pager'.seen \subseteq DOMAIN (EdgesOf(pager.of)')
          /\ \A i \in DOMAIN pager'.seen : pager'.seen[i] = EdgesOf(pager.of)'[i]
      BY <1>2, <2>2, <3>2 DEF PagedEdges
    <3>5. /\ pager'.throughout \subseteq Range(EdgesOf(pager.of)')
          /\ pager'.done => pager'.throughout \subseteq Range(pager'.seen)
      BY <1>2, <2>3, <3>2 DEF PagedEdges
    <3> QED BY <3>3, <3>4, <3>5
  <2> QED BY <1>1, <1>2, <2>1, <2>4 DEF Paged, NoPager
<1> QED BY <1>11, <1>12, <1>13, <1>14, <1>15, <1>16 DEF ShardsInv

-----------------------------------------------------------------------------
(* Calls about index entries.                                              *)

(* One more at the end of a sequence that does not have it.                *)
LEMMA OneMore ==
  ASSUME NEW S, NEW seq \in Seq(S), IsInjective(seq), NEW x \in S, x \notin Range(seq)
  PROVE  /\ Append(seq, x) \in Seq(S) /\ IsInjective(Append(seq, x))
         /\ Range(Append(seq, x)) = Range(seq) \cup {x}
<1> DEFINE n == Len(seq)
           longer == Append(seq, x)
<1>1. /\ longer \in Seq(S) /\ Len(longer) = n + 1 /\ n \in Nat
      /\ \A i \in 1 .. n : longer[i] = seq[i]
      /\ longer[n + 1] = x
  BY AppendProperties
<1>2. DOMAIN longer = 1 .. n + 1 /\ DOMAIN seq = 1 .. n
  <2> HIDE DEF longer
  <2> QED BY <1>1
<1> HIDE DEF longer, n
<1>3. \A i \in 1 .. n + 1 : i \in 1 .. n \/ i = n + 1
  BY <1>1
<1>4. (\A i \in 1 .. n : i \in 1 .. n + 1) /\ n + 1 \in 1 .. n + 1
  BY <1>1
<1>5. \A i \in 1 .. n : seq[i] # x
  BY <1>2 DEF Range
<1>6. \A i, j \in 1 .. n : seq[i] = seq[j] => i = j
  BY <1>2 DEF IsInjective
<1>7. IsInjective(longer)
  <2>1. \A i, j \in 1 .. n + 1 : longer[i] = longer[j] => i = j
    BY <1>1, <1>3, <1>5, <1>6
  <2> QED BY <1>2, <2>1 DEF IsInjective
<1>8. ASSUME NEW y
      PROVE  y \in Range(longer) <=> y \in Range(seq) \cup {x}
  <2>1. y \in Range(longer) <=> \E i \in 1 .. n + 1 : longer[i] = y
    BY <1>2 DEF Range
  <2>2. y \in Range(seq) <=> \E i \in 1 .. n : seq[i] = y
    BY <1>2 DEF Range
  <2> QED BY <1>1, <1>3, <1>4, <2>1, <2>2
<1> QED BY <1>1, <1>7, <1>8 DEF longer

(* All of a sequence but one element.                                      *)
LEMMA AllOthers ==
  ASSUME NEW S, NEW seq \in Seq(S), IsInjective(seq), NEW x
  PROVE  /\ Others(seq, x) \in Seq(S) /\ IsInjective(Others(seq, x))
         /\ Range(Others(seq, x)) = Range(seq) \ {x}
<1> DEFINE P == {i \in DOMAIN seq : seq[i] # x}
           rest == Others(seq, x)
           at == Ascending(P)
           n == Len(at)
<1>1. /\ P \in SUBSET Nat /\ IsFiniteSet(P)
      /\ rest \in Seq(S) /\ DOMAIN rest = 1 .. n
      /\ \A i \in 1 .. n : at[i] \in P /\ rest[i] = seq[at[i]]
  <2>1. P \in SUBSET DOMAIN seq /\ rest = AtPositions(seq, P)
    BY DEF Others
  <2> HIDE DEF P, rest
  <2> QED BY <2>1, AtPositionsIs
<1>2. /\ \A p \in P : \E i \in 1 .. n : at[i] = p
      /\ \A i, j \in 1 .. n : at[i] = at[j] => i = j
  <2> HIDE DEF P
  <2>1. /\ at \in Seq(P) /\ IsInjective(at) /\ \A p \in P : \E i \in 1 .. n : at[i] = p
    BY <1>1, AscendingIs
  <2>2. DOMAIN at = 1 .. n
    BY <2>1
  <2> QED BY <2>1, <2>2 DEF IsInjective
<1>3. \A i, j \in DOMAIN seq : seq[i] = seq[j] => i = j
  BY DEF IsInjective
<1>4. \A p : p \in P <=> p \in DOMAIN seq /\ seq[p] # x
  OBVIOUS
<1> HIDE DEF P, rest, at, n
<1>5. IsInjective(rest)
  <2>1. \A i, j \in 1 .. n : rest[i] = rest[j] => i = j
    BY <1>1, <1>2, <1>3, <1>4
  <2> QED BY <1>1, <2>1 DEF IsInjective
<1>6. ASSUME NEW y
      PROVE  y \in Range(rest) <=> y \in Range(seq) \ {x}
  <2>1. y \in Range(rest) <=> \E i \in 1 .. n : rest[i] = y
    BY <1>1 DEF Range
  <2>2. y \in Range(seq) <=> \E p \in DOMAIN seq : seq[p] = y
    BY DEF Range
  <2>3. y \in Range(seq) \ {x} <=> \E p \in P : seq[p] = y
    BY <1>4, <2>2
  <2>4. ASSUME NEW i \in 1 .. n, rest[i] = y
        PROVE  \E p \in P : seq[p] = y
    BY <1>1, <2>4
  <2>5. ASSUME NEW p \in P, seq[p] = y
        PROVE  \E i \in 1 .. n : rest[i] = y
    <3>1. PICK i \in 1 .. n : at[i] = p
      BY <1>2
    <3> QED BY <1>1, <2>5, <3>1
  <2> QED BY <2>1, <2>3, <2>4, <2>5
<1> QED BY <1>1, <1>5, <1>6 DEF rest

(* What a call about an index entry leaves alone.                          *)
LEMMA IndexFrame ==
  ASSUME ShardsTypeOK, ShardsInv, NEW index, NEW table \in SUBSET (Values \X Ids),
         DOMAIN index \subseteq Values,
         mem' = [mem EXCEPT !.index = index], db' = [db EXCEPT !.index = table],
         UNCHANGED <<pager, used>>
  PROVE  /\ mem'.index = index /\ db'.index = table
         /\ ShardsTypeOK' /\ Shapes' /\ SameObjects' /\ SameEdges' /\ Paged'
<1>1. Shapes /\ SameObjects /\ SameEdges /\ Paged
  BY DEF ShardsInv
<1>2. /\ mem' = [objects |-> mem.objects, edges |-> mem.edges, index |-> index]
      /\ db' = [objects |-> db.objects, edges |-> db.edges, index |-> table]
  BY <1>1 DEF Shapes
<1>3. /\ mem'.index = index /\ db'.index = table
      /\ mem'.objects = mem.objects /\ mem'.edges = mem.edges
      /\ db'.objects = db.objects /\ db'.edges = db.edges
  BY <1>2
<1>4. ShardsTypeOK'
  BY <1>3 DEF ShardsTypeOK, IsObjects, Afters
<1>5. Shapes'
  BY <1>1, <1>2 DEF Shapes
<1>6. SameObjects'
  BY <1>1, <1>3 DEF SameObjects
<1>7. SameEdges' /\ Paged'
  BY <1>1, <1>3, EdgesKept, PagingKept
<1> QED BY <1>3, <1>4, <1>5, <1>6, <1>7

(* An entry comes at the end of the list of its value, and into the table. *)
LEMMA InsertIndexEntryKeeps ==
  ASSUME ShardsTypeOK, ShardsInv, NEW value \in Values, NEW target \in Ids,
         InsertIndexEntry(value, target)
  PROVE  ShardsTypeOK' /\ ShardsInv'
<1> DEFINE entries == MemGenIndexEntries(value)
           index == Put(mem.index, value, Append(entries, target))
           table == db.index \cup {<<value, target>>}
<1>1. /\ mem' = [mem EXCEPT !.index = index] /\ db' = [db EXCEPT !.index = table]
      /\ UNCHANGED <<pager, used>>
      /\ \A row \in db.index : row[2] # target
  BY DEF InsertIndexEntry
<1>2. /\ DOMAIN index = DOMAIN mem.index \cup {value}
      /\ \A v \in DOMAIN index : index[v] = IF v = value THEN Append(entries, target) ELSE mem.index[v]
  BY DEF Put
<1>3. DOMAIN index \subseteq Values /\ table \in SUBSET (Values \X Ids)
  BY <1>2 DEF ShardsTypeOK
<1> HIDE DEF index
<1>4. /\ mem'.index = index /\ db'.index = table
      /\ ShardsTypeOK' /\ Shapes' /\ SameObjects' /\ SameEdges' /\ Paged'
  <2> HIDE DEF table
  <2> QED BY <1>1, <1>3, IndexFrame
<1>5. SameEntries'
  <2>1. \A v \in Values :
          MemGenIndexEntries(v)' = IF v = value THEN Append(entries, target) ELSE MemGenIndexEntries(v)
    BY <1>2, <1>4 DEF MemGenIndexEntries
  <2>2. \A v \in Values : Targets(v)' = IF v = value THEN Targets(v) \cup {target} ELSE Targets(v)
    BY <1>4 DEF Targets
  <2>3. \A v \in Values : /\ MemGenIndexEntries(v) \in Seq(Ids) /\ IsInjective(MemGenIndexEntries(v))
                          /\ Range(MemGenIndexEntries(v)) = Targets(v)
    BY DEF ShardsInv, SameEntries
  <2>4. target \notin Targets(value)
    BY <1>1 DEF Targets
  <2> HIDE DEF entries, Ids, NoId
  <2>5. /\ Append(entries, target) \in Seq(Ids) /\ IsInjective(Append(entries, target))
        /\ Range(Append(entries, target)) = Targets(value) \cup {target}
    BY <2>3, <2>4, OneMore DEF entries
  <2> QED BY <2>1, <2>2, <2>3, <2>5 DEF SameEntries
<1> QED BY <1>4, <1>5 DEF ShardsInv

(* A delete takes the entry out of both.                                   *)
LEMMA DeleteIndexEntryKeeps ==
  ASSUME ShardsTypeOK, ShardsInv, NEW value \in Values, NEW target \in Ids,
         DeleteIndexEntry(value, target)
  PROVE  ShardsTypeOK' /\ ShardsInv'
<1> DEFINE entries == MemGenIndexEntries(value)
           index == Put(mem.index, value, Others(entries, target))
           table == db.index \ {<<value, target>>}
<1>1. /\ mem' = [mem EXCEPT !.index = index] /\ db' = [db EXCEPT !.index = table]
      /\ UNCHANGED <<pager, used>>
  BY DEF DeleteIndexEntry
<1>2. /\ DOMAIN index = DOMAIN mem.index \cup {value}
      /\ \A v \in DOMAIN index : index[v] = IF v = value THEN Others(entries, target) ELSE mem.index[v]
  BY DEF Put
<1>3. DOMAIN index \subseteq Values /\ table \in SUBSET (Values \X Ids)
  BY <1>2 DEF ShardsTypeOK
<1> HIDE DEF index
<1>4. /\ mem'.index = index /\ db'.index = table
      /\ ShardsTypeOK' /\ Shapes' /\ SameObjects' /\ SameEdges' /\ Paged'
  <2> HIDE DEF table
  <2> QED BY <1>1, <1>3, IndexFrame
<1>5. SameEntries'
  <2>1. \A v \in Values :
          MemGenIndexEntries(v)' = IF v = value THEN Others(entries, target) ELSE MemGenIndexEntries(v)
    BY <1>2, <1>4 DEF MemGenIndexEntries
  <2>2. \A v \in Values : Targets(v)' = IF v = value THEN Targets(v) \ {target} ELSE Targets(v)
    BY <1>4 DEF Targets
  <2>3. \A v \in Values : /\ MemGenIndexEntries(v) \in Seq(Ids) /\ IsInjective(MemGenIndexEntries(v))
                          /\ Range(MemGenIndexEntries(v)) = Targets(v)
    BY DEF ShardsInv, SameEntries
  <2> HIDE DEF entries, Ids, NoId
  <2>4. /\ Others(entries, target) \in Seq(Ids) /\ IsInjective(Others(entries, target))
        /\ Range(Others(entries, target)) = Targets(value) \ {target}
    BY <2>3, AllOthers DEF entries
  <2> QED BY <2>1, <2>2, <2>3, <2>4 DEF SameEntries
<1> QED BY <1>4, <1>5 DEF ShardsInv

-----------------------------------------------------------------------------
(* Paging.                                                                 *)

(* A client that starts to page has seen nothing, and was promised what    *)
(* there is.                                                               *)
LEMMA StartPagingKeeps ==
  ASSUME ShardsTypeOK, ShardsInv, NEW shard \in {"mem", "db"}, NEW first \in Firsts,
         StartPaging(shard, first)
  PROVE  ShardsTypeOK' /\ ShardsInv'
<1>1. Shapes /\ SameObjects /\ SameEdges /\ SameEntries /\ Paged
  BY DEF ShardsInv
<1>2. mem' = mem /\ db' = db  /\ used' = used
  BY DEF StartPaging
<1>3. SameObjects' /\ SameEdges' /\ SameEntries' /\ \A from : EdgesOf(from)' = EdgesOf(from)
  BY <1>1, <1>2, EdgesKept, EntriesKept DEF SameObjects
<1>4. ASSUME NEW what, NEW of, NEW throughout \in SUBSET Ids,
             pager' = [what |-> what, shard |-> shard, of |-> of, first |-> first, after |-> NoId,
                       seen |-> <<>>, throughout |-> throughout, done |-> FALSE]
      PROVE  /\ ShardsTypeOK' /\ Shapes'
             /\ LastSeen' = pager'.after /\ pager'.after = NoId
             /\ DOMAIN pager'.seen = {}
  <2>1. pager'.seen = <<>> /\ pager'.after = NoId /\ pager'.throughout = throughout
        /\ pager'.shard = shard /\ pager'.first = first
        /\ pager' = [what |-> pager'.what, shard |-> pager'.shard, of |-> pager'.of,
                     first |-> pager'.first, after |-> pager'.after, seen |-> pager'.seen,
                     throughout |-> pager'.throughout, done |-> pager'.done]
    BY <1>4
  <2>2. ShardsTypeOK'
    BY <1>2, <2>1 DEF ShardsTypeOK, IsObjects, Afters
  <2>3. Shapes'
    BY <1>1, <1>2, <2>1 DEF Shapes
  <2> QED BY <2>1, <2>2, <2>3 DEF LastSeen
<1>5. ASSUME NEW type \in Types,
             pager' = [NoPager EXCEPT !.what = "objects", !.shard = shard, !.of = type, !.first = first,
                         !.throughout = Range(DbGenObjectsOfType(type, NoId, 0))]
      PROVE  ShardsTypeOK' /\ Shapes' /\ Paged'
  <2> DEFINE S == {id \in DOMAIN db.objects : db.objects[id].type = type /\ id > NoId}
             T == Range(DbGenObjectsOfType(type, NoId, 0))
  <2>1. S \in SUBSET Ids
    BY DEF ShardsTypeOK, IsObjects
  <2>2. T = S
    <3>1. DbGenObjectsOfType(type, NoId, 0) = Ascending(S)
      BY DEF DbGenObjectsOfType, UpTo
    <3> HIDE DEF S
    <3>2. S \in SUBSET Nat /\ IsFiniteSet(S)
      BY <2>1, IdsFinite
    <3> QED BY <3>1, <3>2, AscendingIs
  <2>3. \A id \in T : id \in DOMAIN db.objects /\ db.objects[id].type = type /\ id > NoId
    BY <2>2
  <2>4. T \in SUBSET Ids
    BY <2>1, <2>2
  <2> HIDE DEF S, T
  <2>5. pager' = [what |-> "objects", shard |-> shard, of |-> type, first |-> first, after |-> NoId,
                  seen |-> <<>>, throughout |-> T, done |-> FALSE]
    BY <1>5 DEF NoPager, T
  <2>6. /\ ShardsTypeOK' /\ Shapes' /\ LastSeen' = pager'.after /\ pager'.after = NoId
        /\ DOMAIN pager'.seen = {}
    BY <1>4, <2>4, <2>5
  <2>7. pager'.what = "objects" /\ pager'.of = type /\ pager'.throughout = T /\ pager'.done = FALSE
    BY <2>5
  <2>8. \A id \in T : id \in Ids /\ ~(id <= NoId)
    BY <2>3, <2>4
  <2>9. PagedObjects'
    BY <1>2, <2>3, <2>6, <2>7, <2>8 DEF PagedObjects
  <2> QED BY <2>6, <2>7, <2>9 DEF Paged, PagedEdges
<1>6. ASSUME NEW from \in Ids, shard = "mem" => from \in DOMAIN mem.edges,
             pager' = [NoPager EXCEPT !.what = "edges", !.shard = shard, !.of = from, !.first = first,
                         !.throughout = Range(DbGenEdges(from, NoId, 0))]
      PROVE  ShardsTypeOK' /\ Shapes' /\ Paged'
  <2> DEFINE T == Range(EdgesOf(from))
  <2>1. EdgesOf(from) \in Seq(Ids)
    BY EdgesOfIs
  <2>2. T \in SUBSET Ids
    <3> HIDE DEF Ids, NoId
    <3> QED BY <2>1, InSequence
  <2> HIDE DEF T
  <2>3. pager' = [what |-> "edges", shard |-> shard, of |-> from, first |-> first, after |-> NoId,
                  seen |-> <<>>, throughout |-> T, done |-> FALSE]
    BY <1>6 DEF NoPager, T, EdgesOf
  <2>4. /\ ShardsTypeOK' /\ Shapes' /\ LastSeen' = pager'.after /\ pager'.after = NoId
        /\ DOMAIN pager'.seen = {}
    BY <1>4, <2>2, <2>3
  <2>5. pager'.what = "edges" /\ pager'.shard = shard /\ pager'.of = from /\ pager'.throughout = T
        /\ pager'.done = FALSE
    BY <2>3
  <2>6. PagedEdges'
    BY <1>2, <1>3, <1>6, <2>4, <2>5 DEF PagedEdges, T
  <2> QED BY <2>4, <2>5, <2>6 DEF Paged, PagedObjects
<1>7. ShardsTypeOK' /\ Shapes' /\ Paged'
  BY <1>5, <1>6 DEF StartPaging
<1> QED BY <1>3, <1>7 DEF ShardsInv

(* What a page does to the pager: an empty one ends the paging, another    *)
(* one is what was seen last.                                              *)
LEMMA PageTurned ==
  ASSUME ShardsTypeOK, Shapes, NextPage, NEW page \in Seq(Ids), page = Page
  PROVE  /\ ShardsTypeOK' /\ Shapes'
         /\ mem' = mem /\ db' = db  /\ used' = used
         /\ pager'.what = pager.what /\ pager'.shard = pager.shard /\ pager'.of = pager.of
         /\ pager'.first = pager.first /\ pager'.throughout = pager.throughout
         /\ ~pager.done /\ pager.what # "none"
         /\ page = <<>> =>
              /\ pager'.seen = pager.seen /\ pager'.after = pager.after /\ pager'.done = TRUE
              /\ LastSeen' = LastSeen
         /\ page # <<>> =>
              /\ pager'.seen = pager.seen \o page /\ pager'.after = page[Len(page)]
              /\ pager'.done = (pager.first = 0)
              /\ LastSeen' = pager'.after
              /\ Len(page) \in Nat \ {0}
<1>1. /\ mem' = mem /\ db' = db  /\ used' = used
      /\ pager.what # "none" /\ ~pager.done
      /\ pager' = IF page = <<>>
                  THEN [pager EXCEPT !.done = TRUE]
                  ELSE [pager EXCEPT !.seen = pager.seen \o page, !.after = page[Len(page)],
                                     !.done = (pager.first = 0)]
  BY DEF NextPage
<1>2. pager = [what |-> pager.what, shard |-> pager.shard, of |-> pager.of,
               first |-> pager.first, after |-> pager.after, seen |-> pager.seen,
               throughout |-> pager.throughout, done |-> pager.done]
  BY DEF Shapes
<1>3. pager.seen \in Seq(Ids) /\ pager.after \in Afters /\ pager.throughout \subseteq Ids
  BY DEF ShardsTypeOK
<1>4. CASE page = <<>>
  <2>1. pager' = [what |-> pager.what, shard |-> pager.shard, of |-> pager.of,
                  first |-> pager.first, after |-> pager.after, seen |-> pager.seen,
                  throughout |-> pager.throughout, done |-> TRUE]
    BY <1>1, <1>2, <1>4
  <2>2. /\ pager'.what = pager.what /\ pager'.shard = pager.shard /\ pager'.of = pager.of
        /\ pager'.first = pager.first /\ pager'.throughout = pager.throughout
        /\ pager'.seen = pager.seen /\ pager'.after = pager.after /\ pager'.done = TRUE
    BY <2>1
  <2>3. ShardsTypeOK'
    BY <1>1, <2>2 DEF ShardsTypeOK, IsObjects, Afters
  <2>4. Shapes'
    BY <1>1, <2>1, <2>2 DEF Shapes
  <2> QED BY <1>1, <1>4, <2>2, <2>3, <2>4 DEF LastSeen
<1>5. CASE page # <<>>
  <2> DEFINE seen == pager.seen \o page
             after == page[Len(page)]
             done == (pager.first = 0)
  <2>1. pager' = [what |-> pager.what, shard |-> pager.shard, of |-> pager.of,
                  first |-> pager.first, after |-> after, seen |-> seen,
                  throughout |-> pager.throughout, done |-> done]
    BY <1>1, <1>2, <1>5
  <2>2. /\ seen \in Seq(Ids) /\ after \in Ids /\ Len(page) \in Nat \ {0}
        /\ seen # <<>> /\ seen[Len(seen)] = after
    <3> HIDE DEF Ids, NoId
    <3>1. Len(page) \in Nat \ {0} /\ after \in Ids
      BY <1>5
    <3>2. /\ Len(pager.seen) \in Nat /\ Len(seen) = Len(pager.seen) + Len(page) /\ seen \in Seq(Ids)
          /\ seen[Len(pager.seen) + Len(page)] = page[Len(page)]
      BY <1>3, <3>1
    <3>3. Len(seen) # 0
      BY <3>1, <3>2
    <3> QED BY <3>1, <3>2, <3>3
  <2> HIDE DEF seen, after, done
  <2>3. /\ pager'.what = pager.what /\ pager'.shard = pager.shard /\ pager'.of = pager.of
        /\ pager'.first = pager.first /\ pager'.throughout = pager.throughout
        /\ pager'.seen = seen /\ pager'.after = after /\ pager'.done = done
    BY <2>1
  <2>4. ShardsTypeOK'
    BY <1>1, <2>2, <2>3 DEF ShardsTypeOK, IsObjects, Afters
  <2>5. Shapes'
    <3>1. pager' = [what |-> pager'.what, shard |-> pager'.shard, of |-> pager'.of,
                    first |-> pager'.first, after |-> pager'.after, seen |-> pager'.seen,
                    throughout |-> pager'.throughout, done |-> pager'.done]
      BY <2>1, <2>3
    <3> QED BY <1>1, <2>3, <3>1 DEF Shapes
  <2>6. LastSeen' = after
    BY <2>2, <2>3 DEF LastSeen
  <2> QED BY <1>1, <1>5, <2>2, <2>3, <2>4, <2>5, <2>6 DEF seen, after, done
<1> QED BY <1>4, <1>5

(* A page of objects: the ids above the last, in their order, up to some.  *)
LEMMA ObjectsTurned ==
  ASSUME ShardsTypeOK, ShardsInv, NextPage, pager.what = "objects"
  PROVE  /\ ShardsTypeOK' /\ Shapes' /\ PagedObjects'
         /\ mem' = mem /\ db' = db  /\ used' = used
         /\ pager'.what = pager.what
<1>1. Shapes /\ SameObjects /\ Paged /\ pager.shard \in {"mem", "db"} /\ pager.first \in Firsts
  BY DEF ShardsInv, Shapes
<1>2. pager.first \in Nat /\ pager.after \in Afters /\ pager.seen \in Seq(Ids)
  BY <1>1, ShardsAssumption DEF ShardsTypeOK
<1> DEFINE S == {id \in DOMAIN db.objects : db.objects[id].type = pager.of /\ id > pager.after}
           all == Ascending(S)
<1>3. Page = DbGenObjectsOfType(pager.of, pager.after, pager.first)
  BY <1>1, <1>2, SamePagesOfObjects DEF Page
<1>4. PICK page : page = Page
  OBVIOUS
<1>5. page = UpTo(all, pager.first)
  BY <1>3, <1>4 DEF DbGenObjectsOfType
<1>6. S \in SUBSET Ids
  BY DEF ShardsTypeOK, IsObjects
<1>7. \A id : id \in S <=> id \in DOMAIN db.objects /\ db.objects[id].type = pager.of /\ id > pager.after
  OBVIOUS
<1> HIDE DEF S
<1>8. /\ all \in Seq(S) /\ Len(all) \in Nat
      /\ \A i \in 1 .. Len(all) : all[i] \in S
      /\ \A i, j \in 1 .. Len(all) : i < j => all[i] < all[j]
      /\ \A x \in S : \E i \in 1 .. Len(all) : all[i] = x
  <2>1. S \in SUBSET Nat /\ IsFiniteSet(S)
    BY <1>6, IdsFinite
  <2>2. /\ all \in Seq(S) /\ Len(all) \in Nat
        /\ \A i, j \in 1 .. Len(all) : i < j => all[i] < all[j]
        /\ \A x \in S : \E i \in 1 .. Len(all) : all[i] = x
    BY <2>1, AscendingIs
  <2> HIDE DEF all
  <2>3. \A i \in 1 .. Len(all) : all[i] \in S
    BY <2>2
  <2> QED BY <2>2, <2>3
<1> HIDE DEF all
<1>a. \A x \in S : x \in Nat /\ x > pager.after
  BY <1>6, <1>7
<1> DEFINE m == Len(page)
<1>9. /\ page \in Seq(S) /\ m \in 0 .. Len(all)
      /\ \A i \in 1 .. m : page[i] = all[i]
      /\ pager.first = 0 => page = all
      /\ page = <<>> => all = <<>>
  BY <1>2, <1>5, <1>8, PageOf
<1>10. page \in Seq(Ids) /\ m \in Nat
  <2> HIDE DEF Ids, NoId
  <2> QED BY <1>6, <1>9
<1>11. /\ ShardsTypeOK' /\ Shapes'
       /\ mem' = mem /\ db' = db  /\ used' = used
       /\ pager'.what = pager.what /\ pager'.of = pager.of /\ pager'.throughout = pager.throughout
       /\ ~pager.done
       /\ page = <<>> =>
            /\ pager'.seen = pager.seen /\ pager'.after = pager.after
            /\ LastSeen' = LastSeen
       /\ page # <<>> =>
            /\ pager'.seen = pager.seen \o page /\ pager'.after = page[m]
            /\ pager'.done = (pager.first = 0)
            /\ LastSeen' = pager'.after
            /\ m \in Nat \ {0}
  BY <1>1, <1>4, <1>10, PageTurned
<1>12. /\ pager.after = LastSeen
       /\ \A i, j \in DOMAIN pager.seen : i < j => pager.seen[i] < pager.seen[j]
       /\ \A id \in pager.throughout :
            /\ id \in DOMAIN db.objects /\ db.objects[id].type = pager.of
            /\ id <= pager.after => id \in Range(pager.seen)
       /\ pager.throughout \subseteq Ids
  BY <1>1 DEF Paged, PagedObjects, ShardsTypeOK
<1>13. \A id \in pager.throughout : id <= pager.after \/ id \in S
  <2>1. \A id \in Ids : id <= pager.after \/ id > pager.after
    BY <1>2 DEF Afters
  <2> QED BY <1>7, <1>12, <2>1
<1>14. CASE page = <<>>
  <2>1. S = {}
    <3>1. Len(all) = 0
      BY <1>9, <1>14
    <3> QED BY <1>8, <3>1
  <2>2. \A id \in pager.throughout : id \in Range(pager.seen)
    BY <1>12, <1>13, <2>1
  <2>3. PagedObjects'
    BY <1>11, <1>12, <1>14, <2>2 DEF PagedObjects
  <2> QED BY <1>11, <2>3
<1>15. CASE page # <<>>
  <2> DEFINE n == Len(pager.seen)
             seen == pager.seen \o page
  <2>1. /\ n \in Nat /\ DOMAIN pager.seen = 1 .. n /\ m \in Nat \ {0}
        /\ \A i \in 1 .. n : pager.seen[i] \in Nat
    <3>1. \A i \in 1 .. n : pager.seen[i] \in Ids
      <4> HIDE DEF Ids, NoId
      <4> QED BY <1>2
    <3>2. n \in Nat /\ DOMAIN pager.seen = 1 .. n
      BY <1>2
    <3>3. \A x \in Ids : x \in Nat
      BY IdsFinite
    <3> HIDE DEF m, n
    <3> QED BY <1>11, <1>15, <3>1, <3>2, <3>3
  <2>2. /\ seen \in Seq(Ids) /\ Len(seen) = n + m
        /\ \A i \in 1 .. n : seen[i] = pager.seen[i]
        /\ \A i \in 1 .. m : seen[n + i] = page[i]
        /\ Range(seen) = Range(pager.seen) \cup Range(page)
    <3> HIDE DEF Ids, NoId
    <3>1. page \in [1 .. m -> Ids] /\ m \in Nat
      BY <1>10
    <3> HIDE DEF m
    <3> QED BY <1>2, <3>1, Appended
  <2>3. DOMAIN seen = 1 .. n + m
    <3> HIDE DEF seen
    <3> QED BY <2>2
  <2>4. \A i \in 1 .. n : pager.seen[i] <= pager.after
    <3>1. TAKE i \in 1 .. n
    <3>2. pager.after = pager.seen[n] /\ n \in 1 .. n
      BY <1>2, <1>12, <2>1, <3>1 DEF LastSeen
    <3>3. i < n => pager.seen[i] < pager.seen[n]
      BY <1>12, <2>1, <3>2
    <3> QED BY <2>1, <3>2, <3>3
  <2>5. \A i \in 1 .. m : page[i] > pager.after /\ page[i] \in Nat /\ page[i] \in Range(page)
    <3>1. \A i \in 1 .. m : page[i] \in S
      BY <1>9
    <3>2. \A i \in 1 .. m : page[i] \in Range(page)
      BY <1>10 DEF Range
    <3> QED BY <1>a, <3>1, <3>2
  <2>6. \A i, j \in 1 .. m : i < j => page[i] < page[j]
    <3>1. \A i \in 1 .. m : i \in 1 .. Len(all)
      BY <1>8, <1>9
    <3> QED BY <1>8, <1>9, <3>1
  <2> HIDE DEF seen, n, m
  <2>7. \A i, j \in 1 .. n + m : i < j => seen[i] < seen[j]
    <3>1. TAKE i, j \in 1 .. n + m
    <3>2. HAVE i < j
    <3>3. CASE j <= n
      <4>1. i \in 1 .. n /\ j \in 1 .. n
        BY <2>1, <3>2, <3>3
      <4> QED BY <1>12, <2>1, <2>2, <3>2, <4>1
    <3>4. CASE i <= n /\ j > n
      <4>1. i \in 1 .. n /\ j - n \in 1 .. m /\ n + (j - n) = j
        BY <1>10, <2>1, <3>4
      <4>2. seen[i] = pager.seen[i] /\ seen[j] = page[j - n]
        BY <2>2, <4>1
      <4>3. pager.seen[i] <= pager.after /\ page[j - n] > pager.after
            /\ pager.seen[i] \in Nat /\ page[j - n] \in Nat /\ pager.after \in Nat
        BY <1>2, <2>1, <2>4, <2>5, <4>1 DEF Afters
      <4> QED BY <4>2, <4>3
    <3>5. CASE i > n
      <4>1. /\ i - n \in 1 .. m /\ j - n \in 1 .. m /\ i - n < j - n
            /\ n + (i - n) = i /\ n + (j - n) = j
        BY <1>10, <2>1, <3>2, <3>5
      <4>2. seen[i] = page[i - n] /\ seen[j] = page[j - n]
        BY <2>2, <4>1
      <4> QED BY <2>6, <4>1, <4>2
    <3> QED BY <2>1, <3>3, <3>4, <3>5
  <2>8. ASSUME NEW id \in pager.throughout, pager.first = 0 \/ id <= page[m]
        PROVE  id \in Range(seen)
    <3>1. CASE id <= pager.after
      BY <1>12, <2>2, <3>1
    <3>2. CASE id \in S
      <4>1. PICK j \in 1 .. Len(all) : all[j] = id
        BY <1>8, <3>2
      <4>2. CASE j <= m
        <5>1. j \in 1 .. m
          BY <1>10, <4>2
        <5> QED BY <1>9, <2>2, <2>5, <4>1, <5>1
      <4>3. CASE j > m
        <5>1. m \in 1 .. m /\ m \in 1 .. Len(all) /\ m < j
          BY <1>8, <1>9, <1>10, <2>1, <4>3
        <5>2. page[m] = all[m]
          BY <1>9, <5>1
        <5>3. all[m] < all[j] /\ all[m] \in Nat /\ all[j] \in Nat
          BY <1>8, <1>a, <5>1
        <5>4. pager.first = 0 => m = Len(all)
          BY <1>9 DEF m
        <5>5. pager.first # 0
          BY <1>8, <4>3, <5>4
        <5> QED BY <2>8, <4>1, <5>2, <5>3, <5>5
      <4> QED BY <1>10, <4>2, <4>3
    <3> QED BY <1>13, <3>1, <3>2
  <2>9. PagedObjects'
    <3>1. pager'.seen = seen /\ pager'.after = page[m] /\ pager'.done = (pager.first = 0)
          /\ LastSeen' = pager'.after
      BY <1>11, <1>15 DEF seen
    <3> QED BY <1>11, <1>12, <2>3, <2>7, <2>8, <3>1 DEF PagedObjects
  <2> QED BY <1>11, <2>9
<1> QED BY <1>14, <1>15

(* What there is after the edges seen.                                     *)
LEMMA EdgesLeft ==
  ASSUME ShardsTypeOK, ShardsInv, pager.what = "edges"
  PROVE  LET L == EdgesOf(pager.of)
             k == Len(pager.seen)
         IN  /\ k \in 0 .. Len(L)
             /\ \E rest \in Seq(Ids) : /\ Len(rest) = Len(L) - k
                                       /\ \A i \in 1 .. Len(L) - k : rest[i] = L[k + i]
                                       /\ Page = UpTo(rest, pager.first)
<1> DEFINE L == EdgesOf(pager.of)
           k == Len(pager.seen)
<1>1. /\ SameEdges /\ pager.shard \in {"mem", "db"}
      /\ pager.shard = "mem" => pager.of \in DOMAIN mem.edges
      /\ pager.after = LastSeen
      /\ DOMAIN pager.seen \subseteq DOMAIN L
      /\ \A i \in DOMAIN pager.seen : pager.seen[i] = L[i]
  BY DEF ShardsInv, Shapes, Paged, PagedEdges
<1>2. pager.seen \in Seq(Ids) /\ pager.after \in Afters /\ L \in Seq(Ids)
  BY EdgesOfIs DEF ShardsTypeOK
<1>3. Page = DbGenEdges(pager.of, pager.after, pager.first)
  <2>1. CASE pager.shard = "mem"
    BY <1>1, <1>2, <2>1, SamePagesOfEdges DEF Page
  <2>2. CASE pager.shard = "db"
    BY <2>2 DEF Page
  <2> QED BY <1>1, <2>1, <2>2
<1>4. /\ k \in Nat /\ DOMAIN pager.seen = 1 .. k /\ Len(L) \in Nat /\ DOMAIN L = 1 .. Len(L)
      /\ \A i \in 1 .. k : pager.seen[i] \in Ids
  <2> HIDE DEF L, Ids, NoId
  <2> QED BY <1>2
<1> HIDE DEF L, k
<1>5. k \in 0 .. Len(L)
  <2>1. CASE k = 0
    BY <1>4, <2>1
  <2>2. CASE k # 0
    <3>1. k \in 1 .. k
      BY <1>4, <2>2
    <3>2. k \in 1 .. Len(L)
      BY <1>1, <1>4, <3>1
    <3> QED BY <3>2
  <2> QED BY <2>1, <2>2
<1>6. CASE k = 0
  <2>1. pager.seen = <<>>
    BY <1>2, <1>6 DEF k
  <2>2. pager.after = NoId
    BY <1>1, <2>1 DEF LastSeen
  <2>3. Page = UpTo(L, pager.first)
    BY <1>3, <2>2, EdgesOfIs DEF L
  <2>4. Len(L) = Len(L) - k /\ \A i \in 1 .. Len(L) - k : L[i] = L[k + i]
    BY <1>4, <1>6
  <2> QED BY <1>2, <1>5, <2>3, <2>4 DEF L, k
<1>7. CASE k # 0
  <2> DEFINE after == pager.after
             rest == From(L, k)
  <2>1. k \in 1 .. k /\ k \in 1 .. Len(L)
    BY <1>4, <1>5, <1>7
  <2>2. pager.seen # <<>>
    BY <1>7 DEF k
  <2>3. after = pager.seen[k] /\ after \in Ids /\ after # NoId
    BY <1>1, <1>4, <2>1, <2>2 DEF LastSeen, k
  <2>4. L[k] = after
    BY <1>1, <1>4, <2>1, <2>3
  <2>5. \A i, j \in DOMAIN L : L[i] = L[j] => i = j
    BY <1>1, ListDistinct DEF L
  <2> HIDE DEF after
  <2>6. get_after_index(L, after) = k
    <3> DEFINE hits == {i \in DOMAIN L : L[i] = after}
    <3>1. hits = {k}
      BY <1>4, <2>1, <2>4, <2>5
    <3> HIDE DEF hits
    <3>2. Min(hits) = k
      <4>1. \A x : x \in {k} /\ (\A y \in {k} : x <= y) <=> x = k
        BY <1>4
      <4> QED BY <3>1, <4>1 DEF Min
    <3> QED BY <3>1, <3>2 DEF get_after_index, hits
  <2>7. Page = UpTo(rest, pager.first)
    <3>1. DbGenEdges(pager.of, after, pager.first) =
            UpTo(AtPositions(Tos, {row \in RowsOf(pager.of) : \E last \in RowId(pager.of, after) : row > last}),
                 pager.first)
      <4>1. \A a, first : a # NoId =>
              DbGenEdges(pager.of, a, first) =
                UpTo(AtPositions(Tos, {row \in RowsOf(pager.of) : \E last \in RowId(pager.of, a) : row > last}),
                     first)
        BY EdgesOfIs
      <4> QED BY <2>3, <4>1
    <3>2. rest = AtPositions(Tos, {row \in RowsOf(pager.of) : \E last \in RowId(pager.of, after) : row > last})
      <4>1. From(EdgesOf(pager.of), get_after_index(EdgesOf(pager.of), after)) =
              AtPositions(Tos, {row \in RowsOf(pager.of) : \E last \in RowId(pager.of, after) : row > last})
        BY <1>1, <2>3, EdgesAfter, Zenon
      <4> QED BY <2>6, <4>1, Zenon DEF L
    <3> QED BY <1>3, <3>1, <3>2 DEF after
  <2>8. /\ rest \in Seq(Ids) /\ Len(rest) = Len(L) - k
        /\ \A i \in 1 .. Len(L) - k : rest[i] = L[k + i]
    <3> HIDE DEF Ids, NoId
    <3> QED BY <1>2, <1>5, FromIs
  <2> HIDE DEF rest
  <2> QED BY <1>5, <2>7, <2>8 DEF L, k
<1> QED BY <1>6, <1>7

(* A page of edges: the list of the source after those seen, up to some.   *)
LEMMA EdgesTurned ==
  ASSUME ShardsTypeOK, ShardsInv, NextPage, pager.what = "edges"
  PROVE  /\ ShardsTypeOK' /\ Shapes' /\ PagedEdges'
         /\ mem' = mem /\ db' = db  /\ used' = used
         /\ pager'.what = pager.what
<1> DEFINE L == EdgesOf(pager.of)
           k == Len(pager.seen)
           l == Len(L)
<1>1. Shapes /\ PagedEdges /\ pager.first \in Nat
  BY ShardsAssumption DEF ShardsInv, Shapes, Paged
<1>2. pager.seen \in Seq(Ids) /\ L \in Seq(Ids)
  BY EdgesOfIs DEF ShardsTypeOK
<1>3. /\ k \in Nat /\ DOMAIN pager.seen = 1 .. k /\ l \in Nat /\ DOMAIN L = 1 .. l
  <2> HIDE DEF L, Ids, NoId
  <2> QED BY <1>2
<1>4. PICK rest \in Seq(Ids) : /\ Len(rest) = l - k
                               /\ \A i \in 1 .. l - k : rest[i] = L[k + i]
                               /\ Page = UpTo(rest, pager.first)
  BY EdgesLeft
<1>5. k \in 0 .. l
  BY EdgesLeft
<1>6. PICK page : page = Page
  OBVIOUS
<1> DEFINE m == Len(page)
<1>7. /\ page \in Seq(Ids) /\ m \in 0 .. l - k
      /\ \A i \in 1 .. m : page[i] = rest[i]
      /\ pager.first = 0 => page = rest
      /\ page = <<>> => rest = <<>>
  <2> HIDE DEF L, l, k, Ids, NoId
  <2>1. page = UpTo(rest, pager.first)
    BY <1>4, <1>6
  <2> QED BY <1>1, <1>4, <2>1, PageOf
<1>8. /\ ShardsTypeOK' /\ Shapes'
      /\ mem' = mem /\ db' = db  /\ used' = used
      /\ pager'.what = pager.what /\ pager'.shard = pager.shard /\ pager'.of = pager.of
      /\ pager'.throughout = pager.throughout
      /\ page = <<>> =>
           /\ pager'.seen = pager.seen /\ pager'.after = pager.after
           /\ LastSeen' = LastSeen
      /\ page # <<>> =>
           /\ pager'.seen = pager.seen \o page
           /\ pager'.done = (pager.first = 0)
           /\ LastSeen' = pager'.after
  BY <1>1, <1>6, <1>7, PageTurned
<1>9. \A from : EdgesOf(from)' = EdgesOf(from)
  BY <1>8, EdgesKept
<1>10. /\ pager.shard = "mem" => pager.of \in DOMAIN mem.edges
       /\ pager.after = LastSeen
       /\ \A i \in 1 .. k : i \in 1 .. l /\ pager.seen[i] = L[i]
       /\ pager.throughout \subseteq Range(L)
  BY <1>1, <1>3 DEF PagedEdges
<1>11. \A x \in pager.throughout : \E i \in 1 .. l : L[i] = x
  BY <1>3, <1>10 DEF Range
<1>12. SUFFICES
         /\ LastSeen' = pager'.after
         /\ DOMAIN pager'.seen \subseteq DOMAIN L
         /\ \A i \in DOMAIN pager'.seen : pager'.seen[i] = L[i]
         /\ pager'.done => pager.throughout \subseteq Range(pager'.seen)
  BY <1>8, <1>9, <1>10 DEF PagedEdges
<1> HIDE DEF L, l, k
<1>13. CASE page = <<>>
  <2>1. l = k
    <3>1. Len(rest) = 0
      BY <1>7, <1>13
    <3> QED BY <1>3, <1>4, <3>1
  <2>2. pager.throughout \subseteq Range(pager.seen)
    BY <1>3, <1>10, <1>11, <2>1 DEF Range
  <2> QED BY <1>3, <1>8, <1>10, <1>13, <2>2
<1>14. CASE page # <<>>
  <2> DEFINE seen == pager.seen \o page
  <2>1. m \in Nat /\ page \in [1 .. m -> Ids]
    <3> HIDE DEF Ids, NoId
    <3> QED BY <1>7
  <2> HIDE DEF m
  <2>2. /\ seen \in Seq(Ids) /\ Len(seen) = k + m
        /\ \A i \in 1 .. k : seen[i] = pager.seen[i]
        /\ \A i \in 1 .. m : seen[k + i] = page[i]
    <3> HIDE DEF Ids, NoId
    <3> QED BY <1>2, <2>1, Appended DEF k
  <2> HIDE DEF seen
  <2>3. DOMAIN seen = 1 .. k + m
    BY <2>2
  <2>4. \A i \in 1 .. m : page[i] = L[k + i] /\ k + i \in 1 .. l
    <3>1. \A i \in 1 .. m : i \in 1 .. l - k
      BY <1>3, <1>5, <1>7, <2>1
    <3>2. \A i \in 1 .. l - k : k + i \in 1 .. l
      BY <1>3, <1>5
    <3> QED BY <1>4, <1>7, <3>1, <3>2
  <2>5. \A i \in 1 .. k + m : i \in 1 .. k \/ (i - k \in 1 .. m /\ k + (i - k) = i)
    BY <1>3, <2>1
  <2>6. \A i \in 1 .. k + m : i \in 1 .. l /\ seen[i] = L[i]
    <3>1. TAKE i \in 1 .. k + m
    <3>2. CASE i \in 1 .. k
      BY <1>10, <2>2, <3>2
    <3>3. CASE i - k \in 1 .. m /\ k + (i - k) = i
      <4>1. seen[k + (i - k)] = page[i - k]
        BY <2>2, <3>3
      <4>2. page[i - k] = L[k + (i - k)] /\ k + (i - k) \in 1 .. l
        BY <2>4, <3>3
      <4> QED BY <3>3, <4>1, <4>2
    <3> QED BY <2>5, <3>2, <3>3
  <2>7. ASSUME pager.first = 0
        PROVE  pager.throughout \subseteq Range(seen)
    <3>1. k + m = l
      BY <1>3, <1>4, <1>7, <2>7 DEF m
    <3> QED BY <1>11, <2>3, <2>6, <3>1 DEF Range
  <2>8. pager'.seen = seen /\ pager'.done = (pager.first = 0) /\ LastSeen' = pager'.after
    BY <1>8, <1>14 DEF seen
  <2> QED BY <1>3, <2>3, <2>6, <2>7, <2>8
<1> QED BY <1>13, <1>14

(* So every page keeps what paging keeps.                                  *)
LEMMA NextPageKeeps ==
  ASSUME ShardsTypeOK, ShardsInv, NextPage
  PROVE  ShardsTypeOK' /\ ShardsInv'
<1>1. pager.what \in {"objects", "edges"}
  BY DEF ShardsInv, Paged, NextPage
<1>2. /\ ShardsTypeOK' /\ Shapes'
      /\ mem' = mem /\ db' = db  /\ used' = used /\ pager'.what = pager.what
  BY <1>1, ObjectsTurned, EdgesTurned
<1>3. SameObjects' /\ SameEdges' /\ SameEntries'
  BY <1>2, EdgesKept, EntriesKept DEF ShardsInv, SameObjects
<1>4. CASE pager.what = "objects"
  <2>1. PagedObjects'
    BY <1>4, ObjectsTurned
  <2> QED BY <1>2, <1>3, <1>4, <2>1 DEF ShardsInv, Paged, PagedEdges
<1>5. CASE pager.what = "edges"
  <2>1. PagedEdges'
    BY <1>5, EdgesTurned
  <2> QED BY <1>2, <1>3, <1>5, <2>1 DEF ShardsInv, Paged, PagedObjects
<1> QED BY <1>1, <1>4, <1>5

-----------------------------------------------------------------------------
(* The invariant, and what follows from it.                                *)

(* Nothing is stored or paged through at the start.                        *)
LEMMA ShardsInitially ==
  ASSUME Init
  PROVE  ShardsTypeOK /\ ShardsInv
<1>1. /\ mem = [objects |-> <<>>, edges |-> <<>>, index |-> <<>>]
      /\ db = [objects |-> <<>>, edges |-> <<>>, index |-> {}]
      /\ pager = NoPager /\ used = {}
  BY DEF Init
<1>2. /\ mem.objects = <<>> /\ mem.edges = <<>> /\ mem.index = <<>>
      /\ db.objects = <<>> /\ db.edges = <<>> /\ db.index = {}
      /\ DOMAIN mem.objects = {} /\ DOMAIN mem.edges = {} /\ DOMAIN mem.index = {}
      /\ DOMAIN db.objects = {} /\ DOMAIN db.edges = {}
  BY <1>1
<1>3. /\ pager.what = "none" /\ pager.seen = <<>> /\ pager.after = NoId
      /\ pager.throughout = {}
  BY <1>1 DEF NoPager
<1>4. ShardsTypeOK
  <2>1. <<>> \in Seq(Ids \X Ids) /\ <<>> \in Seq(Ids)
    OBVIOUS
  <2> QED BY <1>1, <1>2, <1>3, <2>1 DEF ShardsTypeOK, IsObjects, Afters
<1>5. Shapes
  BY <1>1, <1>2, <1>3 DEF Shapes, NoPager
<1>6. SameObjects /\ SameEdges /\ Paged
  BY <1>1, <1>2, <1>3 DEF SameObjects, SameEdges, Paged, PagedObjects, PagedEdges
<1>7. SameEntries
  <2> HIDE DEF Ids, NoId
  <2>1. \A value : MemGenIndexEntries(value) = <<>> /\ Targets(value) = {}
    BY <1>2 DEF MemGenIndexEntries, Targets
  <2>2. <<>> \in Seq(Ids) /\ IsInjective(<<>>) /\ Range(<<>>) = {}
    BY DEF IsInjective, Range
  <2> QED BY <2>1, <2>2 DEF SameEntries
<1> QED BY <1>4, <1>5, <1>6, <1>7 DEF ShardsInv

(* Every call and every page keeps it.                                     *)
LEMMA ShardsStep ==
  ASSUME ShardsTypeOK, ShardsInv, [Next]_vars
  PROVE  ShardsTypeOK' /\ ShardsInv'
<1>1. CASE ObjectCalls
  <2>1. ASSUME NEW ids \in SUBSET Ids \ {{}}, NEW type \in Types, NEW data \in Datas,
               InsertObjects(ids, type, data)
        PROVE  ShardsTypeOK' /\ ShardsInv'
    BY <2>1, InsertObjectsKeeps
  <2>2. ASSUME NEW id \in Ids, NEW patch \in Datas, UpdateObject(id, patch)
        PROVE  ShardsTypeOK' /\ ShardsInv'
    BY <2>2, UpdateObjectKeeps
  <2>3. ASSUME NEW id \in Ids, DeleteObject(id)
        PROVE  ShardsTypeOK' /\ ShardsInv'
    BY <2>3, DeleteObjectKeeps
  <2> QED BY <1>1, <2>1, <2>2, <2>3 DEF ObjectCalls
<1>2. CASE EdgeCalls
  BY <1>2, InsertEdgeKeeps DEF EdgeCalls
<1>3. CASE IndexCalls
  BY <1>3, InsertIndexEntryKeeps, DeleteIndexEntryKeeps DEF IndexCalls
<1>4. CASE \E shard \in {"mem", "db"}, first \in Firsts : StartPaging(shard, first)
  BY <1>4, StartPagingKeeps
<1>5. CASE NextPage
  BY <1>5, NextPageKeeps
<1>6. CASE UNCHANGED vars
  <2>1. mem' = mem /\ db' = db  /\ pager' = pager /\ used' = used
    BY <1>6 DEF vars
  <2>2. ShardsTypeOK'
    BY <2>1 DEF ShardsTypeOK, IsObjects, Afters
  <2>3. Shapes' /\ SameObjects'
    BY <2>1 DEF ShardsInv, Shapes, SameObjects
  <2>4. SameEdges' /\ SameEntries' /\ Paged'
    BY <2>1, EdgesKept, EntriesKept, PagingKept DEF ShardsInv
  <2> QED BY <2>2, <2>3, <2>4 DEF ShardsInv
<1> QED BY <1>1, <1>2, <1>3, <1>4, <1>5, <1>6 DEF Next

(* Both shards store the same, the lists of the in-memory shard follow the *)
(* rows of the MySQL one, and a client's pages leave out nothing, for any  *)
(* number of objects, edges, index entries and any page sizes.             *)
THEOREM ShardsInvariance == Spec => [](ShardsTypeOK /\ ShardsInv)
<1>1. Init => ShardsTypeOK /\ ShardsInv
  BY ShardsInitially
<1>2. (ShardsTypeOK /\ ShardsInv) /\ [Next]_vars => (ShardsTypeOK /\ ShardsInv)'
  BY ShardsStep
<1> QED BY <1>1, <1>2, PTL DEF Spec

(* The types of what the shards store and a client holds.                  *)
THEOREM ShardsTypeCorrect == Spec => []ShardsTypeOK
BY ShardsInvariance, PTL

(* After the same calls every read of the two shards gives the same, but   *)
(* for `updated`, empty lists of ids, sources without edges and the order  *)
(* of index entries, in which they differ as the property says.            *)
THEOREM SameAnswersCorrect == Spec => []SameAnswers
<1>1. ShardsTypeOK /\ ShardsInv => SameAnswers
  BY StoresAnswerAlike DEF ShardsInv
<1> QED BY <1>1, ShardsInvariance, PTL

(* The pages of either shard have everything once, whatever is inserted    *)
(* and deleted between them.                                               *)
THEOREM PagingCompleteCorrect == Spec => []PagingComplete
<1>1. ASSUME ShardsTypeOK, ShardsInv
      PROVE  PagingComplete
  <2>1. /\ Paged /\ Shapes /\ pager.seen \in Seq(Ids)
        /\ pager.what \in {"none", "objects", "edges"}
    BY <1>1 DEF ShardsInv, Paged, ShardsTypeOK
  <2>2. CASE pager.what = "none"
    BY <2>1, <2>2 DEF Paged, NoPager, PagingComplete, IsInjective
  <2>3. CASE pager.what = "objects"
    <3>1. /\ \A i, j \in DOMAIN pager.seen : i < j => pager.seen[i] < pager.seen[j]
          /\ pager.done => pager.throughout \subseteq Range(pager.seen)
      BY <2>1, <2>3 DEF Paged, PagedObjects
    <3>2. ASSUME NEW i \in DOMAIN pager.seen, NEW j \in DOMAIN pager.seen,
                 pager.seen[i] = pager.seen[j]
          PROVE  i = j
      <4>1. i \in Nat /\ j \in Nat /\ pager.seen[i] \in Ids
        <5> HIDE DEF Ids, NoId
        <5> QED BY <2>1
      <4>2. pager.seen[i] \in Nat
        BY <4>1
      <4>3. ~(i < j) /\ ~(j < i)
        BY <3>1, <3>2, <4>2
      <4> QED BY <4>1, <4>3
    <3> QED BY <3>1, <3>2 DEF PagingComplete, IsInjective
  <2>4. CASE pager.what = "edges"
    <3>1. /\ DOMAIN pager.seen \subseteq DOMAIN EdgesOf(pager.of)
          /\ \A i \in DOMAIN pager.seen : pager.seen[i] = EdgesOf(pager.of)[i]
          /\ pager.done => pager.throughout \subseteq Range(pager.seen)
      BY <2>1, <2>4 DEF Paged, PagedEdges
    <3>2. \A i, j \in DOMAIN EdgesOf(pager.of) : EdgesOf(pager.of)[i] = EdgesOf(pager.of)[j] => i = j
      BY <1>1, ListDistinct DEF ShardsInv
    <3> QED BY <3>1, <3>2 DEF PagingComplete, IsInjective
  <2> QED BY <2>1, <2>2, <2>3, <2>4
<1> QED BY <1>1, ShardsInvariance, PTL
===============================================================================
