--------------------------- MODULE Cachelab_proofs ---------------------------
(***************************************************************************)
(* Proofs about the two programs of the cache lab: of csim for every       *)
(* number of sets and of lines, every block size, every set of addresses,  *)
(* and traces of every length, where that powers of two are positive and   *)
(* multiply is all that is assumed of them; and of test-trans and the transposes for   *)
(* every size of matrix and every table of functions.                      *)
(***************************************************************************)
EXTENDS Cachelab, NatLemmas, FiniteSetTheorems, SequenceTheorems, SequencesExt

Tags == {tagOf(a) : a \in Addresses} \cup {0}
Blocks == [tag : Tags, valid : BOOLEAN]
ValidIn(pset) == {l \in Lines : pset[l].valid}

(* A set as the searches of updateSet need it, from whose line f on the     *)
(* blocks are valid.                                                       *)
SortedFrom(pset, f) ==
    /\ pset \in [Lines -> Blocks] /\ f \in 0 .. E
    /\ \A l \in Lines : pset[l].valid <=> l >= f
    /\ \A l, j \in Lines : l >= f /\ j >= f /\ pset[l].tag = pset[j].tag => l = j

(* The tags of the set, the last used first. *)
Recent(pset) ==
    LET n == Cardinality(ValidIn(pset)) IN [k \in 1 .. n |-> pset[E - n + k - 1].tag]
-----------------------------------------------------------------------------
LEMMA EPositive == E \in Nat /\ E >= 1 /\ Lines = 0 .. E - 1
BY CacheAssumption DEF Lines

LEMMA CountValid ==
  ASSUME NEW pset, NEW f, SortedFrom(pset, f)
  PROVE  Cardinality(ValidIn(pset)) = E - f
<1>1. ValidIn(pset) = f .. E - 1
  BY EPositive DEF ValidIn, SortedFrom
<1> QED
  BY <1>1, EPositive, FS_Interval DEF SortedFrom

LEMMA RecentOf ==
  ASSUME NEW pset, NEW f, SortedFrom(pset, f)
  PROVE  /\ Recent(pset) = [k \in 1 .. E - f |-> pset[f + k - 1].tag]
         /\ Recent(pset) \in Seq(Tags) /\ Len(Recent(pset)) = E - f
         /\ \A k \in 1 .. E - f : Recent(pset)[k] = pset[f + k - 1].tag
<1>1. f \in Nat /\ f <= E
  BY EPositive DEF SortedFrom
<1>2. Recent(pset) = [k \in 1 .. E - f |-> pset[f + k - 1].tag]
  <2>1. E - (E - f) = f
    BY <1>1, EPositive
  <2> QED
    BY <2>1, CountValid DEF Recent
<1>3. \A k \in 1 .. E - f : pset[f + k - 1].tag \in Tags
  <2> TAKE k \in 1 .. E - f
  <2>1. f + k - 1 \in Lines
    BY <1>1, EPositive
  <2> QED
    BY <2>1 DEF SortedFrom, Blocks
<1>4. E - f \in Nat
  BY <1>1, EPositive
<1> QED
  BY <1>2, <1>3, <1>4

(* A set whose valid blocks are the last ones has a first valid block. *)
LEMMA HasFirst ==
  ASSUME NEW pset \in [Lines -> Blocks],
         \A l \in ValidIn(pset) : l .. E - 1 \subseteq ValidIn(pset)
  PROVE  \E f \in 0 .. E : \A l \in Lines : pset[l].valid <=> l >= f
<1>1. CASE ValidIn(pset) = {}
  BY <1>1, EPositive DEF ValidIn
<1>2. CASE ValidIn(pset) # {}
  <2>1. ValidIn(pset) \subseteq Nat
    BY EPositive DEF ValidIn
  <2>2. PICK f \in ValidIn(pset) : \A l \in ValidIn(pset) : f <= l
    BY <1>2, <2>1, LeastNat
  <2>3. f \in 0 .. E /\ f .. E - 1 \subseteq ValidIn(pset)
    BY <2>2, EPositive DEF ValidIn
  <2>4. \A l \in Lines : l \in ValidIn(pset) <=> l >= f
    <3>1. \A l \in Lines : l >= f => l \in f .. E - 1
      BY <2>3, EPositive
    <3> QED
      BY <2>2, <2>3, <3>1
  <2> QED
    BY <2>3, <2>4 DEF ValidIn
<1> QED
  BY <1>1, <1>2
-----------------------------------------------------------------------------
(* getBlock finds the block with the tag, if there is one. *)
LEMMA getBlockFinds ==
  ASSUME NEW pset, NEW f, SortedFrom(pset, f), NEW l \in Lines, l >= f
  PROVE  getBlock(pset, pset[l].tag) = l
<1> DEFINE Matches == {k \in Lines : /\ pset[k].tag = pset[l].tag
                                     /\ \A j \in k .. E - 1 : pset[j].valid}
<1>1. Matches = {l}
  BY EPositive DEF SortedFrom
<1>2. Max(Matches) = l
  <2>1. {l} \subseteq Nat /\ E \in Nat /\ \A y \in {l} : y <= E
    BY EPositive
  <2> QED
    BY <1>1, <2>1, MaxNat
<1> QED
  BY <1>1, <1>2 DEF getBlock

LEMMA getBlockMisses ==
  ASSUME NEW pset, NEW f, SortedFrom(pset, f), NEW tag,
         \A l \in Lines : l >= f => pset[l].tag # tag
  PROVE  getBlock(pset, tag) = -1
BY EPositive DEF getBlock, SortedFrom

(* sortSet moves the block at index up to top, and the blocks between them *)
(* down by one.                                                            *)
LEMMA sortSetMoves ==
  ASSUME NEW pset, NEW index \in Lines, NEW top \in 0 .. index,
         \A j \in top .. index - 1 : pset[j].valid,
         top > 0 => ~pset[top - 1].valid
  PROVE  sortSet(pset, index) =
             [l \in Lines |-> IF l = top THEN pset[index]
                              ELSE IF l \in top .. index THEN pset[l - 1] ELSE pset[l]]
<1> DEFINE Tops == {k \in 0 .. index : \A j \in k .. index - 1 : pset[j].valid}
<1>1. top \in Tops /\ Tops \subseteq Nat
  BY EPositive
<1>2. \A k \in Tops : top <= k
  <2> SUFFICES ASSUME NEW k \in Tops, k < top PROVE FALSE
    BY EPositive
  <2>1. top - 1 \in k .. index - 1
    BY EPositive
  <2> QED
    BY <2>1
<1>3. Min(Tops) = top
  <2>1. Min(Tops) \in Tops /\ \A k \in Tops : Min(Tops) <= k
    BY <1>1, MinNat
  <2> QED
    BY <1>1, <1>2, <2>1
<1> QED
  BY <1>3 DEF sortSet
-----------------------------------------------------------------------------
(* RemoveAt of the sequence library closes the gap. *)
LEMMA RemoveAtProperties ==
  ASSUME NEW S, NEW q \in Seq(S), NEW at \in 1 .. Len(q)
  PROVE  /\ RemoveAt(q, at) \in Seq(S) /\ Len(RemoveAt(q, at)) = Len(q) - 1
         /\ \A k \in 1 .. Len(q) - 1 :
               RemoveAt(q, at)[k] = IF k < at THEN q[k] ELSE q[k + 1]
<1> DEFINE left == SubSeq(q, 1, at - 1)
           right == SubSeq(q, at + 1, Len(q))
<1>1. Len(q) \in Nat /\ at \in Nat /\ \A k \in 1 .. Len(q) : q[k] \in S
  OBVIOUS
<1>2. /\ left \in Seq(S) /\ Len(left) = at - 1 /\ \A k \in 1 .. at - 1 : left[k] = q[k]
  OBVIOUS
<1>3. /\ right \in Seq(S) /\ Len(right) = Len(q) - at
      /\ \A k \in 1 .. Len(q) - at : right[k] = q[at + k]
  <2>1. /\ right \in Seq(S)
        /\ Len(right) = IF at + 1 <= Len(q) THEN Len(q) - (at + 1) + 1 ELSE 0
        /\ \A k \in 1 .. Len(q) - (at + 1) + 1 : right[k] = q[(at + 1) + k - 1]
    <3>1. at + 1 \in Int /\ Len(q) \in Int /\ \A k \in at + 1 .. Len(q) : q[k] \in S
      BY <1>1
    <3> QED
      BY <3>1, SubSeqProperties
  <2> QED
    BY <1>1, <2>1
<1>4. RemoveAt(q, at) = left \o right
  BY DEF RemoveAt
<1> HIDE DEF left, right
<1>5. /\ left \o right \in Seq(S) /\ Len(left \o right) = Len(left) + Len(right)
      /\ \A k \in 1 .. Len(left) + Len(right) :
            (left \o right)[k] = IF k <= Len(left) THEN left[k] ELSE right[k - Len(left)]
  BY <1>2, <1>3, ConcatProperties
<1>6. Len(left) + Len(right) = Len(q) - 1
  BY <1>1, <1>2, <1>3
<1>7. ASSUME NEW k \in 1 .. Len(q) - 1
      PROVE  (left \o right)[k] = IF k < at THEN q[k] ELSE q[k + 1]
  <2>1. k \in Nat /\ k \in 1 .. Len(left) + Len(right)
    BY <1>6
  <2>2. CASE k < at
    <3>1. k <= Len(left) /\ k \in 1 .. at - 1
      BY <1>1, <1>2, <2>1, <2>2
    <3> QED
      BY <2>1, <2>2, <3>1, <1>2, <1>5
  <2>3. CASE ~(k < at)
    <3>1. ~(k <= Len(left)) /\ k - Len(left) \in 1 .. Len(q) - at /\ at + (k - Len(left)) = k + 1
      BY <1>1, <1>2, <2>1, <2>3
    <3> QED
      BY <2>1, <2>3, <3>1, <1>3, <1>5
  <2> QED
    BY <2>2, <2>3
<1> QED
  BY <1>4, <1>5, <1>6, <1>7
-----------------------------------------------------------------------------
(* A hit moves its block to the front of the valid ones. *)
LEMMA HitSorts ==
  ASSUME NEW pset, NEW f, SortedFrom(pset, f), NEW index \in Lines, index >= f
  PROVE  LET new == sortSet(pset, index)
         IN  /\ SortedFrom(new, f) /\ new[f].tag = pset[index].tag
             /\ Recent(new) = <<Recent(pset)[index - f + 1]>> \o RemoveAt(Recent(pset), index - f + 1)
<1> DEFINE new == sortSet(pset, index)
           at == index - f + 1
           old == Recent(pset)
<1>0. f \in Nat /\ f <= index /\ index < E /\ f \in Lines
  BY EPositive DEF SortedFrom
<1>1. new = [l \in Lines |-> IF l = f THEN pset[index]
                             ELSE IF l \in f .. index THEN pset[l - 1] ELSE pset[l]]
  <2>1. \A j \in f .. index - 1 : pset[j].valid
    BY <1>0, EPositive DEF SortedFrom
  <2>2. f > 0 => ~pset[f - 1].valid
    BY <1>0, EPositive DEF SortedFrom
  <2> QED
    BY <1>0, <2>1, <2>2, sortSetMoves
<1>2. SortedFrom(new, f)
  <2>1. new \in [Lines -> Blocks]
    BY <1>0, <1>1, EPositive DEF SortedFrom
  <2>2. \A l \in Lines : new[l].valid <=> l >= f
    BY <1>0, <1>1, EPositive DEF SortedFrom
  <2>3. ASSUME NEW l \in Lines, NEW j \in Lines, l >= f, j >= f, new[l].tag = new[j].tag
        PROVE  l = j
    <3> DEFINE From(k) == IF k = f THEN index ELSE IF k \in f .. index THEN k - 1 ELSE k
    <3>1. \A k \in Lines : k >= f => From(k) \in Lines /\ From(k) >= f /\ new[k] = pset[From(k)]
      BY <1>0, <1>1, EPositive
    <3>2. From(l) = From(j)
      <4> HIDE DEF From, new
      <4> QED
        BY <2>3, <3>1 DEF SortedFrom
    <3> QED
      BY <1>0, <2>3, <3>2, EPositive
  <2> QED
    BY <2>1, <2>2, <2>3 DEF SortedFrom
<1>3. new[f].tag = pset[index].tag
  BY <1>0, <1>1
<1>4. Recent(new) = <<old[at]>> \o RemoveAt(old, at)
  <2>1. /\ old \in Seq(Tags) /\ Len(old) = E - f
        /\ \A k \in 1 .. E - f : old[k] = pset[f + k - 1].tag
    BY RecentOf
  <2>2. /\ Recent(new) \in Seq(Tags) /\ Len(Recent(new)) = E - f
        /\ \A k \in 1 .. E - f : Recent(new)[k] = new[f + k - 1].tag
    BY <1>2, RecentOf
  <2>3. at \in 1 .. E - f
    BY <1>0, EPositive
  <2> HIDE DEF new, at, old
  <2> DEFINE rest == RemoveAt(old, at)
  <2>4. /\ rest \in Seq(Tags) /\ Len(rest) = E - f - 1
        /\ \A k \in 1 .. E - f - 1 : rest[k] = IF k < at THEN old[k] ELSE old[k + 1]
    <3>1. old \in Seq(Tags) /\ at \in 1 .. Len(old)
      BY <2>1, <2>3
    <3>2. /\ rest \in Seq(Tags) /\ Len(rest) = Len(old) - 1
          /\ \A k \in 1 .. Len(old) - 1 : rest[k] = IF k < at THEN old[k] ELSE old[k + 1]
      BY <3>1, RemoveAtProperties
    <3> QED
      BY <2>1, <3>2
  <2>5. /\ <<old[at]>> \o rest \in Seq(Tags) /\ Len(<<old[at]>> \o rest) = E - f
        /\ \A k \in 1 .. E - f :
              (<<old[at]>> \o rest)[k] = IF k = 1 THEN old[at] ELSE rest[k - 1]
    <3> HIDE DEF rest
    <3>1. old[at] \in Tags /\ E - f \in Nat
      BY <2>1, <2>3, <1>0, EPositive
    <3> QED
      BY <2>4, <3>1
  <2>6. ASSUME NEW k \in 1 .. E - f PROVE Recent(new)[k] = (<<old[at]>> \o rest)[k]
    <3> HIDE DEF rest
    <3>1. k \in Nat /\ at \in Nat /\ f + k - 1 \in Lines /\ Recent(new)[k] = new[f + k - 1].tag
      BY <1>0, <2>2, <2>3, EPositive
    <3>2. pset[index].tag = old[at]
      <4>1. f + at - 1 = index
        BY <1>0, EPositive DEF at
      <4> QED
        BY <4>1, <2>1, <2>3
    <3>3. CASE k = 1
      <4>1. f + k - 1 = f
        BY <3>3, <1>0
      <4> QED
        BY <3>1, <3>2, <3>3, <4>1, <1>3, <2>5 DEF new
    <3>4. CASE k # 1 /\ k <= at
      <4>1. /\ f + k - 1 # f /\ f + k - 1 \in f .. index /\ f + k - 1 - 1 = f + (k - 1) - 1
            /\ k - 1 \in 1 .. E - f - 1 /\ k - 1 \in 1 .. E - f /\ k - 1 < at
        BY <3>4, <1>0, <2>3, EPositive DEF at
      <4>2. \A l \in Lines : l # f /\ l \in f .. index => new[l] = pset[l - 1]
        BY <1>1
      <4>3. new[f + k - 1] = pset[f + k - 1 - 1]
        BY <4>1, <4>2, <3>1, <1>0
      <4> QED
        BY <3>1, <3>4, <4>1, <4>3, <2>1, <2>4, <2>5
    <3>5. CASE k > at
      <4>1. /\ f + k - 1 # f /\ ~(f + k - 1 \in f .. index) /\ k # 1 /\ (k - 1) + 1 = k
            /\ k - 1 \in 1 .. E - f - 1 /\ ~(k - 1 < at)
        BY <3>5, <1>0, <2>3, EPositive DEF at
      <4>2. new[f + k - 1].tag = pset[f + k - 1].tag
        BY <4>1, <3>1, <1>1 DEF new
      <4> QED
        BY <3>1, <4>1, <4>2, <2>1, <2>4, <2>5
    <3>6. k <= at \/ k > at
      BY <3>1
    <3> QED
      BY <3>3, <3>4, <3>5, <3>6
  <2> QED
    BY <2>2, <2>5, <2>6, SeqEqual
<1> QED
  BY <1>2, <1>3, <1>4
-----------------------------------------------------------------------------
NewBlock(tag) == [tag |-> tag, valid |-> TRUE]

(* A miss in a set with room fills the last block that is not valid. *)
LEMMA MissFills ==
  ASSUME NEW pset, NEW f, SortedFrom(pset, f), f > 0, NEW tag \in Tags,
         \A l \in Lines : l >= f => pset[l].tag # tag
  PROVE  LET new == missBlock(pset, tag)
         IN  /\ SortedFrom(new, f - 1) /\ new[f - 1].tag = tag
             /\ Recent(new) = <<tag>> \o Recent(pset)
<1> DEFINE filled == [pset EXCEPT ![f - 1] = NewBlock(tag)]
           new == missBlock(pset, tag)
<1>0. f \in Nat /\ f - 1 \in Lines /\ f <= E
  BY EPositive DEF SortedFrom
<1>1. ~Full(pset)
  BY <1>0, EPositive DEF Full, SortedFrom
<1>2. Max({l \in Lines : ~pset[l].valid}) = f - 1
  <2> DEFINE S == {l \in Lines : ~pset[l].valid}
  <2>1. f - 1 \in S /\ S \subseteq Nat /\ \A l \in S : l <= f - 1
    BY <1>0, EPositive DEF SortedFrom
  <2>2. Max(S) \in S /\ \A l \in S : Max(S) >= l
    BY <2>1, <1>0, EPositive, MaxNat
  <2> QED
    BY <2>1, <2>2, <1>0
<1>3. /\ filled \in [Lines -> Blocks] /\ filled[f - 1] = NewBlock(tag)
      /\ \A l \in Lines : l # f - 1 => filled[l] = pset[l]
  BY <1>0 DEF SortedFrom, NewBlock, Blocks
<1>4. new = filled
  <2>1. new = sortSet(filled, f - 1)
    BY <1>1, <1>2 DEF missBlock, NewBlock
  <2>2. f - 1 > 0 => ~filled[f - 1 - 1].valid
    BY <1>0, <1>3, EPositive DEF SortedFrom
  <2> HIDE DEF filled
  <2>3. sortSet(filled, f - 1) =
            [l \in Lines |-> IF l = f - 1 THEN filled[f - 1]
                             ELSE IF l \in f - 1 .. f - 1 THEN filled[l - 1] ELSE filled[l]]
    <3>1. f - 1 \in 0 .. f - 1 /\ \A j \in f - 1 .. f - 1 - 1 : filled[j].valid
      BY <1>0, EPositive
    <3> QED
      BY <1>0, <2>2, <3>1, sortSetMoves
  <2>4. \A l \in Lines : l \in f - 1 .. f - 1 <=> l = f - 1
    BY <1>0, EPositive
  <2> QED
    BY <1>3, <2>1, <2>3, <2>4
<1> HIDE DEF filled, new
<1>5. SortedFrom(new, f - 1)
  <2>1. f - 1 \in 0 .. E /\ \A l \in Lines : l >= f - 1 <=> l >= f \/ l = f - 1
    BY <1>0, EPositive
  <2>2. \A l \in Lines : new[l].valid <=> l >= f - 1
    BY <1>0, <1>3, <1>4, <2>1 DEF SortedFrom, NewBlock
  <2>3. \A l, j \in Lines : l >= f - 1 /\ j >= f - 1 /\ new[l].tag = new[j].tag => l = j
    BY <1>0, <1>3, <1>4, <2>1 DEF SortedFrom, NewBlock
  <2> QED
    BY <1>3, <1>4, <2>1, <2>2, <2>3 DEF SortedFrom
<1>6. Recent(new) = <<tag>> \o Recent(pset)
  <2> DEFINE old == Recent(pset)
  <2>1. old \in Seq(Tags) /\ Len(old) = E - f /\ \A k \in 1 .. E - f : old[k] = pset[f + k - 1].tag
    BY RecentOf
  <2>2. /\ Recent(new) \in Seq(Tags) /\ Len(Recent(new)) = E - (f - 1)
        /\ \A k \in 1 .. E - (f - 1) : Recent(new)[k] = new[f - 1 + k - 1].tag
    BY <1>5, RecentOf
  <2> HIDE DEF old
  <2>3. /\ <<tag>> \o old \in Seq(Tags) /\ Len(<<tag>> \o old) = E - f + 1
        /\ \A k \in 1 .. E - f + 1 : (<<tag>> \o old)[k] = IF k = 1 THEN tag ELSE old[k - 1]
    <3>1. E - f \in Nat
      BY <1>0, EPositive
    <3> QED
      BY <2>1, <3>1
  <2>4. ASSUME NEW k \in 1 .. E - f + 1 PROVE Recent(new)[k] = (<<tag>> \o old)[k]
    <3>1. k \in Nat /\ k \in 1 .. E - (f - 1) /\ f - 1 + k - 1 \in Lines
      BY <1>0, EPositive
    <3>2. CASE k = 1
      <4>1. f - 1 + k - 1 = f - 1
        BY <3>2, <1>0
      <4> QED
        BY <3>1, <3>2, <4>1, <1>3, <1>4, <2>2, <2>3 DEF NewBlock
    <3>3. CASE k # 1
      <4>1. f - 1 + k - 1 # f - 1 /\ k - 1 \in 1 .. E - f /\ f + (k - 1) - 1 = f - 1 + k - 1
        BY <3>1, <3>3, <1>0, EPositive
      <4>2. new[f - 1 + k - 1] = pset[f - 1 + k - 1]
        BY <3>1, <4>1, <1>3, <1>4
      <4> QED
        BY <3>1, <3>3, <4>1, <4>2, <2>1, <2>2, <2>3
    <3> QED
      BY <3>2, <3>3
  <2>5. E - (f - 1) = E - f + 1
    BY <1>0, EPositive
  <2> QED
    BY <2>2, <2>3, <2>4, <2>5, SeqEqual DEF old
<1> QED
  BY <1>3, <1>4, <1>5, <1>6 DEF new, NewBlock

(* In a full set it replaces the last one. *)
LEMMA MissReplaces ==
  ASSUME NEW pset, SortedFrom(pset, 0), NEW tag \in Tags,
         \A l \in Lines : pset[l].tag # tag
  PROVE  LET new == missBlock(pset, tag)
         IN  /\ SortedFrom(new, 0) /\ new[0].tag = tag
             /\ Recent(new) = <<tag>> \o Front(Recent(pset))
<1> DEFINE filled == [pset EXCEPT ![E - 1] = NewBlock(tag)]
           new == missBlock(pset, tag)
<1>0. E - 1 \in Lines /\ 0 \in Lines
  BY EPositive
<1>1. Full(pset)
  BY <1>0, EPositive DEF Full, SortedFrom
<1>2. /\ filled \in [Lines -> Blocks] /\ filled[E - 1] = NewBlock(tag)
      /\ \A l \in Lines : l # E - 1 => filled[l] = pset[l]
  BY <1>0 DEF SortedFrom, NewBlock, Blocks
<1>3. new = [l \in Lines |-> IF l = 0 THEN NewBlock(tag) ELSE pset[l - 1]]
  <2>1. new = sortSet(filled, E - 1)
    BY <1>1 DEF missBlock, NewBlock
  <2>2. \A j \in 0 .. E - 1 - 1 : filled[j].valid
    BY <1>0, <1>2, EPositive DEF SortedFrom
  <2> HIDE DEF filled
  <2>3. sortSet(filled, E - 1) =
            [l \in Lines |-> IF l = 0 THEN filled[E - 1]
                             ELSE IF l \in 0 .. E - 1 THEN filled[l - 1] ELSE filled[l]]
    <3>1. 0 \in 0 .. E - 1 /\ ~(0 > 0)
      BY EPositive
    <3> QED
      BY <1>0, <2>2, <3>1, sortSetMoves
  <2>4. \A l \in Lines : l # 0 => l \in 0 .. E - 1 /\ l - 1 \in Lines /\ l - 1 # E - 1
    BY EPositive
  <2> QED
    BY <1>2, <2>1, <2>3, <2>4
<1> HIDE DEF filled, new
<1>4. \A l \in Lines : l # 0 => l - 1 \in Lines /\ new[l] = pset[l - 1]
  BY <1>3, EPositive
<1>5. SortedFrom(new, 0)
  <2>1. new \in [Lines -> Blocks]
    BY <1>3, <1>4 DEF SortedFrom, NewBlock, Blocks
  <2>2. \A l \in Lines : new[l].valid <=> l >= 0
    BY <1>3, <1>4, EPositive DEF SortedFrom, NewBlock
  <2>3. ASSUME NEW l \in Lines, NEW j \in Lines, new[l].tag = new[j].tag PROVE l = j
    <3>1. new[0].tag = tag /\ \A k \in Lines : k # 0 => new[k].tag # tag
      BY <1>0, <1>3, <1>4 DEF NewBlock
    <3>2. CASE l # 0 /\ j # 0
      <4>1. l - 1 \in Lines /\ j - 1 \in Lines /\ pset[l - 1].tag = pset[j - 1].tag
        BY <2>3, <3>2, <1>4
      <4>2. l - 1 = j - 1
        BY <4>1, EPositive DEF SortedFrom
      <4> QED
        BY <4>2, EPositive
    <3> QED
      BY <2>3, <3>1, <3>2
  <2> QED
    BY <2>1, <2>2, <2>3, EPositive DEF SortedFrom
<1>6. Recent(new) = <<tag>> \o Front(Recent(pset))
  <2> DEFINE old == Recent(pset)
             front == Front(old)
  <2>1. old \in Seq(Tags) /\ Len(old) = E /\ \A k \in 1 .. E : old[k] = pset[k - 1].tag
    <3>1. E - 0 = E /\ \A k \in 1 .. E : 0 + k - 1 = k - 1
      BY EPositive
    <3> QED
      BY <3>1, RecentOf
  <2>2. /\ Recent(new) \in Seq(Tags) /\ Len(Recent(new)) = E
        /\ \A k \in 1 .. E : Recent(new)[k] = new[k - 1].tag
    <3>1. E - 0 = E /\ \A k \in 1 .. E : 0 + k - 1 = k - 1
      BY EPositive
    <3> QED
      BY <3>1, <1>5, RecentOf
  <2> HIDE DEF old
  <2>3. front \in Seq(Tags) /\ Len(front) = E - 1 /\ \A k \in 1 .. E - 1 : front[k] = old[k]
    BY <2>1, EPositive DEF Front
  <2> HIDE DEF front
  <2>4. /\ <<tag>> \o front \in Seq(Tags) /\ Len(<<tag>> \o front) = E
        /\ \A k \in 1 .. E : (<<tag>> \o front)[k] = IF k = 1 THEN tag ELSE front[k - 1]
    BY <2>3, EPositive
  <2>5. ASSUME NEW k \in 1 .. E PROVE Recent(new)[k] = (<<tag>> \o front)[k]
    <3>1. CASE k = 1
      <4>1. k - 1 = 0
        BY <3>1
      <4> QED
        BY <3>1, <4>1, <1>0, <1>3, <2>2, <2>4 DEF NewBlock
    <3>2. CASE k # 1
      <4>1. k - 1 \in Lines /\ k - 1 # 0 /\ k - 1 \in 1 .. E - 1 /\ k - 1 \in 1 .. E
        BY <3>2, EPositive
      <4>2. new[k - 1] = pset[k - 1 - 1]
        BY <4>1, <1>4
      <4> QED
        BY <3>2, <4>1, <4>2, <2>1, <2>2, <2>3, <2>4
    <3> QED
      BY <3>1, <3>2
  <2> QED
    BY <2>2, <2>4, <2>5, SeqEqual DEF old, front
<1> QED
  BY <1>0, <1>3, <1>5, <1>6 DEF new, NewBlock
-----------------------------------------------------------------------------
(* updateSet on a sorted set and on counters: n uses of a tag in a row. *)
Counters == [pset : [Lines -> Blocks], hits : Nat, misses : Nat, evictions : Nat]

(* What LRUSets says of n uses of a tag in a set, and that the tag is on   *)
(* top of the set after it.                                                *)
Uses(u, v, tag, n) ==
    /\ v \in Counters
    /\ \E f \in Lines : SortedFrom(v.pset, f) /\ v.pset[f].tag = tag
    /\ \/ /\ \E l \in 1 .. Len(Recent(u.pset)) :
               /\ Recent(u.pset)[l] = tag
               /\ Recent(v.pset) = <<Recent(u.pset)[l]>> \o RemoveAt(Recent(u.pset), l)
          /\ v.hits = u.hits + n /\ v.misses = u.misses /\ v.evictions = u.evictions
       \/ /\ \A l \in 1 .. Len(Recent(u.pset)) : Recent(u.pset)[l] # tag
          /\ v.hits = u.hits + n - 1 /\ v.misses = u.misses + 1
          /\ \/ /\ Len(Recent(u.pset)) < E /\ v.evictions = u.evictions
                /\ Recent(v.pset) = <<tag>> \o Recent(u.pset)
             \/ /\ Len(Recent(u.pset)) = E /\ v.evictions = u.evictions + 1
                /\ Recent(v.pset) = <<tag>> \o Front(Recent(u.pset))

LEMMA updateSetUses ==
  ASSUME NEW u \in Counters, NEW f, SortedFrom(u.pset, f), NEW tag \in Tags
  PROVE  Uses(u, updateSet(u, tag), tag, 1)
<1> DEFINE pset == u.pset
           old == Recent(pset)
           v == updateSet(u, tag)
<1>0. f \in 0 .. E /\ f \in Nat /\ pset \in [Lines -> Blocks]
  BY EPositive DEF SortedFrom
<1>1. old \in Seq(Tags) /\ Len(old) = E - f /\ \A k \in 1 .. E - f : old[k] = pset[f + k - 1].tag
  BY RecentOf
<1>2. CASE \E l \in Lines : l >= f /\ pset[l].tag = tag
  <2>1. PICK index \in Lines : index >= f /\ pset[index].tag = tag
    BY <1>2
  <2>2. getBlock(pset, tag) = index /\ index >= 0 /\ f \in Lines
    BY <2>1, <1>0, getBlockFinds, EPositive
  <2> DEFINE new == sortSet(pset, index)
  <2>3. /\ SortedFrom(new, f) /\ new[f].tag = tag
        /\ Recent(new) = <<old[index - f + 1]>> \o RemoveAt(old, index - f + 1)
    BY <2>1, HitSorts
  <2>4. v = [u EXCEPT !.pset = new, !.hits = u.hits + 1]
    BY <2>2 DEF updateSet
  <2>5. new \in [Lines -> Blocks]
    BY <2>3 DEF SortedFrom
  <2> HIDE DEF new
  <2>6. v \in Counters /\ v.pset = new /\ v.hits = u.hits + 1 /\ v.misses = u.misses
        /\ v.evictions = u.evictions
    <3>1. v = [u EXCEPT !.pset = new, !.hits = u.hits + 1, !.misses = u.misses,
                        !.evictions = u.evictions]
      BY <2>4 DEF Counters
    <3>2. u.hits + 1 \in Nat /\ u.misses \in Nat /\ u.evictions \in Nat
      BY DEF Counters
    <3> HIDE DEF v
    <3>3. v = [pset |-> new, hits |-> u.hits + 1, misses |-> u.misses, evictions |-> u.evictions]
      BY <3>1 DEF Counters
    <3> QED
      BY <3>2, <3>3, <2>5 DEF Counters
  <2>7. index - f + 1 \in 1 .. Len(old) /\ old[index - f + 1] = tag
    <3>1. index - f + 1 \in 1 .. E - f /\ f + (index - f + 1) - 1 = index
      BY <1>0, <2>1, EPositive
    <3> QED
      BY <3>1, <1>1, <2>1
  <2> HIDE DEF v, old
  <2> QED
    BY <2>2, <2>3, <2>6, <2>7 DEF Uses, old, v
<1>3. CASE \A l \in Lines : l >= f => pset[l].tag # tag
  <2>1. getBlock(pset, tag) = -1
    BY <1>3, getBlockMisses
  <2> DEFINE new == missBlock(pset, tag)
  <2>2. v = [u EXCEPT !.pset = new, !.misses = u.misses + 1,
                      !.evictions = IF Full(pset) THEN u.evictions + 1 ELSE u.evictions]
    BY <2>1 DEF updateSet
  <2>3. \A l \in 1 .. Len(old) : old[l] # tag
    <3> TAKE l \in 1 .. Len(old)
    <3>1. l \in 1 .. E - f /\ f + l - 1 \in Lines /\ f + l - 1 >= f
      BY <1>0, <1>1, EPositive
    <3> QED
      BY <3>1, <1>1, <1>3
  <2>4. Full(pset) <=> f = 0
    BY <1>0, EPositive DEF Full, SortedFrom
  <2>5. CASE f > 0
    <3>1. /\ SortedFrom(new, f - 1) /\ new[f - 1].tag = tag /\ Recent(new) = <<tag>> \o old
      BY <1>3, <2>5, MissFills
    <3>2. f - 1 \in Lines /\ Len(old) < E
      BY <1>0, <1>1, <2>5, EPositive
    <3>3. new \in [Lines -> Blocks]
      BY <3>1 DEF SortedFrom
    <3> HIDE DEF new
    <3>4. v \in Counters /\ v.pset = new /\ v.hits = u.hits + 1 - 1 /\ v.misses = u.misses + 1
          /\ v.evictions = u.evictions
      <4>1. v = [u EXCEPT !.pset = new, !.hits = u.hits, !.misses = u.misses + 1,
                          !.evictions = u.evictions]
        <5>1. ~Full(pset)
          BY <2>4, <2>5
        <5>2. v = [u EXCEPT !.pset = new, !.misses = u.misses + 1, !.evictions = u.evictions]
          BY <2>2, <5>1
        <5> QED
          BY <5>2 DEF Counters
      <4>2. u.hits \in Nat /\ u.misses + 1 \in Nat /\ u.evictions \in Nat /\ u.hits + 1 - 1 = u.hits
        BY DEF Counters
      <4> HIDE DEF v
      <4>3. v = [pset |-> new, hits |-> u.hits, misses |-> u.misses + 1, evictions |-> u.evictions]
        BY <4>1 DEF Counters
      <4> QED
        BY <4>2, <4>3, <3>3 DEF Counters
    <3> HIDE DEF v, old
    <3> QED
      BY <2>3, <3>1, <3>2, <3>4 DEF Uses, old, v
  <2>6. CASE f = 0
    <3>1. /\ SortedFrom(new, 0) /\ new[0].tag = tag /\ Recent(new) = <<tag>> \o Front(old)
      <4>1. \A l \in Lines : pset[l].tag # tag
        BY <1>3, <2>6, EPositive
      <4> QED
        BY <4>1, <2>6, MissReplaces
    <3>2. 0 \in Lines /\ Len(old) = E
      BY <1>1, <2>6, EPositive
    <3>3. new \in [Lines -> Blocks]
      BY <3>1 DEF SortedFrom
    <3> HIDE DEF new
    <3>4. v \in Counters /\ v.pset = new /\ v.hits = u.hits + 1 - 1 /\ v.misses = u.misses + 1
          /\ v.evictions = u.evictions + 1
      <4>1. v = [u EXCEPT !.pset = new, !.hits = u.hits, !.misses = u.misses + 1,
                          !.evictions = u.evictions + 1]
        BY <2>2, <2>4, <2>6 DEF Counters
      <4>2. u.hits \in Nat /\ u.misses + 1 \in Nat /\ u.evictions + 1 \in Nat /\ u.hits + 1 - 1 = u.hits
        BY DEF Counters
      <4> HIDE DEF v
      <4>3. v = [pset |-> new, hits |-> u.hits, misses |-> u.misses + 1, evictions |-> u.evictions + 1]
        BY <4>1 DEF Counters
      <4> QED
        BY <4>2, <4>3, <3>3 DEF Counters
    <3> HIDE DEF v, old
    <3> QED
      BY <2>3, <3>1, <3>2, <3>4 DEF Uses, old, v
  <2> QED
    BY <1>0, <2>5, <2>6
<1> QED
  BY <1>2, <1>3

(* The second use of a modify finds the block on top and counts a hit. *)
LEMMA updateSetAgain ==
  ASSUME NEW u \in Counters, NEW v, NEW tag \in Tags, Uses(u, v, tag, 1)
  PROVE  Uses(u, updateSet(v, tag), tag, 2)
<1>1. PICK f \in Lines : SortedFrom(v.pset, f) /\ v.pset[f].tag = tag
  BY DEF Uses
<1>2. v \in Counters
  BY DEF Uses
<1>3. getBlock(v.pset, tag) = f /\ f >= 0
  BY <1>1, getBlockFinds, EPositive
<1>4. sortSet(v.pset, f) = v.pset
  <2>1. f \in 0 .. f /\ (\A j \in f .. f - 1 : v.pset[j].valid) /\ (f > 0 => ~v.pset[f - 1].valid)
    BY <1>1, EPositive DEF SortedFrom
  <2>2. sortSet(v.pset, f) =
            [l \in Lines |-> IF l = f THEN v.pset[f]
                             ELSE IF l \in f .. f THEN v.pset[l - 1] ELSE v.pset[l]]
    BY <2>1, sortSetMoves
  <2>3. \A l \in Lines : l \in f .. f <=> l = f
    BY EPositive
  <2>4. v.pset \in [Lines -> Blocks]
    BY <1>2 DEF Counters
  <2> QED
    BY <2>2, <2>3, <2>4
<1>5. updateSet(v, tag) = [v EXCEPT !.hits = v.hits + 1]
  <2>1. updateSet(v, tag) = [v EXCEPT !.pset = v.pset, !.hits = v.hits + 1]
    BY <1>3, <1>4 DEF updateSet
  <2> QED
    BY <2>1, <1>2 DEF Counters
<1> DEFINE w == updateSet(v, tag)
<1>6. /\ w \in Counters /\ w.pset = v.pset /\ w.hits = v.hits + 1 /\ w.misses = v.misses
      /\ w.evictions = v.evictions
  BY <1>2, <1>5 DEF Counters
<1>7. v.hits + 1 = IF v.hits = u.hits + 1 THEN u.hits + 2 ELSE v.hits + 1
  BY <1>2 DEF Counters
<1>8. u.hits \in Nat /\ v.hits \in Nat
  BY <1>2 DEF Counters
<1> HIDE DEF w
<1>9. v.hits = u.hits + 1 => w.hits = u.hits + 2
  BY <1>6, <1>8
<1>10. v.hits = u.hits + 1 - 1 => w.hits = u.hits + 2 - 1
  BY <1>6, <1>8
<1> QED
  BY <1>1, <1>6, <1>9, <1>10 DEF Uses, w
-----------------------------------------------------------------------------
(* Numbers: quotients, and rows that do not overlap. *)
LEMMA DivMod ==
  ASSUME NEW k \in Nat, NEW w \in Nat \ {0}
  PROVE  /\ k \div w \in Nat /\ k % w \in 0 .. w - 1
         /\ k = (k \div w) * w + (k % w)
OBVIOUS

LEMMA RowsApart ==
  ASSUME NEW a \in Nat, NEW c \in Nat, NEW w \in Nat, a < c
  PROVE  a * w + w <= c * w /\ a * w \in Nat /\ c * w \in Nat
<1>1. PICK d \in Nat : c = a + 1 + d
  <2>1. c - a - 1 \in Nat /\ c = a + 1 + (c - a - 1)
    OBVIOUS
  <2> QED
    BY <2>1
<1>2. d * w >= 0 /\ c * w = a * w + w + d * w
  BY <1>1
<1> QED
  BY <1>2

(* A number has one row and one column. *)
LEMMA OnePlace ==
  ASSUME NEW w \in Nat, NEW a \in Nat, NEW c \in Nat, NEW x \in 0 .. w - 1, NEW y \in 0 .. w - 1,
         a * w + x = c * w + y
  PROVE  a = c /\ x = y
<1>1. a * w \in Nat /\ c * w \in Nat
  OBVIOUS
<1>2. CASE a < c
  BY <1>1, <1>2, RowsApart
<1>3. CASE c < a
  BY <1>1, <1>3, RowsApart
<1>4. CASE a = c
  BY <1>1, <1>4
<1> QED
  BY <1>2, <1>3, <1>4

(* The quotient by a product. *)
LEMMA DivTwice ==
  ASSUME NEW k \in Nat, NEW p \in Nat \ {0}, NEW q \in Nat \ {0}
  PROVE  k \div (p * q) = (k \div p) \div q
<1>1. PICK x \in Nat, r \in 0 .. p - 1 : x = k \div p /\ k = x * p + r
  BY DivMod
<1>2. PICK z \in Nat, t \in 0 .. q - 1 : z = x \div q /\ x = z * q + t
  BY DivMod
<1>3. p * q \in Nat \ {0} /\ p * q = q * p
  OBVIOUS
<1>4. PICK w \in Nat \ {0} : w = p * q
  BY <1>3
<1>5. PICK y \in Nat, m \in 0 .. w - 1 : y = k \div w /\ k = y * w + m
  BY DivMod
<1>6. t * p + p <= w /\ t * p \in Nat
  BY <1>3, <1>4, RowsApart
<1>7. t * p + r \in 0 .. w - 1
  BY <1>6
<1>8. k = z * w + (t * p + r)
  <2>1. (z * q + t) * p = z * (p * q) + t * p
    OBVIOUS
  <2>2. x * p = z * w + t * p
    BY <2>1, <1>2, <1>4
  <2>3. z * w \in Nat /\ x * p \in Nat
    OBVIOUS
  <2> QED
    BY <2>2, <2>3, <1>1, <1>6
<1>9. y = z
  BY <1>5, <1>7, <1>8, OnePlace
<1> QED
  BY <1>1, <1>2, <1>4, <1>5, <1>9

(* A set and a tag stand for one block of memory. *)
BlockIn(iset, tag) == tag * SetNum + iset
AsBlocks(q, iset) == [k \in 1 .. Len(q) |-> BlockIn(iset, q[k])]
Isets == 0 .. SetNum - 1

(* What is assumed of powers. *)
LEMMA Powers == 2 ^ b \in Nat \ {0} /\ SetNum \in Nat \ {0} /\ 2 ^ (b + s) = 2 ^ b * SetNum
BY PowersAssumption DEF SetNum

(* main's shifts and masks find the set of an address's block, and a tag    *)
(* by which the set knows it.                                              *)
LEMMA AddressIs ==
  ASSUME NEW addr \in Nat
  PROVE  /\ isetOf(addr) \in Isets /\ isetOf(addr) = LRU!setOf(addr) /\ tagOf(addr) \in Nat
         /\ BlockIn(isetOf(addr), tagOf(addr)) = LRU!blockOf(addr)
<1>1. PICK p \in Nat \ {0}, q \in Nat \ {0} : p = 2 ^ b /\ q = SetNum /\ 2 ^ (b + s) = p * q
  BY Powers
<1>2. PICK x \in Nat : x = addr \div p
  BY DivMod
<1>3. isetOf(addr) = x % q /\ tagOf(addr) = x \div q
  BY <1>1, <1>2, DivTwice DEF isetOf, tagOf
<1>4. x % q \in 0 .. q - 1 /\ x \div q \in Nat /\ x = (x \div q) * q + (x % q)
  BY DivMod
<1> QED
  BY <1>1, <1>2, <1>3, <1>4 DEF Isets, BlockIn, LRU!setOf, LRU!blockOf

LEMMA TagsAre == Tags \subseteq Nat
BY AddressIs, CacheAssumption DEF Tags

(* The tags of one set stand for different blocks. *)
LEMMA BlocksDiffer ==
  ASSUME NEW iset \in Isets, NEW t \in Tags, NEW u \in Tags, BlockIn(iset, t) = BlockIn(iset, u)
  PROVE  t = u
BY TagsAre, Powers, OnePlace DEF BlockIn, Isets

(* What AsBlocks makes of a sequence. *)
LEMMA AsBlocksIs ==
  ASSUME NEW iset \in Isets, NEW q \in Seq(Tags)
  PROVE  /\ AsBlocks(q, iset) \in Seq(Nat) /\ Len(AsBlocks(q, iset)) = Len(q)
         /\ \A k \in 1 .. Len(q) : AsBlocks(q, iset)[k] = BlockIn(iset, q[k])
<1>1. ASSUME NEW k \in 1 .. Len(q) PROVE BlockIn(iset, q[k]) \in Nat
  <2>1. q[k] \in Tags
    OBVIOUS
  <2>2. PICK t \in Nat : t = q[k]
    BY <2>1, TagsAre
  <2>3. PICK n \in Nat : n = SetNum /\ iset \in Nat
    BY Powers DEF Isets
  <2>4. t * n + iset \in Nat
    BY <2>3
  <2> QED
    BY <2>2, <2>3, <2>4 DEF BlockIn
<1>2. Len(q) \in Nat
  OBVIOUS
<1> QED
  BY <1>1, <1>2 DEF AsBlocks

(* A block comes in front of others. *)
LEMMA AsBlocksPushed ==
  ASSUME NEW iset \in Isets, NEW q \in Seq(Tags), NEW t \in Tags
  PROVE  AsBlocks(<<t>> \o q, iset) = <<BlockIn(iset, t)>> \o AsBlocks(q, iset)
<1> DEFINE g == <<t>> \o q
           h == <<BlockIn(iset, t)>> \o AsBlocks(q, iset)
<1>1. /\ AsBlocks(q, iset) \in Seq(Nat) /\ Len(AsBlocks(q, iset)) = Len(q) /\ Len(q) \in Nat
      /\ \A k \in 1 .. Len(q) : AsBlocks(q, iset)[k] = BlockIn(iset, q[k])
  BY AsBlocksIs
<1>2. BlockIn(iset, t) \in Nat
  BY TagsAre, Powers DEF BlockIn, Isets
<1>3. /\ g \in Seq(Tags) /\ Len(g) = Len(q) + 1 /\ g[1] = t
      /\ \A k \in 2 .. Len(q) + 1 : g[k] = q[k - 1]
  <2>1. <<t>> \in Seq(Tags) /\ Len(<<t>>) = 1
    OBVIOUS
  <2> QED
    BY <2>1, <1>1, ConcatProperties
<1>4. /\ h \in Seq(Nat) /\ Len(h) = Len(q) + 1 /\ h[1] = BlockIn(iset, t)
      /\ \A k \in 2 .. Len(q) + 1 : h[k] = AsBlocks(q, iset)[k - 1]
  <2>1. <<BlockIn(iset, t)>> \in Seq(Nat) /\ Len(<<BlockIn(iset, t)>>) = 1
    BY <1>2
  <2> QED
    BY <2>1, <1>1, ConcatProperties
<1> HIDE DEF g, h
<1>5. /\ AsBlocks(g, iset) \in Seq(Nat) /\ Len(AsBlocks(g, iset)) = Len(g)
      /\ \A k \in 1 .. Len(g) : AsBlocks(g, iset)[k] = BlockIn(iset, g[k])
  BY <1>3, AsBlocksIs
<1>6. ASSUME NEW k \in 1 .. Len(q) + 1 PROVE AsBlocks(g, iset)[k] = h[k]
  <2>1. CASE k = 1
    BY <2>1, <1>3, <1>4, <1>5
  <2>2. CASE k # 1
    <3>1. k \in 2 .. Len(q) + 1 /\ k - 1 \in 1 .. Len(q)
      BY <1>1, <2>2
    <3> QED
      BY <3>1, <1>1, <1>3, <1>4, <1>5
  <2> QED
    BY <2>1, <2>2
<1>7. AsBlocks(g, iset) = h
  BY <1>3, <1>4, <1>5, <1>6, SeqEqual
<1> QED
  BY <1>7 DEF g, h

(* A block is taken out, or the last one goes. *)
LEMMA AsBlocksTaken ==
  ASSUME NEW iset \in Isets, NEW q \in Seq(Tags), NEW at \in 1 .. Len(q)
  PROVE  AsBlocks(RemoveAt(q, at), iset) = RemoveAt(AsBlocks(q, iset), at)
<1>1. /\ RemoveAt(q, at) \in Seq(Tags) /\ Len(RemoveAt(q, at)) = Len(q) - 1 /\ Len(q) \in Nat
      /\ \A k \in 1 .. Len(q) - 1 : RemoveAt(q, at)[k] = IF k < at THEN q[k] ELSE q[k + 1]
  <2>1. Len(q) \in Nat
    OBVIOUS
  <2> QED
    BY <2>1, RemoveAtProperties, Zenon
<1>2. /\ AsBlocks(q, iset) \in Seq(Nat) /\ Len(AsBlocks(q, iset)) = Len(q)
      /\ \A k \in 1 .. Len(q) : AsBlocks(q, iset)[k] = BlockIn(iset, q[k])
  BY AsBlocksIs
<1> DEFINE g == AsBlocks(RemoveAt(q, at), iset)
           h == RemoveAt(AsBlocks(q, iset), at)
<1>3. /\ g \in Seq(Nat) /\ Len(g) = Len(q) - 1
      /\ \A k \in 1 .. Len(q) - 1 : g[k] = BlockIn(iset, RemoveAt(q, at)[k])
  BY <1>1, AsBlocksIs
<1>4. /\ h \in Seq(Nat) /\ Len(h) = Len(q) - 1
      /\ \A k \in 1 .. Len(q) - 1 : h[k] = IF k < at THEN AsBlocks(q, iset)[k]
                                           ELSE AsBlocks(q, iset)[k + 1]
  BY <1>2, RemoveAtProperties
<1> HIDE DEF g, h
<1>5. \A k \in 1 .. Len(q) - 1 : g[k] = h[k]
  <2> TAKE k \in 1 .. Len(q) - 1
  <2>1. k \in 1 .. Len(q) /\ k + 1 \in 1 .. Len(q)
    BY <1>1
  <2> QED
    BY <2>1, <1>1, <1>2, <1>3, <1>4
<1>6. g = h
  BY <1>3, <1>4, <1>5, SeqEqual
<1> QED
  BY <1>6 DEF g, h

LEMMA AsBlocksFront ==
  ASSUME NEW iset \in Isets, NEW q \in Seq(Tags), Len(q) >= 1
  PROVE  Front(q) \in Seq(Tags) /\ AsBlocks(Front(q), iset) = Front(AsBlocks(q, iset))
<1>1. /\ Front(q) \in Seq(Tags) /\ Len(Front(q)) = Len(q) - 1 /\ Len(q) \in Nat
      /\ \A k \in 1 .. Len(q) - 1 : Front(q)[k] = q[k]
  <2>1. Len(q) \in Nat /\ Len(q) - 1 \in Nat /\ \A k \in 1 .. Len(q) : q[k] \in Tags
    OBVIOUS
  <2>2. Front(q) = SubSeq(q, 1, Len(q) - 1)
    BY DEF Front
  <2>3. \A k \in 1 .. Len(q) - 1 : q[k] \in Tags
    BY <2>1
  <2>4. /\ SubSeq(q, 1, Len(q) - 1) \in Seq(Tags)
        /\ Len(SubSeq(q, 1, Len(q) - 1)) = IF 1 <= Len(q) - 1 THEN Len(q) - 1 - 1 + 1 ELSE 0
        /\ \A k \in 1 .. Len(q) - 1 - 1 + 1 : SubSeq(q, 1, Len(q) - 1)[k] = q[1 + k - 1]
    BY <2>1, <2>3, SubSeqProperties
  <2>5. \A k \in 1 .. Len(q) - 1 : k \in 1 .. Len(q) - 1 - 1 + 1 /\ 1 + k - 1 = k
    BY <2>1
  <2>6. Len(Front(q)) = Len(q) - 1
    <3>1. Len(Front(q)) = IF 1 <= Len(q) - 1 THEN Len(q) - 1 - 1 + 1 ELSE 0
      BY <2>2, <2>4
    <3>2. PICK n \in Nat : n = Len(q) /\ n - 1 \in Nat
      BY <2>1
    <3>3. (IF 1 <= n - 1 THEN n - 1 - 1 + 1 ELSE 0) = n - 1
      BY <3>2
    <3> QED
      BY <3>1, <3>2, <3>3
  <2>7. \A k \in 1 .. Len(q) - 1 : Front(q)[k] = q[k]
    BY <2>2, <2>4, <2>5
  <2> QED
    BY <2>1, <2>2, <2>4, <2>6, <2>7
<1>2. /\ AsBlocks(q, iset) \in Seq(Nat) /\ Len(AsBlocks(q, iset)) = Len(q)
      /\ \A k \in 1 .. Len(q) : AsBlocks(q, iset)[k] = BlockIn(iset, q[k])
  BY AsBlocksIs
<1> DEFINE g == AsBlocks(Front(q), iset)
           h == Front(AsBlocks(q, iset))
<1>3. /\ g \in Seq(Nat) /\ Len(g) = Len(q) - 1
      /\ \A k \in 1 .. Len(q) - 1 : g[k] = BlockIn(iset, Front(q)[k])
  BY <1>1, AsBlocksIs
<1>4. /\ h \in Seq(Nat) /\ Len(h) = Len(q) - 1
      /\ \A k \in 1 .. Len(q) - 1 : h[k] = AsBlocks(q, iset)[k]
  BY <1>2 DEF Front
<1> HIDE DEF g, h
<1>5. \A k \in 1 .. Len(q) - 1 : g[k] = h[k]
  BY <1>1, <1>2, <1>3, <1>4
<1>6. g = h
  BY <1>3, <1>4, <1>5, SeqEqual
<1> QED
  BY <1>1, <1>6 DEF g, h
-----------------------------------------------------------------------------
IInv ==
    /\ line \in [op : {"", "L", "S", "M"}, addr : Addresses \cup {0}]
    /\ cache \in [Isets -> [Lines -> Blocks]]
    /\ \A iset \in Isets : \E f \in 0 .. E : SortedFrom(cache[iset], f)
    /\ hit_count \in Nat /\ miss_count \in Nat /\ eviction_count \in Nat
    /\ hit_count + miss_count <= MaxUpdates /\ eviction_count <= miss_count

LEMMA IInvImplies == IInv => TypeOK /\ SetsSorted
<1> SUFFICES ASSUME IInv PROVE TypeOK /\ SetsSorted
  OBVIOUS
<1>1. TypeOK
  <2>1. \A n \in {hit_count, miss_count, eviction_count} : n \in 0 .. MaxUpdates
    <3>1. /\ hit_count \in Nat /\ miss_count \in Nat /\ eviction_count \in Nat
          /\ hit_count + miss_count <= MaxUpdates /\ eviction_count <= miss_count
      BY DEF IInv
    <3> QED
      BY <3>1, CacheAssumption
  <2> QED
    BY <2>1 DEF IInv, TypeOK, Isets, Blocks, Tags
<1>2. SetsSorted
  <2> SUFFICES ASSUME NEW iset \in Isets
      PROVE  /\ \A l \in Valid(iset) : l .. E - 1 \subseteq Valid(iset)
             /\ \A l, j \in Valid(iset) : cache[iset][l].tag = cache[iset][j].tag => l = j
    BY DEF SetsSorted, IInv
  <2>1. PICK f \in 0 .. E : SortedFrom(cache[iset], f)
    BY DEF IInv
  <2>2. Valid(iset) = {l \in Lines : l >= f}
    BY <2>1 DEF Valid, SortedFrom
  <2> QED
    BY <2>1, <2>2, EPositive DEF SortedFrom
<1> QED
  BY <1>1, <1>2

(* The blocks of every set, as LRUSets sees them. *)
LEMMA RecentIs ==
  ASSUME NEW c, NEW iset \in Isets, NEW f, SortedFrom(c[iset], f)
  PROVE  LET n == Cardinality({l \in Lines : c[iset][l].valid})
         IN  [k \in 1 .. n |-> c[iset][E - n + k - 1].tag * SetNum + iset]
                = AsBlocks(Recent(c[iset]), iset)
<1> DEFINE n == Cardinality({l \in Lines : c[iset][l].valid})
<1>1. n = Cardinality(ValidIn(c[iset])) /\ n = E - f /\ Len(Recent(c[iset])) = E - f
  BY CountValid, RecentOf DEF ValidIn
<1>2. Recent(c[iset]) = [k \in 1 .. n |-> c[iset][E - n + k - 1].tag]
  BY <1>1 DEF Recent
<1> HIDE DEF n
<1>3. AsBlocks(Recent(c[iset]), iset) = [k \in 1 .. n |-> BlockIn(iset, Recent(c[iset])[k])]
  BY <1>1 DEF AsBlocks
<1>4. \A k \in 1 .. n : Recent(c[iset])[k] = c[iset][E - n + k - 1].tag
  BY <1>2
<1>5. AsBlocks(Recent(c[iset]), iset)
         = [k \in 1 .. n |-> c[iset][E - n + k - 1].tag * SetNum + iset]
  BY <1>3, <1>4 DEF BlockIn
<1> QED
  BY <1>5 DEF n

LEMMA RecentNow ==
  ASSUME IInv
  PROVE  recent = [iset \in Isets |-> AsBlocks(Recent(cache[iset]), iset)]
<1>1. DOMAIN cache = Isets
  BY DEF IInv
<1>2. ASSUME NEW iset \in Isets
      PROVE  recent[iset] = AsBlocks(Recent(cache[iset]), iset)
  BY <1>1, <1>2, RecentIs DEF IInv, recent, Valid
<1> QED
  BY <1>1, <1>2 DEF recent

LEMMA RecentThen ==
  ASSUME IInv'
  PROVE  recent' = [iset \in Isets |-> AsBlocks(Recent(cache'[iset]), iset)]
<1>1. DOMAIN cache' = Isets
  BY DEF IInv
<1>2. ASSUME NEW iset \in Isets
      PROVE  recent'[iset] = AsBlocks(Recent(cache'[iset]), iset)
  BY <1>1, <1>2, RecentIs DEF IInv, recent, Valid
<1> QED
  BY <1>1, <1>2 DEF recent

LEMMA InitEstablishes == Init => IInv /\ LRU!Init
<1> SUFFICES ASSUME Init PROVE IInv /\ LRU!Init
  OBVIOUS
<1>0. /\ cache = [iset \in Isets |-> [l \in Lines |-> NoBlock]]
      /\ hit_count = 0 /\ miss_count = 0 /\ eviction_count = 0
  BY DEF Init, Isets
<1>1. \A iset \in Isets : SortedFrom(cache[iset], E)
  BY <1>0, EPositive DEF SortedFrom, NoBlock, Blocks, Tags
<1>2. IInv
  <2>1. cache \in [Isets -> [Lines -> Blocks]]
    BY <1>0 DEF NoBlock, Blocks, Tags
  <2>2. E \in 0 .. E
    BY EPositive
  <2>3. /\ hit_count \in Nat /\ miss_count \in Nat /\ eviction_count \in Nat
        /\ hit_count + miss_count <= MaxUpdates /\ eviction_count <= miss_count
    BY <1>0, CacheAssumption
  <2>4. line \in [op : {"", "L", "S", "M"}, addr : Addresses \cup {0}]
    BY DEF Init
  <2> QED
    BY <1>1, <2>1, <2>2, <2>3, <2>4 DEF IInv
<1>3. recent = [iset \in Isets |-> <<>>]
  <2>1. \A iset \in Isets : AsBlocks(Recent(cache[iset]), iset) = <<>>
    <3> TAKE iset \in Isets
    <3>1. Recent(cache[iset]) \in Seq(Tags) /\ Len(Recent(cache[iset])) = E - E
      BY <1>1, RecentOf
    <3>2. E - E = 0
      BY EPositive
    <3> QED
      BY <3>1, <3>2 DEF AsBlocks
  <2> QED
    BY <1>2, <2>1, RecentNow
<1> QED
  BY <1>2, <1>3 DEF Init, LRU!Init, Isets

(* The line of an access is a step of LRUSets. *)
LEMMA UsesIsLRU ==
  ASSUME IInv, NEW op \in {"L", "S", "M"}, NEW addr \in Addresses,
         line' = [op |-> op, addr |-> addr], NEW iset, iset = isetOf(addr),
         NEW tag, tag = tagOf(addr), NEW n, n = LRU!Uses(op),
         NEW v, Uses(Now(iset), v, tag, n), Becomes(iset, v), Updates + n <= MaxUpdates
  PROVE  IInv' /\ LRU!Next
<1> DEFINE old == Recent(cache[iset])
           block == BlockIn(iset, tag)
<1>0. /\ iset \in Isets /\ iset = LRU!setOf(addr) /\ tag \in Tags /\ block = LRU!blockOf(addr)
      /\ n \in {1, 2}
  BY AddressIs, CacheAssumption DEF Tags, LRU!Uses
<1>1. /\ v \in Counters /\ cache' = [cache EXCEPT ![iset] = v.pset]
      /\ hit_count' = v.hits /\ miss_count' = v.misses /\ eviction_count' = v.evictions
  BY DEF Uses, Becomes
<1>2. /\ hit_count' \in Nat /\ miss_count' \in Nat /\ eviction_count' \in Nat
      /\ v.pset \in [Lines -> Blocks]
  BY <1>1 DEF Counters
<1>3. /\ Now(iset).pset = cache[iset] /\ Now(iset).hits = hit_count
      /\ Now(iset).misses = miss_count /\ Now(iset).evictions = eviction_count
  BY DEF Now
<1>4. IInv'
  <2>1. cache' \in [Isets -> [Lines -> Blocks]]
    BY <1>1, <1>2 DEF IInv
  <2>2. \A other \in Isets : \E f \in 0 .. E : SortedFrom(cache'[other], f)
    <3>1. \E f \in 0 .. E : SortedFrom(v.pset, f)
      BY EPositive DEF Uses
    <3> QED
      BY <1>1, <3>1 DEF IInv
  <2>3. hit_count' + miss_count' <= MaxUpdates /\ eviction_count' <= miss_count'
    <3>0. \/ /\ v.hits = hit_count + n /\ v.misses = miss_count
             /\ v.evictions = eviction_count
          \/ /\ v.hits = hit_count + n - 1 /\ v.misses = miss_count + 1
             /\ v.evictions \in {eviction_count, eviction_count + 1}
      BY <1>3, Zenon DEF Uses
    <3>1. v.hits + v.misses = hit_count + miss_count + n /\ v.evictions <= v.misses
      <4>1. /\ hit_count \in Nat /\ miss_count \in Nat /\ eviction_count \in Nat
            /\ eviction_count <= miss_count
        BY DEF IInv
      <4> QED
        BY <4>1, <3>0, <1>0
    <3> QED
      BY <1>1, <3>1 DEF Updates
  <2>4. line' \in [op : {"", "L", "S", "M"}, addr : Addresses \cup {0}]
    OBVIOUS
  <2> QED
    BY <1>2, <2>1, <2>2, <2>3, <2>4 DEF IInv
<1>5. /\ recent = [other \in Isets |-> AsBlocks(Recent(cache[other]), other)]
      /\ recent[iset] = AsBlocks(old, iset)
  BY <1>0, RecentNow
<1>6. recent' = [recent EXCEPT ![iset] = AsBlocks(Recent(v.pset), iset)]
  <2>1. recent' = [other \in Isets |-> AsBlocks(Recent(cache'[other]), other)]
    BY <1>4, RecentThen
  <2>2. \A other \in Isets : cache'[other] = IF other = iset THEN v.pset ELSE cache[other]
    BY <1>0, <1>1 DEF IInv
  <2> QED
    BY <1>0, <1>5, <2>1, <2>2
<1>7. old \in Seq(Tags) /\ DOMAIN old = 1 .. Len(old) /\ Len(old) \in Nat
  <2>1. \E f \in 0 .. E : SortedFrom(cache[iset], f)
    BY <1>0 DEF IInv
  <2> QED
    BY <2>1, RecentOf
<1> HIDE DEF old
<1>8. /\ DOMAIN AsBlocks(old, iset) = 1 .. Len(old) /\ Len(AsBlocks(old, iset)) = Len(old)
      /\ \A l \in 1 .. Len(old) : AsBlocks(old, iset)[l] = BlockIn(iset, old[l]) /\ old[l] \in Tags
  BY <1>0, <1>7, AsBlocksIs
<1> HIDE DEF block
<1>9. CASE /\ \E l \in 1 .. Len(old) :
                 old[l] = tag /\ Recent(v.pset) = <<old[l]>> \o RemoveAt(old, l)
           /\ v.hits = hit_count + n /\ v.misses = miss_count /\ v.evictions = eviction_count
  <2>1. PICK l \in 1 .. Len(old) :
               old[l] = tag /\ Recent(v.pset) = <<old[l]>> \o RemoveAt(old, l)
    BY <1>9
  <2>2. RemoveAt(old, l) \in Seq(Tags)
    BY <1>7, RemoveAtProperties
  <2>3. AsBlocks(Recent(v.pset), iset) = <<block>> \o RemoveAt(AsBlocks(old, iset), l)
    <3>1. AsBlocks(<<tag>> \o RemoveAt(old, l), iset)
             = <<block>> \o AsBlocks(RemoveAt(old, l), iset)
      BY <1>0, <2>2, AsBlocksPushed DEF block
    <3>2. AsBlocks(RemoveAt(old, l), iset) = RemoveAt(AsBlocks(old, iset), l)
      BY <1>0, <1>7, AsBlocksTaken
    <3> QED
      BY <2>1, <3>1, <3>2
  <2>4. l \in DOMAIN recent[iset] /\ recent[iset][l] = block
    BY <1>5, <1>8, <2>1 DEF block
  <2>5. recent' = [recent EXCEPT ![iset] = <<block>> \o RemoveAt(recent[iset], l)]
    BY <1>5, <1>6, <2>3
  <2>6. LRU!Hit(iset, block, n)
    BY <1>1, <1>9, <2>4, <2>5 DEF LRU!Hit, LRU!RemoveAt, RemoveAt
  <2>7. LRU!Access(op, addr)
    BY <1>0, <2>6 DEF LRU!Access
  <2> QED
    BY <1>4, <2>7 DEF LRU!Next
<1>10. CASE /\ \A l \in 1 .. Len(old) : old[l] # tag
            /\ v.hits = hit_count + n - 1 /\ v.misses = miss_count + 1
            /\ \/ /\ Len(old) < E /\ v.evictions = eviction_count
                  /\ Recent(v.pset) = <<tag>> \o old
               \/ /\ Len(old) = E /\ v.evictions = eviction_count + 1
                  /\ Recent(v.pset) = <<tag>> \o Front(old)
  <2>1. ~LRU!Holds(iset, block)
    <3>1. \A l \in 1 .. Len(old) : AsBlocks(old, iset)[l] # block
      BY <1>0, <1>8, <1>10, BlocksDiffer DEF block
    <3> QED
      BY <3>1, <1>5, <1>8 DEF LRU!Holds
  <2>2. LRU!Miss(iset, block, n)
    <3>1. CASE Len(old) < E /\ v.evictions = eviction_count /\ Recent(v.pset) = <<tag>> \o old
      <4>1. AsBlocks(Recent(v.pset), iset) = <<block>> \o recent[iset]
        BY <1>0, <1>5, <1>7, <3>1, AsBlocksPushed DEF block
      <4>2. Len(recent[iset]) < E
        BY <1>5, <1>8, <3>1
      <4> QED
        BY <1>1, <1>6, <1>10, <2>1, <3>1, <4>1, <4>2 DEF LRU!Miss
    <3>2. CASE /\ Len(old) = E /\ v.evictions = eviction_count + 1
               /\ Recent(v.pset) = <<tag>> \o Front(old)
      <4>1. Len(old) >= 1
        BY <3>2, EPositive
      <4>2. /\ Front(old) \in Seq(Tags)
            /\ AsBlocks(Front(old), iset) = Front(AsBlocks(old, iset))
        BY <4>1, <1>0, <1>7, AsBlocksFront
      <4>3. AsBlocks(Recent(v.pset), iset) = <<block>> \o Front(recent[iset])
        BY <1>0, <1>5, <3>2, <4>2, AsBlocksPushed DEF block
      <4>4. ~(Len(recent[iset]) < E)
        BY <1>5, <1>8, <3>2, EPositive
      <4> QED
        BY <1>1, <1>6, <1>10, <2>1, <3>2, <4>3, <4>4 DEF LRU!Miss, LRU!Front, Front
    <3> QED
      BY <1>10, <3>1, <3>2
  <2>3. LRU!Access(op, addr)
    BY <1>0, <2>2 DEF LRU!Access
  <2> QED
    BY <1>4, <2>3 DEF LRU!Next
<1> QED
  BY <1>3, <1>9, <1>10 DEF Uses, old

LEMMA NowCounts ==
  ASSUME IInv, NEW addr \in Addresses
  PROVE  /\ isetOf(addr) \in Isets /\ tagOf(addr) \in Tags
         /\ Now(isetOf(addr)) \in Counters
         /\ \E f \in 0 .. E : SortedFrom(Now(isetOf(addr)).pset, f)
<1>1. isetOf(addr) \in Isets
  BY AddressIs, CacheAssumption
<1> QED
  BY <1>1 DEF Tags, Now, Counters, IInv

LEMMA NextIsLRU == IInv /\ [Next]_vars => IInv' /\ [LRU!Next]_LRU!vars
<1> SUFFICES ASSUME IInv, [Next]_vars PROVE IInv' /\ [LRU!Next]_LRU!vars
  OBVIOUS
<1>1. ASSUME NEW addr \in Addresses, NEW op \in {"L", "S"}, LoadOrStore(op, addr)
      PROVE  IInv' /\ LRU!Next
  <2>1. Uses(Now(isetOf(addr)), updateSet(Now(isetOf(addr)), tagOf(addr)), tagOf(addr), 1)
    BY NowCounts, updateSetUses
  <2>2. LRU!Uses(op) = 1 /\ op \in {"L", "S", "M"}
    BY DEF LRU!Uses
  <2> QED
    BY <1>1, <2>1, <2>2, UsesIsLRU DEF LoadOrStore
<1>2. ASSUME NEW addr \in Addresses, Modify(addr) PROVE IInv' /\ LRU!Next
  <2> DEFINE iset == isetOf(addr)
             tag == tagOf(addr)
             loaded == updateSet(Now(iset), tag)
  <2>1. Uses(Now(iset), loaded, tag, 1)
    BY <1>2, NowCounts, updateSetUses
  <2>2. Uses(Now(iset), updateSet(loaded, tag), tag, 2)
    BY <1>2, <2>1, NowCounts, updateSetAgain
  <2>3. LRU!Uses("M") = 2
    BY DEF LRU!Uses
  <2> QED
    BY <1>2, <2>2, <2>3, UsesIsLRU DEF Modify
<1>3. ASSUME UNCHANGED vars PROVE IInv' /\ UNCHANGED LRU!vars
  BY <1>3 DEF vars, IInv, LRU!vars, recent, Valid
<1> QED
  BY <1>1, <1>2, <1>3 DEF Next

-----------------------------------------------------------------------------
(* How many blocks of each set are valid, and the sum of it. *)
Counts(c) == [iset \in Isets |-> Cardinality(ValidIn(c[iset]))]
CountOf(c) == MapThenSumSet(LAMBDA iset : Cardinality(ValidIn(c[iset])), Isets)
CountsInv == miss_count = eviction_count + CountOf(cache)

(* There are finitely many sets. *)
LEMMA IsetsFinite == IsFiniteSet(Isets)
<1>1. SetNum - 1 \in Int
  BY PowersAssumption DEF SetNum
<1> QED
  BY <1>1, FS_Interval DEF Isets

(* The sum follows the recursion of Adds. *)
LEMMA CountUnfolds ==
  ASSUME NEW c, NEW F, Adds(F, Counts(c), Isets)
  PROVE  \E G : Adds(G, Counts(c), Isets) /\ CountOf(c) = G[Isets]
<1> DEFINE count(iset) == Cardinality(ValidIn(c[iset]))
           Rec(G) == G = [s1 \in SUBSET Isets |->
                            IF s1 = {} THEN 0 ELSE count(One(s1)) + G[s1 \ {One(s1)}]]
<1>1. ASSUME NEW G PROVE Adds(G, Counts(c), Isets) <=> Rec(G)
  <2>1. ASSUME NEW s1 \in SUBSET Isets, s1 # {} PROVE Counts(c)[One(s1)] = count(One(s1))
    BY <2>1, OneIsIn DEF Counts
  <2> HIDE DEF count
  <2>2. [s1 \in SUBSET Isets |->
           IF s1 = {} THEN 0 ELSE Counts(c)[One(s1)] + G[s1 \ {One(s1)}]]
          = [s1 \in SUBSET Isets |->
               IF s1 = {} THEN 0 ELSE count(One(s1)) + G[s1 \ {One(s1)}]]
    BY <2>1
  <2> QED
    BY <2>2 DEF Adds
<1>2. Rec(F)
  BY <1>1
<1>3. \E G : Rec(G) /\ CountOf(c) = G[Isets]
  BY <1>2 DEF CountOf, MapThenSumSet, MapThenFoldSet, One
<1> HIDE DEF Rec
<1> QED
  BY <1>1, <1>3

(* The sum over the sets is what the recursion gives. *)
LEMMA CountAdds ==
  ASSUME NEW c
  PROVE  \E G : Adds(G, Counts(c), Isets) /\ CountOf(c) = G[Isets]
BY IsetsFinite, AddsExists, CountUnfolds

(* As many blocks are valid as there are tags. *)
LEMMA CountIsLen ==
  ASSUME NEW pset, NEW f, SortedFrom(pset, f)
  PROVE  /\ Cardinality(ValidIn(pset)) = Len(Recent(pset)) /\ Len(Recent(pset)) \in Nat
         /\ Recent(pset) \in Seq(Tags)
BY CountValid, RecentOf

(* What one use does to the counters and to the number of valid blocks. *)
LEMMA UsesCount ==
  ASSUME NEW u, NEW v, NEW tag \in Tags, NEW n, Uses(u, v, tag, n),
         NEW f, SortedFrom(u.pset, f)
  PROVE  LET old == Cardinality(ValidIn(u.pset))
             new == Cardinality(ValidIn(v.pset))
         IN  \/ new = old /\ v.misses = u.misses /\ v.evictions = u.evictions
             \/ new = old + 1 /\ v.misses = u.misses + 1 /\ v.evictions = u.evictions
             \/ new = old /\ v.misses = u.misses + 1 /\ v.evictions = u.evictions + 1
<1> DEFINE old == Recent(u.pset)
           new == Recent(v.pset)
<1>1. PICK k : SortedFrom(v.pset, k)
  BY DEF Uses
<1>2. /\ Cardinality(ValidIn(u.pset)) = Len(old) /\ Cardinality(ValidIn(v.pset)) = Len(new)
      /\ old \in Seq(Tags) /\ Len(old) \in Nat
  BY <1>1, CountIsLen
<1>3. ASSUME NEW x \in Tags, NEW q \in Seq(Tags) PROVE Len(<<x>> \o q) = Len(q) + 1
  OBVIOUS
<1>4. ASSUME NEW l \in 1 .. Len(old), new = <<old[l]>> \o RemoveAt(old, l)
      PROVE  Len(new) = Len(old)
  <2>1. RemoveAt(old, l) \in Seq(Tags) /\ Len(RemoveAt(old, l)) = Len(old) - 1
    BY <1>2, RemoveAtProperties
  <2>2. old[l] \in Tags
    BY <1>2
  <2>3. Len(new) = Len(RemoveAt(old, l)) + 1
    BY <1>3, <1>4, <2>1, <2>2
  <2> QED
    BY <1>2, <2>1, <2>3
<1>5. ASSUME new = <<tag>> \o old PROVE Len(new) = Len(old) + 1
  BY <1>2, <1>3, <1>5
<1>6. ASSUME new = <<tag>> \o Front(old), Len(old) = E PROVE Len(new) = Len(old)
  <2>1. old # <<>>
    BY <1>2, <1>6, EPositive
  <2>2. Front(old) \in Seq(Tags) /\ Len(Front(old)) = Len(old) - 1
    BY <1>2, <2>1 DEF Front
  <2>3. Len(new) = Len(Front(old)) + 1
    BY <1>3, <1>6, <2>2
  <2> QED
    BY <1>2, <2>2, <2>3
<1> HIDE DEF old, new
<1> QED
  BY <1>2, <1>4, <1>5, <1>6 DEF Uses, old, new

(* n uses of a tag keep what the counters add up to. *)
LEMMA UsesAddUp ==
  ASSUME IInv, IInv', CountsInv, NEW iset \in Isets, NEW tag \in Tags, NEW n,
         NEW v, Uses(Now(iset), v, tag, n), Becomes(iset, v)
  PROVE  CountsInv'
<1>1. /\ cache' = [cache EXCEPT ![iset] = v.pset]
      /\ miss_count' = v.misses /\ eviction_count' = v.evictions
      /\ Now(iset).pset = cache[iset] /\ Now(iset).misses = miss_count
      /\ Now(iset).evictions = eviction_count
  BY DEF Becomes, Now
<1>2. PICK F : Adds(F, Counts(cache), Isets) /\ CountOf(cache) = F[Isets]
  BY CountAdds
<1>3. PICK G : Adds(G, Counts(cache'), Isets) /\ CountOf(cache') = G[Isets]
  BY CountAdds
<1>4. ASSUME NEW o \in Isets PROVE Counts(cache)[o] \in Nat /\ Counts(cache')[o] \in Nat
  <2>1. PICK f : SortedFrom(cache[o], f)
    BY DEF IInv
  <2>2. PICK g : SortedFrom(cache'[o], g)
    BY DEF IInv
  <2>3. Cardinality(ValidIn(cache[o])) \in Nat /\ Cardinality(ValidIn(cache'[o])) \in Nat
    BY <2>1, <2>2, CountIsLen
  <2> QED
    BY <2>3 DEF Counts
<1>5. \A o \in Isets \ {iset} : Counts(cache)[o] = Counts(cache')[o]
  BY <1>1 DEF Counts, IInv
<1> DEFINE old == Counts(cache)[iset]
           new == Counts(cache')[iset]
<1>6. F[Isets] \in Nat /\ G[Isets] \in Nat /\ F[Isets] + new = G[Isets] + old
  BY <1>2, <1>3, <1>4, <1>5, IsetsFinite, SumChanges
<1>7. \/ new = old /\ v.misses = miss_count /\ v.evictions = eviction_count
      \/ new = old + 1 /\ v.misses = miss_count + 1 /\ v.evictions = eviction_count
      \/ new = old /\ v.misses = miss_count + 1 /\ v.evictions = eviction_count + 1
  <2>1. PICK f : SortedFrom(Now(iset).pset, f)
    BY <1>1 DEF IInv
  <2>2. old = Cardinality(ValidIn(Now(iset).pset)) /\ new = Cardinality(ValidIn(v.pset))
    BY <1>1 DEF Counts, IInv
  <2> HIDE DEF old, new
  <2> QED
    BY <1>1, <2>1, <2>2, UsesCount
<1>8. old \in Nat /\ new \in Nat
  BY <1>4
<1> HIDE DEF old, new
<1>9. miss_count \in Nat /\ eviction_count \in Nat /\ miss_count = eviction_count + F[Isets]
  BY <1>2 DEF IInv, CountsInv
<1>10. miss_count' = eviction_count' + G[Isets]
  BY <1>1, <1>6, <1>7, <1>8, <1>9
<1> QED
  BY <1>3, <1>10 DEF CountsInv

(* Every step keeps what the counters add up to. *)
LEMMA CountsStep ==
  ASSUME IInv, CountsInv, [Next]_vars
  PROVE  CountsInv'
<1>0. IInv'
  BY NextIsLRU
<1>1. ASSUME NEW addr \in Addresses, NEW op, LoadOrStore(op, addr) PROVE CountsInv'
  BY <1>0, <1>1, NowCounts, updateSetUses, UsesAddUp DEF LoadOrStore
<1>2. ASSUME NEW addr \in Addresses, Modify(addr) PROVE CountsInv'
  <2> DEFINE iset == isetOf(addr)
             tag == tagOf(addr)
             loaded == updateSet(Now(iset), tag)
  <2>1. Uses(Now(iset), loaded, tag, 1)
    BY NowCounts, updateSetUses
  <2>2. Uses(Now(iset), updateSet(loaded, tag), tag, 2)
    BY <2>1, NowCounts, updateSetAgain
  <2> QED
    BY <1>0, <1>2, <2>2, NowCounts, UsesAddUp DEF Modify
<1>3. ASSUME UNCHANGED vars PROVE CountsInv'
  BY <1>3 DEF vars, CountsInv
<1> QED
  BY <1>1, <1>2, <1>3 DEF Next

(* At the start nothing is counted and nothing is valid. *)
LEMMA CountsInit == Init => CountsInv
<1> SUFFICES ASSUME Init PROVE CountsInv
  OBVIOUS
<1>1. ASSUME NEW iset \in Isets PROVE Counts(cache)[iset] = 0
  <2>1. ValidIn(cache[iset]) = {}
    BY <1>1 DEF Init, Isets, ValidIn, NoBlock
  <2> QED
    BY <2>1, FS_EmptySet DEF Counts
<1>2. PICK G : Adds(G, Counts(cache), Isets) /\ CountOf(cache) = G[Isets]
  BY CountAdds
<1>3. G[Isets] = 0
  BY <1>1, <1>2, IsetsFinite, SumOfZeros
<1>4. miss_count = 0 /\ eviction_count = 0
  BY DEF Init
<1> QED
  BY <1>2, <1>3, <1>4 DEF CountsInv

(* The searches of updateSet find what they look for, and what main prints *)
(* adds up: every block that came in is still there or was evicted         *)
(* (Csim!CsimInv; updateSet, getBlock, missBlock).                         *)
THEOREM CsimIsSound == Spec => []CsimInv
<1>1. Init => IInv /\ CountsInv
  BY InitEstablishes, CountsInit
<1>2. IInv /\ CountsInv /\ [Next]_vars => IInv' /\ CountsInv'
  BY NextIsLRU, CountsStep
<1>3. IInv /\ CountsInv => CsimInv
  <2> SUFFICES ASSUME IInv, CountsInv PROVE CsimInv
    OBVIOUS
  <2>1. DOMAIN cache = Isets
    BY DEF IInv
  <2>2. CountsAddUp
    BY <2>1 DEF CountsInv, CountOf, CountsAddUp, Valid, ValidIn
  <2> QED
    BY <2>2, IInvImplies DEF CsimInv
<1> QED
  BY <1>1, <1>2, <1>3, PTL DEF Spec

(* Whatever the trace and the shape of the cache, the access of a line of   *)
(* the trace hits when the block of its address is held and misses when it *)
(* is not, a modify counts a second hit, and evictions are those of LRU     *)
(* replacement (main, updateSet, sortSet).                                 *)
THEOREM CsimIsLRU == Spec => IsLRU
<1>1. IInv /\ [Next]_vars => IInv' /\ [LRU!Next]_LRU!vars
  BY NextIsLRU
<1> QED
  BY <1>1, InitEstablishes, PTL DEF Spec, IsLRU, LRU!Spec
-----------------------------------------------------------------------------
(* A tile, as one of the functions goes through it. *)
IsTile(t) ==
    /\ t.n0 \in Nat /\ t.n1 \in Nat /\ t.m0 \in Nat /\ t.m1 \in Nat
    /\ t.n0 <= t.n1 /\ t.m0 < t.m1
Width(t) == t.m1 - t.m0
Area(t) == (t.n1 - t.n0) * Width(t)
InTile(t, n, m) == n \in t.n0 .. t.n1 - 1 /\ m \in t.m0 .. t.m1 - 1
PlaceOf(t, n, m) == (n - t.n0) * Width(t) + (m - t.m0)
RowAt(t, k) == t.n0 + (k \div Width(t))
ColumnAt(t, k) == t.m0 + (k % Width(t))

LEMMA TileTypes ==
  ASSUME NEW t, IsTile(t)
  PROVE  Width(t) \in Nat \ {0} /\ t.n1 - t.n0 \in Nat /\ Area(t) \in Nat
<1>1. Width(t) \in Nat \ {0} /\ t.n1 - t.n0 \in Nat
  BY DEF IsTile, Width
<1> QED
  BY <1>1 DEF Area

LEMMA PlaceIs ==
  ASSUME NEW t, IsTile(t), NEW k \in Nat, k < Area(t)
  PROVE  /\ RowAt(t, k) \in Nat /\ ColumnAt(t, k) \in Nat
         /\ InTile(t, RowAt(t, k), ColumnAt(t, k))
         /\ PlaceOf(t, RowAt(t, k), ColumnAt(t, k)) = k
         /\ \A n, m \in Nat : InTile(t, n, m) /\ PlaceOf(t, n, m) = k =>
               n = RowAt(t, k) /\ m = ColumnAt(t, k)
<1> DEFINE w == Width(t)
           q == k \div w
           r == k % w
           h == t.n1 - t.n0
<1>1. w \in Nat \ {0} /\ h \in Nat /\ Area(t) = h * w /\ t.n0 \in Nat /\ t.m0 \in Nat
      /\ t.n1 = t.n0 + h /\ t.m1 = t.m0 + w
  <2>1. w \in Nat \ {0} /\ h \in Nat /\ Area(t) = h * w
    BY TileTypes DEF Area
  <2> QED
    BY <2>1 DEF IsTile, Width
<1> HIDE DEF w, h
<1>2. q \in Nat /\ r \in 0 .. w - 1 /\ k = q * w + r
  BY <1>1, DivMod
<1> HIDE DEF q, r
<1>3. q < h
  <2> SUFFICES ASSUME ~(q < h) PROVE FALSE
    OBVIOUS
  <2>1. h * w <= q * w
    <3>1. CASE q = h
      BY <3>1, <1>1, <1>2
    <3>2. CASE q # h
      BY <3>2, <1>1, <1>2, RowsApart
    <3> QED
      BY <3>1, <3>2
  <2>2. q * w \in Nat /\ h * w \in Nat
    BY <1>1, <1>2
  <2> QED
    BY <2>1, <2>2, <1>1, <1>2
<1>4. RowAt(t, k) = t.n0 + q /\ ColumnAt(t, k) = t.m0 + r
  BY DEF RowAt, ColumnAt, q, r, w
<1>5. InTile(t, t.n0 + q, t.m0 + r)
  BY <1>1, <1>2, <1>3 DEF InTile
<1>6. PlaceOf(t, t.n0 + q, t.m0 + r) = k
  <2>1. (t.n0 + q) - t.n0 = q /\ (t.m0 + r) - t.m0 = r
    BY <1>1, <1>2
  <2> QED
    BY <2>1, <1>2 DEF PlaceOf, w
<1>7. ASSUME NEW n \in Nat, NEW m \in Nat, InTile(t, n, m), PlaceOf(t, n, m) = k
      PROVE  n = t.n0 + q /\ m = t.m0 + r
  <2> DEFINE a == n - t.n0
             x == m - t.m0
  <2>1. a \in Nat /\ x \in 0 .. w - 1 /\ n = t.n0 + a /\ m = t.m0 + x
    BY <1>1, <1>7 DEF InTile
  <2>2. a * w + x = k
    BY <1>7 DEF PlaceOf, w
  <2> HIDE DEF a, x
  <2>3. a = q /\ x = r
    BY <2>1, <2>2, <1>1, <1>2, OnePlace
  <2> QED
    BY <2>1, <2>3
<1>8. t.n0 + q \in Nat /\ t.m0 + r \in Nat
  BY <1>1, <1>2
<1> QED
  BY <1>4, <1>5, <1>6, <1>7, <1>8

LEMMA PlaceInArea ==
  ASSUME NEW t, IsTile(t), NEW n \in Nat, NEW m \in Nat, InTile(t, n, m)
  PROVE  PlaceOf(t, n, m) \in 0 .. Area(t) - 1
<1> DEFINE w == Width(t)
           a == n - t.n0
           x == m - t.m0
           h == t.n1 - t.n0
<1>1. w \in Nat \ {0} /\ h \in Nat /\ Area(t) = h * w
  BY TileTypes DEF Area
<1>2. a \in Nat /\ x \in 0 .. w - 1 /\ a < h
  BY DEF IsTile, InTile, Width
<1>3. PlaceOf(t, n, m) = a * w + x
  BY DEF PlaceOf
<1> HIDE DEF w, a, x, h
<1>4. a * w + w <= h * w /\ a * w \in Nat /\ h * w \in Nat
  BY <1>1, <1>2, RowsApart
<1> QED
  BY <1>1, <1>2, <1>3, <1>4
-----------------------------------------------------------------------------
(* The two inner loops have a run: one element after the other. *)
Machine == [B |-> B, sim |-> sim]
Runs(t, g, n) ==
    g = [k \in 0 .. n |-> IF k = 0 THEN Machine
                          ELSE LET before == g[k - 1]
                               IN  T!CopyElement(before, RowAt(t, k - 1), ColumnAt(t, k - 1))]

LEMMA RunExists ==
  ASSUME NEW t, NEW n \in Nat
  PROVE  \E g : Runs(t, g, n)
<1> DEFINE S == {k \in Nat : \E g : Runs(t, g, k)}
<1>1. 0 \in S
  <2> DEFINE g == [k \in 0 .. 0 |-> Machine]
  <2>1. g = [k \in 0 .. 0 |-> IF k = 0 THEN Machine
                          ELSE LET before == g[k - 1]
                               IN  T!CopyElement(before, RowAt(t, k - 1), ColumnAt(t, k - 1))]
    OBVIOUS
  <2> HIDE DEF g
  <2>2. Runs(t, g, 0)
    BY <2>1 DEF Runs
  <2> QED
    BY <2>2
<1>2. ASSUME NEW k \in 0 .. n - 1, k \in S PROVE k + 1 \in S
  <2>1. PICK g : Runs(t, g, k)
    BY <1>2
  <2> DEFINE h == [j \in 0 .. k + 1 |->
                     IF j <= k THEN g[j] ELSE T!CopyElement(g[k], RowAt(t, k), ColumnAt(t, k))]
             Next1(f, j) == IF j = 0 THEN Machine
                           ELSE LET before == f[j - 1]
                                IN  T!CopyElement(before, RowAt(t, j - 1), ColumnAt(t, j - 1))
  <2>2. ASSUME NEW j \in 0 .. k + 1 PROVE h[j] = Next1(h, j)
    <3>1. CASE j = k + 1
      <4>1. j # 0 /\ j - 1 = k /\ ~(j <= k) /\ h[k] = g[k]
        BY <3>1
      <4>2. h[j] = T!CopyElement(g[k], RowAt(t, k), ColumnAt(t, k))
        BY <4>1
      <4> HIDE DEF h
      <4> QED
        BY <4>1, <4>2
    <3>2. CASE j # k + 1
      <4>1. j \in 0 .. k /\ h[j] = g[j] /\ (j # 0 => h[j - 1] = g[j - 1])
        BY <3>2
      <4>2. g[j] = Next1(g, j)
        <5>1. g = [x \in 0 .. k |-> Next1(g, x)]
          BY <2>1 DEF Runs
        <5> HIDE DEF Next1
        <5> QED
          BY <5>1, <4>1
      <4> HIDE DEF h
      <4> QED
        BY <4>1, <4>2
    <3> QED
      BY <3>1, <3>2
  <2>3. h = [j \in 0 .. k + 1 |-> Next1(h, j)]
    <3> HIDE DEF Next1
    <3> QED
      BY <2>2
  <2>4. Runs(t, h, k + 1)
    <3> HIDE DEF h
    <3> QED
      BY <2>3 DEF Runs
  <2> HIDE DEF h
  <2> QED
    BY <2>4
<1> HIDE DEF S
<1>3. n \in S
  BY <1>1, <1>2, UpTo
<1> QED
  BY <1>3 DEF S

LEMMA CopyTileRuns ==
  ASSUME NEW t, IsTile(t)
  PROVE  \E g : /\ g[0] = Machine /\ T!CopyTile(t) = g[Area(t)]
                /\ \A k \in 0 .. Area(t) - 1 :
                      g[k + 1] = T!CopyElement(g[k], RowAt(t, k), ColumnAt(t, k))
<1> DEFINE g == CHOOSE g : Runs(t, g, Area(t))
<1>1. Area(t) \in Nat
  BY TileTypes
<1>2. Runs(t, g, Area(t))
  BY <1>1, RunExists
<1>3. T!CopyTile(t) = g[Area(t)]
  BY DEF T!CopyTile, Runs, Machine, RowAt, ColumnAt, Width, Area
<1> HIDE DEF g
<1>4. g[0] = Machine
  BY <1>1, <1>2 DEF Runs
<1>5. ASSUME NEW k \in 0 .. Area(t) - 1
      PROVE  g[k + 1] = T!CopyElement(g[k], RowAt(t, k), ColumnAt(t, k))
  <2>1. k + 1 \in 0 .. Area(t) /\ k + 1 # 0 /\ (k + 1) - 1 = k
    BY <1>1
  <2>2. g[k + 1] = T!CopyElement(g[(k + 1) - 1], RowAt(t, (k + 1) - 1), ColumnAt(t, (k + 1) - 1))
    BY <2>1, <1>2 DEF Runs
  <2> QED
    BY <2>1, <2>2
<1> QED
  BY <1>3, <1>4, <1>5
-----------------------------------------------------------------------------
(* Cells of B: n and m have one cell, and it is within the matrix. *)
Sized == M \in Nat \ {0} /\ N \in Nat \ {0}
Pairs == (0 .. N - 1) \X (0 .. M - 1)
Rest == M * N .. M * N + 7

LEMMA CellOf ==
  ASSUME Sized, NEW n \in 0 .. N - 1, NEW m \in 0 .. M - 1
  PROVE  /\ m * N + n \in 0 .. M * N - 1 /\ n * M + m \in 0 .. M * N - 1
         /\ \A n2 \in 0 .. N - 1, m2 \in 0 .. M - 1 : m2 * N + n2 = m * N + n => n2 = n /\ m2 = m
<1>1. M \in Nat /\ N \in Nat /\ n \in Nat /\ m \in Nat /\ n < N /\ m < M
  BY DEF Sized
<1>2. m * N + N <= M * N /\ m * N \in Nat /\ M * N \in Nat
  BY <1>1, RowsApart
<1>3. n * M + M <= N * M /\ n * M \in Nat /\ N * M = M * N
  BY <1>1, RowsApart
<1>4. ASSUME NEW n2 \in 0 .. N - 1, NEW m2 \in 0 .. M - 1, m2 * N + n2 = m * N + n
      PROVE  n2 = n /\ m2 = m
  <2>1. n2 \in Nat /\ m2 \in Nat
    BY <1>1
  <2> QED
    BY <1>1, <1>4, <2>1, OnePlace
<1> QED
  BY <1>1, <1>2, <1>3, <1>4

LEMMA CellHasPair ==
  ASSUME Sized, NEW k \in 0 .. M * N - 1
  PROVE  \E n \in 0 .. N - 1, m \in 0 .. M - 1 :
            m * N + n = k /\ n = k % N /\ m = k \div N
<1>1. k \in Nat /\ N \in Nat \ {0} /\ M \in Nat /\ M * N \in Nat /\ k < M * N
  BY DEF Sized
<1> DEFINE m == k \div N
           n == k % N
<1>2. m \in Nat /\ n \in 0 .. N - 1 /\ m * N + n = k
  BY <1>1, DivMod
<1> HIDE DEF m, n
<1>3. m < M
  <2> SUFFICES ASSUME ~(m < M) PROVE FALSE
    OBVIOUS
  <2>1. M * N <= m * N /\ m * N \in Nat
    <3>1. CASE m = M
      BY <3>1, <1>1
    <3>2. CASE m # M
      BY <3>2, <1>1, <1>2, RowsApart
    <3> QED
      BY <3>1, <3>2
  <2> QED
    BY <2>1, <1>1, <1>2
<1>4. m \in 0 .. M - 1
  BY <1>1, <1>2, <1>3
<1> QED
  BY <1>2, <1>4 DEF m, n
-----------------------------------------------------------------------------
(* An access is a hit or a miss. *)
LEMMA AccessCounts ==
  ASSUME NEW c, c.hits \in Nat, c.misses \in Nat, NEW addr
  PROVE  LET d == T!Access(c, addr)
         IN  d.hits \in Nat /\ d.misses \in Nat /\ d.hits + d.misses = c.hits + c.misses + 1
BY DEF T!Access, T!Sim!updateSet

Held(mem) == {k \in DOMAIN mem : mem[k] # T!Junk}

(* The memory holds the elements of D, and the simulator counted two       *)
(* accesses for each.                                                      *)
Holds(c, D) ==
    /\ c.B \in [0 .. M * N + 7 -> Int]
    /\ \A n \in 0 .. N - 1, m \in 0 .. M - 1 :
          c.B[m * N + n] = IF <<n, m>> \in D THEN n * M + m ELSE T!Junk
    /\ \A k \in Rest : c.B[k] = T!Junk
    /\ c.sim.hits \in Nat /\ c.sim.misses \in Nat
    /\ c.sim.hits + c.sim.misses = 2 * Cardinality(Held(c.B))

LEMMA CopyElementHolds ==
  ASSUME Sized, NEW c, NEW D, Holds(c, D), NEW n \in 0 .. N - 1, NEW m \in 0 .. M - 1,
         <<n, m>> \notin D
  PROVE  Holds(T!CopyElement(c, n, m), D \cup {<<n, m>>})
<1> DEFINE cell == m * N + n
           value == n * M + m
           d == T!CopyElement(c, n, m)
           new == [c.B EXCEPT ![cell] = value]
<1>1. cell \in 0 .. M * N - 1 /\ value \in 0 .. M * N - 1 /\ M * N \in Nat
  <2>1. M * N \in Nat
    BY DEF Sized
  <2> QED
    BY <2>1, CellOf
<1>2. d.B = new
  <2>1. N * M = M * N
    BY DEF Sized
  <2>2. T!InA(value) = value
    BY <1>1, <2>1 DEF T!InA
  <2> QED
    BY <2>2 DEF T!CopyElement
<1>3. /\ d.sim.hits \in Nat /\ d.sim.misses \in Nat
      /\ d.sim.hits + d.sim.misses = c.sim.hits + c.sim.misses + 2
  <2> DEFINE e == T!Access(c.sim, T!AddressA(n * M + m))
             f == T!Access(e, T!AddressB(m * N + n))
  <2>1. e.hits \in Nat /\ e.misses \in Nat /\ e.hits + e.misses = c.sim.hits + c.sim.misses + 1
    BY AccessCounts DEF Holds
  <2>2. d.sim = f
    BY DEF T!CopyElement
  <2> HIDE DEF e
  <2>3. f.hits \in Nat /\ f.misses \in Nat /\ f.hits + f.misses = e.hits + e.misses + 1
    BY <2>1, AccessCounts
  <2>4. c.sim.hits \in Nat /\ c.sim.misses \in Nat
    BY DEF Holds
  <2> HIDE DEF f, d
  <2> QED
    BY <2>1, <2>2, <2>3, <2>4
<1>4. new \in [0 .. M * N + 7 -> Int] /\ new[cell] = value
      /\ \A k \in 0 .. M * N + 7 : k # cell => new[k] = c.B[k]
  BY <1>1 DEF Holds
<1>5. c.B[cell] = T!Junk /\ value # T!Junk
  BY <1>1 DEF Holds, T!Junk
<1> HIDE DEF d, new
<1>6. ASSUME NEW n2 \in 0 .. N - 1, NEW m2 \in 0 .. M - 1
      PROVE  new[m2 * N + n2] = IF <<n2, m2>> \in D \cup {<<n, m>>} THEN n2 * M + m2 ELSE T!Junk
  <2>1. m2 * N + n2 \in 0 .. M * N - 1 /\ (m2 * N + n2 = cell => n2 = n /\ m2 = m)
    BY CellOf
  <2>2. m2 * N + n2 \in 0 .. M * N + 7
    BY <1>1, <2>1
  <2>3. c.B[m2 * N + n2] = IF <<n2, m2>> \in D THEN n2 * M + m2 ELSE T!Junk
    BY DEF Holds
  <2>4. CASE n2 = n /\ m2 = m
    BY <2>4, <1>4
  <2>5. CASE ~(n2 = n /\ m2 = m)
    <3> HIDE DEF cell
    <3> QED
      BY <2>1, <2>2, <2>3, <2>5, <1>4
  <2> QED
    BY <2>4, <2>5
<1>7. ASSUME NEW k \in Rest PROVE new[k] = T!Junk
  <2>1. k \in 0 .. M * N + 7 /\ k # cell
    BY <1>1 DEF Rest
  <2> HIDE DEF cell
  <2> QED
    BY <2>1, <1>4 DEF Holds
<1>8. Cardinality(Held(new)) = Cardinality(Held(c.B)) + 1 /\ Cardinality(Held(c.B)) \in Nat
  <2>1. DOMAIN c.B = 0 .. M * N + 7 /\ DOMAIN new = 0 .. M * N + 7
    BY <1>4 DEF Holds
  <2>2. cell \in 0 .. M * N + 7
    BY <1>1
  <2> HIDE DEF cell, value
  <2>3. Held(new) = Held(c.B) \cup {cell} /\ cell \notin Held(c.B)
    BY <2>1, <2>2, <1>4, <1>5 DEF Held
  <2>4. IsFiniteSet(Held(c.B))
    <3>1. PICK last \in Nat : last = M * N + 7
      BY <1>1
    <3>2. IsFiniteSet(0 .. last)
      BY <3>1, FS_Interval
    <3>3. Held(c.B) \subseteq 0 .. last
      BY <2>1, <3>1 DEF Held
    <3> QED
      BY <3>2, <3>3, FS_Subset
  <2> QED
    BY <2>3, <2>4, FS_AddElement, FS_CardinalityType
<1>9. c.sim.hits + c.sim.misses = 2 * Cardinality(Held(c.B))
      /\ c.sim.hits \in Nat /\ c.sim.misses \in Nat
  BY DEF Holds
<1>10. d.sim.hits + d.sim.misses = 2 * Cardinality(Held(new))
  BY <1>3, <1>8, <1>9
<1> QED
  BY <1>2, <1>3, <1>4, <1>6, <1>7, <1>10 DEF Holds, d
-----------------------------------------------------------------------------
(* The elements of the first k places of a tile, and of the tiles before t. *)
UpToPlace(t, k) == {p \in Pairs : InTile(t, p[1], p[2]) /\ PlaceOf(t, p[1], p[2]) < k}
UpToTile(F, t) == {p \in Pairs : \E u \in 0 .. t - 1 : InTile(F.at[u], p[1], p[2])}

(* The tiles of a function cover the matrix, each element once. *)
IsTiling(F) ==
    /\ F.tiles \in Nat
    /\ \A t \in 0 .. F.tiles - 1 : IsTile(F.at[t]) /\ F.at[t].n1 <= N /\ F.at[t].m1 <= M
    /\ \A n \in 0 .. N - 1, m \in 0 .. M - 1 : \E t \in 0 .. F.tiles - 1 : InTile(F.at[t], n, m)
    /\ \A n \in 0 .. N - 1, m \in 0 .. M - 1, t, u \in 0 .. F.tiles - 1 :
          InTile(F.at[t], n, m) /\ InTile(F.at[u], n, m) => t = u

(* One tile of a tiling. *)
LEMMA CopyTileHolds ==
  ASSUME Sized, NEW F, IsTiling(F), NEW t \in 0 .. F.tiles - 1, Holds(Machine, UpToTile(F, t))
  PROVE  Holds(T!CopyTile(F.at[t]), UpToTile(F, t + 1))
<1>1. PICK a : a = F.at[t]
  OBVIOUS
<1>2. IsTile(a) /\ a.n1 <= N /\ a.m1 <= M /\ t \in Nat
  BY <1>1 DEF IsTiling
<1>3. PICK g : /\ g[0] = Machine /\ T!CopyTile(a) = g[Area(a)]
               /\ \A k \in 0 .. Area(a) - 1 :
                     g[k + 1] = T!CopyElement(g[k], RowAt(a, k), ColumnAt(a, k))
  BY <1>2, CopyTileRuns
<1>4. Area(a) \in Nat
  BY <1>2, TileTypes
<1> DEFINE D(k) == UpToTile(F, t) \cup UpToPlace(a, k)
           S == {k \in Nat : Holds(g[k], D(k))}
<1>5. 0 \in S
  <2>1. UpToPlace(a, 0) = {}
    <3>1. ASSUME NEW p \in Pairs, InTile(a, p[1], p[2]), PlaceOf(a, p[1], p[2]) < 0 PROVE FALSE
      <4>1. p[1] \in Nat /\ p[2] \in Nat
        BY DEF Pairs, Sized
      <4>2. PlaceOf(a, p[1], p[2]) \in 0 .. Area(a) - 1
        BY <3>1, <4>1, <1>2, PlaceInArea
      <4> QED
        BY <3>1, <4>2, <1>4
    <3> QED
      BY <3>1 DEF UpToPlace
  <2>2. D(0) = UpToTile(F, t)
    BY <2>1
  <2> HIDE DEF D
  <2> QED
    BY <2>2, <1>3
<1>6. ASSUME NEW k \in 0 .. Area(a) - 1, k \in S PROVE k + 1 \in S
  <2>1. PICK n, m : n = RowAt(a, k) /\ m = ColumnAt(a, k)
    OBVIOUS
  <2>2. k \in Nat /\ k < Area(a) /\ k + 1 \in Nat
    BY <1>4
  <2>3. /\ n \in Nat /\ m \in Nat /\ InTile(a, n, m) /\ PlaceOf(a, n, m) = k
        /\ \A x, y \in Nat : InTile(a, x, y) /\ PlaceOf(a, x, y) = k => x = n /\ y = m
    BY <2>1, <2>2, <1>2, PlaceIs
  <2>4. n \in 0 .. N - 1 /\ m \in 0 .. M - 1
    BY <2>3, <1>2 DEF InTile, IsTile, Sized
  <2>5. <<n, m>> \notin D(k)
    <3>1. <<n, m>> \notin UpToPlace(a, k)
      BY <2>3, <2>2 DEF UpToPlace
    <3>2. ASSUME NEW u \in 0 .. t - 1, InTile(F.at[u], n, m) PROVE FALSE
      <4>1. u \in 0 .. F.tiles - 1 /\ u # t /\ F.tiles \in Nat
        BY <1>2 DEF IsTiling
      <4> QED
        BY <4>1, <3>2, <2>3, <2>4, <1>1 DEF IsTiling
    <3>3. <<n, m>> \notin UpToTile(F, t)
      BY <3>2 DEF UpToTile
    <3> QED
      BY <3>1, <3>3
  <2>6. D(k) \cup {<<n, m>>} = D(k + 1)
    <3>1. ASSUME NEW p \in Pairs, InTile(a, p[1], p[2])
          PROVE  PlaceOf(a, p[1], p[2]) < k + 1 <=> PlaceOf(a, p[1], p[2]) < k \/ p = <<n, m>>
      <4>1. p[1] \in Nat /\ p[2] \in Nat /\ p = <<p[1], p[2]>>
        BY DEF Pairs, Sized
      <4>2. PlaceOf(a, p[1], p[2]) \in Nat
        BY <3>1, <4>1, <1>2, <1>4, PlaceInArea
      <4>3. PlaceOf(a, p[1], p[2]) = k <=> p = <<n, m>>
        BY <3>1, <4>1, <2>3
      <4> QED
        BY <4>2, <4>3, <2>2
    <3>2. <<n, m>> \in Pairs /\ InTile(a, <<n, m>>[1], <<n, m>>[2])
      BY <2>3, <2>4 DEF Pairs
    <3> QED
      BY <3>1, <3>2 DEF UpToPlace
  <2>7. Holds(g[k], D(k))
    BY <1>6
  <2> HIDE DEF D
  <2>8. Holds(T!CopyElement(g[k], n, m), D(k) \cup {<<n, m>>})
    BY <2>4, <2>5, <2>7, CopyElementHolds
  <2>9. g[k + 1] = T!CopyElement(g[k], n, m)
    BY <2>1, <1>3
  <2> QED
    BY <2>2, <2>6, <2>8, <2>9
<1>7. Area(a) \in S
  <2> HIDE DEF S
  <2> QED
    BY <1>4, <1>5, <1>6, UpTo
<1>8. D(Area(a)) = UpToTile(F, t + 1)
  <2>1. ASSUME NEW p \in Pairs
        PROVE  p \in UpToPlace(a, Area(a)) <=> InTile(a, p[1], p[2])
    <3>1. p[1] \in Nat /\ p[2] \in Nat
      BY DEF Pairs, Sized
    <3>2. InTile(a, p[1], p[2]) => PlaceOf(a, p[1], p[2]) < Area(a)
      BY <3>1, <1>2, <1>4, PlaceInArea
    <3> QED
      BY <3>2 DEF UpToPlace
  <2>2. \A u \in 0 .. t + 1 - 1 : u \in 0 .. t - 1 \/ u = t
    BY <1>2
  <2>3. \A u \in 0 .. t - 1 : u \in 0 .. t + 1 - 1
    BY <1>2
  <2>4. t \in 0 .. t + 1 - 1
    BY <1>2
  <2>5. ASSUME NEW p \in Pairs
        PROVE  (\E u \in 0 .. t + 1 - 1 : InTile(F.at[u], p[1], p[2]))
               <=> (\E u \in 0 .. t - 1 : InTile(F.at[u], p[1], p[2])) \/ InTile(a, p[1], p[2])
    BY <2>2, <2>3, <2>4, <1>1
  <2>6. UpToPlace(a, Area(a)) \subseteq Pairs
    BY DEF UpToPlace
  <2> QED
    BY <2>1, <2>5, <2>6 DEF UpToTile
<1> QED
  BY <1>1, <1>3, <1>7, <1>8

(* After all tiles of a tiling the result is valid. *)
LEMMA TilingIsValid ==
  ASSUME Sized, NEW F, IsTiling(F), NEW c, Holds(c, UpToTile(F, F.tiles))
  PROVE  T!validate(c.B)
<1>1. ASSUME NEW n \in 0 .. N - 1, NEW m \in 0 .. M - 1 PROVE c.B[m * N + n] = n * M + m
  <2>1. <<n, m>> \in UpToTile(F, F.tiles)
    BY DEF IsTiling, UpToTile, Pairs
  <2> QED
    BY <2>1 DEF Holds
<1>2. ASSUME NEW k \in 0 .. M * N - 1 PROVE c.B[k] = (k % N) * M + (k \div N)
  <2>1. PICK n \in 0 .. N - 1, m \in 0 .. M - 1 : m * N + n = k /\ n = k % N /\ m = k \div N
    BY CellHasPair
  <2>2. c.B[m * N + n] = n * M + m
    BY <1>1
  <2> QED
    BY <2>1, <2>2
<1> QED
  BY <1>2 DEF T!validate, T!correctTrans
-----------------------------------------------------------------------------
(* The tiles of each function. *)
LEMMA PlainScanTiles == Sized => IsTiling(T!trans)
<1> SUFFICES ASSUME Sized PROVE IsTiling(T!trans)
  OBVIOUS
<1>1. PICK F : F = T!trans
  OBVIOUS
<1>2. F.tiles = N /\ \A t \in 0 .. N - 1 : F.at[t] = T!Rows(t, t + 1, 0, M)
  BY <1>1 DEF T!trans
<1>3. ASSUME NEW t \in 0 .. N - 1
      PROVE  /\ IsTile(F.at[t]) /\ F.at[t].n1 <= N /\ F.at[t].m1 <= M
             /\ \A n \in 0 .. N - 1, m \in 0 .. M - 1 : InTile(F.at[t], n, m) <=> t = n
  <2>1. /\ F.at[t].n0 = t /\ F.at[t].n1 = t + 1 /\ F.at[t].m0 = 0 /\ F.at[t].m1 = M
    <3>1. F.at[t] = T!Rows(t, t + 1, 0, M)
      BY <1>2
    <3> QED
      BY <3>1 DEF T!Rows
  <2>2. t \in Nat /\ t < N /\ M \in Nat \ {0} /\ N \in Nat
    BY DEF Sized
  <2>3. ASSUME NEW n \in 0 .. N - 1, NEW m \in 0 .. M - 1 PROVE InTile(F.at[t], n, m) <=> t = n
    BY <2>1, <2>2 DEF InTile
  <2> QED
    BY <2>1, <2>2, <2>3 DEF IsTile
<1>4. \A t \in 0 .. F.tiles - 1 : IsTile(F.at[t]) /\ F.at[t].n1 <= N /\ F.at[t].m1 <= M
  BY <1>2, <1>3
<1>5. \A n \in 0 .. N - 1, m \in 0 .. M - 1 : \E t \in 0 .. F.tiles - 1 : InTile(F.at[t], n, m)
  BY <1>2, <1>3
<1>6. \A n \in 0 .. N - 1, m \in 0 .. M - 1, t, u \in 0 .. F.tiles - 1 :
          InTile(F.at[t], n, m) /\ InTile(F.at[u], n, m) => t = u
  BY <1>2, <1>3
<1> QED
  BY <1>1, <1>2, <1>4, <1>5, <1>6 DEF IsTiling, Sized

LEMMA AcrossIs ==
  /\ M = 32 => T!Across(M) = 4
  /\ M = 64 => T!Across(M) = 8
  /\ M = 61 => T!Across(M) = 8
  /\ Sized => T!Across(N) \in Nat
  /\ Sized /\ N % 8 = 0 => N = 8 * T!Across(N)
  /\ Sized /\ N % 8 # 0 => N \div 8 \in Nat /\ N \div 8 < T!Across(N)
BY DEF T!Across, Sized

LEMMA Tiles32 ==
  ASSUME Sized, M = 32, NEW F, F = T!transpose_submit_32
  PROVE  /\ F.tiles = 4 * T!Across(N)
         /\ \A t \in 0 .. F.tiles - 1 :
               /\ F.at[t].n0 = 8 * (t \div 4) /\ F.at[t].n1 = 8 * (t \div 4) + 8
               /\ F.at[t].m0 = 8 * (t % 4) /\ F.at[t].m1 = 8 * (t % 4) + 8
<1>1. T!Across(M) = 4 /\ T!Across(N) \in Nat
  BY AcrossIs
<1>2. T!Blocks8 = 4 * T!Across(N)
  BY <1>1 DEF T!Blocks8
<1>3. F.tiles = 4 * T!Across(N)
  BY <1>2 DEF T!transpose_submit_32
<1>4. \A t \in 0 .. F.tiles - 1 :
        F.at[t] = T!Rows(T!RowOf(t), T!RowOf(t) + 8, T!ColumnOf(t), T!ColumnOf(t) + 8)
  BY <1>2, <1>3 DEF T!transpose_submit_32
<1>5. \A t \in Nat : T!RowOf(t) = 8 * (t \div 4) /\ T!ColumnOf(t) = 8 * (t % 4)
  BY <1>1 DEF T!RowOf, T!ColumnOf
<1>6. F.tiles \in Nat
  BY <1>1, <1>3
<1>7. ASSUME NEW t \in 0 .. F.tiles - 1
      PROVE  /\ F.at[t].n0 = 8 * (t \div 4) /\ F.at[t].n1 = 8 * (t \div 4) + 8
             /\ F.at[t].m0 = 8 * (t % 4) /\ F.at[t].m1 = 8 * (t % 4) + 8
  <2>1. t \in Nat
    BY <1>6
  <2>2. F.at[t] = T!Rows(8 * (t \div 4), 8 * (t \div 4) + 8, 8 * (t % 4), 8 * (t % 4) + 8)
    BY <2>1, <1>4, <1>5
  <2> QED
    BY <2>2 DEF T!Rows
<1> QED
  BY <1>3, <1>7

LEMMA Tiling32 ==
  ASSUME Sized, M = 32, N % 8 = 0
  PROVE  IsTiling(T!transpose_submit_32)
<1>1. PICK F : F = T!transpose_submit_32
  OBVIOUS
<1>2. PICK rows \in Nat : rows = T!Across(N) /\ N = 8 * rows
  BY AcrossIs
<1>3. /\ F.tiles = 4 * rows
      /\ \A t \in 0 .. 4 * rows - 1 :
            /\ F.at[t].n0 = 8 * (t \div 4) /\ F.at[t].n1 = 8 * (t \div 4) + 8
            /\ F.at[t].m0 = 8 * (t % 4) /\ F.at[t].m1 = 8 * (t % 4) + 8
  BY <1>1, <1>2, Tiles32
<1>4. ASSUME NEW t \in 0 .. 4 * rows - 1
      PROVE  IsTile(F.at[t]) /\ F.at[t].n1 <= N /\ F.at[t].m1 <= M
  <2>1. t \div 4 \in 0 .. rows - 1 /\ t % 4 \in 0 .. 3
    OBVIOUS
  <2> QED
    BY <1>2, <1>3, <2>1 DEF IsTile
<1>5. ASSUME NEW n \in 0 .. N - 1, NEW m \in 0 .. M - 1
      PROVE  /\ 4 * (n \div 8) + (m \div 8) \in 0 .. 4 * rows - 1
             /\ \A t \in 0 .. 4 * rows - 1 :
                   InTile(F.at[t], n, m) <=> t = 4 * (n \div 8) + (m \div 8)
  <2>1. n \div 8 \in 0 .. rows - 1 /\ m \div 8 \in 0 .. 3 /\ m \in 0 .. 31 /\ n \in Nat
    BY <1>2 DEF Sized
  <2>2. 4 * (n \div 8) + (m \div 8) \in 0 .. 4 * rows - 1
    BY <2>1
  <2>3. ASSUME NEW t \in 0 .. 4 * rows - 1
        PROVE  InTile(F.at[t], n, m) <=> t = 4 * (n \div 8) + (m \div 8)
    <3>1. InTile(F.at[t], n, m) <=>
             /\ n \in 8 * (t \div 4) .. 8 * (t \div 4) + 8 - 1
             /\ m \in 8 * (t % 4) .. 8 * (t % 4) + 8 - 1
      BY <1>3 DEF InTile
    <3>2. t \in Nat
      OBVIOUS
    <3> QED
      BY <2>1, <3>1, <3>2
  <2> QED
    BY <2>2, <2>3
<1>6. \A n \in 0 .. N - 1, m \in 0 .. M - 1 : \E t \in 0 .. F.tiles - 1 : InTile(F.at[t], n, m)
  BY <1>3, <1>5
<1>7. \A n \in 0 .. N - 1, m \in 0 .. M - 1, t, u \in 0 .. F.tiles - 1 :
          InTile(F.at[t], n, m) /\ InTile(F.at[u], n, m) => t = u
  BY <1>3, <1>5
<1>8. F.tiles \in Nat
  BY <1>3
<1> QED
  BY <1>1, <1>3, <1>4, <1>6, <1>7, <1>8 DEF IsTiling

LEMMA Tiling61 ==
  ASSUME Sized, M = 61
  PROVE  IsTiling(T!transpose_submit_61)
<1>1. PICK F : F = T!transpose_submit_61
  OBVIOUS
<1>2. PICK rows \in Nat : rows = T!Across(N) /\ 8 * rows >= N /\ 8 * rows - 8 < N
  BY DEF T!Across, Sized
<1>3. T!Across(M) = 8 /\ T!Blocks8 = 8 * rows
  BY <1>2, AcrossIs DEF T!Blocks8
<1>4. F.tiles = 8 * rows
  BY <1>1, <1>3 DEF T!transpose_submit_61
<1>5. ASSUME NEW t \in 0 .. 8 * rows - 1
      PROVE  /\ F.at[t].n0 = 8 * (t \div 8)
             /\ F.at[t].n1 = (IF 8 * (t \div 8) + 8 < N THEN 8 * (t \div 8) + 8 ELSE N)
             /\ F.at[t].m0 = 8 * (t % 8)
             /\ F.at[t].m1 = (IF 8 * (t % 8) + 8 < M THEN 8 * (t % 8) + 8 ELSE M)
  <2>1. T!RowOf(t) = 8 * (t \div 8) /\ T!ColumnOf(t) = 8 * (t % 8)
    BY <1>3 DEF T!RowOf, T!ColumnOf
  <2>2. F.at[t] = T!Rows(T!RowOf(t), T!Lesser(T!RowOf(t) + 8, N),
                         T!ColumnOf(t), T!Lesser(T!ColumnOf(t) + 8, M))
    BY <1>1, <1>3 DEF T!transpose_submit_61
  <2> QED
    BY <2>1, <2>2 DEF T!Rows, T!Lesser
<1>6. ASSUME NEW t \in 0 .. 8 * rows - 1
      PROVE  IsTile(F.at[t]) /\ F.at[t].n1 <= N /\ F.at[t].m1 <= M
  <2>1. t \div 8 \in 0 .. rows - 1 /\ t % 8 \in 0 .. 7
    OBVIOUS
  <2> QED
    BY <1>2, <1>5, <2>1 DEF IsTile, Sized
<1>7. ASSUME NEW n \in 0 .. N - 1, NEW m \in 0 .. M - 1
      PROVE  /\ 8 * (n \div 8) + (m \div 8) \in 0 .. 8 * rows - 1
             /\ \A t \in 0 .. 8 * rows - 1 :
                   InTile(F.at[t], n, m) <=> t = 8 * (n \div 8) + (m \div 8)
  <2>1. n \div 8 \in 0 .. rows - 1 /\ m \div 8 \in 0 .. 7 /\ m \in 0 .. 60 /\ n \in Nat
    BY <1>2 DEF Sized
  <2>2. 8 * (n \div 8) + (m \div 8) \in 0 .. 8 * rows - 1
    BY <2>1
  <2>3. ASSUME NEW t \in 0 .. 8 * rows - 1
        PROVE  InTile(F.at[t], n, m) <=> t = 8 * (n \div 8) + (m \div 8)
    <3>1. N \in Nat /\ n < N /\ m < M /\ t \in Nat
      BY DEF Sized
    <3>2. InTile(F.at[t], n, m) <=>
             /\ n \in 8 * (t \div 8) .. 8 * (t \div 8) + 8 - 1
             /\ m \in 8 * (t % 8) .. 8 * (t % 8) + 8 - 1
      BY <1>5, <2>1, <3>1 DEF InTile
    <3> QED
      BY <2>1, <3>1, <3>2
  <2> QED
    BY <2>2, <2>3
<1>8. \A n \in 0 .. N - 1, m \in 0 .. M - 1 : \E t \in 0 .. F.tiles - 1 : InTile(F.at[t], n, m)
  BY <1>4, <1>7
<1>9. \A n \in 0 .. N - 1, m \in 0 .. M - 1, t, u \in 0 .. F.tiles - 1 :
          InTile(F.at[t], n, m) /\ InTile(F.at[u], n, m) => t = u
  BY <1>4, <1>7
<1>10. F.tiles \in Nat
  BY <1>4
<1> QED
  BY <1>1, <1>4, <1>6, <1>8, <1>9, <1>10 DEF IsTiling

LEMMA Tiles64 ==
  ASSUME Sized, M = 64, NEW F, F = T!transpose_submit_64
  PROVE  /\ F.tiles = 32 * T!Across(N)
         /\ \A t \in 0 .. F.tiles - 1 :
               /\ F.at[t].n0 = 8 * (t \div 32) + (IF t % 4 \in {1, 2} THEN 4 ELSE 0)
               /\ F.at[t].n1 = F.at[t].n0 + 4
               /\ F.at[t].m0 = 8 * ((t \div 4) % 8) + (IF t % 4 \in {2, 3} THEN 4 ELSE 0)
               /\ F.at[t].m1 = F.at[t].m0 + 4
<1>1. T!Across(M) = 8 /\ T!Across(N) \in Nat
  BY AcrossIs
<1>2. 4 * T!Blocks8 = 32 * T!Across(N)
  BY <1>1 DEF T!Blocks8
<1>3. F.tiles = 32 * T!Across(N)
  BY <1>2 DEF T!transpose_submit_64
<1>4. ASSUME NEW t \in 0 .. F.tiles - 1
      PROVE  /\ F.at[t].n0 = 8 * (t \div 32) + (IF t % 4 \in {1, 2} THEN 4 ELSE 0)
             /\ F.at[t].n1 = F.at[t].n0 + 4
             /\ F.at[t].m0 = 8 * ((t \div 4) % 8) + (IF t % 4 \in {2, 3} THEN 4 ELSE 0)
             /\ F.at[t].m1 = F.at[t].m0 + 4
  <2>1. t \in Nat /\ t \div 4 \in Nat /\ (t \div 4) \div 8 = t \div 32
    BY <1>1, <1>3
  <2>2. T!RowOf(t \div 4) = 8 * (t \div 32) /\ T!ColumnOf(t \div 4) = 8 * ((t \div 4) % 8)
    BY <1>1, <2>1 DEF T!RowOf, T!ColumnOf
  <2>3. F.at[t] = LET n0 == T!RowOf(t \div 4) + (IF t % 4 \in {1, 2} THEN 4 ELSE 0)
                      m0 == T!ColumnOf(t \div 4) + (IF t % 4 \in {2, 3} THEN 4 ELSE 0)
                  IN  T!Rows(n0, n0 + 4, m0, m0 + 4)
    BY <1>2, <1>3 DEF T!transpose_submit_64
  <2> QED
    BY <2>2, <2>3 DEF T!Rows
<1> QED
  BY <1>3, <1>4

(* The part of a block of eight by eight that has row n and column m. *)
PartOf(n, m) ==
    IF n % 8 < 4 THEN (IF m % 8 < 4 THEN 0 ELSE 3) ELSE (IF m % 8 < 4 THEN 1 ELSE 2)

LEMMA Tiling64 ==
  ASSUME Sized, M = 64, N % 8 = 0
  PROVE  IsTiling(T!transpose_submit_64)
<1>1. PICK F : F = T!transpose_submit_64
  OBVIOUS
<1>2. PICK rows \in Nat : rows = T!Across(N) /\ N = 8 * rows
  BY AcrossIs
<1>3. /\ F.tiles = 32 * rows
      /\ \A t \in 0 .. 32 * rows - 1 :
            /\ F.at[t].n0 = 8 * (t \div 32) + (IF t % 4 \in {1, 2} THEN 4 ELSE 0)
            /\ F.at[t].n1 = F.at[t].n0 + 4
            /\ F.at[t].m0 = 8 * ((t \div 4) % 8) + (IF t % 4 \in {2, 3} THEN 4 ELSE 0)
            /\ F.at[t].m1 = F.at[t].m0 + 4
  <2>1. F.tiles = 32 * rows
    BY <1>1, <1>2, Tiles64
  <2>2. \A t \in 0 .. F.tiles - 1 :
            /\ F.at[t].n0 = 8 * (t \div 32) + (IF t % 4 \in {1, 2} THEN 4 ELSE 0)
            /\ F.at[t].n1 = F.at[t].n0 + 4
            /\ F.at[t].m0 = 8 * ((t \div 4) % 8) + (IF t % 4 \in {2, 3} THEN 4 ELSE 0)
            /\ F.at[t].m1 = F.at[t].m0 + 4
    BY <1>1, Tiles64
  <2> QED
    BY <2>1, <2>2
<1>4. ASSUME NEW t \in 0 .. 32 * rows - 1
      PROVE  IsTile(F.at[t]) /\ F.at[t].n1 <= N /\ F.at[t].m1 <= M
  <2>1. PICK x \in 0 .. rows - 1, y \in 0 .. 7 : x = t \div 32 /\ y = (t \div 4) % 8
    OBVIOUS
  <2>2. PICK r \in {0, 4}, q \in {0, 4} :
           /\ r = IF t % 4 \in {1, 2} THEN 4 ELSE 0
           /\ q = IF t % 4 \in {2, 3} THEN 4 ELSE 0
    OBVIOUS
  <2>3. /\ F.at[t].n0 = 8 * x + r /\ F.at[t].n1 = F.at[t].n0 + 4
        /\ F.at[t].m0 = 8 * y + q /\ F.at[t].m1 = F.at[t].m0 + 4
    BY <1>3, <2>1, <2>2
  <2> QED
    BY <1>2, <2>3 DEF IsTile
<1>5. ASSUME NEW n \in 0 .. N - 1, NEW m \in 0 .. M - 1
      PROVE  /\ 32 * (n \div 8) + 4 * (m \div 8) + PartOf(n, m) \in 0 .. 32 * rows - 1
             /\ \A t \in 0 .. 32 * rows - 1 :
                   InTile(F.at[t], n, m) <=> t = 32 * (n \div 8) + 4 * (m \div 8) + PartOf(n, m)
  <2>1. n \div 8 \in 0 .. rows - 1 /\ m \div 8 \in 0 .. 7 /\ m \in 0 .. 63 /\ n \in Nat
    BY <1>2 DEF Sized
  <2>2. PartOf(n, m) \in 0 .. 3
    BY DEF PartOf
  <2>3. 32 * (n \div 8) + 4 * (m \div 8) + PartOf(n, m) \in 0 .. 32 * rows - 1
    BY <2>1, <2>2
  <2>4. ASSUME NEW t \in 0 .. 32 * rows - 1
        PROVE  InTile(F.at[t], n, m) <=> t = 32 * (n \div 8) + 4 * (m \div 8) + PartOf(n, m)
    <3> DEFINE r == IF t % 4 \in {1, 2} THEN 4 ELSE 0
               c == IF t % 4 \in {2, 3} THEN 4 ELSE 0
    <3>1. InTile(F.at[t], n, m) <=>
             /\ n \in 8 * (t \div 32) + r .. 8 * (t \div 32) + r + 3
             /\ m \in 8 * ((t \div 4) % 8) + c .. 8 * ((t \div 4) % 8) + c + 3
      <4>1. /\ F.at[t].n0 = 8 * (t \div 32) + r /\ F.at[t].n1 = F.at[t].n0 + 4
            /\ F.at[t].m0 = 8 * ((t \div 4) % 8) + c /\ F.at[t].m1 = F.at[t].m0 + 4
        BY <1>3
      <4>2. t \div 32 \in Nat /\ (t \div 4) % 8 \in Nat /\ r \in Nat /\ c \in Nat
        OBVIOUS
      <4> HIDE DEF r, c
      <4> QED
        BY <4>1, <4>2 DEF InTile
    <3>2. t \in Nat /\ t = 32 * (t \div 32) + 4 * ((t \div 4) % 8) + (t % 4)
      OBVIOUS
    <3>3. PICK x \in Nat, y \in 0 .. 7, z \in 0 .. 3 :
              x = t \div 32 /\ y = (t \div 4) % 8 /\ z = t % 4
      OBVIOUS
    <3>4. /\ r = IF z \in {1, 2} THEN 4 ELSE 0
          /\ c = IF z \in {2, 3} THEN 4 ELSE 0
          /\ t = 32 * x + 4 * y + z
      BY <3>2, <3>3
    <3>5. PICK nq \in Nat, nr \in 0 .. 7, mq \in 0 .. 7, mr \in 0 .. 7 :
              /\ nq = n \div 8 /\ nr = n % 8 /\ mq = m \div 8 /\ mr = m % 8
              /\ n = 8 * nq + nr /\ m = 8 * mq + mr
      BY <2>1
    <3> HIDE DEF r, c
    <3>6. InTile(F.at[t], n, m) <=>
             n \in 8 * x + r .. 8 * x + r + 3 /\ m \in 8 * y + c .. 8 * y + c + 3
      BY <3>1, <3>3
    <3>7. PartOf(n, m) = IF nr < 4 THEN (IF mr < 4 THEN 0 ELSE 3) ELSE (IF mr < 4 THEN 1 ELSE 2)
      BY <3>5 DEF PartOf
    <3> QED
      BY <3>4, <3>5, <3>6, <3>7
  <2> QED
    BY <2>3, <2>4
<1>6. \A n \in 0 .. N - 1, m \in 0 .. M - 1 : \E t \in 0 .. F.tiles - 1 : InTile(F.at[t], n, m)
  BY <1>3, <1>5
<1>7. \A n \in 0 .. N - 1, m \in 0 .. M - 1, t, u \in 0 .. F.tiles - 1 :
          InTile(F.at[t], n, m) /\ InTile(F.at[u], n, m) => t = u
  BY <1>3, <1>5
<1>8. F.tiles \in Nat
  BY <1>3
<1> QED
  BY <1>1, <1>3, <1>4, <1>6, <1>7, <1>8 DEF IsTiling
-----------------------------------------------------------------------------
(* With tiles that do not fit, what lies behind row N of B's columns is     *)
(* written into the next row: the cell of element (0, 1) gets that of       *)
(* (N, 0), which is none, and nothing puts it right.                       *)
Spoils(F) ==
    /\ F.tiles \in Nat
    /\ \A t \in 0 .. F.tiles - 1 : IsTile(F.at[t]) /\ Width(F.at[t]) >= 2
    /\ \E t \in 0 .. F.tiles - 1 : InTile(F.at[t], N, 0)
    /\ \A t \in 0 .. F.tiles - 1 : InTile(F.at[t], 0, 1) => t = 0 /\ F.at[t].n0 = 0
Passed(F, t) == \E u \in 0 .. t - 1 : InTile(F.at[u], N, 0)
Spoilt(c, passed) ==
    /\ c.B \in [0 .. M * N + 7 -> Int]
    /\ \A k \in 0 .. M * N + 7 : c.B[k] = T!Junk \/ c.B[k] \in 0 .. M * N - 1
    /\ passed => c.B[N] = T!Junk

LEMMA InAIs ==
  ASSUME Sized, NEW k \in Nat
  PROVE  T!InA(k) \in Int /\ (T!InA(k) = T!Junk \/ T!InA(k) \in 0 .. M * N - 1)
<1>1. M * N \in Nat /\ N * M = M * N
  BY DEF Sized
<1> QED
  BY <1>1 DEF T!InA, T!Junk

LEMMA OnlyTwo ==
  ASSUME Sized, NEW n \in Nat, NEW m \in Nat, m * N + n = N
  PROVE  (n = N /\ m = 0) \/ (n = 0 /\ m = 1)
<1>1. N \in Nat /\ N > 0 /\ m * N \in Nat
  BY DEF Sized
<1>2. CASE m = 0
  BY <1>1, <1>2
<1>3. CASE m = 1
  BY <1>1, <1>3
<1>4. CASE m > 1
  <2>1. 1 * N + N <= m * N
    BY <1>1, <1>4, RowsApart
  <2> QED
    BY <2>1, <1>1
<1> QED
  BY <1>2, <1>3, <1>4

LEMMA CopyElementSpoils ==
  ASSUME Sized, NEW c, NEW passed \in BOOLEAN, Spoilt(c, passed), NEW n \in Nat, NEW m \in Nat,
         ~(passed /\ n = 0 /\ m = 1)
  PROVE  Spoilt(T!CopyElement(c, n, m), passed \/ (n = N /\ m = 0))
<1> DEFINE cell == m * N + n
           value == T!InA(n * M + m)
           new == [c.B EXCEPT ![cell] = value]
<1>1. cell \in Nat /\ n * M + m \in Nat /\ M * N \in Nat
  BY DEF Sized
<1>2. value \in Int /\ (value = T!Junk \/ value \in 0 .. M * N - 1)
  BY <1>1, InAIs
<1>3. T!CopyElement(c, n, m).B = new
  BY DEF T!CopyElement
<1>4. N \in 0 .. M * N + 7
  <2>1. N = 1 * N /\ N \in Nat
    BY DEF Sized
  <2>2. CASE M = 1
    BY <2>1, <2>2
  <2>3. CASE M # 1
    <3>1. 1 * N + N <= M * N
      BY <2>3, RowsApart DEF Sized
    <3> QED
      BY <2>1, <3>1, <1>1
  <2> QED
    BY <2>2, <2>3
<1>5. cell = N => (n = N /\ m = 0) \/ (n = 0 /\ m = 1)
  BY OnlyTwo
<1>6. n = N /\ m = 0 => cell = N /\ value = T!Junk
  <2> HAVE n = N /\ m = 0
  <2>1. cell = N /\ n * M + m = N * M /\ N * M \in Int
    BY DEF Sized
  <2> QED
    BY <2>1 DEF T!InA
<1> HIDE DEF cell, value
<1>7. new \in [0 .. M * N + 7 -> Int]
  BY <1>2 DEF Spoilt
<1>8. \A k \in 0 .. M * N + 7 : new[k] = T!Junk \/ new[k] \in 0 .. M * N - 1
  BY <1>2 DEF Spoilt
<1>9. ASSUME passed \/ (n = N /\ m = 0) PROVE new[N] = T!Junk
  <2>1. CASE n = N /\ m = 0
    BY <2>1, <1>4, <1>6 DEF Spoilt
  <2>2. CASE ~(n = N /\ m = 0)
    <3>1. passed /\ cell # N
      BY <2>2, <1>5, <1>9
    <3> QED
      BY <3>1, <1>4 DEF Spoilt
  <2> QED
    BY <2>1, <2>2
<1> QED
  BY <1>3, <1>7, <1>8, <1>9 DEF Spoilt

LEMMA CopyTileSpoils ==
  ASSUME Sized, NEW F, Spoils(F), NEW t \in 0 .. F.tiles - 1, Spoilt(Machine, Passed(F, t))
  PROVE  Spoilt(T!CopyTile(F.at[t]), Passed(F, t + 1))
<1>1. PICK a : a = F.at[t]
  OBVIOUS
<1>2. IsTile(a) /\ Width(a) >= 2 /\ t \in Nat /\ (InTile(a, 0, 1) => t = 0 /\ a.n0 = 0)
  BY <1>1 DEF Spoils
<1>3. PICK g : /\ g[0] = Machine /\ T!CopyTile(a) = g[Area(a)]
               /\ \A k \in 0 .. Area(a) - 1 :
                     g[k + 1] = T!CopyElement(g[k], RowAt(a, k), ColumnAt(a, k))
  BY <1>2, CopyTileRuns
<1>4. Area(a) \in Nat /\ N \in Nat \ {0}
  BY <1>2, TileTypes DEF Sized
<1> DEFINE P(k) == Passed(F, t) \/ (InTile(a, N, 0) /\ PlaceOf(a, N, 0) < k)
           S == {k \in Nat : Spoilt(g[k], P(k))}
<1>5. InTile(a, N, 0) => PlaceOf(a, N, 0) \in 0 .. Area(a) - 1
  BY <1>2, <1>4, PlaceInArea
<1>6. 0 \in S
  <2>1. P(0) <=> Passed(F, t)
    BY <1>4, <1>5
  <2>2. Spoilt(g[0], P(0))
    BY <2>1, <1>3 DEF Spoilt
  <2> QED
    BY <2>2
<1>7. ASSUME NEW k \in 0 .. Area(a) - 1, k \in S PROVE k + 1 \in S
  <2>1. PICK n, m : n = RowAt(a, k) /\ m = ColumnAt(a, k)
    OBVIOUS
  <2>2. k \in Nat /\ k < Area(a) /\ k + 1 \in Nat
    BY <1>4
  <2>3. /\ n \in Nat /\ m \in Nat /\ InTile(a, n, m) /\ PlaceOf(a, n, m) = k
        /\ \A x, y \in Nat : InTile(a, x, y) /\ PlaceOf(a, x, y) = k => x = n /\ y = m
    BY <2>1, <2>2, <1>2, PlaceIs
  <2>4. PICK passed \in BOOLEAN : passed <=> P(k)
    OBVIOUS
  <2>5. Spoilt(g[k], passed)
    <3>1. Spoilt(g[k], P(k))
      BY <1>7
    <3> HIDE DEF P
    <3> QED
      BY <2>4, <3>1 DEF Spoilt
  <2>6. ~(passed /\ n = 0 /\ m = 1)
    <3> SUFFICES ASSUME P(k), n = 0, m = 1 PROVE FALSE
      BY <2>4
    <3>1. t = 0 /\ a.n0 = 0
      BY <2>3, <1>2
    <3>2. ~Passed(F, t)
      BY <3>1 DEF Passed
    <3>3. InTile(a, N, 0) /\ PlaceOf(a, N, 0) < k
      BY <3>2
    <3>4. a.m0 = 0
      BY <3>3, <1>2 DEF InTile, IsTile
    <3>5. PlaceOf(a, N, 0) = N * Width(a) /\ PlaceOf(a, 0, 1) = 1
      <4>1. Width(a) \in Nat
        BY <1>2, TileTypes
      <4> QED
        BY <3>1, <3>4, <4>1, <1>4 DEF PlaceOf
    <3>6. N * Width(a) >= 1
      BY <1>2, <1>4, TileTypes
    <3> QED
      BY <3>3, <3>5, <3>6, <2>3, <1>2, <1>4, TileTypes
  <2>7. Spoilt(T!CopyElement(g[k], n, m), passed \/ (n = N /\ m = 0))
    BY <2>3, <2>5, <2>6, CopyElementSpoils
  <2>8. P(k + 1) => passed \/ (n = N /\ m = 0)
    <3>1. InTile(a, N, 0) /\ PlaceOf(a, N, 0) = k => n = N /\ m = 0
      BY <2>3, <1>4
    <3>2. InTile(a, N, 0) /\ PlaceOf(a, N, 0) < k + 1 => PlaceOf(a, N, 0) < k \/ PlaceOf(a, N, 0) = k
      BY <1>5, <1>4, <2>2
    <3> QED
      BY <3>1, <3>2, <2>4
  <2>9. g[k + 1] = T!CopyElement(g[k], n, m)
    BY <2>1, <1>3
  <2>10. Spoilt(g[k + 1], P(k + 1))
    <3> HIDE DEF P
    <3> QED
      BY <2>7, <2>8, <2>9 DEF Spoilt
  <2> HIDE DEF P
  <2> QED
    BY <2>2, <2>10
<1>8. Area(a) \in S
  <2> HIDE DEF S
  <2> QED
    BY <1>4, <1>6, <1>7, UpTo
<1>9. Passed(F, t + 1) => P(Area(a))
  <2>1. \A u \in 0 .. t + 1 - 1 : u \in 0 .. t - 1 \/ u = t
    BY <1>2
  <2>2. InTile(a, N, 0) => PlaceOf(a, N, 0) < Area(a)
    BY <1>4, <1>5
  <2> QED
    BY <2>1, <2>2, <1>1 DEF Passed
<1>10. Spoilt(g[Area(a)], P(Area(a)))
  BY <1>8
<1> HIDE DEF P
<1> QED
  BY <1>1, <1>3, <1>9, <1>10 DEF Spoilt

(* A matrix of more than one row of A that was spoilt is not valid. *)
LEMMA SpoiltIsInvalid ==
  ASSUME Sized, M > 1, NEW c, Spoilt(c, TRUE)
  PROVE  ~T!validate(c.B)
<1>1. N \in Nat \ {0} /\ M \in Nat /\ N % N = 0 /\ N \div N = 1
  BY DEF Sized
<1>2. N \in 0 .. M * N - 1
  <2>1. 1 * N + N <= M * N
    BY <1>1, RowsApart
  <2> QED
    BY <2>1, <1>1
<1>3. T!correctTrans[N] = 1 /\ N \in DOMAIN T!correctTrans
  <2>1. N \in DOMAIN T!correctTrans /\ T!correctTrans[N] = (N % N) * M + (N \div N)
    BY <1>2 DEF T!correctTrans
  <2> QED
    BY <2>1, <1>1
<1>4. c.B[N] = -1
  BY DEF Spoilt, T!Junk
<1> QED
  BY <1>3, <1>4 DEF T!validate
LEMMA Spoils32 ==
  ASSUME Sized, M = 32, N % 8 # 0
  PROVE  Spoils(T!transpose_submit_32)
<1>1. PICK F : F = T!transpose_submit_32
  OBVIOUS
<1>2. PICK rows \in Nat : rows = T!Across(N) /\ N \div 8 \in Nat /\ N \div 8 < rows
  BY AcrossIs
<1>3. /\ F.tiles = 4 * rows
      /\ \A t \in 0 .. 4 * rows - 1 :
            /\ F.at[t].n0 = 8 * (t \div 4) /\ F.at[t].n1 = 8 * (t \div 4) + 8
            /\ F.at[t].m0 = 8 * (t % 4) /\ F.at[t].m1 = 8 * (t % 4) + 8
  BY <1>1, <1>2, Tiles32
<1>4. ASSUME NEW t \in 0 .. 4 * rows - 1
      PROVE  IsTile(F.at[t]) /\ Width(F.at[t]) >= 2
  <2>1. t \div 4 \in Nat /\ t % 4 \in Nat
    OBVIOUS
  <2> QED
    BY <1>3, <2>1 DEF IsTile, Width
<1>5. \E t \in 0 .. 4 * rows - 1 : InTile(F.at[t], N, 0)
  <2> DEFINE t == 4 * (N \div 8)
  <2>1. t \in 0 .. 4 * rows - 1 /\ t \div 4 = N \div 8 /\ t % 4 = 0 /\ N \in Nat
    BY <1>2 DEF Sized
  <2> HIDE DEF t
  <2>2. /\ F.at[t].n0 = 8 * (N \div 8) /\ F.at[t].n1 = 8 * (N \div 8) + 8
        /\ F.at[t].m0 = 0 /\ F.at[t].m1 = 8
    BY <1>3, <2>1
  <2>3. InTile(F.at[t], N, 0)
    BY <2>1, <2>2 DEF InTile
  <2> QED
    BY <2>1, <2>3
<1>6. ASSUME NEW t \in 0 .. 4 * rows - 1, InTile(F.at[t], 0, 1) PROVE t = 0 /\ F.at[t].n0 = 0
  <2>1. t \div 4 \in Nat /\ t % 4 \in Nat /\ t \in Nat
    OBVIOUS
  <2>2. 8 * (t \div 4) <= 0 /\ 8 * (t % 4) <= 1
    BY <1>3, <1>6, <2>1 DEF InTile
  <2>3. t = 0 /\ t \div 4 = 0
    BY <2>1, <2>2
  <2> QED
    BY <1>3, <2>3
<1> QED
  BY <1>1, <1>2, <1>3, <1>4, <1>5, <1>6 DEF Spoils

LEMMA Spoils64 ==
  ASSUME Sized, M = 64, N % 8 # 0
  PROVE  Spoils(T!transpose_submit_64)
<1>1. PICK F : F = T!transpose_submit_64
  OBVIOUS
<1>2. PICK rows \in Nat : rows = T!Across(N) /\ N \div 8 \in Nat /\ N \div 8 < rows
  BY AcrossIs
<1>3. /\ F.tiles = 32 * rows
      /\ \A t \in 0 .. 32 * rows - 1 :
            /\ F.at[t].n0 = 8 * (t \div 32) + (IF t % 4 \in {1, 2} THEN 4 ELSE 0)
            /\ F.at[t].n1 = F.at[t].n0 + 4
            /\ F.at[t].m0 = 8 * ((t \div 4) % 8) + (IF t % 4 \in {2, 3} THEN 4 ELSE 0)
            /\ F.at[t].m1 = F.at[t].m0 + 4
  <2>1. F.tiles = 32 * rows
    BY <1>1, <1>2, Tiles64
  <2>2. \A t \in 0 .. F.tiles - 1 :
            /\ F.at[t].n0 = 8 * (t \div 32) + (IF t % 4 \in {1, 2} THEN 4 ELSE 0)
            /\ F.at[t].n1 = F.at[t].n0 + 4
            /\ F.at[t].m0 = 8 * ((t \div 4) % 8) + (IF t % 4 \in {2, 3} THEN 4 ELSE 0)
            /\ F.at[t].m1 = F.at[t].m0 + 4
    BY <1>1, Tiles64
  <2> QED
    BY <2>1, <2>2
<1>4. ASSUME NEW t \in 0 .. 32 * rows - 1
      PROVE  IsTile(F.at[t]) /\ Width(F.at[t]) >= 2
  <2>1. t \div 32 \in Nat /\ (t \div 4) % 8 \in Nat
    OBVIOUS
  <2> QED
    BY <1>3, <2>1 DEF IsTile, Width
<1>5. \E t \in 0 .. 32 * rows - 1 : InTile(F.at[t], N, 0)
  <2> DEFINE t == 32 * (N \div 8) + (IF N % 8 < 4 THEN 0 ELSE 1)
  <2>1. /\ t \in 0 .. 32 * rows - 1 /\ t \div 32 = N \div 8 /\ (t \div 4) % 8 = 0 /\ N \in Nat
        /\ t % 4 = IF N % 8 < 4 THEN 0 ELSE 1
    BY <1>2 DEF Sized
  <2> HIDE DEF t
  <2>2. /\ F.at[t].n0 = 8 * (N \div 8) + (IF N % 8 < 4 THEN 0 ELSE 4)
        /\ F.at[t].n1 = F.at[t].n0 + 4
        /\ F.at[t].m0 = 0 /\ F.at[t].m1 = 4
    <3>1. /\ t % 4 \in {1, 2} <=> ~(N % 8 < 4)
          /\ ~(t % 4 \in {2, 3})
      BY <2>1
    <3>2. /\ F.at[t].n0 = 8 * (t \div 32) + (IF t % 4 \in {1, 2} THEN 4 ELSE 0)
          /\ F.at[t].n1 = F.at[t].n0 + 4
          /\ F.at[t].m0 = 8 * ((t \div 4) % 8) + (IF t % 4 \in {2, 3} THEN 4 ELSE 0)
          /\ F.at[t].m1 = F.at[t].m0 + 4
      BY <1>3, <2>1
    <3> QED
      BY <2>1, <3>1, <3>2
  <2>3. InTile(F.at[t], N, 0)
    BY <2>1, <2>2 DEF InTile
  <2> QED
    BY <2>1, <2>3
<1>6. ASSUME NEW t \in 0 .. 32 * rows - 1, InTile(F.at[t], 0, 1) PROVE t = 0 /\ F.at[t].n0 = 0
  <2>1. /\ t \div 32 \in Nat /\ (t \div 4) % 8 \in Nat /\ t % 4 \in Nat /\ t \in Nat
        /\ t = 32 * (t \div 32) + 4 * ((t \div 4) % 8) + (t % 4) /\ t % 4 < 4
    OBVIOUS
  <2>2. /\ 8 * (t \div 32) + (IF t % 4 \in {1, 2} THEN 4 ELSE 0) <= 0
        /\ 8 * ((t \div 4) % 8) + (IF t % 4 \in {2, 3} THEN 4 ELSE 0) <= 1
    <3>1. /\ F.at[t].n0 = 8 * (t \div 32) + (IF t % 4 \in {1, 2} THEN 4 ELSE 0)
          /\ F.at[t].n1 = F.at[t].n0 + 4
          /\ F.at[t].m0 = 8 * ((t \div 4) % 8) + (IF t % 4 \in {2, 3} THEN 4 ELSE 0)
          /\ F.at[t].m1 = F.at[t].m0 + 4
      BY <1>3
    <3>2. 0 \in F.at[t].n0 .. F.at[t].n1 - 1 /\ 1 \in F.at[t].m0 .. F.at[t].m1 - 1
      BY <1>6 DEF InTile
    <3>3. PICK r \in {0, 4}, q \in {0, 4} :
             /\ r = IF t % 4 \in {1, 2} THEN 4 ELSE 0
             /\ q = IF t % 4 \in {2, 3} THEN 4 ELSE 0
      OBVIOUS
    <3>4. 0 >= 8 * (t \div 32) + r /\ 1 >= 8 * ((t \div 4) % 8) + q
      BY <3>1, <3>2, <3>3, <2>1
    <3> QED
      BY <3>3, <3>4, <2>1
  <2>3. t \div 32 = 0 /\ (t \div 4) % 8 = 0 /\ ~(t % 4 \in {1, 2}) /\ ~(t % 4 \in {2, 3})
    BY <2>1, <2>2
  <2>4. t = 0
    BY <2>1, <2>3
  <2> QED
    BY <1>3, <2>3, <2>4
<1> QED
  BY <1>1, <1>2, <1>3, <1>4, <1>5, <1>6 DEF Spoils

(* Whether its tiles fit decides what a function does. *)
Fits(name) == name = "transpose_submit" => T!Whole

LEMMA FunctionFits ==
  ASSUME Sized, NEW name
  PROVE  /\ Fits(name) => IsTiling(T!Function(name))
         /\ ~Fits(name) => Spoils(T!Function(name)) /\ M > 1
<1>1. CASE name # "transpose_submit"
  BY <1>1, PlainScanTiles DEF T!Function, Fits
<1>2. CASE name = "transpose_submit"
  <2>1. T!Function(name) = T!transpose_submit
    BY <1>2 DEF T!Function
  <2>2. CASE M = 32
    <3>1. T!transpose_submit = T!transpose_submit_32
      BY <2>2 DEF T!transpose_submit
    <3>2. Fits(name) <=> N % 8 = 0
      BY <1>2, <2>2 DEF Fits, T!Whole
    <3> QED
      BY <2>1, <2>2, <3>1, <3>2, Tiling32, Spoils32
  <2>3. CASE M = 64
    <3>1. T!transpose_submit = T!transpose_submit_64
      BY <2>3 DEF T!transpose_submit
    <3>2. Fits(name) <=> N % 8 = 0
      BY <1>2, <2>3 DEF Fits, T!Whole
    <3> QED
      BY <2>1, <2>3, <3>1, <3>2, Tiling64, Spoils64
  <2>4. CASE M = 61
    <3>1. T!transpose_submit = T!transpose_submit_61
      BY <2>4 DEF T!transpose_submit
    <3>2. Fits(name)
      BY <2>4 DEF Fits, T!Whole
    <3> QED
      BY <2>1, <2>4, <3>1, <3>2, Tiling61
  <2>5. CASE M \notin {32, 61, 64}
    <3>1. T!transpose_submit = T!trans
      BY <2>5 DEF T!transpose_submit
    <3>2. Fits(name)
      BY <2>5 DEF Fits, T!Whole
    <3> QED
      BY <2>1, <3>1, <3>2, PlainScanTiles
  <2> QED
    BY <2>2, <2>3, <2>4, <2>5
<1> QED
  BY <1>1, <1>2
-----------------------------------------------------------------------------
(* The driver: the memory and the counts are those of the function that    *)
(* runs, and the grade is that of the submission.                          *)
Current == T!Function(Registered[i])
RunInv ==
    /\ i \in DOMAIN Registered =>
          /\ tile \in 0 .. Current.tiles
          /\ Fits(Registered[i]) => Holds(Machine, UpToTile(Current, tile))
          /\ ~Fits(Registered[i]) => Spoilt(Machine, Passed(Current, tile))
    /\ i \notin DOMAIN Registered => B = T!FreshB /\ sim = T!FreshSim
GradeInv ==
    /\ DOMAIN func_list = DOMAIN Registered
    /\ results = [funcid |-> results.funcid, correct |-> results.correct, misses |-> results.misses]
    /\ results.correct \in {0, 1}
    /\ results.funcid = -1 \/ (results.funcid \in 1 .. i - 1
                                 /\ Registered[results.funcid] = "transpose_submit")
    /\ results.correct = 0 => results.misses = INT_MAX
    /\ results.correct = 1 =>
          /\ T!Whole /\ results.funcid # -1
          /\ results.misses = func_list[results.funcid].num_misses
    /\ T!Whole => \A f \in 1 .. i - 1 : Registered[f] = "transpose_submit" => results.correct = 1
TransInv ==
    /\ <<M, N>> \in Sizes /\ Sized /\ i \in 1 .. Len(Registered) + 1
    /\ RunInv /\ GradeInv

LEMMA FreshHolds ==
  ASSUME Sized, NEW F, NEW c, c.B = T!FreshB, c.sim = T!FreshSim
  PROVE  Holds(c, UpToTile(F, 0)) /\ Spoilt(c, Passed(F, 0))
<1>1. M * N \in Nat
  BY DEF Sized
<1>2. c.B \in [0 .. M * N + 7 -> Int] /\ \A k \in 0 .. M * N + 7 : c.B[k] = T!Junk
  BY <1>1 DEF T!FreshB, T!Junk
<1>3. UpToTile(F, 0) = {} /\ ~Passed(F, 0)
  BY DEF UpToTile, Passed
<1>4. Held(c.B) = {}
  BY <1>2 DEF Held
<1>5. c.sim.hits = 0 /\ c.sim.misses = 0 /\ Cardinality(Held(c.B)) = 0
  BY <1>4, FS_EmptySet DEF T!FreshSim
<1>6. \A n \in 0 .. N - 1, m \in 0 .. M - 1 : m * N + n \in 0 .. M * N + 7
  <2> SUFFICES ASSUME NEW n \in 0 .. N - 1, NEW m \in 0 .. M - 1
               PROVE  m * N + n \in 0 .. M * N + 7
    OBVIOUS
  <2>1. m * N + n \in 0 .. M * N - 1
    BY CellOf
  <2> QED
    BY <2>1, <1>1
<1>7. \A k \in Rest : k \in 0 .. M * N + 7
  BY <1>1 DEF Rest
<1>8. Holds(c, UpToTile(F, 0))
  BY <1>2, <1>3, <1>5, <1>6, <1>7 DEF Holds
<1> QED
  BY <1>2, <1>3, <1>8 DEF Spoilt

(* registerFunctions registers the submission. *)
SubmissionRegistered == \E f \in DOMAIN Registered : Registered[f] = "transpose_submit"

LEMMA TransImplies ==
  ASSUME TransInv
  PROVE  /\ T!TypeOK /\ T!CopiesOnce /\ T!GradedOnItsRun
         /\ SubmissionRegistered => T!GradedFairly
<1>1. Registered \in Seq(STRING) /\ DOMAIN Registered = 1 .. Len(Registered) /\ Len(Registered) \in Nat
  BY MatrixAssumption
<1>2. Sized /\ M * N \in Nat
  BY DEF TransInv, Sized
<1>3. PICK F : F = Current
  OBVIOUS
<1>4. (T!Whole => Holds(Machine, UpToTile(F, tile)) \/ Holds(Machine, UpToTile(F, 0)))
      /\ (Holds(Machine, UpToTile(F, tile)) \/ Holds(Machine, UpToTile(F, 0))
            \/ \E passed \in BOOLEAN : Spoilt(Machine, passed))
  <2>1. CASE i \in DOMAIN Registered
    <3>1. T!Whole => Fits(Registered[i])
      BY DEF Fits
    <3>2. Passed(Current, tile) \in BOOLEAN
      BY DEF Passed
    <3> QED
      BY <2>1, <3>1, <3>2, <1>3 DEF TransInv, RunInv
  <2>2. CASE i \notin DOMAIN Registered
    <3>1. Machine.B = T!FreshB /\ Machine.sim = T!FreshSim
      BY <2>2 DEF TransInv, RunInv, Machine
    <3> QED
      BY <3>1, <1>2, FreshHolds
  <2> QED
    BY <2>1, <2>2
<1>5. ASSUME NEW D, Holds(Machine, D)
      PROVE  /\ B \in [0 .. M * N + 7 -> Int]
             /\ \A k \in DOMAIN B : B[k] = T!Junk \/ B[k] \in 0 .. M * N - 1
             /\ sim.hits + sim.misses = 2 * Cardinality(Held(B))
             /\ \A k \in DOMAIN B : k >= M * N => B[k] = T!Junk
  <2>1. Machine.B = B /\ Machine.sim = sim
    BY DEF Machine
  <2>2. /\ B \in [0 .. M * N + 7 -> Int] /\ sim.hits + sim.misses = 2 * Cardinality(Held(B))
        /\ \A k \in Rest : B[k] = T!Junk
    BY <1>5, <2>1 DEF Holds
  <2>3. \A k \in DOMAIN B : k >= M * N => B[k] = T!Junk
    BY <1>2, <2>2 DEF Rest
  <2>4. ASSUME NEW k \in 0 .. M * N - 1 PROVE B[k] = T!Junk \/ B[k] \in 0 .. M * N - 1
    <3>1. PICK n \in 0 .. N - 1, m \in 0 .. M - 1 : m * N + n = k
      BY <1>2, CellHasPair
    <3>2. n * M + m \in 0 .. M * N - 1
      BY <1>2, CellOf
    <3>3. B[m * N + n] = IF <<n, m>> \in D THEN n * M + m ELSE T!Junk
      BY <1>5, <2>1 DEF Holds
    <3> QED
      BY <3>1, <3>2, <3>3
  <2>5. \A k \in DOMAIN B : k \in 0 .. M * N - 1 \/ k >= M * N
    BY <1>2, <2>2
  <2> QED
    BY <2>2, <2>3, <2>4, <2>5
<1>6. \A k \in DOMAIN B : B[k] = T!Junk \/ B[k] \in 0 .. M * N - 1
  <2>1. ASSUME NEW passed \in BOOLEAN, Spoilt(Machine, passed)
        PROVE  \A k \in DOMAIN B : B[k] = T!Junk \/ B[k] \in 0 .. M * N - 1
    BY <2>1 DEF Spoilt, Machine
  <2> QED
    BY <1>4, <1>5, <2>1
<1>7. T!TypeOK
  <2>1. results.funcid \in -1 .. Len(Registered)
    BY <1>1 DEF TransInv, GradeInv
  <2>2. i \in DOMAIN Registered => tile \in 0 .. T!Function(Registered[i]).tiles
    BY DEF TransInv, RunInv, Current
  <2> QED
    BY <1>6, <2>1, <2>2 DEF T!TypeOK, TransInv, GradeInv
<1>8. T!CopiesOnce
  <2>1. SUFFICES ASSUME T!Whole
                 PROVE  /\ sim.hits + sim.misses = 2 * Cardinality(Held(B))
                        /\ \A k \in DOMAIN B : k >= M * N => B[k] = T!Junk
    <3>1. Held(B) = {k \in DOMAIN B : B[k] # T!Junk}
      BY DEF Held
    <3> QED
      BY <3>1 DEF T!CopiesOnce, T!Cardinality, Cardinality
  <2> QED
    BY <2>1, <1>4, <1>5
<1>9. SubmissionRegistered => T!GradedFairly
  <2> SUFFICES ASSUME SubmissionRegistered, i > Len(Registered)
               PROVE  (results.correct = 1) = T!Whole
    BY DEF T!GradedFairly
  <2>1. DOMAIN Registered = 1 .. i - 1
    BY <1>1 DEF TransInv
  <2>2. T!Whole => results.correct = 1
    BY <2>1 DEF TransInv, GradeInv, SubmissionRegistered
  <2>3. results.correct = 1 => T!Whole
    BY DEF TransInv, GradeInv
  <2>4. T!Whole \in BOOLEAN
    BY DEF T!Whole
  <2> QED
    BY <2>2, <2>3, <2>4
<1>10. T!GradedOnItsRun
  BY DEF T!GradedOnItsRun, TransInv, GradeInv
<1> QED
  BY <1>7, <1>8, <1>9, <1>10

LEMMA InitTransposes == T!Init => TransInv
<1> SUFFICES ASSUME T!Init PROVE TransInv
  OBVIOUS
<1>1. Registered \in Seq(STRING) /\ DOMAIN Registered = 1 .. Len(Registered) /\ Len(Registered) \in Nat
  BY MatrixAssumption
<1>2. <<M, N>> \in Sizes /\ Sized
  <2>1. PICK size \in Sizes : M = size[1] /\ N = size[2]
    BY DEF T!Init
  <2>2. size \in (1 .. 256) \X (1 .. 256)
    BY MatrixAssumption
  <2>3. size = <<M, N>> /\ M \in 1 .. 256 /\ N \in 1 .. 256
    BY <2>1, <2>2
  <2> QED
    BY <2>3 DEF Sized
<1>3. RunInv
  <2>1. Machine.B = T!FreshB /\ Machine.sim = T!FreshSim /\ tile = 0
    BY DEF Machine, T!Init
  <2>2. i \in DOMAIN Registered => tile \in 0 .. Current.tiles
    <3>1. Current.tiles \in Nat
      BY <1>2, FunctionFits DEF Current, IsTiling, Spoils
    <3> QED
      BY <2>1, <3>1
  <2>3. Holds(Machine, UpToTile(Current, tile)) /\ Spoilt(Machine, Passed(Current, tile))
    BY <1>2, <2>1, FreshHolds
  <2> QED
    BY <2>2, <2>3 DEF RunInv, T!Init
<1>4. GradeInv
  BY <1>1 DEF T!Init, GradeInv
<1> QED
  BY <1>1, <1>2, <1>3, <1>4 DEF TransInv, T!Init

LEMMA CopyTransposes == TransInv /\ T!Copy => TransInv'
<1> SUFFICES ASSUME TransInv, T!Copy PROVE TransInv'
  OBVIOUS
<1>1. /\ i \in DOMAIN Registered /\ tile < Current.tiles
      /\ tile' = tile + 1 /\ M' = M /\ N' = N /\ i' = i
      /\ func_list' = func_list /\ results' = results
      /\ B' = T!CopyTile(Current.at[tile]).B /\ sim' = T!CopyTile(Current.at[tile]).sim
  BY DEF T!Copy, Current
<1>2. PICK F : F = Current
  OBVIOUS
<1>3. Sized /\ tile \in 0 .. F.tiles /\ F.tiles \in Nat
  BY <1>1, <1>2, FunctionFits DEF TransInv, RunInv, Current, IsTiling, Spoils
<1>4. Current' = F
  BY <1>1, <1>2 DEF Current, T!Function, T!transpose_submit, T!trans, T!transpose_submit_32,
     T!transpose_submit_64, T!transpose_submit_61, T!Across, T!Blocks8, T!RowOf, T!ColumnOf, T!Lesser
<1>5. PICK c : c = T!CopyTile(F.at[tile])
  OBVIOUS
<1>6. tile \in 0 .. F.tiles - 1 /\ tile + 1 \in 0 .. F.tiles
  BY <1>1, <1>2, <1>3
<1>7. PICK d : d = [B |-> c.B, sim |-> c.sim]
  OBVIOUS
<1>8. PICK t : t = tile + 1
  OBVIOUS
<1>9. Machine' = d /\ tile' = t /\ t \in 0 .. F.tiles /\ d.B = c.B /\ d.sim = c.sim
  BY <1>1, <1>2, <1>5, <1>6, <1>7, <1>8 DEF Machine
<1>10. ASSUME Fits(Registered[i]) PROVE Holds(Machine, UpToTile(Current, tile))'
  <2>1. IsTiling(F) /\ Holds(Machine, UpToTile(F, tile))
    BY <1>1, <1>2, <1>3, <1>10, FunctionFits DEF TransInv, RunInv, Current
  <2>2. Holds(c, UpToTile(F, t))
    BY <1>3, <1>5, <1>6, <1>8, <2>1, CopyTileHolds
  <2>3. Holds(d, UpToTile(F, t))
    BY <1>9, <2>2 DEF Holds
  <2>4. PICK D : D = UpToTile(F, t)
    OBVIOUS
  <2>5. UpToTile(Current, tile)' = D
    BY <1>1, <1>4, <1>9, <2>4 DEF UpToTile, Pairs
  <2> QED
    BY <1>1, <1>9, <2>3, <2>4, <2>5 DEF Holds, Rest
<1>11. ASSUME ~Fits(Registered[i]) PROVE Spoilt(Machine, Passed(Current, tile))'
  <2>1. Spoils(F) /\ Spoilt(Machine, Passed(F, tile))
    BY <1>1, <1>2, <1>3, <1>11, FunctionFits DEF TransInv, RunInv, Current
  <2>2. Spoilt(c, Passed(F, t))
    BY <1>3, <1>5, <1>6, <1>8, <2>1, CopyTileSpoils
  <2>3. Spoilt(d, Passed(F, t))
    BY <1>9, <2>2 DEF Spoilt
  <2>4. Passed(Current, tile)' <=> Passed(F, t)
    BY <1>1, <1>4, <1>9 DEF Passed
  <2> QED
    BY <1>1, <1>9, <2>3, <2>4 DEF Spoilt
<1>12. (Fits(Registered[i]))' <=> Fits(Registered[i])
  BY <1>1 DEF Fits, T!Whole
<1>13. RunInv'
  BY <1>1, <1>4, <1>9, <1>10, <1>11, <1>12 DEF RunInv
<1>14. GradeInv'
  BY <1>1 DEF TransInv, GradeInv, T!Whole
<1> QED
  BY <1>1, <1>13, <1>14 DEF TransInv, Sized

LEMMA EvaluateTransposes == TransInv /\ T!Evaluate => TransInv'
<1> SUFFICES ASSUME TransInv, T!Evaluate PROVE TransInv'
  OBVIOUS
<1>0. Registered \in Seq(STRING) /\ DOMAIN Registered = 1 .. Len(Registered) /\ Len(Registered) \in Nat
  BY MatrixAssumption
<1>1. /\ i \in DOMAIN Registered /\ tile = Current.tiles
      /\ tile' = 0 /\ M' = M /\ N' = N /\ i' = i + 1 /\ B' = T!FreshB /\ sim' = T!FreshSim
      /\ IF T!validate(B)
         THEN /\ results' = T!Records(T!Found)
              /\ func_list' = [func_list EXCEPT ![i] = [correct |-> 1, num_misses |-> sim.misses]]
         ELSE results' = T!Found /\ func_list' = func_list
  BY DEF T!Evaluate, Current
<1>2. PICK F : F = Current
  OBVIOUS
<1>3. Sized /\ Sized' /\ i \in 1 .. Len(Registered) /\ i' \in 1 .. Len(Registered) + 1
  BY <1>0, <1>1 DEF TransInv, Sized
<1>4. T!validate(B) <=> Fits(Registered[i])
  <2>1. Machine.B = B
    BY DEF Machine
  <2>2. ASSUME Fits(Registered[i]) PROVE T!validate(B)
    <3>1. IsTiling(F) /\ Holds(Machine, UpToTile(F, F.tiles))
      BY <1>1, <1>2, <1>3, <2>2, FunctionFits DEF TransInv, RunInv, Current
    <3> QED
      BY <1>3, <2>1, <3>1, TilingIsValid
  <2>3. ASSUME ~Fits(Registered[i]) PROVE ~T!validate(B)
    <3>1. Spoils(F) /\ M > 1 /\ Spoilt(Machine, Passed(F, F.tiles))
      BY <1>1, <1>2, <1>3, <2>3, FunctionFits DEF TransInv, RunInv, Current
    <3>2. Passed(F, F.tiles)
      BY <3>1 DEF Spoils, Passed
    <3>3. Spoilt(Machine, TRUE)
      BY <3>1, <3>2 DEF Spoilt
    <3> QED
      BY <1>3, <2>1, <3>1, <3>3, SpoiltIsInvalid
  <2> QED
    BY <2>2, <2>3
<1>5. RunInv'
  <2>1. PICK d : d = [B |-> T!FreshB, sim |-> T!FreshSim]
    OBVIOUS
  <2>2. PICK name, G : name = Registered[i'] /\ G = T!Function(name)
    OBVIOUS
  <2>3. Current' = G
    BY <1>1, <2>2 DEF Current, T!Function, T!transpose_submit, T!trans, T!transpose_submit_32,
       T!transpose_submit_64, T!transpose_submit_61, T!Across, T!Blocks8, T!RowOf, T!ColumnOf,
       T!Lesser
  <2>4. Machine' = d /\ d.B = T!FreshB /\ d.sim = T!FreshSim
    BY <1>1, <2>1 DEF Machine
  <2>5. Holds(d, UpToTile(G, 0)) /\ Spoilt(d, Passed(G, 0)) /\ G.tiles \in Nat
    BY <1>3, <2>2, <2>4, FreshHolds, FunctionFits DEF IsTiling, Spoils
  <2>6. PICK D : D = UpToTile(G, 0)
    OBVIOUS
  <2>7. UpToTile(Current, tile)' = D /\ (Passed(Current, tile)' <=> Passed(G, 0))
    BY <1>1, <2>3, <2>6 DEF UpToTile, Pairs, Passed
  <2>8. Holds(Machine, UpToTile(Current, tile))'
    BY <1>1, <2>4, <2>5, <2>6, <2>7 DEF Holds, Rest
  <2>9. Spoilt(Machine, Passed(Current, tile))'
    BY <1>1, <2>4, <2>5, <2>7 DEF Spoilt
  <2>10. B' = T!FreshB' /\ sim' = T!FreshSim'
    BY <1>1 DEF T!FreshB, T!FreshSim
  <2> QED
    BY <1>1, <2>3, <2>5, <2>8, <2>9, <2>10 DEF RunInv
<1>6. GradeInv'
  <2> DEFINE submits == Registered[i] = "transpose_submit"
  <2>1. T!Whole' = T!Whole /\ (Fits(Registered[i]) <=> (submits => T!Whole))
    BY <1>1 DEF T!Whole, Fits
  <2>2. GradeInv /\ i \in Nat /\ i' = i + 1 /\ 1 .. i' - 1 = (1 .. i - 1) \cup {i}
    BY <1>0, <1>1, <1>3 DEF TransInv
  <2>3. CASE submits /\ T!Whole
    <3>1. T!validate(B)
      BY <1>4, <2>1, <2>3
    <3>2. PICK r : r = results
      OBVIOUS
    <3>3. results' = [funcid |-> i, correct |-> 1, misses |-> sim.misses]
      <4>1. T!Found = [r EXCEPT !.funcid = i]
        BY <2>3, <3>2 DEF T!Found
      <4>2. r = [funcid |-> r.funcid, correct |-> r.correct, misses |-> r.misses]
        BY <2>2, <3>2 DEF GradeInv
      <4>3. T!Found = [funcid |-> i, correct |-> r.correct, misses |-> r.misses]
        BY <4>1, <4>2
      <4>4. PICK f : f = T!Found
        OBVIOUS
      <4>5. f.funcid = i /\ T!Records(f) = [f EXCEPT !.correct = 1, !.misses = sim.misses]
        BY <4>3, <4>4 DEF T!Records
      <4> QED
        BY <1>1, <3>1, <4>3, <4>4, <4>5
    <3>4. func_list' = [func_list EXCEPT ![i] = [correct |-> 1, num_misses |-> sim.misses]]
      BY <1>1, <3>1
    <3>5. DOMAIN func_list' = DOMAIN Registered /\ func_list'[i].num_misses = sim.misses
      BY <1>1, <2>2, <3>4 DEF GradeInv
    <3>6. /\ results'.funcid = i /\ results'.correct = 1 /\ results'.misses = sim.misses
      BY <3>3
    <3>7. results' = [funcid |-> results'.funcid, correct |-> results'.correct,
                      misses |-> results'.misses]
      BY <3>3, <3>6
    <3> QED
      BY <2>1, <2>2, <2>3, <3>5, <3>6, <3>7, <1>3 DEF GradeInv
  <2>4. CASE submits /\ ~T!Whole
    <3>1. ~T!validate(B)
      BY <1>4, <2>1, <2>4
    <3>2. PICK r : r = results
      OBVIOUS
    <3>3. results' = [r EXCEPT !.funcid = i] /\ func_list' = func_list
      BY <1>1, <2>4, <3>1, <3>2 DEF T!Found
    <3>4. r = [funcid |-> r.funcid, correct |-> r.correct, misses |-> r.misses]
      BY <2>2, <3>2 DEF GradeInv
    <3>5. results' = [funcid |-> i, correct |-> r.correct, misses |-> r.misses]
      BY <3>3, <3>4
    <3>6. results'.funcid = i /\ results'.correct = r.correct /\ results'.misses = r.misses
      BY <3>5
    <3>7. results' = [funcid |-> results'.funcid, correct |-> results'.correct,
                      misses |-> results'.misses]
      BY <3>5, <3>6
    <3>8. r.correct = 0 /\ r.misses = INT_MAX
      BY <2>2, <2>4, <3>2 DEF GradeInv
    <3> QED
      BY <2>1, <2>2, <2>4, <3>3, <3>6, <3>7, <3>8, <1>3 DEF GradeInv
  <2>5. CASE ~submits
    <3>1. T!validate(B) /\ T!Found = results
      BY <1>4, <2>1, <2>5 DEF T!Found
    <3>2. results.funcid # i
      BY <2>2 DEF GradeInv
    <3>3. results' = results
      BY <1>1, <3>1, <3>2 DEF T!Records
    <3>4. func_list' = [func_list EXCEPT ![i] = [correct |-> 1, num_misses |-> sim.misses]]
      BY <1>1, <3>1
    <3>5. /\ DOMAIN func_list' = DOMAIN Registered
          /\ \A f \in DOMAIN Registered : f # i => func_list'[f] = func_list[f]
      BY <2>2, <3>4 DEF GradeInv
    <3>6. results.funcid # -1 => results.funcid \in DOMAIN Registered
      BY <2>2, <1>0, <1>3 DEF GradeInv
    <3>7. \A f \in 1 .. i' - 1 : Registered[f] = "transpose_submit" => f \in 1 .. i - 1
      BY <2>2, <2>5
    <3>8. results.funcid = -1 \/ results.funcid \in 1 .. i' - 1
      BY <2>2 DEF GradeInv
    <3> QED
      BY <2>1, <2>2, <3>2, <3>3, <3>5, <3>6, <3>7, <3>8 DEF GradeInv
  <2> QED
    BY <2>3, <2>4, <2>5
<1> QED
  BY <1>1, <1>3, <1>5, <1>6 DEF TransInv

LEMMA StutterTransposes ==
  TransInv /\ UNCHANGED <<M, N, B, i, tile, sim, func_list, results>> => TransInv'
<1> SUFFICES ASSUME TransInv, UNCHANGED <<M, N, B, i, tile, sim, func_list, results>>
             PROVE  TransInv'
  OBVIOUS
<1>1. /\ M' = M /\ N' = N /\ B' = B /\ i' = i /\ tile' = tile /\ sim' = sim
      /\ func_list' = func_list /\ results' = results
  OBVIOUS
<1>2. Machine' = Machine
  BY <1>1 DEF Machine
<1>3. Current' = Current
  BY <1>1 DEF Current, T!Function, T!transpose_submit, T!trans, T!transpose_submit_32,
     T!transpose_submit_64, T!transpose_submit_61, T!Across, T!Blocks8, T!RowOf, T!ColumnOf,
     T!Lesser
<1>4. UpToTile(Current, tile)' = UpToTile(Current, tile) /\ Passed(Current, tile)' = Passed(Current, tile)
  BY <1>1, <1>3 DEF UpToTile, Pairs, Passed
<1>5. Holds(Machine, UpToTile(Current, tile))' <=> Holds(Machine, UpToTile(Current, tile))
  BY <1>1, <1>2, <1>4 DEF Holds, Rest
<1>6. Spoilt(Machine, Passed(Current, tile))' <=> Spoilt(Machine, Passed(Current, tile))
  BY <1>1, <1>2, <1>4 DEF Spoilt
<1>7. (Fits(Registered[i]))' <=> Fits(Registered[i])
  BY <1>1 DEF Fits, T!Whole
<1>8. RunInv'
  BY <1>1, <1>3, <1>5, <1>6, <1>7 DEF TransInv, RunInv, T!FreshB, T!FreshSim
<1>9. GradeInv'
  BY <1>1 DEF TransInv, GradeInv, T!Whole
<1> QED
  BY <1>1, <1>8, <1>9 DEF TransInv, Sized

(* While test-trans runs. *)
CachelabInv == program = "test-trans" => TransInv

LEMMA CachelabInvAlways == CachelabSpec => []CachelabInv
<1>1. CachelabInit => CachelabInv
  BY InitTransposes DEF CachelabInit, CachelabInv
<1>2. CachelabInv /\ [CachelabNext]_CachelabVars => CachelabInv'
  <2> SUFFICES ASSUME CachelabInv, [CachelabNext]_CachelabVars PROVE CachelabInv'
    OBVIOUS
  <2>1. CASE Simulate
    BY <2>1 DEF Simulate, CachelabInv
  <2>2. CASE Transposes
    BY <2>2, CopyTransposes, EvaluateTransposes DEF Transposes, T!Next, CachelabInv
  <2>3. CASE UNCHANGED CachelabVars
    BY <2>3, StutterTransposes DEF CachelabVars, matrixVars, CachelabInv
  <2> QED
    BY <2>1, <2>2, <2>3 DEF CachelabNext
<1> QED
  BY <1>1, <1>2, PTL DEF CachelabSpec

(* Every transpose copies every element of A to its cell of B once and      *)
(* writes nothing behind the matrix, whenever its tiles fit: the loops of  *)
(* trans.c cover the matrix without overlap, for every size.               *)
THEOREM TransposesCopyOnce == CachelabSpec => []CopiesOnce
<1>1. CachelabInv => CopiesOnce
  BY TransImplies DEF CachelabInv, CopiesOnce
<1> QED
  BY <1>1, CachelabInvAlways, PTL

(* The submission is graded correct exactly for the sizes that its tiles   *)
(* fit, and with the misses of its own valid run, whatever else is         *)
(* registered before or after it (transpose_submit, validate, eval_perf).  *)
THEOREM TransposesGraded == SubmissionRegistered /\ CachelabSpec => []Graded
<1>1. SubmissionRegistered /\ CachelabInv => Graded
  BY TransImplies DEF CachelabInv, Graded
<1>2. SubmissionRegistered => []SubmissionRegistered
  <2>1. SubmissionRegistered => SubmissionRegistered'
    BY DEF SubmissionRegistered
  <2> QED
    BY <2>1, PTL
<1> QED
  BY <1>1, <1>2, CachelabInvAlways, PTL

(* Within a run of the lab's programs csim is the one of its own module. *)
THEOREM CachelabRunsCsim == CachelabSpec => []CsimInv /\ IsLRU
<1>1. CachelabInit => Init
  BY DEF CachelabInit
<1>2. [CachelabNext]_CachelabVars => [Next]_vars
  BY DEF CachelabNext, Simulate, Transposes, CachelabVars, csimVars
<1>3. CachelabSpec => Spec
  BY <1>1, <1>2, PTL DEF CachelabSpec, Spec
<1> QED
  BY <1>3, CsimIsSound, CsimIsLRU
=============================================================================
