----------------------------- MODULE HeapProofs -----------------------------
(***************************************************************************)
(* The kernel heap, for every alignment, header, page size, address range  *)
(* and set of requests: the block list tiles the heap, the used blocks are *)
(* the live allocations, kmalloc stops the kernel only for want of memory, *)
(* and the heap implements the allocator its users rely on.                *)
(***************************************************************************)
EXTENDS Heap, Integers, SequenceTheorems, FiniteSetTheorems, TLAPS

Block == [addr : Nat, size : Nat \ {0}, free : BOOLEAN]

(* A multiple of the alignment.                                            *)
Aligned(n) == n % Align = 0

(* bs covers the addresses from Base to top in order, in aligned blocks.   *)
Chain(bs, top) ==
  /\ bs \in Seq(Block) /\ Len(bs) > 0 /\ top \in Nat
  /\ bs[1].addr = Base /\ End(bs[Len(bs)]) = top
  /\ \A i \in 1..(Len(bs) - 1) : End(bs[i]) = bs[i + 1].addr
  /\ \A i \in 1..Len(bs) : Aligned(bs[i].addr) /\ Aligned(bs[i].size)

IsFree(b) == b.free

(* No block but those in X is free and followed by a free one.             *)
MergedBut(bs, X) == \A i \in (1..(Len(bs) - 1)) \ X : ~ (IsFree(bs[i]) /\ IsFree(bs[i + 1]))

(* A used block with payload at p, of n bytes.                             *)
UsedAt(bs, p, n) == \E i \in 1..Len(bs) : ~ IsFree(bs[i]) /\ Payload(bs[i]) = p /\ bs[i].size = n

-----------------------------------------------------------------------------
(* Replacing entry i by two entries, and entries i and i + 1 by one.       *)
OneByTwo(s, i, a, b) == SubSeq(s, 1, i - 1) \o <<a, b>> \o SubSeq(s, i + 1, Len(s))
TwoByOne(s, i, a) == SubSeq(s, 1, i - 1) \o <<a>> \o SubSeq(s, i + 2, Len(s))

IsOneByTwo(r, s, i, a, b) ==
  /\ Len(r) = Len(s) + 1
  /\ \A k \in 1..(i - 1) : r[k] = s[k]
  /\ r[i] = a /\ r[i + 1] = b
  /\ \A k \in (i + 2)..(Len(s) + 1) : r[k] = s[k - 1]

IsTwoByOne(r, s, i, a) ==
  /\ Len(r) = Len(s) - 1
  /\ \A k \in 1..(i - 1) : r[k] = s[k]
  /\ r[i] = a
  /\ \A k \in (i + 1)..(Len(s) - 1) : r[k] = s[k + 1]

LEMMA SpliceTwo ==
  ASSUME NEW T, NEW s \in Seq(T), NEW i \in 1..Len(s), NEW a \in T, NEW b \in T
  PROVE  OneByTwo(s, i, a, b) \in Seq(T) /\ IsOneByTwo(OneByTwo(s, i, a, b), s, i, a, b)
  <1>0. PICK r : r = OneByTwo(s, i, a, b)
    OBVIOUS
  <1>1. PICK n \in Nat : n = Len(s)
    OBVIOUS
  <1>2. PICK u : u = SubSeq(s, 1, i - 1)
    OBVIOUS
  <1>3. PICK w : w = SubSeq(s, i + 1, Len(s))
    OBVIOUS
  <1>4. u \in Seq(T) /\ Len(u) = i - 1 /\ \A k \in 1..(i - 1) : u[k] = s[k]
    BY <1>2
  <1>5. w \in Seq(T) /\ Len(w) = n - i /\ \A k \in 1..(n - i) : w[k] = s[i + k]
    BY <1>1, <1>3
  <1>6. r = u \o <<a, b>> \o w
    BY <1>0, <1>2, <1>3 DEF OneByTwo
  <1>7. /\ r \in Seq(T) /\ Len(r) = Len(u) + 2 + Len(w)
        /\ \A k \in 1..Len(u) : r[k] = u[k]
        /\ r[Len(u) + 1] = a /\ r[Len(u) + 2] = b
        /\ \A k \in 1..Len(w) : r[Len(u) + 2 + k] = w[k]
    <2>1. u \in Seq(T) /\ w \in Seq(T)
      BY <1>4, <1>5
    <2> QED BY ONLY <2>1, <1>6, a \in T, b \in T
  <1>8. /\ Len(r) = n + 1
        /\ \A k \in 1..(i - 1) : r[k] = s[k]
        /\ r[i] = a /\ r[i + 1] = b
        /\ \A k \in 1..(n - i) : r[(i + 1) + k] = s[i + k]
    <2>1. Len(u) + 1 = i /\ Len(u) + 2 = i + 1 /\ Len(u) + 2 + Len(w) = n + 1
      BY ONLY <1>4, <1>5, n \in Nat, i \in Nat
    <2>2. \A k \in 1..(n - i) : Len(u) + 2 + k = (i + 1) + k
      BY ONLY <1>4, n \in Nat, i \in Nat
    <2>3. Len(r) = n + 1 /\ r[i] = a /\ r[i + 1] = b
      BY ONLY <1>7, <2>1
    <2>4. \A k \in 1..(i - 1) : r[k] = s[k]
      BY ONLY <1>4, <1>7
    <2>5. ASSUME NEW k \in 1..(n - i) PROVE r[(i + 1) + k] = s[i + k]
      BY ONLY <1>5, <1>7, <2>2, k \in 1..(n - i)
    <2> QED BY ONLY <2>3, <2>4, <2>5
  <1>9. ASSUME NEW k \in 1..(n + 1), k > i + 1
        PROVE  r[k] = s[k - 1]
    <2>1. k - (i + 1) \in 1..(n - i) /\ (i + 1) + (k - (i + 1)) = k /\ i + (k - (i + 1)) = k - 1
      BY ONLY <1>9, n \in Nat, i \in Nat, k \in 1..(n + 1)
    <2>2. r[(i + 1) + (k - (i + 1))] = s[i + (k - (i + 1))]
      BY ONLY <2>1, <1>8
    <2> QED BY ONLY <2>1, <2>2
  <1> QED
    <2>1. i \in 1..n /\ r \in Seq(T)
      BY <1>1, <1>7
    <2>2. \A k \in (i + 2)..(n + 1) : r[k] = s[k - 1]
      BY ONLY <1>1, <1>9, <2>1
    <2> QED BY ONLY <1>0, <1>1, <1>8, <2>1, <2>2 DEF IsOneByTwo

LEMMA SpliceOne ==
  ASSUME NEW T, NEW s \in Seq(T), NEW i \in 1..(Len(s) - 1), NEW a \in T
  PROVE  TwoByOne(s, i, a) \in Seq(T) /\ IsTwoByOne(TwoByOne(s, i, a), s, i, a)
  <1>0. PICK r : r = TwoByOne(s, i, a)
    OBVIOUS
  <1>1. PICK n \in Nat : n = Len(s)
    OBVIOUS
  <1>2. PICK u : u = SubSeq(s, 1, i - 1)
    OBVIOUS
  <1>3. PICK w : w = SubSeq(s, i + 2, Len(s))
    OBVIOUS
  <1>4. u \in Seq(T) /\ Len(u) = i - 1 /\ \A k \in 1..(i - 1) : u[k] = s[k]
    BY <1>2
  <1>5. w \in Seq(T) /\ Len(w) = n - (i + 1) /\ \A k \in 1..(n - (i + 1)) : w[k] = s[(i + 1) + k]
    BY <1>1, <1>3, SMTT(30)
  <1>6. r = u \o <<a>> \o w
    BY <1>0, <1>2, <1>3 DEF TwoByOne
  <1>7. /\ r \in Seq(T) /\ Len(r) = Len(u) + 1 + Len(w)
        /\ \A k \in 1..Len(u) : r[k] = u[k]
        /\ r[Len(u) + 1] = a
        /\ \A k \in 1..Len(w) : r[Len(u) + 1 + k] = w[k]
    <2>1. u \in Seq(T) /\ w \in Seq(T)
      BY <1>4, <1>5
    <2> QED BY ONLY <2>1, <1>6, a \in T
  <1>8. /\ Len(r) = n - 1
        /\ \A k \in 1..(i - 1) : r[k] = s[k]
        /\ r[i] = a
        /\ \A k \in 1..(n - (i + 1)) : r[i + k] = s[(i + 1) + k]
    <2>1. Len(u) + 1 = i /\ Len(u) + 1 + Len(w) = n - 1
      BY ONLY <1>4, <1>5, n \in Nat, i \in Nat
    <2>2. \A k \in 1..(n - (i + 1)) : Len(u) + 1 + k = i + k
      BY ONLY <1>4, n \in Nat, i \in Nat
    <2>3. Len(r) = n - 1 /\ r[i] = a
      BY ONLY <1>7, <2>1
    <2>4. \A k \in 1..(i - 1) : r[k] = s[k]
      BY ONLY <1>4, <1>7
    <2>5. ASSUME NEW k \in 1..(n - (i + 1)) PROVE r[i + k] = s[(i + 1) + k]
      BY ONLY <1>5, <1>7, <2>2, k \in 1..(n - (i + 1))
    <2> QED BY ONLY <2>3, <2>4, <2>5
  <1>9. ASSUME NEW k \in 1..(n - 1), k > i
        PROVE  r[k] = s[k + 1]
    <2>1. k - i \in 1..(n - (i + 1)) /\ i + (k - i) = k /\ (i + 1) + (k - i) = k + 1
      BY ONLY <1>9, n \in Nat, i \in Nat, k \in 1..(n - 1)
    <2>2. r[i + (k - i)] = s[(i + 1) + (k - i)]
      BY ONLY <2>1, <1>8
    <2> QED BY ONLY <2>1, <2>2
  <1> QED
    <2>1. i \in 1..(n - 1) /\ r \in Seq(T)
      BY <1>1, <1>7
    <2>2. \A k \in (i + 1)..(n - 1) : r[k] = s[k + 1]
      BY ONLY <1>1, <1>9, <2>1
    <2> QED BY ONLY <1>0, <1>1, <1>8, <2>1, <2>2 DEF IsTwoByOne

-----------------------------------------------------------------------------
(* Multiples of the alignment.                                             *)
LEMMA AlignedQuotient ==
  ASSUME NEW a \in Nat, Aligned(a) PROVE \E q \in Nat : a = q * Align
  <1>1. Align \in Nat \ {0}
    BY HeapAssumption
  <1>2. (a \div Align) * Align = a /\ a \div Align \in Nat
    BY <1>1 DEF Aligned
  <1> QED BY <1>2

LEMMA AlignedMultiple ==
  ASSUME NEW q \in Nat PROVE Aligned(q * Align)
  BY HeapAssumption DEF Aligned

LEMMA AlignedSum ==
  ASSUME NEW a \in Nat, NEW b \in Nat, Aligned(a), Aligned(b) PROVE Aligned(a + b)
  <1>1. PICK p \in Nat : a = p * Align
    BY AlignedQuotient
  <1>2. PICK q \in Nat : b = q * Align
    BY AlignedQuotient
  <1>3. a + b = (p + q) * Align /\ p + q \in Nat
    BY <1>1, <1>2, HeapAssumption
  <1> QED BY <1>3, AlignedMultiple

LEMMA AlignedDifference ==
  ASSUME NEW a \in Nat, NEW b \in Nat, Aligned(a), Aligned(b), b <= a
  PROVE  Aligned(a - b)
  <1>1. PICK p \in Nat : a = p * Align
    BY AlignedQuotient
  <1>2. PICK q \in Nat : b = q * Align
    BY AlignedQuotient
  <1>3. a - b = (p - q) * Align
    BY <1>1, <1>2, HeapAssumption
  <1>4. p - q \in Nat
    BY <1>1, <1>2, HeapAssumption
  <1> QED BY <1>3, <1>4, AlignedMultiple

LEMMA AlignedProduct ==
  ASSUME NEW a \in Nat, NEW n \in Nat, Aligned(a) PROVE Aligned(n * a)
  <1>1. PICK p \in Nat : a = p * Align
    BY AlignedQuotient
  <1>2. n * a = (n * p) * Align /\ n * p \in Nat
    BY <1>1, HeapAssumption
  <1> QED BY <1>2, AlignedMultiple

(* align_up_size rounds up to the next multiple.                           *)
LEMMA AlignUp ==
  ASSUME NEW n \in Nat \ {0}
  PROVE  /\ align_up(n) \in Nat \ {0} /\ Aligned(align_up(n))
         /\ n <= align_up(n) /\ align_up(n) <= n + Align - 1
  BY HeapAssumption DEF align_up, Aligned

-----------------------------------------------------------------------------
(* The constants are numbers.                                              *)
LEMMA Sizes ==
  /\ Align \in Nat \ {0} /\ Header \in Nat \ {0} /\ MinSplit \in Nat \ {0}
  /\ PageSize \in Nat \ {0} /\ Base \in Nat /\ Limit \in Nat /\ SizeMax \in Nat
  BY HeapAssumption

LEMMA LeastNat == ASSUME NEW S \in SUBSET Nat, S # {} PROVE \E n \in S : \A m \in S : n <= m
  <1> DEFINE R == OpToRel(<, Nat)
  <1>1. IsWellFoundedOn(R, Nat)
    BY NatLessThanWellFounded
  <1>2. \A x, y \in Nat : <<x, y>> \in R <=> x < y
    BY DEF OpToRel
  <1> HIDE DEF R
  <1>3. PICK x \in S : \A y \in S : ~ (<<y, x>> \in R)
    BY <1>1, WFMin
  <1>4. \A y \in S : x <= y
    <2> TAKE y \in S
    <2>1. x \in Nat /\ y \in Nat
      OBVIOUS
    <2>2. ~ (y < x)
      BY <1>2, <1>3, <2>1
    <2> QED BY <2>1, <2>2
  <1> QED BY <1>4

(* The parts of a chain, as numbers.                                       *)
LEMMA ChainParts ==
  ASSUME NEW bs, NEW top, Chain(bs, top)
  PROVE  /\ Len(bs) \in Nat \ {0} /\ DOMAIN bs = 1..Len(bs) /\ top \in Nat
         /\ \A i \in 1..Len(bs) :
              /\ bs[i] \in Block /\ bs[i].addr \in Nat /\ bs[i].size \in Nat \ {0}
              /\ bs[i].free \in BOOLEAN
              /\ End(bs[i]) \in Nat /\ End(bs[i]) = bs[i].addr + Header + bs[i].size
              /\ bs[i].addr + Header < End(bs[i])
  <1>1. bs \in Seq(Block) /\ Len(bs) > 0 /\ top \in Nat
    BY DEF Chain
  <1>2. Len(bs) \in Nat \ {0} /\ DOMAIN bs = 1..Len(bs) /\ \A i \in 1..Len(bs) : bs[i] \in Block
    BY <1>1
  <1>3. \A b \in Block : b.addr \in Nat /\ b.size \in Nat \ {0} /\ b.free \in BOOLEAN
    BY DEF Block
  <1>4. ASSUME NEW b \in Block
        PROVE  End(b) \in Nat /\ End(b) = b.addr + Header + b.size /\ b.addr + Header < End(b)
    BY <1>3, Sizes DEF End
  <1> QED BY <1>1, <1>2, <1>3, <1>4

(* A block ends where a later one starts or before: by the least block     *)
(* that would start too early.                                             *)
LEMMA ChainOrder ==
  ASSUME NEW bs, NEW top, Chain(bs, top)
  PROVE  /\ \A i, j \in 1..Len(bs) : i < j => End(bs[i]) <= bs[j].addr
         /\ \A i \in 1..Len(bs) : Base <= bs[i].addr /\ End(bs[i]) <= top
  <1>1. /\ Len(bs) \in Nat \ {0}
        /\ \A i \in 1..Len(bs) : bs[i].addr \in Nat /\ End(bs[i]) \in Nat
                                 /\ bs[i].addr < End(bs[i])
    BY ChainParts, Sizes
  <1>2. /\ \A i \in 1..(Len(bs) - 1) : End(bs[i]) = bs[i + 1].addr
        /\ bs[1].addr = Base /\ End(bs[Len(bs)]) = top
    BY DEF Chain
  <1>3. ASSUME NEW i \in 1..Len(bs), NEW j \in 1..Len(bs), i < j
        PROVE  End(bs[i]) <= bs[j].addr
    <2> DEFINE S == {k \in Nat : i < k /\ k <= Len(bs) /\ ~ (End(bs[i]) <= bs[k].addr)}
    <2>1. SUFFICES ASSUME S # {} PROVE FALSE
      BY <1>1, <1>3
    <2>2. PICK k \in S : \A m \in S : k <= m
      BY <2>1, LeastNat
    <2>3. k # i + 1
      BY <1>1, <1>2, <2>2
    <2>4. k - 1 \in Nat /\ i < k - 1 /\ k - 1 <= Len(bs) /\ k - 1 \notin S
      BY <1>1, <2>2, <2>3
    <2>5. End(bs[i]) <= bs[k - 1].addr
      BY <2>4
    <2>6. End(bs[k - 1]) = bs[k].addr
      BY <1>1, <1>2, <2>2, <2>4
    <2> QED BY <1>1, <2>2, <2>4, <2>5, <2>6, SMTT(30)
  <1>4. ASSUME NEW i \in 1..Len(bs) PROVE Base <= bs[i].addr /\ End(bs[i]) <= top
    <2>1. Base <= bs[i].addr
      <3>1. 1 \in 1..Len(bs) /\ bs[1].addr \in Nat /\ bs[1].addr < End(bs[1])
        BY <1>1
      <3>2. CASE i = 1
        BY <1>2, <3>1, <3>2
      <3>3. CASE 1 < i
        <4>1. End(bs[1]) <= bs[i].addr
          BY <1>3, <3>1, <3>3
        <4> QED BY <1>1, <1>2, <3>1, <4>1
      <3> QED BY <1>1, <3>2, <3>3
    <2>2. End(bs[i]) <= top
      BY <1>1, <1>2, <1>3
    <2> QED BY <2>1, <2>2
  <1> QED BY <1>3, <1>4

(* So a payload belongs to one block.                                      *)
LEMMA PayloadUnique ==
  ASSUME NEW bs, NEW top, Chain(bs, top), NEW i \in 1..Len(bs), NEW j \in 1..Len(bs),
         Payload(bs[i]) = Payload(bs[j])
  PROVE  i = j
  <1>1. \A k \in 1..Len(bs) : bs[k].addr \in Nat /\ bs[k].addr + Header < End(bs[k])
    BY ChainParts
  <1>2. \A k, m \in 1..Len(bs) : k < m => End(bs[k]) <= bs[m].addr
    BY ChainOrder
  <1>3. bs[i].addr = bs[j].addr
    <2>1. bs[i].addr + Header = bs[j].addr + Header
      BY DEF Payload
    <2> QED BY <1>1, <2>1, Sizes
  <1>4. i < j => End(bs[i]) <= bs[j].addr
    BY <1>2
  <1>5. j < i => End(bs[j]) <= bs[i].addr
    BY <1>2
  <1>6. End(bs[i]) \in Nat /\ End(bs[j]) \in Nat
    BY ChainParts
  <1> QED BY <1>1, <1>3, <1>4, <1>5, <1>6, Sizes

-----------------------------------------------------------------------------
(* A chain in which one block has been replaced by two that cover it.      *)
LEMMA ChainSplit ==
  ASSUME NEW bs, NEW top, Chain(bs, top), NEW i \in 1..Len(bs),
         NEW c \in Block, NEW d \in Block, NEW r,
         r = OneByTwo(bs, i, c, d),
         c.addr = bs[i].addr, End(c) = d.addr, End(d) = End(bs[i]),
         Aligned(c.addr), Aligned(c.size), Aligned(d.addr), Aligned(d.size)
  PROVE  Chain(r, top)
  <1>1. PICK len \in Nat \ {0} : len = Len(bs)
    BY ChainParts
  <1>2. bs \in Seq(Block) /\ i \in 1..len /\ top \in Nat
    BY <1>1 DEF Chain
  <1>3. bs[1].addr = Base /\ End(bs[len]) = top
    BY <1>1 DEF Chain
  <1>4. \A k \in 1..(len - 1) : End(bs[k]) = bs[k + 1].addr
    BY <1>1 DEF Chain
  <1>5. \A k \in 1..len : Aligned(bs[k].addr) /\ Aligned(bs[k].size)
    BY <1>1 DEF Chain
  <1>5a. r \in Seq(Block) /\ IsOneByTwo(r, bs, i, c, d)
    BY <1>2, SpliceTwo
  <1>6. r \in Seq(Block) /\ Len(r) = len + 1
    BY <1>1, <1>5a DEF IsOneByTwo
  <1>7. /\ \A k \in 1..(i - 1) : r[k] = bs[k]
        /\ r[i] = c /\ r[i + 1] = d
        /\ \A k \in (i + 2)..(len + 1) : r[k] = bs[k - 1]
    BY ONLY <1>1, <1>5a DEF IsOneByTwo
  <1>8. c.addr = bs[i].addr /\ End(c) = d.addr /\ End(d) = End(bs[i]) /\ i \in 1..len
    BY <1>2
  <1>9. r[1].addr = Base
    BY ONLY <1>1, <1>3, <1>7, <1>8
  <1>10. End(r[len + 1]) = top
    BY ONLY <1>1, <1>3, <1>7, <1>8
  <1>11. ASSUME NEW k \in 1..len PROVE End(r[k]) = r[k + 1].addr
    BY ONLY <1>1, <1>4, <1>7, <1>8, k \in 1..len
  <1>12. ASSUME NEW k \in 1..(len + 1) PROVE Aligned(r[k].addr) /\ Aligned(r[k].size)
    <2>1. Aligned(c.addr) /\ Aligned(c.size) /\ Aligned(d.addr) /\ Aligned(d.size)
      OBVIOUS
    <2>2. r[k] = c \/ r[k] = d \/ \E m \in 1..len : r[k] = bs[m]
      BY ONLY <1>1, <1>7, <1>8, k \in 1..(len + 1)
    <2> QED BY ONLY <1>5, <2>1, <2>2
  <1>13. Len(r) - 1 = len /\ Len(r) > 0
    BY ONLY <1>1, <1>6
  <1> QED BY <1>2, <1>6, <1>9, <1>10, <1>11, <1>12, <1>13 DEF Chain

(* A chain in which two neighbours have been replaced by one block.        *)
LEMMA ChainMerge ==
  ASSUME NEW bs, NEW top, Chain(bs, top), NEW i \in 1..(Len(bs) - 1),
         NEW c \in Block, NEW r, r = TwoByOne(bs, i, c),
         c.addr = bs[i].addr, End(c) = End(bs[i + 1]), Aligned(c.addr), Aligned(c.size)
  PROVE  Chain(r, top)
  <1>1. PICK len \in Nat \ {0} : len = Len(bs)
    BY ChainParts
  <1>2. bs \in Seq(Block) /\ i \in 1..(len - 1) /\ top \in Nat
    BY <1>1 DEF Chain
  <1>3. bs[1].addr = Base /\ End(bs[len]) = top
    BY <1>1 DEF Chain
  <1>4. \A k \in 1..(len - 1) : End(bs[k]) = bs[k + 1].addr
    BY <1>1 DEF Chain
  <1>5. \A k \in 1..len : Aligned(bs[k].addr) /\ Aligned(bs[k].size)
    BY <1>1 DEF Chain
  <1>6. r \in Seq(Block) /\ IsTwoByOne(r, bs, i, c)
    BY <1>2, SpliceOne
  <1>7. /\ Len(r) = len - 1
        /\ \A k \in 1..(i - 1) : r[k] = bs[k]
        /\ r[i] = c
        /\ \A k \in (i + 1)..(len - 1) : r[k] = bs[k + 1]
    BY ONLY <1>1, <1>6 DEF IsTwoByOne
  <1>8. c.addr = bs[i].addr /\ End(c) = End(bs[i + 1]) /\ i \in 1..(len - 1)
    BY <1>2
  <1>9. r[1].addr = Base
    BY ONLY <1>1, <1>3, <1>7, <1>8
  <1>10. End(r[len - 1]) = top
    BY ONLY <1>1, <1>3, <1>7, <1>8
  <1>11. ASSUME NEW k \in 1..(len - 2) PROVE End(r[k]) = r[k + 1].addr
    BY ONLY <1>1, <1>4, <1>7, <1>8, k \in 1..(len - 2)
  <1>12. ASSUME NEW k \in 1..(len - 1) PROVE Aligned(r[k].addr) /\ Aligned(r[k].size)
    <2>1. Aligned(c.addr) /\ Aligned(c.size)
      OBVIOUS
    <2>2. r[k] = c \/ \E m \in 1..len : r[k] = bs[m]
      BY ONLY <1>1, <1>7, <1>8, k \in 1..(len - 1)
    <2> QED BY ONLY <1>5, <2>1, <2>2
  <1>13. Len(r) - 1 = len - 2 /\ Len(r) > 0
    BY ONLY <1>1, <1>2, <1>7
  <1> QED BY <1>2, <1>6, <1>7, <1>9, <1>10, <1>11, <1>12, <1>13 DEF Chain

(* A chain in which a block has been marked free or used.                  *)
Replaced(s, i, a) == [s EXCEPT ![i] = a]
IsReplaced(r, s, i, a) ==
  Len(r) = Len(s) /\ r[i] = a /\ \A k \in 1..Len(s) : k # i => r[k] = s[k]

LEMMA ChainMark ==
  ASSUME NEW bs, NEW top, Chain(bs, top), NEW i \in 1..Len(bs), NEW c \in Block, NEW r,
         r = Replaced(bs, i, c), c.addr = bs[i].addr, c.size = bs[i].size
  PROVE  Chain(r, top) /\ IsReplaced(r, bs, i, c)
  <1>1. PICK len \in Nat \ {0} : len = Len(bs)
    BY ChainParts
  <1>2. bs \in Seq(Block) /\ i \in 1..len /\ top \in Nat
    BY <1>1 DEF Chain
  <1>3. r \in Seq(Block) /\ Len(r) = len /\ \A k \in 1..len : r[k] = IF k = i THEN c ELSE bs[k]
    BY <1>1, <1>2 DEF Replaced
  <1>4. \A k \in 1..len : r[k].addr = bs[k].addr /\ r[k].size = bs[k].size /\ End(r[k]) = End(bs[k])
    BY ONLY <1>3, c.addr = bs[i].addr, c.size = bs[i].size DEF End
  <1>5. bs[1].addr = Base /\ End(bs[len]) = top
    BY <1>1 DEF Chain
  <1>6. \A k \in 1..(len - 1) : End(bs[k]) = bs[k + 1].addr
    BY <1>1 DEF Chain
  <1>7. \A k \in 1..len : Aligned(bs[k].addr) /\ Aligned(bs[k].size)
    BY <1>1 DEF Chain
  <1>8. r[1].addr = Base /\ End(r[len]) = top
    BY ONLY <1>1, <1>4, <1>5
  <1>9. \A k \in 1..(len - 1) : End(r[k]) = r[k + 1].addr
    BY ONLY <1>1, <1>4, <1>6
  <1>10. \A k \in 1..len : Aligned(r[k].addr) /\ Aligned(r[k].size)
    BY ONLY <1>4, <1>7
  <1>11. Chain(r, top)
    BY ONLY <1>1, <1>2, <1>3, <1>8, <1>9, <1>10 DEF Chain
  <1> QED BY ONLY <1>1, <1>2, <1>3, <1>11 DEF IsReplaced

-----------------------------------------------------------------------------
(* What the fields of a block are.                                         *)
LEMMA BlockParts ==
  ASSUME NEW b \in Block
  PROVE  b.addr \in Nat /\ b.size \in Nat \ {0} /\ b.free \in BOOLEAN
  BY DEF Block

(* Blocks as the operations make them.                                     *)
NewBlock(a, n, f) == [addr |-> a, size |-> n, free |-> f]
Resized(b, n, f) == [b EXCEPT !.size = n, !.free = f]
Marked(b, f) == [b EXCEPT !.free = f]

LEMMA MakeBlock ==
  ASSUME NEW a \in Nat, NEW n \in Nat \ {0}, NEW f \in BOOLEAN
  PROVE  /\ NewBlock(a, n, f) \in Block
         /\ NewBlock(a, n, f).addr = a /\ NewBlock(a, n, f).size = n
         /\ IsFree(NewBlock(a, n, f)) <=> f
         /\ End(NewBlock(a, n, f)) = a + Header + n
  BY DEF Block, IsFree, End, NewBlock

LEMMA ResizeBlock ==
  ASSUME NEW b \in Block, NEW n \in Nat \ {0}, NEW f \in BOOLEAN
  PROVE  /\ Resized(b, n, f) \in Block
         /\ Resized(b, n, f).addr = b.addr /\ Resized(b, n, f).size = n
         /\ IsFree(Resized(b, n, f)) <=> f
         /\ End(Resized(b, n, f)) = b.addr + Header + n
         /\ Payload(Resized(b, n, f)) = Payload(b)
  BY DEF Block, IsFree, End, Payload, Resized

LEMMA MarkBlock ==
  ASSUME NEW b \in Block, NEW f \in BOOLEAN
  PROVE  /\ Marked(b, f) \in Block
         /\ Marked(b, f).addr = b.addr /\ Marked(b, f).size = b.size
         /\ IsFree(Marked(b, f)) <=> f
         /\ Payload(Marked(b, f)) = Payload(b)
  BY DEF Block, IsFree, Payload, Marked

(* split_block_if_large_enough, and is_free = 0: the block handed out is   *)
(* the i-th, large enough, and the only one that has become used.          *)
LEMMA SplitBlock ==
  ASSUME NEW bs, NEW top, Chain(bs, top), MergedBut(bs, {}),
         NEW i \in 1..Len(bs), IsFree(bs[i]),
         NEW w \in Nat \ {0}, Aligned(w), w <= bs[i].size,
         NEW r, r = split_block(bs, i, w)
  PROVE  /\ Chain(r, top) /\ MergedBut(r, {})
         /\ \E n \in Nat : /\ w <= n
                           /\ \A p, m : UsedAt(r, p, m) <=> \/ UsedAt(bs, p, m)
                                                            \/ p = Payload(bs[i]) /\ m = n
  <1>1. PICK len \in Nat \ {0} : len = Len(bs)
    BY ChainParts
  <1>2. i \in 1..len
    BY <1>1
  <1>3. PICK b \in Block : b = bs[i]
    BY ChainParts
  <1>4. b.addr \in Nat /\ b.size \in Nat \ {0} /\ w <= b.size /\ End(b) = b.addr + Header + b.size
    BY <1>3, BlockParts DEF End
  <1>5. \A k \in 1..(len - 1) : ~ (IsFree(bs[k]) /\ IsFree(bs[k + 1]))
    BY <1>1 DEF MergedBut
  <1>6. CASE b.size - w < Header + MinSplit
    <2>1. PICK c : c = Marked(b, FALSE)
      OBVIOUS
    <2>2. /\ c \in Block /\ c.addr = b.addr /\ c.size = b.size /\ ~ IsFree(c)
          /\ Payload(c) = Payload(b)
      BY <2>1, MarkBlock
    <2>3. r = Replaced(bs, i, c)
      BY <1>3, <1>6, <2>1 DEF split_block, Replaced, Marked
    <2>4. Chain(r, top) /\ IsReplaced(r, bs, i, c)
      BY <1>3, <2>2, <2>3, ChainMark
    <2>5. Len(r) = len /\ r[i] = c /\ \A k \in 1..len : k # i => r[k] = bs[k]
      BY ONLY <1>1, <2>4 DEF IsReplaced
    <2>6. MergedBut(r, {})
      BY ONLY <1>1, <1>2, <1>5, <2>2, <2>5 DEF MergedBut
    <2>7. ASSUME NEW p, NEW m
          PROVE  UsedAt(r, p, m) <=> UsedAt(bs, p, m) \/ (p = Payload(bs[i]) /\ m = b.size)
      <3>1. IsFree(bs[i])
        OBVIOUS
      <3> QED BY ONLY <1>1, <1>2, <1>3, <2>2, <2>5, <3>1 DEF UsedAt
    <2> QED BY <1>4, <2>4, <2>6, <2>7
  <1>7. CASE ~ (b.size - w < Header + MinSplit)
    <2>1. PICK c : c = Resized(b, w, FALSE)
      OBVIOUS
    <2>2. PICK d : d = NewBlock(b.addr + Header + w, b.size - w - Header, TRUE)
      OBVIOUS
    <2>3. r = OneByTwo(bs, i, c, d)
      BY <1>3, <1>7, <2>1, <2>2 DEF split_block, OneByTwo, Resized, NewBlock
    <2>4. b.addr + Header + w \in Nat /\ b.size - w - Header \in Nat \ {0}
      <3>1. PICK n \in Nat : n = b.size /\ w <= n
        BY <1>4
      <3>2. ~ (n - w < Header + MinSplit)
        BY ONLY <1>7, <3>1
      <3>3. n - w - Header > 0 /\ n - w - Header \in Int
        BY ONLY <3>1, <3>2, Sizes, w \in Nat
      <3> QED BY ONLY <1>4, <3>1, <3>3, Sizes, w \in Nat, SMTT(30)
    <2>5. /\ c \in Block /\ c.addr = b.addr /\ c.size = w /\ ~ IsFree(c)
          /\ End(c) = b.addr + Header + w /\ Payload(c) = Payload(b)
      BY <2>1, ResizeBlock
    <2>6. /\ d \in Block /\ d.addr = b.addr + Header + w /\ d.size = b.size - w - Header
          /\ IsFree(d)
          /\ End(d) = (b.addr + Header + w) + Header + (b.size - w - Header)
      BY <2>2, <2>4, MakeBlock
    <2>7. End(d) = End(b)
      BY ONLY <1>4, <2>6, Sizes, w \in Nat
    <2>8. Aligned(d.addr) /\ Aligned(d.size) /\ Aligned(c.addr) /\ Aligned(c.size)
      <3>1. Aligned(b.addr) /\ Aligned(b.size)
        BY <1>3 DEF Chain
      <3>2. Aligned(Header)
        BY HeapAssumption DEF Aligned
      <3>3. Aligned(b.addr + Header) /\ b.addr + Header \in Nat
        <4>1. b.addr \in Nat /\ Header \in Nat
          BY <1>4, Sizes
        <4>2. b.addr + Header \in Nat
          BY ONLY <4>1
        <4> QED BY ONLY <3>1, <3>2, <4>1, <4>2, AlignedSum
      <3>4. Aligned(b.addr + Header + w)
        BY <3>3, AlignedSum
      <3>5. Aligned(b.size - w) /\ b.size - w \in Nat /\ Header <= b.size - w
        <4>1. b.size - w \in Nat /\ Header <= b.size - w
          BY ONLY <1>4, <1>7, Sizes, w \in Nat
        <4> QED BY <1>4, <3>1, <4>1, AlignedDifference
      <3>6. Aligned(b.size - w - Header)
        BY <3>2, <3>5, AlignedDifference, Sizes
      <3> QED BY <2>5, <2>6, <3>1, <3>4, <3>6
    <2>9. Chain(r, top)
      BY <1>3, <2>3, <2>5, <2>6, <2>7, <2>8, ChainSplit
    <2>10. IsOneByTwo(r, bs, i, c, d)
      BY <2>3, <2>5, <2>6, SpliceTwo DEF Chain
    <2>11. /\ Len(r) = len + 1
           /\ \A k \in 1..(i - 1) : r[k] = bs[k]
           /\ r[i] = c /\ r[i + 1] = d
           /\ \A k \in (i + 2)..(len + 1) : r[k] = bs[k - 1]
      BY ONLY <1>1, <2>10 DEF IsOneByTwo
    <2>12. MergedBut(r, {})
      <3>1. IsFree(bs[i]) /\ ~ IsFree(c)
        BY <2>5
      <3>2. ASSUME NEW k \in 1..len PROVE ~ (IsFree(r[k]) /\ IsFree(r[k + 1]))
        BY ONLY <1>1, <1>2, <1>5, <2>11, <3>1, k \in 1..len
      <3> QED BY ONLY <1>1, <2>11, <3>2 DEF MergedBut
    <2>13. ASSUME NEW p, NEW m
           PROVE  UsedAt(r, p, m) <=> UsedAt(bs, p, m) \/ (p = Payload(bs[i]) /\ m = w)
      <3>1. ASSUME UsedAt(r, p, m)
            PROVE  UsedAt(bs, p, m) \/ (p = Payload(bs[i]) /\ m = w)
        <4>1. PICK k \in 1..(len + 1) : ~ IsFree(r[k]) /\ Payload(r[k]) = p /\ r[k].size = m
          BY <2>11, <3>1 DEF UsedAt
        <4>2. r[k] = c \/ r[k] = d \/ \E j \in 1..len : r[k] = bs[j]
          BY ONLY <1>1, <1>2, <2>11, k \in 1..(len + 1)
        <4> QED BY ONLY <1>1, <1>3, <2>5, <2>6, <4>1, <4>2 DEF UsedAt
      <3>2. ASSUME UsedAt(bs, p, m) PROVE UsedAt(r, p, m)
        <4>1. PICK k \in 1..len : ~ IsFree(bs[k]) /\ Payload(bs[k]) = p /\ bs[k].size = m
          BY <1>1, <3>2 DEF UsedAt
        <4>2. k # i
          BY <4>1
        <4>3. \E j \in 1..(len + 1) : r[j] = bs[k]
          <5>1. CASE k < i
            BY ONLY <1>1, <1>2, <2>11, <5>1, k \in 1..len
          <5>2. CASE k > i
            <6>1. k + 1 \in (i + 2)..(len + 1) /\ (k + 1) - 1 = k /\ k + 1 \in 1..(len + 1)
              BY ONLY <1>1, <1>2, <5>2, k \in 1..len
            <6>2. r[k + 1] = bs[(k + 1) - 1]
              BY ONLY <2>11, <6>1
            <6> QED BY ONLY <6>1, <6>2
          <5> QED BY ONLY <1>1, <1>2, <4>2, <5>1, <5>2, k \in 1..len
        <4> QED BY ONLY <2>11, <4>1, <4>3 DEF UsedAt
      <3>3. ASSUME p = Payload(bs[i]), m = w PROVE UsedAt(r, p, m)
        <4>1. i \in 1..Len(r) /\ r[i] = c /\ Payload(c) = p /\ c.size = m /\ ~ IsFree(c)
          BY <1>1, <1>2, <1>3, <2>5, <2>11, <3>3
        <4> QED BY ONLY <4>1 DEF UsedAt
      <3> QED BY <3>1, <3>2, <3>3
    <2> QED BY <2>9, <2>12, <2>13
  <1> QED BY <1>6, <1>7

-----------------------------------------------------------------------------
(* coalesce_with_next: the used blocks stay as they are, block i keeps its *)
(* place and does not shrink, and no free block follows it if it is free.  *)
Coalesced(r, bs, i, top, X) ==
  /\ Chain(r, top) /\ MergedBut(r, X)
  /\ \A p, m : UsedAt(r, p, m) <=> UsedAt(bs, p, m)
  /\ i \in 1..Len(r) /\ r[i].addr = bs[i].addr /\ bs[i].size <= r[i].size
  /\ IsFree(r[i]) <=> IsFree(bs[i])
  /\ \A k \in 1..(i - 1) : r[k] = bs[k]

LEMMA CoalesceNext ==
  ASSUME NEW bs, NEW top, Chain(bs, top), NEW i \in 1..Len(bs),
         NEW X \in SUBSET (1..(i - 1)), MergedBut(bs, X \cup {i}),
         NEW r, r = coalesce_with_next(bs, i)
  PROVE  Coalesced(r, bs, i, top, X)
  <1>1. PICK len \in Nat \ {0} : len = Len(bs)
    BY ChainParts
  <1>2. i \in 1..len /\ bs \in Seq(Block)
    BY <1>1 DEF Chain
  <1>3. \A k \in 1..(len - 1) : k \notin X /\ k # i => ~ (IsFree(bs[k]) /\ IsFree(bs[k + 1]))
    BY <1>1 DEF MergedBut
  <1>4. \A k \in 1..(len - 1) : Adjacent(bs[k], bs[k + 1])
    BY <1>1 DEF Chain, Adjacent
  <1>5. CASE ~ (i < len /\ IsFree(bs[i]) /\ IsFree(bs[i + 1]))
    <2>1. r = bs
      BY <1>1, <1>5 DEF coalesce_with_next, IsFree
    <2>2. MergedBut(bs, X)
      BY ONLY <1>1, <1>2, <1>3, <1>5 DEF MergedBut
    <2>3. bs[i].size <= bs[i].size
      BY ChainParts
    <2> QED BY <2>1, <2>2, <2>3 DEF Coalesced
  <1>6. CASE i < len /\ IsFree(bs[i]) /\ IsFree(bs[i + 1])
    <2>1. PICK b \in Block : b = bs[i]
      BY ChainParts
    <2>2. i \in 1..(len - 1) /\ i + 1 \in 1..len
      BY ONLY <1>1, <1>2, <1>6
    <2>3. PICK e \in Block : e = bs[i + 1]
      BY <1>1, <2>2, ChainParts
    <2>4. /\ b.addr \in Nat /\ b.size \in Nat \ {0} /\ e.addr \in Nat /\ e.size \in Nat \ {0}
          /\ End(b) = b.addr + Header + b.size /\ End(e) = e.addr + Header + e.size
      BY BlockParts DEF End
    <2>5. b.size + Header + e.size \in Nat \ {0} /\ b.size <= b.size + Header + e.size
      <3>1. PICK n \in Nat \ {0} : n = b.size
        BY <2>4
      <3>2. PICK q \in Nat \ {0} : q = e.size
        BY <2>4
      <3>3. n + Header + q \in Nat \ {0} /\ n <= n + Header + q
        BY ONLY <3>1, <3>2, Sizes
      <3> QED BY ONLY <3>1, <3>2, <3>3
    <2>6. PICK c : c = Resized(b, b.size + Header + e.size, b.free)
      OBVIOUS
    <2>7. b.free \in BOOLEAN /\ (b.free <=> IsFree(b))
      BY BlockParts DEF IsFree
    <2>8. /\ c \in Block /\ c.addr = b.addr /\ c.size = b.size + Header + e.size
          /\ (IsFree(c) <=> b.free) /\ End(c) = b.addr + Header + (b.size + Header + e.size)
      BY <2>5, <2>6, <2>7, ResizeBlock
    <2>9. c = [b EXCEPT !.size = @ + Header + e.size]
      BY <2>1, <2>6 DEF Resized, Block
    <2>10. r = TwoByOne(bs, i, c)
      BY <1>1, <1>4, <1>6, <2>1, <2>2, <2>3, <2>9 DEF coalesce_with_next, TwoByOne, IsFree
    <2>11. End(c) = End(e)
      <3>1. End(b) = e.addr
        BY <1>4, <2>1, <2>2, <2>3 DEF Adjacent
      <3>2. PICK a \in Nat : a = b.addr
        BY <2>4
      <3>3. PICK n \in Nat : n = b.size
        BY <2>4
      <3>4. PICK q \in Nat : q = e.size
        BY <2>4
      <3>5. End(c) = a + Header + (n + Header + q) /\ End(e) = (a + Header + n) + Header + q
        BY ONLY <2>4, <2>8, <3>1, <3>2, <3>3, <3>4
      <3>6. a + Header + (n + Header + q) = (a + Header + n) + Header + q
        BY ONLY Sizes, a \in Nat, n \in Nat, q \in Nat
      <3> QED BY ONLY <3>5, <3>6
    <2>12. Aligned(c.addr) /\ Aligned(c.size)
      <3>1. Aligned(b.addr) /\ Aligned(b.size) /\ Aligned(e.size)
        BY <1>1, <2>1, <2>2, <2>3 DEF Chain
      <3>2. Aligned(Header)
        BY HeapAssumption DEF Aligned
      <3>3. b.size \in Nat /\ e.size \in Nat /\ Header \in Nat
        BY <2>4, Sizes
      <3>4. b.size + Header \in Nat
        BY ONLY <3>3
      <3>5. Aligned(b.size + Header)
        BY ONLY <3>1, <3>2, <3>3, AlignedSum
      <3>6. Aligned(b.size + Header + e.size)
        BY ONLY <3>1, <3>3, <3>4, <3>5, AlignedSum
      <3> QED BY <2>8, <3>1, <3>6
    <2>13. Chain(r, top)
      BY <1>1, <2>1, <2>2, <2>3, <2>8, <2>10, <2>11, <2>12, ChainMerge
    <2>14. IsTwoByOne(r, bs, i, c)
      BY <1>1, <1>2, <2>2, <2>8, <2>10, SpliceOne
    <2>15. /\ Len(r) = len - 1
           /\ \A k \in 1..(i - 1) : r[k] = bs[k]
           /\ r[i] = c
           /\ \A k \in (i + 1)..(len - 1) : r[k] = bs[k + 1]
      BY ONLY <1>1, <2>14 DEF IsTwoByOne
    <2>16. IsFree(c) /\ IsFree(b) /\ IsFree(e)
      BY <1>6, <2>1, <2>3, <2>7, <2>8
    <2>17. MergedBut(r, X)
      <3>1. ASSUME NEW k \in 1..(len - 2), k \notin X PROVE ~ (IsFree(r[k]) /\ IsFree(r[k + 1]))
        <4>1. CASE k < i
          <5>1. r[k] = bs[k] /\ (IsFree(r[k + 1]) => IsFree(bs[k + 1]))
            BY ONLY <1>1, <2>2, <2>15, <2>16, <2>1, <4>1, k \in 1..(len - 2)
          <5>2. k \in 1..(len - 1) /\ k # i
            BY ONLY <1>1, <2>2, <4>1, k \in 1..(len - 2)
          <5>3. ~ (IsFree(bs[k]) /\ IsFree(bs[k + 1]))
            BY ONLY <1>3, <3>1, <5>2
          <5> QED BY ONLY <5>1, <5>3
        <4>2. CASE k >= i
          <5>1. k + 1 \in 1..(len - 1) /\ k + 1 # i /\ k + 1 \notin X
            BY ONLY <1>1, <2>2, <4>2, k \in 1..(len - 2), X \in SUBSET (1..(i - 1))
          <5>2. ~ (IsFree(bs[k + 1]) /\ IsFree(bs[(k + 1) + 1]))
            BY ONLY <1>3, <5>1
          <5>3. r[k + 1] = bs[(k + 1) + 1]
            BY ONLY <1>1, <2>2, <2>15, <4>2, k \in 1..(len - 2)
          <5>4. IsFree(bs[k + 1]) \/ ~ IsFree(r[k])
            BY ONLY <1>1, <2>2, <2>3, <2>15, <2>16, <4>2, k \in 1..(len - 2)
          <5> QED BY ONLY <5>2, <5>3, <5>4
        <4> QED BY ONLY <1>1, <2>2, <4>1, <4>2, k \in 1..(len - 2)
      <3>2. Len(r) - 1 = len - 2
        BY ONLY <1>1, <2>15
      <3> QED BY ONLY <3>1, <3>2 DEF MergedBut
    <2>18. ASSUME NEW p, NEW m PROVE UsedAt(r, p, m) <=> UsedAt(bs, p, m)
      <3>1. ASSUME UsedAt(r, p, m) PROVE UsedAt(bs, p, m)
        <4>1. PICK k \in 1..(len - 1) : ~ IsFree(r[k]) /\ Payload(r[k]) = p /\ r[k].size = m
          BY <2>15, <3>1 DEF UsedAt
        <4>2. r[k] = c \/ \E j \in 1..len : r[k] = bs[j]
          BY ONLY <1>1, <2>2, <2>15, k \in 1..(len - 1)
        <4> QED BY ONLY <1>1, <2>16, <4>1, <4>2 DEF UsedAt
      <3>2. ASSUME UsedAt(bs, p, m) PROVE UsedAt(r, p, m)
        <4>1. PICK k \in 1..len : ~ IsFree(bs[k]) /\ Payload(bs[k]) = p /\ bs[k].size = m
          BY <1>1, <3>2 DEF UsedAt
        <4>2. k # i /\ k # i + 1
          BY <1>6, <4>1
        <4>3. \E j \in 1..(len - 1) : r[j] = bs[k]
          <5>1. CASE k < i
            BY ONLY <1>1, <2>2, <2>15, <5>1, k \in 1..len
          <5>2. CASE k > i + 1
            <6>1. k - 1 \in (i + 1)..(len - 1) /\ (k - 1) + 1 = k /\ k - 1 \in 1..(len - 1)
              BY ONLY <1>1, <2>2, <5>2, k \in 1..len
            <6>2. r[k - 1] = bs[(k - 1) + 1]
              BY ONLY <2>15, <6>1
            <6> QED BY ONLY <6>1, <6>2
          <5> QED BY ONLY <1>1, <2>2, <4>2, <5>1, <5>2, k \in 1..len
        <4> QED BY ONLY <2>15, <4>1, <4>3 DEF UsedAt
      <3> QED BY <3>1, <3>2
    <2>19. /\ i \in 1..Len(r) /\ r[i].addr = bs[i].addr /\ bs[i].size <= r[i].size
           /\ IsFree(r[i]) <=> IsFree(bs[i])
      BY ONLY <2>1, <2>2, <2>5, <2>8, <2>15, <2>16
    <2> QED BY <2>13, <2>15, <2>17, <2>18, <2>19 DEF Coalesced
  <1> QED BY <1>1, <1>2, <1>5, <1>6

(* coalesce_around: a block whose neighbours may be free is merged with    *)
(* them, the used blocks stay as they are, and if the block was free there *)
(* is a free one at least as large.                                        *)
Rejoined(r, bs, i, top) ==
  /\ Chain(r, top) /\ MergedBut(r, {})
  /\ \A p, m : UsedAt(r, p, m) <=> UsedAt(bs, p, m)
  /\ IsFree(bs[i]) => \E k \in 1..Len(r) : IsFree(r[k]) /\ bs[i].size <= r[k].size

LEMMA CoalesceAround ==
  ASSUME NEW bs, NEW top, Chain(bs, top), NEW i \in 1..Len(bs), MergedBut(bs, {i - 1, i}),
         NEW r, r = coalesce_around(bs, i)
  PROVE  Rejoined(r, bs, i, top)
  <1>1. PICK c : c = coalesce_with_next(bs, i)
    OBVIOUS
  <1>2. PICK X \in SUBSET (1..(i - 1)) : X = {i - 1} \cap (1..(i - 1))
    OBVIOUS
  <1>3. MergedBut(bs, X \cup {i})
    <2>1. Len(bs) \in Nat /\ i \in 1..Len(bs)
      BY ChainParts
    <2>2. ASSUME NEW k \in 1..(Len(bs) - 1), k \notin X \cup {i} PROVE k \notin {i - 1, i}
      BY ONLY <1>2, <2>1, <2>2, k \in 1..(Len(bs) - 1)
    <2> QED BY ONLY <2>2, MergedBut(bs, {i - 1, i}) DEF MergedBut
  <1>4. /\ Chain(c, top) /\ MergedBut(c, X)
        /\ \A p, m : UsedAt(c, p, m) <=> UsedAt(bs, p, m)
        /\ i \in 1..Len(c) /\ c[i].addr = bs[i].addr /\ bs[i].size <= c[i].size
        /\ IsFree(c[i]) <=> IsFree(bs[i])
        /\ \A k \in 1..(i - 1) : c[k] = bs[k]
    <2>1. Coalesced(c, bs, i, top, X)
      BY <1>1, <1>3, CoalesceNext
    <2> QED BY ONLY <2>1 DEF Coalesced
  <1>5. PICK len \in Nat \ {0} : len = Len(c)
    BY <1>4, ChainParts
  <1>6. i \in 1..len
    BY <1>4, <1>5
  <1>7. i > 1 => Adjacent(c[i - 1], c[i])
    <2>1. ASSUME i > 1 PROVE i - 1 \in 1..(len - 1) /\ (i - 1) + 1 = i
      BY ONLY <1>5, <1>6, <2>1
    <2> QED BY <1>4, <1>5, <2>1 DEF Chain, Adjacent
  <1>8. CASE i > 1 /\ IsFree(c[i - 1])
    <2>1. r = coalesce_with_next(c, i - 1)
      BY <1>1, <1>7, <1>8 DEF coalesce_around, IsFree
    <2>2. i - 1 \in 1..len /\ X = {i - 1} /\ {} \in SUBSET (1..((i - 1) - 1))
      BY ONLY <1>2, <1>5, <1>6, <1>8
    <2>3. i - 1 \in 1..Len(c) /\ MergedBut(c, {} \cup {i - 1})
      <3>1. {} \cup {i - 1} = X
        BY ONLY <2>2
      <3> QED BY <1>4, <1>5, <2>2, <3>1
    <2>4. /\ Chain(r, top) /\ MergedBut(r, {})
          /\ \A p, m : UsedAt(r, p, m) <=> UsedAt(c, p, m)
          /\ i - 1 \in 1..Len(r) /\ c[i - 1].size <= r[i - 1].size
          /\ IsFree(r[i - 1]) <=> IsFree(c[i - 1])
      <3>1. Coalesced(r, c, i - 1, top, {})
        BY <1>4, <2>1, <2>2, <2>3, CoalesceNext
      <3> QED BY ONLY <3>1 DEF Coalesced
    <2>5. ASSUME IsFree(bs[i]) PROVE bs[i].size <= r[i - 1].size
      <3>1. IsFree(c[i]) /\ IsFree(c[i - 1]) /\ i - 1 < len /\ (i - 1) + 1 = i
        BY <1>4, <1>5, <1>6, <1>8, <2>5
      <3>2. r = TwoByOne(c, i - 1, [c[i - 1] EXCEPT !.size = @ + Header + c[(i - 1) + 1].size])
        <4>1. /\ i - 1 < Len(c) /\ c[i - 1].free /\ c[(i - 1) + 1].free
              /\ Adjacent(c[i - 1], c[(i - 1) + 1])
          BY <1>5, <1>7, <1>8, <3>1 DEF IsFree
        <4> QED BY ONLY <2>1, <4>1 DEF coalesce_with_next, TwoByOne
      <3>3. PICK b \in Block : b = c[i - 1]
        BY <1>4, <2>3, ChainParts
      <3>4. PICK e \in Block : e = c[i]
        BY <1>4, ChainParts
      <3>5. PICK d : d = [b EXCEPT !.size = @ + Header + e.size]
        OBVIOUS
      <3>6. r = TwoByOne(c, i - 1, d)
        BY ONLY <3>1, <3>2, <3>3, <3>4, <3>5
      <3>7. PICK n \in Nat : n = b.size
        BY <3>3, BlockParts
      <3>8. PICK q \in Nat : q = e.size
        BY <3>4, BlockParts
      <3>9. d \in Block /\ d.size = n + Header + q
        <4>1. n + Header + q \in Nat \ {0}
          BY ONLY <3>7, <3>8, Sizes
        <4> QED BY <3>3, <3>5, <3>7, <3>8, <4>1 DEF Block
      <3>10. IsTwoByOne(r, c, i - 1, d)
        <4>1. c \in Seq(Block) /\ i - 1 \in 1..(Len(c) - 1)
          BY <1>4, <1>5, <1>6, <1>8 DEF Chain
        <4> QED BY ONLY <3>6, <3>9, <4>1, SpliceOne
      <3>11. r[i - 1] = d
        BY ONLY <3>10 DEF IsTwoByOne
      <3>12. q <= n + Header + q
        BY ONLY <3>7, <3>8, Sizes
      <3>13. PICK z \in Nat : z = bs[i].size /\ z <= q
        BY <1>4, <3>4, <3>8, ChainParts
      <3>14. z <= n + Header + q
        BY ONLY <3>12, <3>13, Sizes, n \in Nat, q \in Nat, z \in Nat
      <3> QED BY ONLY <3>9, <3>11, <3>13, <3>14
    <2> QED BY <1>4, <1>8, <2>4, <2>5 DEF Rejoined
  <1>9. CASE ~ (i > 1 /\ IsFree(c[i - 1]))
    <2>1. r = c
      BY <1>1, <1>9 DEF coalesce_around, IsFree
    <2>2. MergedBut(c, {})
      <3>1. ASSUME NEW k \in 1..(len - 1) PROVE ~ (IsFree(c[k]) /\ IsFree(c[k + 1]))
        <4>1. CASE k \in X
          <5>1. k = i - 1 /\ i > 1
            BY ONLY <1>2, <1>5, <1>6, <4>1
          <5> QED BY ONLY <1>9, <5>1
        <4>2. CASE k \notin X
          BY <1>4, <1>5, <4>2 DEF MergedBut
        <4> QED BY <4>1, <4>2
      <3> QED BY ONLY <1>5, <3>1 DEF MergedBut
    <2> QED BY <1>4, <2>1, <2>2 DEF Rejoined
  <1> QED BY <1>8, <1>9

-----------------------------------------------------------------------------
(* insert_block_sorted of a block above all others puts it at the end.     *)
IsAppended(r, s, a) ==
  Len(r) = Len(s) + 1 /\ r[Len(s) + 1] = a /\ \A k \in 1..Len(s) : r[k] = s[k]

LEMMA InsertAtEnd ==
  ASSUME NEW s \in Seq(Block), NEW b \in Block, \A k \in 1..Len(s) : s[k].addr < b.addr
  PROVE  insert_block_sorted(s, b) \in Seq(Block) /\ IsAppended(insert_block_sorted(s, b), s, b)
  <1>1. PICK n \in Nat : n = Len(s)
    OBVIOUS
  <1>2. PICK r : r = insert_block_sorted(s, b)
    OBVIOUS
  <1> DEFINE P(m) == /\ \A k \in 1..m : s[k].addr < b.addr
                     /\ m < Len(s) => s[m + 1].addr >= b.addr
             below == CHOOSE m \in 0..Len(s) : P(m)
  <1>3. r = SubSeq(s, 1, below) \o <<b>> \o SubSeq(s, below + 1, Len(s))
    BY <1>2 DEF insert_block_sorted
  <1>4. P(n) /\ n \in 0..Len(s)
    BY <1>1
  <1>5. ASSUME NEW m \in 0..Len(s), P(m) PROVE m = n
    <2>1. \A a, c \in Nat : ~ (a < c /\ a >= c)
      OBVIOUS
    <2>2. \A k \in 1..n : s[k].addr \in Nat /\ s[k].addr < b.addr
      BY <1>1, BlockParts
    <2>3. b.addr \in Nat
      BY BlockParts
    <2>4. SUFFICES ASSUME m < n PROVE FALSE
      BY <1>1
    <2>5. m + 1 \in 1..n /\ s[m + 1].addr >= b.addr
      BY <1>1, <1>5, <2>4
    <2> QED BY ONLY <2>1, <2>2, <2>3, <2>5
  <1> HIDE DEF P
  <1>6. below = n
    BY <1>4, <1>5
  <1> HIDE DEF below
  <1>7. PICK u : u = SubSeq(s, 1, n)
    OBVIOUS
  <1>8. PICK w : w = SubSeq(s, n + 1, n)
    OBVIOUS
  <1>9. u \in Seq(Block) /\ Len(u) = n /\ \A k \in 1..n : u[k] = s[k]
    BY ONLY <1>1, <1>7, s \in Seq(Block)
  <1>10. w \in Seq(Block) /\ Len(w) = 0
    BY ONLY <1>1, <1>8, s \in Seq(Block)
  <1>11. r = u \o <<b>> \o w
    BY ONLY <1>1, <1>3, <1>6, <1>7, <1>8
  <1>12. /\ r \in Seq(Block) /\ Len(r) = Len(u) + 1 + Len(w)
         /\ \A k \in 1..Len(u) : r[k] = u[k]
         /\ r[Len(u) + 1] = b
    <2>1. u \in Seq(Block) /\ w \in Seq(Block)
      BY <1>9, <1>10
    <2> QED BY ONLY <2>1, <1>11, b \in Block
  <1>13. Len(r) = n + 1 /\ r[n + 1] = b /\ \A k \in 1..n : r[k] = s[k]
    BY ONLY <1>9, <1>10, <1>12, n \in Nat
  <1> QED BY ONLY <1>1, <1>2, <1>12, <1>13 DEF IsAppended

LEMMA ProductAtLeast ==
  ASSUME NEW n \in Nat \ {0}, NEW m \in Nat PROVE n * m \in Nat /\ m <= n * m
  OBVIOUS

(* heap_add_region: a chain that reaches further, with the same used       *)
(* blocks and a free block at least as large as the region's payload.      *)
Grown(r, bs, top, size) ==
  /\ Chain(r, top) /\ MergedBut(r, {})
  /\ \A p, m : UsedAt(r, p, m) <=> UsedAt(bs, p, m)
  /\ \E k \in 1..Len(r) : IsFree(r[k]) /\ size <= r[k].size

LEMMA Region ==
  ASSUME NEW bs, NEW start \in Nat, NEW pages \in Nat \ {0},
         \/ Chain(bs, start) /\ MergedBut(bs, {})
         \/ bs = <<>> /\ start = Base
  PROVE  Grown(AddRegion(bs, start, pages), bs, start + pages * PageSize, pages * PageSize - Header)
  <1>1. PICK sz \in Nat \ {0} : sz = pages * PageSize - Header
    <2>1. PICK t \in Nat : t = pages * PageSize /\ PageSize <= t
      BY ProductAtLeast, Sizes
    <2>2. Header < PageSize
      BY HeapAssumption
    <2>3. t - Header \in Nat \ {0}
      BY ONLY <2>1, <2>2, Sizes
    <2> QED BY ONLY <2>1, <2>3
  <1>2. PICK b : b = NewBlock(start, sz, TRUE)
    OBVIOUS
  <1>3. /\ b \in Block /\ b.addr = start /\ b.size = sz /\ IsFree(b)
        /\ End(b) = start + Header + sz
    BY <1>2, MakeBlock
  <1>4. PICK len \in Nat : len = Len(bs)
    BY ChainParts
  <1>5. bs \in Seq(Block)
    <2>1. CASE Chain(bs, start)
      BY <2>1 DEF Chain
    <2>2. CASE bs = <<>>
      BY <2>2
    <2> QED BY <2>1, <2>2
  <1>6. ASSUME NEW k \in 1..len PROVE bs[k].addr < start
    <2>1. Chain(bs, start)
      BY <1>4
    <2>2. PICK a \in Nat : a = bs[k].addr /\ a + Header < End(bs[k])
      BY <1>4, <2>1, ChainParts
    <2>3. End(bs[k]) \in Nat /\ End(bs[k]) <= start
      BY <1>4, <2>1, ChainParts, ChainOrder
    <2>4. a < start
      BY ONLY <2>2, <2>3, Sizes, start \in Nat
    <2> QED BY <2>2, <2>4
  <1>7. PICK ins : ins = insert_block_sorted(bs, b)
    OBVIOUS
  <1>8. ins \in Seq(Block) /\ IsAppended(ins, bs, b)
    BY <1>3, <1>4, <1>5, <1>6, <1>7, InsertAtEnd
  <1>9. Len(ins) = len + 1 /\ ins[len + 1] = b /\ \A k \in 1..len : ins[k] = bs[k]
    BY ONLY <1>4, <1>8 DEF IsAppended
  <1>10. (CHOOSE i \in DOMAIN ins : ins[i] = b) = len + 1
    <2>1. DOMAIN ins = 1..(len + 1)
      BY <1>8, <1>9
    <2>2. ASSUME NEW k \in 1..(len + 1), ins[k] = b PROVE k = len + 1
      <3>1. k = len + 1 \/ k \in 1..len
        BY ONLY len \in Nat, k \in 1..(len + 1)
      <3>2. ASSUME k \in 1..len PROVE FALSE
        <4>1. b.addr < start
          BY <1>6, <1>9, <2>2, <3>2
        <4> QED BY ONLY <1>3, <4>1, start \in Nat
      <3> QED BY ONLY <3>1, <3>2
    <2>3. len + 1 \in 1..(len + 1) /\ ins[len + 1] = b
      BY ONLY <1>4, <1>9
    <2> QED BY <2>1, <2>2, <2>3
  <1>11. AddRegion(bs, start, pages) = coalesce_around(ins, len + 1)
    BY <1>1, <1>2, <1>7, <1>10 DEF AddRegion, NewBlock
  <1>12. PICK top \in Nat : top = start + pages * PageSize /\ top = End(b)
    <2>1. PICK t \in Nat : t = pages * PageSize /\ PageSize <= t
      BY ProductAtLeast, Sizes
    <2>2. start + Header + (t - Header) = start + t /\ start + t \in Nat
      BY ONLY <2>1, Sizes, start \in Nat
    <2> QED BY ONLY <1>1, <1>3, <2>1, <2>2
  <1>13. Chain(ins, top)
    <2>1. Aligned(b.addr) /\ Aligned(b.size)
      <3>1. Aligned(PageSize) /\ Aligned(Header) /\ Aligned(Base)
        BY HeapAssumption DEF Aligned
      <3>2. Aligned(start)
        <4>1. CASE Chain(bs, start)
          <5>1. PICK e \in Block : e = bs[len] /\ len \in 1..len
            BY <1>4, <4>1, ChainParts
          <5>2. Aligned(e.addr) /\ Aligned(e.size) /\ End(e) = start
            BY <1>4, <4>1, <5>1 DEF Chain
          <5>3. e.addr \in Nat /\ e.size \in Nat /\ Header \in Nat
            BY BlockParts, Sizes
          <5>4. e.addr + Header \in Nat
            BY ONLY <5>3
          <5>5. Aligned(e.addr + Header)
            BY ONLY <3>1, <5>2, <5>3, AlignedSum
          <5>6. Aligned(e.addr + Header + e.size)
            BY ONLY <5>2, <5>3, <5>4, <5>5, AlignedSum
          <5> QED BY <5>2, <5>6 DEF End
        <4>2. CASE start = Base
          BY <3>1, <4>2
        <4> QED BY <4>1, <4>2
      <3>3. PICK t \in Nat : t = pages * PageSize /\ Aligned(t) /\ Header <= t
        <4>1. Aligned(pages * PageSize)
          BY <3>1, AlignedProduct, Sizes
        <4>2. PICK t \in Nat : t = pages * PageSize /\ PageSize <= t
          BY ProductAtLeast, Sizes
        <4>3. Header < PageSize
          BY HeapAssumption
        <4>4. Header <= t
          BY ONLY <4>2, <4>3, Sizes
        <4> QED BY ONLY <4>1, <4>2, <4>4
      <3>4. Aligned(t - Header)
        BY <3>1, <3>3, AlignedDifference, Sizes
      <3> QED BY ONLY <1>1, <1>3, <3>2, <3>3, <3>4
    <2>2. ins[1].addr = Base
      <3>1. CASE Chain(bs, start)
        <4>1. len \in Nat \ {0} /\ bs[1].addr = Base
          BY <1>4, <3>1, ChainParts DEF Chain
        <4> QED BY ONLY <1>9, <4>1
      <3>2. CASE bs = <<>> /\ start = Base
        <4>1. len = 0
          BY <1>4, <3>2
        <4> QED BY ONLY <1>3, <1>9, <3>2, <4>1
      <3> QED BY <3>1, <3>2
    <2>3. ASSUME NEW k \in 1..len PROVE End(ins[k]) = ins[k + 1].addr
      <3>1. /\ \A m \in 1..(len - 1) : End(bs[m]) = bs[m + 1].addr
            /\ End(bs[len]) = start
        BY <1>4 DEF Chain
      <3> QED BY ONLY <1>3, <1>4, <1>9, <3>1, k \in 1..len
    <2>4. ASSUME NEW k \in 1..(len + 1) PROVE Aligned(ins[k].addr) /\ Aligned(ins[k].size)
      <3>1. ASSUME NEW m \in 1..len PROVE Aligned(bs[m].addr) /\ Aligned(bs[m].size)
        BY <1>4 DEF Chain
      <3>2. ins[k] = b \/ \E m \in 1..len : ins[k] = bs[m]
        BY ONLY <1>4, <1>9, k \in 1..(len + 1)
      <3> QED BY ONLY <2>1, <3>1, <3>2
    <2>5. Len(ins) - 1 = len /\ Len(ins) > 0 /\ ins[Len(ins)] = b
      BY ONLY <1>4, <1>9
    <2> QED BY ONLY <1>8, <1>9, <1>12, <2>2, <2>3, <2>4, <2>5 DEF Chain
  <1>14. MergedBut(ins, {(len + 1) - 1, len + 1})
    <2>1. ASSUME NEW k \in 1..len, k # len PROVE ~ (IsFree(ins[k]) /\ IsFree(ins[k + 1]))
      <3>1. MergedBut(bs, {})
        BY <1>4, <2>1
      <3>2. k \in 1..(len - 1) /\ k + 1 \in 1..len
        BY ONLY <1>4, <2>1, k \in 1..len
      <3>3. ~ (IsFree(bs[k]) /\ IsFree(bs[k + 1]))
        BY ONLY <1>4, <3>1, <3>2 DEF MergedBut
      <3> QED BY ONLY <1>9, <2>1, <3>2, <3>3
    <2>2. Len(ins) - 1 = len /\ (len + 1) - 1 = len
      BY ONLY <1>4, <1>9
    <2> QED BY ONLY <2>1, <2>2 DEF MergedBut
  <1>15. ASSUME NEW p, NEW m PROVE UsedAt(ins, p, m) <=> UsedAt(bs, p, m)
    <2>1. \A k \in 1..(len + 1) : k = len + 1 \/ k \in 1..len
      BY ONLY <1>4
    <2>2. \A k \in 1..len : k \in 1..(len + 1)
      BY ONLY <1>4
    <2> QED BY ONLY <1>3, <1>4, <1>9, <2>1, <2>2 DEF UsedAt
  <1>16. PICK r : r = coalesce_around(ins, len + 1)
    OBVIOUS
  <1>17. len + 1 \in 1..Len(ins)
    BY ONLY <1>4, <1>9
  <1>18. Rejoined(r, ins, len + 1, top)
    BY <1>13, <1>14, <1>16, <1>17, CoalesceAround
  <1> QED BY ONLY <1>1, <1>3, <1>9, <1>11, <1>12, <1>15, <1>16, <1>18 DEF Grown, Rejoined

-----------------------------------------------------------------------------
(* The addresses of lv are the payloads of the used blocks of bs, and each *)
(* used block has room for what lv says was asked for.                     *)
LiveFor(bs, lv) ==
  /\ \A p : p \in DOMAIN lv <=> \E n : UsedAt(bs, p, n)
  /\ \A p, n : UsedAt(bs, p, n) => lv[p] \in Requests /\ lv[p] <= n

(* What kmalloc promises of a block of n bytes handed out at ptr.          *)
Separate(ptr, n, lv, top) ==
  /\ ptr \notin DOMAIN lv /\ ptr \in Nat /\ ptr % Align = 0 /\ Base <= ptr /\ ptr + n <= top
  /\ \A p \in DOMAIN lv : p + lv[p] <= ptr \/ ptr + n <= p

LEMMA RequestSize ==
  ASSUME NEW n \in Requests
  PROVE  /\ n \in Nat \ {0} /\ align_up(n) \in Nat \ {0} /\ Aligned(align_up(n))
         /\ n <= align_up(n) /\ align_up(n) <= n + Align - 1
  <1>1. n \in Nat \ {0}
    BY HeapAssumption
  <1> QED BY <1>1, AlignUp

(* A free block that is large enough can be handed out.                    *)
LEMMA FreeIsSeparate ==
  ASSUME NEW bs, NEW top, Chain(bs, top), NEW i \in 1..Len(bs), IsFree(bs[i]),
         NEW n \in Nat, n <= bs[i].size, NEW lv, LiveFor(bs, lv)
  PROVE  Separate(Payload(bs[i]), n, lv, top)
  <1>1. PICK a \in Nat : a = bs[i].addr
    BY ChainParts
  <1>2. PICK z \in Nat : z = bs[i].size /\ n <= z
    BY ChainParts
  <1>3. Payload(bs[i]) = a + Header /\ End(bs[i]) = a + Header + z
    BY <1>1, <1>2, ChainParts DEF Payload
  <1>4. Base <= a /\ a + Header + z <= top /\ top \in Nat
    BY <1>1, <1>3, ChainParts, ChainOrder
  <1>5. Aligned(a + Header)
    <2>1. Aligned(a) /\ Aligned(Header)
      BY <1>1, HeapAssumption DEF Chain, Aligned
    <2> QED BY <2>1, AlignedSum, Sizes
  <1>6. a + Header \notin DOMAIN lv
    <2>1. SUFFICES ASSUME a + Header \in DOMAIN lv PROVE FALSE
      OBVIOUS
    <2>2. PICK m : UsedAt(bs, a + Header, m)
      BY <2>1 DEF LiveFor
    <2>3. PICK j \in 1..Len(bs) : ~ IsFree(bs[j]) /\ Payload(bs[j]) = a + Header
      BY <2>2 DEF UsedAt
    <2>4. i = j
      BY <1>3, <2>3, PayloadUnique
    <2> QED BY <2>3, <2>4
  <1>7. ASSUME NEW p \in DOMAIN lv PROVE p + lv[p] <= a + Header \/ a + Header + n <= p
    <2>1. PICK m : UsedAt(bs, p, m)
      BY DEF LiveFor
    <2>2. PICK j \in 1..Len(bs) : ~ IsFree(bs[j]) /\ Payload(bs[j]) = p /\ bs[j].size = m
      BY <2>1 DEF UsedAt
    <2>3. PICK y \in Nat : y = bs[j].addr
      BY <2>2, ChainParts
    <2>4. m \in Nat /\ p = y + Header /\ End(bs[j]) = y + Header + m
      BY <2>2, <2>3, ChainParts DEF Payload
    <2>5. PICK q \in Nat : q = lv[p] /\ q <= m
      BY <2>1, RequestSize DEF LiveFor
    <2>6. i # j
      BY <2>2
    <2>7. i \in Nat /\ j \in Nat
      BY ChainParts
    <2>8. CASE i < j
      <3>1. a + Header + z <= y
        BY <1>1, <1>2, <1>3, <2>2, <2>3, <2>8, ChainOrder
      <3>2. a + Header + n <= y + Header
        BY ONLY <1>2, <3>1, Sizes, a \in Nat, z \in Nat, y \in Nat, n \in Nat
      <3> QED BY ONLY <2>4, <3>2
    <2>9. CASE j < i
      <3>1. y + Header + m <= a
        BY <1>1, <2>2, <2>3, <2>4, <2>9, ChainOrder
      <3>2. (y + Header) + q <= a + Header
        BY ONLY <2>4, <2>5, <3>1, Sizes, a \in Nat, y \in Nat, q \in Nat
      <3> QED BY ONLY <2>4, <2>5, <3>2
    <2> QED BY ONLY <2>6, <2>7, <2>8, <2>9
  <1>8. a + Header \in Nat /\ Base <= a + Header /\ a + Header + n <= top
    BY ONLY <1>2, <1>4, Sizes, a \in Nat, z \in Nat, n \in Nat
  <1> QED BY ONLY <1>3, <1>5, <1>6, <1>7, <1>8 DEF Separate, Aligned

(* The tail of kmalloc.                                                    *)
LEMMA HandedOut ==
  ASSUME NEW bs, NEW top, Chain(bs, top), MergedBut(bs, {}),
         NEW size \in Requests, NEW i \in Fits(bs, align_up(size)),
         NEW lv, LiveFor(bs, lv), NEW r, r = split_block(bs, i, align_up(size)),
         NEW lv2, lv2 = [p \in DOMAIN lv \cup {Payload(bs[i])} |->
                           IF p = Payload(bs[i]) THEN size ELSE lv[p]]
  PROVE  /\ Chain(r, top) /\ MergedBut(r, {}) /\ LiveFor(r, lv2)
         /\ Separate(Payload(bs[i]), size, lv, top)
  <1>1. i \in 1..Len(bs) /\ IsFree(bs[i]) /\ align_up(size) <= bs[i].size
    <2>1. i \in DOMAIN bs /\ bs[i].free /\ bs[i].size >= align_up(size)
      BY DEF Fits
    <2>2. i \in 1..Len(bs)
      BY <2>1, ChainParts
    <2>3. bs[i].size \in Nat /\ align_up(size) \in Nat
      BY <2>2, ChainParts, RequestSize
    <2> QED BY <2>1, <2>2, <2>3 DEF IsFree
  <1>2. PICK w \in Nat \ {0} : w = align_up(size) /\ Aligned(w) /\ size <= w
    BY RequestSize
  <1>3. PICK ptr : ptr = Payload(bs[i])
    OBVIOUS
  <1>4. /\ Chain(r, top) /\ MergedBut(r, {})
        /\ \E n \in Nat : /\ w <= n
                          /\ \A p, m : UsedAt(r, p, m) <=> \/ UsedAt(bs, p, m)
                                                           \/ p = Payload(bs[i]) /\ m = n
    BY <1>1, <1>2, SplitBlock
  <1>5. PICK n \in Nat : /\ w <= n
                         /\ \A p, m : UsedAt(r, p, m) <=> UsedAt(bs, p, m) \/ (p = ptr /\ m = n)
    BY <1>3, <1>4
  <1>6. Separate(ptr, size, lv, top)
    <2>1. size \in Nat /\ bs[i].size \in Nat
      BY <1>1, RequestSize, ChainParts
    <2>2. size <= bs[i].size
      BY ONLY <1>1, <1>2, <2>1, w \in Nat
    <2> QED BY <1>1, <1>3, <2>1, <2>2, FreeIsSeparate
  <1>7. ptr \notin DOMAIN lv
    BY ONLY <1>6 DEF Separate
  <1>8. \A m : ~ UsedAt(bs, ptr, m)
    BY <1>7 DEF LiveFor
  <1>9. DOMAIN lv2 = DOMAIN lv \cup {ptr} /\ lv2[ptr] = size
        /\ \A p \in DOMAIN lv : lv2[p] = lv[p]
    BY <1>3, <1>7
  <1>10. size <= n
    <2>1. size \in Nat
      BY RequestSize
    <2> QED BY ONLY <1>2, <1>5, <2>1, n \in Nat, w \in Nat
  <1>11. LiveFor(r, lv2)
    <2>1. ASSUME NEW p PROVE p \in DOMAIN lv2 <=> \E m : UsedAt(r, p, m)
      BY <1>5, <1>9 DEF LiveFor
    <2>2. ASSUME NEW p, NEW m, UsedAt(r, p, m) PROVE lv2[p] \in Requests /\ lv2[p] <= m
      <3>1. CASE UsedAt(bs, p, m)
        <4>1. p \in DOMAIN lv /\ lv[p] \in Requests /\ lv[p] <= m
          BY <3>1 DEF LiveFor
        <4> QED BY ONLY <1>9, <4>1
      <3>2. CASE p = ptr /\ m = n
        BY ONLY <1>9, <1>10, <3>2, size \in Requests
      <3> QED BY <1>5, <2>2, <3>1, <3>2
    <2> QED BY ONLY <2>1, <2>2 DEF LiveFor
  <1> QED BY <1>3, <1>4, <1>6, <1>11

(* kfree.                                                                  *)
LEMMA Freed ==
  ASSUME NEW bs, NEW top, Chain(bs, top), MergedBut(bs, {}), NEW lv, LiveFor(bs, lv),
         NEW i \in DOMAIN bs, Payload(bs[i]) \in DOMAIN lv,
         NEW r, r = coalesce_around([bs EXCEPT ![i].free = TRUE], i),
         NEW lv2, lv2 = [p \in DOMAIN lv \ {Payload(bs[i])} |-> lv[p]]
  PROVE  Chain(r, top) /\ MergedBut(r, {}) /\ LiveFor(r, lv2)
  <1>1. PICK len \in Nat \ {0} : len = Len(bs)
    BY ChainParts
  <1>2. i \in 1..len /\ i \in 1..Len(bs)
    BY <1>1, ChainParts
  <1>3. PICK b \in Block : b = bs[i]
    BY <1>2, ChainParts
  <1>4. PICK ptr : ptr = Payload(b)
    OBVIOUS
  <1>5. PICK c : c = Marked(b, TRUE)
    OBVIOUS
  <1>6. c \in Block /\ c.addr = b.addr /\ c.size = b.size /\ IsFree(c) /\ Payload(c) = ptr
    BY <1>4, <1>5, MarkBlock
  <1>7. PICK f : f = Replaced(bs, i, c)
    OBVIOUS
  <1>8. f = [bs EXCEPT ![i].free = TRUE]
    BY <1>3, <1>5, <1>7 DEF Replaced, Marked
  <1>9. Chain(f, top) /\ IsReplaced(f, bs, i, c)
    BY <1>2, <1>3, <1>6, <1>7, ChainMark
  <1>10. Len(f) = len /\ f[i] = c /\ \A k \in 1..len : k # i => f[k] = bs[k]
    BY ONLY <1>1, <1>9 DEF IsReplaced
  <1>11. MergedBut(f, {i - 1, i})
    <2>1. ASSUME NEW k \in 1..(len - 1), k # i - 1, k # i PROVE ~ (IsFree(f[k]) /\ IsFree(f[k + 1]))
      <3>1. k \in 1..len /\ k + 1 \in 1..len /\ k + 1 # i
        BY ONLY <1>1, <1>2, <2>1, k \in 1..(len - 1)
      <3>2. ~ (IsFree(bs[k]) /\ IsFree(bs[k + 1]))
        BY <1>1 DEF MergedBut
      <3> QED BY ONLY <1>10, <2>1, <3>1, <3>2
    <2> QED BY ONLY <1>10, <2>1 DEF MergedBut
  <1>12. Rejoined(r, f, i, top)
    <2>1. r = coalesce_around(f, i) /\ i \in 1..Len(f)
      BY <1>2, <1>8, <1>10
    <2> QED BY <1>9, <1>11, <2>1, CoalesceAround
  <1>13. ASSUME NEW p, NEW m PROVE UsedAt(f, p, m) <=> UsedAt(bs, p, m) /\ p # ptr
    <2>1. ASSUME UsedAt(f, p, m) PROVE UsedAt(bs, p, m) /\ p # ptr
      <3>1. PICK k \in 1..len : ~ IsFree(f[k]) /\ Payload(f[k]) = p /\ f[k].size = m
        BY <1>10, <2>1 DEF UsedAt
      <3>2. k # i /\ f[k] = bs[k]
        BY <1>6, <1>10, <3>1
      <3>3. UsedAt(bs, p, m)
        BY ONLY <1>1, <3>1, <3>2 DEF UsedAt
      <3>4. p # ptr
        BY <1>1, <1>2, <1>3, <1>4, <3>1, <3>2, PayloadUnique
      <3> QED BY <3>3, <3>4
    <2>2. ASSUME UsedAt(bs, p, m), p # ptr PROVE UsedAt(f, p, m)
      <3>1. PICK k \in 1..len : ~ IsFree(bs[k]) /\ Payload(bs[k]) = p /\ bs[k].size = m
        BY <1>1, <2>2 DEF UsedAt
      <3>2. k # i
        BY <1>3, <1>4, <2>2, <3>1
      <3> QED BY ONLY <1>10, <3>1, <3>2 DEF UsedAt
    <2> QED BY <2>1, <2>2
  <1>14. \A p, m : UsedAt(r, p, m) <=> UsedAt(bs, p, m) /\ p # ptr
    <2>1. \A p, m : UsedAt(r, p, m) <=> UsedAt(f, p, m)
      BY ONLY <1>12 DEF Rejoined
    <2> QED BY ONLY <1>13, <2>1
  <1>15. DOMAIN lv2 = DOMAIN lv \ {ptr} /\ \A p \in DOMAIN lv : p # ptr => lv2[p] = lv[p]
    BY <1>3, <1>4
  <1>16. LiveFor(r, lv2)
    <2>1. LiveFor(bs, lv)
      OBVIOUS
    <2>2. ASSUME NEW p PROVE p \in DOMAIN lv2 <=> \E m : UsedAt(r, p, m)
      BY ONLY <1>14, <1>15, <2>1 DEF LiveFor
    <2>3. ASSUME NEW p, NEW m, UsedAt(r, p, m) PROVE lv2[p] \in Requests /\ lv2[p] <= m
      <3>1. UsedAt(bs, p, m) /\ p # ptr
        BY ONLY <1>14, <2>3
      <3>2. p \in DOMAIN lv /\ lv[p] \in Requests /\ lv[p] <= m
        BY ONLY <2>1, <3>1 DEF LiveFor
      <3> QED BY ONLY <1>15, <3>1, <3>2
    <2> QED BY ONLY <2>2, <2>3 DEF LiveFor
  <1> QED BY ONLY <1>12, <1>16 DEF Rejoined

-----------------------------------------------------------------------------
(* heap_grow asks for at least one page, and unless the sum wraps for      *)
(* enough of them.                                                         *)
LEMMA GrowPages ==
  ASSUME NEW w \in Nat \ {0}
  PROVE  /\ heap_grow_pages(w) \in Nat \ {0}
         /\ w + Header + PageSize - 1 <= SizeMax => w + Header <= heap_grow_pages(w) * PageSize
  <1>1. PICK P \in Nat \ {0} : P = PageSize
    BY Sizes
  <1>2. PICK t \in Nat \ {0} : t = w + Header + PageSize - 1 /\ t = (w + Header) + (P - 1)
    BY <1>1, Sizes
  <1>3. PICK M \in Nat : M = SizeMax
    BY Sizes
  <1>4. PICK u \in Nat : u = t % (M + 1) /\ (t <= M => u = t)
    BY ONLY t \in Nat, M \in Nat
  <1>5. PICK q \in Nat : q = u \div P /\ u < q * P + P
    <2>1. u \div P \in Nat
      BY ONLY u \in Nat, P \in Nat \ {0}
    <2>2. u < (u \div P) * P + P
      BY ONLY u \in Nat, P \in Nat \ {0}
    <2> QED BY <2>1, <2>2
  <1>6. heap_grow_pages(w) = IF q = 0 THEN 1 ELSE q
    BY <1>1, <1>2, <1>3, <1>4, <1>5 DEF heap_grow_pages
  <1>7. ASSUME t <= M PROVE q # 0 /\ w + Header <= q * P
    <2>1. PICK h \in Nat \ {0} : h = w + Header
      BY Sizes
    <2>2. PICK g \in Nat : g = q * P
      BY ONLY q \in Nat, P \in Nat
    <2>3. h + (P - 1) < g + P
      BY ONLY <1>2, <1>4, <1>5, <1>7, <2>1, <2>2
    <2>4. h <= g
      BY ONLY <2>3, h \in Nat, g \in Nat, P \in Nat
    <2>5. q # 0
      BY ONLY <2>1, <2>2, <2>4, P \in Nat
    <2> QED BY ONLY <2>1, <2>2, <2>4, <2>5
  <1> QED BY ONLY <1>1, <1>2, <1>3, <1>6, <1>7, q \in Nat

(* A request whose sums wrap is larger than the heap.                      *)
LEMMA WrapsBeyondHeap ==
  ASSUME NEW size \in Requests,
         TooLarge(size) \/ align_up(size) + Header + PageSize - 1 > SizeMax
  PROVE  size > Limit - Base
  <1>1. PICK w \in Nat : w = align_up(size) /\ w <= size + Align - 1
    BY RequestSize
  <1>2. PICK z \in Nat : z = size
    BY RequestSize
  <1>3. Limit - Base + Align + Header + PageSize <= SizeMax
    BY HeapAssumption
  <1>4. \/ z > SizeMax - (Align - 1) \/ w > SizeMax - Header
        \/ w + Header + PageSize - 1 > SizeMax
    BY <1>1, <1>2 DEF TooLarge
  <1>5. z > Limit - Base
    BY ONLY <1>1, <1>2, <1>3, <1>4, Sizes, w \in Nat, z \in Nat
  <1> QED BY <1>2, <1>5

-----------------------------------------------------------------------------
(* The inductive invariant: the block list is a chain of aligned blocks    *)
(* that ends at heap_virtual_next, with no two free neighbours, and the    *)
(* allocations are its used blocks.                                        *)
BlocksInv ==
  Chain(blocks, heap_next) /\ MergedBut(blocks, {}) /\ heap_next \in Nat /\ heap_next <= Limit

LiveInv ==
  /\ LiveFor(blocks, live)
  /\ IsFiniteSet(DOMAIN live) /\ active = Cardinality(DOMAIN live)

HeapInv == BlocksInv /\ LiveInv /\ PanicOnlyForMemory

LEMMA HeapInvInit == Init => HeapInv
  <1> SUFFICES ASSUME Init PROVE HeapInv
    OBVIOUS
  <1>1. /\ blocks = AddRegion(<<>>, Base, InitialPages)
        /\ heap_next = Base + InitialPages * PageSize
        /\ active = 0 /\ live = [p \in {} |-> 0] /\ panic = [why |-> "none", size |-> 0]
    BY DEF Init
  <1>2. InitialPages \in Nat \ {0} /\ Base + InitialPages * PageSize <= Limit
    BY HeapAssumption
  <1>3. PICK none : none = <<>>
    OBVIOUS
  <1>4. Grown(blocks, none, heap_next, InitialPages * PageSize - Header)
    BY <1>1, <1>2, <1>3, Region, Sizes
  <1>5. Chain(blocks, heap_next) /\ MergedBut(blocks, {})
        /\ \A p, m : UsedAt(blocks, p, m) <=> UsedAt(none, p, m)
    BY ONLY <1>4 DEF Grown
  <1>6. \A p, m : ~ UsedAt(none, p, m)
    BY <1>3 DEF UsedAt
  <1>7. DOMAIN live = {}
    BY <1>1
  <1>8. heap_next \in Nat /\ heap_next <= Limit
    BY <1>1, <1>2, <1>5 DEF Chain
  <1>9. LiveFor(blocks, live)
    BY ONLY <1>5, <1>6, <1>7 DEF LiveFor
  <1>10. IsFiniteSet(DOMAIN live) /\ active = Cardinality(DOMAIN live)
    BY <1>1, <1>7, FS_EmptySet
  <1>11. PanicOnlyForMemory
    BY <1>1 DEF PanicOnlyForMemory
  <1> QED BY <1>5, <1>8, <1>9, <1>10, <1>11 DEF HeapInv, BlocksInv, LiveInv

(* What handing out a block of bs, the list as it is or after growth, does *)
(* to the invariant and to the allocator's users.                          *)
LEMMA HandOutStep ==
  ASSUME LiveInv, NEW bs, NEW top \in Nat, Chain(bs, top), MergedBut(bs, {}), top <= Limit,
         LiveFor(bs, live), NEW size \in Requests, NEW i \in Fits(bs, align_up(size)),
         HandOut(bs, i, size)
  PROVE  /\ Chain(blocks', top) /\ MergedBut(blocks', {}) /\ LiveInv'
         /\ Contract!Next
  <1>1. PICK ptr : ptr = Payload(bs[i])
    OBVIOUS
  <1>2. PICK r : r = blocks'
    OBVIOUS
  <1>3. PICK lv : lv = live
    OBVIOUS
  <1>4. PICK lv2 : lv2 = live'
    OBVIOUS
  <1>5. /\ r = split_block(bs, i, align_up(size)) /\ active' = active + 1
        /\ lv2 = [p \in DOMAIN lv \cup {Payload(bs[i])} |->
                     IF p = Payload(bs[i]) THEN size ELSE lv[p]]
    BY <1>2, <1>3, <1>4 DEF HandOut
  <1>6. LiveFor(bs, lv)
    BY <1>3
  <1>7. /\ Chain(r, top) /\ MergedBut(r, {}) /\ LiveFor(r, lv2)
        /\ Separate(ptr, size, lv, top)
    BY <1>1, <1>5, <1>6, HandedOut
  <1>8. LiveInv'
    <2>1. DOMAIN live' = DOMAIN live \cup {ptr} /\ ptr \notin DOMAIN live
      BY <1>1, <1>3, <1>4, <1>5, <1>7 DEF Separate
    <2>2. IsFiniteSet(DOMAIN live) /\ active = Cardinality(DOMAIN live)
      BY DEF LiveInv
    <2>3. IsFiniteSet(DOMAIN live') /\ Cardinality(DOMAIN live') = Cardinality(DOMAIN live) + 1
      BY <2>1, <2>2, FS_AddElement
    <2>4. LiveFor(blocks', live')
      BY <1>2, <1>4, <1>7
    <2> QED BY <1>5, <2>2, <2>3, <2>4 DEF LiveInv
  <1>9. Contract!Next
    <2>1. size \in Nat /\ ptr \in Nat /\ Base <= ptr /\ ptr + size <= top /\ ptr % Align = 0
      BY <1>7, RequestSize DEF Separate
    <2>2. ptr + size <= Limit /\ ptr \in Base..Limit
      BY <2>1, Sizes
    <2>3. \A p \in DOMAIN live : Contract!Disjoint(ptr, size, p, live[p])
      BY <1>3, <1>7 DEF Separate, Contract!Disjoint
    <2>4. ptr >= Base
      BY <2>1, Sizes
    <2>5. Contract!Alloc(ptr, size)
      BY <1>1, <1>3, <1>4, <1>5, <2>1, <2>2, <2>3, <2>4 DEF Contract!Alloc
    <2> QED BY <2>2, <2>5 DEF Contract!Next
  <1> QED BY <1>2, <1>7, <1>8, <1>9

(* kmalloc that is served from the list.                                   *)
LEMMA KmallocStep ==
  ASSUME HeapInv, NEW size \in Requests, Kmalloc(size)
  PROVE  HeapInv' /\ Contract!Next
  <1>1. /\ Chain(blocks, heap_next) /\ MergedBut(blocks, {}) /\ heap_next \in Nat
        /\ heap_next <= Limit /\ LiveInv /\ LiveFor(blocks, live)
    BY DEF HeapInv, BlocksInv, LiveInv
  <1>2. PICK i \in Fits(blocks, align_up(size)) : HandOut(blocks, i, size)
    BY DEF Kmalloc
  <1>3. PICK bs : bs = blocks
    OBVIOUS
  <1>4. PICK top \in Nat : top = heap_next
    BY <1>1
  <1>5. /\ Chain(bs, top) /\ MergedBut(bs, {}) /\ top <= Limit /\ LiveFor(bs, live)
        /\ i \in Fits(bs, align_up(size)) /\ HandOut(bs, i, size)
    BY <1>1, <1>2, <1>3, <1>4
  <1>6. Chain(blocks', top) /\ MergedBut(blocks', {}) /\ LiveInv' /\ Contract!Next
    BY <1>1, <1>5, HandOutStep
  <1>7. heap_next' = top /\ panic' = panic
    BY <1>4 DEF Kmalloc
  <1>8. BlocksInv'
    BY <1>5, <1>6, <1>7 DEF BlocksInv
  <1>9. PanicOnlyForMemory'
    BY <1>7 DEF HeapInv, PanicOnlyForMemory
  <1> QED BY <1>6, <1>8, <1>9 DEF HeapInv

(* A step that stops the kernel.                                           *)
LEMMA PanicStep ==
  ASSUME HeapInv, NEW why, NEW size, Panic(why, size),
         why \in {"failed after heap growth", "too large"} => size > Limit - Base
  PROVE  HeapInv' /\ UNCHANGED live
  <1>1. UNCHANGED <<blocks, heap_next, active, live>> /\ panic' = [why |-> why, size |-> size]
    BY DEF Panic
  <1>2. BlocksInv' /\ LiveInv'
    BY <1>1 DEF HeapInv, BlocksInv, LiveInv
  <1>3. PanicOnlyForMemory'
    BY <1>1 DEF PanicOnlyForMemory
  <1> QED BY <1>1, <1>2, <1>3 DEF HeapInv

(* kmalloc after heap_grow: the grown list has a block that fits, unless   *)
(* the page count has wrapped.                                             *)
LEMMA KmallocGrowStep ==
  ASSUME HeapInv, NEW size \in Requests, KmallocGrow(size)
  PROVE  HeapInv' /\ (Contract!Next \/ UNCHANGED live)
  <1>1. /\ Chain(blocks, heap_next) /\ MergedBut(blocks, {}) /\ heap_next \in Nat
        /\ heap_next <= Limit /\ LiveInv /\ LiveFor(blocks, live)
    BY DEF HeapInv, BlocksInv, LiveInv
  <1>2. PICK w \in Nat \ {0} : w = align_up(size)
    BY RequestSize
  <1>3. PICK pages \in Nat \ {0} :
          /\ pages = heap_grow_pages(w)
          /\ w + Header + PageSize - 1 <= SizeMax => w + Header <= pages * PageSize
    BY GrowPages
  <1>4. PICK t \in Nat : t = pages * PageSize
    BY ProductAtLeast, Sizes
  <1>5. PICK bs : bs = AddRegion(blocks, heap_next, pages)
    OBVIOUS
  <1>6. PICK top \in Nat : top = heap_next + t
    BY <1>1
  <1>7. /\ t <= Limit - heap_next
        /\ IF Fits(bs, w) = {}
           THEN Panic("failed after heap growth", size)
           ELSE /\ \E i \in Fits(bs, w) : IsFirstFit(bs, w, i) /\ HandOut(bs, i, size)
                /\ heap_next' = heap_next + t
                /\ UNCHANGED panic
    BY <1>2, <1>3, <1>4, <1>5 DEF KmallocGrow, RoomFor
  <1>8. Grown(bs, blocks, top, t - Header)
    BY <1>1, <1>4, <1>5, <1>6, Region
  <1>9. /\ Chain(bs, top) /\ MergedBut(bs, {})
        /\ \A p, m : UsedAt(bs, p, m) <=> UsedAt(blocks, p, m)
        /\ \E k \in 1..Len(bs) : IsFree(bs[k]) /\ t - Header <= bs[k].size
    BY ONLY <1>8 DEF Grown
  <1>10. CASE Fits(bs, w) = {}
    <2>1. Panic("failed after heap growth", size)
      BY <1>7, <1>10
    <2>2. ~ (w + Header + PageSize - 1 <= SizeMax)
      <3>1. SUFFICES ASSUME w + Header <= t PROVE FALSE
        BY <1>3, <1>4
      <3>2. PICK k \in 1..Len(bs) : IsFree(bs[k]) /\ t - Header <= bs[k].size
        BY <1>9
      <3>3. PICK z \in Nat : z = bs[k].size
        BY <1>9, ChainParts
      <3>4. w <= z
        BY ONLY <3>1, <3>2, <3>3, Sizes, w \in Nat, t \in Nat, z \in Nat
      <3>5. k \in DOMAIN bs /\ bs[k].free /\ bs[k].size >= w
        BY <1>9, <3>2, <3>3, <3>4, ChainParts DEF IsFree
      <3> QED BY <1>10, <3>5 DEF Fits
    <2>3. size > Limit - Base
      <3>1. align_up(size) + Header + PageSize - 1 > SizeMax
        BY <1>2, <2>2, Sizes
      <3> QED BY <3>1, WrapsBeyondHeap
    <2> QED BY <2>1, <2>3, PanicStep
  <1>11. CASE Fits(bs, w) # {}
    <2>1. PICK i \in Fits(bs, align_up(size)) : HandOut(bs, i, size)
      BY <1>2, <1>7, <1>11
    <2>2. heap_next' = top /\ panic' = panic
      BY <1>6, <1>7, <1>11
    <2>3. top <= Limit
      <3>1. heap_next \in Nat /\ t <= Limit - heap_next
        BY <1>1, <1>7
      <3> QED BY ONLY <1>6, <3>1, Sizes, t \in Nat
    <2>4. LiveFor(bs, live)
      BY ONLY <1>1, <1>9 DEF LiveFor
    <2>5. Chain(blocks', top) /\ MergedBut(blocks', {}) /\ LiveInv' /\ Contract!Next
      BY <1>1, <1>9, <2>1, <2>3, <2>4, HandOutStep
    <2>6. BlocksInv'
      BY <2>2, <2>3, <2>5 DEF BlocksInv
    <2>7. PanicOnlyForMemory'
      BY <2>2 DEF HeapInv, PanicOnlyForMemory
    <2> QED BY <2>5, <2>6, <2>7 DEF HeapInv
  <1> QED BY <1>10, <1>11

(* kfree of a live allocation.                                             *)
LEMMA KfreeStep ==
  ASSUME HeapInv, NEW ptr \in DOMAIN live, Kfree(ptr)
  PROVE  HeapInv' /\ Contract!Next
  <1>1. /\ Chain(blocks, heap_next) /\ MergedBut(blocks, {}) /\ heap_next \in Nat
        /\ heap_next <= Limit /\ LiveFor(blocks, live)
        /\ IsFiniteSet(DOMAIN live) /\ active = Cardinality(DOMAIN live)
    BY DEF HeapInv, BlocksInv, LiveInv
  <1>2. PICK i \in DOMAIN blocks : /\ Payload(blocks[i]) = ptr
                                   /\ blocks' = coalesce_around([blocks EXCEPT ![i].free = TRUE], i)
    BY DEF Kfree
  <1>3. /\ active' = IF active > 0 THEN active - 1 ELSE 0
        /\ live' = [p \in DOMAIN live \ {ptr} |-> live[p]]
        /\ heap_next' = heap_next /\ panic' = panic
    BY DEF Kfree
  <1>4. PICK bs : bs = blocks
    OBVIOUS
  <1>5. PICK r : r = blocks'
    OBVIOUS
  <1>6. PICK lv : lv = live
    OBVIOUS
  <1>7. PICK lv2 : lv2 = live'
    OBVIOUS
  <1>8. PICK top \in Nat : top = heap_next
    BY <1>1
  <1>9. /\ Chain(bs, top) /\ MergedBut(bs, {}) /\ LiveFor(bs, lv)
        /\ i \in DOMAIN bs /\ Payload(bs[i]) \in DOMAIN lv
        /\ r = coalesce_around([bs EXCEPT ![i].free = TRUE], i)
        /\ lv2 = [p \in DOMAIN lv \ {Payload(bs[i])} |-> lv[p]]
    BY <1>1, <1>2, <1>3, <1>4, <1>5, <1>6, <1>7, <1>8
  <1>10. Chain(r, top) /\ MergedBut(r, {}) /\ LiveFor(r, lv2)
    BY <1>9, Freed
  <1>11. BlocksInv'
    BY <1>1, <1>3, <1>5, <1>8, <1>10 DEF BlocksInv
  <1>12. LiveInv'
    <2>1. DOMAIN live' = DOMAIN live \ {ptr}
      BY <1>3
    <2>2. /\ IsFiniteSet(DOMAIN live') /\ Cardinality(DOMAIN live') = Cardinality(DOMAIN live) - 1
          /\ Cardinality(DOMAIN live) \in Nat
      BY <1>1, <2>1, FS_RemoveElement, FS_CardinalityType
    <2>3. Cardinality(DOMAIN live') \in Nat
      BY <2>2, FS_CardinalityType
    <2>4. active' = Cardinality(DOMAIN live')
      BY <1>1, <1>3, <2>2, <2>3
    <2> QED BY <1>5, <1>7, <1>10, <2>2, <2>4 DEF LiveInv
  <1>13. PanicOnlyForMemory'
    BY <1>3 DEF HeapInv, PanicOnlyForMemory
  <1>14. Contract!Next
    BY <1>3 DEF Contract!Next, Contract!Free
  <1> QED BY <1>11, <1>12, <1>13, <1>14 DEF HeapInv

LEMMA HeapStep ==
  HeapInv /\ [Next]_vars => HeapInv' /\ (Contract!Next \/ UNCHANGED live)
  <1> SUFFICES ASSUME HeapInv, [Next]_vars PROVE HeapInv' /\ (Contract!Next \/ UNCHANGED live)
    OBVIOUS
  <1>1. ASSUME NEW size \in Requests, Kmalloc(size) PROVE HeapInv' /\ Contract!Next
    BY <1>1, KmallocStep
  <1>2. ASSUME NEW size \in Requests, KmallocGrow(size)
        PROVE  HeapInv' /\ (Contract!Next \/ UNCHANGED live)
    BY <1>2, KmallocGrowStep
  <1>3. ASSUME NEW size \in Requests, KmallocPanic(size) PROVE HeapInv' /\ UNCHANGED live
    <2>1. CASE TooLarge(size) /\ Panic("too large", size)
      <3>1. size > Limit - Base
        BY <2>1, WrapsBeyondHeap
      <3> QED BY <2>1, <3>1, PanicStep
    <2>2. ASSUME NEW why \in {"no range", "no page"}, Panic(why, size)
          PROVE  HeapInv' /\ UNCHANGED live
      BY <2>2, PanicStep
    <2> QED BY <1>3, <2>1, <2>2 DEF KmallocPanic
  <1>4. ASSUME NEW ptr \in DOMAIN live, Kfree(ptr) PROVE HeapInv' /\ Contract!Next
    BY <1>4, KfreeStep
  <1>5. CASE UNCHANGED vars
    BY <1>5 DEF vars, HeapInv, BlocksInv, LiveInv, PanicOnlyForMemory
  <1> QED BY <1>1, <1>2, <1>3, <1>4, <1>5 DEF Next

(* The inductive invariant holds in every state.                           *)
THEOREM Inductive == Spec => []HeapInv
  <1>1. HeapInv /\ [Next]_vars => HeapInv'
    BY HeapStep
  <1> QED BY HeapInvInit, <1>1, PTL DEF Spec

(* The block list tiles the heap without gap, overlap or free neighbours,  *)
(* through every split of kmalloc, merge of kfree and growth of the heap.  *)
THEOREM BlocksTileHeap == Spec => []HeapTiled
  <1>1. HeapInv => HeapTiled
    <2> SUFFICES ASSUME HeapInv PROVE HeapTiled
      OBVIOUS
    <2>1. Chain(blocks, heap_next) /\ MergedBut(blocks, {})
      BY DEF HeapInv, BlocksInv
    <2>2. PICK len \in Nat \ {0} : len = Len(blocks) /\ DOMAIN blocks = 1..len
      BY <2>1, ChainParts
    <2>3. \A i \in 1..len : blocks[i].size > 0
      BY <2>1, <2>2, ChainParts
    <2>4. /\ blocks[1].addr = Base /\ End(blocks[len]) = heap_next
          /\ \A i \in 1..(len - 1) : End(blocks[i]) = blocks[i + 1].addr
      BY <2>1, <2>2 DEF Chain
    <2>5. \A i \in 1..(len - 1) : ~ (blocks[i].free /\ blocks[i + 1].free)
      BY <2>1, <2>2 DEF MergedBut, IsFree
    <2>6. ASSUME NEW i \in 1..len
          PROVE  /\ End(blocks[i]) = IF i = len THEN heap_next ELSE blocks[i + 1].addr
                 /\ i < len => ~ (blocks[i].free /\ blocks[i + 1].free)
      <3>1. i = len \/ (i \in 1..(len - 1) /\ i # len)
        BY ONLY len \in Nat, i \in 1..len
      <3>2. i < len => i \in 1..(len - 1)
        BY ONLY len \in Nat, i \in 1..len
      <3> QED BY ONLY <2>4, <2>5, <3>1, <3>2
    <2>7. blocks # <<>>
      BY <2>2
    <2> QED BY <2>2, <2>3, <2>4, <2>6, <2>7 DEF HeapTiled
  <1> QED BY Inductive, <1>1, PTL

(* The used blocks are exactly the allocations that have not been freed,   *)
(* none smaller than was asked for, and heap_active_allocations is their   *)
(* number.                                                                 *)
THEOREM UsedBlocksAlwaysLive == Spec => []UsedBlocksAreLive
  <1>1. HeapInv => UsedBlocksAreLive
    <2> SUFFICES ASSUME HeapInv PROVE UsedBlocksAreLive
      OBVIOUS
    <2>1. Chain(blocks, heap_next) /\ LiveFor(blocks, live) /\ active = Cardinality(DOMAIN live)
      BY DEF HeapInv, BlocksInv, LiveInv
    <2>2. DOMAIN blocks = 1..Len(blocks)
      BY <2>1, ChainParts
    <2> DEFINE used == {i \in DOMAIN blocks : ~ blocks[i].free}
    <2>3. ASSUME NEW p PROVE p \in DOMAIN live <=> p \in {Payload(blocks[i]) : i \in used}
      <3>1. p \in DOMAIN live <=> \E n : UsedAt(blocks, p, n)
        BY <2>1 DEF LiveFor
      <3>2. (\E n : UsedAt(blocks, p, n)) <=> \E i \in used : Payload(blocks[i]) = p
        BY <2>2 DEF UsedAt, IsFree
      <3> QED BY <3>1, <3>2
    <2>4. DOMAIN live = {Payload(blocks[i]) : i \in used}
      BY <2>3
    <2>5. ASSUME NEW i \in used PROVE blocks[i].size >= live[Payload(blocks[i])]
      <3>1. UsedAt(blocks, Payload(blocks[i]), blocks[i].size)
        BY <2>2 DEF UsedAt, IsFree
      <3>2. live[Payload(blocks[i])] \in Requests /\ live[Payload(blocks[i])] <= blocks[i].size
        BY <2>1, <3>1 DEF LiveFor
      <3>3. blocks[i].size \in Nat /\ live[Payload(blocks[i])] \in Nat
        BY <2>1, <2>2, <3>2, ChainParts, RequestSize
      <3> QED BY <3>2, <3>3
    <2> QED BY <2>1, <2>4, <2>5 DEF UsedBlocksAreLive
  <1> QED BY Inductive, <1>1, PTL

(* kmalloc panics as too large or after growth only for a request that the *)
(* whole address range of the heap could not hold.                         *)
THEOREM PanicsOnlyForMemory == Spec => []PanicOnlyForMemory
  <1>1. HeapInv => PanicOnlyForMemory
    BY DEF HeapInv
  <1> QED BY Inductive, <1>1, PTL

(* kmalloc and kfree implement the allocator: every step of the heap is an *)
(* allocation of an aligned range apart from all live ones, the release of *)
(* one, or changes nothing that a user of the heap sees.                   *)
THEOREM HeapImplementsAllocator == Spec => ImplementsAllocator
  <1>1. Init => Contract!Init
    BY DEF Init, Contract!Init
  <1>2. HeapInv /\ [Next]_vars => [Contract!Next]_live
    BY HeapStep
  <1> QED BY Inductive, <1>1, <1>2, PTL DEF Spec, ImplementsAllocator, Contract!Spec
=============================================================================
