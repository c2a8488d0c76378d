--------------------------- MODULE Profile_proof ---------------------------
(***************************************************************************)
(* Proofs about the way of a sample from the stack store to the views: the *)
(* key of a stack, the store, the file, its symbols, the string cache, the *)
(* arena of a tree, the totals of the views and the annotation.            *)
(***************************************************************************)
EXTENDS Profile, Data_proof

-----------------------------------------------------------------------------
(* MD5                                                                     *)

LEMMA RestOfWords ==
  ASSUME NEW n \in Int
  PROVE  n % BlockWords \in 0 .. BlockWords - 1
<1>1. BlockWords \in Nat \ {0}
  BY BlockWordsAssumption
<1> QED
  BY <1>1, QuotientAndRest

LEMMA DivisionOfWords ==
  ASSUME NEW n \in Int, NEW q \in Int, NEW r \in 0 .. BlockWords - 1, n = BlockWords * q + r
  PROVE  n \div BlockWords = q /\ n % BlockWords = r
<1>1. BlockWords \in Nat \ {0}
  BY BlockWordsAssumption
<1> QED
  BY <1>1, DivisionIsUnique

\* A state of the digest by its parts.
Digest(c, a, b) == [count |-> c, abcd |-> a, buf |-> b]

\* A block with data written over it from an offset on.
Over(b, offset, p) ==
  [i \in 1 .. BlockWords |-> IF i \in offset + 1 .. offset + Len(p) THEN p[i - offset] ELSE b[i]]

LEMMA BufferedDigest ==
  ASSUME NEW c, NEW a, NEW b, NEW offset, NEW p
  PROVE  Buffered(Digest(c, a, b), offset, p) = Digest(c, a, Over(b, offset, p))
<1>1. \A x : [Digest(c, a, b) EXCEPT !.buf = x] = Digest(c, a, x)
  BY DEF Digest
<1>2. Digest(c, a, b).buf = b
  BY DEF Digest
<1> QED
  BY <1>1, <1>2 DEF Buffered, Over

LEMMA NoBlocks ==
  ASSUME NEW S, NEW a \in Seq(S), NEW p
  PROVE  a \o [i \in 1 .. 0 |-> Block(p, i)] = a
<1>1. [i \in 1 .. 0 |-> Block(p, i)] = << >>
  OBVIOUS
<1> QED
  BY <1>1, EmptySeq, ConcatEmptySeq

\* What WholeBlocks does with less than a block.
LEMMA LessThanABlock ==
  ASSUME NEW S, NEW c, NEW a \in Seq(S), NEW b, NEW p \in Seq(Nat), Len(p) < BlockWords
  PROVE  WholeBlocks(Digest(c, a, b), p) = Digest(c, a, Over(b, 0, p))
<1>1. /\ BlockWords \in Nat \ {0} /\ 0 \in Int /\ Len(p) \in Int
      /\ Len(p) \in 0 .. BlockWords - 1 /\ Len(p) = BlockWords * 0 + Len(p)
  BY BlockWordsAssumption
<1>2. Len(p) \div BlockWords = 0
  BY <1>1, DivisionIsUnique
<1>3. SubSeq(p, 0 * BlockWords + 1, Len(p)) = p
  <2>1. 0 * BlockWords + 1 = 1
    BY BlockWordsAssumption
  <2> QED
    BY <2>1, SubSeqFull
<1>4. Digest(c, a, b).abcd \o [i \in 1 .. 0 |-> Block(p, i)] = a
  BY NoBlocks DEF Digest
<1>5. [Digest(c, a, b) EXCEPT !.abcd = a] = Digest(c, a, b)
  BY DEF Digest
<1>6. WholeBlocks(Digest(c, a, b), p) = Buffered(Digest(c, a, b), 0, p)
  BY <1>2, <1>3, <1>4, <1>5 DEF WholeBlocks
<1> QED
  BY <1>6, BufferedDigest

\* md5_append of data that does not fill the block.
LEMMA AppendShort ==
  ASSUME NEW S, NEW c \in Nat, NEW a \in Seq(S), NEW b,
         NEW data \in Seq(Nat), Len(data) > 0, (c % BlockWords) + Len(data) < BlockWords
  PROVE  md5_append(Digest(c, a, b), data) = Digest(c + Len(data), a, Over(b, c % BlockWords, data))
<1> DEFINE counted == Digest(c + Len(data), a, b)
<1>1. [Digest(c, a, b) EXCEPT !.count = @ + Len(data)] = counted /\ Digest(c, a, b).count = c
  BY DEF Digest
<1>2. PICK r \in 0 .. BlockWords - 1 : r = c % BlockWords
  BY RestOfWords
<1>3. Len(data) \in Nat /\ r + Len(data) < BlockWords /\ BlockWords \in Nat
  BY <1>2, BlockWordsAssumption
<1>4. SubSeq(data, 1, Len(data)) = data
  BY SubSeqFull
<1>5. CASE r = 0
  <2>1. md5_append(Digest(c, a, b), data) = WholeBlocks(counted, data)
    BY <1>1, <1>2, <1>5 DEF md5_append
  <2>2. WholeBlocks(counted, data) = Digest(c + Len(data), a, Over(b, 0, data))
    BY <1>3, <1>5, LessThanABlock
  <2> QED
    BY <2>1, <2>2, <1>2, <1>5
<1>6. CASE r # 0
  <2>1. ~(r + Len(data) > BlockWords)
    BY <1>3
  <2>2. md5_append(Digest(c, a, b), data) = Buffered(counted, r, SubSeq(data, 1, Len(data)))
    BY <1>1, <1>2, <1>3, <1>6, <2>1 DEF md5_append
  <2>3. Buffered(counted, r, data) = Digest(c + Len(data), a, Over(b, r, data))
    BY BufferedDigest
  <2> QED
    BY <2>2, <2>3, <1>2, <1>4
<1> QED
  BY <1>5, <1>6

\* md5_append of data that fills a block that was begun, but no second one.
LEMMA AppendFull ==
  ASSUME NEW S, NEW c \in Nat, NEW a \in Seq(S), NEW b, NEW data \in Seq(Nat),
         NEW r \in 1 .. BlockWords - 1, r = c % BlockWords,
         r + Len(data) >= BlockWords, r + Len(data) < 2 * BlockWords,
         NEW block \in S, block = Over(b, r, SubSeq(data, 1, BlockWords - r))
  PROVE  md5_append(Digest(c, a, b), data)
           = Digest(c + Len(data), Append(a, block),
                    Over(block, 0, SubSeq(data, BlockWords - r + 1, Len(data))))
<1> DEFINE k == BlockWords - r
           counted == Digest(c + Len(data), a, b)
           first == Digest(c + Len(data), a, block)
           rest == SubSeq(data, k + 1, Len(data))
<1>1. [Digest(c, a, b) EXCEPT !.count = @ + Len(data)] = counted /\ Digest(c, a, b).count = c
  BY DEF Digest
<1>2. /\ Len(data) \in Nat /\ Len(data) >= k /\ Len(data) > 0 /\ BlockWords \in Nat
      /\ k \in 1 .. BlockWords - 1 /\ r + k = BlockWords
  BY BlockWordsAssumption
<1>3. (IF r + Len(data) > BlockWords THEN BlockWords - r ELSE Len(data)) = k
  <2>1. PICK l \in Nat, j \in Nat, w \in Nat, i \in Nat :
           l = Len(data) /\ j = k /\ w = BlockWords /\ i = r /\ l >= j /\ i + j = w
    BY <1>2
  <2>2. i + l > w \/ l = j
    BY <2>1
  <2> QED
    BY <2>1, <2>2
<1>4. Buffered(counted, r, SubSeq(data, 1, k)) = first
  BY BufferedDigest
<1>5. md5_process(first, first.buf) = Digest(c + Len(data), Append(a, block), block)
  <2>1. first.buf = block /\ first.abcd = a
    BY DEF Digest
  <2>2. \A x : [first EXCEPT !.abcd = x] = Digest(c + Len(data), x, block)
    BY DEF Digest
  <2> QED
    BY <2>1, <2>2 DEF md5_process
<1> HIDE DEF k, counted, first, rest
<1>6. md5_append(Digest(c, a, b), data) = WholeBlocks(md5_process(first, first.buf), rest)
  <2>1. Len(data) # 0 /\ r # 0 /\ ~(r + k < BlockWords)
    BY <1>2
  <2>2. Buffered([Digest(c, a, b) EXCEPT !.count = @ + Len(data)], Digest(c, a, b).count % BlockWords, SubSeq(data, 1, k)) = first
    BY <1>1, <1>4
  <2> QED
    BY <1>1, <1>3, <2>1, <2>2 DEF md5_append, rest
<1>7. rest \in Seq(Nat) /\ Len(rest) < BlockWords
  <2>1. \A i \in k + 1 .. Len(data) : data[i] \in Nat
    BY <1>2, ElementOfSeq
  <2> QED
    BY <2>1, <1>2, SubSeqProperties DEF rest
<1>8. Append(a, block) \in Seq(S)
  BY AppendProperties
<1>9. WholeBlocks(Digest(c + Len(data), Append(a, block), block), rest)
        = Digest(c + Len(data), Append(a, block), Over(block, 0, rest))
  <2>1. PICK blocks \in Seq(S) : blocks = Append(a, block)
    BY <1>8
  <2>2. PICK n : n = c + Len(data)
    OBVIOUS
  <2>3. WholeBlocks(Digest(n, blocks, block), rest) = Digest(n, blocks, Over(block, 0, rest))
    BY <1>7, LessThanABlock
  <2> QED
    BY <2>1, <2>2, <2>3
<1> QED
  BY <1>5, <1>6, <1>9 DEF rest, k

ZeroBlock == [i \in 1 .. BlockWords |-> 0]

LEMMA BlockElements ==
  ASSUME NEW w \in Seq(Nat), NEW i \in Nat \ {0}, i * BlockWords <= Len(w)
  PROVE  /\ Block(w, i) = [j \in 1 .. BlockWords |-> w[(i - 1) * BlockWords + j]]
         /\ Block(w, i) \in [1 .. BlockWords -> Nat]
<1>1. PICK lo \in Nat : lo = (i - 1) * BlockWords
  <2>1. i - 1 \in Nat /\ BlockWords \in Nat
    BY BlockWordsAssumption
  <2> QED
    BY <2>1
<1>2. PICK hi \in Nat : hi = i * BlockWords
  BY BlockWordsAssumption
<1>3. hi = lo + BlockWords /\ BlockWords \in Nat
  BY <1>1, <1>2, BlockWordsAssumption
<1>4. \A j \in lo + 1 .. hi : w[j] \in Nat
  BY <1>2, <1>3, ElementOfSeq
<1>5. /\ SubSeq(w, lo + 1, hi) \in Seq(Nat)
      /\ Len(SubSeq(w, lo + 1, hi)) = BlockWords
      /\ \A j \in 1 .. BlockWords : SubSeq(w, lo + 1, hi)[j] = w[lo + j]
  <2>1. lo + 1 \in Int /\ hi \in Int /\ hi - (lo + 1) + 1 = BlockWords
    BY <1>3
  <2>2. /\ SubSeq(w, lo + 1, hi) \in Seq(Nat)
        /\ Len(SubSeq(w, lo + 1, hi)) = IF lo + 1 <= hi THEN hi - (lo + 1) + 1 ELSE 0
        /\ \A j \in 1 .. hi - (lo + 1) + 1 : SubSeq(w, lo + 1, hi)[j] = w[lo + 1 + j - 1]
    BY <1>4, <2>1, SubSeqProperties
  <2>3. \A j \in 1 .. BlockWords : lo + 1 + j - 1 = lo + j
    OBVIOUS
  <2>4. lo + 1 <= hi
    BY <1>3, BlockWordsAssumption
  <2> QED
    BY <2>1, <2>2, <2>3, <2>4
<1>6. Block(w, i) = SubSeq(w, lo + 1, hi)
  BY <1>1, <1>2 DEF Block
<1>7. SubSeq(w, lo + 1, hi) \in [1 .. BlockWords -> Nat]
  BY <1>5, LenProperties
<1>8. SubSeq(w, lo + 1, hi) = [j \in 1 .. BlockWords |-> w[lo + j]]
  BY <1>5, <1>7
<1> QED
  BY <1>1, <1>6, <1>7, <1>8

\* The full blocks of a message, which md5_append processes where they are.
FullBlocks(m) == [i \in 1 .. Len(m) \div BlockWords |-> Block(m, i)]

LEMMA FullBlocksType ==
  ASSUME NEW m \in Seq(Nat), NEW q \in Nat, NEW r \in 0 .. BlockWords - 1, Len(m) = BlockWords * q + r
  PROVE  /\ FullBlocks(m) = [i \in 1 .. q |-> Block(m, i)]
         /\ FullBlocks(m) \in Seq([1 .. BlockWords -> Nat])
         /\ Len(FullBlocks(m)) = q
<1>1. BlockWords \in Nat \ {0} /\ Len(m) \in Int /\ q \in Int
  BY BlockWordsAssumption
<1>2. Len(m) \div BlockWords = q
  BY <1>1, DivisionOfWords
<1>3. ASSUME NEW i \in 1 .. q
      PROVE  Block(m, i) \in [1 .. BlockWords -> Nat]
  <2>1. i * BlockWords <= q * BlockWords
    BY <1>1
  <2>2. i * BlockWords <= Len(m)
    BY <2>1, <1>1
  <2> QED
    BY <2>2, BlockElements
<1>4. FullBlocks(m) = [i \in 1 .. q |-> Block(m, i)]
  BY <1>2 DEF FullBlocks
<1>5. FullBlocks(m) \in [1 .. q -> [1 .. BlockWords -> Nat]]
  BY <1>3, <1>4
<1> QED
  BY <1>4, <1>5, SeqDef

\* md5_append of the message to the initial state.
LEMMA AppendMessage ==
  ASSUME NEW m \in Seq(Nat), NEW q \in Nat, NEW r \in 0 .. BlockWords - 1, Len(m) = BlockWords * q + r
  PROVE  md5_append(md5_init, m)
           = Digest(Len(m), FullBlocks(m), Over(ZeroBlock, 0, SubSeq(m, q * BlockWords + 1, Len(m))))
<1> DEFINE rest == SubSeq(m, q * BlockWords + 1, Len(m))
<1>1. BlockWords \in Nat \ {0} /\ Len(m) \in Int /\ Len(m) \div BlockWords = q
  <2>1. BlockWords \in Nat \ {0} /\ Len(m) \in Int /\ q \in Int
    BY BlockWordsAssumption
  <2> QED
    BY <2>1, DivisionOfWords
<1>2. md5_init = Digest(0, << >>, ZeroBlock)
  BY DEF md5_init, Digest, ZeroBlock
<1>3. CASE Len(m) = 0
  <2>1. q = 0
    <3>1. q >= 1 => BlockWords * q >= BlockWords
      BY <1>1
    <3> QED
      BY <3>1, <1>1, <1>3
  <2>2. FullBlocks(m) = << >>
    BY <2>1, <1>1 DEF FullBlocks
  <2>3. rest = << >>
    <3>1. q * BlockWords + 1 = 1
      BY <2>1, <1>1
    <3> QED
      BY <3>1, <1>3, SubSeqEmpty
  <2>4. Over(ZeroBlock, 0, << >>) = ZeroBlock
    BY DEF Over, ZeroBlock
  <2>5. md5_append(md5_init, m) = md5_init
    BY <1>3 DEF md5_append
  <2> QED
    BY <1>2, <1>3, <2>2, <2>3, <2>4, <2>5
<1>4. CASE Len(m) # 0
  <2>1. 0 % BlockWords = 0
    <3>1. 0 \in 0 .. BlockWords - 1 /\ 0 = BlockWords * 0 + 0
      BY <1>1
    <3> QED
      BY <3>1, <1>1, DivisionIsUnique
  <2>2. /\ [md5_init EXCEPT !.count = @ + Len(m)] = Digest(Len(m), << >>, ZeroBlock)
        /\ md5_init.count = 0
    <3>1. \A x : [Digest(0, << >>, ZeroBlock) EXCEPT !.count = x] = Digest(x, << >>, ZeroBlock)
      BY DEF Digest
    <3>2. md5_init.count = 0 /\ 0 + Len(m) = Len(m)
      BY <1>1, <1>2 DEF Digest
    <3> QED
      BY <1>2, <3>1, <3>2
  <2>3. md5_append(md5_init, m) = WholeBlocks(Digest(Len(m), << >>, ZeroBlock), m)
    BY <1>4, <2>1, <2>2 DEF md5_append
  <2>4. << >> \o [i \in 1 .. q |-> Block(m, i)] = FullBlocks(m)
    BY FullBlocksType, ConcatEmptySeq
  <2>5. [Digest(Len(m), << >>, ZeroBlock) EXCEPT !.abcd = @ \o [i \in 1 .. q |-> Block(m, i)]]
          = Digest(Len(m), FullBlocks(m), ZeroBlock)
    <3>1. Digest(Len(m), << >>, ZeroBlock).abcd = << >>
      BY DEF Digest
    <3>2. \A x : [Digest(Len(m), << >>, ZeroBlock) EXCEPT !.abcd = x] = Digest(Len(m), x, ZeroBlock)
      BY DEF Digest
    <3> QED
      BY <3>1, <3>2, <2>4
  <2>6. WholeBlocks(Digest(Len(m), << >>, ZeroBlock), m) = Buffered(Digest(Len(m), FullBlocks(m), ZeroBlock), 0, rest)
    BY <1>1, <2>5 DEF WholeBlocks
  <2> QED
    BY <2>3, <2>6, BufferedDigest
<1> QED
  BY <1>3, <1>4

\* How many words md5_finish pads with.
LEMMA PaddingLength ==
  ASSUME NEW n \in Nat, NEW q \in Nat, NEW r \in 0 .. BlockWords - 1, n = BlockWords * q + r
  PROVE  ((BlockWords - 2 - n) % BlockWords) + 1
           = IF r = BlockWords - 1 THEN BlockWords ELSE BlockWords - 1 - r
<1>1. BlockWords \in Nat \ {0, 1} /\ q \in Int /\ n \in Int
  BY BlockWordsAssumption
<1>2. CASE r = BlockWords - 1
  <2>1. BlockWords * (-q - 1) = -(BlockWords * q) - BlockWords
    BY <1>1
  <2>2. BlockWords - 2 - n = BlockWords * (-q - 1) + (BlockWords - 1)
    BY <1>1, <1>2, <2>1
  <2>3. (BlockWords - 2 - n) % BlockWords = BlockWords - 1
    <3>1. -q - 1 \in Int /\ BlockWords - 1 \in 0 .. BlockWords - 1 /\ BlockWords - 2 - n \in Int
      BY <1>1
    <3> QED
      BY <2>2, <3>1, DivisionOfWords
  <2> QED
    BY <1>1, <1>2, <2>3
<1>3. CASE r # BlockWords - 1
  <2>1. BlockWords * (-q) = -(BlockWords * q)
    BY <1>1
  <2>2. BlockWords - 2 - n = BlockWords * (-q) + (BlockWords - 2 - r)
    BY <1>1, <1>3, <2>1
  <2>3. (BlockWords - 2 - n) % BlockWords = BlockWords - 2 - r
    <3>1. -q \in Int /\ BlockWords - 2 - r \in 0 .. BlockWords - 1 /\ BlockWords - 2 - n \in Int
      BY <1>1, <1>3
    <3> QED
      BY <2>2, <3>1, DivisionOfWords
  <2> QED
    BY <1>1, <1>3, <2>3
<1> QED
  BY <1>2, <1>3

LEMMA PaddingElements ==
  ASSUME NEW n \in Nat
  PROVE  /\ Padding(n) \in Seq(Nat) /\ Len(Padding(n)) = n
         /\ \A i \in 1 .. n : Padding(n)[i] = IF i = 1 THEN PadWord ELSE 0
<1>1. Padding(n) \in [1 .. n -> Nat]
  BY DEF Padding, PadWord
<1> QED
  BY <1>1, SeqDef DEF Padding

\* The length word ends a block.
EndedBy(b, w) == [j \in 1 .. BlockWords |-> IF j = BlockWords THEN w ELSE b[j]]

LEMMA AppendLength ==
  ASSUME NEW c \in Nat, c % BlockWords = BlockWords - 1, NEW a \in Seq([1 .. BlockWords -> Nat]),
         NEW b \in [1 .. BlockWords -> Nat], NEW w \in Nat
  PROVE  md5_append(Digest(c, a, b), <<w>>).abcd
           = Append(a, EndedBy(b, w))
<1> DEFINE block == [j \in 1 .. BlockWords |-> IF j = BlockWords THEN w ELSE b[j]]
<1>1. BlockWords \in Nat /\ BlockWords >= 2
  BY BlockWordsAssumption
<1>2. SubSeq(<<w>>, 1, BlockWords - (BlockWords - 1)) = <<w>>
  <2>1. BlockWords - (BlockWords - 1) = Len(<<w>>) /\ <<w>> \in Seq(Nat)
    BY <1>1
  <2> QED
    BY <2>1, SubSeqFull
<1>3. block = Over(b, BlockWords - 1, SubSeq(<<w>>, 1, BlockWords - (BlockWords - 1)))
  <2>1. \A j \in 1 .. BlockWords : j \in (BlockWords - 1) + 1 .. (BlockWords - 1) + 1 <=> j = BlockWords
    BY <1>1
  <2>2. <<w>>[BlockWords - (BlockWords - 1)] = w /\ Len(<<w>>) = 1
    BY <1>1
  <2> QED
    BY <1>2, <2>1, <2>2 DEF Over
<1>4. block \in [1 .. BlockWords -> Nat]
  OBVIOUS
<1> HIDE DEF block
<1>5. md5_append(Digest(c, a, b), <<w>>)
        = Digest(c + Len(<<w>>), Append(a, block),
                 Over(block, 0, SubSeq(<<w>>, BlockWords - (BlockWords - 1) + 1, Len(<<w>>))))
  <2>1. PICK r \in 1 .. BlockWords - 1 : r = BlockWords - 1
    BY <1>1
  <2>2. PICK data \in Seq(Nat) : data = <<w>> /\ Len(data) = 1
    BY OneElement
  <2>3. r = c % BlockWords /\ r + Len(data) >= BlockWords /\ r + Len(data) < 2 * BlockWords
    BY <1>1, <2>1, <2>2
  <2>4. block = Over(b, r, SubSeq(data, 1, BlockWords - r))
    BY <1>3, <2>1, <2>2
  <2>5. md5_append(Digest(c, a, b), data)
          = Digest(c + Len(data), Append(a, block), Over(block, 0, SubSeq(data, BlockWords - r + 1, Len(data))))
    BY <1>4, <2>3, <2>4, AppendFull
  <2> QED
    BY <2>1, <2>2, <2>5
<1>6. md5_append(Digest(c, a, b), <<w>>).abcd = Append(a, block)
  <2>1. PICK n, blocks, rest : /\ md5_append(Digest(c, a, b), <<w>>) = Digest(n, blocks, rest)
                               /\ blocks = Append(a, block)
    BY <1>5
  <2> QED
    BY <2>1 DEF Digest
<1> QED
  BY <1>6 DEF block, EndedBy

LEMMA PaddedElements ==
  ASSUME NEW m \in Seq(Nat), NEW z \in Nat
  PROVE  /\ Padded(m, z) \in Seq(Nat) /\ Len(Padded(m, z)) = Len(m) + z + 2
         /\ \A k \in 1 .. Len(m) : Padded(m, z)[k] = m[k]
         /\ Padded(m, z)[Len(m) + 1] = PadWord
         /\ \A k \in Len(m) + 2 .. Len(m) + 1 + z : Padded(m, z)[k] = 0
         /\ Padded(m, z)[Len(m) + z + 2] = LengthWord(Len(m))
<1>1. Len(m) \in Nat
  BY LenProperties
<1>2. PICK s1 \in Seq(Nat) : /\ s1 = m \o <<PadWord>> /\ Len(s1) = Len(m) + 1
                             /\ \A k \in 1 .. Len(m) : s1[k] = m[k]
                             /\ s1[Len(m) + 1] = PadWord
  <2>1. PICK e \in Seq(Nat) : e = <<PadWord>> /\ Len(e) = 1 /\ e[1] = PadWord
    <3>1. PadWord \in Nat
      BY DEF PadWord
    <3> QED
      BY <3>1, OneElement
  <2>2. /\ m \o e \in Seq(Nat) /\ Len(m \o e) = Len(m) + 1
        /\ \A k \in 1 .. Len(m) + 1 : (m \o e)[k] = IF k <= Len(m) THEN m[k] ELSE e[k - Len(m)]
    BY <2>1, ConcatProperties
  <2>3. Len(m) + 1 - Len(m) = 1 /\ ~(Len(m) + 1 <= Len(m)) /\ Len(m) + 1 \in 1 .. Len(m) + 1
    BY <1>1
  <2>4. (m \o e)[Len(m) + 1] = PadWord
    BY <2>1, <2>2, <2>3
  <2>5. \A k \in 1 .. Len(m) : (m \o e)[k] = m[k]
    BY <1>1, <2>2
  <2> QED
    BY <2>1, <2>2, <2>4, <2>5
<1>3. PICK zeros \in Seq(Nat) : /\ zeros = [i \in 1 .. z |-> 0] /\ Len(zeros) = z
                                /\ \A i \in 1 .. z : zeros[i] = 0
  <2>1. PICK s : s = [i \in 1 .. z |-> 0]
    OBVIOUS
  <2>2. s \in [1 .. z -> Nat] /\ DOMAIN s = 1 .. z
    BY <2>1
  <2>3. s \in Seq(Nat)
    BY <2>2, SeqDef
  <2>4. Len(s) = z
    BY <2>2, <2>3, LenProperties
  <2> QED
    BY <2>1, <2>3, <2>4
<1>4. PICK s2 \in Seq(Nat) : /\ s2 = s1 \o zeros /\ Len(s2) = Len(m) + 1 + z
                             /\ \A k \in 1 .. Len(m) + 1 : s2[k] = s1[k]
                             /\ \A k \in Len(m) + 2 .. Len(m) + 1 + z : s2[k] = 0
  <2>1. /\ s1 \o zeros \in Seq(Nat) /\ Len(s1 \o zeros) = Len(m) + 1 + z
        /\ \A k \in 1 .. Len(m) + 1 + z : (s1 \o zeros)[k] = IF k <= Len(m) + 1 THEN s1[k] ELSE zeros[k - (Len(m) + 1)]
    BY <1>2, <1>3, ConcatProperties
  <2>2. \A k \in Len(m) + 2 .. Len(m) + 1 + z : k - (Len(m) + 1) \in 1 .. z
    BY <1>1
  <2>3. ASSUME NEW k \in Len(m) + 2 .. Len(m) + 1 + z
        PROVE  (s1 \o zeros)[k] = 0
    <3>1. k \in 1 .. Len(m) + 1 + z /\ ~(k <= Len(m) + 1)
      BY <1>1
    <3> QED
      BY <1>3, <2>1, <2>2, <3>1
  <2>4. \A k \in 1 .. Len(m) + 1 : k \in 1 .. Len(m) + 1 + z /\ k <= Len(m) + 1
    BY <1>1
  <2> QED
    BY <2>1, <2>3, <2>4
<1>5. LengthWord(Len(m)) \in Nat
  BY <1>1 DEF LengthWord
<1>6. /\ s2 \o <<LengthWord(Len(m))>> \in Seq(Nat)
      /\ Len(s2 \o <<LengthWord(Len(m))>>) = Len(m) + z + 2
      /\ \A k \in 1 .. Len(m) + 1 + z : (s2 \o <<LengthWord(Len(m))>>)[k] = s2[k]
      /\ (s2 \o <<LengthWord(Len(m))>>)[Len(m) + z + 2] = LengthWord(Len(m))
  <2>1. PICK last \in Seq(Nat) : last = <<LengthWord(Len(m))>> /\ Len(last) = 1 /\ last[1] = LengthWord(Len(m))
    BY <1>5, OneElement
  <2>2. /\ s2 \o last \in Seq(Nat) /\ Len(s2 \o last) = Len(s2) + 1
        /\ \A k \in 1 .. Len(s2) + 1 : (s2 \o last)[k] = IF k <= Len(s2) THEN s2[k] ELSE last[k - Len(s2)]
    BY <2>1, ConcatProperties
  <2>3. Len(s2) + 1 - Len(s2) = 1 /\ Len(s2) + 1 = Len(m) + z + 2 /\ Len(s2) = Len(m) + 1 + z
    BY <1>1, <1>4
  <2> QED
    BY <1>1, <2>1, <2>2, <2>3
<1>7. Padded(m, z) = s2 \o <<LengthWord(Len(m))>>
  BY <1>2, <1>3, <1>4 DEF Padded
<1> QED
  BY <1>1, <1>2, <1>4, <1>6, <1>7

\* The zeros that the padding of RFC 1321 takes, and how many blocks it makes.
LEMMA DigestBlocks ==
  ASSUME NEW m \in Seq(Nat), NEW z \in 0 .. BlockWords - 1, NEW n \in Nat, Len(m) + z + 2 = BlockWords * n
  PROVE  /\ DigestOf(m) = [i \in 1 .. n |-> Block(Padded(m, z), i)]
         /\ Len(Padded(m, z)) = BlockWords * n
<1>1. BlockWords \in Nat \ {0, 1} /\ Len(m) \in Nat /\ n \in Int
  BY BlockWordsAssumption
<1>2. Len(m) + z + 2 = BlockWords * n
  OBVIOUS
<1>3. \A y \in 0 .. BlockWords - 1 : Len(Padded(m, y)) = Len(m) + y + 2
  <2>1. \A y \in 0 .. BlockWords - 1 : y \in Nat
    OBVIOUS
  <2> QED
    BY <2>1, PaddedElements
<1>4. 0 \in 0 .. BlockWords - 1
  BY <1>1
<1>5. Len(Padded(m, z)) % BlockWords = 0 /\ Len(Padded(m, z)) \div BlockWords = n
  <2>1. PICK len \in Int : len = Len(Padded(m, z)) /\ len = BlockWords * n + 0
    BY <1>1, <1>2, <1>3
  <2> QED
    BY <1>1, <1>4, <2>1, DivisionOfWords
<1>6. ASSUME NEW y \in 0 .. BlockWords - 1, Len(Padded(m, y)) % BlockWords = 0
      PROVE  y = z
  <2>1. PICK len \in Int : len = Len(Padded(m, y)) /\ len = Len(m) + y + 2 /\ len % BlockWords = 0
    <3>1. Len(m) + y + 2 \in Int /\ Len(Padded(m, y)) = Len(m) + y + 2
      BY <1>1, <1>3
    <3>2. PICK len \in Int : len = Len(Padded(m, y)) /\ len = Len(m) + y + 2
      BY <3>1
    <3> QED
      BY <1>6, <3>2
  <2>2. PICK p \in Int : Len(m) + y + 2 = BlockWords * p
    <3>1. PICK p \in Int, s \in 0 .. BlockWords - 1 : s = len % BlockWords /\ len = BlockWords * p + s
      <4>1. BlockWords \in Nat \ {0}
        BY <1>1
      <4> QED
        BY <4>1, QuotientAndRest, ZenonT(40)
    <3>2. len = BlockWords * p
      BY <1>1, <2>1, <3>1
    <3> QED
      BY <2>1, <3>2
  <2>3. BlockWords * (p - n) = BlockWords * p - BlockWords * n /\ BlockWords * (n - p) = BlockWords * n - BlockWords * p
    BY <1>1
  <2>4. CASE y >= z
    <3>1. BlockWords * (p - n) + 0 = BlockWords * 0 + (y - z)
      BY <1>1, <1>2, <2>2, <2>3
    <3>2. p - n \in Int /\ y - z \in 0 .. BlockWords - 1 /\ BlockWords \in Nat \ {0} /\ 0 \in Int
      BY <1>1, <2>4
    <3>3. 0 = y - z
      BY <1>4, <3>1, <3>2, RestIsUnique
    <3> QED
      BY <3>3
  <2>5. CASE z >= y
    <3>1. BlockWords * (n - p) + 0 = BlockWords * 0 + (z - y)
      BY <1>1, <1>2, <2>2, <2>3
    <3>2. n - p \in Int /\ z - y \in 0 .. BlockWords - 1 /\ BlockWords \in Nat \ {0} /\ 0 \in Int
      BY <1>1, <2>5
    <3>3. 0 = z - y
      BY <1>4, <3>1, <3>2, RestIsUnique
    <3> QED
      BY <3>3
  <2> QED
    BY <2>4, <2>5
<1>7. (CHOOSE y \in 0 .. BlockWords - 1 : Len(Padded(m, y)) % BlockWords = 0) = z
  BY <1>5, <1>6
<1> QED
  BY <1>2, <1>3, <1>5, <1>7 DEF DigestOf

\* The n blocks of the padded message w, of which the first q are those of m.
HasBlocks(w, m, q, n) ==
  /\ \A i \in 1 .. q : Block(w, i) = Block(m, i)
  /\ \A i \in 1 .. n : /\ Block(w, i) \in [1 .. BlockWords -> Nat]
                       /\ \A j \in 1 .. BlockWords : Block(w, i)[j] = w[(i - 1) * BlockWords + j]

\* The block of a padded message that has its rest, and the one behind it.
LEMMA LastBlocks ==
  ASSUME NEW m \in Seq(Nat), NEW q \in Nat, NEW r \in 0 .. BlockWords - 1, Len(m) = BlockWords * q + r,
         NEW z \in 0 .. BlockWords - 1, NEW n \in Nat, Len(m) + z + 2 = BlockWords * n
  PROVE  HasBlocks(Padded(m, z), m, q, n)
<1>1. BlockWords \in Nat \ {0, 1} /\ Len(m) \in Nat
  BY BlockWordsAssumption
<1>2. PICK w \in Seq(Nat) : /\ w = Padded(m, z) /\ Len(w) = BlockWords * n
                            /\ \A k \in 1 .. Len(m) : w[k] = m[k]
  <2>1. z \in Nat
    OBVIOUS
  <2>2. /\ Padded(m, z) \in Seq(Nat) /\ Len(Padded(m, z)) = Len(m) + z + 2
        /\ \A k \in 1 .. Len(m) : Padded(m, z)[k] = m[k]
    BY <2>1, PaddedElements
  <2> QED
    BY <2>2
<1>3. ASSUME NEW i \in 1 .. n
      PROVE  /\ Block(w, i) = [j \in 1 .. BlockWords |-> w[(i - 1) * BlockWords + j]]
             /\ Block(w, i) \in [1 .. BlockWords -> Nat]
  <2>1. i * BlockWords <= BlockWords * n /\ i \in Nat \ {0}
    BY <1>1
  <2> QED
    BY <1>2, <2>1, BlockElements
<1>4. ASSUME NEW i \in 1 .. q
      PROVE  Block(w, i) = Block(m, i)
  <2>1. i * BlockWords <= BlockWords * q /\ i \in Nat \ {0}
    BY <1>1
  <2>2. PICK lo \in Nat : lo = (i - 1) * BlockWords /\ lo + BlockWords = i * BlockWords
    <3>1. (i - 1) * BlockWords + BlockWords = i * BlockWords
      BY <1>1
    <3>2. i - 1 \in Nat
      OBVIOUS
    <3> QED
      BY <3>1, <3>2, <1>1
  <2>3. i * BlockWords <= Len(m) /\ i * BlockWords <= Len(w)
    BY <1>1, <1>2, <2>1
  <2>4. \A j \in 1 .. BlockWords : lo + j \in 1 .. Len(m)
    BY <1>1, <2>2, <2>3
  <2>5. /\ Block(m, i) = [j \in 1 .. BlockWords |-> m[lo + j]]
        /\ Block(w, i) = [j \in 1 .. BlockWords |-> w[lo + j]]
    <3>1. Block(m, i) = [j \in 1 .. BlockWords |-> m[(i - 1) * BlockWords + j]]
      BY <2>1, <2>3, BlockElements
    <3>2. Block(w, i) = [j \in 1 .. BlockWords |-> w[(i - 1) * BlockWords + j]]
      BY <2>1, <2>3, BlockElements
    <3> QED
      BY <2>2, <3>1, <3>2
  <2>6. \A j \in 1 .. BlockWords : m[lo + j] = w[lo + j]
    BY <1>2, <2>4
  <2> QED
    BY <2>5, <2>6
<1>5. HasBlocks(w, m, q, n)
  BY <1>3, <1>4 DEF HasBlocks
<1> QED
  BY <1>2, <1>5

\* What md5_append buffers of the message.
LEMMA BufferedRest ==
  ASSUME NEW m \in Seq(Nat), NEW q \in Nat, NEW r \in 0 .. BlockWords - 1, Len(m) = BlockWords * q + r
  PROVE  \E buf \in [1 .. BlockWords -> Nat] :
           /\ md5_append(md5_init, m) = Digest(Len(m), FullBlocks(m), buf)
           /\ \A j \in 1 .. BlockWords : buf[j] = IF j <= r THEN m[BlockWords * q + j] ELSE 0
<1> DEFINE rest == SubSeq(m, q * BlockWords + 1, Len(m))
           buf == Over(ZeroBlock, 0, rest)
<1>1. BlockWords \in Nat \ {0, 1} /\ Len(m) \in Nat
  BY BlockWordsAssumption
<1>2. PICK lo \in Nat : lo = q * BlockWords /\ lo = BlockWords * q
  BY <1>1
<1>3. /\ rest \in Seq(Nat) /\ Len(rest) = r
      /\ \A j \in 1 .. r : rest[j] = m[lo + j] /\ m[lo + j] \in Nat
  <2>1. \A j \in lo + 1 .. Len(m) : m[j] \in Nat
    BY <1>1, <1>2, ElementOfSeq
  <2>2. lo + 1 \in Int /\ Len(m) \in Int /\ Len(m) - (lo + 1) + 1 = r /\ Len(m) = lo + r
    BY <1>1, <1>2
  <2>3. /\ rest \in Seq(Nat)
        /\ Len(rest) = IF lo + 1 <= Len(m) THEN Len(m) - (lo + 1) + 1 ELSE 0
        /\ \A j \in 1 .. Len(m) - (lo + 1) + 1 : rest[j] = m[lo + 1 + j - 1]
    <3>1. PICK a \in Int : a = lo + 1
      BY <2>2
    <3>2. PICK b \in Int : b = Len(m)
      BY <2>2
    <3>3. \A j \in a .. b : m[j] \in Nat
      BY <2>1, <3>1, <3>2
    <3>4. /\ SubSeq(m, a, b) \in Seq(Nat)
          /\ Len(SubSeq(m, a, b)) = IF a <= b THEN b - a + 1 ELSE 0
          /\ \A j \in 1 .. b - a + 1 : SubSeq(m, a, b)[j] = m[a + j - 1]
      BY <3>3, SubSeqProperties
    <3> QED
      BY <1>2, <3>1, <3>2, <3>4
  <2>4. \A j \in 1 .. r : lo + 1 + j - 1 = lo + j /\ lo + j \in lo + 1 .. Len(m)
    BY <2>2
  <2>5. Len(rest) = r
    BY <2>2, <2>3
  <2> QED
    BY <2>1, <2>2, <2>3, <2>4, <2>5
<1> HIDE DEF rest
<1>4. \A j \in 1 .. BlockWords : buf[j] = IF j <= r THEN m[lo + j] ELSE 0
  <2>1. \A j \in 1 .. BlockWords : j \in 0 + 1 .. 0 + Len(rest) <=> j <= r
    BY <1>1, <1>3
  <2>2. \A j \in 1 .. BlockWords : buf[j] = IF j <= r THEN rest[j - 0] ELSE 0
    BY <2>1 DEF Over, ZeroBlock
  <2>3. \A j \in 1 .. BlockWords : j - 0 = j /\ (j <= r => j \in 1 .. r)
    BY <1>1
  <2> QED
    BY <1>3, <2>2, <2>3
<1>5. buf \in [1 .. BlockWords -> Nat]
  <2>1. \A j \in 1 .. BlockWords : buf[j] \in Nat
    <3>1. \A j \in 1 .. BlockWords : j <= r => j \in 1 .. r
      BY <1>1
    <3> QED
      BY <1>3, <1>4, <3>1, SMTT(20)
  <2>2. buf = [j \in 1 .. BlockWords |-> buf[j]]
    BY DEF Over
  <2> HIDE DEF buf
  <2> QED
    BY <2>1, <2>2
<1>6. md5_append(md5_init, m) = Digest(Len(m), FullBlocks(m), buf)
  BY AppendMessage DEF rest
<1> QED
  BY <1>2, <1>4, <1>5, <1>6

\* The digest of a message whose rest leaves room for the padding and the length.
LEMMA KeyOfShortRest ==
  ASSUME NEW m \in Seq(Nat), NEW q \in Nat, NEW r \in 0 .. BlockWords - 1, Len(m) = BlockWords * q + r,
         r # BlockWords - 1
  PROVE  \E block \in [1 .. BlockWords -> Nat] :
           /\ StackKey(m) = Append(FullBlocks(m), block)
           /\ \A j \in 1 .. BlockWords :
                block[j] = IF j <= r THEN m[BlockWords * q + j]
                             ELSE IF j = r + 1 THEN PadWord
                             ELSE IF j = BlockWords THEN LengthWord(Len(m)) ELSE 0
<1>1. BlockWords \in Nat \ {0, 1} /\ Len(m) \in Nat /\ Len(m) \in Int /\ q \in Int
  BY BlockWordsAssumption
<1>2. PICK buf \in [1 .. BlockWords -> Nat] :
        /\ md5_append(md5_init, m) = Digest(Len(m), FullBlocks(m), buf)
        /\ \A j \in 1 .. BlockWords : buf[j] = IF j <= r THEN m[BlockWords * q + j] ELSE 0
  BY BufferedRest
<1>3. PICK p \in Nat \ {0} : p = BlockWords - 1 - r
  BY <1>1
<1>4. ((BlockWords - 2 - Len(m)) % BlockWords) + 1 = p
  <2>1. PICK n \in Nat : n = Len(m)
    BY <1>1
  <2>2. ((BlockWords - 2 - n) % BlockWords) + 1 = IF r = BlockWords - 1 THEN BlockWords ELSE BlockWords - 1 - r
    BY <2>1, PaddingLength
  <2> QED
    BY <1>3, <2>1, <2>2
<1>5. PICK pad \in Seq(Nat) : /\ pad = Padding(p) /\ Len(pad) = p
                              /\ \A i \in 1 .. p : pad[i] = IF i = 1 THEN PadWord ELSE 0
  BY PaddingElements
<1>6. Len(m) % BlockWords = r
  BY <1>1, DivisionOfWords
<1>7. FullBlocks(m) \in Seq([1 .. BlockWords -> Nat])
  BY FullBlocksType
<1>8. md5_append(Digest(Len(m), FullBlocks(m), buf), pad) = Digest(Len(m) + p, FullBlocks(m), Over(buf, r, pad))
  <2>1. Len(pad) > 0 /\ (Len(m) % BlockWords) + Len(pad) < BlockWords
    BY <1>1, <1>3, <1>5, <1>6
  <2>2. PICK a \in Seq([1 .. BlockWords -> Nat]) : a = FullBlocks(m)
    BY <1>7
  <2>3. md5_append(Digest(Len(m), a, buf), pad) = Digest(Len(m) + Len(pad), a, Over(buf, Len(m) % BlockWords, pad))
    BY <1>1, <2>1, AppendShort
  <2> QED
    BY <1>5, <1>6, <2>2, <2>3
<1>9. PICK padded \in [1 .. BlockWords -> Nat] :
        /\ padded = Over(buf, r, pad)
        /\ \A j \in 1 .. BlockWords : padded[j] = IF j \in r + 1 .. r + p THEN pad[j - r] ELSE buf[j]
  <2>1. \A j \in 1 .. BlockWords : j \in r + 1 .. r + p => j - r \in 1 .. p
    BY <1>1, <1>3
  <2>2. \A i \in 1 .. p : pad[i] \in Nat
    BY <1>5, ElementOfSeq
  <2>3. Over(buf, r, pad) = [j \in 1 .. BlockWords |-> IF j \in r + 1 .. r + p THEN pad[j - r] ELSE buf[j]]
    BY <1>5 DEF Over
  <2>4. \A j \in 1 .. BlockWords : (IF j \in r + 1 .. r + p THEN pad[j - r] ELSE buf[j]) \in Nat
    BY <1>2, <2>1, <2>2
  <2>5. PICK f : f = [j \in 1 .. BlockWords |-> IF j \in r + 1 .. r + p THEN pad[j - r] ELSE buf[j]]
    OBVIOUS
  <2>6. f \in [1 .. BlockWords -> Nat]
    BY <2>4, <2>5
  <2> QED
    BY <2>3, <2>5, <2>6
<1>10. PICK w \in Nat : w = LengthWord(Len(m))
  BY <1>1 DEF LengthWord
<1> DEFINE block == [j \in 1 .. BlockWords |-> IF j = BlockWords THEN w ELSE padded[j]]
<1>11. md5_append(Digest(Len(m) + p, FullBlocks(m), padded), <<w>>).abcd = Append(FullBlocks(m), block)
  <2>1. PICK c \in Nat : c = Len(m) + p
    BY <1>1
  <2>2. c % BlockWords = BlockWords - 1
    <3>1. c = BlockWords * q + (BlockWords - 1) /\ BlockWords - 1 \in 0 .. BlockWords - 1 /\ c \in Int
      BY <1>1, <1>3, <2>1
    <3> QED
      BY <1>1, <3>1, DivisionOfWords
  <2>3. PICK a \in Seq([1 .. BlockWords -> Nat]) : a = FullBlocks(m)
    BY <1>7
  <2>4. md5_append(Digest(c, a, padded), <<w>>).abcd = Append(a, block)
    <3>1. md5_append(Digest(c, a, padded), <<w>>).abcd = Append(a, EndedBy(padded, w))
      BY <2>2, AppendLength
    <3>2. EndedBy(padded, w) = block
      BY DEF EndedBy
    <3> QED
      BY <3>1, <3>2
  <2> HIDE DEF block
  <2>5. md5_append(Digest(c, FullBlocks(m), padded), <<w>>).abcd = Append(FullBlocks(m), block)
    BY <2>3, <2>4
  <2> QED
    BY <2>1, <2>5
<1>12. block \in [1 .. BlockWords -> Nat]
  OBVIOUS
<1>13. \A j \in 1 .. BlockWords :
         block[j] = IF j <= r THEN m[BlockWords * q + j]
                      ELSE IF j = r + 1 THEN PadWord
                      ELSE IF j = BlockWords THEN LengthWord(Len(m)) ELSE 0
  <2> TAKE j \in 1 .. BlockWords
  <2>1. CASE j <= r
    <3>1. j # BlockWords /\ j \notin r + 1 .. r + p
      BY <1>1, <2>1
    <3> QED
      BY <1>2, <1>9, <2>1, <3>1
  <2>2. CASE j = r + 1
    <3>1. j # BlockWords /\ j \in r + 1 .. r + p /\ ~(j <= r) /\ j - r = 1 /\ 1 \in 1 .. p
      BY <1>1, <1>3, <2>2
    <3> QED
      BY <1>5, <1>9, <2>2, <3>1
  <2>3. CASE j = BlockWords
    <3>1. ~(j <= r) /\ j # r + 1
      BY <1>1, <2>3
    <3> QED
      BY <1>10, <2>3, <3>1
  <2>4. CASE j > r + 1 /\ j # BlockWords
    <3>1. ~(j <= r) /\ j # r + 1 /\ j \in r + 1 .. r + p /\ j - r \in 1 .. p /\ j - r # 1
      BY <1>1, <1>3, <2>4
    <3> QED
      BY <1>5, <1>9, <2>4, <3>1
  <2> QED
    BY <1>1, <2>1, <2>2, <2>3, <2>4
<1> HIDE DEF block
<1>14. StackKey(m) = Append(FullBlocks(m), block)
  <2>1. Digest(Len(m), FullBlocks(m), buf).count = Len(m)
    BY DEF Digest
  <2> QED
    BY <1>2, <1>4, <1>5, <1>8, <1>9, <1>10, <1>11, <2>1 DEF StackKey, md5_finish
<1> QED
  BY <1>12, <1>13, <1>14

\* The digest of a message whose rest leaves no room for the length: the padding
\* fills a block, and the length is in the next one.
LEMMA KeyOfLongRest ==
  ASSUME NEW m \in Seq(Nat), NEW q \in Nat, Len(m) = BlockWords * q + (BlockWords - 1)
  PROVE  \E b1 \in [1 .. BlockWords -> Nat], b2 \in [1 .. BlockWords -> Nat] :
           /\ StackKey(m) = Append(Append(FullBlocks(m), b1), b2)
           /\ \A j \in 1 .. BlockWords :
                /\ b1[j] = IF j = BlockWords THEN PadWord ELSE m[BlockWords * q + j]
                /\ b2[j] = IF j = BlockWords THEN LengthWord(Len(m)) ELSE 0
<1>1. BlockWords \in Nat \ {0, 1} /\ Len(m) \in Nat /\ Len(m) \in Int /\ q \in Int
  BY BlockWordsAssumption
<1>2. PICK r \in 1 .. BlockWords - 1 : r = BlockWords - 1
  BY <1>1
<1>3. r \in 0 .. BlockWords - 1 /\ Len(m) = BlockWords * q + r /\ BlockWords - r = 1 /\ r + 1 = BlockWords
  BY <1>1, <1>2
<1>4. PICK buf \in [1 .. BlockWords -> Nat] :
        /\ md5_append(md5_init, m) = Digest(Len(m), FullBlocks(m), buf)
        /\ \A j \in 1 .. BlockWords : buf[j] = IF j <= r THEN m[BlockWords * q + j] ELSE 0
  BY <1>3, BufferedRest
<1>5. ((BlockWords - 2 - Len(m)) % BlockWords) + 1 = BlockWords
  <2>1. PICK n \in Nat : n = Len(m)
    BY <1>1
  <2>2. ((BlockWords - 2 - n) % BlockWords) + 1 = IF r = BlockWords - 1 THEN BlockWords ELSE BlockWords - 1 - r
    BY <1>3, <2>1, PaddingLength
  <2> QED
    BY <1>2, <2>1, <2>2
<1>6. PICK pad \in Seq(Nat) : /\ pad = Padding(BlockWords) /\ Len(pad) = BlockWords
                              /\ \A i \in 1 .. BlockWords : pad[i] = IF i = 1 THEN PadWord ELSE 0
  BY <1>1, PaddingElements
<1>7. Len(m) % BlockWords = r
  BY <1>1, <1>3, DivisionOfWords
<1>8. FullBlocks(m) \in Seq([1 .. BlockWords -> Nat])
  BY <1>3, FullBlocksType
<1>9. 1 \in 1 .. BlockWords /\ Len(SubSeq(pad, 1, 1)) = 1 /\ SubSeq(pad, 1, 1)[1] = PadWord
  <2>1. \A i \in 1 .. 1 : pad[i] \in Nat
    BY <1>1, <1>6, ElementOfSeq
  <2>2. 1 \in 1 .. BlockWords
    BY <1>1
  <2>3. 1 \in Int /\ 1 - 1 + 1 = 1 /\ 1 + 1 - 1 = 1 /\ 1 \in 1 .. 1
    OBVIOUS
  <2>4. /\ Len(SubSeq(pad, 1, 1)) = IF 1 <= 1 THEN 1 - 1 + 1 ELSE 0
        /\ \A i \in 1 .. 1 - 1 + 1 : SubSeq(pad, 1, 1)[i] = pad[1 + i - 1]
    BY <2>1, <2>3, SubSeqProperties
  <2> QED
    BY <1>6, <2>2, <2>3, <2>4
<1>10. PICK b1 \in [1 .. BlockWords -> Nat] :
         /\ b1 = Over(buf, r, SubSeq(pad, 1, BlockWords - r))
         /\ \A j \in 1 .. BlockWords : b1[j] = IF j = BlockWords THEN PadWord ELSE buf[j]
  <2>1. \A j \in 1 .. BlockWords : j \in r + 1 .. r + 1 <=> j = BlockWords
    BY <1>3
  <2>2. PICK f : f = [j \in 1 .. BlockWords |-> IF j = BlockWords THEN PadWord ELSE buf[j]]
    OBVIOUS
  <2>3. f \in [1 .. BlockWords -> Nat]
    BY <1>4, <2>2 DEF PadWord
  <2>4. Over(buf, r, SubSeq(pad, 1, BlockWords - r)) = f
    <3>1. \A j \in 1 .. BlockWords :
            (IF j \in r + 1 .. r + 1 THEN SubSeq(pad, 1, 1)[j - r] ELSE buf[j]) = f[j]
      <4> TAKE j \in 1 .. BlockWords
      <4>1. CASE j = BlockWords
        <5>1. j - r = 1
          BY <1>3, <4>1
        <5> QED
          BY <1>9, <2>1, <2>2, <4>1, <5>1
      <4>2. CASE j # BlockWords
        BY <2>1, <2>2, <4>2
      <4> QED
        BY <4>1, <4>2
    <3>2. Over(buf, r, SubSeq(pad, 1, BlockWords - r))
            = [j \in 1 .. BlockWords |-> IF j \in r + 1 .. r + 1 THEN SubSeq(pad, 1, 1)[j - r] ELSE buf[j]]
      BY <1>3, <1>9 DEF Over
    <3> QED
      BY <2>2, <3>1, <3>2
  <2> QED
    BY <2>2, <2>3, <2>4
<1>11. PICK rest \in Seq(Nat) : /\ rest = SubSeq(pad, BlockWords - r + 1, Len(pad)) /\ Len(rest) = r
                                /\ \A i \in 1 .. r : rest[i] = 0
  <2>1. PICK a \in Int : a = 2 /\ a = BlockWords - r + 1
    BY <1>3
  <2>2. PICK b \in Int : b = Len(pad) /\ b = BlockWords /\ b - a + 1 = r /\ a <= b
    BY <1>1, <1>3, <1>6, <2>1
  <2>3. \A i \in a .. b : pad[i] \in Nat
    BY <1>1, <1>6, <2>1, <2>2, ElementOfSeq
  <2>4. /\ SubSeq(pad, a, b) \in Seq(Nat)
        /\ Len(SubSeq(pad, a, b)) = IF a <= b THEN b - a + 1 ELSE 0
        /\ \A i \in 1 .. b - a + 1 : SubSeq(pad, a, b)[i] = pad[a + i - 1]
    BY <2>3, SubSeqProperties
  <2>5. \A i \in 1 .. r : a + i - 1 \in 1 .. BlockWords /\ a + i - 1 # 1
    BY <1>3, <2>1
  <2>6. \A i \in 1 .. r : pad[a + i - 1] = 0
    BY <1>6, <2>5
  <2>7. PICK rest \in Seq(Nat) : rest = SubSeq(pad, a, b)
    BY <2>4
  <2>8. Len(rest) = r
    BY <2>2, <2>4, <2>7
  <2>9. \A i \in 1 .. r : rest[i] = 0
    BY <2>2, <2>4, <2>6, <2>7
  <2>10. rest = SubSeq(pad, BlockWords - r + 1, Len(pad))
    BY <2>1, <2>2, <2>7
  <2> QED
    BY <2>8, <2>9, <2>10
<1>12. PICK padded \in [1 .. BlockWords -> Nat] :
         /\ padded = Over(b1, 0, rest)
         /\ \A j \in 1 .. BlockWords : j # BlockWords => padded[j] = 0
  <2>1. PICK f : f = [j \in 1 .. BlockWords |-> IF j = BlockWords THEN PadWord ELSE 0]
    OBVIOUS
  <2>2. f \in [1 .. BlockWords -> Nat]
    BY <2>1 DEF PadWord
  <2>3. Over(b1, 0, rest) = [j \in 1 .. BlockWords |-> IF j \in 0 + 1 .. 0 + r THEN rest[j - 0] ELSE b1[j]]
    BY <1>11 DEF Over
  <2>4. \A j \in 1 .. BlockWords : (IF j \in 0 + 1 .. 0 + r THEN rest[j - 0] ELSE b1[j]) = f[j]
    <3>1. \A j \in 1 .. BlockWords : /\ j \in 0 + 1 .. 0 + r <=> j # BlockWords
                                     /\ j - 0 = j /\ (j # BlockWords => j \in 1 .. r)
      BY <1>3
    <3> QED
      BY <1>10, <1>11, <2>1, <3>1
  <2> QED
    BY <2>1, <2>2, <2>3, <2>4
<1>13. md5_append(Digest(Len(m), FullBlocks(m), buf), pad)
         = Digest(Len(m) + BlockWords, Append(FullBlocks(m), b1), padded)
  <2>1. PICK a \in Seq([1 .. BlockWords -> Nat]) : a = FullBlocks(m)
    BY <1>8
  <2>2. PICK c \in Nat : c = Len(m)
    BY <1>1
  <2>3. r = c % BlockWords /\ r + Len(pad) >= BlockWords /\ r + Len(pad) < 2 * BlockWords
    BY <1>1, <1>2, <1>6, <1>7, <2>2
  <2>4. b1 = Over(buf, r, SubSeq(pad, 1, BlockWords - r))
    BY <1>10
  <2>5. md5_append(Digest(c, a, buf), pad)
          = Digest(c + Len(pad), Append(a, b1), Over(b1, 0, SubSeq(pad, BlockWords - r + 1, Len(pad))))
    BY <2>3, <2>4, AppendFull
  <2> QED
    BY <1>6, <1>11, <1>12, <2>1, <2>2, <2>5
<1>14. PICK w \in Nat : w = LengthWord(Len(m))
  BY <1>1 DEF LengthWord
<1> DEFINE b2 == [j \in 1 .. BlockWords |-> IF j = BlockWords THEN w ELSE padded[j]]
<1>15. md5_append(Digest(Len(m) + BlockWords, Append(FullBlocks(m), b1), padded), <<w>>).abcd
         = Append(Append(FullBlocks(m), b1), b2)
  <2>1. PICK c \in Nat : c = Len(m) + BlockWords
    BY <1>1
  <2>2. c % BlockWords = BlockWords - 1
    <3>1. c = BlockWords * (q + 1) + r /\ q + 1 \in Int /\ c \in Int
      <4>1. BlockWords * (q + 1) = BlockWords * q + BlockWords
        BY <1>1
      <4> QED
        BY <1>1, <1>3, <2>1, <4>1
    <3> QED
      BY <1>2, <1>3, <3>1, DivisionOfWords
  <2>3. PICK a \in Seq([1 .. BlockWords -> Nat]) : a = Append(FullBlocks(m), b1)
    BY <1>8, AppendProperties
  <2>4. md5_append(Digest(c, a, padded), <<w>>).abcd = Append(a, b2)
    <3>1. md5_append(Digest(c, a, padded), <<w>>).abcd = Append(a, EndedBy(padded, w))
      BY <2>2, AppendLength
    <3>2. EndedBy(padded, w) = b2
      BY DEF EndedBy
    <3> QED
      BY <3>1, <3>2
  <2> QED
    BY <2>1, <2>3, <2>4
<1>16. b2 \in [1 .. BlockWords -> Nat]
  OBVIOUS
<1>17. \A j \in 1 .. BlockWords :
         /\ b1[j] = IF j = BlockWords THEN PadWord ELSE m[BlockWords * q + j]
         /\ b2[j] = IF j = BlockWords THEN LengthWord(Len(m)) ELSE 0
  <2>1. \A j \in 1 .. BlockWords : j # BlockWords => j <= r
    BY <1>3
  <2> QED
    BY <1>4, <1>10, <1>12, <1>14, <2>1
<1> HIDE DEF b2
<1>18. StackKey(m) = Append(Append(FullBlocks(m), b1), b2)
  <2>1. Digest(Len(m), FullBlocks(m), buf).count = Len(m)
    BY DEF Digest
  <2> QED
    BY <1>4, <1>5, <1>6, <1>13, <1>14, <1>15, <2>1 DEF StackKey, md5_finish
<1> QED
  BY <1>16, <1>17, <1>18

\* AppendElements for a list of blocks
LEMMA AppendBlock ==
  ASSUME NEW q \in Nat, NEW a \in Seq([1 .. BlockWords -> Nat]), Len(a) = q, NEW x \in [1 .. BlockWords -> Nat]
  PROVE  /\ Append(a, x) \in Seq([1 .. BlockWords -> Nat]) /\ Len(Append(a, x)) = q + 1
         /\ Append(a, x) \in [1 .. q + 1 -> [1 .. BlockWords -> Nat]]
         /\ \A i \in 1 .. q : Append(a, x)[i] = a[i]
         /\ Append(a, x)[q + 1] = x
<1>1. PICK S : S = [1 .. BlockWords -> Nat]
  OBVIOUS
<1>2. a \in Seq(S) /\ x \in S
  BY <1>1
<1>3. /\ Append(a, x) \in Seq(S) /\ Len(Append(a, x)) = q + 1
      /\ Append(a, x) \in [1 .. q + 1 -> S]
      /\ \A i \in 1 .. q : Append(a, x)[i] = a[i]
      /\ Append(a, x)[q + 1] = x
  BY <1>2, AppendElements
<1> QED
  BY <1>1, <1>3

LEMMA EqualBlocks ==
  ASSUME NEW f \in [1 .. BlockWords -> Nat], NEW g \in [1 .. BlockWords -> Nat],
         \A j \in 1 .. BlockWords : f[j] = g[j]
  PROVE  f = g
<1>1. f = [j \in 1 .. BlockWords |-> f[j]] /\ g = [j \in 1 .. BlockWords |-> g[j]]
  OBVIOUS
<1> QED
  BY <1>1, Zenon


\* md5_init, md5_append and md5_finish, as StackKey calls them, buffer, pad and
\* count so that what is processed are the blocks of the padded message of
\* RFC 1321, whatever the length of the stack.
THEOREM StackKeyIsDigest ==
  ASSUME NEW m \in Seq(Nat)
  PROVE  StackKey(m) = DigestOf(m)
<1> DEFINE T == [1 .. BlockWords -> Nat]
<1>1. BlockWords \in Nat \ {0, 1} /\ Len(m) \in Nat /\ Len(m) \in Int
  BY BlockWordsAssumption
<1>2. PICK q \in Nat, r \in 0 .. BlockWords - 1 : Len(m) = BlockWords * q + r
  <2>1. BlockWords \in Nat \ {0}
    BY <1>1
  <2>2. PICK q \in Int, r \in 0 .. BlockWords - 1 : Len(m) = BlockWords * q + r /\ (Len(m) >= 0 => q >= 0)
    BY <1>1, <2>1, QuotientAndRest
  <2>3. q \in Nat
    BY <1>1, <2>2
  <2> QED
    BY <2>2, <2>3
<1>3. PICK full \in Seq(T) : full = FullBlocks(m) /\ Len(full) = q /\ \A i \in 1 .. q : full[i] = Block(m, i)
  BY <1>2, FullBlocksType
<1>4. CASE r # BlockWords - 1
  <2>1. PICK z \in 0 .. BlockWords - 1 : z = BlockWords - 2 - r
    BY <1>1, <1>4
  <2>2. PICK n \in Nat : n = q + 1
    OBVIOUS
  <2>3. Len(m) + z + 2 = BlockWords * n
    <3>1. BlockWords * (q + 1) = BlockWords * q + BlockWords
      BY <1>1
    <3> QED
      BY <1>1, <1>2, <2>1, <2>2, <3>1
  <2>4. DigestOf(m) = [i \in 1 .. n |-> Block(Padded(m, z), i)] /\ Len(Padded(m, z)) = BlockWords * n
    BY <2>3, DigestBlocks
  <2>5. PICK w : /\ w = Padded(m, z)
                 /\ \A i \in 1 .. q : Block(w, i) = Block(m, i)
                 /\ \A i \in 1 .. n : /\ Block(w, i) \in T
                                      /\ \A j \in 1 .. BlockWords : Block(w, i)[j] = w[(i - 1) * BlockWords + j]
    <3>1. PICK w : w = Padded(m, z) /\ HasBlocks(w, m, q, n)
      BY <1>2, <2>3, LastBlocks
    <3> QED
      BY <3>1 DEF HasBlocks
  <2>6. /\ \A k \in 1 .. Len(m) : w[k] = m[k]
        /\ w[Len(m) + 1] = PadWord
        /\ \A k \in Len(m) + 2 .. Len(m) + 1 + z : w[k] = 0
        /\ w[Len(m) + z + 2] = LengthWord(Len(m))
    <3>1. z \in Nat
      OBVIOUS
    <3> QED
      BY <2>5, <3>1, PaddedElements
  <2>7. PICK block \in T :
           /\ StackKey(m) = Append(full, block)
           /\ \A j \in 1 .. BlockWords :
                block[j] = IF j <= r THEN m[BlockWords * q + j]
                             ELSE IF j = r + 1 THEN PadWord
                             ELSE IF j = BlockWords THEN LengthWord(Len(m)) ELSE 0
    BY <1>2, <1>3, <1>4, KeyOfShortRest
  <2>8. Block(w, n) = block
    <3>1. n \in 1 .. n /\ (n - 1) * BlockWords = BlockWords * q
      BY <1>1, <2>2
    <3>2. ASSUME NEW j \in 1 .. BlockWords
          PROVE  w[BlockWords * q + j] = block[j]
      <4>1. CASE j <= r
        <5>1. BlockWords * q + j \in 1 .. Len(m)
          <6>1. PICK base \in Nat : base = BlockWords * q /\ Len(m) = base + r
            BY <1>1, <1>2
          <6> QED
            BY <4>1, <6>1
        <5> QED
          BY <2>6, <2>7, <4>1, <5>1
      <4>2. CASE j = r + 1
        <5>1. BlockWords * q + j = Len(m) + 1 /\ ~(j <= r)
          BY <1>1, <1>2, <4>2
        <5> QED
          BY <2>6, <2>7, <4>2, <5>1
      <4>3. CASE j = BlockWords
        <5>1. BlockWords * q + j = Len(m) + z + 2 /\ ~(j <= r) /\ j # r + 1
          BY <1>1, <1>2, <1>4, <2>1, <4>3
        <5> QED
          BY <2>6, <2>7, <4>3, <5>1
      <4>4. CASE j > r + 1 /\ j # BlockWords
        <5>1. BlockWords * q + j \in Len(m) + 2 .. Len(m) + 1 + z /\ ~(j <= r) /\ j # r + 1
          BY <1>1, <1>2, <1>4, <2>1, <4>4
        <5> QED
          BY <2>6, <2>7, <4>4, <5>1
      <4> QED
        BY <1>1, <4>1, <4>2, <4>3, <4>4
    <3>3. PICK f \in T : f = Block(w, n) /\ \A j \in 1 .. BlockWords : f[j] = w[BlockWords * q + j]
      BY <2>5, <3>1
    <3>4. \A j \in 1 .. BlockWords : f[j] = block[j]
      BY <3>2, <3>3
    <3>5. f = block
      BY <3>4, EqualBlocks
    <3> QED
      BY <3>3, <3>5
  <2>9. /\ Append(full, block) \in [1 .. q + 1 -> T]
        /\ \A i \in 1 .. q : Append(full, block)[i] = full[i]
        /\ Append(full, block)[q + 1] = block
    <3>1. Len(full) = q /\ full \in Seq([1 .. BlockWords -> Nat]) /\ block \in [1 .. BlockWords -> Nat]
      BY <1>3
    <3>2. /\ Append(full, block) \in [1 .. q + 1 -> [1 .. BlockWords -> Nat]]
          /\ \A i \in 1 .. q : Append(full, block)[i] = full[i]
          /\ Append(full, block)[q + 1] = block
      BY <3>1, AppendBlock
    <3> QED
      BY <3>2
  <2>10. \A i \in 1 .. n : Append(full, block)[i] = Block(w, i)
    <3>1. \A i \in 1 .. n : i \in 1 .. q \/ i = q + 1
      BY <2>2
    <3> QED
      BY <1>3, <2>2, <2>5, <2>8, <2>9, <3>1
  <2>11. Append(full, block) = [i \in 1 .. n |-> Block(w, i)]
    BY <2>2, <2>9, <2>10
  <2> QED
    BY <2>4, <2>5, <2>7, <2>11
<1>5. CASE r = BlockWords - 1
  <2>1. PICK z \in 0 .. BlockWords - 1 : z = BlockWords - 1
    BY <1>1
  <2>2. PICK n \in Nat : n = q + 2
    OBVIOUS
  <2>3. Len(m) + z + 2 = BlockWords * n /\ BlockWords * (q + 1) = BlockWords * q + BlockWords
    <3>1. BlockWords * (q + 2) = BlockWords * q + 2 * BlockWords /\ BlockWords * (q + 1) = BlockWords * q + BlockWords
      BY <1>1
    <3> QED
      BY <1>1, <1>2, <1>5, <2>1, <2>2, <3>1
  <2>4. DigestOf(m) = [i \in 1 .. n |-> Block(Padded(m, z), i)] /\ Len(Padded(m, z)) = BlockWords * n
    BY <2>3, DigestBlocks
  <2>5. PICK w : /\ w = Padded(m, z)
                 /\ \A i \in 1 .. q : Block(w, i) = Block(m, i)
                 /\ \A i \in 1 .. n : /\ Block(w, i) \in T
                                      /\ \A j \in 1 .. BlockWords : Block(w, i)[j] = w[(i - 1) * BlockWords + j]
    <3>1. PICK w : w = Padded(m, z) /\ HasBlocks(w, m, q, n)
      BY <1>2, <2>3, LastBlocks
    <3> QED
      BY <3>1 DEF HasBlocks
  <2>6. /\ \A k \in 1 .. Len(m) : w[k] = m[k]
        /\ w[Len(m) + 1] = PadWord
        /\ \A k \in Len(m) + 2 .. Len(m) + 1 + z : w[k] = 0
        /\ w[Len(m) + z + 2] = LengthWord(Len(m))
    <3>1. z \in Nat
      OBVIOUS
    <3> QED
      BY <2>5, <3>1, PaddedElements
  <2>7. PICK b1 \in T, b2 \in T :
           /\ StackKey(m) = Append(Append(full, b1), b2)
           /\ \A j \in 1 .. BlockWords :
                /\ b1[j] = IF j = BlockWords THEN PadWord ELSE m[BlockWords * q + j]
                /\ b2[j] = IF j = BlockWords THEN LengthWord(Len(m)) ELSE 0
    BY <1>2, <1>3, <1>5, KeyOfLongRest
  <2>8. Block(w, q + 1) = b1
    <3>1. q + 1 \in 1 .. n /\ (q + 1 - 1) * BlockWords = BlockWords * q
      BY <1>1, <2>2
    <3>2. ASSUME NEW j \in 1 .. BlockWords
          PROVE  w[BlockWords * q + j] = b1[j]
      <4>1. CASE j # BlockWords
        <5>1. BlockWords * q + j \in 1 .. Len(m)
          BY <1>1, <1>2, <1>5, <4>1
        <5> QED
          BY <2>6, <2>7, <4>1, <5>1
      <4>2. CASE j = BlockWords
        <5>1. BlockWords * q + j = Len(m) + 1
          BY <1>1, <1>2, <1>5, <4>2
        <5> QED
          BY <2>6, <2>7, <4>2, <5>1
      <4> QED
        BY <4>1, <4>2
    <3>3. PICK f \in T : f = Block(w, q + 1) /\ \A j \in 1 .. BlockWords : f[j] = w[BlockWords * q + j]
      BY <2>5, <3>1
    <3>4. \A j \in 1 .. BlockWords : f[j] = b1[j]
      BY <3>2, <3>3
    <3>5. f = b1
      BY <3>4, EqualBlocks
    <3> QED
      BY <3>3, <3>5
  <2>9. Block(w, q + 2) = b2
    <3>1. q + 2 \in 1 .. n /\ (q + 2 - 1) * BlockWords = BlockWords * q + BlockWords
      <4>1. q + 2 - 1 = q + 1 /\ (q + 1) * BlockWords = BlockWords * (q + 1)
        BY <1>1
      <4> QED
        BY <2>2, <2>3, <4>1
    <3>2. ASSUME NEW j \in 1 .. BlockWords
          PROVE  w[BlockWords * q + BlockWords + j] = b2[j]
      <4>1. CASE j # BlockWords
        <5>1. BlockWords * q + BlockWords + j \in Len(m) + 2 .. Len(m) + 1 + z
          BY <1>1, <1>2, <1>5, <2>1, <4>1
        <5> QED
          BY <2>6, <2>7, <4>1, <5>1
      <4>2. CASE j = BlockWords
        <5>1. BlockWords * q + BlockWords + j = Len(m) + z + 2
          BY <1>1, <1>2, <1>5, <2>1, <4>2
        <5> QED
          BY <2>6, <2>7, <4>2, <5>1
      <4> QED
        BY <4>1, <4>2
    <3>3. PICK f \in T : f = Block(w, q + 2) /\ \A j \in 1 .. BlockWords : f[j] = w[BlockWords * q + BlockWords + j]
      BY <2>5, <3>1
    <3>4. \A j \in 1 .. BlockWords : f[j] = b2[j]
      BY <3>2, <3>3
    <3>5. f = b2
      BY <3>4, EqualBlocks
    <3> QED
      BY <3>3, <3>5
  <2>10. /\ Append(full, b1) \in Seq(T) /\ Len(Append(full, b1)) = q + 1
         /\ \A i \in 1 .. q : Append(full, b1)[i] = full[i]
         /\ Append(full, b1)[q + 1] = b1
    BY <1>3, AppendBlock
  <2>11. PICK a \in Seq(T) : a = Append(full, b1) /\ Len(a) = q + 1
    BY <2>10
  <2>12. /\ Append(a, b2) \in [1 .. n -> T]
         /\ \A i \in 1 .. q + 1 : Append(a, b2)[i] = a[i]
         /\ Append(a, b2)[q + 2] = b2
    <3>1. PICK k \in Nat : k = q + 1 /\ k + 1 = n /\ k + 1 = q + 2
      BY <2>2
    <3>2. /\ Append(a, b2) \in [1 .. k + 1 -> T]
          /\ \A i \in 1 .. k : Append(a, b2)[i] = a[i]
          /\ Append(a, b2)[k + 1] = b2
      <4>1. Len(a) = k
        BY <2>11, <3>1
      <4> QED
        BY <4>1, AppendBlock
    <3> QED
      BY <3>1, <3>2
  <2>13. \A i \in 1 .. n : Append(a, b2)[i] = Block(w, i)
    <3>1. \A i \in 1 .. n : i \in 1 .. q \/ i = q + 1 \/ i = q + 2
      BY <2>2
    <3>2. \A i \in 1 .. q : i \in 1 .. q + 1
      OBVIOUS
    <3>3. q + 1 \in 1 .. q + 1
      OBVIOUS
    <3> QED
      BY <1>3, <2>5, <2>8, <2>9, <2>10, <2>11, <2>12, <3>1, <3>2, <3>3
  <2>14. Append(a, b2) = [i \in 1 .. n |-> Block(w, i)]
    BY <2>12, <2>13
  <2> QED
    BY <2>4, <2>5, <2>7, <2>11, <2>14
<1> QED
  BY <1>4, <1>5

\* What a digest of n blocks tells of its message: its length, and its words.
Tells(d, n, m) ==
  /\ d \in [1 .. n -> [1 .. BlockWords -> Nat]]
  /\ Len(m) <= BlockWords * n
  /\ d[n][BlockWords] = LengthWord(Len(m))
  /\ \A i \in 1 .. n, j \in 1 .. BlockWords :
       (i - 1) * BlockWords + j \in 1 .. Len(m) => d[i][j] = m[(i - 1) * BlockWords + j]

LEMMA DigestTells ==
  ASSUME NEW m \in Seq(Nat)
  PROVE  \E n \in Nat \ {0} : Tells(DigestOf(m), n, m)
<1> DEFINE d == DigestOf(m)
<1>1. BlockWords \in Nat \ {0, 1} /\ Len(m) \in Nat /\ Len(m) \in Int
  BY BlockWordsAssumption
<1>2. PICK q \in Nat, r \in 0 .. BlockWords - 1 : Len(m) = BlockWords * q + r
  <2>1. BlockWords \in Nat \ {0}
    BY <1>1
  <2>2. PICK q \in Int, r \in 0 .. BlockWords - 1 : Len(m) = BlockWords * q + r /\ (Len(m) >= 0 => q >= 0)
    BY <1>1, <2>1, QuotientAndRest
  <2>3. q \in Nat
    BY <1>1, <2>2
  <2> QED
    BY <2>2, <2>3
<1>3. PICK z \in 0 .. BlockWords - 1, n \in Nat : Len(m) + z + 2 = BlockWords * n
  <2>1. BlockWords * (q + 1) = BlockWords * q + BlockWords /\ BlockWords * (q + 2) = BlockWords * q + 2 * BlockWords
    BY <1>1
  <2>2. CASE r # BlockWords - 1
    <3>1. PICK z \in 0 .. BlockWords - 1 : z = BlockWords - 2 - r
      BY <1>1, <2>2
    <3>2. PICK n \in Nat : n = q + 1
      OBVIOUS
    <3>3. Len(m) + z + 2 = BlockWords * n
      BY <1>1, <1>2, <2>1, <3>1, <3>2
    <3> QED
      BY <3>3
  <2>3. CASE r = BlockWords - 1
    <3>1. PICK z \in 0 .. BlockWords - 1 : z = BlockWords - 1
      BY <1>1, <2>3
    <3>2. PICK n \in Nat : n = q + 2
      OBVIOUS
    <3>3. Len(m) + z + 2 = BlockWords * n
      BY <1>1, <1>2, <2>1, <2>3, <3>1, <3>2
    <3> QED
      BY <3>3
  <2> QED
    BY <2>2, <2>3
<1>4. n # 0 /\ n \in 1 .. n /\ (n - 1) * BlockWords + BlockWords = BlockWords * n
  <2>1. n = 0 => BlockWords * n = 0
    BY <1>1
  <2>2. n # 0
    BY <1>1, <1>3, <2>1
  <2> QED
    BY <1>1, <2>2
<1>5. d = [i \in 1 .. n |-> Block(Padded(m, z), i)]
  BY <1>3, DigestBlocks
<1> HIDE DEF d
<1>6. \A i \in 1 .. n : /\ Block(Padded(m, z), i) \in [1 .. BlockWords -> Nat]
                        /\ \A j \in 1 .. BlockWords : Block(Padded(m, z), i)[j] = Padded(m, z)[(i - 1) * BlockWords + j]
  <2>1. HasBlocks(Padded(m, z), m, q, n)
    BY <1>2, <1>3, LastBlocks
  <2> QED
    BY <2>1 DEF HasBlocks
<1>7. d \in [1 .. n -> [1 .. BlockWords -> Nat]]
  <2> DEFINE T == [1 .. BlockWords -> Nat]
  <2>1. \A i \in 1 .. n : Block(Padded(m, z), i) \in T
    BY <1>6
  <2> HIDE DEF T
  <2>2. d \in [1 .. n -> T]
    BY <1>5, <2>1
  <2> QED
    BY <2>2 DEF T
<1>8. /\ \A k \in 1 .. Len(m) : Padded(m, z)[k] = m[k]
      /\ Padded(m, z)[Len(m) + z + 2] = LengthWord(Len(m))
  <2>1. z \in Nat
    OBVIOUS
  <2> QED
    BY <2>1, PaddedElements
<1>9. \A i \in 1 .. n, j \in 1 .. BlockWords : d[i][j] = Padded(m, z)[(i - 1) * BlockWords + j]
  <2>1. \A i \in 1 .. n : d[i] = Block(Padded(m, z), i)
    BY <1>5
  <2> QED
    BY <1>6, <2>1
<1>10. d[n][BlockWords] = LengthWord(Len(m))
  <2>1. BlockWords \in 1 .. BlockWords
    BY <1>1
  <2> QED
    BY <1>3, <1>4, <1>8, <1>9, <2>1
<1>11. Len(m) <= BlockWords * n
  BY <1>1, <1>3
<1>12. \A i \in 1 .. n, j \in 1 .. BlockWords :
         (i - 1) * BlockWords + j \in 1 .. Len(m) => d[i][j] = m[(i - 1) * BlockWords + j]
  BY <1>8, <1>9
<1>13. Tells(d, n, m)
  BY <1>7, <1>10, <1>11, <1>12 DEF Tells
<1> QED
  BY <1>4, <1>13 DEF d

LEMMA WordIndex ==
  ASSUME NEW n \in Nat \ {0}, NEW k \in Nat \ {0}, k <= BlockWords * n
  PROVE  \E i \in 1 .. n, j \in 1 .. BlockWords : k = (i - 1) * BlockWords + j
<1>1. BlockWords \in Nat \ {0} /\ k - 1 \in Int /\ k - 1 >= 0
  BY BlockWordsAssumption
<1>2. PICK q \in Int, r \in 0 .. BlockWords - 1 : k - 1 = BlockWords * q + r /\ (k - 1 >= 0 => q >= 0)
  BY <1>1, QuotientAndRest
<1>3. q \in Nat
  BY <1>1, <1>2
<1>4. PICK i \in Nat \ {0} : i = q + 1
  BY <1>3
<1>5. i > n => BlockWords * q >= BlockWords * n
  BY <1>1, <1>3, <1>4
<1>6. i \in 1 .. n
  BY <1>1, <1>2, <1>4, <1>5
<1>7. PICK j \in 1 .. BlockWords : j = r + 1
  BY <1>1
<1>8. (i - 1) * BlockWords = BlockWords * q
  BY <1>1, <1>4
<1>9. k = (i - 1) * BlockWords + j
  BY <1>1, <1>2, <1>7, <1>8
<1> QED
  BY <1>6, <1>9


\* The padding takes nothing away: stacks that differ have digests that differ,
\* so InsertStack never takes one for the other but by a collision of the
\* compression function.
THEOREM DifferentStacksDifferentKeys ==
  ASSUME NEW m1 \in Seq(Nat), NEW m2 \in Seq(Nat), StackKey(m1) = StackKey(m2)
  PROVE  m1 = m2
<1>1. BlockWords \in Nat \ {0, 1} /\ Len(m1) \in Nat /\ Len(m2) \in Nat
  BY BlockWordsAssumption
<1>2. PICK d : d = DigestOf(m1) /\ d = DigestOf(m2)
  BY StackKeyIsDigest
<1>3. PICK n1 \in Nat \ {0} : Tells(d, n1, m1)
  BY <1>2, DigestTells
<1>4. PICK n2 \in Nat \ {0} : Tells(d, n2, m2)
  BY <1>2, DigestTells
<1>5. n1 = n2
  <2>1. 1 .. n1 = DOMAIN d /\ 1 .. n2 = DOMAIN d
    BY <1>3, <1>4 DEF Tells
  <2>2. n1 \in 1 .. n2 /\ n2 \in 1 .. n1
    BY <2>1
  <2> QED
    BY <2>2
<1>6. Len(m1) = Len(m2)
  <2>1. LengthWord(Len(m1)) = LengthWord(Len(m2))
    BY <1>3, <1>4, <1>5 DEF Tells
  <2> QED
    BY <1>1, <2>1 DEF LengthWord
<1>7. ASSUME NEW k \in 1 .. Len(m1)
      PROVE  m1[k] = m2[k]
  <2>1. PICK i \in 1 .. n1, j \in 1 .. BlockWords : k = (i - 1) * BlockWords + j
    <3>1. k \in Nat \ {0} /\ k <= BlockWords * n1
      BY <1>1, <1>3 DEF Tells
    <3> QED
      BY <3>1, WordIndex
  <2> QED
    BY <1>3, <1>4, <1>5, <1>6, <2>1 DEF Tells
<1> QED
  BY <1>6, <1>7, SeqEqual

-----------------------------------------------------------------------------
(* The sums of the counters                                                *)

LEMMA RestOfSum ==
  ASSUME NEW c \in Nat \ {0}, NEW a \in Int, NEW b \in Int
  PROVE  ((a % c) + b) % c = (a + b) % c
<1>1. PICK q \in Int, r \in 0 .. c - 1 : r = a % c /\ a = c * q + r
  BY QuotientAndRest
<1>2. PICK n \in Int : n = r + b
  OBVIOUS
<1>3. PICK p \in Int, s \in 0 .. c - 1 : s = n % c /\ n = c * p + s
  BY QuotientAndRest
<1>4. PICK m \in Int : m = a + b
  OBVIOUS
<1>5. m = c * (q + p) + s
  <2>1. PICK u \in Int, v \in Int : u = c * q /\ v = c * p
    OBVIOUS
  <2>2. c * (q + p) = u + v
    BY <2>1
  <2>3. a = u + r /\ n = v + s
    BY <1>1, <1>3, <2>1
  <2>4. m = u + v + s
    BY <1>2, <1>4, <2>3
  <2> QED
    BY <2>2, <2>4
<1>6. m % c = s
  BY <1>5, DivisionIsUnique
<1> QED
  BY <1>1, <1>2, <1>3, <1>4, <1>6

LEMMA RestInRange ==
  ASSUME NEW c \in Nat \ {0}, NEW a \in Int
  PROVE  a % c \in 0 .. c - 1
BY QuotientAndRest

\* r[s] times the counters of s more.
Added(r, s, sum) == [k \in Counters |-> (sum[k] + r[s] * s.counts[k]) % CounterRange]

\* SumOf with the counts of the samples as a parameter, by the definition of a
\* fold.
Sum(r, S) ==
  LET iter[T \in SUBSET S] ==
        IF T = {} THEN NoCounts
        ELSE LET x == CHOOSE x \in T : TRUE IN Added(r, x, iter[T \ {x}])
  IN iter[S]

LEMMA SumOfIsSum ==
  ASSUME NEW S
  PROVE  SumOf(S) = Sum(recorded, S)
BY DEF SumOf, FoldSet, MapThenFoldSet, Sum, Added

CounterValues == [Counters -> 0 .. CounterRange - 1]

LEMMA AddedType ==
  ASSUME NEW r \in [Samples -> Nat], NEW s \in Samples, NEW sum \in CounterValues
  PROVE  Added(r, s, sum) \in CounterValues
<1>1. ASSUME NEW k \in Counters
      PROVE  (sum[k] + r[s] * s.counts[k]) % CounterRange \in 0 .. CounterRange - 1
  <2>1. sum[k] \in Int /\ r[s] \in Int /\ s.counts[k] \in Int
    BY SamplesAssumption, CounterAssumption DEF CounterValues
  <2>2. sum[k] + r[s] * s.counts[k] \in Int
    BY <2>1
  <2> QED
    BY <2>2, CounterAssumption, RestInRange
<1> QED
  BY <1>1 DEF Added, CounterValues

LEMMA NoCountsType == NoCounts \in CounterValues
BY CounterAssumption DEF NoCounts, CounterValues

\* The order in which two samples are added is no matter.
LEMMA AddedCommutes ==
  ASSUME NEW r \in [Samples -> Nat], NEW s \in Samples, NEW t \in Samples, NEW sum \in CounterValues
  PROVE  Added(r, s, Added(r, t, sum)) = Added(r, t, Added(r, s, sum))
<1>1. ASSUME NEW k \in Counters
      PROVE  Added(r, s, Added(r, t, sum))[k] = Added(r, t, Added(r, s, sum))[k]
  <2>1. sum[k] \in Int /\ r[s] \in Int /\ s.counts[k] \in Int /\ r[t] \in Int /\ t.counts[k] \in Int
    BY SamplesAssumption, CounterAssumption DEF CounterValues
  <2>2. PICK a \in Int : a = r[s] * s.counts[k]
    BY <2>1
  <2>3. PICK b \in Int : b = r[t] * t.counts[k]
    BY <2>1
  <2>4. PICK n \in Int : n = sum[k]
    BY <2>1
  <2>5. /\ Added(r, s, Added(r, t, sum))[k] = (((n + b) % CounterRange) + a) % CounterRange
        /\ Added(r, t, Added(r, s, sum))[k] = (((n + a) % CounterRange) + b) % CounterRange
    BY <2>2, <2>3, <2>4 DEF Added
  <2>6. PICK nb \in Int, na \in Int : nb = n + b /\ na = n + a /\ nb + a = na + b
    OBVIOUS
  <2>7. /\ ((nb % CounterRange) + a) % CounterRange = (nb + a) % CounterRange
        /\ ((na % CounterRange) + b) % CounterRange = (na + b) % CounterRange
    BY CounterAssumption, RestOfSum
  <2> QED
    BY <2>5, <2>6, <2>7
<1> QED
  BY <1>1 DEF Added

\* The function by which Sum is defined, and that there is one: it is built up
\* by the size of the sets.
SumStep(r, f, T) ==
  IF T = {} THEN NoCounts ELSE Added(r, CHOOSE x \in T : TRUE, f[T \ {CHOOSE x \in T : TRUE}])

LEMMA SumExists ==
  ASSUME NEW r, NEW S, IsFiniteSet(S)
  PROVE  \E f : f = [T \in SUBSET S |-> SumStep(r, f, T)]
<1> DEFINE Level(n) == {T \in SUBSET S : Cardinality(T) <= n}
           P == {n \in Nat : \E f : f = [T \in Level(n) |-> SumStep(r, f, T)]}
<1>1. \A T \in SUBSET S : IsFiniteSet(T) /\ Cardinality(T) \in Nat /\ Cardinality(T) <= Cardinality(S)
  BY FS_Subset, FS_CardinalityType
<1>2. \A T : SumStep(r, << >>, {}) = NoCounts
  BY DEF SumStep
<1>3. 0 \in P
  <2>1. Level(0) = {{}}
    <3>1. \A T \in Level(0) : T = {}
      BY <1>1, FS_EmptySet
    <3>2. {} \in Level(0)
      BY FS_EmptySet
    <3> QED
      BY <3>1, <3>2
  <2> HIDE DEF Level
  <2> DEFINE f == [T \in Level(0) |-> NoCounts]
  <2>2. \A T \in Level(0) : SumStep(r, f, T) = NoCounts
    BY <2>1 DEF SumStep
  <2>3. f = [T \in Level(0) |-> SumStep(r, f, T)]
    BY <2>2
  <2> QED
    BY <2>3
<1>4. ASSUME NEW n \in Nat, n \in P
      PROVE  n + 1 \in P
  <2>1. PICK f : f = [T \in Level(n) |-> SumStep(r, f, T)]
    BY <1>4
  <2> DEFINE g == [T \in Level(n + 1) |-> SumStep(r, f, T)]
  <2>2. ASSUME NEW T \in Level(n + 1), T # {}
        PROVE  T \ {CHOOSE x \in T : TRUE} \in Level(n)
    <3>1. PICK x \in T : x = CHOOSE y \in T : TRUE
      BY <2>2
    <3>2. Cardinality(T \ {x}) = Cardinality(T) - 1
      BY <1>1, FS_RemoveElement
    <3> QED
      BY <1>1, <3>1, <3>2
  <2>3. \A T \in Level(n) : T \in Level(n + 1)
    BY <1>1
  <2> HIDE DEF Level
  <2>4. \A T \in Level(n) : g[T] = f[T]
    BY <2>1, <2>3
  <2>5. \A T \in Level(n + 1) : SumStep(r, g, T) = SumStep(r, f, T)
    <3> TAKE T \in Level(n + 1)
    <3>1. CASE T = {}
      BY <3>1 DEF SumStep
    <3>2. CASE T # {}
      <4>1. T \ {CHOOSE x \in T : TRUE} \in Level(n)
        BY <2>2, <3>2
      <4>2. g[T \ {CHOOSE x \in T : TRUE}] = f[T \ {CHOOSE x \in T : TRUE}]
        BY <2>4, <4>1
      <4> HIDE DEF g
      <4> QED
        BY <3>2, <4>2 DEF SumStep
    <3> QED
      BY <3>1, <3>2
  <2>6. g = [T \in Level(n + 1) |-> SumStep(r, g, T)]
    BY <2>5
  <2>7. \E h : h = [T \in Level(n + 1) |-> SumStep(r, h, T)]
    BY <2>6
  <2> QED
    BY <2>7
<1>5. \A n \in Nat : n \in P
  <2> HIDE DEF P
  <2> QED
    BY <1>3, <1>4, Induction
<1>6. PICK n \in Nat : n = Cardinality(S)
  BY FS_CardinalityType
<1>7. Level(n) = SUBSET S
  BY <1>1, <1>6
<1> HIDE DEF Level
<1> QED
  BY <1>5, <1>7

LEMMA FunctionOfSum ==
  ASSUME NEW r, NEW S, IsFiniteSet(S)
  PROVE  \E f : /\ f = [T \in SUBSET S |-> SumStep(r, f, T)]
                /\ Sum(r, S) = f[S]
<1> DEFINE f == CHOOSE f : f = [T \in SUBSET S |-> SumStep(r, f, T)]
<1>1. \E g : g = [T \in SUBSET S |-> SumStep(r, g, T)]
  BY SumExists
<1>2. f = [T \in SUBSET S |-> SumStep(r, f, T)]
  BY <1>1
<1>3. Sum(r, S) = f[S]
  BY DEF Sum, SumStep
<1> HIDE DEF f
<1> QED
  BY <1>2, <1>3

HasSteps(r, S, f) == \A T \in SUBSET S : f[T] = SumStep(r, f, T)

\* The sum of a set is that of its parts by any function that has the steps.
LEMMA SumBySteps ==
  ASSUME NEW r, NEW S, IsFiniteSet(S), NEW f, HasSteps(r, S, f)
  PROVE  \A T \in SUBSET S : f[T] = Sum(r, T)
<1> SUFFICES ASSUME NEW U \in SUBSET S
             PROVE  f[U] = Sum(r, U)
  OBVIOUS
<1>1. IsFiniteSet(U)
  BY FS_Subset
<1>2. PICK g : g = [T \in SUBSET U |-> SumStep(r, g, T)] /\ Sum(r, U) = g[U]
  BY <1>1, FunctionOfSum
<1> DEFINE P == {n \in Nat : \A T \in SUBSET U : Cardinality(T) = n => f[T] = g[T]}
<1>3. \A T \in SUBSET U : IsFiniteSet(T) /\ Cardinality(T) \in Nat /\ T \in SUBSET S
  BY <1>1, FS_Subset, FS_CardinalityType
<1>4. \A T \in SUBSET U : f[T] = SumStep(r, f, T) /\ g[T] = SumStep(r, g, T)
  BY <1>2, <1>3 DEF HasSteps
<1>5. 0 \in P
  <2>1. \A T \in SUBSET U : Cardinality(T) = 0 => T = {}
    BY <1>3, FS_EmptySet
  <2>2. f[{}] = NoCounts /\ g[{}] = NoCounts
    BY <1>4 DEF SumStep
  <2> QED
    BY <2>1, <2>2
<1>6. ASSUME NEW n \in Nat, n \in P
      PROVE  n + 1 \in P
  <2>a. ASSUME NEW T \in SUBSET U, Cardinality(T) = n + 1
        PROVE  f[T] = g[T]
    <3>1. T # {}
      <4>1. n + 1 # 0
        OBVIOUS
      <4> QED
        BY <2>a, <4>1, FS_EmptySet
    <3>2. PICK x \in T : x = CHOOSE y \in T : TRUE
      BY <3>1
    <3>3. Cardinality(T \ {x}) = n /\ T \ {x} \in SUBSET U
      BY <1>3, <2>a, FewerElements
    <3>4. f[T \ {x}] = g[T \ {x}]
      BY <1>6, <3>3
    <3>5. SumStep(r, f, T) = SumStep(r, g, T)
      BY <3>1, <3>2, <3>4 DEF SumStep
    <3> QED
      BY <1>4, <3>5
  <2> QED
    BY <2>a
<1>7. \A n \in Nat : n \in P
  <2> HIDE DEF P
  <2> QED
    BY <1>5, <1>6, Induction
<1>8. f[U] = g[U]
  <2>1. U \in SUBSET U
    OBVIOUS
  <2> QED
    BY <1>3, <1>7, <2>1
<1> QED
  BY <1>2, <1>8

LEMMA SumUnfold ==
  ASSUME NEW r, NEW S, IsFiniteSet(S)
  PROVE  /\ S = {} => Sum(r, S) = NoCounts
         /\ S # {} => \E x \in S : Sum(r, S) = Added(r, x, Sum(r, S \ {x}))
<1>1. PICK f : f = [T \in SUBSET S |-> SumStep(r, f, T)] /\ Sum(r, S) = f[S]
  BY FunctionOfSum
<1>2. \A T \in SUBSET S : f[T] = Sum(r, T) /\ f[T] = SumStep(r, f, T)
  <2>1. \A T \in SUBSET S : f[T] = SumStep(r, f, T)
    BY <1>1
  <2>2. HasSteps(r, S, f)
    BY <2>1 DEF HasSteps
  <2> QED
    BY <2>1, <2>2, SumBySteps
<1>3. CASE S = {}
  <2>1. Sum(r, S) = SumStep(r, f, S)
    BY <1>2
  <2> QED
    BY <1>3, <2>1 DEF SumStep
<1>4. CASE S # {}
  <2>1. PICK x \in S : x = CHOOSE y \in S : TRUE
    BY <1>4
  <2>2. Sum(r, S) = Added(r, x, f[S \ {x}])
    <3>1. Sum(r, S) = SumStep(r, f, S)
      BY <1>2
    <3> QED
      BY <1>4, <2>1, <3>1 DEF SumStep
  <2>3. f[S \ {x}] = Sum(r, S \ {x})
    BY <1>2
  <2> QED
    BY <1>4, <2>2, <2>3
<1> QED
  BY <1>3, <1>4

LEMMA SumType ==
  ASSUME NEW r \in [Samples -> Nat], NEW S \in SUBSET Samples
  PROVE  Sum(r, S) \in CounterValues
<1> DEFINE P == {n \in Nat : \A T \in SUBSET Samples : Cardinality(T) = n => Sum(r, T) \in CounterValues}
<1>1. \A T \in SUBSET Samples : IsFiniteSet(T) /\ Cardinality(T) \in Nat
  BY SamplesAssumption, FS_Subset, FS_CardinalityType
<1>2. 0 \in P
  <2>1. \A T \in SUBSET Samples : Cardinality(T) = 0 => T = {}
    BY <1>1, FS_EmptySet
  <2>2. Sum(r, {}) \in CounterValues
    BY NoCountsType, FS_EmptySet, SumUnfold
  <2> QED
    BY <2>1, <2>2
<1>3. ASSUME NEW n \in Nat, n \in P
      PROVE  n + 1 \in P
  <2> SUFFICES ASSUME NEW T \in SUBSET Samples, Cardinality(T) = n + 1
               PROVE  Sum(r, T) \in CounterValues
    OBVIOUS
  <2>1. T # {} /\ IsFiniteSet(T)
    BY <1>1, FS_EmptySet
  <2>2. PICK x \in T : Sum(r, T) = Added(r, x, Sum(r, T \ {x}))
    BY <2>1, SumUnfold
  <2>3. Cardinality(T \ {x}) = n /\ T \ {x} \in SUBSET Samples
    BY <2>1, FewerElements
  <2>4. Sum(r, T \ {x}) \in CounterValues
    BY <1>3, <2>3
  <2> QED
    BY <2>2, <2>4, AddedType
<1>4. \A n \in Nat : n \in P
  <2> HIDE DEF P
  <2> QED
    BY <1>2, <1>3, Induction
<1> QED
  BY <1>1, <1>4

\* A sample can be added last, whatever the order of the fold is.
LEMMA SumInsert ==
  ASSUME NEW r \in [Samples -> Nat], NEW S \in SUBSET Samples, NEW s \in Samples, s \notin S
  PROVE  Sum(r, S \cup {s}) = Added(r, s, Sum(r, S))
<1> DEFINE P == {n \in Nat : \A T \in SUBSET Samples, t \in Samples :
                   Cardinality(T) = n /\ t \notin T => Sum(r, T \cup {t}) = Added(r, t, Sum(r, T))}
<1>1. \A T \in SUBSET Samples : IsFiniteSet(T) /\ Cardinality(T) \in Nat
  BY SamplesAssumption, FS_Subset, FS_CardinalityType
<1>2. 0 \in P
  <2> SUFFICES ASSUME NEW T \in SUBSET Samples, NEW t \in Samples, Cardinality(T) = 0, t \notin T
               PROVE  Sum(r, T \cup {t}) = Added(r, t, Sum(r, T))
    OBVIOUS
  <2>1. T = {}
    BY <1>1, FS_EmptySet
  <2>2. PICK U : U = T \cup {t}
    OBVIOUS
  <2>3. IsFiniteSet(U) /\ U # {} /\ \A x \in U : x = t /\ U \ {x} = T
    BY <1>1, <2>1, <2>2
  <2> QED
    BY <2>2, <2>3, SumUnfold
<1>3. ASSUME NEW n \in Nat, n \in P
      PROVE  n + 1 \in P
  <2> SUFFICES ASSUME NEW T \in SUBSET Samples, NEW t \in Samples, Cardinality(T) = n + 1, t \notin T
               PROVE  Sum(r, T \cup {t}) = Added(r, t, Sum(r, T))
    OBVIOUS
  <2>1. PICK U : U = T \cup {t}
    OBVIOUS
  <2>2. U # {} /\ U \in SUBSET Samples /\ IsFiniteSet(U)
    BY <1>1, <2>1
  <2>3. PICK x \in U : Sum(r, U) = Added(r, x, Sum(r, U \ {x}))
    BY <2>2, SumUnfold
  <2>4. CASE x = t
    <3>1. U \ {x} = T
      BY <2>1, <2>4
    <3> QED
      BY <2>1, <2>3, <2>4, <3>1
  <2>5. CASE x # t
    <3>1. x \in T /\ x \in Samples
      BY <2>1, <2>5
    <3>2. PICK V \in SUBSET Samples : /\ V = T \ {x} /\ Cardinality(V) = n
                                      /\ x \notin V /\ t \notin V /\ T = V \cup {x} /\ U \ {x} = V \cup {t}
      <4>1. Cardinality(T \ {x}) = n
        BY <1>1, <3>1, FewerElements
      <4>2. T \ {x} \in SUBSET Samples /\ T = (T \ {x}) \cup {x} /\ U \ {x} = (T \ {x}) \cup {t}
        BY <2>1, <2>5, <3>1
      <4> QED
        BY <4>1, <4>2
    <3>3. Sum(r, V \cup {t}) = Added(r, t, Sum(r, V)) /\ Sum(r, V \cup {x}) = Added(r, x, Sum(r, V))
      BY <1>3, <3>1, <3>2
    <3>4. Sum(r, V) \in CounterValues
      BY SumType
    <3>5. Added(r, x, Added(r, t, Sum(r, V))) = Added(r, t, Added(r, x, Sum(r, V)))
      BY <3>1, <3>4, AddedCommutes
    <3> QED
      BY <2>1, <2>3, <3>2, <3>3, <3>5
  <2> QED
    BY <2>4, <2>5
<1>4. \A n \in Nat : n \in P
  <2> HIDE DEF P
  <2> QED
    BY <1>2, <1>3, Induction
<1> QED
  BY <1>1, <1>4

\* Only the counts of the samples in the set are summed.
LEMMA SumCongruence ==
  ASSUME NEW r, NEW q, NEW S, IsFiniteSet(S)
  PROVE  (\A s \in S : r[s] = q[s]) => Sum(r, S) = Sum(q, S)
<1>1. PICK f : f = [T \in SUBSET S |-> SumStep(r, f, T)] /\ Sum(r, S) = f[S]
  BY FunctionOfSum
<1>2. ASSUME \A s \in S : r[s] = q[s]
      PROVE  HasSteps(q, S, f)
  <2>1. \A T \in SUBSET S : SumStep(r, f, T) = SumStep(q, f, T)
    <3> TAKE T \in SUBSET S
    <3>1. CASE T = {}
      BY <3>1 DEF SumStep
    <3>2. CASE T # {}
      <4>1. PICK x \in T : x = CHOOSE y \in T : TRUE
        BY <3>2
      <4>2. r[x] = q[x]
        BY <1>2
      <4>3. Added(r, x, f[T \ {x}]) = Added(q, x, f[T \ {x}])
        BY <4>2 DEF Added
      <4> QED
        BY <3>2, <4>1, <4>3 DEF SumStep
    <3> QED
      BY <3>1, <3>2
  <2> QED
    BY <1>1, <2>1 DEF HasSteps
<1>3. HasSteps(q, S, f) => f[S] = Sum(q, S)
  BY SumBySteps
<1> QED
  BY <1>1, <1>2, <1>3

\* GetRipNode adds one sample to the sum of a set: the sample is in the set, or
\* comes into it with its first count.
LEMMA OneMore ==
  ASSUME NEW r \in [Samples -> Nat], NEW s \in Samples, NEW C \in SUBSET Samples, s \in C \/ r[s] = 0,
         NEW q, q = [r EXCEPT ![s] = @ + 1]
  PROVE  Sum(q, C \cup {s}) = Plus(Sum(r, C), s.counts)
<1> DEFINE D == C \ {s}
<1>1. q \in [Samples -> Nat] /\ q[s] = r[s] + 1 /\ \A t \in D : r[t] = q[t]
  OBVIOUS
<1>2. D \in SUBSET Samples /\ IsFiniteSet(D) /\ s \notin D /\ C \cup {s} = D \cup {s}
  BY SamplesAssumption, FS_Subset
<1>3. Sum(q, D) = Sum(r, D)
  <2>1. (\A t \in D : r[t] = q[t]) => Sum(r, D) = Sum(q, D)
    BY <1>2, SumCongruence, ZenonT(40)
  <2> QED
    BY <1>1, <2>1
<1>4. PICK sum \in CounterValues : sum = Sum(r, D)
  BY <1>2, SumType
<1>5. Sum(q, C \cup {s}) = Added(q, s, sum)
  <2>1. Sum(q, D \cup {s}) = Added(q, s, Sum(q, D))
    BY <1>1, <1>2, SumInsert
  <2> QED
    BY <1>2, <1>3, <1>4, <2>1
<1>6. \A k \in Counters : sum[k] \in Int /\ r[s] \in Int /\ s.counts[k] \in Int
  BY SamplesAssumption, CounterAssumption DEF CounterValues
<1>7. CASE s \in C
  <2>1. Sum(r, C) = Added(r, s, sum)
    <3>1. C = D \cup {s}
      BY <1>7
    <3>2. Sum(r, D \cup {s}) = Added(r, s, Sum(r, D))
      BY <1>2, SumInsert
    <3> QED
      BY <1>4, <3>1, <3>2
  <2>2. ASSUME NEW k \in Counters
        PROVE  ((Added(r, s, sum))[k] + s.counts[k]) % CounterRange = (sum[k] + q[s] * s.counts[k]) % CounterRange
    <3>1. PICK n \in Int, c \in Int, m \in Int : n = sum[k] /\ c = s.counts[k] /\ m = r[s]
      BY <1>6
    <3>2. PICK u \in Int : u = m * c
      OBVIOUS
    <3>3. (m + 1) * c = u + c
      BY <3>2
    <3>4. PICK a \in Int : a = n + u
      OBVIOUS
    <3>5. a + c = n + (u + c)
      BY <3>4
    <3>6. ((a % CounterRange) + c) % CounterRange = (a + c) % CounterRange
      BY CounterAssumption, RestOfSum
    <3>7. Added(r, s, sum)[k] = a % CounterRange
      BY <3>1, <3>2, <3>4 DEF Added
    <3>8. (sum[k] + q[s] * s.counts[k]) % CounterRange = (a + c) % CounterRange
      BY <1>1, <3>1, <3>3, <3>5
    <3> QED
      BY <3>1, <3>6, <3>7, <3>8
  <2> QED
    BY <1>5, <2>1, <2>2 DEF Plus, Added
<1>8. CASE s \notin C
  <2>1. D = C /\ q[s] = 1
    BY <1>1, <1>8
  <2>2. \A k \in Counters : q[s] * s.counts[k] = s.counts[k]
    BY <1>6, <2>1
  <2>3. Added(q, s, sum) = Plus(sum, s.counts)
    BY <2>2 DEF Added, Plus
  <2> QED
    BY <1>4, <1>5, <2>1, <2>3
<1> QED
  BY <1>7, <1>8
-----------------------------------------------------------------------------
(* The stack store                                                         *)

\* A stack lies with its zero from an offset on, below the count of the frames
\* in use.
StoredAt(frames, count, offset, stack) ==
  /\ offset \in Nat /\ offset + Len(stack) + 1 <= count
  /\ \A i \in 1 .. Len(stack) : frames[offset + i] = stack[i]
  /\ frames[offset + Len(stack) + 1] = 0

\* A stored stack is read back at its offset.
LEMMA StoredIsReadBack ==
  ASSUME NEW frames \in Seq(Nat), NEW count \in Nat, count <= Len(frames), NEW offset,
         NEW stack \in Stacks, StoredAt(frames, count, offset, stack)
  PROVE  StackAt(frames, offset) = stack
<1>1. stack \in Seq(Nat \ {0}) /\ Len(stack) \in Nat /\ stack \in Seq(Nat)
  BY StacksAssumption
<1>2. PICK e \in offset + 1 .. Len(frames) : e = offset + Len(stack) + 1
  BY <1>1 DEF StoredAt
<1>3. \A i \in offset + 1 .. e - 1 : frames[i] # 0 /\ frames[i] \in Nat
  <2> TAKE i \in offset + 1 .. e - 1
  <2>1. PICK k \in 1 .. Len(stack) : i = offset + k
    <3>1. i - offset \in 1 .. Len(stack) /\ i = offset + (i - offset)
      BY <1>1, <1>2 DEF StoredAt
    <3> QED
      BY <3>1
  <2>2. frames[i] = stack[k]
    BY <2>1 DEF StoredAt
  <2>3. stack[k] \in Nat \ {0}
    BY <1>1, ElementOfSeq
  <2> QED
    BY <2>2, <2>3
<1>4. frames[e] = 0
  BY <1>2 DEF StoredAt
<1>5. \A d \in offset + 1 .. Len(frames) :
        frames[d] = 0 /\ (\A i \in offset + 1 .. d - 1 : frames[i] # 0) => d = e
  <2> TAKE d \in offset + 1 .. Len(frames)
  <2>1. offset \in Int /\ e \in Int /\ d \in Int
    BY <1>2 DEF StoredAt
  <2>2. d < e => d \in offset + 1 .. e - 1
    BY <2>1
  <2>3. d > e => e \in offset + 1 .. d - 1
    BY <2>1, <1>2
  <2> QED
    BY <1>3, <1>4, <2>1, <2>2, <2>3
<1>6. (CHOOSE d \in offset + 1 .. Len(frames) :
         frames[d] = 0 /\ \A i \in offset + 1 .. d - 1 : frames[i] # 0) = e
  BY <1>3, <1>4, <1>5
<1>7. SubSeq(frames, offset + 1, e - 1) = stack
  <2>1. PICK a \in Int, b \in Int : a = offset + 1 /\ b = e - 1 /\ b - a + 1 = Len(stack)
    BY <1>1, <1>2 DEF StoredAt
  <2>2. \A i \in a .. b : frames[i] \in Nat
    BY <1>3, <2>1
  <2>3. /\ SubSeq(frames, a, b) \in Seq(Nat)
        /\ Len(SubSeq(frames, a, b)) = IF a <= b THEN b - a + 1 ELSE 0
        /\ \A i \in 1 .. b - a + 1 : SubSeq(frames, a, b)[i] = frames[a + i - 1]
    BY <2>2, SubSeqProperties
  <2>4. Len(SubSeq(frames, a, b)) = Len(stack)
    BY <1>1, <2>1, <2>3
  <2>5. \A i \in 1 .. Len(stack) : SubSeq(frames, a, b)[i] = stack[i]
    <3> TAKE i \in 1 .. Len(stack)
    <3>1. a + i - 1 = offset + i
      BY <2>1 DEF StoredAt
    <3> QED
      BY <2>1, <2>3, <3>1 DEF StoredAt
  <2>6. SubSeq(frames, a, b) = stack
    BY <1>1, <2>3, <2>4, <2>5, SeqEqual
  <2> QED
    BY <2>1, <2>6
<1> QED
  BY <1>6, <1>7 DEF StackAt

\* The array is empty or at least as long as it was made first.
IsStackData(d) ==
  /\ d \in [m_Frames : Seq(Nat), m_Count : Nat, m_ReserveCount : Nat]
  /\ Len(d.m_Frames) = d.m_ReserveCount
  /\ d.m_Count <= d.m_ReserveCount
  /\ d.m_ReserveCount = 0 \/ d.m_ReserveCount >= InitialReserve

\* One doubling is enough for any stack.
LEMMA ReserveMakesRoom ==
  ASSUME NEW d, IsStackData(d), NEW n \in Nat, n < MaxCalls
  PROVE  /\ IsStackData(Reserve(d, n))
         /\ Reserve(d, n).m_Count = d.m_Count
         /\ d.m_Count + n + 1 <= Reserve(d, n).m_ReserveCount
         /\ \A i \in 1 .. d.m_Count : Reserve(d, n).m_Frames[i] = d.m_Frames[i]
<1>1. /\ d.m_Frames \in Seq(Nat) /\ d.m_Count \in Nat /\ d.m_ReserveCount \in Nat
      /\ Len(d.m_Frames) = d.m_ReserveCount /\ d.m_Count <= d.m_ReserveCount
      /\ d.m_ReserveCount = 0 \/ d.m_ReserveCount >= InitialReserve
  BY DEF IsStackData
<1>2. CASE d.m_Count + n + 1 <= d.m_ReserveCount
  BY <1>1, <1>2 DEF Reserve
<1>3. CASE ~(d.m_Count + n + 1 <= d.m_ReserveCount)
  <2>1. PICK size \in Nat : size = IF d.m_ReserveCount = 0 THEN InitialReserve ELSE 2 * d.m_ReserveCount
    BY <1>1, ReserveAssumption
  <2>2. PICK frames : frames = [i \in 1 .. size |-> IF i <= d.m_Count THEN d.m_Frames[i] ELSE 0]
    OBVIOUS
  <2>3. size >= InitialReserve /\ d.m_Count + n + 1 <= size /\ d.m_Count <= size
    BY <1>1, <2>1, ReserveAssumption
  <2>4. \A i \in 1 .. size : i <= d.m_Count => d.m_Frames[i] \in Nat
    <3>1. \A i \in 1 .. size : i <= d.m_Count => i \in 1 .. Len(d.m_Frames)
      BY <1>1
    <3> QED
      BY <1>1, <3>1, ElementOfSeq
  <2>5. frames \in [1 .. size -> Nat]
    BY <2>2, <2>4
  <2>6. frames \in Seq(Nat) /\ Len(frames) = size
    BY <2>5, SeqDef
  <2>7. \A i \in 1 .. d.m_Count : frames[i] = d.m_Frames[i]
    <3>1. \A i \in 1 .. d.m_Count : i \in 1 .. size /\ i <= d.m_Count
      BY <1>1, <2>3
    <3> QED
      BY <2>2, <3>1
  <2>8. Reserve(d, n) = [d EXCEPT !.m_ReserveCount = size, !.m_Frames = frames]
    BY <1>3, <2>1, <2>2 DEF Reserve
  <2>9. d \in [m_Frames : Seq(Nat), m_Count : Nat, m_ReserveCount : Nat]
    BY DEF IsStackData
  <2>10. /\ Reserve(d, n) \in [m_Frames : Seq(Nat), m_Count : Nat, m_ReserveCount : Nat]
         /\ Reserve(d, n).m_Frames = frames /\ Reserve(d, n).m_Count = d.m_Count
         /\ Reserve(d, n).m_ReserveCount = size
    BY <2>6, <2>8, <2>9
  <2> QED
    BY <1>1, <2>3, <2>6, <2>7, <2>10 DEF IsStackData
<1> QED
  BY <1>2, <1>3

\* InsertStack's writes stay in the array, leave what is there, and put the
\* stack behind it.
LEMMA StoredStack ==
  ASSUME NEW d, IsStackData(d), NEW stack \in Stacks,
         NEW e, e = Stored(Reserve(d, Len(stack)), stack)
  PROVE  /\ IsStackData(e)
         /\ e.m_Count = d.m_Count + Len(stack) + 1
         /\ \A i \in 1 .. d.m_Count : e.m_Frames[i] = d.m_Frames[i]
         /\ StoredAt(e.m_Frames, e.m_Count, d.m_Count, stack)
<1>1. stack \in Seq(Nat) /\ Len(stack) \in Nat /\ Len(stack) < MaxCalls
  BY StacksAssumption
<1>2. PICK c : /\ c = Reserve(d, Len(stack)) /\ IsStackData(c) /\ c.m_Count = d.m_Count
               /\ d.m_Count + Len(stack) + 1 <= c.m_ReserveCount
               /\ \A i \in 1 .. d.m_Count : c.m_Frames[i] = d.m_Frames[i]
  BY <1>1, ReserveMakesRoom
<1>3. PICK n \in Nat, size \in Nat, frames \in Seq(Nat) :
        /\ n = c.m_Count /\ n = d.m_Count /\ size = c.m_ReserveCount
        /\ frames = c.m_Frames /\ Len(frames) = size /\ DOMAIN frames = 1 .. size
        /\ size = 0 \/ size >= InitialReserve
  BY <1>2, LenProperties DEF IsStackData
<1>4. PICK written \in Seq(Nat) :
        /\ written = stack \o <<0>> /\ Len(written) = Len(stack) + 1
        /\ \A i \in 1 .. Len(stack) : written[i] = stack[i]
        /\ written[Len(stack) + 1] = 0
  <2>1. PICK zero \in Seq(Nat) : zero = <<0>> /\ Len(zero) = 1 /\ zero[1] = 0
    BY OneElement
  <2>2. /\ stack \o zero \in Seq(Nat) /\ Len(stack \o zero) = Len(stack) + Len(zero)
        /\ \A i \in 1 .. Len(stack) + Len(zero) :
             (stack \o zero)[i] = IF i <= Len(stack) THEN stack[i] ELSE zero[i - Len(stack)]
    BY <1>1, ConcatProperties
  <2>3. Len(stack) + 1 - Len(stack) = 1 /\ Len(stack) + 1 \in 1 .. Len(stack) + 1
        /\ ~(Len(stack) + 1 <= Len(stack))
    BY <1>1
  <2>4. \A i \in 1 .. Len(stack) : i \in 1 .. Len(stack) + 1 /\ i <= Len(stack)
    BY <1>1
  <2>5. PICK written \in Seq(Nat) : written = stack \o zero
    BY <2>2
  <2>6. Len(written) = Len(stack) + 1 /\ written[Len(stack) + 1] = 0
    BY <2>1, <2>2, <2>3, <2>5
  <2>7. \A i \in 1 .. Len(stack) : written[i] = stack[i]
    BY <2>1, <2>2, <2>4, <2>5
  <2> QED
    BY <2>1, <2>5, <2>6, <2>7
<1>5. PICK new : new = [i \in 1 .. size |-> IF i > n /\ i <= n + Len(written) THEN written[i - n] ELSE frames[i]]
  OBVIOUS
<1>6. n + Len(written) <= size /\ n + Len(written) \in Nat /\ n + Len(written) = d.m_Count + Len(stack) + 1
  <2>1. PICK k \in Nat : k = Len(stack) /\ Len(written) = k + 1
    BY <1>1, <1>4
  <2>2. n + k + 1 <= size
    BY <1>2, <1>3, <2>1
  <2>3. d.m_Count + Len(stack) + 1 = n + k + 1
    BY <1>3, <2>1
  <2> QED
    BY <2>1, <2>2, <2>3
<1>7. new \in [1 .. size -> Nat]
  <2>1. ASSUME NEW i \in 1 .. size
        PROVE  (IF i > n /\ i <= n + Len(written) THEN written[i - n] ELSE frames[i]) \in Nat
    <3>1. CASE i > n /\ i <= n + Len(written)
      <4>1. i - n \in 1 .. Len(written)
        BY <1>1, <1>4, <3>1
      <4> QED
        BY <3>1, <4>1, ElementOfSeq
    <3>2. CASE ~(i > n /\ i <= n + Len(written))
      BY <1>3, <3>2, ElementOfSeq
    <3> QED
      BY <3>1, <3>2
  <2> QED
    BY <1>5, <2>1
<1>8. new \in Seq(Nat) /\ Len(new) = size
  BY <1>7, SeqDef
<1>9. \A i \in 1 .. n : new[i] = frames[i]
  <2>1. \A i \in 1 .. n : i \in 1 .. size /\ ~(i > n)
    BY <1>1, <1>4, <1>6
  <2> QED
    BY <1>5, <2>1
<1>10. \A i \in 1 .. Len(stack) + 1 : new[n + i] = written[i]
  <2>1. \A i \in 1 .. Len(stack) + 1 : n + i \in 1 .. size /\ n + i > n /\ n + i <= n + Len(written) /\ n + i - n = i
    BY <1>1, <1>4, <1>6
  <2>2. \A i \in 1 .. Len(stack) + 1 : new[n + i] = written[n + i - n]
    BY <1>5, <2>1
  <2> QED
    BY <2>1, <2>2
<1>11. /\ e \in [m_Frames : Seq(Nat), m_Count : Nat, m_ReserveCount : Nat]
       /\ e.m_Frames = new /\ e.m_Count = n + Len(written) /\ e.m_ReserveCount = size
  <2>1. DOMAIN frames \cup (n + 1 .. n + Len(written)) = 1 .. size
    <3>1. PICK w \in Nat : w = n + Len(written) /\ w <= size
      BY <1>6
    <3>2. (1 .. size) \cup (n + 1 .. w) = 1 .. size
      BY <3>1
    <3> QED
      BY <1>3, <3>1, <3>2
  <2>2. e = [c EXCEPT !.m_Count = n + Len(written), !.m_Frames = new]
    BY <1>2, <1>3, <1>4, <1>5, <2>1 DEF Stored
  <2>3. c \in [m_Frames : Seq(Nat), m_Count : Nat, m_ReserveCount : Nat]
    BY <1>2 DEF IsStackData
  <2>4. PICK m \in Nat : m = n + Len(written)
    BY <1>6
  <2>5. e = [c EXCEPT !.m_Count = m, !.m_Frames = new]
    BY <2>2, <2>4
  <2> QED
    BY <1>3, <1>8, <2>3, <2>4, <2>5
<1>12. IsStackData(e)
  BY <1>3, <1>6, <1>8, <1>11 DEF IsStackData
<1>13. e.m_Frames = new /\ e.m_Count = n + Len(written)
  BY <1>11
<1>14. StoredAt(new, n + Len(written), n, stack)
  <2>1. \A i \in 1 .. Len(stack) : i \in 1 .. Len(stack) + 1
    BY <1>1
  <2>2. Len(stack) + 1 \in 1 .. Len(stack) + 1 /\ n + (Len(stack) + 1) = n + Len(stack) + 1
    BY <1>1
  <2>3. \A i \in 1 .. Len(stack) : new[n + i] = stack[i]
    BY <1>4, <1>10, <2>1
  <2>4. new[n + Len(stack) + 1] = 0
    BY <1>4, <1>10, <2>2
  <2>5. n + Len(stack) + 1 <= n + Len(written)
    BY <1>1, <1>4
  <2> QED
    BY <2>3, <2>4, <2>5 DEF StoredAt
<1> QED
  BY <1>2, <1>3, <1>6, <1>9, <1>12, <1>13, <1>14

\* The samples that GetRipNode counts together with s.
Alike(s) == {t \in Happened : t.rip = s.rip /\ t.stack = s.stack}

\* A stack that has a key lies at the key's offset, and every sample's has one.
StacksInv ==
  /\ \A s \in Stacks : StackKey(s) \in DOMAIN g_Stacks =>
       StoredAt(g_StackData.m_Frames, g_StackData.m_Count, g_Stacks[StackKey(s)].m_Offset, s)
  /\ \A s \in Happened : StackKey(s.stack) \in DOMAIN g_Stacks

\* There is a node for the samples, with their sum, and no other.
CountsInv ==
  /\ DOMAIN g_Stats = {<<s.rip, OffsetOf(s.stack)>> : s \in Happened}
  /\ \A s \in Happened : g_Stats[<<s.rip, OffsetOf(s.stack)>>] = Sum(recorded, Alike(s))

StoreInv ==
  /\ recorded \in [Samples -> Nat]
  /\ phase = "capture" => IsStackData(g_StackData) /\ StacksInv /\ CountsInv

LEMMA EmptyStore ==
  ASSUME NEW d, d = NoStackData
  PROVE  IsStackData(d)
<1>1. d.m_Frames = << >> /\ d.m_Count = 0 /\ d.m_ReserveCount = 0
  BY DEF NoStackData
<1>2. d \in [m_Frames : Seq(Nat), m_Count : Nat, m_ReserveCount : Nat]
  BY EmptySeq DEF NoStackData
<1>3. Len(<< >>) = 0
  BY EmptySeq
<1> QED
  BY <1>1, <1>2, <1>3 DEF IsStackData

\* What a stack that has a key is read back as.
LEMMA ReadBack ==
  ASSUME NEW d, IsStackData(d), NEW offset, NEW stack \in Stacks,
         StoredAt(d.m_Frames, d.m_Count, offset, stack)
  PROVE  StackAt(d.m_Frames, offset) = stack
<1>1. PICK frames \in Seq(Nat), count \in Nat : frames = d.m_Frames /\ count = d.m_Count /\ count <= Len(frames)
  BY DEF IsStackData
<1> QED
  BY <1>1, StoredIsReadBack

\* InsertStack finds the stack or puts it behind the others.
LEMMA InsertStackStep ==
  ASSUME IsStackData(g_StackData), StacksInv, NEW stack \in Stacks, InsertStack(stack)
  PROVE  /\ IsStackData(g_StackData')
         /\ \A s \in Stacks : StackKey(s) \in DOMAIN g_Stacks' =>
              StoredAt(g_StackData'.m_Frames, g_StackData'.m_Count, g_Stacks'[StackKey(s)].m_Offset, s)
         /\ StackKey(stack) \in DOMAIN g_Stacks'
         /\ g_Stacks'[StackKey(stack)].m_Offset = OffsetOf(stack)
         /\ \A s \in Stacks : StackKey(s) \in DOMAIN g_Stacks =>
              /\ StackKey(s) \in DOMAIN g_Stacks'
              /\ g_Stacks'[StackKey(s)].m_Offset = g_Stacks[StackKey(s)].m_Offset
<1>1. CASE StackKey(stack) \in DOMAIN g_Stacks
  BY <1>1 DEF InsertStack, OffsetOf, StacksInv
<1>2. CASE StackKey(stack) \notin DOMAIN g_Stacks
  <2>1. PICK d, e : d = g_StackData /\ e = g_StackData' /\ e = Stored(Reserve(d, Len(stack)), stack)
    BY <1>2 DEF InsertStack
  <2>2. /\ IsStackData(e)
        /\ e.m_Count = d.m_Count + Len(stack) + 1
        /\ \A i \in 1 .. d.m_Count : e.m_Frames[i] = d.m_Frames[i]
        /\ StoredAt(e.m_Frames, e.m_Count, d.m_Count, stack)
    BY <2>1, StoredStack
  <2>3. PICK new : new = [m_Offset |-> g_StackData.m_Count, m_Count |-> Len(stack)] /\ new.m_Offset = g_StackData.m_Count
    <3>1. PICK new : new = [m_Offset |-> g_StackData.m_Count, m_Count |-> Len(stack)]
      OBVIOUS
    <3>2. new.m_Offset = g_StackData.m_Count
      BY <3>1
    <3> QED
      BY <3>1, <3>2
  <2>4. g_Stacks' = Put(g_Stacks, StackKey(stack), new)
    BY <1>2, <2>3 DEF InsertStack
  <2>5. /\ DOMAIN g_Stacks' = DOMAIN g_Stacks \cup {StackKey(stack)}
        /\ g_Stacks'[StackKey(stack)] = new
        /\ \A x \in DOMAIN g_Stacks : g_Stacks'[x] = g_Stacks[x]
    BY <1>2, <2>4 DEF Put
  <2>6. OffsetOf(stack) = d.m_Count
    BY <1>2, <2>1 DEF OffsetOf
  <2>7. ASSUME NEW s \in Stacks, StackKey(s) \in DOMAIN g_Stacks'
        PROVE  StoredAt(e.m_Frames, e.m_Count, g_Stacks'[StackKey(s)].m_Offset, s)
    <3>1. CASE StackKey(s) \in DOMAIN g_Stacks
      <4>1. PICK offset : offset = g_Stacks[StackKey(s)].m_Offset /\ offset = g_Stacks'[StackKey(s)].m_Offset
        BY <2>5, <3>1
      <4>2. StoredAt(d.m_Frames, d.m_Count, offset, s)
        BY <2>1, <3>1, <4>1 DEF StacksInv
      <4>3. d.m_Count \in Nat /\ Len(stack) \in Nat /\ Len(s) \in Nat /\ offset \in Nat /\ offset + Len(s) + 1 <= d.m_Count
        BY <2>1, <4>2, StacksAssumption DEF IsStackData, StoredAt
      <4>4. offset + Len(s) + 1 <= e.m_Count
        BY <2>2, <4>3
      <4>5. \A i \in 1 .. Len(s) : offset + i \in 1 .. d.m_Count
        BY <4>3
      <4>6. offset + Len(s) + 1 \in 1 .. d.m_Count
        BY <4>3
      <4>7. /\ \A i \in 1 .. Len(s) : d.m_Frames[offset + i] = s[i]
            /\ d.m_Frames[offset + Len(s) + 1] = 0
        BY <4>2 DEF StoredAt
      <4>8. /\ \A i \in 1 .. Len(s) : e.m_Frames[offset + i] = s[i]
            /\ e.m_Frames[offset + Len(s) + 1] = 0
        BY <2>2, <4>5, <4>6, <4>7
      <4>9. StoredAt(e.m_Frames, e.m_Count, offset, s)
        BY <4>3, <4>4, <4>8 DEF StoredAt
      <4> QED
        BY <4>1, <4>9
    <3>2. CASE StackKey(s) \notin DOMAIN g_Stacks
      <4>1. StackKey(s) = StackKey(stack)
        BY <2>5, <2>7, <3>2
      <4>2. s \in Seq(Nat) /\ stack \in Seq(Nat)
        BY StacksAssumption
      <4>3. s = stack
        BY <4>1, <4>2, DifferentStacksDifferentKeys
      <4> QED
        BY <2>1, <2>2, <2>3, <2>5, <4>3
    <3> QED
      BY <3>1, <3>2
  <2> QED
    BY <1>2, <2>1, <2>2, <2>3, <2>5, <2>6, <2>7
<1> QED
  BY <1>1, <1>2

LEMMA RecordStep ==
  ASSUME StoreInv, phase = "capture", NEW s \in Samples, Record(s)
  PROVE  StoreInv'
<1>1. s.stack \in Stacks /\ \A t \in Samples : t.stack \in Stacks
  BY SamplesAssumption
<1>2. IsStackData(g_StackData) /\ StacksInv /\ CountsInv /\ recorded \in [Samples -> Nat]
  BY DEF StoreInv
<1>3. PICK o : o = OffsetOf(s.stack)
  OBVIOUS
<1>4. /\ InsertStack(s.stack) /\ GetRipNode(s.rip, o, s.counts)
      /\ recorded' = [recorded EXCEPT ![s] = @ + 1] /\ phase' = phase
  BY <1>3 DEF Record
<1>5. /\ IsStackData(g_StackData')
      /\ \A t \in Stacks : StackKey(t) \in DOMAIN g_Stacks' =>
           StoredAt(g_StackData'.m_Frames, g_StackData'.m_Count, g_Stacks'[StackKey(t)].m_Offset, t)
      /\ StackKey(s.stack) \in DOMAIN g_Stacks'
      /\ g_Stacks'[StackKey(s.stack)].m_Offset = o
      /\ \A t \in Stacks : StackKey(t) \in DOMAIN g_Stacks =>
           /\ StackKey(t) \in DOMAIN g_Stacks'
           /\ g_Stacks'[StackKey(t)].m_Offset = g_Stacks[StackKey(t)].m_Offset
  BY <1>1, <1>2, <1>3, <1>4, InsertStackStep
<1>6. recorded' \in [Samples -> Nat] /\ recorded'[s] > 0 /\ \A t \in Samples \ {s} : recorded'[t] = recorded[t]
  BY <1>2, <1>4
<1>7. /\ Happened' = Happened \cup {s} /\ Happened \subseteq Samples /\ Happened' \subseteq Samples
      /\ s \in Happened \/ recorded[s] = 0
  BY <1>2, <1>6 DEF Happened
<1>8. \A t \in Happened' : StackKey(t.stack) \in DOMAIN g_Stacks'
  BY <1>1, <1>2, <1>5, <1>7 DEF StacksInv
<1>9. StacksInv'
  BY <1>5, <1>8 DEF StacksInv
<1>10. \A t \in Happened : OffsetOf(t.stack)' = OffsetOf(t.stack)
  BY <1>1, <1>2, <1>5, <1>7 DEF StacksInv, OffsetOf
<1>11. OffsetOf(s.stack)' = o
  BY <1>5 DEF OffsetOf
<1>12. \A t \in Happened' : OffsetOf(t.stack)' = o => t.stack = s.stack
  <2> TAKE t \in Happened'
  <2>1. PICK d : d = g_StackData' /\ IsStackData(d)
    BY <1>5
  <2>2. OffsetOf(t.stack)' = g_Stacks'[StackKey(t.stack)].m_Offset
    BY <1>8 DEF OffsetOf
  <2>3. /\ StoredAt(d.m_Frames, d.m_Count, g_Stacks'[StackKey(t.stack)].m_Offset, t.stack)
        /\ StoredAt(d.m_Frames, d.m_Count, o, s.stack)
        /\ t.stack \in Stacks
    BY <1>1, <1>5, <1>7, <1>8, <2>1
  <2>4. StackAt(d.m_Frames, o) = s.stack
    BY <1>1, <2>1, <2>3, ReadBack
  <2>5. StackAt(d.m_Frames, OffsetOf(t.stack)') = t.stack
    BY <2>1, <2>2, <2>3, ReadBack
  <2> QED
    BY <2>4, <2>5
<1>13. PICK key, old : /\ key = <<s.rip, o>> /\ old = (IF key \in DOMAIN g_Stats THEN g_Stats[key] ELSE NoCounts)
                       /\ g_Stats' = Put(g_Stats, key, Plus(old, s.counts))
  BY <1>4 DEF GetRipNode
<1>14. /\ DOMAIN g_Stats' = DOMAIN g_Stats \cup {key}
       /\ g_Stats'[key] = Plus(old, s.counts)
       /\ \A x \in DOMAIN g_Stats : x # key => g_Stats'[x] = g_Stats[x]
  BY <1>13 DEF Put
<1>15. DOMAIN g_Stats' = {<<t.rip, OffsetOf(t.stack)'>> : t \in Happened'}
  <2>1. \A x : x \in {<<t.rip, OffsetOf(t.stack)'>> : t \in Happened'}
                 <=> x \in {<<t.rip, OffsetOf(t.stack)>> : t \in Happened} \/ x = key
    BY <1>7, <1>10, <1>11, <1>13
  <2> QED
    BY <1>2, <1>14, <2>1 DEF CountsInv
<1>16. Alike(s) \in SUBSET Samples /\ (s \in Alike(s) \/ recorded[s] = 0)
  BY <1>7 DEF Alike
<1>17. old = Sum(recorded, Alike(s))
  <2>1. CASE key \in DOMAIN g_Stats
    <3>1. PICK u \in Happened : key = <<u.rip, OffsetOf(u.stack)>>
      BY <1>2, <2>1 DEF CountsInv
    <3>2. u.rip = s.rip /\ OffsetOf(u.stack)' = o /\ u \in Happened'
      BY <1>7, <1>10, <1>13, <3>1
    <3>3. u.stack = s.stack
      BY <1>12, <3>2
    <3>4. Alike(u) = Alike(s)
      BY <3>2, <3>3 DEF Alike
    <3>5. g_Stats[key] = Sum(recorded, Alike(u))
      BY <1>2, <3>1 DEF CountsInv
    <3> QED
      BY <1>13, <2>1, <3>4, <3>5
  <2>2. CASE key \notin DOMAIN g_Stats
    <3>1. Alike(s) = {}
      <4> SUFFICES ASSUME NEW u \in Alike(s)
                   PROVE  FALSE
        OBVIOUS
      <4>1. u \in Happened /\ u.rip = s.rip /\ u.stack = s.stack
        BY DEF Alike
      <4>2. <<u.rip, OffsetOf(u.stack)>> \in DOMAIN g_Stats
        BY <1>2, <4>1 DEF CountsInv
      <4>3. <<u.rip, OffsetOf(u.stack)>> = key
        BY <1>3, <1>13, <4>1
      <4> QED
        BY <2>2, <4>2, <4>3
    <3>2. Sum(recorded, {}) = NoCounts
      BY FS_EmptySet, SumUnfold
    <3> QED
      BY <1>13, <2>2, <3>1, <3>2
  <2> QED
    BY <2>1, <2>2
<1>18. ASSUME NEW t \in Happened'
       PROVE  g_Stats'[<<t.rip, OffsetOf(t.stack)'>>] = Sum(recorded', Alike(t)')
  <2>1. CASE t.rip = s.rip /\ t.stack = s.stack
    <3>1. Alike(t)' = Alike(s) \cup {s}
      BY <1>7, <2>1 DEF Alike
    <3>2. PICK q : q = recorded' /\ q = [recorded EXCEPT ![s] = @ + 1]
      BY <1>4
    <3>3. Sum(q, Alike(s) \cup {s}) = Plus(Sum(recorded, Alike(s)), s.counts)
      BY <1>2, <1>16, <3>2, OneMore
    <3>4. OffsetOf(t.stack)' = o
      BY <1>11, <2>1
    <3> QED
      BY <1>13, <1>14, <1>17, <2>1, <3>1, <3>2, <3>3, <3>4
  <2>2. CASE ~(t.rip = s.rip /\ t.stack = s.stack)
    <3>1. t \in Happened /\ OffsetOf(t.stack)' = OffsetOf(t.stack)
      BY <1>7, <1>10, <2>2
    <3>2. <<t.rip, OffsetOf(t.stack)>> # key
      BY <1>12, <1>13, <2>2, <3>1
    <3>3. <<t.rip, OffsetOf(t.stack)>> \in DOMAIN g_Stats
      BY <1>2, <3>1 DEF CountsInv
    <3>4. g_Stats'[<<t.rip, OffsetOf(t.stack)>>] = Sum(recorded, Alike(t))
      BY <1>2, <1>14, <3>1, <3>2, <3>3 DEF CountsInv
    <3>5. Alike(t)' = Alike(t) /\ s \notin Alike(t) /\ Alike(t) \subseteq Samples
      BY <1>7, <2>2 DEF Alike
    <3>6. PICK q, r, C : q = recorded' /\ r = recorded /\ C = Alike(t) /\ IsFiniteSet(C) /\ \A u \in C : r[u] = q[u]
      BY <1>6, <3>5, SamplesAssumption, FS_Subset
    <3>7. (\A u \in C : r[u] = q[u]) => Sum(r, C) = Sum(q, C)
      BY <3>6, SumCongruence
    <3> QED
      BY <3>1, <3>4, <3>5, <3>6, <3>7
  <2> QED
    BY <2>1, <2>2
<1>19. CountsInv'
  BY <1>15, <1>18 DEF CountsInv
<1> QED
  BY <1>5, <1>6, <1>9, <1>19 DEF StoreInv

\* The store is empty and nothing was counted: before the first capture, and
\* after one whose file could not be opened.
LEMMA FreedStore ==
  ASSUME FreeAll, recorded' = [s \in Samples |-> 0]
  PROVE  StoreInv'
<1>1. Happened' = {}
  BY DEF Happened
<1>2. recorded' \in [Samples -> Nat]
  OBVIOUS
<1>3. IsStackData(g_StackData')
  BY EmptyStore DEF FreeAll
<1>4. StacksInv'
  <2>1. DOMAIN g_Stacks' = {}
    BY DEF FreeAll
  <2> QED
    BY <1>1, <2>1 DEF StacksInv
<1>5. CountsInv'
  <2>1. DOMAIN g_Stats' = {}
    BY DEF FreeAll
  <2> QED
    BY <1>1, <2>1 DEF CountsInv
<1> QED
  BY <1>2, <1>3, <1>4, <1>5 DEF StoreInv

LEMMA StoreInit_StoreInv == Init => StoreInv
<1> SUFFICES ASSUME Init PROVE StoreInv
  OBVIOUS
<1>1. recorded = [s \in Samples |-> 0] /\ g_Stacks = << >> /\ g_StackData = NoStackData /\ g_Stats = << >>
  BY DEF Init, StoreInit
<1>2. Happened = {}
  BY <1>1 DEF Happened
<1>3. recorded \in [Samples -> Nat]
  BY <1>1
<1>4. IsStackData(g_StackData)
  BY <1>1, EmptyStore
<1>5. DOMAIN g_Stacks = {} /\ DOMAIN g_Stats = {}
  BY <1>1
<1>6. StacksInv /\ CountsInv
  BY <1>2, <1>5 DEF StacksInv, CountsInv
<1> QED
  BY <1>3, <1>4, <1>6 DEF StoreInv

\* Nothing but a sample changes the store of a capture that goes on.
LEMMA StoreInvUnchanged ==
  ASSUME StoreInv, UNCHANGED <<storeVars, recorded>>, phase' = "capture" => phase = "capture"
  PROVE  StoreInv'
<1>1. /\ g_Stacks' = g_Stacks /\ g_StackData' = g_StackData /\ g_Stats' = g_Stats /\ recorded' = recorded
  BY DEF storeVars
<1>2. Happened' = Happened /\ \A s : Alike(s)' = Alike(s)
  BY <1>1 DEF Happened, Alike
<1>3. \A frames : OffsetOf(frames)' = OffsetOf(frames)
  BY <1>1 DEF OffsetOf
<1>4. StacksInv => StacksInv'
  BY <1>1, <1>2 DEF StacksInv
<1>5. CountsInv => CountsInv'
  BY <1>1, <1>2, <1>3 DEF CountsInv
<1> QED
  BY <1>1, <1>4, <1>5 DEF StoreInv

LEMMA StoreInvStep == StoreInv /\ [Next]_vars => StoreInv'
<1> SUFFICES ASSUME StoreInv, [Next]_vars PROVE StoreInv'
  OBVIOUS
<1>1. ASSUME NEW s \in Samples, Record(s) PROVE StoreInv'
  BY <1>1, RecordStep DEF Record
<1>2. ASSUME NEW list \in LoadedLists[platform], NEW order \in Orders(g_Stats), EndCapture(list, order)
      PROVE  StoreInv'
  <2>1. phase' # "capture" /\ recorded' = recorded
    BY <1>2 DEF EndCapture
  <2> QED
    BY <2>1 DEF StoreInv
<1>3. CASE EndCaptureFails
  BY <1>3, FreedStore DEF EndCaptureFails
<1>4. CASE LoadTrace
  BY <1>4, StoreInvUnchanged DEF LoadTrace, fileVars
<1>5. CASE CloseTrace
  BY <1>5, StoreInvUnchanged DEF CloseTrace, fileVars
<1>6. ASSUME NEW known \in Infos, NEW junk \in JunkLines, Resolve(known, junk) PROVE StoreInv'
  BY <1>6, StoreInvUnchanged DEF Resolve, symbolsResolved, fileVars
<1>7. CASE ResolveFails
  BY <1>7, StoreInvUnchanged DEF ResolveFails, symbolsResolved, fileVars
<1>8. ASSUME NEW known \in Infos, NEW junk \in JunkLines, KilledWhileResolving(known, junk) PROVE StoreInv'
  BY <1>8, StoreInvUnchanged DEF KilledWhileResolving, fileVars
<1>9. CASE OpenFlatProfile
  BY <1>9, StoreInvUnchanged DEF OpenFlatProfile, fileVars
<1>10. CASE CloseFlatProfile
  BY <1>10, StoreInvUnchanged DEF CloseFlatProfile, fileVars
<1>11. ASSUME NEW root \in Selectable \cup {NoRoot}, OpenTree(root) PROVE StoreInv'
  BY <1>11, StoreInvUnchanged DEF OpenTree, fileVars
<1>12. CASE CloseTree
  BY <1>12, StoreInvUnchanged DEF CloseTree, fileVars
<1>13. ASSUME NEW symbol \in Selectable, OpenAnnotation(symbol) PROVE StoreInv'
  BY <1>13, StoreInvUnchanged DEF OpenAnnotation, fileVars
<1>14. CASE CloseAnnotation
  BY <1>14, StoreInvUnchanged DEF CloseAnnotation, fileVars
<1>15. CASE UNCHANGED vars
  BY <1>15, StoreInvUnchanged DEF vars, fileVars
<1> QED
  BY <1>1, <1>2, <1>3, <1>4, <1>5, <1>6, <1>7, <1>8, <1>9, <1>10, <1>11, <1>12, <1>13, <1>14, <1>15 DEF Next

LEMMA StoreInvReadsBack == StoreInv => StoredStacksReadBack
<1> SUFFICES ASSUME StoreInv, phase = "capture" PROVE StoredStacksReadBack
  BY DEF StoredStacksReadBack
<1>1. IsStackData(g_StackData) /\ StacksInv /\ CountsInv
  BY DEF StoreInv
<1>2. /\ DOMAIN g_StackData.m_Frames = 1 .. g_StackData.m_ReserveCount
      /\ g_StackData.m_Count <= g_StackData.m_ReserveCount
  BY <1>1, LenProperties DEF IsStackData
<1>3. \A s \in Happened : /\ s \in Samples /\ s.stack \in Stacks /\ s.stack \in Seq(Nat)
                          /\ StackKey(s.stack) \in DOMAIN g_Stacks
                          /\ OffsetOf(s.stack) = g_Stacks[StackKey(s.stack)].m_Offset
  BY <1>1, SamplesAssumption, StacksAssumption DEF Happened, StacksInv, OffsetOf
<1>4. ASSUME NEW s \in Happened
      PROVE  /\ StackKey(s.stack) = DigestOf(s.stack)
             /\ StackAt(g_StackData.m_Frames, OffsetOf(s.stack)) = s.stack
             /\ g_Stats[<<s.rip, OffsetOf(s.stack)>>] = SumOf({t \in Happened : t.rip = s.rip /\ t.stack = s.stack})
  <2>1. StackKey(s.stack) = DigestOf(s.stack)
    BY <1>3, StackKeyIsDigest
  <2>2. StoredAt(g_StackData.m_Frames, g_StackData.m_Count, OffsetOf(s.stack), s.stack)
    BY <1>1, <1>3 DEF StacksInv
  <2>3. PICK d, offset : d = g_StackData /\ offset = OffsetOf(s.stack)
    OBVIOUS
  <2>4. StackAt(d.m_Frames, offset) = s.stack
    BY <1>1, <1>3, <2>2, <2>3, ReadBack
  <2>5. g_Stats[<<s.rip, OffsetOf(s.stack)>>] = Sum(recorded, Alike(s))
    BY <1>1 DEF CountsInv
  <2>6. SumOf({t \in Happened : t.rip = s.rip /\ t.stack = s.stack}) = Sum(recorded, Alike(s))
    BY SumOfIsSum DEF Alike
  <2> QED
    BY <2>1, <2>3, <2>4, <2>5, <2>6
<1>5. Cardinality(DOMAIN g_Stats) = Cardinality({<<s.rip, s.stack>> : s \in Happened})
  <2> DEFINE A == {<<s.rip, s.stack>> : s \in Happened}
             B == {<<s.rip, OffsetOf(s.stack)>> : s \in Happened}
             f == [a \in A |-> <<a[1], OffsetOf(a[2])>>]
  <2>1. IsFiniteSet(A)
    <3> DEFINE g == [s \in Happened |-> <<s.rip, s.stack>>]
    <3>1. IsFiniteSet(Happened)
      BY SamplesAssumption, FS_Subset DEF Happened
    <3>2. g \in Surjection(Happened, A)
      BY DEF Surjection
    <3> QED
      BY <3>1, <3>2, FS_Surjection
  <2>2. f \in [A -> B]
    OBVIOUS
  <2>3. \A b \in B : \E a \in A : f[a] = b
    <3> SUFFICES ASSUME NEW s \in Happened
                 PROVE  \E a \in A : f[a] = <<s.rip, OffsetOf(s.stack)>>
      OBVIOUS
    <3>1. PICK a : a = <<s.rip, s.stack>>
      OBVIOUS
    <3>2. a \in A
      BY <3>1
    <3>3. f[a] = <<s.rip, OffsetOf(s.stack)>>
      BY <3>1, <3>2
    <3> QED
      BY <3>2, <3>3
  <2>4. \A a, b \in A : f[a] = f[b] => a = b
    <3> SUFFICES ASSUME NEW s \in Happened, NEW t \in Happened,
                        f[<<s.rip, s.stack>>] = f[<<t.rip, t.stack>>]
                 PROVE  <<s.rip, s.stack>> = <<t.rip, t.stack>>
      BY ZenonT(40)
    <3>1. s.rip = t.rip /\ OffsetOf(s.stack) = OffsetOf(t.stack)
      <4>1. \A u \in Happened : <<u.rip, u.stack>> \in A
        OBVIOUS
      <4>2. \A u \in Happened : f[<<u.rip, u.stack>>] = <<u.rip, OffsetOf(u.stack)>>
        BY <4>1
      <4>3. <<s.rip, OffsetOf(s.stack)>> = <<t.rip, OffsetOf(t.stack)>>
        BY <4>2
      <4> QED
        BY <4>3
    <3>2. s.stack = t.stack
      BY <1>4, <3>1
    <3> QED
      BY <3>1, <3>2
  <2>5. f \in Bijection(A, B)
    <3> HIDE DEF A, B, f
    <3>1. f \in Injection(A, B)
      BY <2>2, <2>4 DEF Injection, IsInjective
    <3>2. f \in Surjection(A, B)
      BY <2>2, <2>3 DEF Surjection
    <3> QED
      BY <3>1, <3>2 DEF Bijection
  <2>6. Cardinality(B) = Cardinality(A)
    BY <2>1, <2>5, FS_Bijection DEF ExistsBijection
  <2>7. DOMAIN g_Stats = B
    BY <1>1 DEF CountsInv
  <2> QED
    BY <2>6, <2>7
<1> QED
  BY <1>2, <1>4, <1>5 DEF StoredStacksReadBack

\* InsertStack and GetRipNode, through every interleaving of captures and views:
\* the array is never written past its end, every stack that was sampled is
\* found at its offset, and its counters are those of its samples.
THEOREM StoredStacksReadBackAlways == Spec => []StoredStacksReadBack
<1>1. Spec => []StoreInv
  BY StoreInit_StoreInv, StoreInvStep, PTL DEF Spec
<1> QED
  BY <1>1, StoreInvReadsBack, PTL
-----------------------------------------------------------------------------
(* The trace file                                                          *)

\* The sums of the first sizes.
SumsUpTo(sizes, n, g) == g = [i \in 0 .. n |-> IF i = 0 THEN 0 ELSE g[i - 1] + sizes[i]]

LEMMA SumsExist ==
  ASSUME NEW sizes \in Seq(Nat), NEW n \in Nat, n <= Len(sizes)
  PROVE  \E g : SumsUpTo(sizes, n, g)
<1> DEFINE P == {m \in Nat : m <= Len(sizes) => \E g : SumsUpTo(sizes, m, g)}
<1>1. 0 \in P
  <2>1. SumsUpTo(sizes, 0, [i \in 0 .. 0 |-> 0])
    BY DEF SumsUpTo
  <2> QED
    BY <2>1
<1>2. ASSUME NEW m \in Nat, m \in P
      PROVE  m + 1 \in P
  <2> SUFFICES ASSUME m + 1 <= Len(sizes) PROVE \E g : SumsUpTo(sizes, m + 1, g)
    OBVIOUS
  <2>1. PICK g : SumsUpTo(sizes, m, g)
    BY <1>2
  <2> DEFINE h == [i \in 0 .. m + 1 |-> IF i = m + 1 THEN g[m] + sizes[m + 1] ELSE g[i]]
  <2>2. g = [i \in 0 .. m |-> IF i = 0 THEN 0 ELSE g[i - 1] + sizes[i]]
    BY <2>1 DEF SumsUpTo
  <2>3. ASSUME NEW i \in 0 .. m + 1
        PROVE  h[i] = IF i = 0 THEN 0 ELSE h[i - 1] + sizes[i]
    <3>1. CASE i = m + 1
      BY <3>1
    <3>2. CASE i # m + 1
      <4>1. i \in 0 .. m /\ (i # 0 => i - 1 \in 0 .. m /\ i - 1 # m + 1 /\ i - 1 \in 0 .. m + 1)
        BY <3>2
      <4>2. g[i] = IF i = 0 THEN 0 ELSE g[i - 1] + sizes[i]
        BY <2>2, <4>1
      <4> QED
        BY <3>2, <4>1, <4>2
    <3> QED
      BY <3>1, <3>2
  <2>4. SumsUpTo(sizes, m + 1, h)
    <3>1. h = [i \in 0 .. m + 1 |-> h[i]]
      OBVIOUS
    <3> HIDE DEF h
    <3> QED
      BY <2>3, <3>1, ZenonT(30) DEF SumsUpTo
  <2> QED
    BY <2>4
<1> HIDE DEF P
<1>3. \A m \in Nat : m \in P
  BY <1>1, <1>2, Induction
<1> QED
  BY <1>3 DEF P

LEMMA OffsetsAreSums ==
  ASSUME NEW sizes \in Seq(Nat)
  PROVE  /\ DOMAIN Offsets(sizes) = 1 .. Len(sizes) + 1
         /\ Offsets(sizes)[1] = 0
         /\ \A i \in 1 .. Len(sizes) : Offsets(sizes)[i + 1] = Offsets(sizes)[i] + sizes[i]
<1> DEFINE n == Len(sizes)
           g == CHOOSE g : SumsUpTo(sizes, n, g)
<1>1. n \in Nat /\ n <= Len(sizes)
  OBVIOUS
<1>2. \E h : SumsUpTo(sizes, n, h)
  BY <1>1, SumsExist
<1>3. SumsUpTo(sizes, n, g)
  <2> HIDE DEF n
  <2> QED
    BY <1>2
<1>4. Offsets(sizes) = [i \in 1 .. Len(sizes) + 1 |-> g[i - 1]]
  BY DEF Offsets, SumsUpTo
<1> HIDE DEF g
<1>5. \A i \in 0 .. n : g[i] = IF i = 0 THEN 0 ELSE g[i - 1] + sizes[i]
  BY <1>3 DEF SumsUpTo
<1>6. g[0] = 0 /\ \A i \in 1 .. n : g[i] = g[i - 1] + sizes[i]
  BY <1>1, <1>5
<1> QED
  BY <1>1, <1>4, <1>6

LEMMA OffsetsType ==
  ASSUME NEW sizes \in Seq(Nat)
  PROVE  \A i \in 1 .. Len(sizes) + 1 : Offsets(sizes)[i] \in Nat
<1> DEFINE P == {m \in Nat : m <= Len(sizes) => Offsets(sizes)[m + 1] \in Nat}
<1>1. 0 \in P
  BY OffsetsAreSums
<1>2. ASSUME NEW m \in Nat, m \in P PROVE m + 1 \in P
  <2> SUFFICES ASSUME m + 1 <= Len(sizes) PROVE Offsets(sizes)[(m + 1) + 1] \in Nat
    OBVIOUS
  <2>1. m + 1 \in 1 .. Len(sizes) /\ sizes[m + 1] \in Nat
    OBVIOUS
  <2>2. Offsets(sizes)[(m + 1) + 1] = Offsets(sizes)[m + 1] + sizes[m + 1]
    BY <2>1, OffsetsAreSums
  <2> QED
    BY <1>2, <2>1, <2>2
<1> HIDE DEF P
<1>3. \A m \in Nat : m \in P
  BY <1>1, <1>2, Induction
<1> SUFFICES ASSUME NEW i \in 1 .. Len(sizes) + 1 PROVE Offsets(sizes)[i] \in Nat
  OBVIOUS
<1>4. i - 1 \in P /\ i - 1 <= Len(sizes) /\ (i - 1) + 1 = i
  BY <1>3
<1> QED
  BY <1>4 DEF P

\* What is written later starts after what was written before.
LEMMA OffsetsGrow ==
  ASSUME NEW sizes \in Seq(Nat), NEW i \in 1 .. Len(sizes), NEW j \in 1 .. Len(sizes) + 1, i < j
  PROVE  Offsets(sizes)[i] + sizes[i] <= Offsets(sizes)[j]
<1> DEFINE P == {m \in Nat : i + 1 + m <= Len(sizes) + 1 =>
                               Offsets(sizes)[i] + sizes[i] <= Offsets(sizes)[i + 1 + m]}
<1>1. 0 \in P
  <2>1. Offsets(sizes)[i + 1] = Offsets(sizes)[i] + sizes[i]
    BY OffsetsAreSums
  <2>2. Offsets(sizes)[i] \in Nat /\ sizes[i] \in Nat
    BY OffsetsType
  <2> QED
    BY <2>1, <2>2
<1>2. ASSUME NEW m \in Nat, m \in P PROVE m + 1 \in P
  <2> SUFFICES ASSUME i + 1 + (m + 1) <= Len(sizes) + 1
               PROVE  Offsets(sizes)[i] + sizes[i] <= Offsets(sizes)[i + 1 + (m + 1)]
    OBVIOUS
  <2>1. PICK k \in 1 .. Len(sizes) : k = i + 1 + m /\ i + 1 + (m + 1) = k + 1
    OBVIOUS
  <2>2. Offsets(sizes)[k + 1] = Offsets(sizes)[k] + sizes[k]
    BY OffsetsAreSums
  <2>3. Offsets(sizes)[k] \in Nat /\ sizes[k] \in Nat /\ Offsets(sizes)[i] \in Nat /\ sizes[i] \in Nat
    BY OffsetsType
  <2>4. Offsets(sizes)[i] + sizes[i] <= Offsets(sizes)[k]
    BY <1>2, <2>1
  <2> QED
    BY <2>1, <2>2, <2>3, <2>4
<1> HIDE DEF P
<1>3. \A m \in Nat : m \in P
  BY <1>1, <1>2, Induction
<1>4. PICK m \in Nat : j = i + 1 + m
  <2>1. j - (i + 1) \in Nat /\ j = i + 1 + (j - (i + 1))
    OBVIOUS
  <2> QED
    BY <2>1
<1>5. m \in P /\ i + 1 + m <= Len(sizes) + 1
  BY <1>3, <1>4
<1> QED
  BY <1>4, <1>5 DEF P

\* Values of one size are that size apart.
LEMMA OffsetsOfEqualSizes ==
  ASSUME NEW n \in Nat, NEW c \in Nat
  PROVE  \A i \in 1 .. n + 1 : Offsets([k \in 1 .. n |-> c])[i] = (i - 1) * c
<1> DEFINE sizes == [k \in 1 .. n |-> c]
           P == {m \in Nat : m <= n => Offsets(sizes)[m + 1] = m * c}
<1>1. sizes \in Seq(Nat) /\ Len(sizes) = n /\ \A k \in 1 .. n : sizes[k] = c
  OBVIOUS
<1> HIDE DEF sizes
<1>2. 0 \in P
  BY <1>1, OffsetsAreSums
<1>3. ASSUME NEW m \in Nat, m \in P PROVE m + 1 \in P
  <2> SUFFICES ASSUME m + 1 <= n PROVE Offsets(sizes)[(m + 1) + 1] = (m + 1) * c
    OBVIOUS
  <2>1. m + 1 \in 1 .. n
    OBVIOUS
  <2>2. Offsets(sizes)[(m + 1) + 1] = Offsets(sizes)[m + 1] + c
    BY <1>1, <2>1, OffsetsAreSums
  <2>3. PICK u \in Nat : u = m * c
    OBVIOUS
  <2>4. (m + 1) * c = u + c
    BY <2>3
  <2> QED
    BY <1>3, <2>2, <2>3, <2>4
<1> HIDE DEF P
<1>4. \A m \in Nat : m \in P
  BY <1>2, <1>3, Induction
<1> SUFFICES ASSUME NEW i \in 1 .. n + 1 PROVE Offsets(sizes)[i] = (i - 1) * c
  BY DEF sizes
<1>5. i - 1 \in P /\ i - 1 <= n /\ (i - 1) + 1 = i
  BY <1>4
<1> QED
  BY <1>5 DEF P

HeaderWords == [m_ModuleOffset : Int, m_ModuleCount : Int, m_ModuleStringOffset : Int,
                m_FrameOffset : Int, m_FrameCount : Int, m_StatsOffset : Int, m_StatsCount : Int,
                m_SymbolOffset : Int, m_SymbolCount : Int, m_SymbolTextOffset : Int]

\* Whatever is in the cells of a file, nothing is beyond its end.
IsTraceFile(f) ==
  /\ f \in [size : Nat, cell : {f.cell}, header : HeaderWords]
  /\ DOMAIN f.cell \in SUBSET Nat
  /\ \A o \in DOMAIN f.cell : o < f.size

\* g is f with more at its end.
Extends(f, g) ==
  /\ IsTraceFile(f) /\ IsTraceFile(g) /\ f.size <= g.size
  /\ \A o \in DOMAIN f.cell : o \in DOMAIN g.cell /\ g.cell[o] = f.cell[o]

\* The i-th of the values is at byte at[i] after byte start.
HasAt(f, start, values, at) ==
  \A i \in DOMAIN values : start + at[i] \in DOMAIN f.cell /\ f.cell[start + at[i]] = values[i]

\* A table of values of one size.
EachAt(f, o, values, c) ==
  \A i \in DOMAIN values : o + (i - 1) * c \in DOMAIN f.cell /\ f.cell[o + (i - 1) * c] = values[i]

LEMMA ExtendsIsTransitive ==
  ASSUME NEW f, NEW g, NEW h, Extends(f, g), Extends(g, h)
  PROVE  Extends(f, h)
BY DEF Extends, IsTraceFile

LEMMA StillHasAt ==
  ASSUME NEW f, NEW g, Extends(f, g), NEW start, NEW values, NEW at, HasAt(f, start, values, at)
  PROVE  HasAt(g, start, values, at)
BY DEF Extends, HasAt

LEMMA Written ==
  ASSUME NEW f, IsTraceFile(f), NEW S, NEW values \in Seq(S), NEW sizes \in Seq(Nat \ {0}),
         Len(values) = Len(sizes)
  PROVE  /\ Extends(f, Write(f, values, sizes))
         /\ Write(f, values, sizes).header = f.header
         /\ Write(f, values, sizes).size = f.size + Offsets(sizes)[Len(sizes) + 1]
         /\ HasAt(Write(f, values, sizes), f.size, values, Offsets(sizes))
<1> DEFINE n == Len(sizes)
           off == Offsets(sizes)
           at == [i \in 1 .. n + 1 |-> f.size + off[i]]
           new == {at[i] : i \in DOMAIN values}
           cell == [o \in DOMAIN f.cell \cup new |->
                      IF o \in new THEN values[CHOOSE i \in DOMAIN values : at[i] = o] ELSE f.cell[o]]
           g == Write(f, values, sizes)
<1>1. sizes \in Seq(Nat) /\ n \in Nat /\ DOMAIN values = 1 .. n
  OBVIOUS
<1>2. g = [f EXCEPT !.size = at[n + 1], !.cell = cell]
  BY DEF Write
<1>3. \A i \in 1 .. n + 1 : off[i] \in Nat
  BY <1>1, OffsetsType
<1>4. \A i \in 1 .. n + 1 : at[i] \in Nat /\ at[i] = f.size + off[i] /\ at[i] >= f.size
  BY <1>1, <1>3 DEF IsTraceFile
<1>5. \A i \in 1 .. n : at[i] < at[n + 1]
  <2> SUFFICES ASSUME NEW i \in 1 .. n PROVE at[i] < at[n + 1]
    OBVIOUS
  <2>1. off[i] + sizes[i] <= off[n + 1]
    BY <1>1, OffsetsGrow
  <2>2. sizes[i] \in Nat /\ sizes[i] > 0 /\ off[i] \in Nat /\ off[n + 1] \in Nat
    BY <1>1, <1>3
  <2>3. off[i] < off[n + 1]
    BY <2>1, <2>2
  <2>4. at[i] = f.size + off[i] /\ at[n + 1] = f.size + off[n + 1] /\ f.size \in Nat
    BY <1>1 DEF IsTraceFile
  <2> QED
    BY <2>2, <2>3, <2>4
<1>6. \A i, j \in 1 .. n : i < j => at[i] < at[j]
  <2> SUFFICES ASSUME NEW i \in 1 .. n, NEW j \in 1 .. n, i < j PROVE at[i] < at[j]
    OBVIOUS
  <2>1. off[i] + sizes[i] <= off[j]
    BY <1>1, OffsetsGrow
  <2>2. sizes[i] \in Nat /\ sizes[i] > 0 /\ off[i] \in Nat /\ off[j] \in Nat
    BY <1>1, <1>3
  <2>3. off[i] < off[j]
    BY <2>1, <2>2
  <2>4. at[i] = f.size + off[i] /\ at[j] = f.size + off[j] /\ f.size \in Nat
    BY <1>1 DEF IsTraceFile
  <2> QED
    BY <2>2, <2>3, <2>4
<1>7. \A i, j \in 1 .. n : at[i] = at[j] => i = j
  <2> SUFFICES ASSUME NEW i \in 1 .. n, NEW j \in 1 .. n, i # j PROVE at[i] # at[j]
    OBVIOUS
  <2>1. at[i] \in Nat /\ at[j] \in Nat
    BY <1>4
  <2>2. at[i] < at[j] \/ at[j] < at[i]
    <3> HIDE DEF at
    <3> QED
      BY <1>1, <1>6
  <2> HIDE DEF at
  <2> QED
    BY <2>1, <2>2
<1>8. f.size \in Nat /\ f.header \in HeaderWords /\ DOMAIN f.cell \in SUBSET Nat /\ \A o \in DOMAIN f.cell : o < f.size
  BY DEF IsTraceFile
<1>9. g.size = at[n + 1] /\ g.cell = cell /\ g.header = f.header
  <2> HIDE DEF at, cell, g
  <2> QED
    BY <1>2 DEF IsTraceFile
<1>10. new \in SUBSET Nat /\ \A o \in new : o >= f.size /\ o < at[n + 1]
  <2> SUFFICES ASSUME NEW i \in 1 .. n PROVE at[i] \in Nat /\ at[i] >= f.size /\ at[i] < at[n + 1]
    BY <1>1
  <2> HIDE DEF at
  <2> QED
    BY <1>1, <1>4, <1>5
<1>11. at[n + 1] \in Nat /\ at[n + 1] >= f.size
  BY <1>1, <1>4
<1>12. DOMAIN cell = DOMAIN f.cell \cup new
  OBVIOUS
<1>13. IsTraceFile(g)
  <2>1. g \in [size : Nat, cell : {g.cell}, header : HeaderWords]
    <3>1. g \in [size : Nat, cell : {cell}, header : HeaderWords]
      <4> HIDE DEF at, cell, g
      <4> QED
        BY <1>2, <1>8, <1>11 DEF IsTraceFile
    <3> HIDE DEF cell, g
    <3> QED
      BY <1>9, <3>1
  <2>2. DOMAIN g.cell = DOMAIN f.cell \cup new
    BY <1>9, <1>12
  <2>3. DOMAIN g.cell \in SUBSET Nat
    <3> HIDE DEF g, new
    <3> QED
      BY <1>8, <1>10, <2>2
  <2>4. ASSUME NEW o \in DOMAIN g.cell
        PROVE  o < g.size
    <3>1. PICK e \in Nat : e = at[n + 1] /\ e = g.size /\ e >= f.size
      BY <1>9, <1>11
    <3>2. o \in Nat /\ (o < f.size \/ o < e)
      <4> HIDE DEF g, new, at
      <4> QED
        BY <1>8, <1>10, <2>2, <2>3, <3>1
    <3> QED
      BY <1>8, <3>1, <3>2
  <2> HIDE DEF g
  <2> QED
    BY <2>1, <2>3, <2>4 DEF IsTraceFile
<1>14. \A o \in DOMAIN f.cell : o \in DOMAIN g.cell /\ g.cell[o] = f.cell[o]
  <2> SUFFICES ASSUME NEW o \in DOMAIN f.cell PROVE o \in DOMAIN cell /\ cell[o] = f.cell[o]
    BY <1>9
  <2>1. o \notin new
    <3> HIDE DEF new, at
    <3> QED
      BY <1>8, <1>10
  <2> HIDE DEF new
  <2> QED
    BY <2>1
<1>15. \A i \in DOMAIN values : at[i] \in DOMAIN g.cell /\ g.cell[at[i]] = values[i]
  <2> SUFFICES ASSUME NEW i \in 1 .. n PROVE at[i] \in DOMAIN cell /\ cell[at[i]] = values[i]
    BY <1>1, <1>9
  <2>1. at[i] \in new
    BY <1>1
  <2>2. (CHOOSE j \in DOMAIN values : at[j] = at[i]) = i
    <3> HIDE DEF at
    <3> QED
      BY <1>1, <1>7
  <2> HIDE DEF new, at
  <2> QED
    BY <2>1, <2>2
<1>16. HasAt(g, f.size, values, off)
  <2> SUFFICES ASSUME NEW i \in 1 .. n
               PROVE  f.size + off[i] \in DOMAIN g.cell /\ g.cell[f.size + off[i]] = values[i]
    BY <1>1 DEF HasAt
  <2>1. at[i] = f.size + off[i]
    BY <1>1
  <2> HIDE DEF at, g
  <2> QED
    BY <1>1, <1>15, <2>1
<1>17. f.size <= g.size
  <2> HIDE DEF at, cell, g
  <2> QED
    BY <1>8, <1>9, <1>11
<1>18. g.size = f.size + off[n + 1]
  BY <1>1, <1>9
<1>19. Extends(f, g)
  <2> HIDE DEF g
  <2> QED
    BY <1>13, <1>14, <1>17 DEF Extends
<1> HIDE DEF cell, at, new
<1> QED
  BY <1>9, <1>16, <1>18, <1>19

\* Values of one size.
LEMMA WrittenEach ==
  ASSUME NEW f, IsTraceFile(f), NEW S, NEW values \in Seq(S), NEW c \in Nat \ {0}
  PROVE  /\ Extends(f, WriteEach(f, values, c))
         /\ WriteEach(f, values, c).header = f.header
         /\ WriteEach(f, values, c).size = f.size + Len(values) * c
         /\ EachAt(WriteEach(f, values, c), f.size, values, c)
<1>1. PICK n \in Nat : n = Len(values) /\ DOMAIN values = 1 .. n
  OBVIOUS
<1>2. PICK sizes : sizes = [i \in 1 .. n |-> c]
  OBVIOUS
<1>3. sizes \in Seq(Nat \ {0}) /\ Len(sizes) = n
  BY <1>2
<1>4. PICK g : g = Write(f, values, sizes)
  OBVIOUS
<1>5. WriteEach(f, values, c) = g
  BY <1>1, <1>2, <1>4 DEF WriteEach
<1>6. \A i \in 1 .. n + 1 : Offsets(sizes)[i] = (i - 1) * c
  BY <1>2, OffsetsOfEqualSizes
<1>7. Extends(f, g) /\ g.header = f.header /\ g.size = f.size + Offsets(sizes)[n + 1] /\ HasAt(g, f.size, values, Offsets(sizes))
  BY <1>1, <1>3, <1>4, Written
<1>8. Offsets(sizes)[n + 1] = n * c
  BY <1>6
<1>9. ASSUME NEW i \in DOMAIN values
      PROVE  f.size + (i - 1) * c \in DOMAIN g.cell /\ g.cell[f.size + (i - 1) * c] = values[i]
  <2>1. Offsets(sizes)[i] = (i - 1) * c
    BY <1>1, <1>6
  <2>2. f.size + Offsets(sizes)[i] \in DOMAIN g.cell /\ g.cell[f.size + Offsets(sizes)[i]] = values[i]
    BY <1>7 DEF HasAt
  <2> QED
    BY <2>1, <2>2
<1>10. EachAt(g, f.size, values, c)
  BY <1>9 DEF EachAt
<1> QED
  BY <1>1, <1>5, <1>7, <1>8, <1>10

LEMMA AlignedUp ==
  ASSUME NEW f, IsTraceFile(f)
  PROVE  /\ Extends(f, Align(f)) /\ Align(f).header = f.header
         /\ Align(f).size \in Nat /\ Align(f).size % 8 = 0
<1>1. PICK a \in Int : a = f.size + 7 /\ a \in Nat /\ f.size \in Nat
  BY DEF IsTraceFile
<1>2. PICK q \in Int, r \in 0 .. 8 - 1 : q = a \div 8 /\ r = a % 8 /\ a = 8 * q + r
  BY QuotientAndRest
<1>3. q * 8 \in Nat /\ f.size <= q * 8
  BY <1>1, <1>2
<1>4. (q * 8) % 8 = 0
  BY <1>2
<1>5. PICK e : e = q * 8
  OBVIOUS
<1>6. Align(f) = [f EXCEPT !.size = e]
  BY <1>1, <1>2, <1>5, ZenonT(30) DEF Align
<1>7. /\ Align(f) \in [size : Nat, cell : {f.cell}, header : HeaderWords]
      /\ Align(f).size = e /\ Align(f).cell = f.cell /\ Align(f).header = f.header
  BY <1>3, <1>5, <1>6 DEF IsTraceFile
<1>8. IsTraceFile(Align(f))
  BY <1>1, <1>3, <1>5, <1>7 DEF IsTraceFile
<1> QED
  BY <1>3, <1>4, <1>5, <1>7, <1>8 DEF Extends

\* Other words in the header.
LEMMA Patched ==
  ASSUME NEW f, IsTraceFile(f), NEW g, NEW h \in HeaderWords, g = [f EXCEPT !.header = h]
  PROVE  Extends(f, g) /\ g.header = h /\ g.size = f.size /\ g.cell = f.cell
<1>1. /\ g \in [size : Nat, cell : {f.cell}, header : HeaderWords]
      /\ g.size = f.size /\ g.cell = f.cell /\ g.header = h
  BY DEF IsTraceFile
<1>2. IsTraceFile(g)
  BY <1>1 DEF IsTraceFile
<1>3. f.size \in Nat
  BY DEF IsTraceFile
<1> QED
  BY <1>1, <1>2, <1>3 DEF Extends

LEMMA StillEachAt ==
  ASSUME NEW f, NEW g, Extends(f, g), NEW o, NEW values, NEW c, EachAt(f, o, values, c)
  PROVE  EachAt(g, o, values, c)
BY DEF Extends, EachAt

LEMMA TableIsRead ==
  ASSUME NEW f, NEW o, NEW S, NEW values \in Seq(S), NEW c, EachAt(f, o, values, c)
  PROVE  serializedOffset(f, o, Len(values), c) = values
<1>1. values = [i \in 1 .. Len(values) |-> values[i]]
  OBVIOUS
<1>2. \A i \in 1 .. Len(values) : f.cell[o + (i - 1) * c] = values[i]
  BY DEF EachAt
<1> QED
  BY <1>1, <1>2, ZenonT(30) DEF serializedOffset

\* WriteFrames and WriteStats: a table that starts at a multiple of eight.
LEMMA TableWritten ==
  ASSUME NEW f, IsTraceFile(f), NEW S, NEW values \in Seq(S), NEW c \in Nat \ {0}
  PROVE  LET g == WriteEach(Align(f), values, c)
             o == Align(f).size
         IN  /\ Extends(f, g) /\ g.header = f.header
             /\ o \in Nat /\ o % 8 = 0 /\ f.size <= o
             /\ g.size = o + Len(values) * c
             /\ EachAt(g, o, values, c)
<1>1. PICK a : a = Align(f)
  OBVIOUS
<1>2. Extends(f, a) /\ a.header = f.header /\ a.size \in Nat /\ a.size % 8 = 0
  BY <1>1, AlignedUp
<1>3. IsTraceFile(a) /\ f.size <= a.size
  BY <1>2 DEF Extends
<1>4. PICK g : g = WriteEach(a, values, c)
  OBVIOUS
<1>5. /\ Extends(a, g) /\ g.header = a.header /\ g.size = a.size + Len(values) * c
      /\ EachAt(g, a.size, values, c)
  BY <1>3, <1>4, WrittenEach
<1>6. Extends(f, g)
  BY <1>2, <1>5, ExtendsIsTransitive
<1> QED
  BY <1>1, <1>2, <1>3, <1>4, <1>5, <1>6

\* The names and the modules that a program may load.
ModuleNames == {Executable, NoName} \cup {o.name : o \in Objects}
ModuleInfos == [m_ImageBase : Nat, m_ImageSegmentOffset : Nat, m_SizeBytes : Nat, m_Filename : ModuleNames]
Filenames(modules) == [i \in DOMAIN modules |-> modules[i].m_Filename]
StringSizes(modules) == [i \in DOMAIN modules |-> StringBytes(modules[i].m_Filename)]

LEMMA NamesOfModules ==
  ASSUME NEW modules \in Seq(ModuleInfos)
  PROVE  /\ Filenames(modules) \in Seq(ModuleNames) /\ Len(Filenames(modules)) = Len(modules)
         /\ StringSizes(modules) \in Seq(Nat \ {0}) /\ Len(StringSizes(modules)) = Len(modules)
         /\ [i \in DOMAIN Filenames(modules) |-> StringBytes(Filenames(modules)[i])] = StringSizes(modules)
<1>1. PICK n \in Nat : n = Len(modules) /\ DOMAIN modules = 1 .. n
  OBVIOUS
<1>2. \A i \in 1 .. n : modules[i] \in ModuleInfos
  BY <1>1
<1>3. \A i \in 1 .. n : modules[i].m_Filename \in ModuleNames
  BY <1>2 DEF ModuleInfos
<1>4. \A name \in ModuleNames : name.len \in Nat
  BY ModulesAssumption DEF ModuleNames
<1>5. \A i \in 1 .. n : StringBytes(modules[i].m_Filename) \in Nat \ {0}
  BY <1>3, <1>4 DEF StringBytes
<1>6. Filenames(modules) \in Seq(ModuleNames) /\ Len(Filenames(modules)) = n
  BY <1>1, <1>3 DEF Filenames
<1>7. StringSizes(modules) \in Seq(Nat \ {0}) /\ Len(StringSizes(modules)) = n
  BY <1>1, <1>5 DEF StringSizes
<1>8. [i \in DOMAIN Filenames(modules) |-> StringBytes(Filenames(modules)[i])] = StringSizes(modules)
  BY DEF Filenames, StringSizes
<1> QED
  BY <1>1, <1>6, <1>7, <1>8

EntryRecords == [m_ImageBase : Nat, m_ImageSegmentOffset : Nat, m_SizeBytes : Nat, m_StringOffset : Nat]

LEMMA EntriesOfModules ==
  ASSUME NEW modules \in Seq(ModuleInfos)
  PROVE  /\ ModuleEntries(modules) \in Seq(EntryRecords) /\ Len(ModuleEntries(modules)) = Len(modules)
         /\ \A i \in DOMAIN modules :
              /\ ModuleEntries(modules)[i].m_ImageBase = modules[i].m_ImageBase
              /\ ModuleEntries(modules)[i].m_ImageSegmentOffset = modules[i].m_ImageSegmentOffset
              /\ ModuleEntries(modules)[i].m_SizeBytes = modules[i].m_SizeBytes
              /\ ModuleEntries(modules)[i].m_StringOffset = Offsets(StringSizes(modules))[i]
<1>1. PICK n \in Nat : n = Len(modules) /\ DOMAIN modules = 1 .. n
  OBVIOUS
<1>2. PICK strings : strings = Offsets(StringSizes(modules))
  OBVIOUS
<1>3. \A i \in 1 .. n : strings[i] \in Nat
  <2>1. StringSizes(modules) \in Seq(Nat) /\ Len(StringSizes(modules)) = n
    BY <1>1, NamesOfModules
  <2>2. PICK sizes \in Seq(Nat) : sizes = StringSizes(modules) /\ Len(sizes) = n
    BY <2>1
  <2>3. \A i \in 1 .. n + 1 : Offsets(sizes)[i] \in Nat
    BY <2>2, OffsetsType
  <2> QED
    BY <1>2, <2>2, <2>3
<1> DEFINE entry(i) == [m_ImageBase |-> modules[i].m_ImageBase,
                        m_ImageSegmentOffset |-> modules[i].m_ImageSegmentOffset,
                        m_SizeBytes |-> modules[i].m_SizeBytes,
                        m_StringOffset |-> strings[i]]
<1>4. ModuleEntries(modules) = [i \in 1 .. n |-> entry(i)]
  BY <1>1, <1>2 DEF ModuleEntries, StringSizes
<1>5. ASSUME NEW i \in 1 .. n PROVE entry(i) \in EntryRecords
  <2>1. modules[i] \in ModuleInfos
    BY <1>1
  <2> QED
    BY <1>3, <2>1 DEF ModuleInfos, EntryRecords
<1>6. ModuleEntries(modules) \in Seq(EntryRecords) /\ Len(ModuleEntries(modules)) = n
  <2> HIDE DEF entry
  <2> QED
    BY <1>4, <1>5
<1> QED
  BY <1>1, <1>2, <1>4, <1>6

\* The modules of a file: their entries, and their names one after the other.
ModulesIn(f, o, strings, modules) ==
  /\ o \in Nat /\ o % 8 = 0 /\ strings \in Nat
  /\ o + Len(modules) * SizeOfModuleEntry <= strings
  /\ EachAt(f, o, ModuleEntries(modules), SizeOfModuleEntry)
  /\ HasAt(f, strings, Filenames(modules), Offsets(StringSizes(modules)))

TableIn(f, o, values, c) == o \in Nat /\ o % 8 = 0 /\ EachAt(f, o, values, c)

SectionsIn(f, h, modules, frames, nodes) ==
  /\ ModulesIn(f, h.m_ModuleOffset, h.m_ModuleStringOffset, modules)
  /\ h.m_ModuleCount = Len(modules)
  /\ h.m_ModuleStringOffset + Offsets(StringSizes(modules))[Len(modules) + 1] <= h.m_FrameOffset
  /\ TableIn(f, h.m_FrameOffset, frames, SizeOfFrame)
  /\ h.m_FrameCount = Len(frames)
  /\ h.m_FrameOffset + h.m_FrameCount * SizeOfFrame <= h.m_StatsOffset
  /\ TableIn(f, h.m_StatsOffset, nodes, SizeOfNode)
  /\ h.m_StatsCount = Len(nodes)

LEMMA StillSections ==
  ASSUME NEW f, NEW g, Extends(f, g), NEW h, NEW modules, NEW frames, NEW nodes,
         SectionsIn(f, h, modules, frames, nodes)
  PROVE  SectionsIn(g, h, modules, frames, nodes)
BY StillEachAt, StillHasAt DEF SectionsIn, ModulesIn, TableIn

LEMMA ModulesWritten ==
  ASSUME NEW f, IsTraceFile(f), NEW modules \in Seq(ModuleInfos), modules # << >>
  PROVE  LET g == WriteModules(f, modules)
             h == g.header
         IN  /\ Extends(f, g)
             /\ ModulesIn(g, h.m_ModuleOffset, h.m_ModuleStringOffset, modules)
             /\ h.m_ModuleCount = Len(modules)
             /\ h.m_ModuleStringOffset + Offsets(StringSizes(modules))[Len(modules) + 1] = g.size
             /\ h.m_SymbolCount = f.header.m_SymbolCount
<1>1. PICK n \in Nat : n = Len(modules)
  OBVIOUS
<1>2. PICK c \in Nat \ {0} : c = SizeOfModuleEntry
  BY DEF SizeOfModuleEntry
<1>3. PICK list \in Seq(EntryRecords) : list = ModuleEntries(modules) /\ Len(list) = n
  BY <1>1, EntriesOfModules
<1>4. PICK names \in Seq(ModuleNames), sizes \in Seq(Nat \ {0}) :
         /\ names = Filenames(modules) /\ sizes = StringSizes(modules) /\ Len(names) = n /\ Len(sizes) = n
         /\ sizes = [i \in DOMAIN names |-> StringBytes(names[i])]
  BY <1>1, NamesOfModules
<1>5. PICK at : at = Align(f)
  OBVIOUS
<1>6. PICK entries : entries = WriteEach(at, list, c)
  OBVIOUS
<1>7. /\ Extends(f, entries) /\ entries.header = f.header
      /\ at.size \in Nat /\ at.size % 8 = 0
      /\ entries.size = at.size + n * c /\ EachAt(entries, at.size, list, c)
  BY <1>3, <1>5, <1>6, TableWritten
<1>8. IsTraceFile(entries)
  BY <1>7 DEF Extends
<1>9. PICK strings : strings = Write(entries, names, sizes)
  OBVIOUS
<1>10. /\ Extends(entries, strings) /\ strings.header = entries.header
       /\ strings.size = entries.size + Offsets(sizes)[n + 1]
       /\ HasAt(strings, entries.size, names, Offsets(sizes))
  <2>1. Len(names) = Len(sizes) /\ Len(sizes) = n
    BY <1>4
  <2>2. /\ Extends(entries, Write(entries, names, sizes))
        /\ Write(entries, names, sizes).header = entries.header
        /\ Write(entries, names, sizes).size = entries.size + Offsets(sizes)[Len(sizes) + 1]
        /\ HasAt(Write(entries, names, sizes), entries.size, names, Offsets(sizes))
    BY <1>8, <2>1, Written
  <2> QED
    BY <1>9, <2>1, <2>2
<1>11. PICK h : h = [f.header EXCEPT !.m_ModuleOffset = at.size, !.m_ModuleCount = n,
                                     !.m_ModuleStringOffset = entries.size]
  OBVIOUS
<1>12. entries.size \in Nat /\ f.header \in HeaderWords /\ IsTraceFile(strings)
  BY <1>8, <1>10 DEF IsTraceFile, Extends
<1>13. /\ h \in HeaderWords
       /\ h.m_ModuleOffset = at.size /\ h.m_ModuleCount = n /\ h.m_ModuleStringOffset = entries.size
       /\ h.m_SymbolCount = f.header.m_SymbolCount
  <2>1. PICK h0 \in HeaderWords, a \in Int, e \in Int : h0 = f.header /\ a = at.size /\ e = entries.size
    BY <1>7, <1>12
  <2>2. h = [h0 EXCEPT !.m_ModuleOffset = a, !.m_ModuleCount = n, !.m_ModuleStringOffset = e]
    BY <1>11, <2>1
  <2>3. /\ h \in HeaderWords /\ h.m_ModuleOffset = a /\ h.m_ModuleCount = n /\ h.m_ModuleStringOffset = e
        /\ h.m_SymbolCount = h0.m_SymbolCount
    <3>1. PICK h1 : h1 = [h0 EXCEPT !.m_ModuleOffset = a]
      OBVIOUS
    <3>2. h1 \in HeaderWords /\ h1.m_ModuleOffset = a /\ h1.m_SymbolCount = h0.m_SymbolCount
      BY <3>1 DEF HeaderWords
    <3>3. PICK h2 : h2 = [h1 EXCEPT !.m_ModuleCount = n]
      OBVIOUS
    <3>4. /\ h2 \in HeaderWords /\ h2.m_ModuleOffset = a /\ h2.m_ModuleCount = n
          /\ h2.m_SymbolCount = h0.m_SymbolCount
      <4>1. n \in Int
        OBVIOUS
      <4>2. h2 \in HeaderWords
        BY <3>2, <3>3, <4>1 DEF HeaderWords
      <4>3. h2.m_ModuleOffset = a
        BY <3>2, <3>3 DEF HeaderWords
      <4>4. h2.m_ModuleCount = n
        BY <3>2, <3>3 DEF HeaderWords
      <4>5. h2.m_SymbolCount = h0.m_SymbolCount
        BY <3>2, <3>3 DEF HeaderWords
      <4> QED
        BY <4>2, <4>3, <4>4, <4>5
    <3>5. h = [h2 EXCEPT !.m_ModuleStringOffset = e]
      BY <2>2, <3>1, <3>3, Zenon
    <3> QED
      BY <3>4, <3>5 DEF HeaderWords
  <2> QED
    BY <2>1, <2>3
<1>14. PICK g : g = WriteModules(f, modules)
  OBVIOUS
<1>15. g = [strings EXCEPT !.header = h]
  <2>1. g = [strings EXCEPT !.header.m_ModuleOffset = at.size, !.header.m_ModuleCount = n,
                            !.header.m_ModuleStringOffset = entries.size]
    BY <1>1, <1>2, <1>3, <1>4, <1>5, <1>6, <1>9, <1>14 DEF WriteModules, Filenames
  <2>2. strings.header = f.header
    BY <1>7, <1>10
  <2> QED
    BY <1>11, <1>12, <2>1, <2>2 DEF IsTraceFile
<1>16. Extends(strings, g) /\ g.header = h /\ g.size = strings.size
  BY <1>12, <1>13, <1>15, Patched
<1>17. Extends(entries, g) /\ Extends(f, g)
  BY <1>7, <1>10, <1>16, ExtendsIsTransitive
<1>18. EachAt(g, at.size, list, c)
  BY <1>7, <1>17, StillEachAt
<1>19. HasAt(g, entries.size, names, Offsets(sizes))
  BY <1>10, <1>16, StillHasAt
<1>20. at.size + n * c <= entries.size
  BY <1>7, <1>12
<1>21. ModulesIn(g, at.size, entries.size, modules)
  BY <1>1, <1>2, <1>3, <1>4, <1>7, <1>12, <1>18, <1>19, <1>20 DEF ModulesIn
<1> QED
  BY <1>1, <1>4, <1>10, <1>13, <1>14, <1>16, <1>17, <1>21

\* The words of the header that tell of the modules.
SameModuleWords(h, i) ==
  /\ i.m_ModuleOffset = h.m_ModuleOffset /\ i.m_ModuleCount = h.m_ModuleCount
  /\ i.m_ModuleStringOffset = h.m_ModuleStringOffset

SameFrameWords(h, i) == i.m_FrameOffset = h.m_FrameOffset /\ i.m_FrameCount = h.m_FrameCount

LEMMA FramesWritten ==
  ASSUME NEW f, IsTraceFile(f), NEW S, NEW frames \in Seq(S)
  PROVE  LET g == WriteFrames(f, frames)
             h == g.header
         IN  /\ Extends(f, g) /\ f.size <= h.m_FrameOffset
             /\ SameModuleWords(f.header, h) /\ h.m_SymbolCount = f.header.m_SymbolCount
             /\ TableIn(g, h.m_FrameOffset, frames, SizeOfFrame) /\ h.m_FrameCount = Len(frames)
             /\ g.size = h.m_FrameOffset + Len(frames) * SizeOfFrame
<1>1. PICK c \in Nat \ {0} : c = SizeOfFrame
  BY DEF SizeOfFrame
<1>2. PICK n \in Int : n = Len(frames)
  OBVIOUS
<1>3. PICK table, o : table = WriteEach(Align(f), frames, c) /\ o = Align(f).size
  OBVIOUS
<1>4. /\ Extends(f, table) /\ table.header = f.header
      /\ o \in Nat /\ o % 8 = 0 /\ f.size <= o
      /\ table.size = o + Len(frames) * c /\ EachAt(table, o, frames, c)
  BY <1>3, TableWritten
<1>5. IsTraceFile(table)
  BY <1>4 DEF Extends
<1>6. PICK h0 \in HeaderWords, a \in Int : h0 = f.header /\ a = o
  BY <1>4 DEF IsTraceFile
<1>7. PICK h : h = [h0 EXCEPT !.m_FrameOffset = a, !.m_FrameCount = n]
  OBVIOUS
<1>8. /\ h \in HeaderWords /\ h.m_FrameOffset = a /\ h.m_FrameCount = n
      /\ SameModuleWords(h0, h) /\ h.m_SymbolCount = h0.m_SymbolCount
  BY <1>7 DEF HeaderWords, SameModuleWords
<1>9. PICK g : g = WriteFrames(f, frames)
  OBVIOUS
<1>10. g = [table EXCEPT !.header = h]
  <2>1. g = [table EXCEPT !.header.m_FrameOffset = a, !.header.m_FrameCount = n]
    BY <1>1, <1>2, <1>3, <1>6, <1>9 DEF WriteFrames
  <2>2. table.header = h0
    BY <1>4, <1>6
  <2> QED
    BY <1>5, <1>7, <2>1, <2>2 DEF IsTraceFile
<1>11. Extends(table, g) /\ g.header = h /\ g.size = table.size
  BY <1>5, <1>8, <1>10, Patched
<1>12. Extends(f, g)
  BY <1>4, <1>11, ExtendsIsTransitive
<1>13. EachAt(g, o, frames, c)
  BY <1>4, <1>11, StillEachAt
<1>14. TableIn(g, o, frames, c)
  BY <1>4, <1>13 DEF TableIn
<1> QED
  BY <1>1, <1>2, <1>4, <1>6, <1>8, <1>9, <1>11, <1>12, <1>14

LEMMA StatsWritten ==
  ASSUME NEW f, IsTraceFile(f), NEW S, NEW nodes \in Seq(S)
  PROVE  LET g == WriteStats(f, nodes)
             h == g.header
         IN  /\ Extends(f, g) /\ f.size <= h.m_StatsOffset
             /\ SameModuleWords(f.header, h) /\ SameFrameWords(f.header, h)
             /\ h.m_SymbolCount = f.header.m_SymbolCount
             /\ TableIn(g, h.m_StatsOffset, nodes, SizeOfNode) /\ h.m_StatsCount = Len(nodes)
<1>1. PICK c \in Nat \ {0} : c = SizeOfNode
  BY DEF SizeOfNode
<1>2. PICK n \in Int : n = Len(nodes)
  OBVIOUS
<1>3. PICK table, o : table = WriteEach(Align(f), nodes, c) /\ o = Align(f).size
  OBVIOUS
<1>4. /\ Extends(f, table) /\ table.header = f.header
      /\ o \in Nat /\ o % 8 = 0 /\ f.size <= o
      /\ EachAt(table, o, nodes, c)
  BY <1>3, TableWritten
<1>5. IsTraceFile(table)
  BY <1>4 DEF Extends
<1>6. PICK h0 \in HeaderWords, a \in Int : h0 = f.header /\ a = o
  BY <1>4 DEF IsTraceFile
<1>7. PICK h : h = [h0 EXCEPT !.m_StatsOffset = a, !.m_StatsCount = n]
  OBVIOUS
<1>8. /\ h \in HeaderWords /\ h.m_StatsOffset = a /\ h.m_StatsCount = n
      /\ SameModuleWords(h0, h) /\ SameFrameWords(h0, h) /\ h.m_SymbolCount = h0.m_SymbolCount
  BY <1>7 DEF HeaderWords, SameModuleWords, SameFrameWords
<1>9. PICK g : g = WriteStats(f, nodes)
  OBVIOUS
<1>10. g = [table EXCEPT !.header = h]
  <2>1. g = [table EXCEPT !.header.m_StatsOffset = a, !.header.m_StatsCount = n]
    BY <1>1, <1>2, <1>3, <1>6, <1>9 DEF WriteStats
  <2>2. table.header = h0
    BY <1>4, <1>6
  <2> QED
    BY <1>5, <1>7, <2>1, <2>2 DEF IsTraceFile
<1>11. Extends(table, g) /\ g.header = h /\ g.size = table.size
  BY <1>5, <1>8, <1>10, Patched
<1>12. Extends(f, g)
  BY <1>4, <1>11, ExtendsIsTransitive
<1>13. EachAt(g, o, nodes, c)
  BY <1>4, <1>11, StillEachAt
<1>14. TableIn(g, o, nodes, c)
  BY <1>4, <1>13 DEF TableIn
<1> QED
  BY <1>1, <1>2, <1>4, <1>6, <1>8, <1>9, <1>11, <1>12, <1>14

LEMMA EmptyFile ==
  IsTraceFile(NewFile) /\ NewFile.header.m_SymbolCount = 0
<1>1. NewFile.header \in HeaderWords /\ NewFile.header.m_SymbolCount = 0
  BY DEF NewFile, HeaderWords, Placeholder
<1>2. NewFile \in [size : Nat, cell : {NewFile.cell}, header : HeaderWords]
  BY <1>1 DEF NewFile, SizeOfHeader
<1>3. DOMAIN NewFile.cell = {}
  BY DEF NewFile
<1> QED
  BY <1>1, <1>2, <1>3 DEF IsTraceFile

\* CacheSimEndCapture: what was saved is in the file.
LEMMA SavedSections ==
  ASSUME NEW modules \in Seq(ModuleInfos), modules # << >>,
         NEW S, NEW frames \in Seq(S), NEW T, NEW nodes \in Seq(T)
  PROVE  LET f == Saved(modules, frames, nodes)
         IN  IsTraceFile(f) /\ SectionsIn(f, f.header, modules, frames, nodes) /\ f.header.m_SymbolCount = 0
<1>1. IsTraceFile(NewFile) /\ NewFile.header.m_SymbolCount = 0
  BY EmptyFile
<1>2. PICK f : f = WriteModules(NewFile, modules)
  OBVIOUS
<1>3. /\ Extends(NewFile, f) /\ ModulesIn(f, f.header.m_ModuleOffset, f.header.m_ModuleStringOffset, modules)
      /\ f.header.m_ModuleCount = Len(modules)
      /\ f.header.m_ModuleStringOffset + Offsets(StringSizes(modules))[Len(modules) + 1] = f.size
      /\ f.header.m_SymbolCount = 0
  BY <1>1, <1>2, ModulesWritten
<1>4. IsTraceFile(f)
  BY <1>3 DEF Extends
<1>5. PICK g : g = WriteFrames(f, frames)
  OBVIOUS
<1>6. /\ Extends(f, g) /\ f.size <= g.header.m_FrameOffset
      /\ SameModuleWords(f.header, g.header) /\ g.header.m_SymbolCount = f.header.m_SymbolCount
      /\ TableIn(g, g.header.m_FrameOffset, frames, SizeOfFrame) /\ g.header.m_FrameCount = Len(frames)
      /\ g.size = g.header.m_FrameOffset + Len(frames) * SizeOfFrame
  BY <1>4, <1>5, FramesWritten
<1>7. IsTraceFile(g)
  BY <1>6 DEF Extends
<1>8. PICK e : e = WriteStats(g, nodes)
  OBVIOUS
<1>9. /\ Extends(g, e) /\ g.size <= e.header.m_StatsOffset
      /\ SameModuleWords(g.header, e.header) /\ SameFrameWords(g.header, e.header)
      /\ e.header.m_SymbolCount = g.header.m_SymbolCount
      /\ TableIn(e, e.header.m_StatsOffset, nodes, SizeOfNode) /\ e.header.m_StatsCount = Len(nodes)
  BY <1>7, <1>8, StatsWritten
<1>10. Extends(f, e)
  BY <1>6, <1>9, ExtendsIsTransitive
<1>11. ModulesIn(e, f.header.m_ModuleOffset, f.header.m_ModuleStringOffset, modules)
  BY <1>3, <1>10, StillEachAt, StillHasAt DEF ModulesIn
<1>12. TableIn(e, g.header.m_FrameOffset, frames, SizeOfFrame)
  BY <1>6, <1>9, StillEachAt DEF TableIn
<1>13. SectionsIn(e, e.header, modules, frames, nodes)
  BY <1>3, <1>6, <1>9, <1>11, <1>12 DEF SectionsIn, SameModuleWords, SameFrameWords
<1>14. IsTraceFile(e)
  BY <1>9 DEF Extends
<1> QED
  BY <1>2, <1>3, <1>5, <1>6, <1>8, <1>9, <1>13, <1>14 DEF Saved

\* The words of the header that CacheSimEndCapture wrote.
SameSavedWords(h, i) ==
  /\ SameModuleWords(h, i) /\ SameFrameWords(h, i)
  /\ i.m_StatsOffset = h.m_StatsOffset /\ i.m_StatsCount = h.m_StatsCount

LEMMA SameSections ==
  ASSUME NEW f, NEW h, NEW i, SameSavedWords(h, i), NEW modules, NEW frames, NEW nodes,
         SectionsIn(f, h, modules, frames, nodes)
  PROVE  SectionsIn(f, i, modules, frames, nodes)
BY DEF SectionsIn, SameSavedWords, SameModuleWords, SameFrameWords

\* The bytes of strings of two-byte characters.
TextSizes(strings) == [i \in DOMAIN strings |-> SizeOfChar * StringBytes(strings[i])]

\* symbolsResolved: the symbols and their text are at the end, and what was in
\* the file is in it.
LEMMA SymbolsAppended ==
  ASSUME NEW f, IsTraceFile(f), NEW S, NEW symbols \in Seq(S), NEW T, NEW strings \in Seq(T),
         \A s \in T : s.len \in Nat
  PROVE  LET g == AppendSymbols(f, symbols, strings)
             h == g.header
         IN  /\ Extends(f, g) /\ SameSavedWords(f.header, h)
             /\ h.m_SymbolCount = Len(symbols)
             /\ EachAt(g, h.m_SymbolOffset, symbols, SizeOfSymbol)
             /\ HasAt(g, h.m_SymbolTextOffset, strings, Offsets(TextSizes(strings)))
             /\ h.m_SymbolTextOffset \in Nat
<1>1. PICK c \in Nat \ {0} : c = SizeOfSymbol
  BY DEF SizeOfSymbol
<1>2. PICK n \in Int : n = Len(symbols)
  OBVIOUS
<1>3. PICK table : table = WriteEach(f, symbols, c)
  OBVIOUS
<1>4. Extends(f, table) /\ table.header = f.header /\ EachAt(table, f.size, symbols, c)
  BY <1>3, WrittenEach
<1>5. IsTraceFile(table)
  BY <1>4 DEF Extends
<1>6. PICK sizes : sizes = TextSizes(strings)
  OBVIOUS
<1>7. sizes \in Seq(Nat \ {0}) /\ Len(sizes) = Len(strings)
  <2>1. PICK m \in Nat : m = Len(strings) /\ DOMAIN strings = 1 .. m
    OBVIOUS
  <2>2. \A i \in 1 .. m : SizeOfChar * StringBytes(strings[i]) \in Nat \ {0}
    BY <2>1 DEF SizeOfChar, StringBytes
  <2> QED
    BY <1>6, <2>1, <2>2 DEF TextSizes
<1>8. PICK text : text = Write(table, strings, sizes)
  OBVIOUS
<1>9. Extends(table, text) /\ text.header = table.header /\ HasAt(text, table.size, strings, Offsets(sizes))
  BY <1>5, <1>7, <1>8, Written
<1>10. PICK h0 \in HeaderWords, a \in Nat, b \in Nat : h0 = f.header /\ a = f.size /\ b = table.size
  BY <1>5 DEF IsTraceFile
<1>11. PICK h : h = [h0 EXCEPT !.m_SymbolOffset = a, !.m_SymbolCount = n, !.m_SymbolTextOffset = b]
  OBVIOUS
<1>12. /\ h \in HeaderWords /\ h.m_SymbolOffset = a /\ h.m_SymbolCount = n /\ h.m_SymbolTextOffset = b
       /\ SameSavedWords(h0, h)
  <2>1. a \in Int /\ b \in Int /\ n \in Int
    OBVIOUS
  <2>2. PICK h1 : h1 = [h0 EXCEPT !.m_SymbolOffset = a]
    OBVIOUS
  <2>3. h1 \in HeaderWords /\ h1.m_SymbolOffset = a
    BY <2>1, <2>2 DEF HeaderWords
  <2>4. SameSavedWords(h0, h1)
    BY <2>2 DEF HeaderWords, SameSavedWords, SameModuleWords, SameFrameWords
  <2>5. PICK h2 : h2 = [h1 EXCEPT !.m_SymbolCount = n]
    OBVIOUS
  <2>6. h2 \in HeaderWords /\ h2.m_SymbolOffset = a /\ h2.m_SymbolCount = n
    BY <2>1, <2>3, <2>5 DEF HeaderWords
  <2>7. SameSavedWords(h1, h2)
    BY <2>3, <2>5 DEF HeaderWords, SameSavedWords, SameModuleWords, SameFrameWords
  <2>8. h = [h2 EXCEPT !.m_SymbolTextOffset = b]
    BY <1>11, <2>2, <2>5, Zenon
  <2>9. /\ h \in HeaderWords /\ h.m_SymbolOffset = a /\ h.m_SymbolCount = n /\ h.m_SymbolTextOffset = b
    BY <2>1, <2>6, <2>8 DEF HeaderWords
  <2>10. SameSavedWords(h2, h)
    BY <2>6, <2>8 DEF HeaderWords, SameSavedWords, SameModuleWords, SameFrameWords
  <2> QED
    BY <2>4, <2>7, <2>9, <2>10 DEF SameSavedWords, SameModuleWords, SameFrameWords
<1>13. PICK g : g = AppendSymbols(f, symbols, strings)
  OBVIOUS
<1>14. g = [text EXCEPT !.header = h]
  <2>1. g = [text EXCEPT !.header.m_SymbolOffset = a, !.header.m_SymbolCount = n,
                         !.header.m_SymbolTextOffset = b]
    BY <1>1, <1>2, <1>3, <1>6, <1>8, <1>10, <1>13 DEF AppendSymbols, TextSizes
  <2>2. text.header = h0 /\ IsTraceFile(text)
    BY <1>4, <1>9, <1>10 DEF Extends
  <2> QED
    BY <1>11, <2>1, <2>2 DEF IsTraceFile
<1>15. IsTraceFile(text)
  BY <1>9 DEF Extends
<1>16. Extends(text, g) /\ g.header = h
  BY <1>12, <1>14, <1>15, Patched
<1>17. Extends(table, g)
  BY <1>9, <1>16, ExtendsIsTransitive
<1>18. Extends(f, g)
  BY <1>4, <1>17, ExtendsIsTransitive
<1>19. EachAt(g, a, symbols, c) /\ HasAt(g, b, strings, Offsets(sizes))
  BY <1>4, <1>9, <1>10, <1>16, <1>17, StillEachAt, StillHasAt
<1> QED
  BY <1>1, <1>2, <1>6, <1>10, <1>12, <1>13, <1>16, <1>18, <1>19

-----------------------------------------------------------------------------
(* The symbols                                                             *)

\* d has the members of s, each once.
HasEachOnce(d, s) ==
  /\ \A k \in DOMAIN d : \E i \in DOMAIN s : d[k] = s[i]
  /\ \A i \in DOMAIN s : \E k \in DOMAIN d : d[k] = s[i]
  /\ \A k, l \in DOMAIN d : d[k] = d[l] => k = l

LEMMA DistinctMembers ==
  ASSUME NEW S, NEW s \in Seq(S)
  PROVE  Distinct(s) \in Seq(S) /\ HasEachOnce(Distinct(s), s)
<1> DEFINE I == {i \in DOMAIN s : \A j \in 1 .. i - 1 : s[j] # s[i]}
           d == Selected(s, I)
<1>1. Distinct(s) = d
  <2>1. Evaluated(s) = s
    BY EvaluatedIsItself
  <2> QED
    BY <2>1 DEF Distinct
<1>2. PICK n \in Nat : n = Len(s) /\ DOMAIN s = 1 .. n
  OBVIOUS
<1>3. I \in SUBSET DOMAIN s /\ I \in SUBSET (1 .. n)
  BY <1>2
<1>4. \A i \in I : \A j \in 1 .. i - 1 : s[j] # s[i]
  OBVIOUS
<1>5. \A i \in DOMAIN s : (\A j \in 1 .. i - 1 : s[j] # s[i]) => i \in I
  OBVIOUS
<1> HIDE DEF I
<1>6. /\ d \in Seq(S) /\ DOMAIN d = 1 .. Cardinality(I)
      /\ \A k \in DOMAIN d : Nth(I, k) \in I /\ d[k] = s[Nth(I, k)]
      /\ \A i \in I : \E k \in DOMAIN d : d[k] = s[i]
  BY <1>3, SelectedElements
<1>7. \A k, l \in 1 .. Cardinality(I) : k < l => Nth(I, k) < Nth(I, l)
  BY <1>3, NthIsThere
<1>8. ASSUME NEW k \in DOMAIN d, NEW l \in DOMAIN d, k < l
      PROVE  d[k] # d[l]
  <2>1. PICK i \in I, j \in I : i = Nth(I, k) /\ j = Nth(I, l) /\ d[k] = s[i] /\ d[l] = s[j]
    <3> HIDE DEF d
    <3> QED
      BY <1>6
  <2>2. i < j
    BY <1>6, <1>7, <1>8, <2>1
  <2>3. i \in 1 .. j - 1
    BY <1>3, <2>1, <2>2
  <2> QED
    BY <1>4, <2>1, <2>3
<1>9. ASSUME NEW k \in DOMAIN d, NEW l \in DOMAIN d, d[k] = d[l]
      PROVE  k = l
  <2>1. k \in Int /\ l \in Int
    <3> HIDE DEF d
    <3> QED
      BY <1>6
  <2> HIDE DEF d
  <2> QED
    BY <1>8, <1>9, <2>1
<1>10. ASSUME NEW i \in DOMAIN s
       PROVE  \E k \in DOMAIN d : d[k] = s[i]
  <2> DEFINE E == {j \in 1 .. n : s[j] = s[i]}
  <2>1. E \in SUBSET Nat /\ i \in E
    BY <1>2
  <2>2. PICK j \in E : \A m \in E : j <= m
    BY <2>1, LeastNumber
  <2>3. j \in DOMAIN s /\ s[j] = s[i]
    BY <1>2
  <2>4. ASSUME NEW m \in 1 .. j - 1 PROVE s[m] # s[j]
    <3>1. m \in 1 .. n /\ j \in Int /\ m < j
      BY <2>3, <1>2
    <3>2. m \notin E
      <4> HIDE DEF E
      <4> QED
        BY <2>2, <3>1
    <3> QED
      BY <2>3, <3>1, <3>2
  <2>5. j \in I
    BY <1>5, <2>3, <2>4
  <2> HIDE DEF d, E
  <2> QED
    BY <1>6, <2>3, <2>5
<1>11. \A k \in DOMAIN d : \E i \in DOMAIN s : d[k] = s[i]
  <2> HIDE DEF d
  <2> QED
    BY <1>3, <1>6
<1> HIDE DEF d
<1> QED
  BY <1>1, <1>6, <1>9, <1>10, <1>11 DEF HasEachOnce

\* The addresses of a file.
AddressesOf(stacks, nodes) ==
  {stacks[i] : i \in {j \in DOMAIN stacks : stacks[j] # 0}} \cup {nodes[i].m_Rip : i \in DOMAIN nodes}

LEMMA AddressesOnce ==
  ASSUME NEW stacks \in Seq(Nat), NEW T, NEW nodes \in Seq(T), \A i \in DOMAIN nodes : nodes[i].m_Rip \in Nat
  PROVE  LET a == Addresses(stacks, nodes)
         IN  /\ a \in Seq(Nat)
             /\ \A k \in DOMAIN a : a[k] \in AddressesOf(stacks, nodes)
             /\ \A rip \in AddressesOf(stacks, nodes) : \E k \in DOMAIN a : a[k] = rip
             /\ \A k, l \in DOMAIN a : a[k] = a[l] => k = l
<1>1. PICK I : I = {i \in DOMAIN stacks : stacks[i] # 0}
  OBVIOUS
<1>2. PICK s : s = Selected(stacks, I)
  OBVIOUS
<1>3. I \in SUBSET DOMAIN stacks
  BY <1>1
<1>4. /\ s \in Seq(Nat)
      /\ \A k \in DOMAIN s : Nth(I, k) \in I /\ s[k] = stacks[Nth(I, k)]
      /\ \A i \in I : \E k \in DOMAIN s : s[k] = stacks[i]
  BY <1>2, <1>3, SelectedElements
<1>5. PICK t : t = [i \in DOMAIN nodes |-> nodes[i].m_Rip]
  OBVIOUS
<1>6. t \in Seq(Nat) /\ DOMAIN t = DOMAIN nodes /\ \A i \in DOMAIN t : t[i] = nodes[i].m_Rip
  BY <1>5
<1>7. PICK u : u = s \o t
  OBVIOUS
<1>8. u \in Seq(Nat) /\ Len(u) = Len(s) + Len(t)
  BY <1>4, <1>6, <1>7
<1>9. PICK m \in Nat, n \in Nat : m = Len(s) /\ n = Len(t) /\ DOMAIN s = 1 .. m /\ DOMAIN t = 1 .. n /\ DOMAIN u = 1 .. m + n
  <2>1. PICK m \in Nat : m = Len(s) /\ DOMAIN s = 1 .. m
    BY <1>4
  <2>2. PICK n \in Nat : n = Len(t) /\ DOMAIN t = 1 .. n
    BY <1>6
  <2>3. DOMAIN u = 1 .. m + n
    BY <1>8, <2>1, <2>2
  <2> QED
    BY <2>1, <2>2, <2>3
<1>10. /\ \A k \in 1 .. m : u[k] = s[k]
       /\ \A k \in 1 .. n : u[m + k] = t[k]
  BY <1>4, <1>6, <1>7, <1>9
<1>11. ASSUME NEW k \in DOMAIN u
       PROVE  u[k] \in AddressesOf(stacks, nodes)
  <2>1. CASE k <= m
    <3>1. k \in DOMAIN s /\ u[k] = s[k]
      BY <1>9, <1>10, <2>1
    <3>2. Nth(I, k) \in I /\ s[k] = stacks[Nth(I, k)]
      BY <1>4, <3>1
    <3> QED
      BY <1>1, <3>1, <3>2 DEF AddressesOf
  <2>2. CASE k > m
    <3>1. PICK i \in 1 .. n : k = m + i
      <4>1. k - m \in 1 .. n /\ k = m + (k - m)
        BY <1>9, <2>2
      <4> QED
        BY <4>1
    <3>2. u[k] = t[i] /\ i \in DOMAIN nodes
      BY <1>6, <1>9, <1>10, <3>1
    <3> QED
      BY <1>6, <3>2 DEF AddressesOf
  <2> QED
    BY <1>9, <2>1, <2>2
<1>12. ASSUME NEW rip \in AddressesOf(stacks, nodes)
       PROVE  \E k \in DOMAIN u : u[k] = rip
  <2>1. CASE \E i \in I : rip = stacks[i]
    <3>1. PICK k \in DOMAIN s : s[k] = rip
      BY <1>4, <2>1
    <3>2. k \in DOMAIN u /\ u[k] = rip
      BY <1>9, <1>10, <3>1
    <3> QED
      BY <3>2
  <2>2. CASE \E i \in DOMAIN nodes : rip = nodes[i].m_Rip
    <3>1. PICK i \in 1 .. n : t[i] = rip
      BY <1>6, <1>9, <2>2
    <3>2. m + i \in DOMAIN u /\ u[m + i] = rip
      BY <1>9, <1>10, <3>1
    <3> QED
      BY <3>2
  <2> QED
    BY <1>1, <2>1, <2>2 DEF AddressesOf
<1>13. PICK a : a = Distinct(u)
  OBVIOUS
<1>14. Addresses(stacks, nodes) = a
  BY <1>1, <1>2, <1>5, <1>7, <1>13 DEF Addresses
<1>15. a \in Seq(Nat) /\ HasEachOnce(a, u)
  BY <1>8, <1>13, DistinctMembers
<1>16. \A k \in DOMAIN a : a[k] \in AddressesOf(stacks, nodes)
  BY <1>11, <1>15 DEF HasEachOnce
<1>17. \A rip \in AddressesOf(stacks, nodes) : \E k \in DOMAIN a : a[k] = rip
  <2> SUFFICES ASSUME NEW rip \in AddressesOf(stacks, nodes) PROVE \E k \in DOMAIN a : a[k] = rip
    OBVIOUS
  <2>1. PICK k \in DOMAIN u : u[k] = rip
    BY <1>12
  <2> QED
    BY <1>15, <2>1 DEF HasEachOnce
<1> QED
  BY <1>14, <1>15, <1>16, <1>17 DEF HasEachOnce

\* The symbols of the addresses A, one for each, with their names and files.
AreSymbolsOf(resolved, A, name, file_, line) ==
  /\ resolved \in Seq({resolved[k] : k \in DOMAIN resolved})
  /\ \A k \in DOMAIN resolved :
       /\ resolved[k].m_Rip \in A
       /\ resolved[k].m_SymbolName = name[resolved[k].m_Rip]
       /\ resolved[k].m_FileName = file_[resolved[k].m_Rip]
       /\ resolved[k].m_LineNumber = line[resolved[k].m_Rip]
  /\ \A rip \in A : \E k \in DOMAIN resolved : resolved[k].m_Rip = rip
  /\ \A k, l \in DOMAIN resolved : resolved[k].m_Rip = resolved[l].m_Rip => k = l

LEMMA FirstIsOne ==
  ASSUME NEW having \in SUBSET (Nat \ {0})
  PROVE  /\ having = {} => FirstOf(having) = 0
         /\ having # {} => FirstOf(having) \in having
<1>1. CASE having = {}
  BY <1>1 DEF FirstOf
<1>2. CASE having # {}
  <2>1. PICK i \in having : \A j \in having : i <= j
    BY <1>2, LeastNumber
  <2>2. (CHOOSE x \in having : \A j \in having : x <= j) \in having
    BY <2>1
  <2> QED
    BY <1>2, <2>2 DEF FirstOf
<1> QED
  BY <1>1, <1>2


IsInjectiveUpTo(addresses, n) == \A k, l \in 1 .. n : addresses[k] = addresses[l] => k = l

\* The k-th symbol is that of the address at place e[k].
AreSymbolsAt(r, m, addresses, e, name, file_, line) ==
  /\ DOMAIN r = 1 .. m /\ r = [k \in 1 .. m |-> r[k]]
  /\ \A k \in 1 .. m : /\ r[k].m_Rip = addresses[e[k]]
                        /\ r[k].m_SymbolName = name[addresses[e[k]]]
                        /\ r[k].m_FileName = file_[addresses[e[k]]]
                        /\ r[k].m_LineNumber = line[addresses[e[k]]]

LEMMA SymbolsOfPlaces ==
  ASSUME NEW n \in Nat, NEW addresses, IsInjectiveUpTo(addresses, n),
         NEW I \in SUBSET (1 .. n), NEW m, NEW e, Enumerates(e, I, m),
         NEW A, A = {addresses[i] : i \in I}, NEW name, NEW file_, NEW line,
         NEW r, AreSymbolsAt(r, m, addresses, e, name, file_, line)
  PROVE  AreSymbolsOf(r, A, name, file_, line) /\ Evaluated(r) = r
<1> USE DEF IsInjectiveUpTo, AreSymbolsAt
<1>1. m \in Nat /\ \A k \in 1 .. m : e[k] \in I
  BY DEF Enumerates
<1>2. r \in Seq({r[k] : k \in DOMAIN r}) /\ Evaluated(r) = r
  BY <1>1, SequenceOfItsMembers
<1>3. ASSUME NEW k \in 1 .. m
      PROVE  /\ r[k].m_Rip \in A
             /\ r[k].m_SymbolName = name[r[k].m_Rip]
             /\ r[k].m_FileName = file_[r[k].m_Rip]
             /\ r[k].m_LineNumber = line[r[k].m_Rip]
  BY <1>1
<1>4. ASSUME NEW rip \in A
      PROVE  \E k \in 1 .. m : r[k].m_Rip = rip
  <2>1. PICK i \in I : addresses[i] = rip
    OBVIOUS
  <2>2. PICK k \in 1 .. m : e[k] = i
    BY DEF Enumerates
  <2> QED
    BY <2>1, <2>2
<1>5. ASSUME NEW k \in 1 .. m, NEW l \in 1 .. m, r[k].m_Rip = r[l].m_Rip
      PROVE  k = l
  <2>1. addresses[e[k]] = addresses[e[l]]
    BY <1>5
  <2>2. PICK i \in 1 .. n, j \in 1 .. n : i = e[k] /\ j = e[l]
    BY <1>1
  <2>3. i = j
    BY <2>1, <2>2
  <2>4. e[k] = e[l]
    BY <2>2, <2>3
  <2> QED
    BY <2>4 DEF Enumerates
<1> QED
  BY <1>2, <1>3, <1>4, <1>5 DEF AreSymbolsOf

\* The module that has an address, by its place in the order of the modules.
IsModuleOf(modules, order, addresses, moduleOf) ==
  \A a \in DOMAIN addresses :
    /\ moduleOf[a] \in Nat
    /\ moduleOf[a] # 0 => order[moduleOf[a]] \in DOMAIN modules /\ InSegment(addresses[a], modules[order[moduleOf[a]]])
    /\ moduleOf[a] = 0 => \A j \in DOMAIN modules : ~InSegment(addresses[a], modules[j])

LEMMA ModulesInOrder ==
  ASSUME NEW S, NEW modules \in Seq(S), \A i \in DOMAIN modules : modules[i].m_ImageBase \in Nat,
         NEW order, order = Order([i \in DOMAIN modules |-> modules[i].m_ImageBase])
  PROVE  \E n \in Nat : DOMAIN modules = 1 .. n /\ Enumerates(order, 1 .. n, n)
<1>1. PICK n \in Nat : DOMAIN modules = 1 .. n
  OBVIOUS
<1>2. PICK bases : bases = [i \in DOMAIN modules |-> modules[i].m_ImageBase]
  OBVIOUS
<1>3. \A i \in 1 .. n : bases[i] \in Int
  BY <1>1, <1>2
<1>4. bases \in Seq(Int) /\ DOMAIN bases = 1 .. n
  BY <1>1, <1>2, <1>3
<1> QED
  BY <1>1, <1>2, <1>4, PlacesSorted

ModulesByPlace(modules, order, addresses) ==
  [a \in DOMAIN addresses |-> FirstOf({j \in DOMAIN order : InSegment(addresses[a], modules[order[j]])})]

LEMMA ModulesOfAddresses ==
  ASSUME NEW n \in Nat, NEW order, NEW modules, DOMAIN modules = 1 .. n, Enumerates(order, 1 .. n, n),
         NEW m \in Nat, NEW addresses, DOMAIN addresses = 1 .. m,
         NEW moduleOf, moduleOf = ModulesByPlace(modules, order, addresses)
  PROVE  IsModuleOf(modules, order, addresses, moduleOf) /\ Evaluated(moduleOf) = moduleOf
<1>1. DOMAIN order = 1 .. n /\ (\A j \in 1 .. n : order[j] \in 1 .. n) /\ (\A i \in 1 .. n : \E j \in 1 .. n : order[j] = i)
  BY DEF Enumerates
<1>2. ASSUME NEW a \in 1 .. m
      PROVE  /\ moduleOf[a] \in Nat
             /\ moduleOf[a] # 0 => order[moduleOf[a]] \in DOMAIN modules /\ InSegment(addresses[a], modules[order[moduleOf[a]]])
             /\ moduleOf[a] = 0 => \A j \in DOMAIN modules : ~InSegment(addresses[a], modules[j])
  <2>1. PICK H : H = {j \in 1 .. n : InSegment(addresses[a], modules[order[j]])}
    OBVIOUS
  <2>2. H \in SUBSET (Nat \ {0})
    BY <2>1
  <2>3. moduleOf[a] = FirstOf(H)
    BY <1>1, <2>1 DEF ModulesByPlace
  <2>4. (H = {} => FirstOf(H) = 0) /\ (H # {} => FirstOf(H) \in H)
    BY <2>2, FirstIsOne
  <2>5. CASE H = {}
    <3>1. \A j \in 1 .. n : ~InSegment(addresses[a], modules[order[j]])
      BY <2>1, <2>5
    <3>2. \A j \in 1 .. n : ~InSegment(addresses[a], modules[j])
      BY <1>1, <3>1
    <3> QED
      BY <2>3, <2>4, <2>5, <3>2
  <2>6. CASE H # {}
    <3>1. PICK j \in 1 .. n : j = moduleOf[a] /\ InSegment(addresses[a], modules[order[j]])
      BY <2>1, <2>3, <2>4, <2>6
    <3>2. order[j] \in 1 .. n
      BY <1>1
    <3> QED
      BY <3>1, <3>2
  <2> QED
    BY <2>5, <2>6
<1>3. \A a \in 1 .. m : moduleOf[a] \in Nat
  BY <1>2
<1>4. moduleOf \in Seq(Nat)
  BY <1>3 DEF ModulesByPlace
<1>5. Evaluated(moduleOf) = moduleOf
  BY <1>4, EvaluatedIsItself
<1> QED
  BY <1>2, <1>5 DEF IsModuleOf

LinuxSymbol(rip, of, known, i) == Symbol(rip, LinuxName(rip, of, known), known[rip].file, LinuxLine(rip, known), i - 1)

\* The local definitions of ResolveSymbols.
AreLinuxPlaces(modules, stacks, nodes, order, addresses, moduleOf, found, byModule) ==
  /\ order = Order([i \in DOMAIN modules |-> modules[i].m_ImageBase])
  /\ addresses = Addresses(stacks, nodes)
  /\ moduleOf = Evaluated(ModulesByPlace(modules, order, addresses))
  /\ found = Selected([a \in DOMAIN addresses |-> a], {a \in DOMAIN addresses : moduleOf[a] # 0})
  /\ byModule = Order([k \in DOMAIN found |-> moduleOf[found[k]]])

LEMMA LinuxSteps ==
  ASSUME NEW modules, NEW names, NEW stacks, NEW nodes, NEW known,
         NEW order, NEW addresses, NEW moduleOf, NEW found, NEW byModule,
         AreLinuxPlaces(modules, stacks, nodes, order, addresses, moduleOf, found, byModule)
  PROVE  LinuxResolveSymbols(modules, names, stacks, nodes, known)
           = Evaluated([k \in DOMAIN found |->
               LinuxSymbol(addresses[found[byModule[k]]], names[order[moduleOf[found[byModule[k]]]]], known,
                           moduleOf[found[byModule[k]]])])
  BY ZenonT(60) DEF LinuxResolveSymbols, LinuxSymbol, AreLinuxPlaces, ModulesByPlace

\* The addresses of a file that one of its modules holds.
HeldAddresses(modules, stacks, nodes) ==
  {rip \in AddressesOf(stacks, nodes) : \E j \in DOMAIN modules : InSegment(rip, modules[j])}

\* The names of addresses: those of the symbols, on Linux.
IsLinuxNames(modules, names, stacks, nodes, known, name, file_, line) ==
  \A rip \in HeldAddresses(modules, stacks, nodes) :
    /\ file_[rip] = known[rip].file /\ line[rip] = LinuxLine(rip, known)
    /\ \A j \in DOMAIN modules : InSegment(rip, modules[j]) => name[rip] = LinuxName(rip, names[j], known)

LEMMA LinuxSymbols ==
  ASSUME NEW S, NEW modules \in Seq(S), \A i \in DOMAIN modules : modules[i].m_ImageBase \in Nat,
         NEW names, NEW stacks \in Seq(Nat), NEW T, NEW nodes \in Seq(T),
         \A i \in DOMAIN nodes : nodes[i].m_Rip \in Nat, NEW known, NEW name, NEW file_, NEW line,
         IsLinuxNames(modules, names, stacks, nodes, known, name, file_, line)
  PROVE  AreSymbolsOf(LinuxResolveSymbols(modules, names, stacks, nodes, known),
                      HeldAddresses(modules, stacks, nodes), name, file_, line)
<1>1. PICK order : order = Order([i \in DOMAIN modules |-> modules[i].m_ImageBase])
  OBVIOUS
<1>2. PICK c \in Nat : DOMAIN modules = 1 .. c /\ Enumerates(order, 1 .. c, c)
  BY <1>1, ModulesInOrder
<1>3. PICK addresses : addresses = Addresses(stacks, nodes)
  OBVIOUS
<1>4. /\ addresses \in Seq(Nat)
      /\ \A k \in DOMAIN addresses : addresses[k] \in AddressesOf(stacks, nodes)
      /\ \A rip \in AddressesOf(stacks, nodes) : \E k \in DOMAIN addresses : addresses[k] = rip
      /\ \A k, l \in DOMAIN addresses : addresses[k] = addresses[l] => k = l
  BY <1>3, AddressesOnce
<1>5. PICK n \in Nat : DOMAIN addresses = 1 .. n
  BY <1>4
<1>6. PICK moduleOf : moduleOf = ModulesByPlace(modules, order, addresses)
  OBVIOUS
<1>7. IsModuleOf(modules, order, addresses, moduleOf) /\ Evaluated(moduleOf) = moduleOf
  BY <1>2, <1>5, <1>6, ModulesOfAddresses
<1>8. PICK I : I = {a \in DOMAIN addresses : moduleOf[a] # 0}
  OBVIOUS
<1>9. PICK found : found = Selected([a \in DOMAIN addresses |-> a], I)
  OBVIOUS
<1>10. I \in SUBSET (1 .. n)
  BY <1>5, <1>8
<1>11. PICK m \in Nat : Enumerates(found, I, m)
  BY <1>5, <1>9, <1>10, PlacesSelected
<1>12. DOMAIN found = 1 .. m /\ \A k \in 1 .. m : found[k] \in I
  BY <1>11 DEF Enumerates
<1>13. PICK keys : keys = [k \in DOMAIN found |-> moduleOf[found[k]]]
  OBVIOUS
<1>14. \A k \in 1 .. m : keys[k] \in Int
  <2>1. \A a \in 1 .. n : moduleOf[a] \in Nat
    BY <1>5, <1>7 DEF IsModuleOf
  <2> SUFFICES ASSUME NEW k \in 1 .. m PROVE keys[k] \in Int
    OBVIOUS
  <2>2. PICK a \in 1 .. n : a = found[k]
    BY <1>10, <1>12
  <2>3. keys[k] = moduleOf[a]
    BY <1>12, <1>13, <2>2
  <2>4. PICK i \in Nat : i = moduleOf[a]
    BY <2>1
  <2> QED
    BY <2>3, <2>4
<1>15. keys \in Seq(Int) /\ DOMAIN keys = 1 .. m
  <2>1. DOMAIN keys = 1 .. m /\ keys = [k \in 1 .. m |-> keys[k]]
    BY <1>12, <1>13
  <2>2. keys \in [1 .. m -> Int]
    BY <1>14, <2>1
  <2> QED
    BY <2>1, <2>2
<1>16. PICK byModule : byModule = Order(keys)
  OBVIOUS
<1>17. Enumerates(byModule, 1 .. m, m)
  BY <1>15, <1>16, PlacesSorted
<1>18. PICK e : e = [k \in 1 .. m |-> found[byModule[k]]]
  OBVIOUS
<1>19. Enumerates(e, I, m)
  BY <1>11, <1>17, <1>18, PlacesOfPlaces
<1>20. PICK r : r = [k \in 1 .. m |-> LinuxSymbol(addresses[e[k]], names[order[moduleOf[e[k]]]], known, moduleOf[e[k]])]
  OBVIOUS
<1>21. DOMAIN r = 1 .. m /\ r = [k \in 1 .. m |-> r[k]]
       /\ \A k \in 1 .. m : r[k] = LinuxSymbol(addresses[e[k]], names[order[moduleOf[e[k]]]], known, moduleOf[e[k]])
  BY <1>20
<1>22. LinuxResolveSymbols(modules, names, stacks, nodes, known) = Evaluated(r)
  <2>1. AreLinuxPlaces(modules, stacks, nodes, order, addresses, moduleOf, found, byModule)
    BY <1>1, <1>3, <1>6, <1>7, <1>8, <1>9, <1>13, <1>16 DEF AreLinuxPlaces
  <2>4. LinuxResolveSymbols(modules, names, stacks, nodes, known)
           = Evaluated([k \in DOMAIN found |->
               LinuxSymbol(addresses[found[byModule[k]]], names[order[moduleOf[found[byModule[k]]]]], known,
                           moduleOf[found[byModule[k]]])])
    BY <2>1, LinuxSteps
  <2>5. [k \in DOMAIN found |->
               LinuxSymbol(addresses[found[byModule[k]]], names[order[moduleOf[found[byModule[k]]]]], known,
                           moduleOf[found[byModule[k]]])] = r
    BY <1>12, <1>18, <1>20
  <2> QED
    BY <2>4, <2>5
<1>23. HeldAddresses(modules, stacks, nodes) = {addresses[i] : i \in I}
  <2>1. ASSUME NEW a \in 1 .. n
        PROVE  a \in I <=> \E j \in DOMAIN modules : InSegment(addresses[a], modules[j])
    BY <1>5, <1>7, <1>8 DEF IsModuleOf
  <2>2. ASSUME NEW rip \in HeldAddresses(modules, stacks, nodes)
        PROVE  \E i \in I : addresses[i] = rip
    <3>1. PICK a \in 1 .. n : addresses[a] = rip
      BY <1>4, <1>5 DEF HeldAddresses
    <3> QED
      BY <2>1, <3>1 DEF HeldAddresses
  <2>3. ASSUME NEW i \in I
        PROVE  addresses[i] \in HeldAddresses(modules, stacks, nodes)
    BY <1>4, <1>5, <1>10, <2>1 DEF HeldAddresses
  <2> QED
    BY <2>2, <2>3
<1>24. ASSUME NEW k \in 1 .. m
       PROVE  /\ r[k].m_Rip = addresses[e[k]]
              /\ r[k].m_SymbolName = name[addresses[e[k]]]
              /\ r[k].m_FileName = file_[addresses[e[k]]]
              /\ r[k].m_LineNumber = line[addresses[e[k]]]
  <2>1. PICK a \in I : a = e[k]
    BY <1>19 DEF Enumerates
  <2>2. addresses[a] \in HeldAddresses(modules, stacks, nodes)
    BY <1>23
  <2>3. PICK i : i = moduleOf[a] /\ order[i] \in DOMAIN modules /\ InSegment(addresses[a], modules[order[i]])
    BY <1>7, <1>8 DEF IsModuleOf
  <2>4. /\ name[addresses[a]] = LinuxName(addresses[a], names[order[i]], known)
        /\ file_[addresses[a]] = known[addresses[a]].file
        /\ line[addresses[a]] = LinuxLine(addresses[a], known)
    BY <2>2, <2>3 DEF IsLinuxNames
  <2>5. r[k] = Symbol(addresses[a], LinuxName(addresses[a], names[order[i]], known),
                      known[addresses[a]].file, LinuxLine(addresses[a], known), i - 1)
    BY <1>21, <2>1, <2>3 DEF LinuxSymbol
  <2>6. /\ r[k].m_Rip = addresses[a] /\ r[k].m_SymbolName = LinuxName(addresses[a], names[order[i]], known)
        /\ r[k].m_FileName = known[addresses[a]].file /\ r[k].m_LineNumber = LinuxLine(addresses[a], known)
    BY <2>5 DEF Symbol
  <2> QED
    BY <2>1, <2>4, <2>6
<1>25. IsInjectiveUpTo(addresses, n) /\ AreSymbolsAt(r, m, addresses, e, name, file_, line)
  BY <1>4, <1>5, <1>21, <1>24 DEF IsInjectiveUpTo, AreSymbolsAt
<1>26. AreSymbolsOf(r, HeldAddresses(modules, stacks, nodes), name, file_, line) /\ Evaluated(r) = r
  <2>1. PICK A : A = {addresses[i] : i \in I}
    OBVIOUS
  <2>2. AreSymbolsOf(r, A, name, file_, line) /\ Evaluated(r) = r
    BY <1>10, <1>19, <1>25, <2>1, SymbolsOfPlaces
  <2> QED
    BY <1>23, <2>1, <2>2
<1> QED
  BY <1>22, <1>26

IsWindowsNames(modules, stacks, nodes, known, any, name, file_, line) ==
  \A rip \in AddressesOf(stacks, nodes) :
    LET named == KnownModule(rip, modules) /\ known[rip].addr2line # Unknown
    IN  /\ name[rip] = IF named THEN known[rip].addr2line ELSE AddressName(rip)
        /\ file_[rip] = IF named /\ known[rip].line # NoLineNumber THEN known[rip].file ELSE EmptyString
        /\ line[rip] = IF named /\ known[rip].line # NoLineNumber THEN known[rip].line ELSE any

WindowsSymbol(rip, modules, known, any) ==
  LET named == KnownModule(rip, modules) /\ known[rip].addr2line # Unknown
      lined == named /\ known[rip].line # NoLineNumber
  IN Symbol(rip, IF named THEN known[rip].addr2line ELSE AddressName(rip),
            IF lined THEN known[rip].file ELSE EmptyString,
            IF lined THEN known[rip].line ELSE any,
            FirstOf({j \in DOMAIN modules : InImage(rip, modules[j])}) - 1)

LEMMA WindowsSymbols ==
  ASSUME NEW modules, NEW stacks \in Seq(Nat), NEW T, NEW nodes \in Seq(T),
         \A i \in DOMAIN nodes : nodes[i].m_Rip \in Nat, NEW known, NEW any, NEW name, NEW file_, NEW line,
         IsWindowsNames(modules, stacks, nodes, known, any, name, file_, line)
  PROVE  AreSymbolsOf(WindowsResolveSymbols(modules, stacks, nodes, known, any),
                      AddressesOf(stacks, nodes), name, file_, line)
<1>1. PICK addresses : addresses = Addresses(stacks, nodes)
  OBVIOUS
<1>2. /\ addresses \in Seq(Nat)
      /\ \A k \in DOMAIN addresses : addresses[k] \in AddressesOf(stacks, nodes)
      /\ \A rip \in AddressesOf(stacks, nodes) : \E k \in DOMAIN addresses : addresses[k] = rip
      /\ \A k, l \in DOMAIN addresses : addresses[k] = addresses[l] => k = l
  BY <1>1, AddressesOnce
<1>3. PICK n \in Nat : DOMAIN addresses = 1 .. n
  BY <1>2
<1>4. PICK r : r = [k \in DOMAIN addresses |-> WindowsSymbol(addresses[k], modules, known, any)]
  OBVIOUS
<1>5. WindowsResolveSymbols(modules, stacks, nodes, known, any) = Evaluated(r)
  BY <1>1, <1>4 DEF WindowsResolveSymbols, WindowsSymbol
<1>6. DOMAIN r = 1 .. n /\ r = [k \in 1 .. n |-> r[k]]
      /\ \A k \in 1 .. n : r[k] = WindowsSymbol(addresses[k], modules, known, any)
  BY <1>3, <1>4
<1>7. PICK e : e = [k \in 1 .. n |-> k]
  OBVIOUS
<1>8. Enumerates(e, 1 .. n, n)
  BY <1>7 DEF Enumerates
<1>9. ASSUME NEW k \in 1 .. n
      PROVE  /\ r[k].m_Rip = addresses[e[k]]
             /\ r[k].m_SymbolName = name[addresses[e[k]]]
             /\ r[k].m_FileName = file_[addresses[e[k]]]
             /\ r[k].m_LineNumber = line[addresses[e[k]]]
  <2>1. PICK rip \in AddressesOf(stacks, nodes) : rip = addresses[k] /\ e[k] = k
    BY <1>2, <1>3, <1>7
  <2>2. PICK named : named = (KnownModule(rip, modules) /\ known[rip].addr2line # Unknown)
    OBVIOUS
  <2>3. PICK name1, file1, line1, i1 :
          /\ name1 = IF named THEN known[rip].addr2line ELSE AddressName(rip)
          /\ file1 = IF named /\ known[rip].line # NoLineNumber THEN known[rip].file ELSE EmptyString
          /\ line1 = IF named /\ known[rip].line # NoLineNumber THEN known[rip].line ELSE any
          /\ i1 = FirstOf({j \in DOMAIN modules : InImage(rip, modules[j])}) - 1
    OBVIOUS
  <2>4. r[k] = Symbol(rip, name1, file1, line1, i1)
    BY <1>6, <2>1, <2>2, <2>3 DEF WindowsSymbol
  <2>5. r[k].m_Rip = rip /\ r[k].m_SymbolName = name1 /\ r[k].m_FileName = file1 /\ r[k].m_LineNumber = line1
    BY <2>4 DEF Symbol
  <2>6. name[rip] = name1 /\ file_[rip] = file1 /\ line[rip] = line1
    BY <2>2, <2>3 DEF IsWindowsNames
  <2> QED
    BY <2>1, <2>5, <2>6
<1>10. IsInjectiveUpTo(addresses, n) /\ AreSymbolsAt(r, n, addresses, e, name, file_, line)
  BY <1>2, <1>3, <1>6, <1>9 DEF IsInjectiveUpTo, AreSymbolsAt
<1>11. AddressesOf(stacks, nodes) = {addresses[i] : i \in 1 .. n}
  <2>1. \A rip \in AddressesOf(stacks, nodes) : \E i \in 1 .. n : addresses[i] = rip
    BY <1>2, <1>3
  <2>2. \A i \in 1 .. n : addresses[i] \in AddressesOf(stacks, nodes)
    BY <1>2, <1>3
  <2> QED
    BY <2>1, <2>2
<1>12. AreSymbolsOf(r, AddressesOf(stacks, nodes), name, file_, line) /\ Evaluated(r) = r
  BY <1>8, <1>10, <1>11, SymbolsOfPlaces
<1> QED
  BY <1>5, <1>12

\* The strings of symbols: the empty one, and every name and file once.
AreStringsOf(strings, resolved) ==
  /\ \E n \in Nat : DOMAIN strings = 1 .. n + 1
  /\ \A k \in DOMAIN resolved :
       /\ \E i \in DOMAIN strings : i >= 2 /\ strings[i] = resolved[k].m_SymbolName
       /\ \E i \in DOMAIN strings : i >= 2 /\ strings[i] = resolved[k].m_FileName
  /\ \A i, j \in DOMAIN strings : (i >= 2 /\ j >= 2 /\ strings[i] = strings[j]) => i = j

\* The names and files of symbols are strings of some set.
HaveStringsIn(resolved, T) ==
  \A k \in DOMAIN resolved : resolved[k].m_SymbolName \in T /\ resolved[k].m_FileName \in T

LEMMA NamesAndFilesOf ==
  ASSUME NEW S, NEW resolved \in Seq(S), NEW T, HaveStringsIn(resolved, T)
  PROVE  /\ NamesAndFiles(resolved) \in Seq(T)
         /\ \A k \in DOMAIN resolved :
              /\ \E i \in DOMAIN NamesAndFiles(resolved) : NamesAndFiles(resolved)[i] = resolved[k].m_SymbolName
              /\ \E i \in DOMAIN NamesAndFiles(resolved) : NamesAndFiles(resolved)[i] = resolved[k].m_FileName
<1>1. PICK n \in Nat : Len(resolved) = n /\ DOMAIN resolved = 1 .. n
  OBVIOUS
<1>2. PICK s : s = NamesAndFiles(resolved)
  OBVIOUS
<1>3. s = [k \in 1 .. 2 * n |->
             IF k % 2 = 1 THEN resolved[(k + 1) \div 2].m_SymbolName ELSE resolved[k \div 2].m_FileName]
  BY <1>1, <1>2 DEF NamesAndFiles
<1>4. 2 * n \in Nat /\ DOMAIN s = 1 .. 2 * n
  BY <1>3
<1>5. ASSUME NEW i \in 1 .. 2 * n PROVE s[i] \in T
  <2>1. CASE i % 2 = 1
    <3>1. PICK k \in 1 .. n : k = (i + 1) \div 2
      BY <2>1
    <3>2. s[i] = resolved[k].m_SymbolName
      BY <1>3, <2>1, <3>1
    <3> QED
      BY <1>1, <3>2 DEF HaveStringsIn
  <2>2. CASE i % 2 # 1
    <3>1. PICK k \in 1 .. n : k = i \div 2
      BY <2>2
    <3>2. s[i] = resolved[k].m_FileName
      BY <1>3, <2>2, <3>1
    <3> QED
      BY <1>1, <3>2 DEF HaveStringsIn
  <2> QED
    BY <2>1, <2>2
<1>6. s \in Seq(T)
  BY <1>3, <1>4, <1>5
<1>7. ASSUME NEW k \in 1 .. n
      PROVE  /\ \E i \in 1 .. 2 * n : s[i] = resolved[k].m_SymbolName
             /\ \E i \in 1 .. 2 * n : s[i] = resolved[k].m_FileName
  <2>1. PICK a, b : a = resolved[k].m_SymbolName /\ b = resolved[k].m_FileName
    OBVIOUS
  <2>2. 2 * k - 1 \in 1 .. 2 * n /\ (2 * k - 1) % 2 = 1 /\ ((2 * k - 1) + 1) \div 2 = k
    OBVIOUS
  <2>3. 2 * k \in 1 .. 2 * n /\ (2 * k) % 2 # 1 /\ (2 * k) \div 2 = k
    OBVIOUS
  <2>4. s[2 * k - 1] = a
    <3>1. PICK i \in 1 .. 2 * n : i = 2 * k - 1
      BY <2>2
    <3>2. i % 2 = 1 /\ (i + 1) \div 2 = k
      BY <2>2, <3>1
    <3>3. s[i] = resolved[(i + 1) \div 2].m_SymbolName
      BY <1>3, <3>2
    <3> QED
      BY <2>1, <3>1, <3>2, <3>3
  <2>5. s[2 * k] = b
    <3>1. PICK i \in 1 .. 2 * n : i = 2 * k
      BY <2>3
    <3>2. i % 2 # 1 /\ i \div 2 = k
      BY <2>3, <3>1
    <3>3. s[i] = resolved[i \div 2].m_FileName
      BY <1>3, <3>2
    <3> QED
      BY <2>1, <3>1, <3>2, <3>3
  <2> QED
    BY <2>1, <2>2, <2>3, <2>4, <2>5
<1> QED
  BY <1>1, <1>2, <1>4, <1>6, <1>7

LEMMA StringsInterned ==
  ASSUME NEW S, NEW resolved \in Seq(S), NEW T, HaveStringsIn(resolved, T), EmptyString \in T
  PROVE  /\ InternedStrings(resolved) \in Seq(T)
         /\ AreStringsOf(InternedStrings(resolved), resolved)
<1>1. PICK s : s = NamesAndFiles(resolved)
  OBVIOUS
<1>2. /\ s \in Seq(T)
      /\ \A k \in DOMAIN resolved :
           /\ \E i \in DOMAIN s : s[i] = resolved[k].m_SymbolName
           /\ \E i \in DOMAIN s : s[i] = resolved[k].m_FileName
  BY <1>1, NamesAndFilesOf
<1>3. PICK d : d = Distinct(s)
  OBVIOUS
<1>4. d \in Seq(T) /\ HasEachOnce(d, s)
  BY <1>2, <1>3, DistinctMembers
<1>5. PICK n \in Nat : n = Len(d) /\ DOMAIN d = 1 .. n
  BY <1>4
<1>6. PICK empty \in Seq(T) : empty = <<EmptyString>> /\ Len(empty) = 1
  BY OneElement
<1>7. PICK strings : strings = empty \o d
  OBVIOUS
<1>8. InternedStrings(resolved) = strings
  BY <1>1, <1>3, <1>6, <1>7 DEF InternedStrings
<1>9. strings \in Seq(T) /\ DOMAIN strings = 1 .. n + 1
  BY <1>4, <1>5, <1>6, <1>7
<1>10. ASSUME NEW i \in 2 .. n + 1 PROVE i - 1 \in 1 .. n /\ strings[i] = d[i - 1]
  BY <1>4, <1>5, <1>6, <1>7
<1>11. ASSUME NEW i \in 1 .. n PROVE \E j \in 2 .. n + 1 : strings[j] = d[i]
  <2>1. i + 1 \in 2 .. n + 1 /\ (i + 1) - 1 = i
    OBVIOUS
  <2>2. strings[i + 1] = d[(i + 1) - 1]
    BY <1>10, <2>1
  <2> QED
    BY <2>1, <2>2
<1>12. \A k \in DOMAIN resolved :
          /\ \E j \in 2 .. n + 1 : strings[j] = resolved[k].m_SymbolName
          /\ \E j \in 2 .. n + 1 : strings[j] = resolved[k].m_FileName
  <2> SUFFICES ASSUME NEW k \in DOMAIN resolved
               PROVE /\ \E j \in 2 .. n + 1 : strings[j] = resolved[k].m_SymbolName
                     /\ \E j \in 2 .. n + 1 : strings[j] = resolved[k].m_FileName
    OBVIOUS
  <2>1. PICK a \in 1 .. n : d[a] = resolved[k].m_SymbolName
    <3>1. PICK i \in DOMAIN s : s[i] = resolved[k].m_SymbolName
      BY <1>2
    <3>2. PICK a \in DOMAIN d : d[a] = s[i]
      BY <1>4 DEF HasEachOnce
    <3> QED
      BY <1>5, <3>1, <3>2
  <2>2. PICK b \in 1 .. n : d[b] = resolved[k].m_FileName
    <3>1. PICK i \in DOMAIN s : s[i] = resolved[k].m_FileName
      BY <1>2
    <3>2. PICK b \in DOMAIN d : d[b] = s[i]
      BY <1>4 DEF HasEachOnce
    <3> QED
      BY <1>5, <3>1, <3>2
  <2> QED
    BY <1>11, <2>1, <2>2
<1>13. ASSUME NEW i \in 2 .. n + 1, NEW j \in 2 .. n + 1, strings[i] = strings[j]
       PROVE  i = j
  <2>1. PICK a \in 1 .. n, b \in 1 .. n : a = i - 1 /\ b = j - 1
    BY <1>10
  <2>2. d[a] = d[b]
    BY <1>10, <1>13, <2>1
  <2>3. a = b
    BY <1>4, <1>5, <2>2 DEF HasEachOnce
  <2> QED
    BY <2>1, <2>3
<1>14. AreStringsOf(strings, resolved)
  <2>1. \A i \in DOMAIN strings : i >= 2 => i \in 2 .. n + 1
    BY <1>9
  <2>2. \A i \in 2 .. n + 1 : i \in DOMAIN strings /\ i >= 2
    BY <1>9
  <2> QED
    BY <1>9, <1>12, <1>13, <2>1, <2>2 DEF AreStringsOf
<1> QED
  BY <1>8, <1>9, <1>14

SearchUpTo(symbols, rip, n, m, g) ==
  g = [k \in 0 .. m |-> IF k = 0 THEN [first |-> 1, last |-> n + 1] ELSE Halved(symbols, rip, g[k - 1])]

LEMMA SearchExists ==
  ASSUME NEW symbols, NEW rip, NEW n \in Nat
  PROVE  \A m \in Nat : \E g : SearchUpTo(symbols, rip, n, m, g)
<1> DEFINE start == [first |-> 1, last |-> n + 1]
           P == {m \in Nat : \E g : SearchUpTo(symbols, rip, n, m, g)}
<1>1. 0 \in P
  <2>1. SearchUpTo(symbols, rip, n, 0, [k \in 0 .. 0 |-> start])
    BY DEF SearchUpTo
  <2> QED
    BY <2>1
<1>2. ASSUME NEW m \in Nat, m \in P
      PROVE  m + 1 \in P
  <2>1. PICK g : SearchUpTo(symbols, rip, n, m, g)
    BY <1>2
  <2> DEFINE h == [k \in 0 .. m + 1 |-> IF k = m + 1 THEN Halved(symbols, rip, g[m]) ELSE g[k]]
  <2>2. g = [k \in 0 .. m |-> IF k = 0 THEN start ELSE Halved(symbols, rip, g[k - 1])]
    BY <2>1 DEF SearchUpTo
  <2>3. ASSUME NEW k \in 0 .. m + 1
        PROVE  h[k] = IF k = 0 THEN start ELSE Halved(symbols, rip, h[k - 1])
    <3>1. CASE k = m + 1
      <4>1. k # 0 /\ k - 1 = m /\ m \in 0 .. m + 1 /\ m # m + 1
        BY <3>1
      <4>2. h[k] = Halved(symbols, rip, g[m]) /\ h[m] = g[m]
        BY <3>1, <4>1
      <4> QED
        BY <4>1, <4>2
    <3>2. CASE k # m + 1
      <4>1. k \in 0 .. m /\ (k # 0 => k - 1 \in 0 .. m /\ k - 1 # m + 1 /\ k - 1 \in 0 .. m + 1)
        BY <3>2
      <4>2. g[k] = IF k = 0 THEN start ELSE Halved(symbols, rip, g[k - 1])
        BY <2>2, <4>1
      <4>3. h[k] = g[k] /\ (k # 0 => h[k - 1] = g[k - 1])
        BY <3>2, <4>1
      <4> QED
        BY <4>2, <4>3
    <3> QED
      BY <3>1, <3>2
  <2>4. SearchUpTo(symbols, rip, n, m + 1, h)
    <3>1. h = [k \in 0 .. m + 1 |-> h[k]]
      OBVIOUS
    <3> HIDE DEF h
    <3> QED
      BY <2>3, <3>1, ZenonT(30) DEF SearchUpTo
  <2> QED
    BY <2>4
<1> HIDE DEF P
<1>3. \A m \in Nat : m \in P
  BY <1>1, <1>2, Induction
<1> QED
  BY <1>3 DEF P

\* What the loop of lower_bound keeps true: what is before the range is less
\* than the address, and what is behind it is not.
RangeHolds(symbols, rip, n, k, b) ==
  /\ b \in [first : 1 .. n + 1, last : 1 .. n + 1]
  /\ b.first <= b.last /\ b.last - b.first <= n - k
  /\ \A j \in 1 .. n : j < b.first => symbols[j].m_Rip < rip
  /\ \A j \in 1 .. n : b.last <= j => symbols[j].m_Rip >= rip

IsSortedTable(symbols, n) ==
  /\ DOMAIN symbols = 1 .. n
  /\ \A j \in 1 .. n : symbols[j].m_Rip \in Nat
  /\ \A j, k \in 1 .. n : j < k => symbols[j].m_Rip < symbols[k].m_Rip

LEMMA HalvedHolds ==
  ASSUME NEW n \in Nat, NEW symbols, IsSortedTable(symbols, n), NEW rip \in Nat, NEW k \in 0 .. n - 1,
         NEW b, RangeHolds(symbols, rip, n, k, b)
  PROVE  RangeHolds(symbols, rip, n, k + 1, Halved(symbols, rip, b))
<1>1. PICK first \in 1 .. n + 1, last \in 1 .. n + 1 :
         first = b.first /\ last = b.last /\ b = [first |-> first, last |-> last]
  BY DEF RangeHolds
<1>2. first <= last /\ last - first <= n - k
  BY <1>1 DEF RangeHolds
<1>3. CASE first = last
  <2>1. Halved(symbols, rip, b) = b
    BY <1>1, <1>3 DEF Halved
  <2> QED
    BY <1>1, <1>3, <2>1 DEF RangeHolds
<1>4. CASE first < last
  <2>1. PICK middle \in 1 .. n : middle = first + (last - first) \div 2 /\ first <= middle /\ middle < last
    BY <1>4
  <2>2. CASE symbols[middle].m_Rip < rip
    <3>1. PICK c : c = [first |-> middle + 1, last |-> last]
      OBVIOUS
    <3>2. Halved(symbols, rip, b) = c
      BY <1>1, <1>4, <2>1, <2>2, <3>1 DEF Halved
    <3>3. c.first = middle + 1 /\ c.last = last /\ c \in [first : 1 .. n + 1, last : 1 .. n + 1]
      BY <2>1, <3>1
    <3>4. \A j \in 1 .. n : j < middle + 1 => symbols[j].m_Rip < rip
      <4> SUFFICES ASSUME NEW j \in 1 .. n, j < middle + 1 PROVE symbols[j].m_Rip < rip
        OBVIOUS
      <4>1. symbols[j].m_Rip \in Nat /\ symbols[middle].m_Rip \in Nat
        BY <2>1 DEF IsSortedTable
      <4>2. j = middle \/ symbols[j].m_Rip < symbols[middle].m_Rip
        BY <2>1 DEF IsSortedTable
      <4> QED
        BY <2>2, <4>1, <4>2
    <3>5. \A j \in 1 .. n : last <= j => symbols[j].m_Rip >= rip
      BY <1>1 DEF RangeHolds
    <3>6. middle + 1 <= last /\ last - (middle + 1) <= n - (k + 1)
      BY <1>2, <2>1
    <3> QED
      BY <3>2, <3>3, <3>4, <3>5, <3>6 DEF RangeHolds
  <2>3. CASE ~(symbols[middle].m_Rip < rip)
    <3>1. PICK c : c = [first |-> first, last |-> middle]
      OBVIOUS
    <3>2. Halved(symbols, rip, b) = c
      BY <1>1, <1>4, <2>1, <2>3, <3>1 DEF Halved
    <3>3. c.first = first /\ c.last = middle /\ c \in [first : 1 .. n + 1, last : 1 .. n + 1]
      BY <2>1, <3>1
    <3>4. \A j \in 1 .. n : middle <= j => symbols[j].m_Rip >= rip
      <4> SUFFICES ASSUME NEW j \in 1 .. n, middle <= j PROVE symbols[j].m_Rip >= rip
        OBVIOUS
      <4>1. symbols[j].m_Rip \in Nat /\ symbols[middle].m_Rip \in Nat
        BY <2>1 DEF IsSortedTable
      <4>2. j = middle \/ symbols[middle].m_Rip < symbols[j].m_Rip
        BY <2>1 DEF IsSortedTable
      <4> QED
        BY <2>3, <4>1, <4>2
    <3>5. \A j \in 1 .. n : j < first => symbols[j].m_Rip < rip
      BY <1>1 DEF RangeHolds
    <3>6. first <= middle /\ middle - first <= n - (k + 1)
      BY <1>2, <2>1
    <3> QED
      BY <3>2, <3>3, <3>4, <3>5, <3>6 DEF RangeHolds
  <2> QED
    BY <2>2, <2>3
<1> QED
  BY <1>2, <1>3, <1>4

\* FindSymbol's binary search: in a sorted table of any size it finds the symbol
\* of an address if there is one, and no other.
THEOREM SymbolIsFound ==
  ASSUME NEW f, NEW n \in Nat, IsSortedTable(GetSymbols(f), n), NEW rip \in Nat
  PROVE  /\ FindSymbol(f, rip) # NoSymbol =>
              FindSymbol(f, rip) \in 1 .. n /\ GetSymbols(f)[FindSymbol(f, rip)].m_Rip = rip
         /\ FindSymbol(f, rip) = NoSymbol => \A k \in 1 .. n : GetSymbols(f)[k].m_Rip # rip
<1>1. PICK symbols : symbols = GetSymbols(f)
  OBVIOUS
<1>2. Len(symbols) = n /\ IsSortedTable(symbols, n)
  BY <1>1 DEF IsSortedTable
<1> DEFINE g == CHOOSE g : SearchUpTo(symbols, rip, n, n, g)
<1>3. SearchUpTo(symbols, rip, n, n, g)
  BY SearchExists
<1>4. FindSymbol(f, rip) = IF g[n].first > n THEN NoSymbol
                           ELSE IF symbols[g[n].first].m_Rip # rip THEN NoSymbol ELSE g[n].first
  BY <1>1, <1>2 DEF FindSymbol, SearchUpTo
<1> HIDE DEF g
<1> DEFINE P == {k \in Nat : k <= n => RangeHolds(symbols, rip, n, k, g[k])}
<1>5. 0 \in P
  <2>1. g[0] = [first |-> 1, last |-> n + 1]
    BY <1>3 DEF SearchUpTo
  <2>2. RangeHolds(symbols, rip, n, 0, g[0])
    BY <2>1 DEF RangeHolds
  <2> QED
    BY <2>2
<1>6. ASSUME NEW k \in Nat, k \in P PROVE k + 1 \in P
  <2> SUFFICES ASSUME k + 1 <= n PROVE RangeHolds(symbols, rip, n, k + 1, g[k + 1])
    OBVIOUS
  <2>1. k \in 0 .. n - 1 /\ k + 1 \in 0 .. n /\ k + 1 # 0 /\ (k + 1) - 1 = k
    OBVIOUS
  <2>2. g[k + 1] = Halved(symbols, rip, g[k])
    BY <1>3, <2>1 DEF SearchUpTo
  <2>3. RangeHolds(symbols, rip, n, k, g[k])
    BY <1>6, <2>1
  <2> QED
    BY <1>2, <2>1, <2>2, <2>3, HalvedHolds
<1> HIDE DEF P
<1>7. \A k \in Nat : k \in P
  BY <1>5, <1>6, Induction
<1>8. RangeHolds(symbols, rip, n, n, g[n])
  BY <1>7 DEF P
<1>9. PICK s \in 1 .. n + 1 : s = g[n].first /\ s = g[n].last
  BY <1>8 DEF RangeHolds
<1>10. /\ \A j \in 1 .. n : j < s => symbols[j].m_Rip < rip
       /\ \A j \in 1 .. n : s <= j => symbols[j].m_Rip >= rip
  BY <1>8, <1>9 DEF RangeHolds
<1>11. ASSUME NEW k \in 1 .. n, symbols[k].m_Rip = rip
       PROVE  s = k
  <2>1. s <= k
    BY <1>10, <1>11
  <2>2. ~ s < k
    <3> SUFFICES ASSUME s < k PROVE FALSE
      OBVIOUS
    <3>1. s \in 1 .. n /\ symbols[s].m_Rip < rip
      BY <1>2, <1>11 DEF IsSortedTable
    <3>2. symbols[s].m_Rip >= rip /\ symbols[s].m_Rip \in Nat
      BY <1>2, <1>10, <3>1 DEF IsSortedTable
    <3> QED
      BY <3>1, <3>2
  <2> QED
    BY <2>1, <2>2
<1>12. FindSymbol(f, rip) = IF s > n THEN NoSymbol ELSE IF symbols[s].m_Rip # rip THEN NoSymbol ELSE s
  BY <1>4, <1>9
<1> QED
  BY <1>1, <1>11, <1>12 DEF NoSymbol

ZeroedSizes(strings) == [i \in DOMAIN strings |-> StringBytes(strings[i])]

\* Two-byte characters are twice as far apart.
LEMMA TextOffsets ==
  ASSUME NEW T, NEW strings \in Seq(T), \A s \in T : s.len \in Nat
  PROVE  /\ ZeroedSizes(strings) \in Seq(Nat \ {0})
         /\ Len(ZeroedSizes(strings)) = Len(strings)
         /\ \A i \in 1 .. Len(strings) + 1 :
              Offsets(TextSizes(strings))[i] = SizeOfChar * Offsets(ZeroedSizes(strings))[i]
<1>1. PICK n \in Nat : n = Len(strings) /\ DOMAIN strings = 1 .. n
  OBVIOUS
<1>2. PICK a, b : a = ZeroedSizes(strings) /\ b = TextSizes(strings)
  OBVIOUS
<1>3. \A i \in 1 .. n : strings[i].len \in Nat
  BY <1>1
<1>4. DOMAIN a = 1 .. n /\ DOMAIN b = 1 .. n
      /\ \A i \in 1 .. n : a[i] \in Nat \ {0} /\ b[i] \in Nat /\ b[i] = 2 * a[i]
  BY <1>1, <1>2, <1>3 DEF ZeroedSizes, TextSizes, StringBytes, SizeOfChar
<1>5. a \in Seq(Nat \ {0}) /\ Len(a) = n
  BY <1>1, <1>2, <1>4 DEF ZeroedSizes
<1>6. b \in Seq(Nat) /\ Len(b) = n
  BY <1>1, <1>2, <1>4 DEF TextSizes
<1>7. a \in Seq(Nat)
  BY <1>5
<1> DEFINE P == {m \in Nat : m <= n => Offsets(b)[m + 1] = 2 * Offsets(a)[m + 1]}
<1>8. 0 \in P
  BY <1>6, <1>7, OffsetsAreSums
<1>9. ASSUME NEW m \in Nat, m \in P PROVE m + 1 \in P
  <2> SUFFICES ASSUME m + 1 <= n PROVE Offsets(b)[(m + 1) + 1] = 2 * Offsets(a)[(m + 1) + 1]
    OBVIOUS
  <2>1. m + 1 \in 1 .. n /\ m + 1 \in 1 .. n + 1
    OBVIOUS
  <2>2. Offsets(b)[(m + 1) + 1] = Offsets(b)[m + 1] + b[m + 1]
    BY <1>6, <2>1, OffsetsAreSums
  <2>3. Offsets(a)[(m + 1) + 1] = Offsets(a)[m + 1] + a[m + 1]
    BY <1>5, <1>7, <2>1, OffsetsAreSums
  <2>4. Offsets(a)[m + 1] \in Nat /\ Offsets(b)[m + 1] = 2 * Offsets(a)[m + 1]
    BY <1>5, <1>7, <1>9, <2>1, OffsetsType
  <2>5. b[m + 1] = 2 * a[m + 1] /\ a[m + 1] \in Nat
    BY <1>4, <2>1
  <2> QED
    BY <2>2, <2>3, <2>4, <2>5
<1> HIDE DEF P
<1>10. \A m \in Nat : m \in P
  BY <1>8, <1>9, Induction
<1>11. ASSUME NEW i \in 1 .. n + 1 PROVE Offsets(b)[i] = 2 * Offsets(a)[i]
  <2>1. i - 1 \in P /\ i - 1 <= n /\ (i - 1) + 1 = i
    BY <1>10
  <2> QED
    BY <2>1 DEF P
<1> QED
  BY <1>1, <1>2, <1>5, <1>11 DEF SizeOfChar

\* o is where the string s is.
IsOffsetOf(strings, o, s) ==
  \E i \in DOMAIN strings : i >= 2 /\ strings[i] = s /\ o = Offsets(ZeroedSizes(strings))[i]

LEMMA OffsetOfString ==
  ASSUME NEW T, NEW strings \in Seq(T), NEW i \in DOMAIN strings, i >= 2, NEW s, strings[i] = s
  PROVE  IsOffsetOf(strings, StringOffset(strings, s), s)
<1>1. PICK j : j = CHOOSE k \in 2 .. Len(strings) : strings[k] = s
  OBVIOUS
<1>2. j \in 2 .. Len(strings) /\ strings[j] = s
  <2>1. i \in 2 .. Len(strings)
    OBVIOUS
  <2> QED
    BY <1>1, <2>1
<1>3. StringOffset(strings, s) = Offsets(ZeroedSizes(strings))[j]
  BY <1>1 DEF StringOffset, ZeroedSizes
<1>4. j \in DOMAIN strings /\ j >= 2
  BY <1>2
<1> QED
  BY <1>2, <1>3, <1>4 DEF IsOffsetOf

\* The symbols as they are written: one for each address of A, sorted, with the
\* offsets of its name and its file.
IsSymbolTable(symbols, strings, A, name, file_, line) ==
  /\ \E n \in Nat : IsSortedTable(symbols, n)
  /\ symbols \in Seq({symbols[k] : k \in DOMAIN symbols})
  /\ \A k \in DOMAIN symbols :
       /\ symbols[k].m_Rip \in A
       /\ IsOffsetOf(strings, symbols[k].m_SymbolName, name[symbols[k].m_Rip])
       /\ IsOffsetOf(strings, symbols[k].m_FileName, file_[symbols[k].m_Rip])
       /\ symbols[k].m_LineNumber = line[symbols[k].m_Rip]
  /\ \A rip \in A : \E k \in DOMAIN symbols : symbols[k].m_Rip = rip

SerializedSymbol(strings, symbol) ==
  [m_Rip |-> symbol.m_Rip,
   m_SymbolName |-> StringOffset(strings, symbol.m_SymbolName),
   m_FileName |-> StringOffset(strings, symbol.m_FileName),
   m_LineNumber |-> symbol.m_LineNumber,
   m_ModuleIndex |-> symbol.m_ModuleIndex]

LEMMA SymbolsSerialized ==
  ASSUME NEW resolved, NEW A \in SUBSET Nat, NEW name, NEW file_, NEW line, AreSymbolsOf(resolved, A, name, file_, line),
         NEW T, EmptyString \in T, \A rip \in A : name[rip] \in T /\ file_[rip] \in T
  PROVE  /\ InternedStrings(resolved) \in Seq(T)
         /\ IsSymbolTable(SerializedSymbols(resolved), InternedStrings(resolved), A, name, file_, line)
<1>1. PICK S : resolved \in Seq(S)
  BY DEF AreSymbolsOf
<1>2. PICK n \in Nat : DOMAIN resolved = 1 .. n
  BY <1>1
<1>3. HaveStringsIn(resolved, T)
  BY DEF AreSymbolsOf, HaveStringsIn
<1>4. PICK strings : strings = InternedStrings(resolved)
  OBVIOUS
<1>5. strings \in Seq(T) /\ AreStringsOf(strings, resolved)
  BY <1>1, <1>3, <1>4, StringsInterned
<1>6. PICK keys : keys = [k \in 1 .. n |-> resolved[k].m_Rip]
  OBVIOUS
<1>7. \A k \in 1 .. n : keys[k] \in Int /\ keys[k] = resolved[k].m_Rip
  <2> SUFFICES ASSUME NEW k \in 1 .. n PROVE keys[k] \in Int /\ keys[k] = resolved[k].m_Rip
    OBVIOUS
  <2>1. resolved[k].m_Rip \in A
    BY <1>2 DEF AreSymbolsOf
  <2>2. PICK rip \in Nat : rip = resolved[k].m_Rip
    BY <2>1
  <2>3. keys[k] = rip
    BY <1>6, <2>2
  <2> QED
    BY <2>2, <2>3
<1>8. keys \in Seq(Int) /\ DOMAIN keys = 1 .. n
  BY <1>6, <1>7
<1>9. PICK order : order = Order(keys)
  OBVIOUS
<1>10. Enumerates(order, 1 .. n, n)
  BY <1>8, <1>9, PlacesSorted
<1>11. \A k, l \in 1 .. n : k < l => keys[order[k]] <= keys[order[l]]
  BY <1>8, <1>9, OrderOfKeys
<1>12. PICK symbols : symbols = [k \in 1 .. n |-> SerializedSymbol(strings, resolved[order[k]])]
  OBVIOUS
<1>13. DOMAIN order = 1 .. n /\ \A k \in 1 .. n : order[k] \in 1 .. n
  BY <1>10 DEF Enumerates
<1>14. SerializedSymbols(resolved) = symbols
  <2>1. PICK out : out = [i \in DOMAIN resolved |->
          [m_Rip |-> resolved[i].m_Rip,
           m_SymbolName |-> StringOffset(InternedStrings(resolved), resolved[i].m_SymbolName),
           m_FileName |-> StringOffset(InternedStrings(resolved), resolved[i].m_FileName),
           m_LineNumber |-> resolved[i].m_LineNumber,
           m_ModuleIndex |-> resolved[i].m_ModuleIndex]]
    OBVIOUS
  <2>2. [i \in DOMAIN out |-> resolved[i].m_Rip] = keys
    BY <1>2, <1>6, <2>1
  <2>3. SerializedSymbols(resolved) = [k \in DOMAIN Order([i \in DOMAIN out |-> resolved[i].m_Rip]) |->
                                         out[Order([i \in DOMAIN out |-> resolved[i].m_Rip])[k]]]
    BY <2>1 DEF SerializedSymbols
  <2>4. SerializedSymbols(resolved) = [k \in DOMAIN order |-> out[order[k]]]
    BY <1>9, <2>2, <2>3
  <2>5. \A k \in 1 .. n : out[order[k]] = SerializedSymbol(strings, resolved[order[k]])
    BY <1>2, <1>4, <1>13, <2>1 DEF SerializedSymbol
  <2> HIDE DEF SerializedSymbol
  <2> QED
    BY <1>12, <1>13, <2>4, <2>5
<1>15. ASSUME NEW k \in 1 .. n
       PROVE  \E i \in 1 .. n :
                /\ i = order[k] /\ symbols[k].m_Rip = resolved[i].m_Rip
                /\ symbols[k].m_SymbolName = StringOffset(strings, resolved[i].m_SymbolName)
                /\ symbols[k].m_FileName = StringOffset(strings, resolved[i].m_FileName)
                /\ symbols[k].m_LineNumber = resolved[i].m_LineNumber
  <2>1. PICK i \in 1 .. n : i = order[k]
    BY <1>13
  <2>2. symbols[k] = SerializedSymbol(strings, resolved[i])
    BY <1>12, <2>1
  <2> QED
    BY <2>1, <2>2 DEF SerializedSymbol
<1>16. ASSUME NEW k \in 1 .. n
       PROVE  /\ symbols[k].m_Rip \in A
              /\ IsOffsetOf(strings, symbols[k].m_SymbolName, name[symbols[k].m_Rip])
              /\ IsOffsetOf(strings, symbols[k].m_FileName, file_[symbols[k].m_Rip])
              /\ symbols[k].m_LineNumber = line[symbols[k].m_Rip]
  <2>1. PICK i \in 1 .. n :
                /\ i = order[k] /\ symbols[k].m_Rip = resolved[i].m_Rip
                /\ symbols[k].m_SymbolName = StringOffset(strings, resolved[i].m_SymbolName)
                /\ symbols[k].m_FileName = StringOffset(strings, resolved[i].m_FileName)
                /\ symbols[k].m_LineNumber = resolved[i].m_LineNumber
    BY <1>15
  <2>2. /\ resolved[i].m_Rip \in A
        /\ resolved[i].m_SymbolName = name[resolved[i].m_Rip]
        /\ resolved[i].m_FileName = file_[resolved[i].m_Rip]
        /\ resolved[i].m_LineNumber = line[resolved[i].m_Rip]
    BY <1>2 DEF AreSymbolsOf
  <2>3. IsOffsetOf(strings, StringOffset(strings, resolved[i].m_SymbolName), resolved[i].m_SymbolName)
    <3>1. PICK j \in DOMAIN strings : j >= 2 /\ strings[j] = resolved[i].m_SymbolName
      BY <1>2, <1>5 DEF AreStringsOf
    <3> QED
      BY <1>5, <3>1, OffsetOfString
  <2>4. IsOffsetOf(strings, StringOffset(strings, resolved[i].m_FileName), resolved[i].m_FileName)
    <3>1. PICK j \in DOMAIN strings : j >= 2 /\ strings[j] = resolved[i].m_FileName
      BY <1>2, <1>5 DEF AreStringsOf
    <3> QED
      BY <1>5, <3>1, OffsetOfString
  <2> QED
    BY <2>1, <2>2, <2>3, <2>4
<1>17. ASSUME NEW k \in 1 .. n, NEW l \in 1 .. n, k < l
       PROVE  symbols[k].m_Rip < symbols[l].m_Rip
  <2>1. PICK i \in 1 .. n : i = order[k] /\ symbols[k].m_Rip = resolved[i].m_Rip
    BY <1>15
  <2>2. PICK j \in 1 .. n : j = order[l] /\ symbols[l].m_Rip = resolved[j].m_Rip
    BY <1>15
  <2>3. i # j
    BY <1>10, <1>17, <2>1, <2>2 DEF Enumerates
  <2>4. resolved[i].m_Rip # resolved[j].m_Rip
    BY <1>2, <2>3 DEF AreSymbolsOf
  <2>5. resolved[i].m_Rip <= resolved[j].m_Rip
    BY <1>7, <1>11, <1>17, <2>1, <2>2
  <2>6. resolved[i].m_Rip \in Int /\ resolved[j].m_Rip \in Int
    BY <1>7
  <2> QED
    BY <2>1, <2>2, <2>4, <2>5, <2>6
<1>18. ASSUME NEW rip \in A
       PROVE  \E k \in 1 .. n : symbols[k].m_Rip = rip
  <2>1. PICK i \in 1 .. n : resolved[i].m_Rip = rip
    BY <1>2 DEF AreSymbolsOf
  <2>2. PICK k \in 1 .. n : order[k] = i
    BY <1>10 DEF Enumerates
  <2>3. symbols[k].m_Rip = resolved[i].m_Rip
    BY <1>15, <2>2
  <2> QED
    BY <2>1, <2>3
<1>19. DOMAIN symbols = 1 .. n /\ symbols = [k \in 1 .. n |-> symbols[k]]
  BY <1>12
<1>20. symbols \in Seq({symbols[k] : k \in DOMAIN symbols})
  BY <1>19, SequenceOfItsMembers
<1>21. IsSortedTable(symbols, n)
  <2>1. \A k \in 1 .. n : symbols[k].m_Rip \in Nat
    BY <1>16
  <2> QED
    BY <1>17, <1>19, <2>1 DEF IsSortedTable
<1>22. IsSymbolTable(symbols, strings, A, name, file_, line)
  BY <1>16, <1>18, <1>19, <1>20, <1>21 DEF IsSymbolTable
<1> QED
  BY <1>4, <1>5, <1>14, <1>22

\* What the GUI reads from a file that has symbols and their text: every
\* address of A has a symbol, with its name and its file, and no other has one.
ReadsSymbols(f, A, name, file_, line) ==
  \A rip \in Nat :
    /\ HasSymbol(f, rip) <=> rip \in A
    /\ HasSymbol(f, rip) =>
         /\ GetString(f, SymbolOf(f, rip).m_SymbolName) = name[rip]
         /\ GetString(f, SymbolOf(f, rip).m_FileName) = file_[rip]
         /\ SymbolOf(f, rip).m_LineNumber = line[rip]

\* The symbols and their text are in a file where its header says.
SymbolsIn(f, symbols, strings) ==
  /\ f.header.m_SymbolCount = Len(symbols)
  /\ EachAt(f, f.header.m_SymbolOffset, symbols, SizeOfSymbol)
  /\ HasAt(f, f.header.m_SymbolTextOffset, strings, Offsets(TextSizes(strings)))
  /\ f.header.m_SymbolTextOffset \in Nat

LEMMA StringIsRead ==
  ASSUME NEW T, NEW strings \in Seq(T), \A s \in T : s.len \in Nat, NEW f, NEW symbols,
         SymbolsIn(f, symbols, strings), NEW o, NEW s, IsOffsetOf(strings, o, s)
  PROVE  GetString(f, o) = s
<1>1. PICK i \in DOMAIN strings : strings[i] = s /\ o = Offsets(ZeroedSizes(strings))[i]
  BY DEF IsOffsetOf
<1>2. i \in 1 .. Len(strings) + 1
  OBVIOUS
<1>3. Offsets(TextSizes(strings))[i] = SizeOfChar * o
  BY <1>1, <1>2, TextOffsets
<1>4. PICK at : at = f.header.m_SymbolTextOffset + Offsets(TextSizes(strings))[i]
  OBVIOUS
<1>5. at \in DOMAIN f.cell /\ f.cell[at] = s
  BY <1>1, <1>4 DEF SymbolsIn, HasAt
<1>6. at = f.header.m_SymbolTextOffset + SizeOfChar * o
  BY <1>3, <1>4
<1> QED
  BY <1>5, <1>6 DEF GetString

LEMMA SymbolsAreRead ==
  ASSUME NEW f, NEW A \in SUBSET Nat, NEW name, NEW file_, NEW line, NEW T, \A s \in T : s.len \in Nat,
         NEW strings \in Seq(T), NEW symbols, IsSymbolTable(symbols, strings, A, name, file_, line),
         SymbolsIn(f, symbols, strings)
  PROVE  ReadsSymbols(f, A, name, file_, line)
<1>1. PICK S : symbols \in Seq(S)
  BY DEF IsSymbolTable
<1>2. PICK n \in Nat : IsSortedTable(symbols, n)
  BY DEF IsSymbolTable
<1>3. GetSymbols(f) = symbols
  BY <1>1, TableIsRead DEF GetSymbols, SymbolsIn
<1>4. DOMAIN symbols = 1 .. n
  BY <1>2 DEF IsSortedTable
<1> SUFFICES ASSUME NEW rip \in Nat
             PROVE  /\ HasSymbol(f, rip) <=> rip \in A
                    /\ HasSymbol(f, rip) =>
                         /\ GetString(f, SymbolOf(f, rip).m_SymbolName) = name[rip]
                         /\ GetString(f, SymbolOf(f, rip).m_FileName) = file_[rip]
                         /\ SymbolOf(f, rip).m_LineNumber = line[rip]
  BY DEF ReadsSymbols
<1>5. PICK s : s = FindSymbol(f, rip)
  OBVIOUS
<1>6. /\ s # NoSymbol => s \in 1 .. n /\ symbols[s].m_Rip = rip
      /\ s = NoSymbol => \A k \in 1 .. n : symbols[k].m_Rip # rip
  BY <1>2, <1>3, <1>5, SymbolIsFound
<1>7. HasSymbol(f, rip) <=> s # NoSymbol
  BY <1>5 DEF HasSymbol
<1>8. CASE s # NoSymbol
  <2>1. SymbolOf(f, rip) = symbols[s]
    BY <1>3, <1>5 DEF SymbolOf
  <2>2. /\ symbols[s].m_Rip \in A
        /\ IsOffsetOf(strings, symbols[s].m_SymbolName, name[symbols[s].m_Rip])
        /\ IsOffsetOf(strings, symbols[s].m_FileName, file_[symbols[s].m_Rip])
        /\ symbols[s].m_LineNumber = line[symbols[s].m_Rip]
    BY <1>4, <1>6, <1>8 DEF IsSymbolTable
  <2>3. GetString(f, symbols[s].m_SymbolName) = name[symbols[s].m_Rip]
    BY <2>2, StringIsRead
  <2>4. GetString(f, symbols[s].m_FileName) = file_[symbols[s].m_Rip]
    BY <2>2, StringIsRead
  <2> QED
    BY <1>6, <1>7, <1>8, <2>1, <2>2, <2>3, <2>4
<1>9. CASE s = NoSymbol
  <2>1. rip \notin A
    BY <1>4, <1>6, <1>9 DEF IsSymbolTable
  <2> QED
    BY <1>7, <1>9, <2>1
<1> QED
  BY <1>8, <1>9

\* A file without symbols
LEMMA NoSymbolsAreRead ==
  ASSUME NEW f, f.header.m_SymbolCount = 0, NEW name, NEW file_, NEW line
  PROVE  ReadsSymbols(f, {}, name, file_, line)
<1>1. PICK symbols : symbols = GetSymbols(f)
  OBVIOUS
<1>2. DOMAIN symbols = 1 .. 0
  BY <1>1 DEF GetSymbols, serializedOffset
<1>3. IsSortedTable(symbols, 0)
  BY <1>2 DEF IsSortedTable
<1> SUFFICES ASSUME NEW rip \in Nat PROVE ~HasSymbol(f, rip)
  BY DEF ReadsSymbols
<1>4. FindSymbol(f, rip) = NoSymbol
  BY <1>1, <1>3, SymbolIsFound
<1> QED
  BY <1>4 DEF HasSymbol

-----------------------------------------------------------------------------
(* The list of the modules                                                 *)

\* Listed, of any list of objects.
CodeOf(list) == {j \in DOMAIN list : list[j].code /\ ~list[j].vdso}
ListedIn(list, i) == i \in CodeOf(list) /\ Cardinality({j \in CodeOf(list) : j < i}) < MaxModules

LEMMA ListedIsListedIn ==
  ASSUME NEW i
  PROVE  Listed(i) <=> ListedIn(loaded, i)
  BY DEF Listed, ListedIn, CodeOf

\* A module of the list for every object that is to be listed.
HasListed(modules, list) ==
  \A i \in DOMAIN list : ListedIn(list, i) => \E m \in DOMAIN modules : modules[m].m_ImageBase = list[i].base

\* The module has the segment of the object.
SegmentOf(m, o) ==
  m.m_ImageBase = o.base /\ m.m_ImageSegmentOffset = o.seg /\ m.m_SizeBytes = o.size

\* No address is in two modules.
AreApart(modules) ==
  \A rip \in Nat, i, j \in DOMAIN modules :
    InSegment(rip, modules[i]) /\ InSegment(rip, modules[j]) => i = j

LEMMA InfoOfObject ==
  ASSUME NEW list \in Seq(Objects), NEW i \in DOMAIN list
  PROVE  /\ Info(list[i], NameOf(list, i)) \in ModuleInfos
         /\ Info(list[i], NameOf(list, i)).m_ImageBase = list[i].base
         /\ SegmentOf(Info(list[i], NameOf(list, i)), list[i])
<1>1. PICK o \in Objects : o = list[i]
  OBVIOUS
<1>2. PICK name : name = NameOf(list, i)
  OBVIOUS
<1>3. o.name \in {p.name : p \in Objects}
  OBVIOUS
<1>4. name \in ModuleNames
  BY <1>1, <1>2, <1>3 DEF NameOf, ModuleNames
<1>5. o.base \in Nat /\ o.seg \in Nat /\ o.size \in Nat
  BY ModulesAssumption
<1> QED
  BY <1>1, <1>2, <1>4, <1>5 DEF Info, ModuleInfos, SegmentOf

LEMMA LinuxModules ==
  ASSUME NEW list \in Seq(Objects), list # << >>, list[1].code, ~list[1].vdso,
         \A i \in DOMAIN list : (i # 1 /\ list[i].code /\ ~list[i].vdso) => list[i].name # NoName,
         \A i, j \in DOMAIN list : (i # j /\ list[i].code /\ list[j].code) => Apart(list[i], list[j])
  PROVE  /\ LinuxModuleList(list) \in Seq(ModuleInfos) /\ LinuxModuleList(list) # << >>
         /\ HasListed(LinuxModuleList(list), list)
         /\ AreApart(LinuxModuleList(list))
<1>1. PICK n \in Nat \ {0} : DOMAIN list = 1 .. n
  OBVIOUS
<1>2. PICK all : all = [i \in DOMAIN list |-> Info(list[i], NameOf(list, i))]
  OBVIOUS
<1>3. \A i \in 1 .. n : all[i] \in ModuleInfos /\ all[i].m_ImageBase = list[i].base /\ SegmentOf(all[i], list[i])
  BY <1>1, <1>2, InfoOfObject
<1>4. all \in Seq(ModuleInfos) /\ DOMAIN all = 1 .. n
  BY <1>1, <1>2, <1>3
<1>5. PICK I : I = {i \in DOMAIN list : Recorded(list, i)}
  OBVIOUS
<1>6. I = CodeOf(list)
  <2>1. ASSUME NEW i \in 1 .. n, list[i].code, ~list[i].vdso
        PROVE  NameOf(list, i) # NoName
    BY <1>1, <2>1, ModulesAssumption DEF NameOf
  <2> QED
    BY <1>1, <1>5, <2>1 DEF Recorded, CodeOf
<1>7. I \in SUBSET (1 .. n) /\ 1 \in I
  BY <1>1, <1>5, <1>6 DEF CodeOf
<1>8. /\ Cardinality(I) \in Nat
      /\ \A i \in I : Rank(I, i) \in 1 .. Cardinality(I) /\ Nth(I, Rank(I, i)) = i
      /\ \A k \in 1 .. Cardinality(I) : Nth(I, k) \in I /\ Rank(I, Nth(I, k)) = k
  BY <1>7, NthIsThere
<1>9. PICK c \in Nat \ {0} : c = Cardinality(I)
  BY <1>7, <1>8
<1>10. PICK s : s = Selected(all, I)
  OBVIOUS
<1>11. s \in Seq(ModuleInfos) /\ Len(s) = c /\ \A k \in 1 .. c : s[k] = all[Nth(I, k)]
  <2>1. I \in SUBSET DOMAIN all
    BY <1>4, <1>7
  <2> QED
    BY <1>4, <1>9, <1>10, <2>1, SelectedElements
<1>12. PICK m \in Nat \ {0} : m = (IF c < MaxModules THEN c ELSE MaxModules) /\ m <= c
  BY ModulesAssumption
<1>13. PICK r : r = SubSeq(s, 1, m)
  OBVIOUS
<1>14. r \in Seq(ModuleInfos) /\ Len(r) = m /\ DOMAIN r = 1 .. m /\ \A k \in 1 .. m : r[k] = s[k]
  BY <1>11, <1>12, <1>13
<1>15. LinuxModuleList(list) = r
  BY <1>2, <1>5, <1>10, <1>11, <1>12, <1>13 DEF LinuxModuleList
<1>16. ASSUME NEW i \in 1 .. n, ListedIn(list, i)
       PROVE  \E k \in 1 .. m : r[k].m_ImageBase = list[i].base
  <2>1. i \in I /\ Cardinality({j \in I : j < i}) < MaxModules
    BY <1>6, <1>16 DEF ListedIn
  <2>2. PICK k \in 1 .. c : k = Rank(I, i) /\ Nth(I, k) = i
    BY <1>8, <1>9, <2>1
  <2>3. k = Cardinality({j \in I : j < i}) + 1
    BY <1>7, <2>1, <2>2, RankIsOneMore
  <2>4. PICK u : u = Cardinality({j \in I : j < i})
    OBVIOUS
  <2>5. u \in Nat
    <3>1. IsFiniteSet(1 .. n)
      BY FS_Interval
    <3>2. IsFiniteSet({j \in I : j < i})
      BY <1>7, <3>1, FS_Subset
    <3> QED
      BY <2>4, <3>2, FS_CardinalityType
  <2>6. k \in 1 .. m
    BY <1>12, <2>1, <2>3, <2>4, <2>5, ModulesAssumption
  <2>7. r[k] = all[i]
    BY <1>11, <1>14, <2>2, <2>6
  <2> QED
    BY <1>3, <2>6, <2>7
<1>17. r # << >>
  BY <1>14
<1>18. HasListed(r, list)
  BY <1>1, <1>14, <1>16 DEF HasListed
<1>19. AreApart(r)
  <2> SUFFICES ASSUME NEW rip \in Nat, NEW k \in 1 .. m, NEW l \in 1 .. m,
                      InSegment(rip, r[k]), InSegment(rip, r[l]), k # l
               PROVE  FALSE
    BY <1>14 DEF AreApart
  <2>1. PICK i \in I, j \in I : i = Nth(I, k) /\ j = Nth(I, l)
    BY <1>8, <1>9, <1>12
  <2>2. i # j
    BY <1>8, <1>9, <1>12, <2>1
  <2>3. PICK a \in Objects, b \in Objects : a = list[i] /\ b = list[j] /\ Apart(a, b)
    BY <1>1, <1>6, <1>7, <2>2 DEF CodeOf
  <2>4. SegmentOf(r[k], a) /\ SegmentOf(r[l], b)
    BY <1>3, <1>7, <1>11, <1>12, <1>14, <2>1, <2>3
  <2>5. /\ a.base \in Nat /\ a.seg \in Nat /\ a.size \in Nat
        /\ b.base \in Nat /\ b.seg \in Nat /\ b.size \in Nat
    BY ModulesAssumption
  <2>6. /\ rip >= a.base + a.seg /\ rip < a.base + a.seg + a.size
        /\ rip >= b.base + b.seg /\ rip < b.base + b.seg + b.size
    BY <2>4 DEF InSegment, SegmentOf
  <2>10. PICK x \in Nat : x = a.base + a.seg
    BY <2>5
  <2>11. PICK y \in Nat : y = x + a.size
    BY <2>5
  <2>12. PICK u \in Nat : u = b.base + b.seg
    BY <2>5
  <2>13. PICK v \in Nat : v = u + b.size
    BY <2>5
  <2>7. x = a.base + a.seg /\ y = x + a.size /\ u = b.base + b.seg /\ v = u + b.size
    BY <2>10, <2>11, <2>12, <2>13
  <2>8. y <= u \/ v <= x
    BY <2>3, <2>7 DEF Apart
  <2>9. rip >= x /\ rip < y /\ rip >= u /\ rip < v
    BY <2>6, <2>7
  <2> QED
    BY <2>8, <2>9
<1> QED
  BY <1>14, <1>15, <1>17, <1>18, <1>19

LEMMA WindowsModules ==
  ASSUME NEW list \in Seq(Objects), \A i \in DOMAIN list : list[i].code /\ ~list[i].vdso,
         \E i \in DOMAIN list : i <= MaxModules /\ list[i].queried
  PROVE  /\ WindowsModuleList(list) \in Seq(ModuleInfos) /\ WindowsModuleList(list) # << >>
         /\ (\A i \in DOMAIN list : list[i].queried) => HasListed(WindowsModuleList(list), list)
         /\ \A i \in DOMAIN WindowsModuleList(list) : WindowsModuleList(list)[i].m_ImageSegmentOffset = 0
<1>1. PICK l \in Nat : l = Len(list) /\ DOMAIN list = 1 .. l
  OBVIOUS
<1>2. PICK n \in Nat : n = (IF l < MaxModules THEN l ELSE MaxModules) /\ n <= l
  BY ModulesAssumption
<1>3. PICK infos : infos = [i \in 1 .. n |-> IF list[i].queried
                              THEN [Info(list[i], NameOf(list, i)) EXCEPT !.m_ImageSegmentOffset = 0]
                              ELSE EmptyInfo]
  OBVIOUS
<1>4. ASSUME NEW i \in 1 .. n
      PROVE  /\ infos[i] \in ModuleInfos /\ (list[i].queried => infos[i].m_ImageBase = list[i].base)
             /\ infos[i].m_ImageSegmentOffset = 0
  <2>1. i \in DOMAIN list
    BY <1>1, <1>2
  <2>2. PICK info1 \in ModuleInfos : info1 = Info(list[i], NameOf(list, i)) /\ info1.m_ImageBase = list[i].base
    BY <2>1, InfoOfObject
  <2>3. CASE list[i].queried
    <3>1. infos[i] = [info1 EXCEPT !.m_ImageSegmentOffset = 0]
      BY <1>3, <2>2, <2>3
    <3> QED
      BY <2>2, <3>1 DEF ModuleInfos
  <2>4. CASE ~list[i].queried
    <3>1. infos[i] = EmptyInfo
      BY <1>3, <2>4
    <3> QED
      BY <2>4, <3>1 DEF EmptyInfo, ModuleInfos, ModuleNames
  <2> QED
    BY <2>3, <2>4
<1>5. infos \in Seq(ModuleInfos) /\ Len(infos) = n /\ DOMAIN infos = 1 .. n
  <2>1. \A i \in 1 .. n : infos[i] \in ModuleInfos
    BY <1>4
  <2>2. DOMAIN infos = 1 .. n /\ infos = [i \in 1 .. n |-> infos[i]]
    BY <1>3
  <2>3. infos \in Seq(ModuleInfos)
    BY <2>1, <2>2
  <2> QED
    BY <2>2, <2>3
<1>6. PICK Q : Q = {i \in 1 .. n : list[i].queried}
  OBVIOUS
<1>7. PICK i0 \in Q : TRUE
  <2>1. PICK i \in DOMAIN list : i <= MaxModules /\ list[i].queried
    OBVIOUS
  <2>2. i \in 1 .. n
    BY <1>1, <1>2, <2>1
  <2> QED
    BY <1>6, <2>1, <2>2
<1>8. PICK c \in Nat \ {0} : c = Cardinality(Q) /\ c <= n
  <2>1. IsFiniteSet(1 .. n) /\ Cardinality(1 .. n) = n
    BY FS_Interval
  <2>2. IsFiniteSet(Q) /\ Cardinality(Q) <= n
    BY <1>6, <2>1, FS_Subset
  <2>3. Cardinality(Q) \in Nat /\ Cardinality(Q) # 0
    BY <1>7, <2>2, FS_CardinalityType, FS_EmptySet
  <2> QED
    BY <2>2, <2>3
<1>9. PICK r : r = SubSeq(infos, 1, c)
  OBVIOUS
<1>10. r \in Seq(ModuleInfos) /\ Len(r) = c /\ DOMAIN r = 1 .. c /\ \A k \in 1 .. c : r[k] = infos[k]
  BY <1>5, <1>8, <1>9
<1>11. WindowsModuleList(list) = r
  BY <1>1, <1>2, <1>3, <1>6, <1>8, <1>9 DEF WindowsModuleList
<1>12. ASSUME \A i \in DOMAIN list : list[i].queried
       PROVE  HasListed(r, list)
  <2>1. Q = 1 .. n
    BY <1>1, <1>2, <1>6, <1>12
  <2>2. c = n
    BY <1>8, <2>1, FS_Interval
  <2> SUFFICES ASSUME NEW i \in 1 .. l, ListedIn(list, i)
               PROVE  \E m \in 1 .. c : r[m].m_ImageBase = list[i].base
    BY <1>1, <1>10 DEF HasListed
  <2>3. {j \in CodeOf(list) : j < i} = 1 .. i - 1
    BY <1>1 DEF CodeOf
  <2>4. Cardinality(1 .. i - 1) = i - 1
    <3>1. PICK k \in Nat : k = i - 1
      OBVIOUS
    <3>2. Cardinality(1 .. k) = k
      BY FS_Interval
    <3> QED
      BY <3>1, <3>2
  <2>5. i - 1 < MaxModules
    BY <2>3, <2>4 DEF ListedIn
  <2>6. i \in 1 .. n
    BY <1>1, <1>2, <2>5, ModulesAssumption
  <2> QED
    BY <1>1, <1>4, <1>10, <1>12, <2>2, <2>6
<1>13. r # << >> /\ \A k \in 1 .. c : r[k].m_ImageSegmentOffset = 0
  BY <1>4, <1>8, <1>10
<1> QED
  BY <1>10, <1>11, <1>12, <1>13

-----------------------------------------------------------------------------
(* What is saved                                                           *)

\* The addresses that call.
Callers == UNION {Range(s) : s \in Stacks}

AreKnownFrames(frames, count) == \A i \in 1 .. count : frames[i] = 0 \/ frames[i] \in Callers

FramesInv == phase = "capture" => AreKnownFrames(g_StackData.m_Frames, g_StackData.m_Count)

LEMMA CallersOfStack ==
  ASSUME NEW stack \in Stacks, NEW i \in 1 .. Len(stack)
  PROVE  stack[i] \in Callers
<1>1. stack \in Seq(Nat \ {0})
  BY StacksAssumption
<1>2. i \in DOMAIN stack
  BY <1>1
<1>3. stack[i] \in Range(stack)
  BY <1>2 DEF Range
<1> QED
  BY <1>3 DEF Callers

LEMMA FramesStored ==
  ASSUME NEW d, IsStackData(d), AreKnownFrames(d.m_Frames, d.m_Count), NEW stack \in Stacks,
         NEW e, e = Stored(Reserve(d, Len(stack)), stack)
  PROVE  AreKnownFrames(e.m_Frames, e.m_Count)
<1>1. stack \in Seq(Nat \ {0})
  BY StacksAssumption
<1>2. PICK n \in Nat, l \in Nat : n = d.m_Count /\ l = Len(stack)
  BY <1>1 DEF IsStackData
<1>3. /\ e.m_Count = n + l + 1
      /\ \A i \in 1 .. n : e.m_Frames[i] = d.m_Frames[i]
      /\ StoredAt(e.m_Frames, e.m_Count, n, stack)
  BY <1>2, StoredStack
<1>4. /\ \A i \in 1 .. l : e.m_Frames[n + i] = stack[i]
      /\ e.m_Frames[n + l + 1] = 0
  BY <1>2, <1>3 DEF StoredAt
<1> SUFFICES ASSUME NEW i \in 1 .. n + l + 1 PROVE e.m_Frames[i] = 0 \/ e.m_Frames[i] \in Callers
  BY <1>3 DEF AreKnownFrames
<1>5. CASE i \in 1 .. n
  BY <1>2, <1>3, <1>5 DEF AreKnownFrames
<1>6. CASE i \in n + 1 .. n + l
  <2>1. PICK j \in 1 .. l : i = n + j
    BY <1>6
  <2>2. e.m_Frames[i] = stack[j]
    BY <1>4, <2>1
  <2> QED
    BY <1>2, <2>2, CallersOfStack
<1>7. CASE i = n + l + 1
  BY <1>4, <1>7
<1> QED
  BY <1>5, <1>6, <1>7

LEMMA FramesInvInit == Init => FramesInv
  BY DEF Init, StoreInit, NoStackData, FramesInv, AreKnownFrames

LEMMA FramesInvUnchanged ==
  ASSUME FramesInv, UNCHANGED storeVars, phase' = "capture" => phase = "capture"
  PROVE  FramesInv'
  BY DEF FramesInv, storeVars

LEMMA FramesInvRecord ==
  ASSUME StoreInv, FramesInv, NEW s \in Samples, Record(s)
  PROVE  FramesInv'
<1>1. s.stack \in Stacks
  BY SamplesAssumption
<1>2. InsertStack(s.stack) /\ phase = "capture"
  BY DEF Record
<1>3. IsStackData(g_StackData) /\ AreKnownFrames(g_StackData.m_Frames, g_StackData.m_Count)
  BY <1>2 DEF StoreInv, FramesInv
<1>4. CASE StackKey(s.stack) \in DOMAIN g_Stacks
  <2>1. g_StackData' = g_StackData
    BY <1>2, <1>4 DEF InsertStack
  <2> QED
    BY <1>3, <2>1 DEF FramesInv
<1>5. CASE StackKey(s.stack) \notin DOMAIN g_Stacks
  <2>1. PICK e : e = g_StackData' /\ e = Stored(Reserve(g_StackData, Len(s.stack)), s.stack)
    BY <1>2, <1>5 DEF InsertStack
  <2>2. AreKnownFrames(e.m_Frames, e.m_Count)
    BY <1>1, <1>3, <2>1, FramesStored
  <2> QED
    BY <2>1, <2>2 DEF FramesInv
<1> QED
  BY <1>4, <1>5

LEMMA FramesInvFreed ==
  ASSUME FreeAll
  PROVE  FramesInv'
  BY DEF FreeAll, NoStackData, FramesInv, AreKnownFrames

\* There is a node for the sample.
HoldsSample(frames, nodes, s, sum) ==
  \E i \in DOMAIN nodes :
    /\ nodes[i].m_Rip = s.rip
    /\ StoredAt(frames, Len(frames), nodes[i].m_StackIndex, s.stack)
    /\ nodes[i].m_Stats = sum

\* The nodes are of known addresses.
AreNodes(nodes) ==
  /\ nodes \in Seq({nodes[i] : i \in DOMAIN nodes})
  /\ \A i \in DOMAIN nodes : nodes[i].m_Rip \in Rips

\* An order of the nodes has every node.
LEMMA OrderIsComplete ==
  ASSUME NEW table, IsFiniteSet(DOMAIN table), NEW order \in Orders(table)
  PROVE  \E n \in Nat : /\ DOMAIN order = 1 .. n
                        /\ \A i \in 1 .. n : order[i] \in DOMAIN table
                        /\ \A x \in DOMAIN table : \E i \in 1 .. n : order[i] = x
<1>1. PICK D : D = DOMAIN table
  OBVIOUS
<1>2. PICK n \in Nat : n = Cardinality(D)
  BY <1>1, FS_CardinalityType
<1>3. PICK S : S = 1 .. n
  OBVIOUS
<1>4. order \in [S -> D] /\ IsInjective(order)
  BY <1>1, <1>2, <1>3 DEF Orders
<1>5. IsFiniteSet(S) /\ Cardinality(S) = n
  BY <1>3, FS_Interval
<1>6. order \in Injection(S, D)
  BY <1>4 DEF IsInjective, Injection
<1>7. order \in Surjection(S, D)
  BY <1>1, <1>2, <1>5, <1>6, FS_Injection
<1>8. \A x \in D : \E i \in S : order[i] = x
  BY <1>7 DEF Surjection
<1> QED
  BY <1>1, <1>3, <1>4, <1>8

LEMMA NodesOfStore ==
  ASSUME StoreInv, phase = "capture", NEW order \in Orders(g_Stats)
  PROVE  /\ AreNodes(NodesIn(order))
         /\ \A s \in Happened : \E i \in DOMAIN NodesIn(order) :
              /\ NodesIn(order)[i].m_Rip = s.rip
              /\ NodesIn(order)[i].m_StackIndex = OffsetOf(s.stack)
              /\ NodesIn(order)[i].m_Stats = Sum(recorded, Alike(s))
<1>1. CountsInv
  BY DEF StoreInv
<1>2. IsFiniteSet(Happened)
  BY SamplesAssumption, FS_Subset DEF Happened
<1>3. IsFiniteSet(DOMAIN g_Stats)
  <2>1. PICK f : f = [s \in Happened |-> <<s.rip, OffsetOf(s.stack)>>]
    OBVIOUS
  <2>2. \A x \in DOMAIN g_Stats : \E s \in Happened : f[s] = x
    BY <1>1, <2>1 DEF CountsInv
  <2>3. \A s \in Happened : f[s] \in DOMAIN g_Stats
    BY <1>1, <2>1 DEF CountsInv
  <2>4. f \in Surjection(Happened, DOMAIN g_Stats)
    BY <2>1, <2>2, <2>3 DEF Surjection
  <2> QED
    BY <1>2, <2>4, FS_Surjection
<1>4. PICK n \in Nat : /\ DOMAIN order = 1 .. n
                       /\ \A i \in 1 .. n : order[i] \in DOMAIN g_Stats
                       /\ \A x \in DOMAIN g_Stats : \E i \in 1 .. n : order[i] = x
  BY <1>3, OrderIsComplete
<1>5. PICK nodes : nodes = NodesIn(order)
  OBVIOUS
<1>6. /\ DOMAIN nodes = 1 .. n /\ nodes = [i \in 1 .. n |-> nodes[i]]
      /\ \A i \in 1 .. n : /\ nodes[i].m_Rip = order[i][1] /\ nodes[i].m_StackIndex = order[i][2]
                           /\ nodes[i].m_Stats = g_Stats[order[i]]
  BY <1>4, <1>5 DEF NodesIn
<1>7. ASSUME NEW i \in 1 .. n PROVE nodes[i].m_Rip \in Rips
  <2>1. PICK s \in Happened : order[i] = <<s.rip, OffsetOf(s.stack)>>
    BY <1>1, <1>4 DEF CountsInv
  <2>2. s.rip \in Rips
    BY SamplesAssumption DEF Happened
  <2> QED
    BY <1>6, <2>1, <2>2
<1>8. nodes \in Seq({nodes[i] : i \in DOMAIN nodes})
  BY <1>6, SequenceOfItsMembers
<1>9. AreNodes(nodes)
  BY <1>6, <1>7, <1>8 DEF AreNodes
<1>10. ASSUME NEW s \in Happened
       PROVE  \E i \in 1 .. n : /\ nodes[i].m_Rip = s.rip /\ nodes[i].m_StackIndex = OffsetOf(s.stack)
                                /\ nodes[i].m_Stats = Sum(recorded, Alike(s))
  <2>1. PICK x \in DOMAIN g_Stats : x = <<s.rip, OffsetOf(s.stack)>>
    BY <1>1 DEF CountsInv
  <2>2. PICK i \in 1 .. n : order[i] = x
    BY <1>4
  <2>3. g_Stats[x] = Sum(recorded, Alike(s))
    BY <1>1, <2>1 DEF CountsInv
  <2>4. x[1] = s.rip /\ x[2] = OffsetOf(s.stack)
    BY <2>1
  <2> QED
    BY <1>6, <2>2, <2>3, <2>4
<1> QED
  BY <1>5, <1>6, <1>9, <1>10

LEMMA FramesOfStore ==
  ASSUME StoreInv, FramesInv, phase = "capture",
         NEW frames, frames = SubSeq(g_StackData.m_Frames, 1, g_StackData.m_Count)
  PROVE  /\ frames \in Seq(Nat) /\ AreKnownFrames(frames, Len(frames))
         /\ \A s \in Happened : StoredAt(frames, Len(frames), OffsetOf(s.stack), s.stack)
<1>1. PICK d : d = g_StackData /\ IsStackData(d)
  BY DEF StoreInv
<1>2. PICK all \in Seq(Nat), n \in Nat : all = d.m_Frames /\ n = d.m_Count /\ n <= Len(all)
  BY <1>1 DEF IsStackData
<1>3. frames \in Seq(Nat) /\ Len(frames) = n /\ \A i \in 1 .. n : frames[i] = all[i]
  BY <1>1, <1>2
<1>4. AreKnownFrames(frames, Len(frames))
  BY <1>1, <1>2, <1>3 DEF FramesInv, AreKnownFrames
<1>5. ASSUME NEW s \in Happened
      PROVE  StoredAt(frames, Len(frames), OffsetOf(s.stack), s.stack)
  <2>1. s.stack \in Stacks
    BY SamplesAssumption DEF Happened
  <2>2. StackKey(s.stack) \in DOMAIN g_Stacks /\ OffsetOf(s.stack) = g_Stacks[StackKey(s.stack)].m_Offset
    BY DEF StoreInv, StacksInv, OffsetOf
  <2>3. PICK o : o = OffsetOf(s.stack) /\ StoredAt(all, n, o, s.stack)
    BY <1>1, <1>2, <2>1, <2>2 DEF StoreInv, StacksInv
  <2>4. PICK l \in Nat : l = Len(s.stack)
    BY <2>1, StacksAssumption
  <2>5. o \in Nat /\ o + l + 1 <= n
    BY <2>3, <2>4 DEF StoredAt
  <2>6. \A i \in 1 .. l + 1 : frames[o + i] = all[o + i]
    <3> SUFFICES ASSUME NEW i \in 1 .. l + 1 PROVE frames[o + i] = all[o + i]
      OBVIOUS
    <3>1. PICK k \in 1 .. n : k = o + i
      BY <2>5
    <3> QED
      BY <1>3, <3>1
  <2>7. \A i \in 1 .. l : frames[o + i] = s.stack[i]
    <3> SUFFICES ASSUME NEW i \in 1 .. l PROVE frames[o + i] = s.stack[i]
      OBVIOUS
    <3>1. all[o + i] = s.stack[i]
      BY <2>3, <2>4 DEF StoredAt
    <3>2. i \in 1 .. l + 1
      OBVIOUS
    <3> QED
      BY <2>6, <3>1, <3>2
  <2>8. frames[o + l + 1] = 0
    <3>1. all[o + l + 1] = 0
      BY <2>3, <2>4 DEF StoredAt
    <3>2. o + l + 1 \in 1 .. n
      BY <2>5
    <3> QED
      BY <1>3, <3>1, <3>2
  <2>9. StoredAt(frames, n, o, s.stack)
    BY <2>4, <2>5, <2>7, <2>8 DEF StoredAt
  <2> QED
    BY <1>3, <2>3, <2>9
<1> QED
  BY <1>3, <1>4, <1>5

-----------------------------------------------------------------------------
(* The invariant of the file                                               *)

AreSavedModules(modules, list, p) ==
  /\ modules \in Seq(ModuleInfos) /\ modules # << >>
  /\ p = "linux" => AreApart(modules)
  /\ p = "windows" => \A i \in DOMAIN modules : modules[i].m_ImageSegmentOffset = 0
  /\ \/ p = "windows" /\ \E i \in DOMAIN list : ~list[i].queried
     \/ HasListed(modules, list)

AreSavedFrames(frames) == frames \in Seq(Nat) /\ AreKnownFrames(frames, Len(frames))

PlatformInv == platform \in DOMAIN LoadedLists

SavedInv ==
  phase # "capture" =>
    /\ AreSavedModules(saved.modules, loaded, platform)
    /\ AreSavedFrames(saved.frames)
    /\ AreNodes(saved.nodes)
    /\ \A s \in Happened : HoldsSample(saved.frames, saved.nodes, s, Sum(recorded, Alike(s)))

FileInv ==
  phase # "capture" =>
    IsTraceFile(file) /\ SectionsIn(file, file.header, saved.modules, saved.frames, saved.nodes)

LEMMA ModulesListed ==
  ASSUME PlatformInv, NEW list \in LoadedLists[platform]
  PROVE  AreSavedModules(GetModuleList(list), list, platform)
<1>1. PICK p \in {"linux", "windows"} : p = platform
  BY LoadedListsAssumption DEF PlatformInv
<1>2. PICK all : all = LoadedLists[p] /\ list \in all
  BY <1>1
<1>3. list \in Seq(Objects)
  BY <1>1, <1>2, LoadedListsAssumption DEF PlatformInv
<1>4. CASE p = "linux"
  <2>1. /\ list # << >> /\ list[1].code /\ ~list[1].vdso
        /\ \A i \in DOMAIN list :
             (i # 1 /\ list[i].code /\ ~list[i].vdso) => list[i].name # NoName
        /\ \A i, j \in DOMAIN list :
             (i # j /\ list[i].code /\ list[j].code) => Apart(list[i], list[j])
    BY <1>1, <1>2, <1>4, LoadedListsAssumption DEF PlatformInv
  <2>2. PICK modules : modules = LinuxModuleList(list)
    OBVIOUS
  <2>3. modules \in Seq(ModuleInfos) /\ modules # << >> /\ HasListed(modules, list) /\ AreApart(modules)
    BY <1>3, <2>1, <2>2, LinuxModules
  <2>4. GetModuleList(list) = modules
    BY <1>1, <1>4, <2>2 DEF GetModuleList
  <2> QED
    BY <1>1, <1>4, <2>3, <2>4 DEF AreSavedModules
<1>5. CASE p = "windows"
  <2>1. /\ \A i \in DOMAIN list : list[i].code /\ ~list[i].vdso
        /\ \E i \in DOMAIN list : i <= MaxModules /\ list[i].queried
    BY <1>1, <1>2, <1>5, LoadedListsAssumption DEF PlatformInv
  <2>2. PICK modules : modules = WindowsModuleList(list)
    OBVIOUS
  <2>3. /\ modules \in Seq(ModuleInfos) /\ modules # << >>
        /\ (\A i \in DOMAIN list : list[i].queried) => HasListed(modules, list)
        /\ \A i \in DOMAIN modules : modules[i].m_ImageSegmentOffset = 0
    BY <1>3, <2>1, <2>2, WindowsModules
  <2>4. GetModuleList(list) = modules
    BY <1>1, <1>5, <2>2 DEF GetModuleList
  <2> QED
    BY <1>1, <1>5, <2>3, <2>4 DEF AreSavedModules
<1> QED
  BY <1>4, <1>5

\* CacheSimEndCapture writes what was counted.
LEMMA CaptureIsSaved ==
  ASSUME StoreInv, FramesInv, PlatformInv, NEW list \in LoadedLists[platform],
         NEW order \in Orders(g_Stats), EndCapture(list, order)
  PROVE  SavedInv' /\ FileInv' /\ file'.header.m_SymbolCount = 0
<1>1. PICK frames : frames = SubSeq(g_StackData.m_Frames, 1, g_StackData.m_Count)
  OBVIOUS
<1>2. PICK nodes : nodes = NodesIn(order)
  OBVIOUS
<1>3. PICK modules : modules = GetModuleList(list)
  OBVIOUS
<1>4. /\ phase = "capture" /\ file' = Saved(modules, frames, nodes)
      /\ loaded' = list /\ platform' = platform /\ recorded' = recorded
      /\ saved' = [modules |-> modules, frames |-> frames, nodes |-> nodes]
  BY <1>1, <1>2, <1>3 DEF EndCapture
<1>5. frames \in Seq(Nat) /\ AreKnownFrames(frames, Len(frames))
  BY <1>1, <1>4, FramesOfStore
<1>6. \A s \in Happened : StoredAt(frames, Len(frames), OffsetOf(s.stack), s.stack)
  BY <1>1, <1>4, FramesOfStore
<1>7. AreNodes(nodes)
  BY <1>2, <1>4, NodesOfStore
<1>8. \A s \in Happened : \E i \in DOMAIN nodes :
        /\ nodes[i].m_Rip = s.rip /\ nodes[i].m_StackIndex = OffsetOf(s.stack)
        /\ nodes[i].m_Stats = Sum(recorded, Alike(s))
  BY <1>2, <1>4, NodesOfStore
<1>9. \A s \in Happened : HoldsSample(frames, nodes, s, Sum(recorded, Alike(s)))
  BY <1>6, <1>8 DEF HoldsSample
<1>10. AreSavedModules(modules, list, platform)
  BY <1>3, ModulesListed
<1>11. Happened' = Happened /\ \A s : Alike(s)' = Alike(s)
  BY <1>4 DEF Happened, Alike
<1>12. \A s \in Happened' : HoldsSample(frames, nodes, s, Sum(recorded', Alike(s)'))
  BY <1>4, <1>9, <1>11
<1>13. SavedInv'
  BY <1>4, <1>5, <1>7, <1>10, <1>12 DEF SavedInv, AreSavedFrames
<1>14. PICK f : f = Saved(modules, frames, nodes)
  OBVIOUS
<1>15. PICK T : nodes \in Seq(T)
  BY <1>7 DEF AreNodes
<1>16. modules \in Seq(ModuleInfos) /\ modules # << >>
  BY <1>10 DEF AreSavedModules
<1>17. IsTraceFile(f) /\ SectionsIn(f, f.header, modules, frames, nodes) /\ f.header.m_SymbolCount = 0
  BY <1>5, <1>14, <1>15, <1>16, SavedSections
<1> QED
  BY <1>4, <1>13, <1>14, <1>17 DEF FileInv

LEMMA SavedInvUnchanged ==
  ASSUME SavedInv, UNCHANGED fileVars, phase' # "capture" => phase # "capture"
  PROVE  SavedInv'
<1>1. Happened' = Happened /\ \A s : Alike(s)' = Alike(s)
  BY DEF Happened, Alike, fileVars
<1> QED
  BY <1>1 DEF SavedInv, fileVars

\* SerializedHeader reads what was saved.
LEMMA FileIsRead ==
  ASSUME NEW f, NEW modules \in Seq(ModuleInfos), NEW frames \in Seq(Nat), NEW T, NEW nodes \in Seq(T),
         SectionsIn(f, f.header, modules, frames, nodes)
  PROVE  /\ GetModules(f) = ModuleEntries(modules)
         /\ GetStacks(f) = frames /\ GetStats(f) = nodes
         /\ \A i \in DOMAIN modules : GetModuleName(f, ModuleEntries(modules)[i]) = modules[i].m_Filename
<1>1. PICK h : h = f.header
  OBVIOUS
<1>2. PICK entries : entries = ModuleEntries(modules)
  OBVIOUS
<1>3. /\ entries \in Seq(EntryRecords) /\ Len(entries) = Len(modules)
      /\ \A i \in DOMAIN modules : entries[i].m_StringOffset = Offsets(StringSizes(modules))[i]
  BY <1>2, EntriesOfModules
<1>4. /\ EachAt(f, h.m_ModuleOffset, entries, SizeOfModuleEntry) /\ h.m_ModuleCount = Len(entries)
      /\ HasAt(f, h.m_ModuleStringOffset, Filenames(modules), Offsets(StringSizes(modules)))
  BY <1>1, <1>2, <1>3 DEF SectionsIn, ModulesIn
<1>5. /\ EachAt(f, h.m_FrameOffset, frames, SizeOfFrame) /\ h.m_FrameCount = Len(frames)
      /\ EachAt(f, h.m_StatsOffset, nodes, SizeOfNode) /\ h.m_StatsCount = Len(nodes)
  BY <1>1 DEF SectionsIn, TableIn
<1>6. GetModules(f) = entries
  <2>1. serializedOffset(f, h.m_ModuleOffset, Len(entries), SizeOfModuleEntry) = entries
    BY <1>3, <1>4, TableIsRead
  <2> QED
    BY <1>1, <1>4, <2>1 DEF GetModules
<1>7. GetStacks(f) = frames
  <2>1. serializedOffset(f, h.m_FrameOffset, Len(frames), SizeOfFrame) = frames
    BY <1>5, TableIsRead
  <2> QED
    BY <1>1, <1>5, <2>1 DEF GetStacks
<1>8. GetStats(f) = nodes
  <2>1. serializedOffset(f, h.m_StatsOffset, Len(nodes), SizeOfNode) = nodes
    BY <1>5, TableIsRead
  <2> QED
    BY <1>1, <1>5, <2>1 DEF GetStats
<1>9. ASSUME NEW i \in DOMAIN modules
      PROVE  GetModuleName(f, entries[i]) = modules[i].m_Filename
  <2>1. DOMAIN Filenames(modules) = DOMAIN modules /\ Filenames(modules)[i] = modules[i].m_Filename
    BY DEF Filenames
  <2> QED
    BY <1>1, <1>3, <1>4, <2>1 DEF GetModuleName, HasAt
<1> QED
  BY <1>2, <1>6, <1>7, <1>8, <1>9

\* A stack in the frames of a file is read back.
LEMMA StackOfFile ==
  ASSUME NEW frames \in Seq(Nat), NEW offset, NEW stack \in Stacks,
         StoredAt(frames, Len(frames), offset, stack)
  PROVE  StackAt(frames, offset) = stack
<1>1. PICK count \in Nat : count = Len(frames) /\ count <= Len(frames)
  OBVIOUS
<1> QED
  BY <1>1, StoredIsReadBack

\* There is a node in the file for a sample.
LEMMA SampleIsRead ==
  ASSUME SavedInv, phase # "capture", NEW s \in Happened
  PROVE  \E i \in DOMAIN saved.nodes :
           /\ saved.nodes[i].m_Rip = s.rip
           /\ StackAt(saved.frames, saved.nodes[i].m_StackIndex) = s.stack
           /\ saved.nodes[i].m_Stats = SumOf({t \in Happened : t.rip = s.rip /\ t.stack = s.stack})
<1>1. PICK frames \in Seq(Nat) : frames = saved.frames
  BY DEF SavedInv, AreSavedFrames
<1>2. PICK i \in DOMAIN saved.nodes :
        /\ saved.nodes[i].m_Rip = s.rip
        /\ StoredAt(frames, Len(frames), saved.nodes[i].m_StackIndex, s.stack)
        /\ saved.nodes[i].m_Stats = Sum(recorded, Alike(s))
  BY <1>1 DEF SavedInv, HoldsSample
<1>3. s.stack \in Stacks
  BY SamplesAssumption DEF Happened
<1>4. StackAt(frames, saved.nodes[i].m_StackIndex) = s.stack
  BY <1>2, <1>3, StackOfFile
<1>5. SumOf({t \in Happened : t.rip = s.rip /\ t.stack = s.stack}) = Sum(recorded, Alike(s))
  BY SumOfIsSum DEF Alike
<1> QED
  BY <1>1, <1>2, <1>4, <1>5

LEMMA FileInvReadsBack == SavedInv /\ FileInv => SavedFileReadsBack
<1> SUFFICES ASSUME SavedInv, FileInv, phase # "capture" PROVE SavedFileReadsBack
  BY DEF SavedFileReadsBack
<1>1. PICK h : h = file.header
  OBVIOUS
<1>2. PICK modules \in Seq(ModuleInfos) : modules = saved.modules /\ AreSavedModules(modules, loaded, platform)
  BY DEF SavedInv, AreSavedModules
<1>3. PICK frames \in Seq(Nat) : frames = saved.frames
  BY DEF SavedInv, AreSavedFrames
<1>4. PICK T : saved.nodes \in Seq(T)
  BY DEF SavedInv, AreNodes
<1>5. PICK nodes \in Seq(T) : nodes = saved.nodes
  BY <1>4
<1>6. SectionsIn(file, h, modules, frames, nodes)
  BY <1>1, <1>2, <1>3, <1>5 DEF FileInv
<1>7. PICK entries : entries = ModuleEntries(modules)
  OBVIOUS
<1>8. /\ GetModules(file) = entries /\ GetStacks(file) = frames /\ GetStats(file) = nodes
      /\ \A i \in DOMAIN modules : GetModuleName(file, entries[i]) = modules[i].m_Filename
  BY <1>1, <1>6, <1>7, FileIsRead
<1>9. /\ entries \in Seq(EntryRecords) /\ Len(entries) = Len(modules)
      /\ \A i \in DOMAIN modules : entries[i].m_ImageBase = modules[i].m_ImageBase
  BY <1>7, EntriesOfModules
<1>10. DOMAIN entries = DOMAIN modules
  BY <1>9
<1>11. \A o \in {h.m_ModuleOffset, h.m_FrameOffset, h.m_StatsOffset} : o % 8 = 0
  BY <1>6 DEF SectionsIn, ModulesIn, TableIn
<1>12. h.m_ModuleOffset + Len(saved.modules) * SizeOfModuleEntry <= h.m_ModuleStringOffset
  BY <1>2, <1>6 DEF SectionsIn, ModulesIn
<1>13. StringsEnd(file) <= h.m_FrameOffset
  BY <1>1, <1>2, <1>6 DEF SectionsIn, StringsEnd, StringSizes
<1>14. h.m_FrameOffset + h.m_FrameCount * SizeOfFrame <= h.m_StatsOffset
  BY <1>6 DEF SectionsIn
<1>15. \A i \in DOMAIN entries : GetModuleName(file, entries[i]) = saved.modules[i].m_Filename
  BY <1>2, <1>8, <1>10
<1>16. \A s \in Happened : \E i \in DOMAIN nodes :
         /\ nodes[i].m_Rip = s.rip
         /\ StackAt(frames, nodes[i].m_StackIndex) = s.stack
         /\ nodes[i].m_Stats = SumOf({t \in Happened : t.rip = s.rip /\ t.stack = s.stack})
  BY <1>3, <1>5, SampleIsRead
<1>17. \/ platform = "windows" /\ \E i \in DOMAIN loaded : ~loaded[i].queried
       \/ \A i \in DOMAIN loaded : Listed(i) =>
            \E m \in DOMAIN entries : entries[m].m_ImageBase = loaded[i].base
  BY <1>2, <1>9, <1>10, ListedIsListedIn DEF AreSavedModules, HasListed
<1> QED
  BY <1>1, <1>5, <1>8, <1>11, <1>12, <1>13, <1>14, <1>15, <1>16, <1>17 DEF SavedFileReadsBack

-----------------------------------------------------------------------------
(* The symbols of the file                                                 *)

\* The symbols of what was saved, by the debug information there is.
SavedSymbols(known, junk) ==
  IF platform = "linux"
  THEN LinuxResolveSymbols(ModuleEntries(saved.modules), Filenames(saved.modules), saved.frames, saved.nodes, known)
  ELSE WindowsResolveSymbols(ModuleEntries(saved.modules), saved.frames, saved.nodes, known, junk)

FileRips == AddressesOf(saved.frames, saved.nodes)

\* The addresses that get a symbol.
Addressed == IF platform = "linux" THEN {rip \in FileRips : Holders(rip) # {}} ELSE FileRips

NamesOf(known) == [rip \in Nat |-> TrueName(rip, known)]
FilesOf(known) == [rip \in Nat |-> TrueFile(rip, known)]
LinesOf(known, junk) == [rip \in Nat |-> IF Lined(rip, known) THEN LinuxLine(rip, known) ELSE junk]

\* The types of what was saved.
LEMMA SavedTypes ==
  ASSUME SavedInv, phase # "capture"
  PROVE  /\ saved.modules \in Seq(ModuleInfos) /\ saved.frames \in Seq(Nat)
         /\ AreKnownFrames(saved.frames, Len(saved.frames))
         /\ saved.nodes \in Seq({saved.nodes[i] : i \in DOMAIN saved.nodes})
         /\ \A i \in DOMAIN saved.nodes : saved.nodes[i].m_Rip \in Rips /\ saved.nodes[i].m_Rip \in Nat
  BY RipsAssumption DEF SavedInv, AreSavedModules, AreSavedFrames, AreNodes

LEMMA ResolvedFromSaved ==
  ASSUME SavedInv, FileInv, phase # "capture", NEW known, NEW junk
  PROVE  ResolvedSymbols(known, junk) = SavedSymbols(known, junk)
<1>1. PICK modules \in Seq(ModuleInfos) : modules = saved.modules
  BY SavedTypes
<1>2. PICK frames \in Seq(Nat) : frames = saved.frames
  BY SavedTypes
<1>3. PICK T : saved.nodes \in Seq(T)
  BY SavedTypes
<1>4. PICK nodes \in Seq(T) : nodes = saved.nodes
  BY <1>3
<1>5. PICK entries : entries = ModuleEntries(modules)
  OBVIOUS
<1>6. SectionsIn(file, file.header, modules, frames, nodes)
  BY <1>1, <1>2, <1>4 DEF FileInv
<1>7. /\ GetModules(file) = entries /\ GetStacks(file) = frames /\ GetStats(file) = nodes
      /\ \A i \in DOMAIN modules : GetModuleName(file, entries[i]) = modules[i].m_Filename
  BY <1>5, <1>6, FileIsRead
<1>8. DOMAIN entries = DOMAIN modules
  BY <1>5 DEF ModuleEntries
<1>9. [i \in DOMAIN entries |-> GetModuleName(file, entries[i])] = Filenames(modules)
  BY <1>7, <1>8 DEF Filenames
<1> QED
  BY <1>1, <1>2, <1>4, <1>5, <1>7, <1>9 DEF ResolvedSymbols, SavedSymbols

\* The entries of the file have the segments of the modules.
LEMMA EntriesHold ==
  ASSUME NEW modules \in Seq(ModuleInfos), NEW rip \in Nat
  PROVE  /\ DOMAIN ModuleEntries(modules) = DOMAIN modules
         /\ \A j \in DOMAIN modules : InSegment(rip, ModuleEntries(modules)[j]) <=> InSegment(rip, modules[j])
<1>1. PICK entries : entries = ModuleEntries(modules)
  OBVIOUS
<1>2. DOMAIN entries = DOMAIN modules
  BY <1>1 DEF ModuleEntries
<1>3. \A j \in DOMAIN modules :
        /\ entries[j].m_ImageBase = modules[j].m_ImageBase
        /\ entries[j].m_ImageSegmentOffset = modules[j].m_ImageSegmentOffset
        /\ entries[j].m_SizeBytes = modules[j].m_SizeBytes
  BY <1>1, EntriesOfModules
<1> QED
  BY <1>1, <1>2, <1>3 DEF InSegment

LEMMA RipsOfFile ==
  ASSUME SavedInv, phase # "capture"
  PROVE  FileRips \in SUBSET Nat /\ FileRips \subseteq Rips \cup Callers
<1>1. PICK frames \in Seq(Nat) : frames = saved.frames /\ AreKnownFrames(frames, Len(frames))
  BY SavedTypes
<1>2. \A i \in DOMAIN frames : frames[i] \in Nat /\ (frames[i] # 0 => frames[i] \in Callers)
  BY <1>1 DEF AreKnownFrames
<1> QED
  BY <1>1, <1>2, SavedTypes DEF FileRips, AddressesOf

LEMMA LinuxNamesOfFile ==
  ASSUME SavedInv, phase # "capture", platform = "linux", NEW known,
         NEW name, name = NamesOf(known), NEW file_, file_ = FilesOf(known),
         NEW junk, NEW line, line = LinesOf(known, junk)
  PROVE  /\ IsLinuxNames(ModuleEntries(saved.modules), Filenames(saved.modules), saved.frames, saved.nodes,
                         known, name, file_, line)
         /\ HeldAddresses(ModuleEntries(saved.modules), saved.frames, saved.nodes) = Addressed
<1>1. PICK modules \in Seq(ModuleInfos) : modules = saved.modules /\ AreApart(modules)
  BY DEF SavedInv, AreSavedModules
<1>2. PICK entries : entries = ModuleEntries(modules)
  OBVIOUS
<1>3. DOMAIN entries = DOMAIN modules
  BY <1>2 DEF ModuleEntries
<1>4. \A rip \in Nat, j \in DOMAIN modules : InSegment(rip, entries[j]) <=> InSegment(rip, modules[j])
  BY <1>2, EntriesHold
<1>5. \A rip \in Nat : \A j : (j \in DOMAIN modules /\ InSegment(rip, entries[j])) <=> j \in Holders(rip)
  BY <1>1, <1>4 DEF Holders
<1>6. HeldAddresses(entries, saved.frames, saved.nodes) = Addressed
  <2>1. \A rip \in FileRips : rip \in Nat
    BY RipsOfFile
  <2>2. \A rip \in FileRips : (\E j \in DOMAIN entries : InSegment(rip, entries[j])) <=> Holders(rip) # {}
    BY <1>3, <1>5, <2>1
  <2> QED
    BY <2>2 DEF HeldAddresses, Addressed, FileRips
<1>7. ASSUME NEW rip \in Addressed
      PROVE  /\ file_[rip] = known[rip].file /\ line[rip] = LinuxLine(rip, known)
             /\ \A j \in DOMAIN entries : InSegment(rip, entries[j]) =>
                  name[rip] = LinuxName(rip, Filenames(modules)[j], known)
  <2>1. rip \in Nat
    BY RipsOfFile DEF Addressed
  <2>2. file_[rip] = TrueFile(rip, known) /\ name[rip] = TrueName(rip, known)
    BY <2>1 DEF NamesOf, FilesOf
  <2>3. TrueFile(rip, known) = known[rip].file /\ line[rip] = LinuxLine(rip, known)
    BY <2>1 DEF TrueFile, Lined, LinesOf
  <2>4. ASSUME NEW j \in DOMAIN entries, InSegment(rip, entries[j])
        PROVE  TrueName(rip, known) = LinuxName(rip, Filenames(modules)[j], known)
    <3>1. j \in Holders(rip)
      BY <1>3, <1>5, <2>1, <2>4
    <3>2. PICK m : m = (CHOOSE h \in Holders(rip) : TRUE)
      OBVIOUS
    <3>3. m \in Holders(rip)
      BY <3>1, <3>2
    <3>4. m = j
      BY <1>1, <2>1, <3>1, <3>3 DEF Holders, AreApart
    <3>5. TrueName(rip, known) = LinuxName(rip, saved.modules[m].m_Filename, known)
      BY <3>2 DEF TrueName
    <3>6. Filenames(modules)[j] = saved.modules[m].m_Filename
      BY <1>1, <1>3, <3>4 DEF Filenames
    <3> QED
      BY <3>5, <3>6
  <2> QED
    BY <2>2, <2>3, <2>4
<1>8. IsLinuxNames(entries, Filenames(modules), saved.frames, saved.nodes, known, name, file_, line)
  BY <1>6, <1>7 DEF IsLinuxNames
<1> QED
  BY <1>1, <1>2, <1>6, <1>8

LEMMA WindowsNamesOfFile ==
  ASSUME SavedInv, phase # "capture", platform = "windows", NEW known,
         NEW name, name = NamesOf(known), NEW file_, file_ = FilesOf(known),
         NEW junk, NEW line, line = LinesOf(known, junk)
  PROVE  IsWindowsNames(ModuleEntries(saved.modules), saved.frames, saved.nodes, known, junk, name, file_, line)
<1>1. PICK modules \in Seq(ModuleInfos) : /\ modules = saved.modules
                                          /\ \A i \in DOMAIN modules : modules[i].m_ImageSegmentOffset = 0
  BY DEF SavedInv, AreSavedModules
<1>2. PICK entries : entries = ModuleEntries(modules)
  OBVIOUS
<1>3. DOMAIN entries = DOMAIN modules
  BY <1>2 DEF ModuleEntries
<1>4. \A j \in DOMAIN modules :
        entries[j].m_ImageBase = modules[j].m_ImageBase /\ entries[j].m_SizeBytes = modules[j].m_SizeBytes
  BY <1>2, EntriesOfModules
<1>5. ASSUME NEW rip \in FileRips
      PROVE  LET named == KnownModule(rip, entries) /\ known[rip].addr2line # Unknown
             IN  /\ name[rip] = IF named THEN known[rip].addr2line ELSE AddressName(rip)
                 /\ file_[rip] = IF named /\ known[rip].line # NoLineNumber THEN known[rip].file ELSE EmptyString
                 /\ line[rip] = IF named /\ known[rip].line # NoLineNumber THEN known[rip].line ELSE junk
  <2>1. rip \in Nat
    BY RipsOfFile
  <2>2. \A j \in DOMAIN modules :
          InSegment(rip, modules[j]) <=>
            rip >= entries[j].m_ImageBase /\ rip < entries[j].m_ImageBase + entries[j].m_SizeBytes
    <3> SUFFICES ASSUME NEW j \in DOMAIN modules
                 PROVE  InSegment(rip, modules[j]) <=>
                          rip >= entries[j].m_ImageBase /\ rip < entries[j].m_ImageBase + entries[j].m_SizeBytes
      OBVIOUS
    <3>1. PICK m \in ModuleInfos : m = modules[j]
      BY <1>1
    <3>2. m.m_ImageBase \in Nat /\ m.m_ImageBase + m.m_ImageSegmentOffset = m.m_ImageBase
      BY <1>1, <3>1 DEF ModuleInfos
    <3> QED
      BY <1>4, <3>1, <3>2 DEF InSegment
  <2>3. KnownModule(rip, entries) <=> Holders(rip) # {}
    BY <1>1, <1>3, <2>2 DEF KnownModule, Holders
  <2>4. /\ file_[rip] = TrueFile(rip, known) /\ name[rip] = TrueName(rip, known)
        /\ line[rip] = IF Lined(rip, known) THEN LinuxLine(rip, known) ELSE junk
    BY <2>1 DEF NamesOf, FilesOf, LinesOf
  <2> QED
    BY <2>3, <2>4 DEF TrueName, TrueFile, Lined, LinuxLine
<1> QED
  BY <1>1, <1>2, <1>5 DEF IsWindowsNames, FileRips

LEMMA SymbolsOfSaved ==
  ASSUME SavedInv, PlatformInv, phase # "capture", NEW known, NEW junk
  PROVE  AreSymbolsOf(SavedSymbols(known, junk), Addressed, NamesOf(known), FilesOf(known), LinesOf(known, junk))
<1>1. PICK p \in {"linux", "windows"} : p = platform
  BY LoadedListsAssumption DEF PlatformInv
<1>2. PICK modules \in Seq(ModuleInfos) : modules = saved.modules
  BY SavedTypes
<1>3. PICK frames \in Seq(Nat) : frames = saved.frames
  BY SavedTypes
<1>4. PICK T : saved.nodes \in Seq(T)
  BY SavedTypes
<1>5. PICK nodes \in Seq(T) : nodes = saved.nodes /\ \A i \in DOMAIN nodes : nodes[i].m_Rip \in Nat
  BY <1>4, SavedTypes
<1>6. PICK name, file_, line : name = NamesOf(known) /\ file_ = FilesOf(known) /\ line = LinesOf(known, junk)
  OBVIOUS
<1>7. PICK names : names = Filenames(modules)
  OBVIOUS
<1>8. PICK entries \in Seq(EntryRecords) : entries = ModuleEntries(modules) /\ \A i \in DOMAIN entries : entries[i].m_ImageBase \in Nat
  <2>1. ModuleEntries(modules) \in Seq(EntryRecords)
    BY EntriesOfModules
  <2>2. PICK entries \in Seq(EntryRecords) : entries = ModuleEntries(modules)
    BY <2>1
  <2>3. \A i \in DOMAIN entries : entries[i] \in EntryRecords
    OBVIOUS
  <2> QED
    BY <2>2, <2>3 DEF EntryRecords
<1>9. CASE p = "linux"
  <2>1. IsLinuxNames(entries, names, frames, nodes, known, name, file_, line) /\ HeldAddresses(entries, frames, nodes) = Addressed
    BY <1>1, <1>2, <1>3, <1>5, <1>6, <1>7, <1>8, <1>9, LinuxNamesOfFile
  <2>2. AreSymbolsOf(LinuxResolveSymbols(entries, names, frames, nodes, known),
                     HeldAddresses(entries, frames, nodes), name, file_, line)
    BY <1>5, <1>8, <2>1, LinuxSymbols
  <2> QED
    BY <1>1, <1>2, <1>3, <1>5, <1>6, <1>7, <1>8, <1>9, <2>1, <2>2 DEF SavedSymbols
<1>10. CASE p = "windows"
  <2>1. IsWindowsNames(entries, frames, nodes, known, junk, name, file_, line)
    BY <1>1, <1>2, <1>3, <1>5, <1>6, <1>8, <1>10, WindowsNamesOfFile
  <2>2. AreSymbolsOf(WindowsResolveSymbols(entries, frames, nodes, known, junk), AddressesOf(frames, nodes), name, file_, line)
    BY <1>5, <2>1, WindowsSymbols
  <2>3. Addressed = AddressesOf(frames, nodes)
    BY <1>1, <1>3, <1>5, <1>10 DEF Addressed, FileRips
  <2> QED
    BY <1>1, <1>2, <1>3, <1>5, <1>6, <1>8, <1>10, <2>2, <2>3 DEF SavedSymbols
<1> QED
  BY <1>9, <1>10

\* The strings of the symbols.
TextOf(known) ==
  {EmptyString} \cup {TrueName(rip, known) : rip \in Addressed} \cup {TrueFile(rip, known) : rip \in Addressed}

LEMMA TextHasLength ==
  ASSUME SavedInv, PlatformInv, phase # "capture", NEW known \in Infos
  PROVE  \A s \in TextOf(known) : s.len \in Nat
<1>1. EmptyString.len \in Nat
  BY DEF EmptyString
<1>2. ASSUME NEW rip \in Addressed
      PROVE  TrueName(rip, known).len \in Nat /\ TrueFile(rip, known).len \in Nat
  <2>1. rip \in Rips \cup Callers
    BY RipsOfFile DEF Addressed
  <2>2. PICK k : k = known[rip]
    OBVIOUS
  <2>3. /\ k.addr2line = Unknown \/ k.addr2line.len \in Nat
        /\ k.objdump = Unknown \/ k.objdump.len \in Nat
        /\ k.file.len \in Nat
    BY <2>1, <2>2, InfosAssumption DEF Callers
  <2>4. TrueFile(rip, known).len \in Nat
    BY <1>1, <2>2, <2>3 DEF TrueFile
  <2>5. AddressName(rip).len \in Nat
    BY DEF AddressName
  <2>6. CASE platform = "linux"
    <3>1. Holders(rip) # {}
      BY <2>6 DEF Addressed
    <3>2. PICK m \in Holders(rip) : m = (CHOOSE h \in Holders(rip) : TRUE)
      BY <3>1
    <3>3. m \in DOMAIN saved.modules
      BY DEF Holders
    <3>4. PICK of \in ModuleNames : of = saved.modules[m].m_Filename
      <4>1. PICK modules \in Seq(ModuleInfos) : modules = saved.modules
        BY SavedTypes
      <4>2. modules[m] \in ModuleInfos
        BY <3>3, <4>1
      <4> QED
        BY <4>1, <4>2 DEF ModuleInfos
    <3>5. of.len \in Nat
      BY ModulesAssumption DEF ModuleNames
    <3>6. TrueName(rip, known) = LinuxName(rip, of, known)
      BY <2>6, <3>2, <3>4 DEF TrueName
    <3>7. AddressInModule(rip, of).len \in Nat
      BY <3>5 DEF AddressInModule
    <3>8. k.addr2line # Unknown => WithNewline(k.addr2line).len \in Nat
      BY <2>3 DEF WithNewline
    <3> QED
      BY <2>2, <2>3, <2>4, <3>6, <3>7, <3>8 DEF LinuxName
  <2>7. CASE platform # "linux"
    BY <2>2, <2>3, <2>4, <2>5, <2>7 DEF TrueName
  <2> QED
    BY <2>6, <2>7
<1> QED
  BY <1>1, <1>2 DEF TextOf

\* symbolResolveTask: the table and the strings of the symbols.
LEMMA TableOfSaved ==
  ASSUME SavedInv, PlatformInv, phase # "capture", NEW known, NEW junk,
         NEW resolved, resolved = SavedSymbols(known, junk)
  PROVE  /\ InternedStrings(resolved) \in Seq(TextOf(known))
         /\ IsSymbolTable(SerializedSymbols(resolved), InternedStrings(resolved), Addressed, NamesOf(known), FilesOf(known), LinesOf(known, junk))
<1>1. PICK A \in SUBSET Nat : A = Addressed
  BY RipsOfFile DEF Addressed
<1>2. PICK name, file_, line : name = NamesOf(known) /\ file_ = FilesOf(known) /\ line = LinesOf(known, junk)
  OBVIOUS
<1>3. AreSymbolsOf(resolved, A, name, file_, line)
  BY <1>1, <1>2, SymbolsOfSaved
<1>4. PICK T : T = TextOf(known)
  OBVIOUS
<1>5. EmptyString \in T
  BY <1>4 DEF TextOf
<1>6. \A rip \in A : name[rip] \in T /\ file_[rip] \in T
  <2> SUFFICES ASSUME NEW rip \in A PROVE name[rip] \in T /\ file_[rip] \in T
    OBVIOUS
  <2>1. name[rip] = TrueName(rip, known) /\ file_[rip] = TrueFile(rip, known)
    BY <1>2 DEF NamesOf, FilesOf
  <2> QED
    BY <1>1, <1>4, <2>1 DEF TextOf
<1>7. /\ InternedStrings(resolved) \in Seq(T)
      /\ IsSymbolTable(SerializedSymbols(resolved), InternedStrings(resolved), A, name, file_, line)
  BY <1>3, <1>5, <1>6, SymbolsSerialized
<1> QED
  BY <1>1, <1>2, <1>4, <1>7

\* The symbols of the file are those of what was saved.
HasSymbolsOf(f, known, junk) ==
  SymbolsIn(f, SerializedSymbols(SavedSymbols(known, junk)), InternedStrings(SavedSymbols(known, junk)))

LEMMA SymbolsOfInfoAreRead ==
  ASSUME SavedInv, PlatformInv, phase # "capture", NEW known \in Infos, NEW junk, NEW f,
         HasSymbolsOf(f, known, junk)
  PROVE  ReadsSymbols(f, Addressed, NamesOf(known), FilesOf(known), LinesOf(known, junk))
<1>1. PICK A \in SUBSET Nat : A = Addressed
  BY RipsOfFile DEF Addressed
<1>2. PICK name, file_, line : name = NamesOf(known) /\ file_ = FilesOf(known) /\ line = LinesOf(known, junk)
  OBVIOUS
<1>3. PICK resolved : resolved = SavedSymbols(known, junk)
  OBVIOUS
<1>4. PICK T : T = TextOf(known)
  OBVIOUS
<1>5. \A s \in T : s.len \in Nat
  BY <1>4, TextHasLength
<1>6. /\ InternedStrings(resolved) \in Seq(T)
      /\ IsSymbolTable(SerializedSymbols(resolved), InternedStrings(resolved), A, name, file_, line)
  BY <1>1, <1>2, <1>3, <1>4, TableOfSaved
<1>7. PICK strings \in Seq(T) : strings = InternedStrings(resolved)
  BY <1>6
<1>8. PICK symbols : symbols = SerializedSymbols(resolved)
  OBVIOUS
<1>9. SymbolsIn(f, symbols, strings)
  BY <1>3, <1>7, <1>8 DEF HasSymbolsOf
<1>10. ReadsSymbols(f, A, name, file_, line)
  BY <1>5, <1>6, <1>7, <1>8, <1>9, SymbolsAreRead
<1> QED
  BY <1>1, <1>2, <1>10

\* symbolsResolved: the file with other symbols.
LEMMA FileWithSymbols ==
  ASSUME NEW f, IsTraceFile(f), NEW modules, NEW frames, NEW nodes, SectionsIn(f, f.header, modules, frames, nodes),
         NEW S, NEW symbols \in Seq(S), NEW T, NEW strings \in Seq(T), \A s \in T : s.len \in Nat,
         NEW g, g = AppendSymbols(f, symbols, strings)
  PROVE  /\ Extends(f, g) /\ IsTraceFile(g) /\ SectionsIn(g, g.header, modules, frames, nodes)
         /\ SymbolsIn(g, symbols, strings)
<1>1. /\ Extends(f, g) /\ SameSavedWords(f.header, g.header)
      /\ g.header.m_SymbolCount = Len(symbols)
      /\ EachAt(g, g.header.m_SymbolOffset, symbols, SizeOfSymbol)
      /\ HasAt(g, g.header.m_SymbolTextOffset, strings, Offsets(TextSizes(strings)))
      /\ g.header.m_SymbolTextOffset \in Nat
  BY SymbolsAppended
<1>2. SectionsIn(g, f.header, modules, frames, nodes)
  BY <1>1, StillSections
<1>3. SectionsIn(g, g.header, modules, frames, nodes)
  BY <1>1, <1>2, SameSections
<1> QED
  BY <1>1, <1>3 DEF Extends, SymbolsIn

LEMMA ResolvedFile ==
  ASSUME SavedInv, FileInv, PlatformInv, phase # "capture", NEW known \in Infos, NEW junk,
         NEW g, g = Appended(known, junk)
  PROVE  /\ Extends(file, g) /\ IsTraceFile(g)
         /\ SectionsIn(g, g.header, saved.modules, saved.frames, saved.nodes)
         /\ HasSymbolsOf(g, known, junk)
<1>1. PICK resolved : resolved = SavedSymbols(known, junk)
  OBVIOUS
<1>2. ResolvedSymbols(known, junk) = resolved
  BY <1>1, ResolvedFromSaved
<1>3. PICK T : T = TextOf(known) /\ \A s \in T : s.len \in Nat
  BY TextHasLength
<1>4. /\ InternedStrings(resolved) \in Seq(T)
      /\ IsSymbolTable(SerializedSymbols(resolved), InternedStrings(resolved), Addressed, NamesOf(known), FilesOf(known), LinesOf(known, junk))
  BY <1>1, <1>3, TableOfSaved
<1>5. PICK strings \in Seq(T) : strings = InternedStrings(resolved)
  BY <1>4
<1>6. PICK S : SerializedSymbols(resolved) \in Seq(S)
  BY <1>4 DEF IsSymbolTable
<1>7. PICK symbols \in Seq(S) : symbols = SerializedSymbols(resolved)
  BY <1>6
<1>8. g = AppendSymbols(file, symbols, strings)
  BY <1>2, <1>5, <1>7 DEF Appended
<1>9. PICK f, modules, frames, nodes :
        /\ f = file /\ modules = saved.modules /\ frames = saved.frames /\ nodes = saved.nodes
        /\ IsTraceFile(f) /\ SectionsIn(f, f.header, modules, frames, nodes)
  BY DEF FileInv
<1>10. /\ Extends(f, g) /\ IsTraceFile(g) /\ SectionsIn(g, g.header, modules, frames, nodes)
       /\ SymbolsIn(g, symbols, strings)
  BY <1>3, <1>8, <1>9, FileWithSymbols
<1> QED
  BY <1>1, <1>5, <1>7, <1>9, <1>10 DEF HasSymbolsOf

\* ResolveSymbols failed.
LEMMA UnresolvedFile ==
  ASSUME FileInv, phase # "capture", NEW g, g = AppendSymbols(file, << >>, << >>)
  PROVE  /\ IsTraceFile(g) /\ SectionsIn(g, g.header, saved.modules, saved.frames, saved.nodes)
         /\ g.header.m_SymbolCount = 0
<1>1. PICK f, modules, frames, nodes :
        /\ f = file /\ modules = saved.modules /\ frames = saved.frames /\ nodes = saved.nodes
        /\ IsTraceFile(f) /\ SectionsIn(f, f.header, modules, frames, nodes)
  BY DEF FileInv
<1>2. PICK T : T = {EmptyString}
  OBVIOUS
<1>5. \A s \in T : s.len \in Nat
  <2>1. EmptyString.len \in Nat
    BY DEF EmptyString
  <2>2. \A s \in T : s = EmptyString
    BY <1>2
  <2> QED
    BY <2>1, <2>2
<1>3. PICK none \in Seq(T) : none = << >> /\ Len(none) = 0
  BY EmptySeq
<1>4. IsTraceFile(g) /\ SectionsIn(g, g.header, modules, frames, nodes) /\ SymbolsIn(g, none, none)
  BY <1>1, <1>3, <1>5, FileWithSymbols
<1> QED
  BY <1>1, <1>3, <1>4 DEF SymbolsIn

\* A file that has only become longer has what it had.
LEMMA LongerFile ==
  ASSUME NEW f, NEW g, Extends(f, g), NEW e, e = [f EXCEPT !.size = g.size]
  PROVE  Extends(f, e) /\ e.header = f.header
<1>1. f \in [size : Nat, cell : {f.cell}, header : HeaderWords] /\ g.size \in Nat /\ f.size <= g.size
  BY DEF Extends, IsTraceFile
<1>2. e.size = g.size /\ e.cell = f.cell /\ e.header = f.header
  BY <1>1
<1>3. e \in [size : Nat, cell : {e.cell}, header : HeaderWords]
  BY <1>1
<1>4. IsTraceFile(e)
  <2>1. DOMAIN f.cell \in SUBSET Nat /\ \A o \in DOMAIN f.cell : o < f.size /\ o \in Nat
    BY DEF Extends, IsTraceFile
  <2>2. f.size \in Nat
    BY <1>1
  <2>3. \A o \in DOMAIN f.cell : o < g.size
    BY <1>1, <2>1, <2>2
  <2> QED
    BY <1>2, <1>3, <2>1, <2>3 DEF IsTraceFile
<1> QED
  BY <1>1, <1>2, <1>4 DEF Extends

LEMMA StillSymbols ==
  ASSUME NEW f, NEW g, Extends(f, g), g.header = f.header, NEW symbols, NEW strings, SymbolsIn(f, symbols, strings)
  PROVE  SymbolsIn(g, symbols, strings)
  BY StillEachAt, StillHasAt DEF SymbolsIn

\* The strings are those of the names and the files, whatever the lines are.
LEMMA StringsOfNames ==
  ASSUME NEW n \in Nat, NEW S, NEW r \in Seq(S), NEW T, NEW q \in Seq(T), Len(r) = n, Len(q) = n,
         \A k \in 1 .. n : r[k].m_SymbolName = q[k].m_SymbolName /\ r[k].m_FileName = q[k].m_FileName
  PROVE  InternedStrings(r) = InternedStrings(q)
<1>1. PICK s, t : s = NamesAndFiles(r) /\ t = NamesAndFiles(q)
  OBVIOUS
<1>2. /\ s = [k \in 1 .. 2 * n |-> IF k % 2 = 1 THEN r[(k + 1) \div 2].m_SymbolName ELSE r[k \div 2].m_FileName]
      /\ t = [k \in 1 .. 2 * n |-> IF k % 2 = 1 THEN q[(k + 1) \div 2].m_SymbolName ELSE q[k \div 2].m_FileName]
  BY <1>1 DEF NamesAndFiles
<1>3. ASSUME NEW i \in 1 .. 2 * n PROVE s[i] = t[i]
  <2>1. CASE i % 2 = 1
    <3>1. PICK k \in 1 .. n : k = (i + 1) \div 2
      BY <2>1
    <3>2. s[i] = r[k].m_SymbolName /\ t[i] = q[k].m_SymbolName
      BY <1>2, <2>1, <3>1
    <3> QED
      BY <3>2
  <2>2. CASE i % 2 # 1
    <3>1. PICK k \in 1 .. n : k = i \div 2
      BY <2>2
    <3>2. s[i] = r[k].m_FileName /\ t[i] = q[k].m_FileName
      BY <1>2, <2>2, <3>1
    <3> QED
      BY <3>2
  <2> QED
    BY <2>1, <2>2
<1>4. s = t
  <2>1. DOMAIN s = 1 .. 2 * n /\ s = [k \in 1 .. 2 * n |-> s[k]]
    BY <1>2
  <2>2. DOMAIN t = 1 .. 2 * n /\ t = [k \in 1 .. 2 * n |-> t[k]]
    BY <1>2
  <2> QED
    BY <1>3, <2>1, <2>2
<1> QED
  BY <1>1, <1>4 DEF InternedStrings

LEMMA WindowsStrings ==
  ASSUME NEW modules, NEW stacks \in Seq(Nat), NEW T, NEW nodes \in Seq(T),
         \A i \in DOMAIN nodes : nodes[i].m_Rip \in Nat, NEW known, NEW any, NEW other
  PROVE  InternedStrings(WindowsResolveSymbols(modules, stacks, nodes, known, any))
           = InternedStrings(WindowsResolveSymbols(modules, stacks, nodes, known, other))
<1>1. PICK addresses : addresses = Addresses(stacks, nodes)
  OBVIOUS
<1>2. addresses \in Seq(Nat)
  BY <1>1, AddressesOnce
<1>3. PICK n \in Nat : DOMAIN addresses = 1 .. n
  BY <1>2
<1>4. PICK r : r = [k \in 1 .. n |-> WindowsSymbol(addresses[k], modules, known, any)]
  OBVIOUS
<1>5. PICK q : q = [k \in 1 .. n |-> WindowsSymbol(addresses[k], modules, known, other)]
  OBVIOUS
<1>6. WindowsResolveSymbols(modules, stacks, nodes, known, any) = Evaluated(r)
  BY <1>1, <1>3, <1>4 DEF WindowsResolveSymbols, WindowsSymbol
<1>7. WindowsResolveSymbols(modules, stacks, nodes, known, other) = Evaluated(q)
  BY <1>1, <1>3, <1>5 DEF WindowsResolveSymbols, WindowsSymbol
<1>8. /\ DOMAIN r = 1 .. n /\ r = [k \in 1 .. n |-> r[k]]
      /\ DOMAIN q = 1 .. n /\ q = [k \in 1 .. n |-> q[k]]
  BY <1>4, <1>5
<1>9. PICK S : r \in Seq(S) /\ Evaluated(r) = r
  BY <1>8, SequenceOfItsMembers
<1>10. PICK U : q \in Seq(U) /\ Evaluated(q) = q
  BY <1>8, SequenceOfItsMembers
<1>11. ASSUME NEW k \in 1 .. n
       PROVE  r[k].m_SymbolName = q[k].m_SymbolName /\ r[k].m_FileName = q[k].m_FileName
  <2>1. PICK rip : rip = addresses[k]
    OBVIOUS
  <2>2. PICK named : named = (KnownModule(rip, modules) /\ known[rip].addr2line # Unknown)
    OBVIOUS
  <2>3. PICK name1, file1, line1, line2, i1 :
          /\ name1 = IF named THEN known[rip].addr2line ELSE AddressName(rip)
          /\ file1 = IF named /\ known[rip].line # NoLineNumber THEN known[rip].file ELSE EmptyString
          /\ line1 = IF named /\ known[rip].line # NoLineNumber THEN known[rip].line ELSE any
          /\ line2 = IF named /\ known[rip].line # NoLineNumber THEN known[rip].line ELSE other
          /\ i1 = FirstOf({j \in DOMAIN modules : InImage(rip, modules[j])}) - 1
    OBVIOUS
  <2>4. r[k] = Symbol(rip, name1, file1, line1, i1)
    BY <1>4, <2>1, <2>2, <2>3 DEF WindowsSymbol
  <2>5. q[k] = Symbol(rip, name1, file1, line2, i1)
    BY <1>5, <2>1, <2>2, <2>3 DEF WindowsSymbol
  <2> QED
    BY <2>4, <2>5 DEF Symbol
<1>12. Len(r) = n /\ Len(q) = n
  BY <1>8, <1>9, <1>10, LenProperties
<1>13. InternedStrings(r) = InternedStrings(q)
  BY <1>9, <1>10, <1>11, <1>12, StringsOfNames
<1> QED
  BY <1>6, <1>7, <1>9, <1>10, <1>13

LEMMA StringsOfSaved ==
  ASSUME SavedInv, phase # "capture", NEW known, NEW any, NEW other
  PROVE  InternedStrings(SavedSymbols(known, any)) = InternedStrings(SavedSymbols(known, other))
<1>1. PICK entries : entries = ModuleEntries(saved.modules)
  OBVIOUS
<1>2. PICK frames \in Seq(Nat) : frames = saved.frames
  BY SavedTypes
<1>3. PICK T : saved.nodes \in Seq(T)
  BY SavedTypes
<1>4. PICK nodes \in Seq(T) : nodes = saved.nodes /\ \A i \in DOMAIN nodes : nodes[i].m_Rip \in Nat
  BY <1>3, SavedTypes
<1>5. InternedStrings(WindowsResolveSymbols(entries, frames, nodes, known, any))
        = InternedStrings(WindowsResolveSymbols(entries, frames, nodes, known, other))
  BY <1>4, WindowsStrings
<1> QED
  BY <1>1, <1>2, <1>4, <1>5 DEF SavedSymbols

\* The name of a symbol is at its offset in the strings.
LEMMA NameOfSymbol ==
  ASSUME NEW f, NEW A, NEW name, NEW file_, NEW line, NEW symbols, NEW strings, IsSymbolTable(symbols, strings, A, name, file_, line),
         SymbolsIn(f, symbols, strings), NEW rip \in Nat, HasSymbol(f, rip)
  PROVE  \E s : IsOffsetOf(strings, SymbolOf(f, rip).m_SymbolName, s)
<1>1. PICK S : symbols \in Seq(S)
  BY DEF IsSymbolTable
<1>2. PICK n \in Nat : IsSortedTable(symbols, n)
  BY DEF IsSymbolTable
<1>3. GetSymbols(f) = symbols
  BY <1>1, TableIsRead DEF GetSymbols, SymbolsIn
<1>4. PICK s \in 1 .. n : s = FindSymbol(f, rip)
  BY <1>2, <1>3, SymbolIsFound DEF HasSymbol
<1>5. SymbolOf(f, rip) = symbols[s]
  BY <1>3, <1>4 DEF SymbolOf
<1>6. s \in DOMAIN symbols
  BY <1>2 DEF IsSortedTable
<1> QED
  BY <1>5, <1>6 DEF IsSymbolTable

\* Symbols from the same debug information have their names at the same offsets.
LEMMA SameNames ==
  ASSUME SavedInv, PlatformInv, phase # "capture", NEW known \in Infos, NEW any, NEW other,
         NEW f, HasSymbolsOf(f, known, any), NEW g, HasSymbolsOf(g, known, other),
         NEW rip \in Nat, HasSymbol(f, rip)
  PROVE  GetString(f, SymbolOf(f, rip).m_SymbolName) = GetString(g, SymbolOf(f, rip).m_SymbolName)
<1>1. PICK T : T = TextOf(known) /\ \A s \in T : s.len \in Nat
  BY TextHasLength
<1>2. PICK A, name, file_, line : A = Addressed /\ name = NamesOf(known) /\ file_ = FilesOf(known) /\ line = LinesOf(known, any)
  OBVIOUS
<1>3. PICK r, q : r = SavedSymbols(known, any) /\ q = SavedSymbols(known, other)
  OBVIOUS
<1>4. /\ InternedStrings(r) \in Seq(T)
      /\ IsSymbolTable(SerializedSymbols(r), InternedStrings(r), A, name, file_, line)
  BY <1>1, <1>2, <1>3, TableOfSaved
<1>5. PICK strings \in Seq(T) : strings = InternedStrings(r) /\ strings = InternedStrings(q)
  BY <1>3, <1>4, StringsOfSaved
<1>6. PICK symbols, symbols2 : symbols = SerializedSymbols(r) /\ symbols2 = SerializedSymbols(q)
  OBVIOUS
<1>7. SymbolsIn(f, symbols, strings) /\ SymbolsIn(g, symbols2, strings)
  BY <1>3, <1>5, <1>6 DEF HasSymbolsOf
<1>8. PICK s : IsOffsetOf(strings, SymbolOf(f, rip).m_SymbolName, s)
  BY <1>4, <1>5, <1>6, <1>7, NameOfSymbol
<1>9. PICK o : o = SymbolOf(f, rip).m_SymbolName /\ IsOffsetOf(strings, o, s)
  BY <1>8
<1>10. GetString(f, o) = s
  BY <1>1, <1>7, <1>9, StringIsRead
<1>11. GetString(g, o) = s
  BY <1>1, <1>7, <1>9, StringIsRead
<1> QED
  BY <1>9, <1>10, <1>11

-----------------------------------------------------------------------------
(* The invariant of the symbols                                            *)

\* The symbols of the file are from info, the debug information of the last
\* resolution that was completed.
SymbolsInv ==
  /\ phase = "capture" => info = NoInfo
  /\ phase # "capture" =>
       \/ info = NoInfo /\ file.header.m_SymbolCount = 0
       \/ info \in Infos /\ \E junk \in JunkLines : HasSymbolsOf(file, info, junk)

\* What is in the cache is in the file.
CacheHolds(f, c) == \A o \in DOMAIN c : c[o] = GetString(f, o)

CacheInv == (phase = "open" /\ cacheInfo = info) => CacheHolds(file, cache)

ProfileInv == StoreInv /\ FramesInv /\ PlatformInv /\ SavedInv /\ FileInv /\ SymbolsInv /\ CacheInv

LEMMA InternedHolds ==
  ASSUME NEW f, NEW c, CacheHolds(f, c), NEW offsets
  PROVE  CacheHolds(f, Interned(f, c, offsets))
  BY DEF CacheHolds, Interned, internedSymbolString

LEMMA EmptyCacheHolds ==
  ASSUME NEW f
  PROVE  CacheHolds(f, << >>)
  BY DEF CacheHolds

\* A flat profile reads the names of the nodes' symbols.
LEMMA FlatCache ==
  ASSUME SavedInv, FileInv, phase # "capture", NEW o \in DOMAIN CacheAfterFlat(file, << >>)
  PROVE  /\ CacheAfterFlat(file, << >>)[o] = GetString(file, o)
         /\ \E rip \in Nat : HasSymbol(file, rip) /\ o = SymbolOf(file, rip).m_SymbolName
<1>1. PICK c : c = CacheAfterFlat(file, << >>)
  OBVIOUS
<1>2. PICK f : f = file
  OBVIOUS
<1>3. PICK rips : rips = RipsOf(GetStats(f))
  OBVIOUS
<1>4. c = Interned(f, << >>, NameOffsets(f, rips))
  BY <1>1, <1>2, <1>3 DEF CacheAfterFlat
<1>5. o \in NameOffsets(f, rips)
  BY <1>1, <1>4 DEF Interned
<1>6. c[o] = GetString(f, o)
  BY <1>4, <1>5 DEF Interned, internedSymbolString
<1>7. PICK rip \in rips : HasSymbol(f, rip) /\ o = SymbolOf(f, rip).m_SymbolName
  BY <1>5 DEF NameOffsets
<1>8. GetStats(f) = saved.nodes
  <2>1. PICK modules \in Seq(ModuleInfos) : modules = saved.modules
    BY SavedTypes
  <2>2. PICK frames \in Seq(Nat) : frames = saved.frames
    BY SavedTypes
  <2>3. PICK T : saved.nodes \in Seq(T)
    BY SavedTypes
  <2>4. PICK nodes \in Seq(T) : nodes = saved.nodes
    BY <2>3
  <2>5. SectionsIn(f, f.header, modules, frames, nodes)
    BY <1>2, <2>1, <2>2, <2>4 DEF FileInv
  <2> QED
    BY <2>4, <2>5, FileIsRead
<1>9. rip \in Nat
  BY <1>3, <1>8, SavedTypes DEF RipsOf
<1> QED
  BY <1>1, <1>2, <1>6, <1>7, <1>9

\* With the views closed, or with debug information that is another's, nothing
\* that was read is kept.
LEMMA ResolutionKeepsCache ==
  ASSUME ProfileInv, NEW newFile, NEW newInfo, symbolsResolved(newFile, newInfo),
         \A o \in DOMAIN CacheAfterFlat(file, << >>) :
           newInfo = info => GetString(newFile, o) = GetString(file, o)
  PROVE  CacheInv'
<1> SUFFICES ASSUME cacheInfo' = info' PROVE CacheHolds(file', cache')
  BY DEF CacheInv
<1>1. phase # "capture" /\ file' = newFile /\ info' = newInfo
  BY DEF symbolsResolved
<1>2. CASE cache' = << >>
  BY <1>2, EmptyCacheHolds
<1>3. CASE cache' # << >>
  <2>1. PICK c : c = CacheAfterFlat(file, << >>)
    OBVIOUS
  <2>2. cache' = c /\ cacheInfo' = info
    BY <1>3, <2>1 DEF symbolsResolved
  <2>3. newInfo = info
    BY <1>1, <2>2
  <2>4. \A o \in DOMAIN c : c[o] = GetString(file, o)
    BY <1>1, <2>1, FlatCache DEF ProfileInv
  <2>5. \A o \in DOMAIN c : c[o] = GetString(newFile, o)
    BY <2>1, <2>3, <2>4
  <2>6. CacheHolds(newFile, c)
    BY <2>5 DEF CacheHolds
  <2> QED
    BY <1>1, <2>2, <2>6
<1> QED
  BY <1>2, <1>3

\* symbolsResolved, and what was resolved is in the file.
LEMMA ResolveStep ==
  ASSUME ProfileInv, NEW known \in Infos, NEW junk \in JunkLines, Resolve(known, junk)
  PROVE  FileInv' /\ SymbolsInv' /\ CacheInv'
<1>1. PICK g : g = Appended(known, junk)
  OBVIOUS
<1>2. symbolsResolved(g, known)
  BY <1>1 DEF Resolve
<1>3. /\ phase = "open" /\ phase' = phase /\ file' = g /\ info' = known
      /\ UNCHANGED <<platform, saved>>
  BY <1>2 DEF symbolsResolved, fileVars
<1>4. phase # "capture" /\ SavedInv /\ FileInv /\ PlatformInv /\ SymbolsInv
  BY <1>3 DEF ProfileInv
<1>5. /\ IsTraceFile(g) /\ SectionsIn(g, g.header, saved.modules, saved.frames, saved.nodes)
      /\ HasSymbolsOf(g, known, junk)
  BY <1>1, <1>4, ResolvedFile
<1>6. FileInv'
  BY <1>3, <1>5 DEF FileInv
<1>7. SavedSymbols(known, junk)' = SavedSymbols(known, junk)
  BY <1>3 DEF SavedSymbols
<1>8. HasSymbolsOf(g, known, junk)'
  BY <1>5, <1>7 DEF HasSymbolsOf
<1>9. SymbolsInv'
  BY <1>3, <1>8 DEF SymbolsInv
<1>10. ASSUME known = info, NEW o \in DOMAIN CacheAfterFlat(file, << >>)
       PROVE  GetString(g, o) = GetString(file, o)
  <2>1. info # NoInfo
    BY <1>10, InfosAssumption
  <2>2. PICK other \in JunkLines : HasSymbolsOf(file, known, other)
    BY <1>4, <1>10, <2>1 DEF SymbolsInv
  <2>3. PICK rip \in Nat : HasSymbol(file, rip) /\ o = SymbolOf(file, rip).m_SymbolName
    BY <1>4, <1>10, FlatCache
  <2>4. PICK f : f = file
    OBVIOUS
  <2>5. GetString(f, SymbolOf(f, rip).m_SymbolName) = GetString(g, SymbolOf(f, rip).m_SymbolName)
    BY <1>4, <1>5, <2>2, <2>3, <2>4, SameNames
  <2> QED
    BY <2>3, <2>4, <2>5
<1>11. CacheInv'
  BY <1>2, <1>10, ResolutionKeepsCache
<1> QED
  BY <1>6, <1>9, <1>11

LEMMA ResolveFailsStep ==
  ASSUME ProfileInv, ResolveFails
  PROVE  FileInv' /\ SymbolsInv' /\ CacheInv'
<1>1. PICK g : g = AppendSymbols(file, << >>, << >>)
  OBVIOUS
<1>2. symbolsResolved(g, NoInfo)
  BY <1>1 DEF ResolveFails
<1>3. /\ phase = "open" /\ phase' = phase /\ file' = g /\ info' = NoInfo
      /\ UNCHANGED <<platform, saved>>
  BY <1>2 DEF symbolsResolved, fileVars
<1>4. phase # "capture" /\ SavedInv /\ FileInv /\ PlatformInv /\ SymbolsInv
  BY <1>3 DEF ProfileInv
<1>5. /\ IsTraceFile(g) /\ SectionsIn(g, g.header, saved.modules, saved.frames, saved.nodes)
      /\ g.header.m_SymbolCount = 0
  BY <1>1, <1>4, UnresolvedFile
<1>6. FileInv'
  BY <1>3, <1>5 DEF FileInv
<1>7. SymbolsInv'
  BY <1>3, <1>5 DEF SymbolsInv
<1>8. ASSUME NoInfo = info, NEW o \in DOMAIN CacheAfterFlat(file, << >>)
      PROVE  GetString(g, o) = GetString(file, o)
  <2>1. PICK f : f = file /\ f.header.m_SymbolCount = 0
    BY <1>4, <1>8, InfosAssumption DEF SymbolsInv
  <2>2. PICK rip \in Nat : HasSymbol(file, rip)
    BY <1>4, <1>8, FlatCache
  <2>3. PICK name : ReadsSymbols(f, {}, name, name, name)
    BY <2>1, NoSymbolsAreRead
  <2> QED
    BY <2>1, <2>2, <2>3 DEF ReadsSymbols
<1>9. CacheInv'
  BY <1>2, <1>8, ResolutionKeepsCache
<1> QED
  BY <1>6, <1>7, <1>9

LEMMA KilledStep ==
  ASSUME ProfileInv, NEW known \in Infos, NEW junk \in JunkLines, KilledWhileResolving(known, junk)
  PROVE  FileInv' /\ SymbolsInv' /\ CacheInv'
<1>1. PICK g : g = Appended(known, junk)
  OBVIOUS
<1>2. PICK f : f = file
  OBVIOUS
<1>3. PICK e : e = [f EXCEPT !.size = g.size]
  OBVIOUS
<1>4. /\ phase = "open" /\ phase' = "closed" /\ file' = e /\ info' = info
      /\ UNCHANGED <<platform, saved>>
  BY <1>1, <1>2, <1>3 DEF KilledWhileResolving, fileVars
<1>5. phase # "capture" /\ SavedInv /\ FileInv /\ PlatformInv /\ SymbolsInv
  BY <1>4 DEF ProfileInv
<1>6. Extends(f, g)
  BY <1>1, <1>2, <1>5, ResolvedFile
<1>7. Extends(f, e) /\ e.header = f.header
  BY <1>3, <1>6, LongerFile
<1>8. IsTraceFile(e)
  BY <1>7 DEF Extends
<1>9. PICK modules, frames, nodes :
        /\ modules = saved.modules /\ frames = saved.frames /\ nodes = saved.nodes
        /\ SectionsIn(f, f.header, modules, frames, nodes)
  BY <1>2, <1>5 DEF FileInv
<1>10. SectionsIn(e, f.header, modules, frames, nodes)
  BY <1>7, <1>9, StillSections
<1>11. FileInv'
  BY <1>4, <1>7, <1>8, <1>9, <1>10 DEF FileInv
<1>12. ASSUME NEW known2, NEW other, HasSymbolsOf(f, known2, other)
       PROVE  HasSymbolsOf(e, known2, other)'
  <2>1. PICK symbols, strings : /\ symbols = SerializedSymbols(SavedSymbols(known2, other))
                                /\ strings = InternedStrings(SavedSymbols(known2, other))
                                /\ SymbolsIn(f, symbols, strings)
    BY <1>12 DEF HasSymbolsOf
  <2>2. SymbolsIn(e, symbols, strings)
    BY <1>7, <2>1, StillSymbols
  <2>3. SavedSymbols(known2, other)' = SavedSymbols(known2, other)
    BY <1>4 DEF SavedSymbols
  <2> QED
    BY <2>1, <2>2, <2>3 DEF HasSymbolsOf
<1>13. SymbolsInv'
  <2>1. CASE info = NoInfo /\ f.header.m_SymbolCount = 0
    BY <1>4, <1>7, <2>1 DEF SymbolsInv
  <2>2. CASE info \in Infos /\ \E other \in JunkLines : HasSymbolsOf(f, info, other)
    <3>1. PICK i \in Infos : i = info
      BY <2>2
    <3>2. PICK other \in JunkLines : HasSymbolsOf(f, i, other)
      BY <2>2, <3>1
    <3>3. HasSymbolsOf(e, i, other)'
      BY <1>12, <3>2
    <3> QED
      BY <1>4, <3>1, <3>3 DEF SymbolsInv
  <2> QED
    BY <1>2, <1>5, <2>1, <2>2 DEF SymbolsInv
<1>14. CacheInv'
  BY <1>4 DEF CacheInv
<1> QED
  BY <1>11, <1>13, <1>14

LEMMA ProfileInvInit == Init => ProfileInv
<1> SUFFICES ASSUME Init PROVE ProfileInv
  OBVIOUS
<1>1. phase = "capture" /\ info = NoInfo /\ platform \in DOMAIN LoadedLists
  BY DEF Init
<1>2. StoreInv /\ FramesInv
  BY StoreInit_StoreInv, FramesInvInit
<1> QED
  BY <1>1, <1>2 DEF ProfileInv, PlatformInv, SavedInv, FileInv, SymbolsInv, CacheInv

\* Nothing but a capture and a resolution writes to the file.
LEMMA FileUnchanged ==
  ASSUME ProfileInv, UNCHANGED <<fileVars, file, info>>, (phase' = "capture") <=> (phase = "capture")
  PROVE  PlatformInv' /\ SavedInv' /\ FileInv' /\ SymbolsInv'
<1>1. UNCHANGED <<platform, saved, file, info>>
  BY DEF fileVars
<1>2. \A known, junk : SavedSymbols(known, junk)' = SavedSymbols(known, junk)
  BY <1>1 DEF SavedSymbols
<1>3. \A f, known, junk : HasSymbolsOf(f, known, junk)' <=> HasSymbolsOf(f, known, junk)
  BY <1>2 DEF HasSymbolsOf
<1>4. SymbolsInv'
  BY <1>1, <1>3 DEF ProfileInv, SymbolsInv
<1>5. SavedInv'
  BY SavedInvUnchanged DEF ProfileInv
<1> QED
  BY <1>1, <1>4, <1>5 DEF ProfileInv, PlatformInv, FileInv

\* A view or the tab is opened or closed.
LEMMA ViewStep ==
  ASSUME ProfileInv, UNCHANGED <<storeVars, fileVars, file, info>>, (phase' = "capture") <=> (phase = "capture"),
         StoreInv', CacheInv'
  PROVE  ProfileInv'
  BY FramesInvUnchanged, FileUnchanged DEF ProfileInv

\* Other strings are read while the file and its symbols stay.
LEMMA CacheStep ==
  ASSUME CacheInv, phase = "open", NEW offsets, cache' = Interned(file, cache, offsets),
         UNCHANGED <<file, info, cacheInfo>>
  PROVE  CacheInv'
<1> SUFFICES ASSUME cacheInfo' = info' PROVE CacheHolds(file', cache')
  BY DEF CacheInv
<1>1. CacheHolds(file, cache)
  BY DEF CacheInv
<1>2. CacheHolds(file, Interned(file, cache, offsets))
  BY <1>1, InternedHolds
<1> QED
  BY <1>2

LEMMA ProfileInvStep == ProfileInv /\ [Next]_vars => ProfileInv'
<1> SUFFICES ASSUME ProfileInv, [Next]_vars PROVE ProfileInv'
  OBVIOUS
<1>0. /\ StoreInv /\ FramesInv /\ PlatformInv /\ SavedInv /\ FileInv /\ SymbolsInv /\ CacheInv
      /\ StoreInv'
  BY StoreInvStep DEF ProfileInv
<1>1. ASSUME NEW s \in Samples, Record(s) PROVE ProfileInv'
  <2>1. phase = "capture" /\ phase' = "capture" /\ info' = info /\ platform' = platform
    BY <1>1 DEF Record
  <2>2. FramesInv'
    BY <1>0, <1>1, FramesInvRecord
  <2> QED
    BY <1>0, <2>1, <2>2 DEF ProfileInv, PlatformInv, SavedInv, FileInv, SymbolsInv, CacheInv
<1>2. ASSUME NEW list \in LoadedLists[platform], NEW order \in Orders(g_Stats), EndCapture(list, order)
      PROVE  ProfileInv'
  <2>1. phase = "capture" /\ phase' = "closed" /\ info' = info /\ platform' = platform
    BY <1>2 DEF EndCapture
  <2>2. SavedInv' /\ FileInv' /\ file'.header.m_SymbolCount = 0
    BY <1>0, <1>2, CaptureIsSaved
  <2>3. info = NoInfo
    BY <1>0, <2>1 DEF SymbolsInv
  <2> QED
    BY <1>0, <2>1, <2>2, <2>3 DEF ProfileInv, FramesInv, PlatformInv, SymbolsInv, CacheInv
<1>3. CASE EndCaptureFails
  <2>1. phase = "capture" /\ phase' = "capture" /\ info' = info /\ platform' = platform
    BY <1>3 DEF EndCaptureFails
  <2>2. FramesInv'
    BY <1>3, FramesInvFreed DEF EndCaptureFails
  <2> QED
    BY <1>0, <2>1, <2>2 DEF ProfileInv, PlatformInv, SavedInv, FileInv, SymbolsInv, CacheInv
<1>4. CASE LoadTrace
  <2>1. /\ phase = "closed" /\ phase' = "open" /\ cache' = << >>
        /\ UNCHANGED <<storeVars, fileVars, file, info>>
    BY <1>4 DEF LoadTrace
  <2>2. CacheInv'
    BY <2>1, EmptyCacheHolds DEF CacheInv, CacheHolds
  <2> QED
    BY <1>0, <2>1, <2>2, ViewStep
<1>5. CASE CloseTrace
  <2>1. phase = "open" /\ phase' = "closed" /\ UNCHANGED <<storeVars, fileVars, file, info>>
    BY <1>5 DEF CloseTrace
  <2>2. CacheInv'
    BY <2>1 DEF CacheInv
  <2> QED
    BY <1>0, <2>1, <2>2, ViewStep
<1>6. ASSUME NEW known \in Infos, NEW junk \in JunkLines, Resolve(known, junk) PROVE ProfileInv'
  <2>1. phase = "open" /\ phase' = phase /\ UNCHANGED <<storeVars, fileVars, platform>>
    BY <1>6 DEF Resolve, symbolsResolved, fileVars
  <2>2. FileInv' /\ SymbolsInv' /\ CacheInv'
    BY <1>6, ResolveStep
  <2> QED
    BY <1>0, <2>1, <2>2, FramesInvUnchanged, SavedInvUnchanged DEF ProfileInv, PlatformInv
<1>7. CASE ResolveFails
  <2>1. phase = "open" /\ phase' = phase /\ UNCHANGED <<storeVars, fileVars, platform>>
    BY <1>7 DEF ResolveFails, symbolsResolved, fileVars
  <2>2. FileInv' /\ SymbolsInv' /\ CacheInv'
    BY <1>7, ResolveFailsStep
  <2> QED
    BY <1>0, <2>1, <2>2, FramesInvUnchanged, SavedInvUnchanged DEF ProfileInv, PlatformInv
<1>8. ASSUME NEW known \in Infos, NEW junk \in JunkLines, KilledWhileResolving(known, junk) PROVE ProfileInv'
  <2>1. phase = "open" /\ phase' = "closed" /\ UNCHANGED <<storeVars, fileVars, platform>>
    BY <1>8 DEF KilledWhileResolving, fileVars
  <2>2. FileInv' /\ SymbolsInv' /\ CacheInv'
    BY <1>8, KilledStep
  <2> QED
    BY <1>0, <2>1, <2>2, FramesInvUnchanged, SavedInvUnchanged DEF ProfileInv, PlatformInv
<1>9. CASE OpenFlatProfile
  <2>1. /\ phase = "open" /\ phase' = phase /\ UNCHANGED <<storeVars, fileVars, file, info, cacheInfo>>
        /\ cache' = Interned(file, cache, NameOffsets(file, RipsOf(GetStats(file))))
    BY <1>9 DEF OpenFlatProfile, CacheAfterFlat
  <2>2. CacheInv'
    BY <1>0, <2>1, CacheStep
  <2> QED
    BY <1>0, <2>1, <2>2, ViewStep
<1>10. CASE CloseFlatProfile
  <2>1. phase' = phase /\ UNCHANGED <<storeVars, fileVars, file, info, cache, cacheInfo>>
    BY <1>10 DEF CloseFlatProfile
  <2>2. CacheInv'
    BY <1>0, <2>1 DEF CacheInv
  <2> QED
    BY <1>0, <2>1, <2>2, ViewStep
<1>11. ASSUME NEW root \in Selectable \cup {NoRoot}, OpenTree(root) PROVE ProfileInv'
  <2>1. /\ phase = "open" /\ phase' = phase /\ UNCHANGED <<storeVars, fileVars, file, info, cacheInfo>>
        /\ cache' = CacheAfterTree(file, cache, root)
    BY <1>11 DEF OpenTree
  <2>2. PICK offsets : cache' = Interned(file, cache, offsets)
    BY <2>1 DEF CacheAfterTree
  <2>3. CacheInv'
    BY <1>0, <2>1, <2>2, CacheStep
  <2> QED
    BY <1>0, <2>1, <2>3, ViewStep
<1>12. CASE CloseTree
  <2>1. phase' = phase /\ UNCHANGED <<storeVars, fileVars, file, info, cache, cacheInfo>>
    BY <1>12 DEF CloseTree
  <2>2. CacheInv'
    BY <1>0, <2>1 DEF CacheInv
  <2> QED
    BY <1>0, <2>1, <2>2, ViewStep
<1>13. ASSUME NEW symbol \in Selectable, OpenAnnotation(symbol) PROVE ProfileInv'
  <2>1. /\ phase = "open" /\ phase' = phase /\ UNCHANGED <<storeVars, fileVars, file, info, cacheInfo>>
        /\ cache' = CacheAfterAnnotation(file, cache, symbol)
    BY <1>13 DEF OpenAnnotation
  <2>2. CASE cache' = cache
    <3>1. CacheInv'
      BY <1>0, <2>1, <2>2 DEF CacheInv
    <3> QED
      BY <1>0, <2>1, <3>1, ViewStep
  <2>3. CASE cache' # cache
    <3>1. PICK offsets : cache' = Interned(file, cache, offsets)
      BY <2>1, <2>3 DEF CacheAfterAnnotation
    <3>2. CacheInv'
      BY <1>0, <2>1, <3>1, CacheStep
    <3> QED
      BY <1>0, <2>1, <3>2, ViewStep
  <2> QED
    BY <2>2, <2>3
<1>14. CASE CloseAnnotation
  <2>1. phase' = phase /\ UNCHANGED <<storeVars, fileVars, file, info, cache, cacheInfo>>
    BY <1>14 DEF CloseAnnotation
  <2>2. CacheInv'
    BY <1>0, <2>1 DEF CacheInv
  <2> QED
    BY <1>0, <2>1, <2>2, ViewStep
<1>15. CASE UNCHANGED vars
  <2>1. phase' = phase /\ UNCHANGED <<storeVars, fileVars, file, info, cache, cacheInfo>>
    BY <1>15 DEF vars
  <2>2. CacheInv'
    BY <1>0, <2>1 DEF CacheInv
  <2> QED
    BY <1>0, <2>1, <2>2, ViewStep
<1> QED
  BY <1>1, <1>2, <1>3, <1>4, <1>5, <1>6, <1>7, <1>8, <1>9, <1>10, <1>11, <1>12, <1>13, <1>14, <1>15 DEF Next

LEMMA ProfileInvAlways == Spec => []ProfileInv
  BY ProfileInvInit, ProfileInvStep, PTL DEF Spec

\* CacheSimEndCapture and SerializedHeader: whatever was counted, in every
\* capture of every program, is read from the file as it was, and still is after
\* symbols were appended, once or again, in part or not at all.
THEOREM SavedFileReadsBackAlways == Spec => []SavedFileReadsBack
<1>1. ProfileInv => SavedFileReadsBack
  BY FileInvReadsBack DEF ProfileInv
<1> QED
  BY <1>1, ProfileInvAlways, PTL

-----------------------------------------------------------------------------

\* The addresses that were sampled and those that called are in the file.
LEMMA AddressesSaved ==
  ASSUME SavedInv, phase # "capture"
  PROVE  FileAddresses \subseteq FileRips
<1>1. PICK frames \in Seq(Nat) : frames = saved.frames
  BY SavedTypes
<1> SUFFICES ASSUME NEW s \in Happened
             PROVE  s.rip \in FileRips /\ Range(s.stack) \subseteq FileRips
  BY DEF FileAddresses
<1>2. PICK i \in DOMAIN saved.nodes :
        /\ saved.nodes[i].m_Rip = s.rip
        /\ StoredAt(frames, Len(frames), saved.nodes[i].m_StackIndex, s.stack)
  BY <1>1 DEF SavedInv, HoldsSample
<1>3. s.rip \in FileRips
  BY <1>2 DEF FileRips, AddressesOf
<1>4. PICK n \in Nat : n = Len(s.stack) /\ s.stack \in Seq(Nat \ {0}) /\ DOMAIN s.stack = 1 .. n
  BY SamplesAssumption, StacksAssumption DEF Happened
<1>5. PICK o \in Nat : o = saved.nodes[i].m_StackIndex /\ StoredAt(frames, Len(frames), o, s.stack)
  BY <1>2 DEF StoredAt
<1>6. ASSUME NEW j \in 1 .. n
      PROVE  s.stack[j] \in FileRips
  <2>1. PICK c \in Nat : c = Len(frames) /\ DOMAIN frames = 1 .. c
    OBVIOUS
  <2>2. o + n + 1 <= c
    BY <1>4, <1>5, <2>1 DEF StoredAt
  <2>3. o + j \in 1 .. c
    BY <2>2
  <2>4. PICK k \in DOMAIN frames : k = o + j
    BY <2>1, <2>3
  <2>5. frames[k] = s.stack[j] /\ s.stack[j] # 0
    BY <1>4, <1>5, <2>4 DEF StoredAt
  <2> QED
    BY <1>1, <2>4, <2>5 DEF FileRips, AddressesOf
<1>7. Range(s.stack) \subseteq FileRips
  BY <1>4, <1>6 DEF Range
<1> QED
  BY <1>3, <1>7

\* The addresses that have a name.
Named == IF info = NoInfo THEN {} ELSE Addressed

LEMMA SymbolsOfFileAreRead ==
  ASSUME ProfileInv, phase # "capture"
  PROVE  \E junk \in Int : ReadsSymbols(file, Named, NamesOf(info), FilesOf(info), LinesOf(info, junk))
<1>1. PICK f : f = file
  OBVIOUS
<1>2. CASE info = NoInfo
  <2>1. f.header.m_SymbolCount = 0
    BY <1>1, <1>2, InfosAssumption DEF ProfileInv, SymbolsInv
  <2>2. PICK name, file_, line : name = NamesOf(info) /\ file_ = FilesOf(info) /\ line = LinesOf(info, 0)
    OBVIOUS
  <2>3. ReadsSymbols(f, {}, name, file_, line)
    BY <2>1, NoSymbolsAreRead
  <2> QED
    BY <1>1, <1>2, <2>2, <2>3, 0 \in Int DEF Named
<1>3. CASE info # NoInfo
  <2>1. PICK known \in Infos : known = info
    BY <1>3 DEF ProfileInv, SymbolsInv
  <2>2. PICK junk \in JunkLines : HasSymbolsOf(f, known, junk)
    BY <1>1, <1>3, <2>1 DEF ProfileInv, SymbolsInv
  <2>3. ReadsSymbols(f, Addressed, NamesOf(known), FilesOf(known), LinesOf(known, junk))
    BY <2>2, SymbolsOfInfoAreRead DEF ProfileInv
  <2> QED
    BY <1>1, <1>3, <2>1, <2>2, <2>3, JunkLinesAssumption DEF Named
<1> QED
  BY <1>2, <1>3

LEMMA ProfileInvNames == ProfileInv => SymbolsNameTheirAddress
<1> SUFFICES ASSUME ProfileInv, phase = "open", NEW rip \in FileAddresses
             PROVE  /\ HasSymbol(file, rip) <=> HasTrueName(rip, info)
                    /\ HasSymbol(file, rip) =>
                         \A c \in {<< >>} \cup (IF cacheInfo = info THEN {cache} ELSE {}) :
                           /\ symbolNameForAddress(file, c, rip) = TrueName(rip, info)
                           /\ fileNameForAddress(file, c, rip) = TrueFile(rip, info)
  BY DEF SymbolsNameTheirAddress
<1>1. rip \in FileRips /\ rip \in Nat
  BY AddressesSaved, RipsOfFile DEF ProfileInv
<1>2. PICK p \in {"linux", "windows"} : p = platform
  BY LoadedListsAssumption DEF ProfileInv, PlatformInv
<1>3. rip \in Named <=> HasTrueName(rip, info)
  BY <1>1, <1>2 DEF Named, Addressed, HasTrueName
<1>4. /\ HasSymbol(file, rip) <=> rip \in Named
      /\ HasSymbol(file, rip) =>
           /\ GetString(file, SymbolOf(file, rip).m_SymbolName) = NamesOf(info)[rip]
           /\ GetString(file, SymbolOf(file, rip).m_FileName) = FilesOf(info)[rip]
  <2>1. PICK junk \in Int : ReadsSymbols(file, Named, NamesOf(info), FilesOf(info), LinesOf(info, junk))
    BY SymbolsOfFileAreRead
  <2> QED
    BY <1>1, <2>1 DEF ReadsSymbols
<1>5. NamesOf(info)[rip] = TrueName(rip, info) /\ FilesOf(info)[rip] = TrueFile(rip, info)
  BY <1>1 DEF NamesOf, FilesOf
<1>6. ASSUME NEW c \in {<< >>} \cup (IF cacheInfo = info THEN {cache} ELSE {}), NEW o
      PROVE  internedSymbolString(file, c, o) = GetString(file, o)
  <2>1. CASE c = << >>
    BY <2>1 DEF internedSymbolString
  <2>2. CASE c # << >>
    <3>1. c = cache /\ cacheInfo = info
      BY <1>6, <2>2
    <3>2. CacheHolds(file, cache)
      BY <3>1 DEF ProfileInv, CacheInv
    <3> QED
      BY <3>1, <3>2 DEF internedSymbolString, CacheHolds
  <2> QED
    BY <2>1, <2>2
<1>7. ASSUME HasSymbol(file, rip), NEW c \in {<< >>} \cup (IF cacheInfo = info THEN {cache} ELSE {})
      PROVE  /\ symbolNameForAddress(file, c, rip) = TrueName(rip, info)
             /\ fileNameForAddress(file, c, rip) = TrueFile(rip, info)
  <2>1. symbolNameForAddress(file, c, rip) = GetString(file, SymbolOf(file, rip).m_SymbolName)
    BY <1>6, <1>7 DEF symbolNameForAddress
  <2>2. fileNameForAddress(file, c, rip) = GetString(file, SymbolOf(file, rip).m_FileName)
    BY <1>6, <1>7 DEF fileNameForAddress
  <2> QED
    BY <1>4, <1>5, <1>7, <2>1, <2>2
<1> QED
  BY <1>3, <1>4, <1>7

\* symbolResolveTask, symbolsResolved, FindSymbol and m_SymbolStringCache: in
\* every file and with any debug information, however often the symbols are
\* resolved, an address has the name and the file that the last completed
\* resolution knows of it, and an address of which it knows none has no symbol.
THEOREM SymbolsNameTheirAddressAlways == Spec => []SymbolsNameTheirAddress
  BY ProfileInvAlways, ProfileInvNames, PTL

-----------------------------------------------------------------------------
(* The arena of the trees                                                  *)

NodeBytes == NodeSize + SizeOfFinalizer
Stride == RoundUp16(NodeBytes)

LEMMA StrideHoldsNode == NodeBytes \in Nat /\ Stride \in Nat \ {0} /\ NodeBytes <= Stride
<1>1. NodeBytes \in Nat /\ NodeBytes >= 32
  BY PageSizeAssumption DEF NodeBytes, SizeOfFinalizer
<1>2. PICK n \in Nat : n = NodeBytes /\ n >= 32
  BY <1>1
<1>3. PICK q \in Int : q = (n + 15) \div 16
  OBVIOUS
<1>4. q * 16 <= n + 15 /\ n + 15 < q * 16 + 16
  BY <1>3
<1> QED
  BY <1>2, <1>3, <1>4 DEF Stride, RoundUp16

\* A node that ends within m_Size ends before the last bytes of it, which are
\* behind the end of the page.
LEMMA NodeFitsData ==
  ASSUME NEW k \in Nat, k * Stride + NodeBytes <= DefaultPageSize
  PROVE  k * Stride + NodeBytes <= DefaultPageSize - SizeOfPage
<1>1. PICK b \in Nat, s \in Nat \ {0} : b = NodeBytes /\ s = Stride /\ b <= s
  BY StrideHoldsNode
<1>2. PICK p \in Nat : p = DefaultPageSize /\ 24 + b <= p /\ (p - b) % s >= 24
  BY <1>1, PageSizeAssumption DEF NodeBytes, Stride, SizeOfPage
<1>3. PICK n \in Int : n = p - b
  BY <1>2
<1>4. PICK q \in Int, r \in 0 .. s - 1 : r = n % s /\ n = s * q + r
  BY QuotientAndRest
<1>5. r >= 24
  BY <1>2, <1>3, <1>4
<1>6. PICK d \in Int : d = q - k
  OBVIOUS
<1>7. s * q = s * k + s * d
  BY <1>6
<1>8. PICK sk \in Int, sd \in Int : sk = s * k /\ sd = s * d /\ k * s = sk
  OBVIOUS
<1>9. d >= 0
  <2>1. d < 0 => sd <= 0 - s
    BY <1>8
  <2>2. sk <= sk + sd + r
    BY <1>1, <1>2, <1>3, <1>4, <1>7, <1>8
  <2> QED
    BY <2>1, <2>2
<1>10. sd >= 0
  BY <1>8, <1>9
<1>11. sk + b <= p - 24
  BY <1>2, <1>3, <1>4, <1>5, <1>7, <1>8, <1>10
<1> QED
  BY <1>1, <1>2, <1>8, <1>11 DEF SizeOfPage

Strides == {k * Stride : k \in Nat}
ArenaPages == [m_Size : {DefaultPageSize}, m_Allocated : Strides]
ArenaObjects == [page : Nat, at : Strides, bytes : {NodeBytes}]

\* n nodes, the newest first, each behind the older ones of its page.
HoldsNodes(a, n) ==
  /\ a = [pages |-> a.pages, chain |-> a.chain]
  /\ a.pages \in Seq(ArenaPages) /\ a.chain \in Seq(ArenaObjects) /\ Len(a.chain) = n
  /\ \A i \in 1 .. n :
       /\ a.chain[i].page \in 1 .. Len(a.pages)
       /\ a.chain[i].at + NodeBytes <= DefaultPageSize - SizeOfPage
       /\ a.chain[i].at + Stride <= a.pages[a.chain[i].page].m_Allocated
  /\ \A i, j \in 1 .. n :
       (i < j /\ a.chain[i].page = a.chain[j].page) => a.chain[j].at + NodeBytes <= a.chain[i].at

LEMMA StridesType ==
  /\ Strides \subseteq Nat /\ 0 \in Strides
  /\ \A x \in Strides : x + Stride \in Strides
  /\ \A x \in Strides : x + NodeBytes <= DefaultPageSize => x + NodeBytes <= DefaultPageSize - SizeOfPage
<1>1. PICK s \in Nat : s = Stride
  BY StrideHoldsNode
<1>2. \A k \in Nat : k * s \in Nat /\ k * s + s = (k + 1) * s /\ k + 1 \in Nat
  BY <1>1
<1>3. 0 * s = 0
  BY <1>1
<1>4. ASSUME NEW x \in Strides, x + NodeBytes <= DefaultPageSize
      PROVE  x + NodeBytes <= DefaultPageSize - SizeOfPage
  <2>1. PICK k \in Nat : x = k * Stride
    BY DEF Strides
  <2> QED
    BY <1>4, <2>1, NodeFitsData
<1>5. Strides \subseteq Nat /\ 0 \in Strides
  BY <1>1, <1>2, <1>3 DEF Strides
<1>6. ASSUME NEW x \in Strides PROVE x + Stride \in Strides
  <2>1. PICK k \in Nat : x = k * Stride
    BY DEF Strides
  <2>2. x + Stride = (k + 1) * Stride /\ k + 1 \in Nat
    BY <1>1, <1>2, <2>1
  <2> QED
    BY <2>2 DEF Strides
<1> QED
  BY <1>4, <1>5, <1>6

\* allocRaw finds or makes a page with room.
LEMMA RoomIsMade ==
  ASSUME NEW pages \in Seq(ArenaPages), NEW w, w = WithRoom(pages, NodeBytes)
  PROVE  /\ w \in Seq(ArenaPages) /\ Len(w) \in Nat \ {0} /\ Len(pages) <= Len(w)
         /\ \A p \in 1 .. Len(pages) : w[p] = pages[p]
         /\ w[Len(w)].m_Allocated + NodeBytes <= DefaultPageSize - SizeOfPage
<1>1. PICK b \in Nat, d \in Nat : b = NodeBytes /\ d = DefaultPageSize /\ 24 + b <= d
  BY StrideHoldsNode, PageSizeAssumption DEF NodeBytes, SizeOfPage
<1>2. PICK page \in ArenaPages : page = allocPage(NodeBytes) /\ page.m_Allocated = 0
  <2>1. [m_Size |-> DefaultPageSize, m_Allocated |-> 0] \in ArenaPages
    BY StridesType DEF ArenaPages
  <2>2. allocPage(NodeBytes) = [m_Size |-> DefaultPageSize, m_Allocated |-> 0]
    BY <1>1 DEF allocPage, SizeOfPage
  <2> QED
    BY <2>1, <2>2
<1>3. 0 + NodeBytes <= DefaultPageSize - SizeOfPage
  BY <1>1 DEF SizeOfPage
<1>4. CASE pages = << >>
  <2>1. w = <<page>>
    BY <1>2, <1>4 DEF WithRoom
  <2> QED
    BY <1>2, <1>3, <1>4, <2>1
<1>5. CASE pages # << >>
  <2>1. PICK n \in Nat \ {0} : n = Len(pages) /\ pages[n] \in ArenaPages
    BY <1>5
  <2>2. PICK a \in Strides, z \in Nat : a = pages[n].m_Allocated /\ z = pages[n].m_Size /\ z = d
    BY <1>1, <2>1 DEF ArenaPages
  <2>3. a \in Nat
    BY <2>2, StridesType
  <2>4. CASE z - a < b
    <3>1. w = Append(pages, page)
      BY <1>1, <1>2, <1>5, <2>1, <2>2, <2>4 DEF WithRoom, avail
    <3>2. Append(pages, page) \in Seq(ArenaPages) /\ Len(Append(pages, page)) = n + 1
      BY <1>2, <2>1
    <3>3. /\ \A p \in 1 .. n : Append(pages, page)[p] = pages[p]
          /\ Append(pages, page)[n + 1] = page
      BY <1>2, <2>1, AppendElements
    <3> QED
      BY <1>2, <1>3, <2>1, <3>1, <3>2, <3>3
  <2>5. CASE ~(z - a < b)
    <3>1. w = pages
      BY <1>1, <1>2, <1>5, <2>1, <2>2, <2>5 DEF WithRoom, avail
    <3>2. a + b <= d
      BY <2>2, <2>3, <2>5
    <3>3. a + NodeBytes <= DefaultPageSize - SizeOfPage
      BY <1>1, <2>2, <3>2, StridesType
    <3> QED
      BY <2>1, <2>2, <3>1, <3>3
  <2> QED
    BY <2>4, <2>5
<1> QED
  BY <1>4, <1>5

\* The next node is put behind the others.
LEMMA NodeIsPut ==
  ASSUME NEW a, NEW n \in Nat, HoldsNodes(a, n)
  PROVE  HoldsNodes(allocFinalized(a, NodeSize), n + 1)
<1>1. PICK pages \in Seq(ArenaPages), chain \in Seq(ArenaObjects) :
        /\ a = [pages |-> pages, chain |-> chain] /\ a.pages = pages /\ a.chain = chain /\ Len(chain) = n
        /\ \A i \in 1 .. n :
             /\ chain[i].page \in 1 .. Len(pages)
             /\ chain[i].at + NodeBytes <= DefaultPageSize - SizeOfPage
             /\ chain[i].at + Stride <= pages[chain[i].page].m_Allocated
        /\ \A i, j \in 1 .. n :
             (i < j /\ chain[i].page = chain[j].page) => chain[j].at + NodeBytes <= chain[i].at
  BY DEF HoldsNodes
<1>2. PICK w : w = WithRoom(pages, NodeBytes)
  OBVIOUS
<1>3. /\ w \in Seq(ArenaPages) /\ Len(w) \in Nat \ {0} /\ Len(pages) <= Len(w)
      /\ \A p \in 1 .. Len(pages) : w[p] = pages[p]
      /\ w[Len(w)].m_Allocated + NodeBytes <= DefaultPageSize - SizeOfPage
  BY <1>2, RoomIsMade
<1>4. PICK l \in Nat \ {0} : l = Len(w) /\ DOMAIN w = 1 .. l
  BY <1>3
<1>5. PICK last \in ArenaPages, at \in Strides : last = w[l] /\ at = last.m_Allocated
  <2>1. w[l] \in ArenaPages
    BY <1>3, <1>4
  <2> QED
    BY <2>1 DEF ArenaPages
<1>6. PICK o \in ArenaObjects : o = [page |-> l, at |-> at, bytes |-> NodeBytes]
  BY DEF ArenaObjects
<1>7. PICK filled \in ArenaPages : filled = [last EXCEPT !.m_Allocated = at + Stride] /\ filled.m_Allocated = at + Stride
  <2>1. PICK t \in Strides : t = at + Stride
    BY StridesType
  <2>2. PICK z \in {DefaultPageSize} : last = [m_Size |-> z, m_Allocated |-> at]
    BY <1>5 DEF ArenaPages
  <2>3. [last EXCEPT !.m_Allocated = t] = [m_Size |-> z, m_Allocated |-> t]
    BY <2>2
  <2>4. [m_Size |-> z, m_Allocated |-> t] \in ArenaPages
    BY DEF ArenaPages
  <2> QED
    BY <2>1, <2>3, <2>4
<1>8. PICK v : v = [w EXCEPT ![l] = filled]
  OBVIOUS
<1>9. /\ v \in Seq(ArenaPages) /\ Len(v) = l /\ v[l] = filled
      /\ \A p \in 1 .. l : p # l => v[p] = w[p]
  BY <1>3, <1>4, <1>8
<1>10. PICK c \in Seq(ArenaObjects) :
         /\ c = <<o>> \o chain /\ Len(c) = n + 1 /\ c[1] = o
         /\ \A i \in 1 .. n : c[i + 1] = chain[i]
  <2>1. Len(chain) = n
    BY <1>1
  <2>2. PICK S : S = ArenaObjects
    OBVIOUS
  <2>3. o \in S /\ chain \in Seq(S)
    BY <2>2
  <2>4. /\ <<o>> \o chain \in Seq(S) /\ Len(<<o>> \o chain) = n + 1
        /\ (<<o>> \o chain)[1] = o
        /\ \A i \in 1 .. n : (<<o>> \o chain)[i + 1] = chain[i]
    BY <2>1, <2>3, OneElementPrepended
  <2> QED
    BY <2>2, <2>4
<1>11. allocFinalized(a, NodeSize) = [pages |-> v, chain |-> c]
  <2>1. [w EXCEPT ![l].m_Allocated = @ + RoundUp16(NodeBytes)] = v
    BY <1>5, <1>7, <1>8 DEF Stride
  <2>2. [a EXCEPT !.pages = v, !.chain = c] = [pages |-> v, chain |-> c]
    <3>1. a = [pages |-> pages, chain |-> chain]
      BY <1>1
    <3>2. PICK b : b = [a EXCEPT !.pages = v]
      OBVIOUS
    <3>3. b = [pages |-> v, chain |-> chain]
      BY <3>1, <3>2
    <3>4. [b EXCEPT !.chain = c] = [pages |-> v, chain |-> c]
      BY <3>3
    <3> QED
      BY <3>2, <3>4
  <2>3. <<[page |-> l, at |-> w[l].m_Allocated, bytes |-> NodeBytes]>> \o chain = c
    BY <1>5, <1>6, <1>10
  <2>4. allocFinalized(a, NodeSize)
          = [a EXCEPT !.pages = [w EXCEPT ![l].m_Allocated = @ + RoundUp16(NodeBytes)],
                      !.chain = <<[page |-> l, at |-> w[l].m_Allocated, bytes |-> NodeBytes]>> \o @]
    BY <1>1, <1>2, <1>4 DEF allocFinalized, NodeBytes
  <2>5. [a EXCEPT !.pages = v, !.chain = <<[page |-> l, at |-> w[l].m_Allocated, bytes |-> NodeBytes]>> \o @]
          = [a EXCEPT !.pages = v, !.chain = c]
    BY <1>1, <2>3
  <2> QED
    BY <2>1, <2>2, <2>4, <2>5
<1>12. PICK b \in Nat, s \in Nat : b = NodeBytes /\ s = Stride /\ b <= s
  BY StrideHoldsNode
<1>13. ASSUME NEW i \in 1 .. n
       PROVE  /\ chain[i].page \in 1 .. l
              /\ chain[i].at \in Nat
              /\ chain[i].page = l => chain[i].at + b <= at
              /\ chain[i].at + s <= v[chain[i].page].m_Allocated
  <2>1. PICK x \in ArenaObjects, p \in 1 .. Len(pages), t \in Nat :
          /\ x = chain[i] /\ p = x.page /\ t = x.at
          /\ t + s <= pages[p].m_Allocated
    <3>1. chain[i] \in ArenaObjects
      BY <1>1
    <3>2. chain[i].at \in Nat
      BY <3>1, StridesType DEF ArenaObjects
    <3> QED
      BY <1>1, <1>12, <3>1, <3>2
  <2>2. p \in 1 .. l /\ w[p] = pages[p]
    BY <1>3, <1>4, <2>1
  <2>3. at \in Nat
    BY StridesType
  <2>4. CASE p = l
    <3>1. t + s <= at
      BY <1>5, <2>1, <2>2, <2>4
    <3>2. v[p].m_Allocated = at + s
      BY <1>7, <1>9, <1>12, <2>4
    <3>3. t + b <= at /\ t + s <= at + s
      BY <1>12, <2>3, <3>1
    <3> QED
      BY <2>1, <2>2, <3>2, <3>3
  <2>5. CASE p # l
    BY <1>9, <2>1, <2>2, <2>5
  <2> QED
    BY <2>4, <2>5
<1>14. ASSUME NEW i \in 1 .. n + 1
       PROVE  /\ c[i].page \in 1 .. l
              /\ c[i].at + NodeBytes <= DefaultPageSize - SizeOfPage
              /\ c[i].at + Stride <= v[c[i].page].m_Allocated
  <2>1. CASE i = 1
    <3>1. at \in Nat /\ at + s <= at + s
      BY StridesType
    <3>2. c[i].page = l /\ c[i].at = at /\ l \in 1 .. l
      BY <1>6, <1>10, <2>1
    <3>3. at + NodeBytes <= DefaultPageSize - SizeOfPage
      BY <1>3, <1>4, <1>5
    <3>4. v[l].m_Allocated = at + s
      BY <1>7, <1>9, <1>12
    <3> QED
      BY <1>12, <3>1, <3>2, <3>3, <3>4
  <2>2. CASE i # 1
    <3>1. PICK k \in 1 .. n : i = k + 1
      BY <2>2
    <3>2. c[i] = chain[k]
      BY <1>10, <3>1
    <3> QED
      BY <1>1, <1>12, <1>13, <3>2
  <2> QED
    BY <2>1, <2>2
<1>15. ASSUME NEW i \in 1 .. n + 1, NEW j \in 1 .. n + 1, i < j, c[i].page = c[j].page
       PROVE  c[j].at + NodeBytes <= c[i].at
  <2>1. PICK k \in 1 .. n : j = k + 1 /\ c[j] = chain[k]
    <3>1. j - 1 \in 1 .. n /\ j = (j - 1) + 1
      BY <1>15
    <3> QED
      BY <1>10, <3>1
  <2>2. CASE i = 1
    <3>1. chain[k].page = l
      BY <1>6, <1>10, <1>15, <2>1, <2>2
    <3> QED
      BY <1>6, <1>10, <1>12, <1>13, <2>1, <2>2, <3>1
  <2>3. CASE i # 1
    <3>1. PICK h \in 1 .. n : i = h + 1 /\ c[i] = chain[h]
      <4>1. i - 1 \in 1 .. n /\ i = (i - 1) + 1
        BY <2>3
      <4> QED
        BY <1>10, <4>1
    <3>2. h < k
      BY <1>15, <2>1, <3>1
    <3> QED
      BY <1>1, <1>15, <2>1, <3>1, <3>2
  <2> QED
    BY <2>2, <2>3
<1> QED
  <2>1. PICK e : e = [pages |-> v, chain |-> c]
    OBVIOUS
  <2>2. e = [pages |-> e.pages, chain |-> e.chain] /\ e.pages = v /\ e.chain = c
    BY <2>1
  <2>3. Len(e.pages) = l /\ Len(e.chain) = n + 1 /\ e.pages \in Seq(ArenaPages) /\ e.chain \in Seq(ArenaObjects)
    BY <1>9, <1>10, <2>2
  <2>4. ASSUME NEW i \in 1 .. n + 1
        PROVE  /\ e.chain[i].page \in 1 .. Len(e.pages)
               /\ e.chain[i].at + NodeBytes <= DefaultPageSize - SizeOfPage
               /\ e.chain[i].at + Stride <= e.pages[e.chain[i].page].m_Allocated
    BY <1>14, <2>2, <2>3
  <2>5. ASSUME NEW i \in 1 .. n + 1, NEW j \in 1 .. n + 1
        PROVE  (i < j /\ e.chain[i].page = e.chain[j].page) => e.chain[j].at + NodeBytes <= e.chain[i].at
    BY <1>15, <2>2
  <2>6. HoldsNodes(e, n + 1)
    <3>1. e = [pages |-> e.pages, chain |-> e.chain]
      BY <2>2
    <3> QED
      BY <2>3, <2>4, <2>5, <3>1 DEF HoldsNodes
  <2> QED
    BY <1>11, <2>1, <2>6

LEMMA EmptyArenaHolds == HoldsNodes(EmptyArena, 0)
<1>1. EmptyArena.pages = << >> /\ EmptyArena.chain = << >> /\ EmptyArena = [pages |-> << >>, chain |-> << >>]
  BY DEF EmptyArena
<1>2. << >> \in Seq(ArenaPages) /\ << >> \in Seq(ArenaObjects) /\ Len(<< >>) = 0
  BY EmptySeq
<1> QED
  BY <1>1, <1>2 DEF HoldsNodes

\* Nodes that are put lie in the data of their pages, and not over another.
LEMMA NodesFitTheirPages ==
  ASSUME NEW a, NEW n \in Nat, HoldsNodes(a, n)
  PROVE  FitsItsPages(a) /\ Len(a.chain) = n
<1>1. PICK pages \in Seq(ArenaPages), chain \in Seq(ArenaObjects) :
        /\ a.pages = pages /\ a.chain = chain /\ Len(chain) = n /\ DOMAIN chain = 1 .. n
        /\ \A i \in 1 .. n :
             /\ chain[i].page \in 1 .. Len(pages)
             /\ chain[i].at + NodeBytes <= DefaultPageSize - SizeOfPage
        /\ \A i, j \in 1 .. n :
             (i < j /\ chain[i].page = chain[j].page) => chain[j].at + NodeBytes <= chain[i].at
  BY DEF HoldsNodes
<1>2. ASSUME NEW i \in 1 .. n
      PROVE  chain[i].bytes = NodeBytes /\ chain[i].at + NodeBytes <= pages[chain[i].page].m_Size - SizeOfPage
  <2>1. chain[i] \in ArenaObjects /\ pages[chain[i].page] \in ArenaPages
    BY <1>1
  <2>2. chain[i].bytes = NodeBytes /\ pages[chain[i].page].m_Size = DefaultPageSize
    BY <2>1 DEF ArenaObjects, ArenaPages
  <2> QED
    BY <1>1, <2>2
<1>3. ASSUME NEW i \in 1 .. n, NEW j \in 1 .. n, i # j, chain[i].page = chain[j].page
      PROVE  \/ chain[i].at + chain[i].bytes <= chain[j].at
             \/ chain[j].at + chain[j].bytes <= chain[i].at
  <2>1. i < j \/ j < i
    BY <1>3
  <2> QED
    BY <1>1, <1>2, <1>3, <2>1
<1> QED
  BY <1>1, <1>2, <1>3 DEF FitsItsPages

\* The arenas while nodes are put into an empty one.
Filled(n, g) ==
  g = [i \in 0 .. n |-> IF i = 0 THEN EmptyArena ELSE allocFinalized(g[i - 1], NodeSize)]

LEMMA FilledExists ==
  ASSUME NEW n \in Nat
  PROVE  \E g : Filled(n, g)
<1> DEFINE P == {m \in Nat : \E g : Filled(m, g)}
<1>1. 0 \in P
  <2>1. Filled(0, [i \in 0 .. 0 |-> EmptyArena])
    BY DEF Filled
  <2> QED
    BY <2>1
<1>2. ASSUME NEW m \in Nat, m \in P
      PROVE  m + 1 \in P
  <2>1. PICK g : Filled(m, g)
    BY <1>2
  <2> DEFINE h == [i \in 0 .. m + 1 |-> IF i = m + 1 THEN allocFinalized(g[m], NodeSize) ELSE g[i]]
  <2>2. g = [i \in 0 .. m |-> IF i = 0 THEN EmptyArena ELSE allocFinalized(g[i - 1], NodeSize)]
    BY <2>1 DEF Filled
  <2>3. ASSUME NEW i \in 0 .. m + 1
        PROVE  h[i] = IF i = 0 THEN EmptyArena ELSE allocFinalized(h[i - 1], NodeSize)
    <3>1. CASE i = m + 1
      <4>1. i - 1 = m /\ m \in 0 .. m + 1 /\ m # m + 1 /\ i # 0
        BY <3>1
      <4>2. h[m] = g[m]
        BY <4>1
      <4>3. h[i] = allocFinalized(g[m], NodeSize)
        BY <3>1
      <4> HIDE DEF h
      <4> QED
        BY <4>1, <4>2, <4>3
    <3>2. CASE i # m + 1
      <4>1. i \in 0 .. m /\ (i # 0 => i - 1 \in 0 .. m /\ i - 1 # m + 1 /\ i - 1 \in 0 .. m + 1)
        BY <3>2
      <4>2. g[i] = IF i = 0 THEN EmptyArena ELSE allocFinalized(g[i - 1], NodeSize)
        BY <2>2, <4>1
      <4>3. h[i] = g[i] /\ (i # 0 => h[i - 1] = g[i - 1])
        BY <3>2, <4>1
      <4> HIDE DEF h
      <4> QED
        BY <4>2, <4>3
    <3> QED
      BY <3>1, <3>2
  <2>4. Filled(m + 1, h)
    <3>1. h = [i \in 0 .. m + 1 |-> h[i]]
      OBVIOUS
    <3> HIDE DEF h
    <3> QED
      BY <2>3, <3>1, ZenonT(30) DEF Filled
  <2> QED
    BY <2>4
<1> HIDE DEF P
<1>3. \A m \in Nat : m \in P
  BY <1>1, <1>2, Induction
<1> QED
  BY <1>3 DEF P

\* The nodes of a tree are put one after the other.
LEMMA NodesArePut ==
  ASSUME NEW n \in Nat
  PROVE  HoldsNodes(AllocNodes(EmptyArena, n), n)
<1> DEFINE g == CHOOSE g : Filled(n, g)
<1>1. \E h : Filled(n, h)
  BY FilledExists
<1>2. Filled(n, g)
  BY <1>1
<1>3. AllocNodes(EmptyArena, n) = g[n]
  BY DEF AllocNodes, Filled
<1> HIDE DEF g
<1>4. g[0] = EmptyArena /\ \A i \in 1 .. n : g[i] = allocFinalized(g[i - 1], NodeSize)
  <2>1. \A i \in 0 .. n : g[i] = IF i = 0 THEN EmptyArena ELSE allocFinalized(g[i - 1], NodeSize)
    BY <1>2 DEF Filled
  <2> QED
    BY <2>1
<1> DEFINE P == {m \in Nat : m <= n => HoldsNodes(g[m], m)}
<1>5. 0 \in P
  BY <1>4, EmptyArenaHolds
<1>6. ASSUME NEW m \in Nat, m \in P
      PROVE  m + 1 \in P
  <2> SUFFICES ASSUME m + 1 <= n PROVE HoldsNodes(g[m + 1], m + 1)
    OBVIOUS
  <2>1. m + 1 \in 1 .. n /\ (m + 1) - 1 = m /\ m <= n
    OBVIOUS
  <2>2. g[m + 1] = allocFinalized(g[m], NodeSize)
    BY <1>4, <2>1
  <2>3. HoldsNodes(g[m], m)
    BY <1>6, <2>1
  <2> QED
    BY <2>2, <2>3, NodeIsPut
<1> HIDE DEF P
<1>7. \A m \in Nat : m \in P
  BY <1>5, <1>6, Induction
<1>8. HoldsNodes(g[n], n)
  BY <1>7 DEF P
<1> QED
  BY <1>3, <1>8

-----------------------------------------------------------------------------
(* The nodes of the file are those of the samples                          *)

\* The node is that of the sample.
IsNodeOf(frames, node, s) == node.m_Rip = s.rip /\ StackAt(frames, node.m_StackIndex) = s.stack

\* Every node is some sample's, with the sum of all that are alike, and no two
\* are the same sample's.
AreNodesOf(frames, nodes) ==
  /\ \A i \in DOMAIN nodes : \E s \in Happened :
       IsNodeOf(frames, nodes[i], s) /\ nodes[i].m_Stats = Sum(recorded, Alike(s))
  /\ \A i, j \in DOMAIN nodes : \A s \in Happened :
       IsNodeOf(frames, nodes[i], s) /\ IsNodeOf(frames, nodes[j], s) => i = j

CountedInv == phase # "capture" => AreNodesOf(saved.frames, saved.nodes)

LEMMA NodesAreCounted ==
  ASSUME StoreInv, FramesInv, phase = "capture", NEW order \in Orders(g_Stats),
         NEW frames, frames = SubSeq(g_StackData.m_Frames, 1, g_StackData.m_Count)
  PROVE  AreNodesOf(frames, NodesIn(order))
<1>1. CountsInv
  BY DEF StoreInv
<1>2. frames \in Seq(Nat) /\ \A s \in Happened : StoredAt(frames, Len(frames), OffsetOf(s.stack), s.stack)
  BY FramesOfStore
<1>3. \A s \in Happened : s.stack \in Stacks
  BY SamplesAssumption DEF Happened
<1>4. \A s \in Happened : StackAt(frames, OffsetOf(s.stack)) = s.stack
  BY <1>2, <1>3, StackOfFile
<1>5. PICK I : I = 1 .. Cardinality(DOMAIN g_Stats)
  OBVIOUS
<1>6. order \in [I -> DOMAIN g_Stats] /\ IsInjective(order)
  BY <1>5 DEF Orders
<1>7. PICK nodes : nodes = NodesIn(order)
  OBVIOUS
<1>8. /\ DOMAIN nodes = I
      /\ \A i \in I : /\ nodes[i].m_Rip = order[i][1] /\ nodes[i].m_StackIndex = order[i][2]
                      /\ nodes[i].m_Stats = g_Stats[order[i]]
  BY <1>6, <1>7 DEF NodesIn
<1>9. ASSUME NEW i \in I
      PROVE  \E s \in Happened : /\ order[i] = <<s.rip, OffsetOf(s.stack)>>
                                 /\ IsNodeOf(frames, nodes[i], s) /\ nodes[i].m_Stats = Sum(recorded, Alike(s))
  <2>1. PICK s \in Happened : order[i] = <<s.rip, OffsetOf(s.stack)>>
    BY <1>1, <1>6 DEF CountsInv
  <2>2. nodes[i].m_Rip = s.rip /\ nodes[i].m_StackIndex = OffsetOf(s.stack)
    BY <1>8, <2>1
  <2>3. nodes[i].m_Stats = Sum(recorded, Alike(s))
    BY <1>1, <1>8, <2>1 DEF CountsInv
  <2> QED
    BY <1>4, <2>1, <2>2, <2>3 DEF IsNodeOf
<1>10. ASSUME NEW i \in I, NEW j \in I, NEW s \in Happened,
              IsNodeOf(frames, nodes[i], s), IsNodeOf(frames, nodes[j], s)
       PROVE  i = j
  <2>1. PICK a \in Happened : order[i] = <<a.rip, OffsetOf(a.stack)>> /\ IsNodeOf(frames, nodes[i], a)
    BY <1>9
  <2>2. PICK b \in Happened : order[j] = <<b.rip, OffsetOf(b.stack)>> /\ IsNodeOf(frames, nodes[j], b)
    BY <1>9
  <2>3. a.rip = b.rip /\ a.stack = b.stack
    BY <1>10, <2>1, <2>2 DEF IsNodeOf
  <2>4. order[i] = order[j]
    BY <2>1, <2>2, <2>3
  <2> QED
    BY <1>6, <2>4 DEF IsInjective
<1>11. \A i \in I : \E s \in Happened :
         IsNodeOf(frames, nodes[i], s) /\ nodes[i].m_Stats = Sum(recorded, Alike(s))
  BY <1>9
<1>12. AreNodesOf(frames, nodes)
  BY <1>8, <1>10, <1>11 DEF AreNodesOf
<1> QED
  BY <1>7, <1>12

\* A step counts, ends the capture, or leaves what was saved as it is.
LEMMA StepsOfCapture ==
  ASSUME [Next]_vars
  PROVE  \/ phase = "capture" /\ phase' = "capture"
         \/ \E list \in LoadedLists[platform], order \in Orders(g_Stats) : EndCapture(list, order)
         \/ phase # "capture" /\ phase' # "capture" /\ UNCHANGED <<storeVars, fileVars>>
<1>1. ASSUME NEW s \in Samples, Record(s)
      PROVE  phase = "capture" /\ phase' = "capture"
  BY <1>1 DEF Record
<1>2. CASE EndCaptureFails
  BY <1>2 DEF EndCaptureFails
<1>3. CASE LoadTrace
  BY <1>3 DEF LoadTrace
<1>4. CASE CloseTrace
  BY <1>4 DEF CloseTrace
<1>5. ASSUME NEW newFile, NEW newInfo, symbolsResolved(newFile, newInfo)
      PROVE  phase # "capture" /\ phase' # "capture" /\ UNCHANGED <<storeVars, fileVars>>
  BY <1>5 DEF symbolsResolved
<1>6. ASSUME NEW known \in Infos, NEW junk \in JunkLines, Resolve(known, junk)
      PROVE  phase # "capture" /\ phase' # "capture" /\ UNCHANGED <<storeVars, fileVars>>
  BY <1>5, <1>6 DEF Resolve
<1>7. CASE ResolveFails
  BY <1>5, <1>7 DEF ResolveFails
<1>8. ASSUME NEW known \in Infos, NEW junk \in JunkLines, KilledWhileResolving(known, junk)
      PROVE  phase # "capture" /\ phase' # "capture" /\ UNCHANGED <<storeVars, fileVars>>
  BY <1>8 DEF KilledWhileResolving
<1>9. CASE OpenFlatProfile
  BY <1>9 DEF OpenFlatProfile
<1>10. CASE CloseFlatProfile
  BY <1>10 DEF CloseFlatProfile
<1>11. ASSUME NEW root \in Selectable \cup {NoRoot}, OpenTree(root)
       PROVE  phase # "capture" /\ phase' # "capture" /\ UNCHANGED <<storeVars, fileVars>>
  BY <1>11 DEF OpenTree
<1>12. CASE CloseTree
  BY <1>12 DEF CloseTree
<1>13. ASSUME NEW symbol \in Selectable, OpenAnnotation(symbol)
       PROVE  phase # "capture" /\ phase' # "capture" /\ UNCHANGED <<storeVars, fileVars>>
  BY <1>13 DEF OpenAnnotation
<1>14. CASE CloseAnnotation
  BY <1>14 DEF CloseAnnotation
<1>15. CASE UNCHANGED vars
  BY <1>15 DEF vars, fileVars
<1> QED
  BY <1>1, <1>2, <1>3, <1>4, <1>6, <1>7, <1>8, <1>9, <1>10, <1>11, <1>12, <1>13, <1>14, <1>15 DEF Next

LEMMA CountedInvStep == ProfileInv /\ CountedInv /\ [Next]_vars => CountedInv'
<1> SUFFICES ASSUME ProfileInv, CountedInv, [Next]_vars, phase' # "capture"
             PROVE  AreNodesOf(saved.frames, saved.nodes)'
  BY DEF CountedInv
<1>1. ASSUME NEW list, NEW order \in Orders(g_Stats), EndCapture(list, order)
      PROVE  AreNodesOf(saved.frames, saved.nodes)'
  <2>1. PICK frames : frames = SubSeq(g_StackData.m_Frames, 1, g_StackData.m_Count)
    OBVIOUS
  <2>2. PICK nodes : nodes = NodesIn(order)
    OBVIOUS
  <2>3. phase = "capture" /\ recorded' = recorded /\ saved'.frames = frames /\ saved'.nodes = nodes
    BY <1>1, <2>1, <2>2 DEF EndCapture
  <2>4. AreNodesOf(frames, nodes)
    BY <2>1, <2>2, <2>3, NodesAreCounted DEF ProfileInv
  <2>5. Happened' = Happened /\ \A s : Alike(s)' = Alike(s)
    BY <2>3 DEF Happened, Alike
  <2> QED
    BY <2>3, <2>4, <2>5 DEF AreNodesOf
<1>2. CASE phase # "capture" /\ UNCHANGED <<storeVars, fileVars>>
  <2>1. UNCHANGED <<saved, recorded>>
    BY <1>2 DEF fileVars
  <2>2. Happened' = Happened /\ \A s : Alike(s)' = Alike(s)
    BY <2>1 DEF Happened, Alike
  <2> QED
    BY <1>2, <2>1, <2>2 DEF CountedInv, AreNodesOf
<1> QED
  BY <1>1, <1>2, StepsOfCapture

LEMMA SavedIsRead ==
  ASSUME SavedInv, FileInv, phase # "capture"
  PROVE  GetStats(file) = saved.nodes /\ GetStacks(file) = saved.frames
<1>1. PICK modules \in Seq(ModuleInfos) : modules = saved.modules
  BY SavedTypes
<1>2. PICK frames \in Seq(Nat) : frames = saved.frames
  BY SavedTypes
<1>3. PICK T : saved.nodes \in Seq(T)
  BY SavedTypes
<1>4. PICK nodes \in Seq(T) : nodes = saved.nodes
  BY <1>3
<1>5. SectionsIn(file, file.header, modules, frames, nodes)
  BY <1>1, <1>2, <1>4 DEF FileInv
<1> QED
  BY <1>2, <1>4, <1>5, FileIsRead

-----------------------------------------------------------------------------
(* The trees                                                               *)

\* The frames of a sample in a tree
SampleFrames(s, root) == IF root = NoRoot THEN Reverse(<<s.rip>> \o s.stack) ELSE <<s.rip>> \o s.stack

LEMMA SampleFramesType ==
  ASSUME NEW s \in Samples, NEW root
  PROVE  /\ SampleFrames(s, root) \in Seq(Nat) /\ Len(SampleFrames(s, root)) = Len(s.stack) + 1
         /\ DOMAIN SampleFrames(s, root) = 1 .. Len(s.stack) + 1
         /\ \A d \in DOMAIN SampleFrames(s, root) : SampleFrames(s, root)[d] \in {s.rip} \cup Range(s.stack)
<1>1. s.rip \in Nat /\ s.stack \in Seq(Nat)
  <2>1. s.rip \in Rips /\ s.stack \in Stacks
    BY SamplesAssumption
  <2>2. s.rip \in Nat /\ s.stack \in Seq(Nat \ {0})
    BY <2>1, RipsAssumption, StacksAssumption
  <2> QED
    BY <2>2
<1>2. PICK rip \in Nat, stack \in Seq(Nat), n \in Nat :
        rip = s.rip /\ stack = s.stack /\ n = Len(stack) /\ DOMAIN stack = 1 .. n
  BY <1>1
<1>3. PICK f \in Seq(Nat) : /\ f = <<rip>> \o stack /\ Len(f) = n + 1 /\ f[1] = rip
                            /\ \A i \in 1 .. n : f[i + 1] = stack[i]
  <2>1. PICK S : S = Nat
    OBVIOUS
  <2>2. rip \in S /\ stack \in Seq(S) /\ Len(stack) = n
    BY <1>2, <2>1
  <2>3. /\ <<rip>> \o stack \in Seq(S) /\ Len(<<rip>> \o stack) = n + 1
        /\ (<<rip>> \o stack)[1] = rip
        /\ \A i \in 1 .. n : (<<rip>> \o stack)[i + 1] = stack[i]
    BY <2>2, OneElementPrepended
  <2> QED
    BY <2>1, <2>3
<1>4. DOMAIN f = 1 .. n + 1
  BY <1>3
<1>5. ASSUME NEW i \in 1 .. n + 1
      PROVE  f[i] \in {rip} \cup Range(stack)
  <2>1. CASE i = 1
    BY <1>3, <2>1
  <2>2. CASE i # 1
    <3>1. PICK k \in 1 .. n : i = k + 1
      BY <2>2
    <3> QED
      BY <1>2, <1>3, <3>1 DEF Range
  <2> QED
    BY <2>1, <2>2
<1>6. PICK r : r = Reverse(f)
  OBVIOUS
<1>7. r = [i \in 1 .. n + 1 |-> f[(n + 1 - i) + 1]]
  BY <1>3, <1>6 DEF Reverse
<1>8. \A i \in 1 .. n + 1 : (n + 1 - i) + 1 \in 1 .. n + 1
  OBVIOUS
<1>9. /\ r \in Seq(Nat) /\ Len(r) = n + 1 /\ DOMAIN r = 1 .. n + 1
      /\ \A i \in 1 .. n + 1 : r[i] \in {rip} \cup Range(stack)
  <2>1. \A i \in 1 .. n + 1 : f[(n + 1 - i) + 1] \in Nat
    BY <1>3, <1>8
  <2>2. r \in Seq(Nat) /\ Len(r) = n + 1 /\ DOMAIN r = 1 .. n + 1
    BY <1>7, <2>1
  <2> QED
    BY <1>5, <1>7, <1>8, <2>2
<1>10. SampleFrames(s, root) = IF root = NoRoot THEN r ELSE f
  BY <1>2, <1>3, <1>6 DEF SampleFrames
<1> QED
  BY <1>2, <1>3, <1>4, <1>5, <1>9, <1>10

\* createTree by its nodes, their frames and their paths.
PathsOn(path, I) == UNION {{SubSeq(path[i], 1, d) : d \in DOMAIN path[i]} : i \in I}
Through(path, I, p) == {i \in I : IsPrefix(p, path[i])}
Deeper(path, I, p) == Selected(path, {i \in Through(path, I, p) : Len(path[i]) > Len(p)})

TreeOf(f, c, nodes, frames, path) ==
  [p \in PathsOn(path, DOMAIN nodes) \cup {<< >>} |->
     [m_Stats |-> IF p = << >> THEN NoCounts ELSE Total(Selected(nodes, Through(path, DOMAIN nodes, p))),
      m_FileName |-> IF p = << >> THEN EmptyString
                     ELSE fileNameForAddress(f, c, frames[Nth(Through(path, DOMAIN nodes, p), 1)][Len(p)]),
      m_Children |-> Distinct([k \in DOMAIN Deeper(path, DOMAIN nodes, p) |->
                                 Deeper(path, DOMAIN nodes, p)[k][Len(p) + 1]])]]

TreeFrames(f, nodes, root) == [i \in DOMAIN nodes |-> FramesOf(f, nodes[i], root)]
TreePaths(f, c, nodes, frames) == [i \in DOMAIN nodes |-> [d \in DOMAIN frames[i] |-> FrameName(f, c, frames[i][d])]]

LEMMA TreeIsTreeOf ==
  ASSUME NEW f, NEW c, NEW root, NEW nodes, nodes = NodesUnder(f, c, root),
         NEW frames, frames = TreeFrames(f, nodes, root), NEW path, path = TreePaths(f, c, nodes, frames)
  PROVE  createTree(f, c, root) = TreeOf(f, c, nodes, frames, path)
  BY DEF createTree, TreeOf, TreeFrames, TreePaths, PathsOn, Through, Deeper

LEMMA FinitePrefixes ==
  ASSUME NEW S, NEW I, IsFiniteSet(I), NEW path, \A i \in I : path[i] \in Seq(S)
  PROVE  IsFiniteSet(PathsOn(path, I))
<1> DEFINE P(i) == {SubSeq(path[i], 1, d) : d \in DOMAIN path[i]}
<1>1. ASSUME NEW i \in I PROVE IsFiniteSet(P(i))
  <2>1. PICK n \in Nat : n = Len(path[i]) /\ DOMAIN path[i] = 1 .. n
    BY LenProperties
  <2>2. IsFiniteSet(1 .. n)
    BY FS_Interval
  <2>3. PICK f : f = [d \in 1 .. n |-> SubSeq(path[i], 1, d)]
    OBVIOUS
  <2>4. f \in Surjection(1 .. n, P(i))
    BY <2>1, <2>3 DEF Surjection
  <2> HIDE DEF P
  <2> QED
    BY <2>2, <2>4, FS_Surjection
<1>2. PICK f : f = [i \in I |-> P(i)]
  OBVIOUS
<1>3. PICK Q : Q = {P(i) : i \in I}
  OBVIOUS
<1>4. f \in Surjection(I, Q)
  BY <1>2, <1>3 DEF Surjection
<1>5. IsFiniteSet(Q)
  BY <1>4, FS_Surjection
<1>6. \A T \in Q : IsFiniteSet(T)
  BY <1>1, <1>3
<1>7. IsFiniteSet(UNION Q)
  BY <1>5, <1>6, FS_UNION
<1> QED
  BY <1>3, <1>7 DEF PathsOn

\* Some of the nodes are still those of the samples.
LEMMA SelectedNodes ==
  ASSUME NEW T, NEW nodes \in Seq(T), NEW frames, AreNodesOf(frames, nodes), NEW I \in SUBSET DOMAIN nodes
  PROVE  AreNodesOf(frames, Selected(nodes, I))
<1>1. PICK n \in Nat : n = Len(nodes) /\ DOMAIN nodes = 1 .. n
  OBVIOUS
<1>2. PICK m \in Nat : m = Cardinality(I)
  BY <1>1, NthIsThere
<1>3. PICK some : some = Selected(nodes, I)
  OBVIOUS
<1>4. /\ DOMAIN some = 1 .. m
      /\ \A k \in 1 .. m : Nth(I, k) \in I /\ some[k] = nodes[Nth(I, k)]
  BY <1>2, <1>3, SelectedElements
<1>5. \A k \in 1 .. m : Nth(I, k) \in DOMAIN nodes
  BY <1>4
<1>6. \A k, l \in 1 .. m : Nth(I, k) = Nth(I, l) => k = l
  <2>1. \A k, l \in 1 .. m : k < l => Nth(I, k) < Nth(I, l)
    BY <1>1, <1>2, NthIsThere
  <2>2. \A k \in 1 .. m : Nth(I, k) \in Int
    BY <1>1, <1>5
  <2> QED
    BY <2>1, <2>2
<1>7. \A k \in 1 .. m : \E s \in Happened :
        IsNodeOf(frames, some[k], s) /\ some[k].m_Stats = Sum(recorded, Alike(s))
  BY <1>4, <1>5 DEF AreNodesOf
<1>8. ASSUME NEW k \in 1 .. m, NEW l \in 1 .. m, NEW s \in Happened,
             IsNodeOf(frames, some[k], s), IsNodeOf(frames, some[l], s)
      PROVE  k = l
  <2>1. PICK i \in DOMAIN nodes, j \in DOMAIN nodes : i = Nth(I, k) /\ j = Nth(I, l) /\ some[k] = nodes[i] /\ some[l] = nodes[j]
    BY <1>4, <1>5
  <2>2. i = j
    BY <1>8, <2>1 DEF AreNodesOf
  <2> QED
    BY <1>6, <2>1, <2>2
<1>9. AreNodesOf(frames, some)
  BY <1>4, <1>7, <1>8 DEF AreNodesOf
<1> QED
  BY <1>3, <1>9

\* The nodes that go into a tree.
IsUnder(f, c, root, node) == root = NoRoot \/ root = symbolNameForAddress(f, c, node.m_Rip)

LEMMA NodesOfTree ==
  ASSUME SavedInv, FileInv, CountedInv, phase # "capture", NEW c, NEW root,
         NEW nodes, nodes = NodesUnder(file, c, root)
  PROVE  /\ \E T : nodes \in Seq(T)
         /\ AreNodesOf(saved.frames, nodes)
         /\ \A k \in DOMAIN nodes : IsUnder(file, c, root, nodes[k])
         /\ \A i \in DOMAIN saved.nodes : IsUnder(file, c, root, saved.nodes[i]) =>
              \E k \in DOMAIN nodes : nodes[k] = saved.nodes[i]
<1>1. PICK T : saved.nodes \in Seq(T)
  BY SavedTypes
<1>2. PICK all \in Seq(T) : all = saved.nodes
  BY <1>1
<1>3. PICK I \in SUBSET DOMAIN all : I = {i \in DOMAIN all : IsUnder(file, c, root, all[i])}
  OBVIOUS
<1>4. GetStats(file) = all
  BY <1>2, SavedIsRead
<1>5. nodes = Selected(all, I)
  BY <1>3, <1>4 DEF NodesUnder, IsUnder
<1>6. AreNodesOf(saved.frames, all)
  BY <1>2 DEF CountedInv
<1>7. AreNodesOf(saved.frames, Selected(all, I))
  BY <1>6, SelectedNodes
<1>8. /\ Selected(all, I) \in Seq(T)
      /\ \A k \in DOMAIN Selected(all, I) : Nth(I, k) \in I /\ Selected(all, I)[k] = all[Nth(I, k)]
      /\ \A i \in I : \E k \in DOMAIN Selected(all, I) : Selected(all, I)[k] = all[i]
  BY SelectedElements
<1>9. \A k \in DOMAIN nodes : IsUnder(file, c, root, nodes[k])
  BY <1>3, <1>5, <1>8
<1>10. \A i \in DOMAIN all : IsUnder(file, c, root, all[i]) => \E k \in DOMAIN nodes : nodes[k] = all[i]
  <2>1. \A i \in I : \E k \in DOMAIN nodes : nodes[k] = all[i]
    BY <1>5, <1>8
  <2>2. \A i \in DOMAIN all : IsUnder(file, c, root, all[i]) => i \in I
    BY <1>3
  <2> QED
    BY <2>1, <2>2
<1> QED
  BY <1>2, <1>5, <1>7, <1>8, <1>9, <1>10

LEMMA FramesOfNode ==
  ASSUME SavedInv, FileInv, phase # "capture", NEW node, NEW s, IsNodeOf(saved.frames, node, s), NEW root
  PROVE  FramesOf(file, node, root) = SampleFrames(s, root)
<1>1. GetStacks(file) = saved.frames
  BY SavedIsRead
<1>2. <<node.m_Rip>> \o StackAt(GetStacks(file), node.m_StackIndex) = <<s.rip>> \o s.stack
  BY <1>1 DEF IsNodeOf
<1> QED
  BY <1>2 DEF FramesOf, SampleFrames

\* The names that the frames of a file may have.
FrameNames(f, c) == {FrameName(f, c, rip) : rip \in Nat}

LEMMA PathsOfTree ==
  ASSUME SavedInv, FileInv, CountedInv, phase # "capture", NEW c, NEW root,
         NEW nodes, nodes = NodesUnder(file, c, root),
         NEW path, path = TreePaths(file, c, nodes, TreeFrames(file, nodes, root))
  PROVE  /\ DOMAIN path = DOMAIN nodes
         /\ \A i \in DOMAIN nodes : path[i] \in Seq(FrameNames(file, c))
         /\ \A i \in DOMAIN nodes, s \in Happened : IsNodeOf(saved.frames, nodes[i], s) =>
              path[i] = [d \in DOMAIN SampleFrames(s, root) |-> FrameName(file, c, SampleFrames(s, root)[d])]
<1>1. DOMAIN path = DOMAIN nodes
  BY DEF TreePaths
<1>2. ASSUME NEW i \in DOMAIN nodes, NEW s \in Happened, IsNodeOf(saved.frames, nodes[i], s)
      PROVE  /\ path[i] = [d \in DOMAIN SampleFrames(s, root) |-> FrameName(file, c, SampleFrames(s, root)[d])]
             /\ path[i] \in Seq(FrameNames(file, c))
  <2>1. PICK frames : frames = SampleFrames(s, root)
    OBVIOUS
  <2>2. PICK all : all = TreeFrames(file, nodes, root)
    OBVIOUS
  <2>3. all[i] = frames
    BY <1>2, <2>1, <2>2, FramesOfNode DEF TreeFrames
  <2>4. path[i] = [d \in DOMAIN frames |-> FrameName(file, c, frames[d])]
    BY <2>2, <2>3 DEF TreePaths
  <2>5. frames \in Seq(Nat)
    BY <2>1, SampleFramesType DEF Happened
  <2>6. PICK n \in Nat : DOMAIN frames = 1 .. n /\ \A d \in 1 .. n : frames[d] \in Nat
    BY <2>5
  <2>7. \A d \in 1 .. n : FrameName(file, c, frames[d]) \in FrameNames(file, c)
    BY <2>6 DEF FrameNames
  <2>8. PICK S : S = FrameNames(file, c)
    OBVIOUS
  <2>9. [d \in 1 .. n |-> FrameName(file, c, frames[d])] \in Seq(S)
    BY <2>7, <2>8
  <2> QED
    BY <2>1, <2>4, <2>6, <2>8, <2>9
<1>3. \A i \in DOMAIN nodes : \E s \in Happened : IsNodeOf(saved.frames, nodes[i], s)
  BY NodesOfTree DEF AreNodesOf
<1> QED
  BY <1>1, <1>2, <1>3

LEMMA TreeIsFinite ==
  ASSUME SavedInv, FileInv, CountedInv, phase # "capture", NEW c, NEW root
  PROVE  IsFiniteSet(DOMAIN createTree(file, c, root))
<1>1. PICK nodes : nodes = NodesUnder(file, c, root)
  OBVIOUS
<1>2. PICK path : path = TreePaths(file, c, nodes, TreeFrames(file, nodes, root))
  OBVIOUS
<1>3. PICK n \in Nat : DOMAIN nodes = 1 .. n
  <2>1. PICK T : nodes \in Seq(T)
    BY <1>1, NodesOfTree
  <2> QED
    BY <2>1, LenProperties
<1>4. IsFiniteSet(1 .. n)
  BY FS_Interval
<1>5. PICK S : S = FrameNames(file, c)
  OBVIOUS
<1>6. \A i \in 1 .. n : path[i] \in Seq(S)
  BY <1>1, <1>2, <1>3, <1>5, PathsOfTree
<1>7. IsFiniteSet(PathsOn(path, 1 .. n))
  BY <1>4, <1>6, FinitePrefixes
<1>8. DOMAIN createTree(file, c, root) = PathsOn(path, 1 .. n) \cup {<< >>}
  <2>1. PICK frames : frames = TreeFrames(file, nodes, root)
    OBVIOUS
  <2>2. PICK f : f = file
    OBVIOUS
  <2>3. createTree(f, c, root) = TreeOf(f, c, nodes, frames, path)
    BY <1>1, <1>2, <2>1, <2>2, TreeIsTreeOf
  <2>4. DOMAIN TreeOf(f, c, nodes, frames, path) = PathsOn(path, DOMAIN nodes) \cup {<< >>}
    BY DEF TreeOf
  <2> QED
    BY <1>3, <2>2, <2>3, <2>4
<1> QED
  BY <1>7, <1>8, FS_AddElement

\* The arena has the nodes of the tree.
ArenaInv == \E n \in Nat : HoldsNodes(arena, n) /\ (tree # NoView => n = Cardinality(DOMAIN tree.nodes))

LEMMA StepsOfTree ==
  ASSUME [Next]_vars
  PROVE  \/ UNCHANGED <<tree, arena>>
         \/ tree' = NoView /\ arena' = EmptyArena
         \/ \E root \in Selectable \cup {NoRoot} : OpenTree(root)
<1>1. ASSUME NEW s \in Samples, Record(s) PROVE UNCHANGED <<tree, arena>>
  BY <1>1 DEF Record, viewVars
<1>2. ASSUME NEW list, NEW order, EndCapture(list, order) PROVE UNCHANGED <<tree, arena>>
  BY <1>2 DEF EndCapture, viewVars
<1>3. CASE EndCaptureFails
  BY <1>3 DEF EndCaptureFails, viewVars
<1>4. CASE LoadTrace
  BY <1>4 DEF LoadTrace, viewVars
<1>5. CASE CloseTrace
  BY <1>5 DEF CloseTrace, NoViews
<1>6. ASSUME NEW newFile, NEW newInfo, symbolsResolved(newFile, newInfo) PROVE UNCHANGED <<tree, arena>>
  BY <1>6 DEF symbolsResolved
<1>7. ASSUME NEW known, NEW junk, Resolve(known, junk) PROVE UNCHANGED <<tree, arena>>
  BY <1>6, <1>7 DEF Resolve
<1>8. CASE ResolveFails
  BY <1>6, <1>8 DEF ResolveFails
<1>9. ASSUME NEW known, NEW junk, KilledWhileResolving(known, junk)
      PROVE  tree' = NoView /\ arena' = EmptyArena
  BY <1>9 DEF KilledWhileResolving, NoViews
<1>10. CASE OpenFlatProfile
  BY <1>10 DEF OpenFlatProfile
<1>11. CASE CloseFlatProfile
  BY <1>11 DEF CloseFlatProfile
<1>12. CASE CloseTree
  BY <1>12 DEF CloseTree, reset
<1>13. ASSUME NEW symbol, OpenAnnotation(symbol) PROVE UNCHANGED <<tree, arena>>
  BY <1>13 DEF OpenAnnotation
<1>14. CASE CloseAnnotation
  BY <1>14 DEF CloseAnnotation
<1>15. CASE UNCHANGED vars
  BY <1>15 DEF vars, viewVars
<1> QED
  BY <1>1, <1>2, <1>3, <1>4, <1>5, <1>7, <1>8, <1>9, <1>10, <1>11, <1>12, <1>13, <1>14, <1>15 DEF Next

LEMMA ArenaInvStep == ProfileInv /\ CountedInv /\ ArenaInv /\ [Next]_vars => ArenaInv'
<1> SUFFICES ASSUME ProfileInv, CountedInv, ArenaInv, [Next]_vars PROVE ArenaInv'
  OBVIOUS
<1>1. CASE UNCHANGED <<tree, arena>>
  BY <1>1 DEF ArenaInv
<1>2. CASE tree' = NoView /\ arena' = EmptyArena
  <2>1. HoldsNodes(arena', 0)
    BY <1>2, EmptyArenaHolds
  <2> QED
    BY <1>2, <2>1 DEF ArenaInv
<1>3. ASSUME NEW root, OpenTree(root)
      PROVE  ArenaInv'
  <2>1. PICK nodes : nodes = createTree(file, cache, root)
    OBVIOUS
  <2>2. /\ phase # "capture" /\ tree'.nodes = nodes
        /\ arena' = AllocNodes(EmptyArena, Cardinality(DOMAIN nodes))
    BY <1>3, <2>1 DEF OpenTree, reset
  <2>3. IsFiniteSet(DOMAIN nodes)
    BY <2>1, <2>2, TreeIsFinite DEF ProfileInv
  <2>4. PICK n \in Nat : n = Cardinality(DOMAIN nodes)
    BY <2>3, FS_CardinalityType
  <2>5. PICK a : a = AllocNodes(EmptyArena, n)
    OBVIOUS
  <2>6. HoldsNodes(a, n)
    BY <2>5, NodesArePut
  <2>7. HoldsNodes(arena', n)
    BY <2>2, <2>4, <2>5, <2>6
  <2> QED
    BY <2>2, <2>4, <2>7 DEF ArenaInv
<1> QED
  BY <1>1, <1>2, <1>3, StepsOfTree

LEMMA ArenaInvHolds == ArenaInv => ArenaHoldsTheTree
<1> SUFFICES ASSUME ArenaInv PROVE ArenaHoldsTheTree
  OBVIOUS
<1>1. PICK n \in Nat : HoldsNodes(arena, n) /\ (tree # NoView => n = Cardinality(DOMAIN tree.nodes))
  BY DEF ArenaInv
<1>2. FitsItsPages(arena) /\ Len(arena.chain) = n
  BY <1>1, NodesFitTheirPages
<1> QED
  BY <1>1, <1>2 DEF ArenaHoldsTheTree

LEMMA ArenaInvInit == Init => CountedInv /\ ArenaInv
<1> SUFFICES ASSUME Init PROVE CountedInv /\ ArenaInv
  OBVIOUS
<1>1. phase = "capture" /\ arena = EmptyArena /\ tree = NoView
  BY DEF Init
<1>2. HoldsNodes(arena, 0)
  BY <1>1, EmptyArenaHolds
<1> QED
  BY <1>1, <1>2 DEF CountedInv, ArenaInv

LEMMA ArenaInvAlways == Spec => [](CountedInv /\ ArenaInv)
<1> DEFINE Inv == ProfileInv /\ CountedInv /\ ArenaInv
<1>1. Init => Inv
  BY ProfileInvInit, ArenaInvInit
<1>2. Inv /\ [Next]_vars => Inv'
  BY ProfileInvStep, CountedInvStep, ArenaInvStep
<1> QED
  BY <1>1, <1>2, PTL DEF Spec

\* TreeModel and ObjectStack: in the tree of any file, with any names, every
\* node is given a place in the arena, inside the data of its page and over no
\* other, though the header of a page is counted as free.
THEOREM ArenaHoldsTheTreeAlways == Spec => []ArenaHoldsTheTree
  BY ArenaInvHolds, ArenaInvAlways, PTL

-----------------------------------------------------------------------------
(* The totals of the views                                                 *)

\* A finite set of numbers has a least and a greatest one.
LEMMA EndsOfSet ==
  ASSUME NEW T \in SUBSET Int, IsFiniteSet(T), T # {}
  PROVE  /\ Min(T) \in T /\ Max(T) \in T
         /\ \A x \in T : Min(T) <= x /\ x <= Max(T)
<1>1. PICK n \in Nat : n = Cardinality(T)
  BY NthOfSet
<1>2. \A x \in T : Rank(T, x) \in 1 .. n /\ Nth(T, Rank(T, x)) = x
  BY <1>1, NthOfSet
<1>3. /\ \A k \in 1 .. n : Nth(T, k) \in T /\ Nth(T, k) \in Int
      /\ \A k, l \in 1 .. n : k < l => Nth(T, k) < Nth(T, l)
  BY <1>1, NthOfSet
<1>4. 1 \in 1 .. n /\ n \in 1 .. n
  <2>1. PICK x \in T : TRUE
    OBVIOUS
  <2>2. Rank(T, x) \in 1 .. n
    BY <1>2
  <2> QED
    BY <2>2
<1>5. ASSUME NEW x \in T
      PROVE  Nth(T, 1) <= x /\ x <= Nth(T, n)
  <2>1. PICK r \in 1 .. n : r = Rank(T, x) /\ Nth(T, r) = x
    BY <1>2
  <2>2. r = 1 \/ 1 < r
    OBVIOUS
  <2>3. r = n \/ r < n
    OBVIOUS
  <2>4. Nth(T, 1) <= Nth(T, r)
    BY <1>3, <1>4, <2>2
  <2>5. Nth(T, r) <= Nth(T, n)
    BY <1>3, <1>4, <2>3
  <2> QED
    BY <2>1, <2>4, <2>5
<1>6. Nth(T, 1) \in T /\ Nth(T, n) \in T
  BY <1>3, <1>4
<1>7. PICK a \in T, b \in T : \A x \in T : a <= x /\ x <= b
  BY <1>5, <1>6
<1>8. \A x \in T : x \in Int
  OBVIOUS
<1>9. Min(T) \in T /\ \A x \in T : Min(T) <= x
  BY <1>7 DEF Min
<1>10. \A x \in T : b >= x
  BY <1>7, <1>8
<1>11. Max(T) \in T /\ \A x \in T : Max(T) >= x
  BY <1>10 DEF Max
<1> QED
  BY <1>8, <1>9, <1>11

\* Total, by the definition of a fold.
TotalStep(nodes, f, T) ==
  IF T = {} THEN NoCounts ELSE Plus(f[T \ {Max(T)}], nodes[Max(T)].m_Stats)

TotalOf(nodes, S) ==
  LET iter[T \in SUBSET S] ==
        IF T = {} THEN NoCounts ELSE Plus(iter[T \ {Max(T)}], nodes[Max(T)].m_Stats)
  IN iter[S]

LEMMA TotalIsTotalOf ==
  ASSUME NEW nodes
  PROVE  Total(nodes) = TotalOf(nodes, DOMAIN nodes)
BY DEF Total, TotalOf, FoldLeft, MapThenFoldSet

LEMMA TotalExists ==
  ASSUME NEW nodes, NEW n \in Nat
  PROVE  \E f : f = [T \in SUBSET (1 .. n) |-> TotalStep(nodes, f, T)]
<1> DEFINE P == {m \in Nat : \E f : f = [T \in SUBSET (1 .. m) |-> TotalStep(nodes, f, T)]}
<1>1. 0 \in P
  <2> DEFINE f == [T \in SUBSET (1 .. 0) |-> NoCounts]
  <2>1. \A T \in SUBSET (1 .. 0) : T = {}
    OBVIOUS
  <2>2. \A T \in SUBSET (1 .. 0) : TotalStep(nodes, f, T) = NoCounts
    BY <2>1 DEF TotalStep
  <2>3. f = [T \in SUBSET (1 .. 0) |-> TotalStep(nodes, f, T)]
    BY <2>2
  <2> QED
    BY <2>3
<1>2. ASSUME NEW m \in Nat, m \in P
      PROVE  m + 1 \in P
  <2>1. PICK f : f = [T \in SUBSET (1 .. m) |-> TotalStep(nodes, f, T)]
    BY <1>2
  <2>2. PICK k \in Nat : k = m + 1
    OBVIOUS
  <2> DEFINE g == [T \in SUBSET (1 .. k) |-> TotalStep(nodes, f, T)]
  <2>3. ASSUME NEW T \in SUBSET (1 .. k), T # {}
        PROVE  T \ {Max(T)} \in SUBSET (1 .. m)
    <3>0. T \in SUBSET Int /\ IsFiniteSet(T)
      <4>1. IsFiniteSet(1 .. k)
        BY FS_Interval
      <4>2. IsFiniteSet(T)
        BY <4>1, FS_Subset
      <4>3. \A y \in T : y \in Int
        OBVIOUS
      <4> QED
        BY <4>2, <4>3
    <3>1. PICK x \in T : x = Max(T) /\ \A y \in T : y <= x
      BY <2>3, <3>0, EndsOfSet
    <3>2. \A y \in T : y # x => y \in 1 .. m
      BY <2>2, <3>1
    <3> QED
      BY <3>1, <3>2
  <2>4. \A T \in SUBSET (1 .. m) : T \in SUBSET (1 .. k)
    BY <2>2
  <2>5. \A T \in SUBSET (1 .. m) : g[T] = f[T]
    BY <2>1, <2>4
  <2>6. \A T \in SUBSET (1 .. k) : TotalStep(nodes, g, T) = TotalStep(nodes, f, T)
    <3> TAKE T \in SUBSET (1 .. k)
    <3>1. CASE T = {}
      BY <3>1 DEF TotalStep
    <3>2. CASE T # {}
      <4>1. g[T \ {Max(T)}] = f[T \ {Max(T)}]
        BY <2>3, <2>5, <3>2
      <4> HIDE DEF g
      <4> QED
        BY <3>2, <4>1 DEF TotalStep
    <3> QED
      BY <3>1, <3>2
  <2>7. g = [T \in SUBSET (1 .. k) |-> TotalStep(nodes, g, T)]
    BY <2>6
  <2>8. \E h : h = [T \in SUBSET (1 .. k) |-> TotalStep(nodes, h, T)]
    BY <2>7
  <2> QED
    BY <2>2, <2>8
<1> HIDE DEF P
<1>3. \A m \in Nat : m \in P
  BY <1>1, <1>2, Induction
<1> QED
  BY <1>3 DEF P

\* The total is made by adding one node after the other.
LEMMA TotalInOrder ==
  ASSUME NEW nodes, NEW n \in Nat, DOMAIN nodes = 1 .. n
  PROVE  \E t : /\ t[0] = NoCounts /\ Total(nodes) = t[n]
                /\ \A k \in 1 .. n : t[k] = Plus(t[k - 1], nodes[k].m_Stats)
<1>1. PICK D : D = 1 .. n
  OBVIOUS
<1> DEFINE f == CHOOSE f : f = [T \in SUBSET D |-> TotalStep(nodes, f, T)]
<1>2. \E g : g = [T \in SUBSET D |-> TotalStep(nodes, g, T)]
  <2>1. \E g : g = [T \in SUBSET (1 .. n) |-> TotalStep(nodes, g, T)]
    BY TotalExists
  <2> QED
    BY <1>1, <2>1
<1>3. f = [T \in SUBSET D |-> TotalStep(nodes, f, T)]
  BY <1>2
<1>4. TotalOf(nodes, D) = f[D]
  BY DEF TotalOf, TotalStep
<1> HIDE DEF f
<1>5. \A T \in SUBSET D : f[T] = TotalStep(nodes, f, T)
  BY <1>3
<1>6. PICK t : t = [k \in 0 .. n |-> f[1 .. k]]
  OBVIOUS
<1>7. ASSUME NEW k \in 1 .. n
      PROVE  t[k] = Plus(t[k - 1], nodes[k].m_Stats)
  <2>1. PICK T \in SUBSET D : T = 1 .. k /\ T # {} /\ k \in T /\ T \ {k} = 1 .. k - 1
    BY <1>1
  <2>2. Max(T) = k
    <3>0. T \in SUBSET Int /\ IsFiniteSet(T)
      <4>1. IsFiniteSet(1 .. k)
        BY FS_Interval
      <4> QED
        BY <2>1, <4>1
    <3>1. Max(T) \in T /\ \A y \in T : y <= Max(T)
      BY <2>1, <3>0, EndsOfSet
    <3>2. Max(T) \in Int /\ Max(T) <= k /\ k <= Max(T)
      BY <2>1, <3>1
    <3> QED
      BY <3>2
  <2>3. f[T] = Plus(f[T \ {k}], nodes[k].m_Stats)
    BY <1>5, <2>1, <2>2 DEF TotalStep
  <2>4. k \in 0 .. n /\ k - 1 \in 0 .. n
    OBVIOUS
  <2> QED
    BY <1>6, <2>1, <2>3, <2>4
<1>8. t[0] = NoCounts
  <2>1. {} \in SUBSET D /\ 1 .. 0 = {} /\ 0 \in 0 .. n
    OBVIOUS
  <2>2. f[{}] = NoCounts
    BY <1>5, <2>1 DEF TotalStep
  <2> QED
    BY <1>6, <2>1, <2>2
<1>9. Total(nodes) = t[n]
  <2>1. n \in 0 .. n
    OBVIOUS
  <2> QED
    BY <1>1, <1>4, <1>6, <2>1, TotalIsTotalOf
<1> QED
  BY <1>7, <1>8, <1>9

LEMMA PlusOfAdded ==
  ASSUME NEW r \in [Samples -> Nat], NEW s \in Samples, NEW a \in CounterValues, NEW b \in CounterValues
  PROVE  Plus(a, Added(r, s, b)) = Added(r, s, Plus(a, b)) /\ Plus(a, NoCounts) = a
<1>1. ASSUME NEW k \in Counters
      PROVE  /\ (a[k] + ((b[k] + r[s] * s.counts[k]) % CounterRange)) % CounterRange
                  = (((a[k] + b[k]) % CounterRange) + r[s] * s.counts[k]) % CounterRange
             /\ (a[k] + 0) % CounterRange = a[k]
  <2>1. r[s] \in Int /\ s.counts[k] \in Int
    BY SamplesAssumption
  <2>2. PICK w \in Int : w = r[s] * s.counts[k]
    BY <2>1
  <2>3. PICK c \in Nat \ {0} : c = CounterRange
    BY CounterAssumption
  <2>4. PICK x \in 0 .. c - 1, y \in Int : x = a[k] /\ y = b[k]
    BY <2>3 DEF CounterValues
  <2>5. PICK u \in Int, v \in Int, z \in Int : u = y + w /\ v = x + y /\ z = x + y + w
    OBVIOUS
  <2>6. ((u % c) + x) % c = (u + x) % c /\ ((v % c) + w) % c = (v + w) % c
    <3>1. x \in Int
      OBVIOUS
    <3>2. ((u % c) + x) % c = (u + x) % c
      BY <3>1, RestOfSum
    <3>3. ((v % c) + w) % c = (v + w) % c
      BY RestOfSum
    <3> QED
      BY <3>2, <3>3
  <2>7. u + x = z /\ v + w = z
    BY <2>5
  <2>8. PICK p \in Int : p = u % c
    BY <2>3
  <2>9. x + p = p + x
    BY <2>4
  <2>10. (x + (u % c)) % c = ((v % c) + w) % c
    BY <2>6, <2>7, <2>8, <2>9
  <2>11. x % c = x
    <3>1. x = c * 0 + x
      BY <2>4
    <3> QED
      BY <3>1, DivisionIsUnique
  <2>12. x + 0 = x
    BY <2>4
  <2> QED
    BY <2>2, <2>3, <2>4, <2>5, <2>10, <2>11, <2>12
<1>2. a = [k \in Counters |-> a[k]]
  BY DEF CounterValues
<1> QED
  BY <1>1, <1>2 DEF Plus, Added, NoCounts

\* Samples that are counted apart are counted together.
LEMMA SumUnion ==
  ASSUME NEW r \in [Samples -> Nat], NEW A \in SUBSET Samples, NEW B \in SUBSET Samples, A \cap B = {}
  PROVE  Sum(r, A \cup B) = Plus(Sum(r, A), Sum(r, B))
<1> DEFINE P == {n \in Nat : \A T \in SUBSET Samples :
                   (Cardinality(T) = n /\ A \cap T = {}) => Sum(r, A \cup T) = Plus(Sum(r, A), Sum(r, T))}
<1>1. \A T \in SUBSET Samples : IsFiniteSet(T) /\ Cardinality(T) \in Nat
  BY SamplesAssumption, FS_Subset, FS_CardinalityType
<1>2. 0 \in P
  <2> SUFFICES ASSUME NEW T \in SUBSET Samples, Cardinality(T) = 0
               PROVE  Sum(r, A \cup T) = Plus(Sum(r, A), Sum(r, T))
    OBVIOUS
  <2>1. T = {} /\ A \cup T = A /\ IsFiniteSet(T)
    BY <1>1, FS_EmptySet
  <2>2. Sum(r, T) = NoCounts
    BY <2>1, SumUnfold
  <2>3. PICK a \in CounterValues : a = Sum(r, A)
    BY SumType
  <2>4. Plus(a, NoCounts) = a
    <3>1. a = [k \in Counters |-> a[k]]
      BY DEF CounterValues
    <3>2. ASSUME NEW k \in Counters PROVE (a[k] + 0) % CounterRange = a[k]
      <4>1. PICK c \in Nat \ {0} : c = CounterRange
        BY CounterAssumption
      <4>2. PICK x \in 0 .. c - 1 : x = a[k]
        BY <4>1 DEF CounterValues
      <4>3. x = c * 0 + x /\ x + 0 = x
        BY <4>1
      <4>4. x % c = x
        BY <4>3, DivisionIsUnique
      <4> QED
        BY <4>1, <4>2, <4>4
    <3> QED
      BY <3>1, <3>2 DEF Plus, NoCounts
  <2> QED
    BY <2>1, <2>2, <2>3, <2>4
<1>3. ASSUME NEW n \in Nat, n \in P
      PROVE  n + 1 \in P
  <2> SUFFICES ASSUME NEW T \in SUBSET Samples, Cardinality(T) = n + 1, A \cap T = {}
               PROVE  Sum(r, A \cup T) = Plus(Sum(r, A), Sum(r, T))
    OBVIOUS
  <2>1. PICK x \in T : TRUE
    <3>1. n + 1 # 0
      OBVIOUS
    <3> QED
      BY <1>1, <3>1, FS_EmptySet
  <2>2. PICK V \in SUBSET Samples : /\ V = T \ {x} /\ Cardinality(V) = n /\ x \notin V /\ T = V \cup {x}
                                    /\ A \cap V = {} /\ x \notin A \cup V /\ A \cup T = (A \cup V) \cup {x}
    <3>1. Cardinality(T \ {x}) = n
      BY <1>1, FewerElements
    <3>2. T \ {x} \in SUBSET Samples /\ T = (T \ {x}) \cup {x} /\ A \cup T = (A \cup (T \ {x})) \cup {x} /\ x \notin A
      OBVIOUS
    <3> QED
      BY <3>1, <3>2
  <2>3. PICK W \in SUBSET Samples : W = A \cup V /\ x \notin W /\ A \cup T = W \cup {x}
    BY <2>2
  <2>4. PICK a \in CounterValues, v \in CounterValues : a = Sum(r, A) /\ v = Sum(r, V)
    BY SumType
  <2>5. Sum(r, W) = Plus(a, v)
    BY <1>3, <2>2, <2>3, <2>4
  <2>6. Sum(r, W \cup {x}) = Added(r, x, Sum(r, W))
    BY <2>3, SumInsert
  <2>7. Sum(r, V \cup {x}) = Added(r, x, v)
    BY <2>2, <2>4, SumInsert
  <2>8. Plus(a, Added(r, x, v)) = Added(r, x, Plus(a, v))
    BY PlusOfAdded
  <2> QED
    BY <2>2, <2>3, <2>4, <2>5, <2>6, <2>7, <2>8
<1> HIDE DEF P
<1>4. \A n \in Nat : n \in P
  BY <1>2, <1>3, Induction
<1> QED
  BY <1>1, <1>4 DEF P

\* The samples of some nodes
OfNodes(frames, nodes, I) == {s \in Happened : \E i \in I : IsNodeOf(frames, nodes[i], s)}

\* What is added up for nodes is what their samples counted.
LEMMA TotalOfNodes ==
  ASSUME recorded \in [Samples -> Nat], NEW nodes, NEW n \in Nat, DOMAIN nodes = 1 .. n,
         NEW frames, AreNodesOf(frames, nodes)
  PROVE  Total(nodes) = Sum(recorded, OfNodes(frames, nodes, 1 .. n))
<1>1. PICK t : /\ t[0] = NoCounts /\ Total(nodes) = t[n]
               /\ \A k \in 1 .. n : t[k] = Plus(t[k - 1], nodes[k].m_Stats)
  BY TotalInOrder
<1>2. PICK r \in [Samples -> Nat] : r = recorded
  OBVIOUS
<1> DEFINE P == {m \in Nat : m <= n => t[m] = Sum(r, OfNodes(frames, nodes, 1 .. m))}
<1>3. 0 \in P
  <2>1. OfNodes(frames, nodes, 1 .. 0) = {}
    BY DEF OfNodes
  <2>2. Sum(r, {}) = NoCounts
    BY FS_EmptySet, SumUnfold
  <2> QED
    BY <1>1, <2>1, <2>2
<1>4. ASSUME NEW m \in Nat, m \in P
      PROVE  m + 1 \in P
  <2> SUFFICES ASSUME m + 1 <= n PROVE t[m + 1] = Sum(r, OfNodes(frames, nodes, 1 .. m + 1))
    OBVIOUS
  <2>1. PICK k \in 1 .. n : k = m + 1 /\ k - 1 = m /\ 1 .. k = (1 .. m) \cup {k} /\ k \notin 1 .. m /\ m <= n
    OBVIOUS
  <2>2. t[k] = Plus(Sum(r, OfNodes(frames, nodes, 1 .. m)), nodes[k].m_Stats)
    BY <1>1, <1>4, <2>1
  <2>3. PICK s \in Happened : IsNodeOf(frames, nodes[k], s) /\ nodes[k].m_Stats = Sum(r, Alike(s))
    BY <1>2 DEF AreNodesOf
  <2>4. OfNodes(frames, nodes, {k}) = Alike(s)
    BY <2>3 DEF OfNodes, Alike, IsNodeOf
  <2>5. PICK A \in SUBSET Samples, B \in SUBSET Samples :
          A = OfNodes(frames, nodes, 1 .. m) /\ B = OfNodes(frames, nodes, {k})
    BY DEF OfNodes, Happened
  <2>6. A \cap B = {}
    <3> SUFFICES ASSUME NEW x \in Happened, NEW i \in 1 .. m, IsNodeOf(frames, nodes[i], x), IsNodeOf(frames, nodes[k], x)
                 PROVE  FALSE
      BY <2>5 DEF OfNodes
    <3>1. i \in 1 .. n /\ i # k
      BY <2>1
    <3> QED
      BY <3>1 DEF AreNodesOf
  <2>7. OfNodes(frames, nodes, 1 .. k) = A \cup B
    BY <2>1, <2>5 DEF OfNodes
  <2>8. Sum(r, A \cup B) = Plus(Sum(r, A), Sum(r, B))
    BY <2>6, SumUnion
  <2> QED
    BY <2>1, <2>2, <2>3, <2>4, <2>5, <2>7, <2>8
<1> HIDE DEF P
<1>5. \A m \in Nat : m \in P
  BY <1>3, <1>4, Induction
<1>6. t[n] = Sum(r, OfNodes(frames, nodes, 1 .. n))
  BY <1>5 DEF P
<1> QED
  BY <1>1, <1>2, <1>6

LEMMA TotalOfSelected ==
  ASSUME recorded \in [Samples -> Nat], NEW T, NEW nodes \in Seq(T), NEW frames, AreNodesOf(frames, nodes),
         NEW I \in SUBSET DOMAIN nodes
  PROVE  Total(Selected(nodes, I)) = SumOf(OfNodes(frames, nodes, I))
<1>1. PICK some \in Seq(T) : some = Selected(nodes, I)
  BY SelectedElements
<1>2. PICK n \in Nat : DOMAIN some = 1 .. n
  BY LenProperties
<1>3. AreNodesOf(frames, some)
  BY <1>1, SelectedNodes
<1>4. Total(some) = Sum(recorded, OfNodes(frames, some, 1 .. n))
  BY <1>2, <1>3, TotalOfNodes
<1>5. /\ \A k \in 1 .. n : \E i \in I : some[k] = nodes[i]
      /\ \A i \in I : \E k \in 1 .. n : some[k] = nodes[i]
  <2>1. /\ \A k \in DOMAIN some : Nth(I, k) \in I /\ some[k] = nodes[Nth(I, k)]
        /\ \A i \in I : \E k \in DOMAIN some : some[k] = nodes[i]
    BY <1>1, SelectedElements
  <2> QED
    BY <1>2, <2>1
<1>6. OfNodes(frames, some, 1 .. n) = OfNodes(frames, nodes, I)
  BY <1>5 DEF OfNodes
<1> QED
  BY <1>1, <1>4, <1>6, SumOfIsSum

LEMMA NodeOfSample ==
  ASSUME SavedInv, phase # "capture", NEW s \in Happened
  PROVE  \E i \in DOMAIN saved.nodes : IsNodeOf(saved.frames, saved.nodes[i], s)
BY SampleIsRead DEF IsNodeOf

\* The addresses of the file have their names, and no other address has one.
NamesHold(c) ==
  \A rip \in FileAddresses :
    /\ HasSymbol(file, rip) <=> HasTrueName(rip, info)
    /\ HasSymbol(file, rip) =>
         /\ symbolNameForAddress(file, c, rip) = TrueName(rip, info)
         /\ fileNameForAddress(file, c, rip) = TrueFile(rip, info)

LEMMA FreshNamesHold ==
  ASSUME ProfileInv, phase = "open"
  PROVE  NamesHold(<< >>) /\ (cacheInfo = info => NamesHold(cache))
<1>1. SymbolsNameTheirAddress
  BY ProfileInvNames
<1>2. << >> \in {<< >>} \cup (IF cacheInfo = info THEN {cache} ELSE {})
  OBVIOUS
<1>3. cacheInfo = info => cache \in {<< >>} \cup (IF cacheInfo = info THEN {cache} ELSE {})
  OBVIOUS
<1>4. PICK C : C = {<< >>} \cup (IF cacheInfo = info THEN {cache} ELSE {})
  OBVIOUS
<1>5. \A c \in C : NamesHold(c)
  BY <1>1, <1>4 DEF SymbolsNameTheirAddress, NamesHold
<1> QED
  BY <1>2, <1>3, <1>4, <1>5

\* The rows of the flat profile that are right.
TrueNames(i) == {TrueName(s.rip, i) : s \in {t \in Happened : HasTrueName(t.rip, i)}}
TrueRows(i) == [n \in TrueNames(i) |-> SumOf(SamplesOf(n, i))]

LEMMA RowsAreTotals ==
  ASSUME StoreInv, SavedInv, FileInv, CountedInv, phase # "capture", NEW c, NamesHold(c)
  PROVE  FlatRows(file, c) = TrueRows(info)
<1>1. PICK T : saved.nodes \in Seq(T)
  BY SavedTypes
<1>2. PICK nodes \in Seq(T) : nodes = saved.nodes /\ GetStats(file) = nodes
  BY <1>1, SavedIsRead
<1>3. PICK frames : frames = saved.frames /\ AreNodesOf(frames, nodes)
  BY <1>2 DEF CountedInv
<1>4. PICK named \in SUBSET DOMAIN nodes : named = {i \in DOMAIN nodes : HasSymbol(file, nodes[i].m_Rip)}
  OBVIOUS
<1>5. PICK name : name = [i \in named |-> symbolNameForAddress(file, c, nodes[i].m_Rip)]
  OBVIOUS
<1>6. FlatRows(file, c) = [n \in {name[i] : i \in named} |-> Total(Selected(nodes, {i \in named : name[i] = n}))]
  BY <1>2, <1>4, <1>5 DEF FlatRows
<1>7. ASSUME NEW i \in DOMAIN nodes, NEW s \in Happened, IsNodeOf(frames, nodes[i], s)
      PROVE  /\ i \in named <=> HasTrueName(s.rip, info)
             /\ i \in named => name[i] = TrueName(s.rip, info)
  <2>1. nodes[i].m_Rip = s.rip
    BY <1>7 DEF IsNodeOf
  <2>2. s.rip \in FileAddresses
    BY DEF FileAddresses
  <2>3. HasSymbol(file, s.rip) <=> HasTrueName(s.rip, info)
    BY <2>2 DEF NamesHold
  <2>4. HasSymbol(file, s.rip) => symbolNameForAddress(file, c, s.rip) = TrueName(s.rip, info)
    BY <2>2 DEF NamesHold
  <2> QED
    BY <1>4, <1>5, <2>1, <2>3, <2>4
<1>8. \A i \in DOMAIN nodes : \E s \in Happened : IsNodeOf(frames, nodes[i], s)
  BY <1>3 DEF AreNodesOf
<1>9. \A s \in Happened : \E i \in DOMAIN nodes : IsNodeOf(frames, nodes[i], s)
  BY <1>2, <1>3, NodeOfSample
<1>10. {name[i] : i \in named} = TrueNames(info)
  BY <1>4, <1>7, <1>8, <1>9 DEF TrueNames
<1>11. ASSUME NEW n
       PROVE  Total(Selected(nodes, {i \in named : name[i] = n})) = SumOf(SamplesOf(n, info))
  <2>1. PICK I \in SUBSET DOMAIN nodes : I = {i \in named : name[i] = n}
    OBVIOUS
  <2>2. OfNodes(frames, nodes, I) = SamplesOf(n, info)
    <3>1. ASSUME NEW s \in Happened, NEW i \in I, IsNodeOf(frames, nodes[i], s)
          PROVE  s \in SamplesOf(n, info)
      BY <1>7, <2>1, <3>1 DEF SamplesOf
    <3>2. ASSUME NEW s \in SamplesOf(n, info)
          PROVE  \E i \in I : IsNodeOf(frames, nodes[i], s)
      <4>1. s \in Happened /\ HasTrueName(s.rip, info) /\ TrueName(s.rip, info) = n
        BY DEF SamplesOf
      <4>2. PICK i \in DOMAIN nodes : IsNodeOf(frames, nodes[i], s)
        BY <1>9, <4>1
      <4> QED
        BY <1>7, <2>1, <4>1, <4>2
    <3>3. SamplesOf(n, info) \subseteq Happened
      BY DEF SamplesOf
    <3> QED
      BY <3>1, <3>2, <3>3 DEF OfNodes
  <2>3. Total(Selected(nodes, I)) = SumOf(OfNodes(frames, nodes, I))
    BY <1>3, TotalOfSelected DEF StoreInv
  <2> QED
    BY <2>1, <2>2, <2>3
<1> QED
  BY <1>6, <1>10, <1>11 DEF TrueRows

\* Views are of a file that is open.
ViewsInv == phase # "open" => flat = NoView /\ tree = NoView /\ source = NoView

LEMMA ViewsInvStep == ViewsInv /\ [Next]_vars => ViewsInv'
<1> SUFFICES ASSUME ViewsInv, [Next]_vars PROVE ViewsInv'
  OBVIOUS
<1>1. ASSUME UNCHANGED viewVars, phase # "open" PROVE ViewsInv'
  BY <1>1 DEF ViewsInv, viewVars
<1>2. ASSUME NEW s, Record(s) PROVE ViewsInv'
  BY <1>1, <1>2 DEF Record
<1>3. ASSUME NEW list, NEW order, EndCapture(list, order) PROVE ViewsInv'
  BY <1>1, <1>3 DEF EndCapture
<1>4. CASE EndCaptureFails
  BY <1>1, <1>4 DEF EndCaptureFails
<1>5. CASE LoadTrace
  BY <1>5 DEF LoadTrace, ViewsInv
<1>6. CASE CloseTrace
  BY <1>6 DEF CloseTrace, NoViews, ViewsInv
<1>7. ASSUME NEW newFile, NEW newInfo, symbolsResolved(newFile, newInfo) PROVE ViewsInv'
  BY <1>7 DEF symbolsResolved, ViewsInv
<1>8. ASSUME NEW known, NEW junk, Resolve(known, junk) PROVE ViewsInv'
  BY <1>7, <1>8 DEF Resolve
<1>9. CASE ResolveFails
  BY <1>7, <1>9 DEF ResolveFails
<1>10. ASSUME NEW known, NEW junk, KilledWhileResolving(known, junk) PROVE ViewsInv'
  BY <1>10 DEF KilledWhileResolving, NoViews, ViewsInv
<1>11. CASE OpenFlatProfile
  BY <1>11 DEF OpenFlatProfile, ViewsInv
<1>12. CASE CloseFlatProfile
  BY <1>12 DEF CloseFlatProfile, ViewsInv
<1>13. ASSUME NEW root, OpenTree(root) PROVE ViewsInv'
  BY <1>13 DEF OpenTree, ViewsInv
<1>14. CASE CloseTree
  BY <1>14 DEF CloseTree, ViewsInv
<1>15. ASSUME NEW symbol, OpenAnnotation(symbol) PROVE ViewsInv'
  BY <1>15 DEF OpenAnnotation, ViewsInv
<1>16. CASE CloseAnnotation
  BY <1>16 DEF CloseAnnotation, ViewsInv
<1>17. CASE UNCHANGED vars
  BY <1>17 DEF vars, viewVars, ViewsInv
<1> QED
  BY <1>2, <1>3, <1>4, <1>5, <1>6, <1>8, <1>9, <1>10, <1>11, <1>12, <1>13, <1>14, <1>15, <1>16, <1>17 DEF Next

\* A step leaves the rows as they are, takes them away, or makes them.
FlatIs(c, stale) == flat' = [rows |-> FlatRows(file, c), info |-> info, stale |-> stale]

LEMMA StepsOfFlat ==
  ASSUME ViewsInv, [Next]_vars
  PROVE  \/ flat' = NoView
         \/ UNCHANGED <<flat, fileVars>>
         \/ phase = "open" /\ UNCHANGED fileVars /\ (FlatIs(<< >>, FALSE) \/ FlatIs(cache, cacheInfo # info))
<1> DEFINE Goal == \/ flat' = NoView
                   \/ UNCHANGED <<flat, fileVars>>
                   \/ /\ phase = "open" /\ UNCHANGED fileVars
                      /\ FlatIs(<< >>, FALSE) \/ FlatIs(cache, cacheInfo # info)
<1> SUFFICES Goal
  OBVIOUS
<1>1. ASSUME UNCHANGED viewVars, phase # "open" PROVE Goal
  BY <1>1 DEF ViewsInv, viewVars
<1>2. ASSUME NEW s, Record(s) PROVE Goal
  BY <1>1, <1>2 DEF Record
<1>3. ASSUME NEW list, NEW order, EndCapture(list, order) PROVE Goal
  BY <1>1, <1>3 DEF EndCapture
<1>4. CASE EndCaptureFails
  BY <1>1, <1>4 DEF EndCaptureFails
<1>5. CASE LoadTrace
  BY <1>1, <1>5 DEF LoadTrace
<1>6. CASE CloseTrace
  BY <1>6 DEF CloseTrace, NoViews
<1>7. ASSUME NEW newFile, NEW newInfo, symbolsResolved(newFile, newInfo) PROVE Goal
  BY <1>7 DEF symbolsResolved, FlatIs
<1>8. ASSUME NEW known, NEW junk, Resolve(known, junk) PROVE Goal
  BY <1>7, <1>8 DEF Resolve
<1>9. CASE ResolveFails
  BY <1>7, <1>9 DEF ResolveFails
<1>10. ASSUME NEW known, NEW junk, KilledWhileResolving(known, junk) PROVE Goal
  BY <1>10 DEF KilledWhileResolving, NoViews
<1>11. CASE OpenFlatProfile
  BY <1>11 DEF OpenFlatProfile, FlatIs
<1>12. CASE CloseFlatProfile
  BY <1>12 DEF CloseFlatProfile
<1>13. ASSUME NEW root, OpenTree(root) PROVE Goal
  BY <1>13 DEF OpenTree
<1>14. CASE CloseTree
  BY <1>14 DEF CloseTree
<1>15. ASSUME NEW symbol, OpenAnnotation(symbol) PROVE Goal
  BY <1>15 DEF OpenAnnotation
<1>16. CASE CloseAnnotation
  BY <1>16 DEF CloseAnnotation
<1>17. CASE UNCHANGED vars
  BY <1>17 DEF vars, viewVars
<1> QED
  BY <1>2, <1>3, <1>4, <1>5, <1>6, <1>8, <1>9, <1>10, <1>11, <1>12, <1>13, <1>14, <1>15, <1>16, <1>17 DEF Next

\* The name of an address, with what it depends on as parameters
TrueNameOf(p, modules, rip, i) ==
  IF p = "linux"
  THEN LinuxName(rip, modules[CHOOSE m \in {n \in DOMAIN modules : InSegment(rip, modules[n])} : TRUE].m_Filename, i)
  ELSE IF {n \in DOMAIN modules : InSegment(rip, modules[n])} # {} /\ i[rip].addr2line # Unknown
       THEN i[rip].addr2line
       ELSE AddressName(rip)

\* The names and the sums are those of what was saved.
LEMMA SameTruth ==
  ASSUME UNCHANGED fileVars
  PROVE  /\ Happened' = Happened
         /\ \A rip, i : /\ HasTrueName(rip, i)' = HasTrueName(rip, i) /\ TrueName(rip, i)' = TrueName(rip, i)
                        /\ TrueFile(rip, i)' = TrueFile(rip, i)
                        /\ Lined(rip, i)' = Lined(rip, i) /\ ShownName(rip, i)' = ShownName(rip, i)
         /\ \A n, i : SamplesOf(n, i)' = SamplesOf(n, i)
         /\ \A S : SumOf(S)' = SumOf(S)
<1>1. UNCHANGED <<platform, recorded, saved>>
  BY DEF fileVars
<1>2. Happened' = Happened
  BY <1>1 DEF Happened
<1>3. \A rip : Holders(rip)' = Holders(rip)
  BY <1>1 DEF Holders
<1>4. \A rip, i : HasTrueName(rip, i)' = HasTrueName(rip, i) /\ TrueName(rip, i)' = TrueName(rip, i)
  <2> TAKE rip, i
  <2>1. TrueName(rip, i) = TrueNameOf(platform, saved.modules, rip, i)
    BY DEF TrueName, TrueNameOf, Holders
  <2>2. TrueName(rip, i)' = TrueNameOf(platform', saved'.modules, rip, i)
    BY DEF TrueName, TrueNameOf, Holders
  <2>3. HasTrueName(rip, i)' = HasTrueName(rip, i)
    BY <1>1, <1>3 DEF HasTrueName
  <2> QED
    BY <1>1, <2>1, <2>2, <2>3
<1>5. \A rip, i : Lined(rip, i)' = Lined(rip, i) /\ ShownName(rip, i)' = ShownName(rip, i)
  BY <1>1, <1>3, <1>4 DEF Lined, ShownName
<1>6. \A rip, i : TrueFile(rip, i)' = TrueFile(rip, i)
  BY <1>5 DEF TrueFile
<1>7. \A n, i : SamplesOf(n, i)' = SamplesOf(n, i)
  BY <1>2, <1>4 DEF SamplesOf
<1>8. \A S : SumOf(S)' = SumOf(S)
  <2> TAKE S
  <2>1. SumOf(S)' = Sum(recorded', S)
    BY DEF SumOf, FoldSet, MapThenFoldSet, Sum, Added
  <2> QED
    BY <1>1, <2>1, SumOfIsSum
<1> QED
  BY <1>2, <1>4, <1>5, <1>6, <1>7, <1>8

FlatInv == (flat # NoView /\ ~flat.stale) => flat.rows = TrueRows(flat.info)

LEMMA FlatInvStep == ProfileInv /\ CountedInv /\ ViewsInv /\ FlatInv /\ [Next]_vars => FlatInv'
<1> SUFFICES ASSUME ProfileInv, CountedInv, ViewsInv, FlatInv, [Next]_vars, flat' # NoView, ~flat'.stale
             PROVE  flat'.rows = TrueRows(flat.info)'
  BY DEF FlatInv
<1>1. ASSUME UNCHANGED fileVars
      PROVE  \A i : TrueRows(i)' = TrueRows(i)
  <2> TAKE i
  <2>1. TrueNames(i)' = TrueNames(i)
    BY <1>1, SameTruth DEF TrueNames
  <2> QED
    BY <1>1, <2>1, SameTruth DEF TrueRows
<1>2. CASE UNCHANGED <<flat, fileVars>>
  BY <1>1, <1>2 DEF FlatInv
<1>3. ASSUME phase = "open", UNCHANGED fileVars, NEW c, NEW stale, FlatIs(c, stale), ~stale => NamesHold(c)
      PROVE  flat'.rows = TrueRows(flat.info)'
  <2>1. flat'.rows = FlatRows(file, c) /\ flat'.info = info /\ ~stale
    BY <1>3 DEF FlatIs
  <2>2. FlatRows(file, c) = TrueRows(info)
    BY <1>3, <2>1, RowsAreTotals DEF ProfileInv
  <2> QED
    BY <1>1, <1>3, <2>1, <2>2
<1>4. phase = "open" => NamesHold(<< >>) /\ (cacheInfo = info => NamesHold(cache))
  BY FreshNamesHold
<1> QED
  BY <1>2, <1>3, <1>4, StepsOfFlat

\* Sequences as they go down a tree.
LEMMA FrontAndLast ==
  ASSUME NEW S, NEW p \in Seq(S), p # << >>
  PROVE  /\ Len(p) \in Nat \ {0} /\ Front(p) \in Seq(S) /\ Len(Front(p)) = Len(p) - 1
         /\ Last(p) \in S /\ p = Append(Front(p), Last(p))
<1>1. PICK n \in Nat \ {0} : n = Len(p) /\ DOMAIN p = 1 .. n
  <2>1. Len(p) \in Nat /\ DOMAIN p = 1 .. Len(p) /\ Len(p) # 0
    BY EmptySeq, LenProperties
  <2> QED
    BY <2>1
<1>2. \A i \in 1 .. n - 1 : p[i] \in S
  BY <1>1
<1>3. n - 1 \in Int /\ 1 \in Int
  BY <1>1
<1>4. PICK f \in Seq(S) : /\ f = SubSeq(p, 1, n - 1) /\ Len(f) = n - 1
                          /\ \A i \in 1 .. n - 1 : f[i] = p[i]
  <2>1. /\ SubSeq(p, 1, n - 1) \in Seq(S)
        /\ Len(SubSeq(p, 1, n - 1)) = IF 1 <= n - 1 THEN (n - 1) - 1 + 1 ELSE 0
        /\ \A i \in 1 .. (n - 1) - 1 + 1 : SubSeq(p, 1, n - 1)[i] = p[1 + i - 1]
    BY <1>2, <1>3, SubSeqProperties
  <2>2. (n - 1) - 1 + 1 = n - 1 /\ \A i \in 1 .. n - 1 : 1 + i - 1 = i
    BY <1>1
  <2>3. Len(SubSeq(p, 1, n - 1)) = n - 1
    BY <1>1, <2>1
  <2> QED
    BY <2>1, <2>2, <2>3
<1>5. f = Front(p) /\ p[n] = Last(p) /\ p[n] \in S
  BY <1>1, <1>4 DEF Front, Last
<1>6. p = Append(f, p[n])
  <2>1. PICK a \in Seq(S) : /\ a = Append(f, p[n]) /\ Len(a) = n
                            /\ \A i \in 1 .. n - 1 : a[i] = f[i]
                            /\ a[n] = p[n]
    BY <1>1, <1>4, <1>5, AppendProperties
  <2>2. \A i \in 1 .. n : a[i] = p[i]
    <3> TAKE i \in 1 .. n
    <3>1. i \in 1 .. n - 1 \/ i = n
      BY <1>1
    <3> QED
      BY <1>4, <2>1, <3>1
  <2>3. p = a
    BY <1>1, <2>1, <2>2, SeqEqual
  <2> QED
    BY <2>1, <2>3
<1>7. Front(p) \in Seq(S) /\ Len(Front(p)) = n - 1 /\ Last(p) \in S
  BY <1>4, <1>5
<1>8. p = Append(Front(p), Last(p))
  BY <1>5, <1>6
<1> QED
  BY <1>1, <1>7, <1>8

LEMMA AppendedBack ==
  ASSUME NEW S, NEW p \in Seq(S), NEW x \in S
  PROVE  /\ Append(p, x) \in Seq(S) /\ Append(p, x) # << >>
         /\ Front(Append(p, x)) = p /\ Last(Append(p, x)) = x
<1>0. PICK n \in Nat : n = Len(p)
  BY LenProperties
<1>1. PICK a \in Seq(S) : /\ a = Append(p, x) /\ Len(a) = n + 1 /\ a # << >>
                         /\ \A i \in 1 .. n : a[i] = p[i]
                         /\ a[n + 1] = x
  <2>1. /\ Append(p, x) \in Seq(S) /\ Append(p, x) # << >> /\ Len(Append(p, x)) = Len(p) + 1
        /\ \A i \in 1 .. Len(p) : Append(p, x)[i] = p[i]
        /\ Append(p, x)[Len(p) + 1] = x
    BY AppendProperties
  <2> QED
    BY <1>0, <2>1
<1>2. /\ Front(a) \in Seq(S) /\ Len(Front(a)) = n /\ Last(a) = x /\ a = Append(Front(a), x)
  <2>1. Last(a) = x
    BY <1>1 DEF Last
  <2>2. Front(a) \in Seq(S) /\ Len(Front(a)) = Len(a) - 1 /\ a = Append(Front(a), Last(a))
    BY <1>1, FrontAndLast
  <2> QED
    BY <1>1, <2>1, <2>2
<1>3. \A i \in 1 .. n : Front(a)[i] = p[i]
  <2>1. PICK f \in Seq(S) : f = Front(a) /\ Len(f) = n /\ a = Append(f, x)
    BY <1>2
  <2>2. \A i \in 1 .. n : a[i] = f[i]
    BY <2>1, AppendProperties
  <2> QED
    BY <1>1, <2>1, <2>2
<1>4. Front(a) = p
  BY <1>0, <1>2, <1>3, SeqEqual
<1> QED
  BY <1>1, <1>2, <1>4

\* s has the elements of p first.
StartsAs(s, p) == Len(p) <= Len(s) /\ \A i \in 1 .. Len(p) : p[i] = s[i]

LEMMA PrefixElements ==
  ASSUME NEW S, NEW p \in Seq(S), NEW s \in Seq(S)
  PROVE  IsPrefix(p, s) <=> StartsAs(s, p)
<1> USE DEF StartsAs
<1>1. PICK n \in Nat, m \in Nat : n = Len(p) /\ m = Len(s)
  BY LenProperties
<1>2. PICK q \in Seq(S) : q = SubSeq(p, 1, n) /\ Len(q) = n /\ \A i \in 1 .. n : q[i] = p[i]
  <2>1. n \in 0 .. Len(p)
    BY <1>1
  <2> QED
    <3>1. /\ SubSeq(p, 1, n) \in Seq(S) /\ Len(SubSeq(p, 1, n)) = n
          /\ \A i \in 1 .. n : SubSeq(p, 1, n)[i] = p[i]
      BY <2>1, FirstElements
    <3> QED
      BY <3>1
<1>3. CASE n <= m
  <2>1. PICK r \in Seq(S) : r = SubSeq(s, 1, n) /\ Len(r) = n /\ \A i \in 1 .. n : r[i] = s[i]
    <3>1. n \in 0 .. Len(s)
      BY <1>1, <1>3
    <3>2. /\ SubSeq(s, 1, n) \in Seq(S) /\ Len(SubSeq(s, 1, n)) = n
          /\ \A i \in 1 .. n : SubSeq(s, 1, n)[i] = s[i]
      BY <3>1, FirstElements
    <3> QED
      BY <3>2
  <2>2. IsPrefix(p, s) <=> q = r
    BY <1>1, <1>2, <1>3, <2>1 DEF IsPrefix
  <2>3. q = r <=> \A i \in 1 .. n : p[i] = s[i]
    <3>1. ASSUME \A i \in 1 .. n : p[i] = s[i] PROVE q = r
      BY <1>2, <2>1, <3>1, SeqEqual
    <3> QED
      BY <1>2, <2>1, <3>1
  <2> QED
    BY <1>1, <1>3, <2>2, <2>3
<1>4. CASE ~(n <= m)
  BY <1>1, <1>4 DEF IsPrefix
<1> QED
  BY <1>3, <1>4

\* q is a nonempty beginning of s.
Begins(s, q) == \E d \in DOMAIN s : q = SubSeq(s, 1, d)

LEMMA LongerPrefix ==
  ASSUME NEW S, NEW p \in Seq(S), NEW s \in Seq(S), NEW x \in S
  PROVE  Begins(s, Append(p, x)) <=> IsPrefix(p, s) /\ Len(s) > Len(p) /\ s[Len(p) + 1] = x
<1>1. PICK n \in Nat, m \in Nat : n = Len(p) /\ m = Len(s) /\ DOMAIN s = 1 .. m
  BY LenProperties
<1>2. PICK a \in Seq(S) : /\ a = Append(p, x) /\ Len(a) = n + 1
                          /\ \A i \in 1 .. n : a[i] = p[i]
                          /\ a[n + 1] = x
  BY <1>1, AppendProperties
<1>3. IsPrefix(p, s) <=> n <= m /\ \A i \in 1 .. n : p[i] = s[i]
  <2>1. IsPrefix(p, s) <=> StartsAs(s, p)
    BY PrefixElements
  <2> QED
    BY <1>1, <2>1 DEF StartsAs
<1>4. ASSUME NEW d \in DOMAIN s, a = SubSeq(s, 1, d)
      PROVE  n < m /\ s[n + 1] = x /\ \A i \in 1 .. n : p[i] = s[i]
  <2>1. d \in 0 .. Len(s)
    BY <1>1
  <2>2. Len(a) = d /\ \A i \in 1 .. d : a[i] = s[i]
    BY <1>4, <2>1, FirstElements
  <2>3. d = n + 1 /\ n + 1 \in 1 .. d /\ \A i \in 1 .. n : i \in 1 .. d
    BY <1>2, <2>2
  <2> QED
    BY <1>1, <1>2, <2>2, <2>3
<1>5. ASSUME n < m, s[n + 1] = x, \A i \in 1 .. n : p[i] = s[i]
      PROVE  n + 1 \in DOMAIN s /\ a = SubSeq(s, 1, n + 1)
  <2>1. n + 1 \in 0 .. Len(s) /\ n + 1 \in DOMAIN s
    BY <1>1, <1>5
  <2>2. PICK r \in Seq(S) : r = SubSeq(s, 1, n + 1) /\ Len(r) = n + 1 /\ \A i \in 1 .. n + 1 : r[i] = s[i]
    BY <2>1, FirstElements
  <2>3. \A i \in 1 .. n + 1 : a[i] = r[i]
    <3> TAKE i \in 1 .. n + 1
    <3>1. i \in 1 .. n \/ i = n + 1
      OBVIOUS
    <3> QED
      BY <1>2, <1>5, <2>2, <3>1
  <2>4. a = r
    BY <1>2, <2>2, <2>3, SeqEqual
  <2> QED
    BY <2>1, <2>2, <2>4
<1>6. Begins(s, a) <=> n < m /\ s[n + 1] = x /\ \A i \in 1 .. n : p[i] = s[i]
  BY <1>4, <1>5 DEF Begins
<1> QED
  BY <1>1, <1>2, <1>3, <1>6

\* A tree whose nodes are those of B and the root, each named by its path, with
\* its children, each once.
IsPathTree(t, B, S) ==
  /\ B \in SUBSET Seq(S) /\ IsFiniteSet(B) /\ << >> \notin B
  /\ DOMAIN t = B \cup {<< >>}
  /\ \A p \in B : Front(p) \in DOMAIN t
  /\ \A p \in DOMAIN t :
       /\ t[p].m_Children \in Seq(S)
       /\ \A k, l \in DOMAIN t[p].m_Children : t[p].m_Children[k] = t[p].m_Children[l] => k = l
       /\ \A x \in S : Append(p, x) \in B <=> \E k \in DOMAIN t[p].m_Children : t[p].m_Children[k] = x

\* The index of a node
IndexOf(t, p) == IF p = << >> THEN InvalidIndex ELSE [row |-> rowInParentSpace(t, p), node |-> p]

PlaceOf(s, x) == SelectInSeq(s, LAMBDA name : name = x)

LEMMA OnlyPlace ==
  ASSUME NEW S, NEW s \in Seq(S), \A k, l \in DOMAIN s : s[k] = s[l] => k = l,
         NEW k \in DOMAIN s, NEW x, x = s[k]
  PROVE  PlaceOf(s, x) = k
<1>1. PICK I : I = {i \in 1 .. Len(s) : s[i] = x}
  OBVIOUS
<1>2. I = {k} /\ k \in Nat
  BY <1>1
<1>3. PlaceOf(s, x) = IF I # {} THEN Min(I) ELSE 0
  BY <1>1 DEF PlaceOf, SelectInSeq
<1>4. Min(I) = k
  BY <1>2 DEF Min
<1> QED
  BY <1>2, <1>3, <1>4

LEMMA NodeIsPath ==
  ASSUME NEW t, NEW B, NEW S, IsPathTree(t, B, S), NEW q \in DOMAIN t
  PROVE  q \in Seq(S) /\ Len(q) \in Nat
<1>1. << >> \in Seq(S)
  BY EmptySeq
<1>2. q \in B \cup {<< >>} /\ B \in SUBSET Seq(S)
  BY DEF IsPathTree
<1>3. q \in Seq(S)
  BY <1>1, <1>2
<1> QED
  BY <1>3, LenProperties

LEMMA RowsOfIndex ==
  ASSUME NEW t, NEW B, NEW S, IsPathTree(t, B, S), NEW q \in DOMAIN t
  PROVE  RowsUnder(t, IndexOf(t, q)) = {IndexOf(t, p) : p \in {r \in B : Front(r) = q}}
<1>1. q \in Seq(S)
  BY NodeIsPath
<1>2. PICK s \in Seq(S) : s = t[q].m_Children
  BY DEF IsPathTree
<1>3. PICK n \in Nat : n = Len(s) /\ DOMAIN s = 1 .. n
  BY LenProperties
<1>4. /\ \A k, l \in DOMAIN s : s[k] = s[l] => k = l
      /\ \A x \in S : Append(q, x) \in B <=> \E k \in DOMAIN s : s[k] = x
  BY <1>2 DEF IsPathTree
<1>5. IndexOf(t, q).node = q
  BY DEF IndexOf, InvalidIndex
<1>6. rowCount(t, IndexOf(t, q)) = n
  BY <1>2, <1>3, <1>5 DEF rowCount
<1>7. ASSUME NEW k \in 1 .. n
      PROVE  /\ Append(q, s[k]) \in B /\ Front(Append(q, s[k])) = q
             /\ index(t, k - 1, IndexOf(t, q)) = IndexOf(t, Append(q, s[k]))
  <2>1. PICK x \in S : x = s[k]
    BY <1>3
  <2>2. Append(q, x) \in B
    BY <1>3, <1>4, <2>1
  <2>3. PICK p \in Seq(S) : p = Append(q, x) /\ p # << >> /\ Front(p) = q /\ Last(p) = x
    BY <1>1, AppendedBack
  <2>4. PlaceOf(s, x) = k
    BY <1>3, <1>4, <2>1, OnlyPlace
  <2>5. rowInParentSpace(t, p) = PlaceOf(t[Front(p)].m_Children, Last(p)) - 1
    BY <2>3 DEF rowInParentSpace, PlaceOf
  <2>6. rowInParentSpace(t, p) = k - 1
    BY <1>2, <2>3, <2>4, <2>5
  <2>7. (k - 1) + 1 = k /\ k \in DOMAIN s
    BY <1>3
  <2>8. index(t, k - 1, IndexOf(t, q)) = [row |-> k - 1, node |-> p]
    BY <1>2, <1>5, <2>1, <2>3, <2>7 DEF index
  <2> QED
    BY <2>1, <2>2, <2>3, <2>6, <2>8 DEF IndexOf
<1>8. ASSUME NEW i \in RowsUnder(t, IndexOf(t, q))
      PROVE  \E p \in B : Front(p) = q /\ i = IndexOf(t, p)
  <2>1. PICK row \in 0 .. n - 1 : i = index(t, row, IndexOf(t, q))
    BY <1>6 DEF RowsUnder
  <2>2. PICK k \in 1 .. n : row = k - 1
    <3>1. row + 1 \in 1 .. n /\ row = (row + 1) - 1
      OBVIOUS
    <3> QED
      BY <3>1
  <2> QED
    BY <1>7, <2>1, <2>2
<1>9. ASSUME NEW p \in B, Front(p) = q
      PROVE  IndexOf(t, p) \in RowsUnder(t, IndexOf(t, q))
  <2>1. p \in Seq(S) /\ p # << >>
    BY DEF IsPathTree
  <2>2. PICK x \in S : p = Append(q, x)
    BY <1>9, <2>1, FrontAndLast
  <2>3. PICK k \in 1 .. n : s[k] = x
    BY <1>3, <1>4, <2>2
  <2>4. index(t, k - 1, IndexOf(t, q)) = IndexOf(t, p)
    BY <1>7, <2>2, <2>3
  <2>5. k - 1 \in 0 .. n - 1
    OBVIOUS
  <2> QED
    BY <1>6, <2>4, <2>5 DEF RowsUnder
<1> QED
  BY <1>8, <1>9

\* The nodes at a depth
LevelOf(t, d) == {IndexOf(t, p) : p \in {q \in DOMAIN t : Len(q) = d}}

LEMMA NextLevel ==
  ASSUME NEW t, NEW B, NEW S, IsPathTree(t, B, S), NEW d \in Nat \ {0}
  PROVE  UNION {RowsUnder(t, i) : i \in LevelOf(t, d - 1)} = LevelOf(t, d)
<1>2. ASSUME NEW p \in B
      PROVE  Front(p) \in DOMAIN t /\ Len(Front(p)) = Len(p) - 1 /\ p \in DOMAIN t /\ Len(p) \in Nat
  BY NodeIsPath, FrontAndLast DEF IsPathTree
<1>3. ASSUME NEW q \in DOMAIN t, Len(q) = d - 1, NEW i \in RowsUnder(t, IndexOf(t, q))
      PROVE  i \in LevelOf(t, d)
  <2>1. PICK p \in B : Front(p) = q /\ i = IndexOf(t, p)
    BY RowsOfIndex
  <2>2. Len(p) = d
    BY <1>2, <1>3, <2>1
  <2> QED
    BY <1>2, <2>1, <2>2 DEF LevelOf
<1>4. ASSUME NEW p \in DOMAIN t, Len(p) = d
      PROVE  \E q \in DOMAIN t : Len(q) = d - 1 /\ IndexOf(t, p) \in RowsUnder(t, IndexOf(t, q))
  <2>1. p \in B
    <3>1. p # << >>
      BY <1>4, EmptySeq
    <3> QED
      BY <3>1 DEF IsPathTree
  <2>2. PICK q \in DOMAIN t : q = Front(p) /\ Len(q) = d - 1
    BY <1>2, <1>4, <2>1
  <2>3. IndexOf(t, p) \in RowsUnder(t, IndexOf(t, q))
    BY <2>1, <2>2, RowsOfIndex
  <2> QED
    BY <2>2, <2>3
<1>5. LevelOf(t, d) \subseteq UNION {RowsUnder(t, i) : i \in LevelOf(t, d - 1)}
  BY <1>4 DEF LevelOf
<1>6. UNION {RowsUnder(t, i) : i \in LevelOf(t, d - 1)} \subseteq LevelOf(t, d)
  <2> SUFFICES ASSUME NEW j \in LevelOf(t, d - 1), NEW i \in RowsUnder(t, j) PROVE i \in LevelOf(t, d)
    OBVIOUS
  <2>1. PICK q \in DOMAIN t : Len(q) = d - 1 /\ j = IndexOf(t, q)
    BY DEF LevelOf
  <2> QED
    BY <1>3, <2>1
<1> QED
  BY <1>5, <1>6

\* Walked, with the depth as a parameter
LevelStep(t, f, d) == IF d = 0 THEN {InvalidIndex} ELSE UNION {RowsUnder(t, i) : i \in f[d - 1]}

WalkedTo(t, depth) ==
  LET level[d \in 0 .. depth] ==
        IF d = 0 THEN {InvalidIndex} ELSE UNION {RowsUnder(t, i) : i \in level[d - 1]}
  IN UNION {level[d] : d \in 1 .. depth}

LEMMA WalkedIsWalkedTo ==
  ASSUME NEW t
  PROVE  Walked(t) = WalkedTo(t, Max({Len(p) : p \in DOMAIN t}))
BY DEF Walked, WalkedTo

LEMMA WalkedLevels ==
  ASSUME NEW t, NEW B, NEW S, IsPathTree(t, B, S), NEW n \in Nat
  PROVE  WalkedTo(t, n) = UNION {LevelOf(t, d) : d \in 1 .. n}
<1> DEFINE f == CHOOSE f : f = [d \in 0 .. n |-> LevelStep(t, f, d)]
           g == [d \in 0 .. n |-> LevelOf(t, d)]
<1>1. LevelOf(t, 0) = {InvalidIndex}
  <2>1. << >> \in DOMAIN t /\ Len(<< >>) = 0
    BY DEF IsPathTree
  <2>2. \A q \in DOMAIN t : Len(q) = 0 => q = << >>
    BY NodeIsPath, EmptySeq
  <2> QED
    BY <2>1, <2>2 DEF LevelOf, IndexOf
<1>2. ASSUME NEW d \in 0 .. n, d # 0
      PROVE  LevelOf(t, d) = UNION {RowsUnder(t, i) : i \in LevelOf(t, d - 1)} /\ d - 1 \in 0 .. n
  BY <1>2, NextLevel
<1>3. \A d \in 0 .. n : g[d] = LevelStep(t, g, d)
  <2> TAKE d \in 0 .. n
  <2>1. CASE d = 0
    BY <1>1, <2>1 DEF LevelStep
  <2>2. CASE d # 0
    <3>1. g[d] = LevelOf(t, d) /\ g[d - 1] = LevelOf(t, d - 1)
      BY <1>2, <2>2
    <3> HIDE DEF g
    <3> QED
      BY <1>2, <2>2, <3>1 DEF LevelStep
  <2> QED
    BY <2>1, <2>2
<1>4. g = [d \in 0 .. n |-> LevelStep(t, g, d)]
  BY <1>3
<1>5. \E h : h = [d \in 0 .. n |-> LevelStep(t, h, d)]
  BY <1>4
<1>6. f = [d \in 0 .. n |-> LevelStep(t, f, d)]
  BY <1>5
<1>7. WalkedTo(t, n) = UNION {f[d] : d \in 1 .. n}
  BY DEF WalkedTo, LevelStep
<1> HIDE DEF f, g
<1>8. \A d \in 0 .. n : f[d] = LevelStep(t, f, d)
  BY <1>6
<1> DEFINE P == {d \in Nat : d <= n => f[d] = LevelOf(t, d)}
<1>9. 0 \in P
  <2>1. 0 \in 0 .. n
    OBVIOUS
  <2>2. f[0] = LevelOf(t, 0)
    BY <1>1, <1>8, <2>1 DEF LevelStep
  <2> QED
    BY <2>2
<1>10. ASSUME NEW d \in Nat, d \in P
       PROVE  d + 1 \in P
  <2> SUFFICES ASSUME d + 1 <= n PROVE f[d + 1] = LevelOf(t, d + 1)
    OBVIOUS
  <2>1. PICK e \in 0 .. n : e = d + 1 /\ e # 0 /\ e - 1 = d /\ d <= n
    OBVIOUS
  <2>2. f[e - 1] = LevelOf(t, e - 1)
    BY <1>10, <2>1
  <2>3. f[e] = UNION {RowsUnder(t, i) : i \in f[e - 1]}
    BY <1>8, <2>1 DEF LevelStep
  <2> QED
    BY <1>2, <2>1, <2>2, <2>3
<1> HIDE DEF P
<1>11. \A d \in Nat : d \in P
  BY <1>9, <1>10, Induction
<1>12. \A d \in 1 .. n : f[d] = LevelOf(t, d)
  BY <1>11 DEF P
<1> QED
  BY <1>7, <1>12

\* A view that goes down finds every node.
LEMMA WalkedIs ==
  ASSUME NEW t, NEW B, NEW S, IsPathTree(t, B, S)
  PROVE  Walked(t) = {IndexOf(t, p) : p \in B}
<1>1. PICK T : T = {Len(p) : p \in DOMAIN t}
  OBVIOUS
<1>2. T \in SUBSET Nat /\ T # {} /\ IsFiniteSet(T)
  <2>1. T \in SUBSET Nat
    BY <1>1, NodeIsPath
  <2>2. << >> \in DOMAIN t
    BY DEF IsPathTree
  <2>3. IsFiniteSet(DOMAIN t)
    BY FS_AddElement DEF IsPathTree
  <2>4. PICK f : f = [p \in DOMAIN t |-> Len(p)]
    OBVIOUS
  <2>5. f \in Surjection(DOMAIN t, T)
    BY <1>1, <2>4 DEF Surjection
  <2> QED
    BY <1>1, <2>1, <2>2, <2>3, <2>5, FS_Surjection
<1>3. T \in SUBSET Int
  BY <1>2
<1>4. PICK n \in Nat : n = Max(T) /\ \A y \in T : y <= n
  BY <1>2, <1>3, EndsOfSet
<1>5. Walked(t) = UNION {LevelOf(t, d) : d \in 1 .. n}
  BY <1>1, <1>4, WalkedIsWalkedTo, WalkedLevels
<1>6. ASSUME NEW p \in B
      PROVE  p \in DOMAIN t /\ Len(p) \in 1 .. n
  <2>1. p \in DOMAIN t /\ p \in Seq(S) /\ p # << >>
    BY DEF IsPathTree
  <2>2. Len(p) \in Nat \ {0} /\ Len(p) \in T
    BY <1>1, <2>1, EmptySeq
  <2> QED
    BY <1>4, <2>1, <2>2
<1>7. ASSUME NEW d \in 1 .. n, NEW p \in DOMAIN t, Len(p) = d
      PROVE  p \in B
  <2>1. p # << >>
    BY <1>7, EmptySeq
  <2> QED
    BY <2>1 DEF IsPathTree
<1> QED
  BY <1>5, <1>6, <1>7 DEF LevelOf

\* Every node once, in a row of its own, under the index of its parent.
LEMMA WalkIsRight ==
  ASSUME NEW t, NEW B, NEW S, IsPathTree(t, B, S)
  PROVE  /\ {i.node : i \in Walked(t)} = B
         /\ Cardinality(Walked(t)) = Cardinality(B)
         /\ \A i \in Walked(t) :
              /\ parentIndex(t, i) \in Walked(t) \cup {InvalidIndex}
              /\ i \in RowsUnder(t, parentIndex(t, i))
<1>1. PICK W : W = Walked(t) /\ W = {IndexOf(t, p) : p \in B}
  BY WalkedIs
<1>2. ASSUME NEW p \in B
      PROVE  IndexOf(t, p).node = p /\ p # << >> /\ IndexOf(t, p) # InvalidIndex
             /\ IndexOf(t, p) = [row |-> rowInParentSpace(t, p), node |-> p]
  BY DEF IsPathTree, IndexOf, InvalidIndex
<1>3. {i.node : i \in W} = B
  BY <1>1, <1>2
<1>4. Cardinality(W) = Cardinality(B)
  <2>1. PICK f : f = [p \in B |-> IndexOf(t, p)]
    OBVIOUS
  <2>2. f \in Bijection(B, W)
    BY <1>1, <1>2, <2>1 DEF Bijection, Injection, Surjection, IsInjective
  <2>3. ExistsBijection(B, W)
    BY <2>2 DEF ExistsBijection
  <2> QED
    BY <2>3, FS_Bijection DEF IsPathTree
<1>5. ASSUME NEW p \in B
      PROVE  /\ parentIndex(t, IndexOf(t, p)) \in W \cup {InvalidIndex}
             /\ IndexOf(t, p) \in RowsUnder(t, parentIndex(t, IndexOf(t, p)))
  <2>1. PICK q \in DOMAIN t : q = Front(p)
    BY DEF IsPathTree
  <2>2. parentIndex(t, IndexOf(t, p)) = IndexOf(t, q)
    BY <1>2, <2>1 DEF parentIndex, IndexOf
  <2>3. IndexOf(t, p) \in RowsUnder(t, IndexOf(t, q))
    BY <2>1, RowsOfIndex
  <2>4. IndexOf(t, q) \in W \cup {InvalidIndex}
    BY <1>1 DEF IsPathTree, IndexOf
  <2> QED
    BY <2>2, <2>3, <2>4
<1>6. \A i \in W : /\ parentIndex(t, i) \in W \cup {InvalidIndex}
                   /\ i \in RowsUnder(t, parentIndex(t, i))
  BY <1>1, <1>5
<1> QED
  BY <1>1, <1>3, <1>4, <1>6

\* The m-th names of the paths, each once
NamesAt(paths, m) == Distinct([k \in DOMAIN paths |-> paths[k][m]])

\* The names below p in the prefixes B, each once
HasChildren(kids, B, p, S) ==
  /\ kids \in Seq(S)
  /\ \A k, l \in DOMAIN kids : kids[k] = kids[l] => k = l
  /\ \A x \in S : Append(p, x) \in B <=> \E k \in DOMAIN kids : kids[k] = x

\* The names below p in the paths
LEMMA ChildrenOfPaths ==
  ASSUME NEW S, NEW n \in Nat, NEW path \in [1 .. n -> Seq(S)], NEW p \in Seq(S),
         NEW deeper, deeper = Deeper(path, 1 .. n, p),
         NEW kids, kids = NamesAt(deeper, Len(p) + 1)
  PROVE  HasChildren(kids, PathsOn(path, 1 .. n), p, S)
<1>1. PICK T : T = Seq(S)
  OBVIOUS
<1>2. path \in Seq(T)
  BY <1>1
<1>3. PICK m \in Nat : m = Len(p)
  BY LenProperties
<1>4. PICK I \in SUBSET (1 .. n) : I = {i \in 1 .. n : IsPrefix(p, path[i]) /\ Len(path[i]) > m}
  OBVIOUS
<1>5. deeper = Selected(path, I)
  <2>1. {i \in Through(path, 1 .. n, p) : Len(path[i]) > Len(p)} = I
    BY <1>3, <1>4 DEF Through
  <2> QED
    BY <2>1 DEF Deeper
<1>6. /\ deeper \in Seq(T)
      /\ \A k \in DOMAIN deeper : \E i \in I : deeper[k] = path[i]
      /\ \A i \in I : \E k \in DOMAIN deeper : deeper[k] = path[i]
  <2>1. I \in SUBSET DOMAIN path
    OBVIOUS
  <2>2. /\ Selected(path, I) \in Seq(T)
        /\ \A k \in DOMAIN Selected(path, I) : Nth(I, k) \in I /\ Selected(path, I)[k] = path[Nth(I, k)]
        /\ \A i \in I : \E k \in DOMAIN Selected(path, I) : Selected(path, I)[k] = path[i]
    BY <1>2, <2>1, SelectedElements
  <2> QED
    BY <1>5, <2>2
<1>7. PICK c \in Nat : DOMAIN deeper = 1 .. c
  BY <1>6, LenProperties
<1>8. PICK names : names = [k \in 1 .. c |-> deeper[k][m + 1]]
  OBVIOUS
<1>9. \A i \in I : path[i][m + 1] \in S
  <2> TAKE i \in I
  <2>1. path[i] \in Seq(S) /\ Len(path[i]) > m
    BY <1>4
  <2>2. Len(path[i]) \in Nat /\ DOMAIN path[i] = 1 .. Len(path[i])
    BY <2>1, LenProperties
  <2>3. m + 1 \in DOMAIN path[i]
    BY <2>1, <2>2
  <2> QED
    BY <2>1, <2>3, LenProperties
<1>10. names \in Seq(S) /\ DOMAIN names = 1 .. c
  <2>1. \A k \in 1 .. c : deeper[k][m + 1] \in S
    BY <1>6, <1>7, <1>9
  <2> QED
    BY <1>8, <2>1
<1>11. kids = Distinct(names)
  BY <1>3, <1>7, <1>8 DEF NamesAt
<1>12. kids \in Seq(S) /\ HasEachOnce(kids, names)
  BY <1>10, <1>11, DistinctMembers
<1>13. ASSUME NEW x \in S
       PROVE  Append(p, x) \in PathsOn(path, 1 .. n) <=> \E i \in I : path[i][m + 1] = x
  <2>1. PICK a : a = Append(p, x)
    OBVIOUS
  <2>2. \A i \in 1 .. n : Begins(path[i], a) <=> i \in I /\ path[i][m + 1] = x
    <3> TAKE i \in 1 .. n
    <3>1. PICK s \in Seq(S) : s = path[i]
      OBVIOUS
    <3>2. Begins(s, Append(p, x)) <=> IsPrefix(p, s) /\ Len(s) > Len(p) /\ s[Len(p) + 1] = x
      BY LongerPrefix
    <3>3. i \in I <=> IsPrefix(p, s) /\ Len(s) > m
      BY <1>4, <3>1
    <3> QED
      BY <1>3, <2>1, <3>1, <3>2, <3>3
  <2>3. a \in PathsOn(path, 1 .. n) <=> \E i \in 1 .. n : Begins(path[i], a)
    BY DEF PathsOn, Begins
  <2> QED
    BY <2>1, <2>2, <2>3
<1>14. ASSUME NEW x
       PROVE  (\E i \in I : path[i][m + 1] = x) <=> (\E k \in DOMAIN kids : kids[k] = x)
  <2>1. (\E i \in I : path[i][m + 1] = x) <=> (\E k \in 1 .. c : names[k] = x)
    <3>1. PICK w : w = m + 1
      OBVIOUS
    <3>2. \A k \in 1 .. c : names[k] = deeper[k][w]
      BY <1>8, <3>1
    <3>3. /\ \A k \in 1 .. c : \E i \in I : deeper[k] = path[i]
          /\ \A i \in I : \E k \in 1 .. c : deeper[k] = path[i]
      BY <1>6, <1>7
    <3>4. ASSUME NEW i \in I, path[i][w] = x
          PROVE  \E k \in 1 .. c : names[k] = x
      <4>1. PICK k \in 1 .. c : deeper[k] = path[i]
        BY <3>3
      <4> QED
        BY <3>2, <3>4, <4>1
    <3>5. ASSUME NEW k \in 1 .. c, names[k] = x
          PROVE  \E i \in I : path[i][w] = x
      <4>1. PICK i \in I : deeper[k] = path[i]
        BY <3>3
      <4> QED
        BY <3>2, <3>5, <4>1
    <3> QED
      BY <3>1, <3>4, <3>5
  <2>2. (\E k \in 1 .. c : names[k] = x) <=> (\E k \in DOMAIN kids : kids[k] = x)
    <3>1. /\ \A k \in DOMAIN kids : \E i \in DOMAIN names : kids[k] = names[i]
          /\ \A i \in DOMAIN names : \E k \in DOMAIN kids : kids[k] = names[i]
      BY <1>12 DEF HasEachOnce
    <3>2. \A i \in 1 .. c : \E k \in DOMAIN kids : kids[k] = names[i]
      BY <1>10, <3>1
    <3>3. \A k \in DOMAIN kids : \E i \in 1 .. c : names[i] = kids[k]
      BY <1>10, <3>1
    <3> QED
      BY <3>2, <3>3
  <2> QED
    BY <2>1, <2>2
<1>15. \A k, l \in DOMAIN kids : kids[k] = kids[l] => k = l
  BY <1>12 DEF HasEachOnce
<1>16. \A x \in S : Append(p, x) \in PathsOn(path, 1 .. n) <=> \E k \in DOMAIN kids : kids[k] = x
  BY <1>13, <1>14
<1> QED
  BY <1>12, <1>15, <1>16 DEF HasChildren

LEMMA FrontOfPrefix ==
  ASSUME NEW S, NEW s \in Seq(S), NEW d \in DOMAIN s, NEW p, p = SubSeq(s, 1, d)
  PROVE  p \in Seq(S) /\ p # << >> /\ (Front(p) = << >> \/ Begins(s, Front(p)))
<1>1. PICK m \in Nat : m = Len(s) /\ DOMAIN s = 1 .. m
  BY LenProperties
<1>2. p \in Seq(S) /\ Len(p) = d /\ \A j \in 1 .. d : p[j] = s[j]
  <2>1. d \in 0 .. Len(s)
    BY <1>1
  <2> QED
    BY <2>1, FirstElements
<1>3. d \in Nat \ {0} /\ p # << >>
  BY <1>1, <1>2, EmptySeq
<1>4. PICK e \in Nat : e = d - 1 /\ e \in 0 .. d /\ e \in 0 .. m
  BY <1>1, <1>3
<1>5. SubSeq(s, 1, e) \in Seq(S) /\ Len(SubSeq(s, 1, e)) = e /\ \A j \in 1 .. e : SubSeq(s, 1, e)[j] = s[j]
  BY <1>1, <1>4, FirstElements
<1>6. SubSeq(p, 1, e) \in Seq(S) /\ Len(SubSeq(p, 1, e)) = e /\ \A j \in 1 .. e : SubSeq(p, 1, e)[j] = p[j]
  BY <1>2, <1>4, FirstElements
<1>7. \A j \in 1 .. e : SubSeq(p, 1, e)[j] = SubSeq(s, 1, e)[j]
  BY <1>2, <1>4, <1>5, <1>6
<1>8. SubSeq(p, 1, e) = SubSeq(s, 1, e)
  BY <1>5, <1>6, <1>7, SeqEqual
<1>9. Front(p) = SubSeq(s, 1, e)
  BY <1>2, <1>4, <1>8 DEF Front
<1>10. CASE e = 0
  <2>1. Front(p) \in Seq(S) /\ Len(Front(p)) = 0
    BY <1>5, <1>9, <1>10
  <2>2. Front(p) = << >>
    BY <2>1, EmptySeq
  <2> QED
    BY <1>2, <1>3, <2>2
<1>11. CASE e # 0
  <2>1. e \in DOMAIN s
    BY <1>1, <1>4, <1>11
  <2> QED
    BY <1>2, <1>3, <1>9, <2>1 DEF Begins
<1> QED
  BY <1>10, <1>11

LEMMA TreeHasPaths ==
  ASSUME NEW S, NEW n \in Nat, NEW nodes, DOMAIN nodes = 1 .. n,
         NEW path \in [1 .. n -> Seq(S)],
         NEW f, NEW c, NEW frames
  PROVE  IsPathTree(TreeOf(f, c, nodes, frames, path), PathsOn(path, 1 .. n), S)
<1>1. PICK B : B = PathsOn(path, 1 .. n)
  OBVIOUS
<1>2. IsFiniteSet(B)
  <2>1. IsFiniteSet(1 .. n)
    BY FS_Interval
  <2> QED
    BY <1>1, <2>1, FinitePrefixes
<1>3. ASSUME NEW i \in 1 .. n, NEW d \in DOMAIN path[i], NEW p, p = SubSeq(path[i], 1, d)
      PROVE  p \in Seq(S) /\ p # << >> /\ Front(p) \in B \cup {<< >>}
  <2>1. PICK s \in Seq(S) : s = path[i]
    OBVIOUS
  <2>2. PICK e \in DOMAIN s : p = SubSeq(s, 1, e)
    BY <1>3, <2>1
  <2>3. p \in Seq(S) /\ p # << >> /\ (Front(p) = << >> \/ Begins(s, Front(p)))
    BY <2>2, FrontOfPrefix
  <2>4. Begins(path[i], Front(p)) => Front(p) \in B
    BY <1>1 DEF PathsOn, Begins
  <2> QED
    BY <2>1, <2>3, <2>4
<1>4. \A p \in B : p \in Seq(S) /\ p # << >> /\ Front(p) \in B \cup {<< >>}
  BY <1>1, <1>3 DEF PathsOn
<1>5. PICK t : t = TreeOf(f, c, nodes, frames, path)
  OBVIOUS
<1>6. /\ DOMAIN t = B \cup {<< >>}
      /\ \A p \in B \cup {<< >>} : t[p].m_Children = NamesAt(Deeper(path, 1 .. n, p), Len(p) + 1)
  BY <1>1, <1>5 DEF TreeOf, NamesAt
<1>7. ASSUME NEW p \in DOMAIN t
      PROVE  /\ t[p].m_Children \in Seq(S)
             /\ \A k, l \in DOMAIN t[p].m_Children : t[p].m_Children[k] = t[p].m_Children[l] => k = l
             /\ \A x \in S : Append(p, x) \in B <=> \E k \in DOMAIN t[p].m_Children : t[p].m_Children[k] = x
  <2>1. p \in Seq(S)
    BY <1>4, <1>6, EmptySeq
  <2>2. PICK deeper : deeper = Deeper(path, 1 .. n, p)
    OBVIOUS
  <2>3. PICK kids : kids = t[p].m_Children /\ kids = NamesAt(deeper, Len(p) + 1)
    BY <1>6, <2>2
  <2>4. /\ kids \in Seq(S)
        /\ \A k, l \in DOMAIN kids : kids[k] = kids[l] => k = l
        /\ \A x \in S : Append(p, x) \in PathsOn(path, 1 .. n) <=> \E k \in DOMAIN kids : kids[k] = x
    <3>1. HasChildren(kids, PathsOn(path, 1 .. n), p, S)
      BY <2>1, <2>2, <2>3, ChildrenOfPaths
    <3> QED
      BY <3>1 DEF HasChildren
  <2> QED
    BY <1>1, <2>3, <2>4
<1>8. B \in SUBSET Seq(S) /\ << >> \notin B /\ \A p \in B : Front(p) \in DOMAIN t
  BY <1>4, <1>6
<1>9. IsPathTree(t, B, S)
  BY <1>2, <1>6, <1>7, <1>8 DEF IsPathTree
<1> QED
  BY <1>1, <1>5, <1>9

LEMMA ShownNames ==
  ASSUME NEW c, NamesHold(c), NEW rip \in FileAddresses
  PROVE  FrameName(file, c, rip) = ShownName(rip, info)
<1>1. /\ HasSymbol(file, rip) <=> HasTrueName(rip, info)
      /\ HasSymbol(file, rip) => symbolNameForAddress(file, c, rip) = TrueName(rip, info)
  BY DEF NamesHold
<1> QED
  BY <1>1 DEF FrameName, ShownName, symbolNameForAddress

\* The names on the way through a tree are those of the sample's path.
LEMMA PathOfSample ==
  ASSUME NEW c, NamesHold(c), NEW s \in Happened, NEW root
  PROVE  [d \in DOMAIN SampleFrames(s, root) |-> FrameName(file, c, SampleFrames(s, root)[d])]
           = TruePath(s, root, info)
<1>1. PICK r : r = SampleFrames(s, root)
  OBVIOUS
<1>2. PICK n \in Nat : DOMAIN r = 1 .. n + 1 /\ Len(r) = n + 1 /\ n = Len(s.stack)
  <2>1. s \in Samples
    BY DEF Happened
  <2>2. Len(r) = Len(s.stack) + 1 /\ DOMAIN r = 1 .. Len(s.stack) + 1
    BY <1>1, <2>1, SampleFramesType
  <2>3. s.stack \in Seq(Nat \ {0})
    BY <2>1, SamplesAssumption, StacksAssumption
  <2>4. Len(s.stack) \in Nat
    BY <2>3
  <2> QED
    BY <2>2, <2>4
<1>3. ASSUME NEW d \in 1 .. n + 1 PROVE FrameName(file, c, r[d]) = ShownName(r[d], info)
  <2>1. s \in Samples
    BY DEF Happened
  <2>2. r[d] \in {s.rip} \cup Range(s.stack)
    BY <1>1, <1>2, <2>1, SampleFramesType
  <2>3. r[d] \in FileAddresses
    BY <2>2 DEF FileAddresses
  <2> QED
    BY <2>3, ShownNames
<1>4. [d \in DOMAIN r |-> FrameName(file, c, r[d])] = [d \in DOMAIN r |-> ShownName(r[d], info)]
  BY <1>2, <1>3
<1>5. PICK f : f = <<s.rip>> \o s.stack
  OBVIOUS
<1>6. CASE root # NoRoot
  <2>1. r = f
    BY <1>1, <1>5, <1>6 DEF SampleFrames
  <2>2. TruePath(s, root, info) = [d \in DOMAIN f |-> ShownName(f[d], info)]
    BY <1>5, <1>6 DEF TruePath
  <2> QED
    BY <1>1, <1>4, <2>1, <2>2
<1>7. CASE root = NoRoot
  <2>1. r = Reverse(f)
    BY <1>1, <1>5, <1>7 DEF SampleFrames
  <2>2. DOMAIN f = 1 .. n + 1 /\ Len(f) = n + 1
    <3>1. s \in Samples
      BY DEF Happened
    <3>2. PICK S : S = Nat
      OBVIOUS
    <3>3. s.rip \in S /\ s.stack \in Seq(S)
      <4>1. s.rip \in Rips /\ s.stack \in Stacks
        BY <3>1, SamplesAssumption
      <4>2. s.rip \in Nat /\ s.stack \in Seq(Nat \ {0})
        BY <4>1, RipsAssumption, StacksAssumption
      <4> QED
        BY <3>2, <4>2
    <3>4. f \in Seq(S) /\ Len(f) = n + 1
      BY <1>2, <1>5, <3>3, OneElementPrepended
    <3> QED
      BY <3>4, LenProperties
  <2>3. PICK path : path = [d \in 1 .. n + 1 |-> ShownName(f[d], info)]
    OBVIOUS
  <2>4. TruePath(s, root, info) = Reverse(path)
    BY <1>5, <1>7, <2>2, <2>3 DEF TruePath
  <2>5. Len(path) = n + 1
    <3>1. PICK S : S = {path[d] : d \in 1 .. n + 1}
      OBVIOUS
    <3>2. path \in [1 .. n + 1 -> S]
      BY <2>3, <3>1
    <3>3. path \in Seq(S) /\ DOMAIN path = 1 .. n + 1
      BY <3>2
    <3> QED
      BY <3>3, LenProperties
  <2>6. Reverse(path) = [d \in 1 .. n + 1 |-> path[(n + 1 - d) + 1]]
    BY <2>5 DEF Reverse
  <2>7. r = [d \in 1 .. n + 1 |-> f[(n + 1 - d) + 1]]
    BY <2>1, <2>2 DEF Reverse
  <2>8. ASSUME NEW d \in 1 .. n + 1 PROVE ShownName(r[d], info) = path[(n + 1 - d) + 1]
    <3>1. PICK e \in 1 .. n + 1 : e = (n + 1 - d) + 1
      OBVIOUS
    <3> QED
      BY <2>3, <2>7, <3>1
  <2>9. [d \in 1 .. n + 1 |-> ShownName(r[d], info)] = Reverse(path)
    BY <2>6, <2>8
  <2> QED
    BY <1>1, <1>2, <1>4, <2>4, <2>9
<1> QED
  BY <1>6, <1>7

\* A node goes into a tree if its samples belong there.
LEMMA UnderOfSample ==
  ASSUME NEW c, NamesHold(c), NEW s \in Happened, NEW root, NEW frames, NEW node, IsNodeOf(frames, node, s)
  PROVE  IsUnder(file, c, root, node) <=> s \in SamplesUnder(root, info)
<1>1. node.m_Rip = s.rip
  BY DEF IsNodeOf
<1>2. s.rip \in FileAddresses
  BY DEF FileAddresses
<1>3. /\ HasSymbol(file, s.rip) <=> HasTrueName(s.rip, info)
      /\ HasSymbol(file, s.rip) => symbolNameForAddress(file, c, s.rip) = TrueName(s.rip, info)
  BY <1>2 DEF NamesHold
<1>4. ~HasSymbol(file, s.rip) => symbolNameForAddress(file, c, s.rip) = NoRoot
  BY DEF symbolNameForAddress, NoRoot
<1>5. CASE root = NoRoot
  BY <1>5 DEF IsUnder, SamplesUnder
<1>6. CASE root # NoRoot
  <2>1. IsUnder(file, c, root, node) <=> root = symbolNameForAddress(file, c, s.rip)
    BY <1>1, <1>6 DEF IsUnder
  <2>2. s \in SamplesUnder(root, info) <=> HasTrueName(s.rip, info) /\ TrueName(s.rip, info) = root
    BY <1>6 DEF SamplesUnder, SamplesOf
  <2> QED
    BY <1>3, <1>4, <1>6, <2>1, <2>2
<1> QED
  BY <1>5, <1>6

\* What a tree shows if it is right: the paths of its samples, with their sums.
TruePaths(root, i) == [s \in SamplesUnder(root, i) |-> TruePath(s, root, i)]
Below(root, i) == PathsOn(TruePaths(root, i), SamplesUnder(root, i))
SumBelow(root, i, p) == SumOf({s \in SamplesUnder(root, i) : IsPrefix(p, TruePaths(root, i)[s])})

TreeIsRight(t, root, i) ==
  /\ \E S : IsPathTree(t, Below(root, i), S)
  /\ \A p \in Below(root, i) : t[p].m_Stats = SumBelow(root, i, p)

LEMMA TreeIsTotals ==
  ASSUME StoreInv, SavedInv, FileInv, CountedInv, phase # "capture", NEW c, NamesHold(c), NEW root
  PROVE  TreeIsRight(createTree(file, c, root), root, info)
<1>1. PICK nodes : nodes = NodesUnder(file, c, root)
  OBVIOUS
<1>2. PICK T : nodes \in Seq(T)
  BY <1>1, NodesOfTree
<1>3. PICK n \in Nat : DOMAIN nodes = 1 .. n
  BY <1>2, LenProperties
<1>4. PICK frames : frames = saved.frames
  OBVIOUS
<1>5. /\ AreNodesOf(frames, nodes)
      /\ \A k \in 1 .. n : IsUnder(file, c, root, nodes[k])
      /\ \A i \in DOMAIN saved.nodes : IsUnder(file, c, root, saved.nodes[i]) =>
           \E k \in 1 .. n : nodes[k] = saved.nodes[i]
  BY <1>1, <1>3, <1>4, NodesOfTree
<1>6. PICK all : all = TreeFrames(file, nodes, root)
  OBVIOUS
<1>7. PICK path : path = TreePaths(file, c, nodes, all)
  OBVIOUS
<1>8. PICK S : S = FrameNames(file, c)
  OBVIOUS
<1>9. PICK under \in SUBSET Happened : under = SamplesUnder(root, info)
  BY DEF SamplesUnder, SamplesOf
<1>10. PICK true : true = TruePaths(root, info)
  OBVIOUS
<1>11. path \in [1 .. n -> Seq(S)]
  <2>1. DOMAIN path = 1 .. n /\ \A i \in 1 .. n : path[i] \in Seq(S)
    BY <1>1, <1>3, <1>6, <1>7, <1>8, PathsOfTree
  <2>2. path = [i \in DOMAIN path |-> path[i]]
    BY <1>7 DEF TreePaths
  <2> QED
    BY <2>1, <2>2
<1>12. ASSUME NEW k \in 1 .. n, NEW s \in Happened, IsNodeOf(frames, nodes[k], s)
       PROVE  s \in under /\ path[k] = true[s]
  <2>1. path[k] = [d \in DOMAIN SampleFrames(s, root) |-> FrameName(file, c, SampleFrames(s, root)[d])]
    BY <1>1, <1>3, <1>4, <1>6, <1>7, <1>12, PathsOfTree
  <2>2. path[k] = TruePath(s, root, info)
    BY <2>1, PathOfSample
  <2>3. s \in under
    BY <1>5, <1>9, <1>12, UnderOfSample
  <2> QED
    BY <1>9, <1>10, <2>2, <2>3 DEF TruePaths
<1>13. \A k \in 1 .. n : \E s \in Happened : IsNodeOf(frames, nodes[k], s)
  BY <1>3, <1>5 DEF AreNodesOf
<1>14. ASSUME NEW s \in under
       PROVE  \E k \in 1 .. n : IsNodeOf(frames, nodes[k], s)
  <2>1. PICK i \in DOMAIN saved.nodes : IsNodeOf(frames, saved.nodes[i], s)
    BY <1>4, <1>9, NodeOfSample
  <2>2. IsUnder(file, c, root, saved.nodes[i])
    BY <1>9, <2>1, UnderOfSample
  <2> QED
    BY <1>5, <2>1, <2>2
<1>15. PICK B : B = PathsOn(path, 1 .. n)
  OBVIOUS
<1>16. B = Below(root, info)
  <2>1. B = PathsOn(true, under)
    BY <1>12, <1>13, <1>14, <1>15 DEF PathsOn
  <2> QED
    BY <1>9, <1>10, <2>1 DEF Below
<1>17. PICK t : t = TreeOf(file, c, nodes, all, path)
  OBVIOUS
<1>18. IsPathTree(t, B, S)
  BY <1>3, <1>11, <1>15, <1>17, TreeHasPaths
<1>19. ASSUME NEW p \in B
       PROVE  t[p].m_Stats = SumBelow(root, info, p)
  <2>1. PICK I \in SUBSET (1 .. n) : I = Through(path, 1 .. n, p)
    BY DEF Through
  <2>2. p # << >>
    BY <1>18 DEF IsPathTree
  <2>3. t[p].m_Stats = Total(Selected(nodes, I))
    BY <1>3, <1>15, <1>17, <2>1, <2>2 DEF TreeOf
  <2>4. Total(Selected(nodes, I)) = SumOf(OfNodes(frames, nodes, I))
    BY <1>2, <1>3, <1>5, TotalOfSelected DEF StoreInv
  <2>5. OfNodes(frames, nodes, I) = {s \in under : IsPrefix(p, true[s])}
    BY <1>12, <1>14, <2>1 DEF OfNodes, Through
  <2> QED
    BY <1>9, <1>10, <2>3, <2>4, <2>5 DEF SumBelow
<1>20. createTree(file, c, root) = t
  <2>1. PICK f : f = file
    OBVIOUS
  <2> QED
    BY <1>1, <1>6, <1>7, <1>17, <2>1, TreeIsTreeOf
<1> QED
  BY <1>16, <1>18, <1>19, <1>20 DEF TreeIsRight

TreeInv == (tree # NoView /\ ~tree.stale) => TreeIsRight(tree.nodes, tree.root, tree.info)

LEMMA SameTree ==
  ASSUME UNCHANGED fileVars
  PROVE  \A t, root, i : TreeIsRight(t, root, i) => TreeIsRight(t, root, i)'
<1>1. /\ Happened' = Happened
      /\ \A rip, i : ShownName(rip, i)' = ShownName(rip, i)
      /\ \A n, i : SamplesOf(n, i)' = SamplesOf(n, i)
      /\ \A S : SumOf(S)' = SumOf(S)
  BY SameTruth
<1>2. \A s, root, i : TruePath(s, root, i)' = TruePath(s, root, i)
  BY <1>1 DEF TruePath
<1>3. \A root, i : SamplesUnder(root, i)' = SamplesUnder(root, i)
  BY <1>1 DEF SamplesUnder
<1>4. \A root, i : TruePaths(root, i)' = TruePaths(root, i)
  BY <1>2, <1>3 DEF TruePaths
<1>5. \A root, i : Below(root, i)' = Below(root, i)
  BY <1>3, <1>4 DEF Below
<1>6. \A root, i, p : SumBelow(root, i, p)' = SumBelow(root, i, p)
  BY <1>1, <1>3, <1>4 DEF SumBelow
<1> SUFFICES ASSUME NEW t, NEW root, NEW i, TreeIsRight(t, root, i)
             PROVE  TreeIsRight(t, root, i)'
  OBVIOUS
<1>7. PICK S : IsPathTree(t, Below(root, i), S)
  BY DEF TreeIsRight
<1> QED
  BY <1>5, <1>6, <1>7 DEF TreeIsRight

LEMMA TreeInvStep == ProfileInv /\ CountedInv /\ ViewsInv /\ TreeInv /\ [Next]_vars => TreeInv'
<1> SUFFICES ASSUME ProfileInv, CountedInv, ViewsInv, TreeInv, [Next]_vars, tree' # NoView, ~tree'.stale
             PROVE  TreeIsRight(tree.nodes, tree.root, tree.info)'
  BY DEF TreeInv
<1>1. CASE UNCHANGED tree
  <2>1. phase = "open"
    BY <1>1 DEF ViewsInv
  <2>2. UNCHANGED fileVars
    <3>1. ~ \E list \in LoadedLists[platform], order \in Orders(g_Stats) : EndCapture(list, order)
      BY <2>1 DEF EndCapture
    <3> QED
      BY <2>1, <3>1, StepsOfCapture
  <2>3. PICK x : x = tree
    OBVIOUS
  <2>4. TreeIsRight(x.nodes, x.root, x.info)
    BY <1>1, <2>3 DEF TreeInv
  <2>5. TreeIsRight(x.nodes, x.root, x.info)'
    BY <2>2, <2>4, SameTree
  <2> QED
    BY <1>1, <2>3, <2>5
<1>2. ASSUME NEW root, OpenTree(root)
      PROVE  TreeIsRight(tree.nodes, tree.root, tree.info)'
  <2>1. PICK x : x = [root |-> root, nodes |-> createTree(file, cache, root), info |-> info, stale |-> cacheInfo # info]
    OBVIOUS
  <2>2. phase = "open" /\ tree' = x /\ UNCHANGED fileVars
    BY <1>2, <2>1 DEF OpenTree
  <2>3. NamesHold(cache)
    BY <2>1, <2>2, FreshNamesHold
  <2>4. TreeIsRight(x.nodes, x.root, x.info)
    BY <2>1, <2>2, <2>3, TreeIsTotals DEF ProfileInv
  <2>5. TreeIsRight(x.nodes, x.root, x.info)'
    BY <2>2, <2>4, SameTree
  <2> QED
    BY <2>2, <2>5
<1> QED
  BY <1>1, <1>2, StepsOfTree

\* The views of the invariant, by what they are right about.
ShowsRows(rows, i) ==
  LET named == {s \in Happened : HasTrueName(s.rip, i)}
  IN rows = [n \in {TrueName(s.rip, i) : s \in named} |-> SumOf(SamplesOf(n, i))]

ShowsTree(t, under, path) ==
  LET below == UNION {{SubSeq(path[s], 1, d) : d \in DOMAIN path[s]} : s \in under}
      shown == Walked(t)
  IN /\ {i.node : i \in shown} = below
     /\ Cardinality(shown) = Cardinality(below)
     /\ \A p \in below : t[p].m_Stats = SumOf({s \in under : IsPrefix(p, path[s])})
     /\ \A i \in shown :
          /\ parentIndex(t, i) \in shown \cup {InvalidIndex}
          /\ i \in RowsUnder(t, parentIndex(t, i))

LEMMA TotalsHold == FlatInv /\ TreeInv => ViewsAgreeOnTotals
<1> SUFFICES ASSUME FlatInv, TreeInv PROVE ViewsAgreeOnTotals
  OBVIOUS
<1>1. ASSUME flat # NoView, ~flat.stale PROVE ShowsRows(flat.rows, flat.info)
  BY <1>1 DEF FlatInv, TrueRows, TrueNames, ShowsRows
<1>2. ASSUME tree # NoView, ~tree.stale
      PROVE  ShowsTree(tree.nodes, SamplesUnder(tree.root, tree.info), TruePaths(tree.root, tree.info))
  <2>1. PICK t : t = tree.nodes
    OBVIOUS
  <2>2. PICK B : B = Below(tree.root, tree.info)
    OBVIOUS
  <2>3. PICK S : IsPathTree(t, B, S)
    BY <1>2, <2>1, <2>2 DEF TreeInv, TreeIsRight
  <2>4. \A p \in B : t[p].m_Stats = SumBelow(tree.root, tree.info, p)
    BY <1>2, <2>1, <2>2 DEF TreeInv, TreeIsRight
  <2>5. /\ {i.node : i \in Walked(t)} = B
        /\ Cardinality(Walked(t)) = Cardinality(B)
        /\ \A i \in Walked(t) :
             /\ parentIndex(t, i) \in Walked(t) \cup {InvalidIndex}
             /\ i \in RowsUnder(t, parentIndex(t, i))
    BY <2>3, WalkIsRight
  <2>6. PICK under, path : under = SamplesUnder(tree.root, tree.info) /\ path = TruePaths(tree.root, tree.info)
    OBVIOUS
  <2>7. B = UNION {{SubSeq(path[s], 1, d) : d \in DOMAIN path[s]} : s \in under}
    BY <2>2, <2>6 DEF Below, PathsOn
  <2>8. \A p \in B : t[p].m_Stats = SumOf({s \in under : IsPrefix(p, path[s])})
    BY <2>4, <2>6 DEF SumBelow
  <2>9. ShowsTree(t, under, path)
    BY <2>5, <2>7, <2>8 DEF ShowsTree
  <2> QED
    BY <2>1, <2>6, <2>9
<1> QED
  BY <1>1, <1>2 DEF ViewsAgreeOnTotals, ShowsRows, ShowsTree, TruePaths

LEMMA ViewsInvInit == Init => ViewsInv /\ FlatInv /\ TreeInv
  BY DEF Init, NoViews, ViewsInv, FlatInv, TreeInv

LEMMA TotalsAlways == Spec => [](FlatInv /\ TreeInv)
<1> DEFINE Inv == ProfileInv /\ CountedInv /\ ViewsInv /\ FlatInv /\ TreeInv
<1>1. Init => Inv
  BY ProfileInvInit, ArenaInvInit, ViewsInvInit
<1>2. Inv /\ [Next]_vars => Inv'
  BY ProfileInvStep, CountedInvStep, ViewsInvStep, FlatInvStep, TreeInvStep
<1> QED
  BY <1>1, <1>2, PTL DEF Spec

\* FlatModel and TreeModel: in any file, the flat profile has a row for every name
\* of a sample that has one, with what its samples counted; a tree has a node for
\* every beginning of a sample's path and no other, with what is below it; and
\* the item model shows every node once, in a row under its parent.
THEOREM ViewsAgreeOnTotalsAlways == Spec => []ViewsAgreeOnTotals
  BY TotalsHold, TotalsAlways, PTL

\* The line of a symbol is the one its debug information has, or what was in the
\* memory.
LEMMA LineOfAddress ==
  ASSUME ProfileInv, phase = "open", NEW rip \in FileAddresses, HasSymbol(file, rip)
  PROVE  /\ SymbolOf(file, rip).m_LineNumber \in Int
         /\ Lined(rip, info) => SymbolOf(file, rip).m_LineNumber = LinuxLine(rip, info)
<1>1. rip \in FileRips /\ rip \in Nat /\ rip \in Rips \cup Callers
  BY AddressesSaved, RipsOfFile DEF ProfileInv
<1>2. PICK junk \in Int : ReadsSymbols(file, Named, NamesOf(info), FilesOf(info), LinesOf(info, junk))
  BY SymbolsOfFileAreRead
<1>3. rip \in Named /\ SymbolOf(file, rip).m_LineNumber = LinesOf(info, junk)[rip]
  BY <1>1, <1>2 DEF ReadsSymbols
<1>4. info \in Infos
  BY <1>3 DEF Named, ProfileInv, SymbolsInv
<1>5. LinuxLine(rip, info) \in Int
  BY <1>1, <1>4, InfosAssumption DEF LinuxLine, Callers
<1>6. LinesOf(info, junk)[rip] = IF Lined(rip, info) THEN LinuxLine(rip, info) ELSE junk
  BY <1>1 DEF LinesOf
<1> QED
  BY <1>3, <1>5, <1>6

LEMMA MaxOfTwo ==
  ASSUME NEW a \in Int, NEW b \in Int
  PROVE  /\ Max({a, b}) = (IF a >= b THEN a ELSE b)
         /\ Min({a, b}) = (IF a <= b THEN a ELSE b)
<1>1. \A x \in {a, b} : (\A y \in {a, b} : x >= y) <=> x = (IF a >= b THEN a ELSE b)
  OBVIOUS
<1>2. \A x \in {a, b} : (\A y \in {a, b} : x <= y) <=> x = (IF a <= b THEN a ELSE b)
  OBVIOUS
<1>3. Max({a, b}) = (IF a >= b THEN a ELSE b)
  BY <1>1 DEF Max
<1>4. Min({a, b}) = (IF a <= b THEN a ELSE b)
  BY <1>2 DEF Min
<1> QED
  BY <1>3, <1>4

\* The lines of a function.
AreLines(T) == T \in SUBSET Int /\ IsFiniteSet(T) /\ T # {}

\* What findFileData finds out about a function whose nodes are in the lines T.
HasLines(data, T) ==
  /\ AreLines(T)
  /\ data.m_FirstLine = Min(T) /\ data.m_LastLine = Max(T)
  /\ DOMAIN data.m_Samples = 1 .. Cardinality(T)
  /\ \A k \in 1 .. Cardinality(T) : data.m_Samples[k].m_LineNumber = Nth(T, k)

LEMMA SampleOfLine ==
  ASSUME NEW data, NEW T, HasLines(data, T), NEW x \in Int
  PROVE  /\ x \notin T => SampleIndex(data, x) = -1
         /\ x \in T => /\ SampleIndex(data, x) \in DOMAIN data.m_Samples /\ SampleIndex(data, x) # -1
                       /\ data.m_Samples[SampleIndex(data, x)].m_LineNumber = x
<1>1. PICK n \in Nat : n = Cardinality(T)
  BY NthOfSet DEF HasLines, AreLines
<1>2. \A y \in T : Rank(T, y) \in 1 .. n /\ Nth(T, Rank(T, y)) = y
  BY <1>1, NthOfSet DEF HasLines, AreLines
<1>3. /\ \A k \in 1 .. n : Nth(T, k) \in T /\ Nth(T, k) \in Int
      /\ \A k, l \in 1 .. n : k < l => Nth(T, k) < Nth(T, l)
  BY <1>1, NthOfSet DEF HasLines, AreLines
<1>4. PICK s : s = data.m_Samples
  OBVIOUS
<1>5. DOMAIN s = 1 .. n /\ \A k \in 1 .. n : s[k].m_LineNumber = Nth(T, k)
  BY <1>1, <1>4 DEF HasLines
<1>6. PICK at : at = Cardinality({i \in DOMAIN s : s[i].m_LineNumber < x}) + 1
  OBVIOUS
<1>7. SampleIndex(data, x) = IF at \in DOMAIN s /\ s[at].m_LineNumber = x THEN at ELSE -1
  BY <1>4, <1>6 DEF SampleIndex
<1>8. CASE x \notin T
  BY <1>3, <1>5, <1>7, <1>8
<1>9. CASE x \in T
  <2>1. PICK r \in 1 .. n : Nth(T, r) = x
    BY <1>2, <1>9
  <2>2. ASSUME NEW k \in 1 .. n
        PROVE  Nth(T, k) < x <=> k < r
    <3>1. k < r \/ k = r \/ r < k
      OBVIOUS
    <3>2. k < r => Nth(T, k) < x
      BY <1>3, <2>1
    <3>3. r < k => x < Nth(T, k)
      BY <1>3, <2>1
    <3>4. Nth(T, k) \in Int
      BY <1>3
    <3> QED
      BY <2>1, <3>1, <3>2, <3>3, <3>4
  <2>3. {i \in DOMAIN s : s[i].m_LineNumber < x} = 1 .. (r - 1)
    <3>1. {i \in DOMAIN s : s[i].m_LineNumber < x} = {i \in 1 .. n : i < r}
      BY <1>5, <2>2
    <3> QED
      BY <3>1
  <2>4. Cardinality(1 .. (r - 1)) = r - 1
    <3>1. PICK m \in Nat : m = r - 1
      OBVIOUS
    <3>2. Cardinality(1 .. m) = IF 1 > m THEN 0 ELSE m - 1 + 1
      BY FS_Interval, m \in Int, 1 \in Int
    <3> QED
      BY <3>1, <3>2
  <2>5. at = r
    <3>1. PICK c \in Nat : c = Cardinality(1 .. (r - 1)) /\ c = r - 1
      BY <2>4
    <3>2. at = c + 1
      BY <1>6, <2>3, <3>1
    <3> QED
      BY <3>1, <3>2
  <2>6. s[r].m_LineNumber = x /\ r \in DOMAIN s /\ r # -1
    BY <1>5, <2>1
  <2> QED
    BY <1>4, <1>7, <1>9, <2>5, <2>6
<1> QED
  BY <1>8, <1>9

\* The lines that are shown, each with its sample.
LEMMA LinesShown ==
  ASSUME NEW data, NEW T, HasLines(data, T), NEW length \in Nat,
         NEW view, view = AnnotationView(data, length)
  PROVE  /\ \A k \in DOMAIN view : /\ view[k].line \in Int
                                   /\ view[k].m_SampleIndex = SampleIndex(data, view[k].line)
                                   /\ data.m_FirstLine > kContextLines => LineLabel(data, k) = view[k].line
         /\ \A x \in T : x \in 1 .. length => \E k \in DOMAIN view : view[k].line = x
<1>1. PICK first \in T, last \in T :
        /\ first = data.m_FirstLine /\ last = data.m_LastLine
        /\ \A x \in T : first <= x /\ x <= last
  BY EndsOfSet DEF HasLines, AreLines
<1>2. \A x \in T : x \in Int
  BY DEF HasLines, AreLines
<1>3. PICK a \in Int, b \in Int : a = first - 5 /\ b = last + 5 - 1
  BY <1>2
<1>4. PICK start \in Int : start = Max({1, a}) /\ start = IF 1 >= a THEN 1 ELSE a
  BY MaxOfTwo, 1 \in Int
<1>5. PICK end \in Int : end = Min({b, length}) /\ end = IF b <= length THEN b ELSE length
  BY MaxOfTwo, length \in Int
<1>6. PICK n \in Int : n = Max({0, end - start + 1}) /\ n = IF 0 >= end - start + 1 THEN 0 ELSE end - start + 1
  BY MaxOfTwo, end - start + 1 \in Int, 0 \in Int
<1>7. view = [i \in 1 .. n |-> [line |-> start + i - 1, m_SampleIndex |-> SampleIndex(data, start + i - 1)]]
  BY <1>1, <1>3, <1>4, <1>5, <1>6 DEF AnnotationView, kContextLines
<1>8. DOMAIN view = 1 .. n
  BY <1>7
<1>9. ASSUME NEW k \in 1 .. n
      PROVE  /\ view[k].line = start + k - 1 /\ view[k].line \in Int
             /\ view[k].m_SampleIndex = SampleIndex(data, view[k].line)
  BY <1>7
<1>10. ASSUME NEW k \in 1 .. n, data.m_FirstLine > kContextLines
       PROVE  LineLabel(data, k) = view[k].line
  <2>1. first > 5 /\ first \in Int
    BY <1>1, <1>2, <1>10 DEF kContextLines
  <2>2. start = first - 5
    BY <1>3, <1>4, <2>1
  <2>3. LineLabel(data, k) = k - 1 + first - 5
    BY <1>1 DEF LineLabel, kContextLines
  <2> QED
    BY <1>9, <2>1, <2>2, <2>3
<1>11. ASSUME NEW x \in T, x \in 1 .. length
       PROVE  \E k \in 1 .. n : view[k].line = x
  <2>1. first <= x /\ x <= last /\ first \in Int /\ last \in Int /\ x \in Int /\ 1 <= x /\ x <= length
    BY <1>1, <1>2, <1>11
  <2>2. start <= x /\ x <= end
    BY <1>3, <1>4, <1>5, <2>1
  <2>3. PICK k \in Int : k = x - start + 1
    BY <2>1
  <2>4. k \in 1 .. n /\ start + k - 1 = x
    BY <1>6, <2>1, <2>2, <2>3
  <2> QED
    BY <1>9, <2>4
<1> QED
  BY <1>8, <1>9, <1>10, <1>11

\* What findFileData returns, by the nodes of the function and their lines.
NodesNamed(f, c, all, symbol) ==
  {i \in DOMAIN all : HasSymbol(f, all[i].m_Rip) /\ symbolNameForAddress(f, c, all[i].m_Rip) = symbol}

LineOfNodes(f, nodes) == [i \in DOMAIN nodes |-> SymbolOf(f, nodes[i].m_Rip).m_LineNumber]

LinesIn(nodes, line) == {line[i] : i \in DOMAIN nodes}

Ascending(lines) == [k \in 1 .. Cardinality(lines) |-> Nth(lines, k)]

SamplesIn(nodes, line, ascending) ==
  [i \in DOMAIN ascending |->
     [m_LineNumber |-> ascending[i],
      m_Stats |-> Total(Selected(nodes, {n \in DOMAIN nodes : line[n] = ascending[i]}))]]

FileIn(f, c, nodes) ==
  LET file_ == [i \in DOMAIN nodes |-> fileNameForAddress(f, c, nodes[i].m_Rip)]
      named == Selected(file_, {i \in DOMAIN nodes : file_[i] # EmptyString})
  IN IF named = << >> THEN EmptyString ELSE named[1]

FileData(name, lines, samples) ==
  [m_FileName |-> name, m_FirstLine |-> Min(lines), m_LastLine |-> Max(lines), m_Samples |-> samples]

FoundIn(f, c, symbol, nodes) ==
  IF symbol \notin Range(c) \/ nodes = << >> THEN NoFileInfo
  ELSE FileData(FileIn(f, c, nodes), LinesIn(nodes, LineOfNodes(f, nodes)),
                SamplesIn(nodes, LineOfNodes(f, nodes), Ascending(LinesIn(nodes, LineOfNodes(f, nodes)))))

LEMMA FindsFileData ==
  ASSUME NEW f, NEW c, NEW symbol
  PROVE  findFileData(f, c, symbol)
           = FoundIn(f, c, symbol, Selected(GetStats(f), NodesNamed(f, c, GetStats(f), symbol)))
  BY DEF findFileData, FoundIn, FileData, FileIn, SamplesIn, NodesNamed, LineOfNodes, LinesIn, Ascending

\* The samples of a function that are on a line
OnLine(symbol, i, x) == {s \in SamplesOf(symbol, i) : LinuxLine(s.rip, i) = x}
AllLined(symbol, i) == \A s \in SamplesOf(symbol, i) : Lined(s.rip, i)

CountsLines(data, T, symbol, i) ==
  /\ \A s \in SamplesOf(symbol, i) : Lined(s.rip, i) => LinuxLine(s.rip, i) \in T
  /\ AllLined(symbol, i) =>
       \A k \in DOMAIN data.m_Samples :
         /\ OnLine(symbol, i, data.m_Samples[k].m_LineNumber) # {}
         /\ data.m_Samples[k].m_Stats = SumOf(OnLine(symbol, i, data.m_Samples[k].m_LineNumber))

DataIsRight(data, symbol, i) == \E T : HasLines(data, T) /\ CountsLines(data, T, symbol, i)

LEMMA DataOfFunction ==
  ASSUME ProfileInv, CountedInv, phase = "open", NEW c, NamesHold(c), NEW symbol,
         NEW data, data = findFileData(file, c, symbol), data.m_FileName \in DOMAIN SourceLines
  PROVE  DataIsRight(data, symbol, info)
<1>1. PICK S : saved.nodes \in Seq(S)
  BY SavedTypes DEF ProfileInv
<1>2. PICK all \in Seq(S) : all = saved.nodes /\ all = GetStats(file)
  BY <1>1, SavedIsRead DEF ProfileInv
<1>3. PICK I \in SUBSET DOMAIN all : I = NodesNamed(file, c, all, symbol)
  BY DEF NodesNamed
<1>4. PICK nodes \in Seq(S) :
        /\ nodes = Selected(all, I)
        /\ \A k \in DOMAIN nodes : Nth(I, k) \in I /\ nodes[k] = all[Nth(I, k)]
        /\ \A i \in I : \E k \in DOMAIN nodes : nodes[k] = all[i]
  BY SelectedElements
<1>5. PICK frames : frames = saved.frames /\ AreNodesOf(frames, all) /\ AreNodesOf(frames, nodes)
  BY <1>2, <1>4, SelectedNodes DEF CountedInv
<1>6. PICK n \in Nat : n = Len(nodes) /\ DOMAIN nodes = 1 .. n
  BY LenProperties
<1>7. PICK line : line = LineOfNodes(file, nodes)
  OBVIOUS
<1>8. DOMAIN line = 1 .. n /\ \A k \in 1 .. n : line[k] = SymbolOf(file, nodes[k].m_Rip).m_LineNumber
  BY <1>6, <1>7 DEF LineOfNodes
<1>9. PICK T : T = LinesIn(nodes, line) /\ T = {line[i] : i \in DOMAIN nodes}
  BY DEF LinesIn
<1>10. data # NoFileInfo
  BY SourceLinesAssumption DEF NoFileInfo
<1>11. PICK name : nodes # << >> /\ data = FileData(name, T, SamplesIn(nodes, line, Ascending(T)))
  <2>1. data = FoundIn(file, c, symbol, nodes)
    BY <1>2, <1>3, <1>4, FindsFileData
  <2> QED
    BY <1>7, <1>9, <1>10, <2>1 DEF FoundIn
<1>12. ASSUME NEW k \in 1 .. n, NEW s \in Happened, IsNodeOf(frames, nodes[k], s)
       PROVE  /\ s \in SamplesOf(symbol, info)
              /\ line[k] \in Int /\ (Lined(s.rip, info) => line[k] = LinuxLine(s.rip, info))
  <2>1. PICK i \in I : nodes[k] = all[i]
    BY <1>4, <1>6
  <2>2. s.rip = all[i].m_Rip /\ s.rip = nodes[k].m_Rip
    BY <1>12, <2>1 DEF IsNodeOf
  <2>3. HasSymbol(file, s.rip) /\ symbolNameForAddress(file, c, s.rip) = symbol
    BY <1>3, <2>1, <2>2 DEF NodesNamed
  <2>4. s.rip \in FileAddresses
    BY DEF FileAddresses
  <2>5. HasTrueName(s.rip, info) /\ TrueName(s.rip, info) = symbol
    BY <2>3, <2>4 DEF NamesHold
  <2>6. line[k] = SymbolOf(file, s.rip).m_LineNumber
    BY <1>8, <2>2
  <2>7. /\ SymbolOf(file, s.rip).m_LineNumber \in Int
        /\ Lined(s.rip, info) => SymbolOf(file, s.rip).m_LineNumber = LinuxLine(s.rip, info)
    BY <2>3, <2>4, LineOfAddress
  <2> QED
    BY <2>5, <2>6, <2>7 DEF SamplesOf
<1>13. \A k \in 1 .. n : \E s \in Happened : IsNodeOf(frames, nodes[k], s)
  BY <1>5, <1>6 DEF AreNodesOf
<1>14. ASSUME NEW s \in SamplesOf(symbol, info)
       PROVE  s \in Happened /\ \E k \in 1 .. n : IsNodeOf(frames, nodes[k], s)
  <2>1. s \in Happened /\ HasTrueName(s.rip, info) /\ TrueName(s.rip, info) = symbol
    BY DEF SamplesOf
  <2>2. PICK i \in DOMAIN all : IsNodeOf(frames, all[i], s)
    BY <1>2, <1>5, <2>1, NodeOfSample DEF ProfileInv
  <2>3. all[i].m_Rip = s.rip /\ s.rip \in FileAddresses
    BY <2>1, <2>2 DEF IsNodeOf, FileAddresses
  <2>4. HasSymbol(file, s.rip) /\ symbolNameForAddress(file, c, s.rip) = symbol
    BY <2>1, <2>3 DEF NamesHold
  <2>5. i \in I
    BY <1>3, <2>3, <2>4 DEF NodesNamed
  <2>6. PICK k \in DOMAIN nodes : nodes[k] = all[i]
    BY <1>4, <2>5
  <2> QED
    BY <1>6, <2>1, <2>2, <2>6
<1>15. AreLines(T)
  <2>1. \A k \in 1 .. n : line[k] \in Int
    BY <1>12, <1>13
  <2>2. T \in SUBSET Int
    BY <1>6, <1>9, <2>1
  <2>3. 1 \in 1 .. n
    BY <1>6, <1>11, EmptySeq
  <2>4. T # {}
    BY <1>6, <1>9, <2>3
  <2>5. line \in Surjection(1 .. n, T)
    <3>1. line = [k \in 1 .. n |-> SymbolOf(file, nodes[k].m_Rip).m_LineNumber]
      BY <1>6, <1>7 DEF LineOfNodes
    <3> QED
      BY <1>6, <1>9, <3>1 DEF Surjection
  <2>6. IsFiniteSet(1 .. n)
    BY FS_Interval
  <2>7. IsFiniteSet(T)
    BY <2>5, <2>6, FS_Surjection
  <2> QED
    BY <2>2, <2>4, <2>7 DEF AreLines
<1>16. PICK a : a = Ascending(T) /\ DOMAIN a = 1 .. Cardinality(T) /\ \A k \in 1 .. Cardinality(T) : a[k] = Nth(T, k)
  <2>1. PICK a : a = Ascending(T)
    OBVIOUS
  <2>2. DOMAIN a = 1 .. Cardinality(T) /\ \A k \in 1 .. Cardinality(T) : a[k] = Nth(T, k)
    BY <2>1 DEF Ascending
  <2> QED
    BY <2>1, <2>2
<1>17. HasLines(data, T)
  <2>1. PICK samples : samples = SamplesIn(nodes, line, a)
    OBVIOUS
  <2>2. DOMAIN samples = DOMAIN a /\ \A k \in DOMAIN a : samples[k].m_LineNumber = a[k]
    BY <2>1 DEF SamplesIn
  <2>3. data = [m_FileName |-> name, m_FirstLine |-> Min(T), m_LastLine |-> Max(T), m_Samples |-> samples]
    BY <1>16, <1>11, <2>1 DEF FileData
  <2> QED
    BY <1>16, <1>15, <2>2, <2>3 DEF HasLines
<1>18. \A s \in SamplesOf(symbol, info) : Lined(s.rip, info) => LinuxLine(s.rip, info) \in T
  BY <1>6, <1>9, <1>12, <1>14
<1>19. ASSUME AllLined(symbol, info), NEW k \in DOMAIN data.m_Samples,
              NEW x, x = data.m_Samples[k].m_LineNumber
       PROVE  OnLine(symbol, info, x) # {} /\ data.m_Samples[k].m_Stats = SumOf(OnLine(symbol, info, x))
  <2>1. PICK J \in SUBSET DOMAIN nodes : J = {j \in DOMAIN nodes : line[j] = x}
    OBVIOUS
  <2>2. x \in T
    <3>1. k \in 1 .. Cardinality(T) /\ x = Nth(T, k)
      BY <1>17, <1>19 DEF HasLines
    <3> QED
      BY <1>15, <3>1, NthOfSet DEF AreLines
  <2>3. data.m_Samples[k].m_Stats = Total(Selected(nodes, J))
    BY <1>11, <1>19, <2>1 DEF FileData, SamplesIn
  <2>4. OfNodes(frames, nodes, J) = OnLine(symbol, info, x)
    <3>1. ASSUME NEW s \in Happened, NEW j \in J, IsNodeOf(frames, nodes[j], s)
          PROVE  s \in OnLine(symbol, info, x)
      BY <1>6, <1>12, <1>19, <2>1, <3>1 DEF OnLine, AllLined
    <3>2. ASSUME NEW s \in OnLine(symbol, info, x)
          PROVE  s \in Happened /\ \E j \in J : IsNodeOf(frames, nodes[j], s)
      <4>1. s \in SamplesOf(symbol, info) /\ LinuxLine(s.rip, info) = x /\ Lined(s.rip, info)
        BY <1>19 DEF OnLine, AllLined
      <4>2. PICK j \in 1 .. n : s \in Happened /\ IsNodeOf(frames, nodes[j], s)
        BY <1>14, <4>1
      <4>3. line[j] = x
        BY <1>12, <4>1, <4>2
      <4> QED
        BY <1>6, <2>1, <4>2, <4>3
    <3> QED
      BY <3>1, <3>2 DEF OfNodes
  <2>5. Total(Selected(nodes, J)) = SumOf(OfNodes(frames, nodes, J))
    BY <1>5, TotalOfSelected DEF ProfileInv, StoreInv
  <2>6. PICK j \in 1 .. n : line[j] = x
    BY <1>6, <1>9, <2>2
  <2>7. PICK s \in Happened : IsNodeOf(frames, nodes[j], s)
    BY <1>13
  <2>8. s \in OfNodes(frames, nodes, J)
    BY <1>6, <2>1, <2>6, <2>7 DEF OfNodes
  <2> QED
    BY <2>3, <2>4, <2>5, <2>8
<1>20. CountsLines(data, T, symbol, info)
  BY <1>18, <1>19 DEF CountsLines
<1> QED
  BY <1>17, <1>20 DEF DataIsRight

SourceIsRight(x) ==
  /\ DataIsRight(x.data, x.symbol, x.info)
  /\ x.data.m_FileName \in DOMAIN SourceLines
  /\ x.lines = AnnotationView(x.data, SourceLines[x.data.m_FileName])

SourceInv == (source # NoView /\ ~source.stale) => SourceIsRight(source)

LEMMA SameSource ==
  ASSUME UNCHANGED fileVars
  PROVE  \A x : SourceIsRight(x) => SourceIsRight(x)'
<1>1. /\ \A rip, i : Lined(rip, i)' = Lined(rip, i)
      /\ \A n, i : SamplesOf(n, i)' = SamplesOf(n, i)
      /\ \A S : SumOf(S)' = SumOf(S)
  BY SameTruth
<1>2. \A n, i : AllLined(n, i)' = AllLined(n, i)
  BY <1>1 DEF AllLined
<1>3. \A n, i, x : OnLine(n, i, x)' = OnLine(n, i, x)
  BY <1>1 DEF OnLine
<1>4. \A data, T, n, i : CountsLines(data, T, n, i) => CountsLines(data, T, n, i)'
  BY <1>1, <1>2, <1>3 DEF CountsLines
<1>5. \A data, n, i : DataIsRight(data, n, i) => DataIsRight(data, n, i)'
  BY <1>4 DEF DataIsRight
<1> QED
  BY <1>5 DEF SourceIsRight

\* A step leaves the annotation as it is, takes it away, or makes it.
LEMMA StepsOfSource ==
  ASSUME [Next]_vars
  PROVE  source' = NoView \/ UNCHANGED source \/ \E symbol : OpenAnnotation(symbol)
<1> DEFINE Goal == source' = NoView \/ UNCHANGED source
<1>1. ASSUME UNCHANGED viewVars PROVE Goal
  BY <1>1 DEF viewVars
<1>2. ASSUME NEW s, Record(s) PROVE Goal
  BY <1>1, <1>2 DEF Record
<1>3. ASSUME NEW list, NEW order, EndCapture(list, order) PROVE Goal
  BY <1>1, <1>3 DEF EndCapture
<1>4. CASE EndCaptureFails
  BY <1>1, <1>4 DEF EndCaptureFails
<1>5. CASE LoadTrace
  BY <1>1, <1>5 DEF LoadTrace
<1>6. CASE CloseTrace
  BY <1>6 DEF CloseTrace, NoViews
<1>7. ASSUME NEW newFile, NEW newInfo, symbolsResolved(newFile, newInfo) PROVE Goal
  BY <1>7 DEF symbolsResolved
<1>8. ASSUME NEW known, NEW junk, Resolve(known, junk) PROVE Goal
  BY <1>7, <1>8 DEF Resolve
<1>9. CASE ResolveFails
  BY <1>7, <1>9 DEF ResolveFails
<1>10. ASSUME NEW known, NEW junk, KilledWhileResolving(known, junk) PROVE Goal
  BY <1>10 DEF KilledWhileResolving, NoViews
<1>11. CASE OpenFlatProfile
  BY <1>11 DEF OpenFlatProfile
<1>12. CASE CloseFlatProfile
  BY <1>12 DEF CloseFlatProfile
<1>13. ASSUME NEW root, OpenTree(root) PROVE Goal
  BY <1>13 DEF OpenTree
<1>14. CASE CloseTree
  BY <1>14 DEF CloseTree
<1>15. CASE CloseAnnotation
  BY <1>15 DEF CloseAnnotation
<1>16. CASE UNCHANGED vars
  BY <1>1, <1>16 DEF vars
<1> QED
  BY <1>2, <1>3, <1>4, <1>5, <1>6, <1>8, <1>9, <1>10, <1>11, <1>12, <1>13, <1>14, <1>15, <1>16 DEF Next

LEMMA SourceInvStep == ProfileInv /\ CountedInv /\ ViewsInv /\ SourceInv /\ [Next]_vars => SourceInv'
<1> SUFFICES ASSUME ProfileInv, CountedInv, ViewsInv, SourceInv, [Next]_vars, source' # NoView, ~source'.stale
             PROVE  SourceIsRight(source)'
  BY DEF SourceInv
<1>1. CASE UNCHANGED source
  <2>1. phase = "open"
    BY <1>1 DEF ViewsInv
  <2>2. UNCHANGED fileVars
    <3>1. ~ \E list \in LoadedLists[platform], order \in Orders(g_Stats) : EndCapture(list, order)
      BY <2>1 DEF EndCapture
    <3> QED
      BY <2>1, <3>1, StepsOfCapture
  <2>3. PICK x : x = source
    OBVIOUS
  <2>4. SourceIsRight(x)
    BY <1>1, <2>3 DEF SourceInv
  <2>5. SourceIsRight(x)'
    BY <2>2, <2>4, SameSource
  <2> QED
    BY <1>1, <2>3, <2>5
<1>2. ASSUME NEW symbol, OpenAnnotation(symbol)
      PROVE  SourceIsRight(source)'
  <2>1. PICK data : data = findFileData(file, cache, symbol)
    OBVIOUS
  <2>2. PICK x : x = [symbol |-> symbol, data |-> data,
                      lines |-> AnnotationView(data, SourceLines[data.m_FileName]),
                      info |-> info, stale |-> cacheInfo # info]
    OBVIOUS
  <2>3. /\ phase = "open" /\ UNCHANGED fileVars
        /\ data.m_FileName \in DOMAIN SourceLines /\ source' = x
    BY <1>2, <2>1, <2>2 DEF OpenAnnotation
  <2>4. NamesHold(cache)
    BY <2>2, <2>3, FreshNamesHold
  <2>5. DataIsRight(data, symbol, info)
    BY <2>1, <2>3, <2>4, DataOfFunction
  <2>6. SourceIsRight(x)
    BY <2>2, <2>3, <2>5 DEF SourceIsRight
  <2>7. SourceIsRight(x)'
    BY <2>3, <2>6, SameSource
  <2> QED
    BY <2>3, <2>7
<1> QED
  BY <1>1, <1>2, StepsOfSource

\* What the property says of an annotation.
ShowsLines(data, lines, symbol, i) ==
  LET S == SamplesOf(symbol, i)
      lined(s) == Lined(s.rip, i)
      line(s) == LinuxLine(s.rip, i)
      allLined == \A s \in S : lined(s)
      tip(k) == ToolTip(data, lines, k)
  IN /\ \A s \in S : lined(s) /\ line(s) \in 1 .. SourceLines[data.m_FileName] =>
          \E k \in DOMAIN lines : lines[k].line = line(s) /\ tip(k) # {}
     /\ \A k \in DOMAIN lines : \A t \in tip(k) :
          /\ t.m_LineNumber = lines[k].line
          /\ allLined => /\ \E s \in S : line(s) = t.m_LineNumber
                         /\ t.m_Stats = SumOf({s \in S : line(s) = t.m_LineNumber})
     /\ data.m_FirstLine > kContextLines =>
          \A k \in DOMAIN lines : LineLabel(data, k) = lines[k].line

LEMMA SourceShowsLines ==
  ASSUME NEW x, SourceIsRight(x)
  PROVE  ShowsLines(x.data, x.lines, x.symbol, x.info)
<1>1. PICK data, symbol, i : data = x.data /\ symbol = x.symbol /\ i = x.info
  OBVIOUS
<1>2. PICK T : HasLines(data, T) /\ CountsLines(data, T, symbol, i)
  BY <1>1 DEF SourceIsRight, DataIsRight
<1>3. PICK length \in Nat : length = SourceLines[data.m_FileName]
  BY <1>1, SourceLinesAssumption DEF SourceIsRight
<1>4. PICK lines : lines = x.lines /\ lines = AnnotationView(data, length)
  BY <1>1, <1>3 DEF SourceIsRight
<1>5. /\ \A k \in DOMAIN lines : /\ lines[k].line \in Int
                                 /\ lines[k].m_SampleIndex = SampleIndex(data, lines[k].line)
                                 /\ data.m_FirstLine > kContextLines => LineLabel(data, k) = lines[k].line
      /\ \A y \in T : y \in 1 .. length => \E k \in DOMAIN lines : lines[k].line = y
  BY <1>2, <1>4, LinesShown
<1>6. ASSUME NEW k \in DOMAIN lines
      PROVE  /\ lines[k].line \in T => ToolTip(data, lines, k) # {}
             /\ \A t \in ToolTip(data, lines, k) :
                  t.m_LineNumber = lines[k].line /\ \E j \in DOMAIN data.m_Samples : t = data.m_Samples[j]
  <2>1. PICK y \in Int : y = lines[k].line /\ lines[k].m_SampleIndex = SampleIndex(data, y)
    BY <1>5
  <2>2. PICK at : at = SampleIndex(data, y)
    OBVIOUS
  <2>3. /\ y \notin T => at = -1
        /\ y \in T => at \in DOMAIN data.m_Samples /\ at # -1 /\ data.m_Samples[at].m_LineNumber = y
    BY <1>2, <2>2, SampleOfLine
  <2>4. ToolTip(data, lines, k) = IF at = -1 THEN {} ELSE {data.m_Samples[at]}
    BY <2>1, <2>2 DEF ToolTip
  <2> QED
    BY <2>1, <2>3, <2>4
<1>7. ASSUME NEW s \in SamplesOf(symbol, i), Lined(s.rip, i), LinuxLine(s.rip, i) \in 1 .. length
      PROVE  \E k \in DOMAIN lines : lines[k].line = LinuxLine(s.rip, i) /\ ToolTip(data, lines, k) # {}
  <2>1. LinuxLine(s.rip, i) \in T
    BY <1>2, <1>7 DEF CountsLines
  <2>2. PICK k \in DOMAIN lines : lines[k].line = LinuxLine(s.rip, i)
    BY <1>5, <1>7, <2>1
  <2> QED
    BY <1>6, <2>1, <2>2
<1>8. ASSUME NEW k \in DOMAIN lines, NEW t \in ToolTip(data, lines, k)
      PROVE  /\ t.m_LineNumber = lines[k].line
             /\ AllLined(symbol, i) => /\ \E s \in SamplesOf(symbol, i) : LinuxLine(s.rip, i) = t.m_LineNumber
                                       /\ t.m_Stats = SumOf(OnLine(symbol, i, t.m_LineNumber))
  <2>1. PICK j \in DOMAIN data.m_Samples : t = data.m_Samples[j]
    BY <1>6
  <2>2. t.m_LineNumber = lines[k].line
    BY <1>6
  <2>3. AllLined(symbol, i) => /\ OnLine(symbol, i, t.m_LineNumber) # {}
                               /\ t.m_Stats = SumOf(OnLine(symbol, i, t.m_LineNumber))
    BY <1>2, <2>1 DEF CountsLines
  <2> QED
    BY <2>2, <2>3 DEF OnLine
<1>9. ShowsLines(data, lines, symbol, i)
  BY <1>3, <1>5, <1>7, <1>8 DEF ShowsLines, AllLined, OnLine
<1> QED
  BY <1>1, <1>4, <1>9

LEMMA SourceHolds == SourceInv => AnnotationShowsItsLines
  BY SourceShowsLines DEF SourceInv, AnnotationShowsItsLines, ShowsLines

LEMMA SourceAlways == Spec => []SourceInv
<1> DEFINE Inv == ProfileInv /\ CountedInv /\ ViewsInv /\ FlatInv /\ TreeInv /\ SourceInv
<1>1. Init => SourceInv
  BY DEF Init, SourceInv
<1>2. Init => Inv
  BY <1>1, ProfileInvInit, ArenaInvInit, ViewsInvInit
<1>3. Inv /\ [Next]_vars => Inv'
  BY ProfileInvStep, CountedInvStep, ViewsInvStep, FlatInvStep, TreeInvStep, SourceInvStep
<1> QED
  BY <1>2, <1>3, PTL DEF Spec

\* findFileData and AnnotationView: in any file, for any debug information, every
\* sampled line of a function that is a line of its file is shown with a tool tip,
\* a tool tip has what the samples of that line of that function counted, and the
\* numbers that are drawn are those of the lines, unless the function starts in
\* the first lines of the file.
THEOREM AnnotationShowsItsLinesAlways == Spec => []AnnotationShowsItsLines
  BY SourceHolds, SourceAlways, PTL
=============================================================================
