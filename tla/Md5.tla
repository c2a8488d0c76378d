-------------------------------- MODULE Md5 --------------------------------
(***************************************************************************)
(* The digest by which call stacks are told apart (Md5.cpp, and StackKey   *)
(* in CacheSimCommon.inl). The compression function of md5_process is free *)
(* of collisions here: abcd is the sequence of the blocks it was given.    *)
(* What is left is what can go wrong in the code around it, the buffering  *)
(* of partial blocks, the padding and the length.                          *)
(*                                                                         *)
(* Data comes in frames of 8 bytes, so the unit is a word of 8 bytes: a    *)
(* block of 64 bytes has BlockWords = 8, the padding ends one word short   *)
(* of a block and the length fills that word.                              *)
(***************************************************************************)
EXTENDS Integers, Sequences

CONSTANT BlockWords

ASSUME BlockWordsAssumption == BlockWords \in Nat \ {0, 1}

PadWord == 128                  \* 0x80 and seven zero bytes
LengthWord(words) == 64 * words \* the length in bits

md5_init == [count |-> 0, abcd |-> << >>, buf |-> [i \in 1 .. BlockWords |-> 0]]

md5_process(s, block) == [s EXCEPT !.abcd = Append(@, block)]

\* memcpy(pms->buf + offset, p, ...)
Buffered(s, offset, p) ==
  [s EXCEPT !.buf = [i \in 1 .. BlockWords |->
     IF i \in offset + 1 .. offset + Len(p) THEN p[i - offset] ELSE s.buf[i]]]

Block(p, i) == SubSeq(p, (i - 1) * BlockWords + 1, i * BlockWords)

\* Full blocks are processed where they are; what is left is buffered.
WholeBlocks(s, p) ==
  LET n == Len(p) \div BlockWords
      full == [s EXCEPT !.abcd = @ \o [i \in 1 .. n |-> Block(p, i)]]
  IN Buffered(full, 0, SubSeq(p, n * BlockWords + 1, Len(p)))

md5_append(s, data) ==
  LET offset == s.count % BlockWords
      copy == IF offset + Len(data) > BlockWords THEN BlockWords - offset ELSE Len(data)
      counted == [s EXCEPT !.count = @ + Len(data)]
      first == Buffered(counted, offset, SubSeq(data, 1, copy))
  IN IF Len(data) = 0 THEN s
     ELSE IF offset = 0 THEN WholeBlocks(counted, data)
     ELSE IF offset + copy < BlockWords THEN first
     ELSE WholeBlocks(md5_process(first, first.buf), SubSeq(data, copy + 1, Len(data)))

Padding(n) == [i \in 1 .. n |-> IF i = 1 THEN PadWord ELSE 0]

md5_finish(s) ==
  LET padded == md5_append(s, Padding(((BlockWords - 2 - s.count) % BlockWords) + 1))
  IN md5_append(padded, <<LengthWord(s.count)>>).abcd

StackKey(frames) == md5_finish(md5_append(md5_init, frames))
-----------------------------------------------------------------------------
(* What the digest is of: the message, the padding bit, the least number   *)
(* of zeros, and the length, cut into blocks (RFC 1321, 3.1 to 3.4).       *)

Padded(m, zeros) == m \o <<PadWord>> \o [i \in 1 .. zeros |-> 0] \o <<LengthWord(Len(m))>>

DigestOf(m) ==
  LET zeros == CHOOSE z \in 0 .. BlockWords - 1 : Len(Padded(m, z)) % BlockWords = 0
      whole == Padded(m, zeros)
  IN [i \in 1 .. Len(whole) \div BlockWords |-> Block(whole, i)]
=============================================================================
