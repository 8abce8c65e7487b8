------------------------------ MODULE Fletcher -------------------------------
(***************************************************************************)
(* The Fletcher-32 checksum of checksum/fletcher32.c, which daluac puts    *)
(* into the header of a slot: two sums that would be taken modulo the      *)
(* largest word, and are reduced to that only after a block of words, as   *)
(* long as the wider sums have room.                                       *)
(*                                                                         *)
(* A word has WORD values and a sum WORD * WORD, as 16 and 32 bits have.   *)
(* The block is one word shorter than the longest one for which the sums   *)
(* have room, as 359 is for 16 bits.                                       *)
(***************************************************************************)
EXTENDS Integers, Sequences, SequencesExt

WORD == 16
SUM == WORD * WORD

\* The longest block.  (Mutant: two words more.)
TLENTWOMORE == 5
TLEN == 3

reduce(ctx) ==
  [sum1 |-> (ctx.sum1 % WORD) + (ctx.sum1 \div WORD), sum2 |-> (ctx.sum2 % WORD) + (ctx.sum2 \div WORD)]
fletcher32_init == [sum1 |-> WORD - 1, sum2 |-> WORD - 1]
fletcher32_finish(ctx) == LET r == reduce(ctx) IN (r.sum2 * WORD + r.sum1) % SUM

add(ctx, word) ==
  LET sum1 == (ctx.sum1 + word) % SUM IN [sum1 |-> sum1, sum2 |-> (ctx.sum2 + sum1) % SUM]
Block(data, k) == SubSeq(data, (k - 1) * TLEN + 1, IF k * TLEN > Len(data) THEN Len(data) ELSE k * TLEN)
fletcher32_update(ctx, data) ==
  FoldLeft(LAMBDA c, k : reduce(FoldLeft(add, c, Block(data, k))), ctx,
           [k \in 1 .. (Len(data) + TLEN - 1) \div TLEN |-> k])
fletcher32(data) == fletcher32_finish(fletcher32_update(fletcher32_init, data))

-----------------------------------------------------------------------------

\* The halves of the checksum are the sum of the words and the sum of the sums, modulo the largest
\* word and never 0, however the data is cut into parts.
SummedRight(data) ==
  LET M == WORD - 1
      sum == FoldLeft(+, 0, data)
      weighted == FoldLeft(LAMBDA s, i : s + (Len(data) - i + 1) * data[i], 0, [i \in DOMAIN data |-> i])
      chksum == fletcher32(data)
      cut(k) == fletcher32_update(fletcher32_update(fletcher32_init, SubSeq(data, 1, k)), SubSeq(data, k + 1, Len(data)))
  IN /\ chksum % WORD # 0 /\ (chksum % WORD) % M = sum % M
     /\ chksum \div WORD # 0 /\ (chksum \div WORD) % M = weighted % M
     /\ \A k \in DOMAIN data : fletcher32_finish(cut(k)) = chksum
=============================================================================
