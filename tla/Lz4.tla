-------------------------------- MODULE Lz4 --------------------------------
(***************************************************************************)
(* blitscrt_lz4_decompress of sw/lz4dec.c, on bytes of two nibbles.        *)
(*                                                                         *)
(* The sizes of the format are parameters, so that short blocks reach      *)
(* every edge: a nibble that is full, a chain of length bytes, a match that*)
(* overlaps its own output.  A length cannot overflow here.                *)
(***************************************************************************)
EXTENDS Integers, Sequences, FiniteSetsExt

CONSTANTS
  Base,      \* values of a nibble: 16 in LZ4
  MinMatch   \* the shortest match: 4 in LZ4

ASSUME Lz4Assumption == Base \in Nat \ {0, 1} /\ MinMatch \in Nat \ {0}

Full == Base - 1           \* a nibble that goes on in length bytes
Last == Base * Base - 1    \* a length byte that is followed by another
Fail == [fail |-> TRUE]

\* A length that starts with a nibble and may go on at src[at]: its value, and where
\* it ends.
ReadLength(src, nibble, at) ==
  LET ends == {k \in at..Len(src) : src[k] # Last}
      end == Min(ends)
  IN CASE nibble # Full -> [length |-> nibble, next |-> at]
       [] nibble = Full /\ ends = {} -> Fail
       [] OTHER -> [length |-> Full + Last * (end - at) + src[end], next |-> end + 1]

\* The match is copied in pieces no longer than the gap, which doubles; the wrong
\* version copies it in one piece, past what is written.
OneCopy(out, off, match) ==
  out \o [k \in 1..match |-> IF k <= off THEN out[Len(out) - off + k] ELSE 0]
Piece(s) ==
  LET n == IF s.gap < s.left THEN s.gap ELSE s.left
      from == Len(s.out) - s.gap
  IN [out |-> s.out \o SubSeq(s.out, from + 1, from + n), gap |-> s.gap + n, left |-> s.left - n]
CopyMatch(out, off, match) ==
  LET Copied[k \in 0..match] ==
        IF k = 0 THEN [out |-> out, gap |-> off, left |-> match] ELSE Piece(Copied[k - 1])
  IN Copied[match].out

\* What is still free of the output.
Room(out, cap, n) == Len(out) + n <= cap

\* One turn of the loop, from the token at s.at: literals, then a match unless the
\* block ends with them.
Literals(src, cap, s) ==
  LET len == ReadLength(src, src[s.at] \div Base, s.at + 1)
  IN IF len = Fail THEN Fail
     ELSE IF Len(src) - len.next + 1 < len.length \/ ~Room(s.out, cap, len.length) THEN Fail
     ELSE [at |-> len.next + len.length,
           out |-> s.out \o SubSeq(src, len.next, len.next + len.length - 1)]
Match(src, cap, token, s) ==
  LET off == src[s.at] + (Last + 1) * src[s.at + 1]
      len == ReadLength(src, token % Base, s.at + 2)
  IN IF Len(src) - s.at + 1 < 2 THEN Fail
     ELSE IF off = 0 \/ Len(s.out) < off \/ len = Fail THEN Fail
     ELSE IF ~Room(s.out, cap, len.length + MinMatch) THEN Fail
     ELSE [at |-> len.next, out |-> CopyMatch(s.out, off, len.length + MinMatch)]
Turn(src, cap, s) ==
  LET lit == Literals(src, cap, s)
  IN IF lit = Fail \/ lit.at > Len(src) THEN lit ELSE Match(src, cap, src[s.at], lit)

\* The turns of a call: the state after the k-th.
Start == [at |-> 1, out |-> <<>>]
Goes(src, cap, s) == IF s = Fail \/ s.at > Len(src) THEN s ELSE Turn(src, cap, s)
Turns(src, cap) ==
  LET After[k \in 0..Len(src)] == IF k = 0 THEN Start ELSE Goes(src, cap, After[k - 1]) IN After

Decompress(src, cap) ==
  LET end == Turns(src, cap)[Len(src)] IN IF end = Fail THEN Fail ELSE [out |-> end.out]
-----------------------------------------------------------------------------
(* The format, from the writer's side *)

\* The bytes of a length, after its nibble.
Nibble(n) == IF n < Full THEN n ELSE Full
Chain(n) ==
  IF n < Full THEN <<>>
  ELSE [k \in 1..((n - Full) \div Last) |-> Last] \o <<(n - Full) % Last>>

\* A sequence: literals, then a match, or none at the end of a block.
Encode(q) ==
  <<Base * Nibble(Len(q.lit)) + (IF q.off = 0 THEN 0 ELSE Nibble(q.len - MinMatch))>>
    \o Chain(Len(q.lit)) \o q.lit
    \o (IF q.off = 0 THEN <<>>
        ELSE <<q.off % (Last + 1), q.off \div (Last + 1)>> \o Chain(q.len - MinMatch))

\* What it stands for, byte by byte: each byte of a match is the one off before it.
Expand(out, q) ==
  LET start == out \o q.lit
      Byte[i \in 1..(Len(start) + q.len)] ==
        IF i <= Len(start) THEN start[i] ELSE Byte[i - q.off]
  IN IF q.off = 0 THEN start ELSE [i \in 1..(Len(start) + q.len) |-> Byte[i]]

\* A block is sequences one after another, and stands for what they add up to.
Packed(block) ==
  LET Bytes[i \in 0..Len(block)] == IF i = 0 THEN <<>> ELSE Bytes[i - 1] \o Encode(block[i]) IN Bytes
Shown(block) ==
  LET Out[i \in 0..Len(block)] == IF i = 0 THEN <<>> ELSE Expand(Out[i - 1], block[i]) IN Out
BytesOf(block) == Packed(block)[Len(block)]
Meaning(block) == Shown(block)[Len(block)]

\* The rules: only the last sequence may be without a match, a match is not too short,
\* and none reaches back further than the output so far.
Sequence == [lit : Seq(0..Last), off : 0..(Last + 1) * (Last + 1) - 1, len : Nat]
Legal(block) ==
  \A i \in 1..Len(block) :
    IF block[i].off = 0 THEN i = Len(block) /\ block[i].len = 0
    ELSE /\ block[i].len >= MinMatch
         /\ block[i].off <= Len(Shown(block)[i - 1]) + Len(block[i].lit)
Zeros(n) == [k \in 1..n |-> 0]
=============================================================================
