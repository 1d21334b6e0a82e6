-------------------------------- MODULE Blit --------------------------------
(***************************************************************************)
(* The rect writers of sw/fabric.c: clipping to the geometry in force and  *)
(* the address arithmetic, into the window of DDR3 (rows of Stride bytes)  *)
(* and through the on-chip pointer port (a word a pixel).                  *)
(*                                                                         *)
(* After a blit a byte of the window, or a word of the on-chip memory,     *)
(* holds the place of the source it was copied from, or Old: what was      *)
(* there.  After a fill it holds a byte of the colour (its word on chip),  *)
(* or Junk: what malloc left in the row buffer.                            *)
(***************************************************************************)
EXTENDS Integers

CONSTANTS Beat  \* BLITSCRT_F2SDRAM_BEAT: 8 bytes

ASSUME BlitAssumption == Beat \in Nat \ {0}

Old == -1
Junk == -2
Killed == -3    \* no memory at all: the daemon died of the call
ColourBytes == 2 \* sizeof(uint16_t)
Lesser(a, b) == IF a < b THEN a ELSE b

\* blitscrt_scanout_configure pads a line to whole beats.
Stride(w, bpp) == ((w * bpp + Beat - 1) \div Beat) * Beat

\* Outside the picture nothing is written; else the rect is cropped to it.
Outside(g, r) == r.x >= g.w \/ r.y >= g.h
ClipW(g, r) == Lesser(r.w, g.w - r.x)
ClipH(g, r) == Lesser(r.h, g.h - r.y)

\* The source advances by the row as it was sent; the wrong version by the cropped one.
CroppedAdvance(g, r) == ClipW(g, r)
Advance(g, r) == r.w

\* What the row copies write to the window: from where and to where, byte by byte, when
\* the source advances by so many pixels a row.
RowCopies(g, r, advance) ==
  {[at |-> (r.y + row) * g.stride + r.x * g.bpp + b, from |-> row * advance * g.bpp + b] :
     row \in 0..(ClipH(g, r) - 1), b \in 0..(ClipW(g, r) * g.bpp - 1)}

\* What the pointer port writes: seek to a row, stream its pixels.
Seek(g, r, row) == (r.y + row) * g.w + r.x
PointerWrites(g, r, advance) ==
  {[at |-> Seek(g, r, row) + col, from |-> row * advance + col] :
     row \in 0..(ClipH(g, r) - 1), col \in 0..(ClipW(g, r) - 1)}

Writes(g, r, advance) ==
  IF g.w = 0 \/ g.h = 0 \/ Outside(g, r) THEN {}
  ELSE IF g.ddr THEN RowCopies(g, r, advance) ELSE PointerWrites(g, r, advance)

\* The place of the source that each place of the memory got.
Size(g) == IF g.ddr THEN g.stride * g.h ELSE g.w * g.h
Landed(g, r, advance) ==
  LET ws == Writes(g, r, advance)
  IN [a \in 0..(Size(g) - 1) |->
        IF \E x \in ws : x.at = a THEN (CHOOSE x \in ws : x.at = a).from ELSE Old]

ScanoutBlit(g, r) == Landed(g, r, Advance(g, r))

\* A fill builds one row, of as many 16-bit colours as it has pixels, and copies it down.
\* The buffer has the bytes the format asks for: at more than two a pixel the
\* rest of it is never written, at one the colours run past its end.
\* The wrong version is the memset the code's comment warns of.
MemsetRow(g, r) == [j \in 0..(ClipW(g, r) * g.bpp - 1) |-> 0]
RowBuffer(g, r) ==
  [j \in 0..(ClipW(g, r) * g.bpp - 1) |-> IF j < ClipW(g, r) * ColourBytes THEN j % ColourBytes ELSE Junk]
Overruns(g, r) ==
  /\ g.ddr /\ g.w # 0 /\ g.h # 0 /\ ~Outside(g, r)
  /\ ClipW(g, r) * ColourBytes > ClipW(g, r) * g.bpp
ScanoutFill(g, r) ==
  LET from == Landed(g, r, 0)
  IN [a \in DOMAIN from |->
        IF from[a] = Old THEN Old ELSE IF g.ddr THEN RowBuffer(g, r)[from[a]] ELSE 0]
-----------------------------------------------------------------------------
(* What a rect means *)

\* The pixel behind an address, and its byte; none in the padding of a line.
PixelAt(g, a) ==
  IF g.ddr THEN [x |-> (a % g.stride) \div g.bpp, y |-> a \div g.stride, b |-> (a % g.stride) % g.bpp]
  ELSE [x |-> a % g.w, y |-> a \div g.w, b |-> 0]
Covers(g, r, p) ==
  /\ p.x < g.w /\ p.y < g.h
  /\ r.x <= p.x /\ p.x < r.x + r.w /\ r.y <= p.y /\ p.y < r.y + r.h
SourceOf(g, r, p) ==
  LET pixel == (p.y - r.y) * r.w + (p.x - r.x)
  IN IF g.ddr THEN pixel * g.bpp + p.b ELSE pixel

Shows(g, r) ==
  [a \in 0..(Size(g) - 1) |->
    LET p == PixelAt(g, a) IN IF Covers(g, r, p) THEN SourceOf(g, r, p) ELSE Old]
\* A fill's pixels are all the colour: each byte of one is that byte of it.
Filled(g, r) ==
  [a \in 0..(Size(g) - 1) |->
    LET p == PixelAt(g, a) IN IF Covers(g, r, p) THEN p.b ELSE Old]
=============================================================================
