------------------------------- MODULE MCEEGfx ------------------------------
(***************************************************************************)
(* The programs the model checker runs through EEGfx.                      *)
(***************************************************************************)
EXTENDS EEGfx

----------------------------------------------------------------------------
(* Streams.                                                                *)

\* Words padded with NOPs to whole quadwords.
InQuads(ws) ==
  LET at(i) == IF i <= Len(ws) THEN ws[i] ELSE Code("NOP", 0, 0)
  IN  [n \in 1 .. (Len(ws) + 3) \div 4 |-> <<at(4*n - 3), at(4*n - 2), at(4*n - 1), at(4*n)>>]

GifWords(q) == <<Part(q, 1), Part(q, 2), Part(q, 3), Part(q, 4)>>
GifStream(qs) == [n \in DOMAIN qs |-> GifWords(qs[n])]
Direct2(qs) == <<Code("DIRECT", Len(qs), 0)>> \o FlattenSeq(GifStream(qs))

Program(c, v, g) ==
  [vifch |-> c, vif |-> InQuads(v), gif |-> GifStream(g), faulty |-> g = <<>>]

----------------------------------------------------------------------------
(* UNPACK in its formats, cycles, masks and modes.                         *)

\* Bytes with and without their sign bit; sums stay below 2^31.
Payload(k) == Word((k % 3) * 16777216 + (k + 140) * 65536 + (3 * k + 7) * 256 + 250 - 13 * k)

UnpackStream(u) ==
  <<Code("STCYCL", u.cl, u.wl), Code("STMOD", u.mode, 0), Code("STMASK", 0, 0), Word(u.mask),
    Code("STROW", 0, 0), Word(11), Word(12), Word(13), Word(14),
    Code("STCOL", 0, 0), Word(21), Word(22), Word(23), Word(24),
    Code("BASE", 1, 0), Code("OFFSET", 1, 0)>>
  \o <<Unpack(u.vn, u.vl, u.m, u.usn, u.flg, 1, u.num)>>
  \o [k \in 1 .. (VIF_UNPACK_SIZE([vn |-> u.vn, vl |-> u.vl]) * u.num + 3) \div 4 |-> Payload(k)]
  \o <<Code("MARK", 7, 0)>>

\* Lanes: data, row, column and protect in turn, another turn per position.
Mixed == 228 + 256 * 57

U(vn, vl, m, usn, flg, cl, wl, mode, num) ==
  [vn |-> vn, vl |-> vl, m |-> m, usn |-> usn, flg |-> flg, cl |-> cl, wl |-> wl,
   mode |-> mode, mask |-> Mixed, num |-> num]

\* VN, VL and the largest count.  V3 only with counts whose last word the
\* fourth component does not leave (see V3Programs).
Formats == <<<<0, 0, 5>>, <<0, 1, 5>>, <<0, 2, 5>>, <<1, 0, 4>>, <<1, 1, 5>>, <<1, 2, 5>>,
             <<2, 1, 1>>, <<2, 2, 3>>, <<3, 0, 3>>, <<3, 1, 4>>, <<3, 2, 5>>, <<3, 3, 5>>>>
Cycles == <<<<1, 1>>, <<2, 1>>, <<2, 2>>, <<3, 2>>>>

\* Every format under every cycle and mode, with and without a mask; count,
\* sign and TOPS vary along.
Unpacks ==
  [n \in 1 .. 12 * 32 |->
     LET f == Formats[((n - 1) % 12) + 1]
         r == (n - 1) \div 12
         cyc == Cycles[(r % 4) + 1]
     IN  U(f[1], f[2], (r \div 16) = 1, n % 3 = 0, n % 5 < 2, cyc[1], cyc[2], (r \div 4) % 4,
           IF f[3] < (n % 7) THEN f[3] ELSE 1 + (n % f[3]))]

UnpackPrograms ==
  [n \in DOMAIN Unpacks |->
     Program(IF Unpacks[n].flg THEN VIF1 ELSE VIF0,
             IF Unpacks[n].flg THEN UnpackStream(Unpacks[n])
             ELSE SelectSeq(UnpackStream(Unpacks[n]),
                            LAMBDA w : w.k # "code" \/ w.cmd \notin {"BASE", "OFFSET"}),
             <<>>)]

----------------------------------------------------------------------------
(* Microprograms.                                                          *)

Pair(l, e) == <<l, Upper(e, FALSE, 0)>>
Nop == Lower("NOP", 0, 0, 0)

\* A loop, then XGKICK under the E bit; MSCNT takes up what follows it.
Looping == FlattenSeq(<<
  Pair(Lower("IADDIU", 1, 0, 2), FALSE),
  Pair(Lower("ISUBIU", 1, 1, 1), FALSE),
  Pair(Lower("IBNE", 1, 0, -2), FALSE),
  Pair(Lower("IADDIU", 2, 2, 1), FALSE),
  Pair(Lower("XGKICK", 0, 0, 0), TRUE),
  Pair(Lower("LQ", 1, 0, 1), FALSE),
  Pair(Lower("SQ", 0, 1, 3), TRUE),
  <<Lower("NOP", 0, 0, 0), Upper(FALSE, TRUE, 1)>> >>)

\* A branch under the E bit: MSCNT resumes at its target.
Branching == FlattenSeq(<<
  Pair(Lower("B", 0, 0, 2), TRUE),
  Pair(Lower("IADDIU", 2, 0, 9), FALSE),
  Pair(Nop, FALSE),
  Pair(Lower("ISW", 2, 0, 0), FALSE),
  Pair(Lower("BAL", 3, 0, 1), FALSE),
  Pair(Lower("SQI", 1, 1, 0), FALSE),
  Pair(Lower("LQI", 1, 1, 0), TRUE),
  Pair(Nop, FALSE) >>)

\* Three vertices, drawn from VU memory.
Kicked(ctxt) == <<Tag(3, "packed", <<"XYZ2">>, TRUE, TRIANGLE + 8 * ctxt, TRUE),
                  Datum(NoReg, 61, 1), Datum(NoReg, 62, 1), Datum(NoReg, 63, 1)>>

Upload(code) == <<Code("MPG", 0, Len(code) \div 2)>> \o code
Load(qs) == <<Code("STCYCL", 1, 1), Unpack(3, 0, FALSE, TRUE, FALSE, 0, Len(qs))>>
            \o FlattenSeq(GifStream(qs))
Run == <<Code("FLUSHE", 0, 0), Code("MSCAL", 0, 0), Code("MSCNT", 0, 0), Code("ITOP", 1, 0)>>

----------------------------------------------------------------------------
(* GS packets.                                                             *)

AD(r, v) == Datum(r, v, 0)
V(n) == Datum(NoReg, n, n + 1)
Writes(ds, eop) == <<Tag(Len(ds), "packed", <<"A+D">>, FALSE, 0, eop)>> \o ds

\* Registers of both contexts from one path ...
Contexts == Writes(<<AD(<<"XYOFFSET", 1>>, 5), AD(<<"TEX0", 2>>, 6)>>, FALSE)

\* ... and a primitive's vertices over several packets from another, with
\* and without a drawing kick.
Kicks == <<<<"XYZ2", "XYZ2">>, <<"XYZ3", "XYZ2">>, <<"XYZF2", "XYZF3">>>>
Vertices(prim, kicks) ==
     <<Tag(1, "packed", <<"RGBAQ", kicks[1]>>, TRUE, prim, FALSE), V(31), V(32)>>
  \o <<Tag(1, "packed", kicks, FALSE, 0, FALSE), V(33), V(34)>>
  \o <<Tag(1, "reglist", <<"XYZ2", "XYZ3", "UV", "XYZ2">>, FALSE, 0, FALSE),
       Datum(NoReg, 35, 36), Datum(NoReg, 37, 38)>>

Glyph == Writes(<<AD(<<"TRXREG", 0>>, 3 + 16 * 2), AD(<<"TRXDIR", 0>>, 0)>>, FALSE)
         \o <<Tag(2, "image", <<"NOP">>, FALSE, 0, FALSE), Datum(NoReg, 41, 0), Datum(NoReg, 42, 0)>>
         \o Writes(<<AD(<<"PRIM", 0>>, POINT), AD(<<"XYZ2", 0>>, 43)>>, TRUE)

\* Each primitive type in each context; the other path writes registers of
\* both and, in half of the programs, starts a primitive of its own.
DrawPrograms ==
  [n \in 1 .. 84 |->
     LET prim == (n - 1) % 7
         ctxt == ((n - 1) \div 7) % 2
         kicks == Kicks[(((n - 1) \div 14) % 3) + 1]
     IN  Program(VIF1,
                 Direct2(Contexts)
                 \o Direct2(IF n > 42
                            THEN Writes(<<AD(<<"PRIM", 0>>, LINE), AD(<<"XYZ2", 0>>, 51)>>, TRUE)
                            ELSE Writes(<<AD(<<"TEX2", 2>>, 8)>>, TRUE)),
                 Vertices(prim + 8 * ctxt, kicks))]

PathPrograms == <<
  Program(VIF1, Upload(Looping) \o Load(Kicked(0)) \o Run, Glyph),
  Program(VIF1, Upload(Branching) \o Load(Kicked(0)) \o Run,
          Writes(<<AD(<<"PRMODECONT", 0>>, 0), AD(<<"PRMODE", 0>>, 8), AD(<<"TEX0", 2>>, 6)>>, FALSE)
          \o Vertices(TRIANGLE_STRIP, Kicks[1])),
  Program(VIF0, Upload(Branching) \o Load(Kicked(1)) \o Run, <<>>),
  Program(VIF1, Direct2(Writes(<<AD(<<"FRAME", 2>>, 9)>>, TRUE)) \o Load(Kicked(1)), Glyph) >>

GfxPrograms == UnpackPrograms \o DrawPrograms \o PathPrograms

\* Three-component vectors, as game geometry is sent.
V3Programs == <<Program(VIF1, UnpackStream(U(2, 0, FALSE, FALSE, FALSE, 1, 1, 0, 2)), <<>>)>>

\* MADR, QWC, TADR and MOD are written before they are read again, and the
\* status bits decide nothing: states that differ in these alone have the
\* same behaviours otherwise.
GfxView ==
  <<[c \in Channels |-> <<dma.chan[c].str, dma.chan[c].error>>],
    vif, vu, gif, prog, sent, fault>>

CarryPrograms == <<PathPrograms[4]>>

=============================================================================
