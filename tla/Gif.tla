-------------------------------- MODULE Gif --------------------------------
(***************************************************************************)
(* The GIF packet parser and the GS front end behind it: the GIFtag loop,  *)
(* the register file with its two drawing contexts, the vertex queues that *)
(* turn vertex writes into primitives, and the host-to-local image         *)
(* transfer.  source/hw/gif.c, state gif_state_t.                          *)
(*                                                                         *)
(* The unit is purely reactive: gif_process_quadwords is called with a     *)
(* buffer of quadwords and returns when it has parsed it.  It is therefore *)
(* an operator, GifProcess, on a state record; the modules that feed it    *)
(* (Vif, Dmac, EEGfx) apply it in their actions.                           *)
(*                                                                         *)
(* Data is abstracted to what the control tells apart:                     *)
(*   - a quadword is a GIFtag or a datum.  A datum read where a tag is     *)
(*     expected is a tag without loops (its low bits are zero), which the  *)
(*     parser skips;                                                       *)
(*   - a GS register is a pair <<name, context>>, context 0 when there is  *)
(*     only one copy; its fields are one value;                            *)
(*   - the rasterizers are the log `drawn' of the primitives they are      *)
(*     called with and of the registers in force; the pixels of an image   *)
(*     are the log `pixels'.  The history `log' records the PRIM, PRMODE,  *)
(*     vertex and context register writes in the order they are applied.   *)
(***************************************************************************)
EXTENDS Integers, Sequences, SequencesExt, FiniteSets

CONSTANTS
  CarryMax      \* GIF_IMAGE_CARRY_MAX_QWORDS

ASSUME CarryMaxAssumption == CarryMax \in Nat

Path1 == 1
Path2 == 2
Path3 == 3

----------------------------------------------------------------------------
(* Quadwords.                                                              *)

NoReg == <<"NOP", 0>>

\* A GIFtag: loop count, format, register list, PRIM preset, end of packet.
\* Read as a datum it is the value 0.
Tag(nloop, flg, regs, pre, prim, eop) ==
  [k |-> "tag", nloop |-> nloop, flg |-> flg, regs |-> regs, pre |-> pre,
   prim |-> prim, eop |-> eop, r |-> NoReg, v |-> 0, w |-> 0]

\* A datum: the A+D register it names, its value, and the value in its upper
\* half (the second register of a REGLIST quadword).
Datum(r, v, w) == [k |-> "data", r |-> r, v |-> v, w |-> w]

EmptyTag == Tag(0, "packed", <<"NOP">>, FALSE, 0, FALSE)
AsTag(q) == IF q.k = "tag" THEN q ELSE EmptyTag

----------------------------------------------------------------------------
(* Registers.                                                              *)

\* The registers every drawing context has its own copy of.  TEX2 rewrites
\* the CLUT half of TEX0, so that half is a group of its own.
CtxGroups ==
  {"FRAME", "XYOFFSET", "TEX0", "CLUT", "ZBUF", "TEST", "ALPHA", "SCISSOR",
   "CLAMP", "TEX1", "MIPTBP1", "MIPTBP2", "FBA"}

GroupsOf(name) ==
  CASE name = "TEX0" -> {"TEX0", "CLUT"}
    [] name = "TEX2" -> {"CLUT"}
    [] OTHER -> {name} \cap CtxGroups

PrimType(prim) == prim % 8
PrimCtxt(prim) == prim \div 8           \* the CTXT bit

\* Primitive types.
POINT == 0
LINE == 1
LINE_STRIP == 2
TRIANGLE == 3
TRIANGLE_STRIP == 4
TRIANGLE_FAN == 5
SPRITE == 6

NoVertex == [xy |-> 0, z |-> 0, offset |-> 0, rgba |-> 0, uv |-> 0, fog |-> 0]
EmptyBank == [g \in CtxGroups |-> 0]

GifInit ==
  [prim |-> 0, prmode |-> 0, prmodecont_ac |-> TRUE,
   act |-> EmptyBank, ctx1 |-> EmptyBank, ctx2 |-> EmptyBank,
   rgba |-> 0, uv |-> 0, fog |-> 255,
   line_vseq |-> 0, line |-> <<NoVertex, NoVertex>>,
   tri_vseq |-> 0, tri |-> <<NoVertex, NoVertex, NoVertex>>,
   has_vertex0 |-> FALSE, v0 |-> NoVertex,
   dpsm |-> 0, rrw |-> 0, rrh |-> 0,
   trx_active |-> FALSE, cur_x |-> 0, cur_y |-> 0,
   image_carry |-> 0, last_eop |-> FALSE, p3tag |-> 0, path |-> Path3,
   path1_transfers |-> 0, finish_pending |-> 0,
   drawn |-> <<>>, pixels |-> <<>>, log |-> <<>>]

reset_tri_vseq(g) ==
  [g EXCEPT !.tri_vseq = 0, !.line_vseq = 0, !.has_vertex0 = FALSE]

Logged(g, entry) == [g EXCEPT !.log = Append(@, entry)]

SetPrim(g, prim) ==
  Logged(reset_tri_vseq([g EXCEPT !.prim = prim]), [k |-> "prim", v |-> prim])

\* CTXT comes from PRIM or, when PRMODECONT says so, from PRMODE.
EffectiveCtxt(g) == IF g.prmodecont_ac THEN PrimCtxt(g.prim) ELSE PrimCtxt(g.prmode)

\* Mutant: PRMODE never selects the context.
ActivatedByPrim(g) ==
  [g EXCEPT !.act = IF PrimCtxt(g.prim) = 1 THEN g.ctx2 ELSE g.ctx1]

\* gs_activate_context: the first call of every rasterizer.
Activated(g) ==
  [g EXCEPT !.act = IF EffectiveCtxt(g) = 1 THEN g.ctx2 ELSE g.ctx1]

\* rasterize_point, _line, _triangle, _sprite.
Rasterize(g, vs) ==
  LET h == Activated(g)
  IN  [h EXCEPT !.drawn = Append(@, [type |-> PrimType(h.prim),
                                     vs |-> vs, regs |-> h.act])]

----------------------------------------------------------------------------
(* apply_xyz2_kick: one vertex enters the queue of the current primitive   *)
(* type, and may complete a primitive.  Each operator gives the new queue  *)
(* and the vertices of that primitive, none when it is not complete.       *)

Queued(g, vs) == [g |-> g, vs |-> vs]

PointKick(g, v) == Queued(g, <<v>>)

LineKick(g, v) ==
  LET n == g.line_vseq + 1
      h == [g EXCEPT !.line_vseq = n, !.line[((n - 1) % 2) + 1] = v]
  IN  Queued(h, IF n % 2 = 0 THEN h.line ELSE <<>>)

LineStripKick(g, v) ==
  LET line == <<g.line[2], v>>
  IN  Queued([g EXCEPT !.line_vseq = @ + 1, !.line = line],
             IF g.line_vseq + 1 >= 2 THEN line ELSE <<>>)

TriangleKick(g, v) ==
  LET n == g.tri_vseq + 1
      h == [g EXCEPT !.tri_vseq = n, !.tri[((n - 1) % 3) + 1] = v]
  IN  Queued(h, IF n % 3 = 0 THEN h.tri ELSE <<>>)

TriangleStripKick(g, v) ==
  LET tri == <<g.tri[2], g.tri[3], v>>
  IN  Queued([g EXCEPT !.tri_vseq = @ + 1, !.tri = tri],
             IF g.tri_vseq + 1 >= 3 THEN tri ELSE <<>>)

\* The centre stays; the newest vertex is the next primitive's second.
TriangleFanKick(g, v) ==
  LET n == g.tri_vseq + 1
  IN  IF n = 1 THEN Queued([g EXCEPT !.tri_vseq = 1, !.tri = <<v, v, g.tri[3]>>], <<>>)
      ELSE Queued([g EXCEPT !.tri_vseq = n, !.tri = <<g.tri[1], v, v>>],
                  IF n >= 3 THEN <<g.tri[1], g.tri[2], v>> ELSE <<>>)

\* The first corner of a sprite is kept without its colour.
SpriteKick(g, v) ==
  IF ~g.has_vertex0
  THEN Queued([g EXCEPT !.v0 = [v EXCEPT !.rgba = 0], !.has_vertex0 = TRUE], <<>>)
  ELSE Queued([g EXCEPT !.has_vertex0 = FALSE],
              IF PrimType(g.prim) = SPRITE THEN <<g.v0, v>> ELSE <<>>)

VertexKick(g, v) ==
  LET type == PrimType(g.prim)
  IN  CASE type = POINT          -> PointKick(g, v)
        [] type = LINE           -> LineKick(g, v)
        [] type = LINE_STRIP     -> LineStripKick(g, v)
        [] type = TRIANGLE       -> TriangleKick(g, v)
        [] type = TRIANGLE_STRIP -> TriangleStripKick(g, v)
        [] type = TRIANGLE_FAN   -> TriangleFanKick(g, v)
        [] OTHER                 -> SpriteKick(g, v)

DrawIf(kick, q) == IF kick /\ q.vs # <<>> THEN Rasterize(q.g, q.vs) ELSE q.g

\* `kick' is FALSE for XYZ3 and XYZF3, which queue without drawing.
apply_xyz2_kick(g, xy, z, kick) ==
  LET v == [xy |-> xy, z |-> z, offset |-> g.act["XYOFFSET"],
            rgba |-> g.rgba, uv |-> g.uv, fog |-> g.fog]
  IN  DrawIf(kick, VertexKick(Logged(g, [k |-> "vertex", v |-> v, kick |-> kick]), v))

----------------------------------------------------------------------------
(* apply_ad_write: one GS register write.  The registers only the pixel    *)
(* pipeline reads (FOGCOL, COLCLAMP, DTHE, DIMX, PABE, TEXA, ...) have no   *)
(* part in what follows and are left out.                                  *)

Put(bank, name, v) ==
  [n \in CtxGroups |-> IF n \in GroupsOf(name) THEN v ELSE bank[n]]

\* A write to the first context also lands in the active registers.
CtxWrite(g, r, v) ==
  LET h == Logged(g, [k |-> "ctx", r |-> r, v |-> v])
  IN  IF r[2] = 1 THEN [h EXCEPT !.act = Put(@, r[1], v), !.ctx1 = Put(@, r[1], v)]
                  ELSE [h EXCEPT !.ctx2 = Put(@, r[1], v)]

\* TRXDIR starts a transfer; only host-to-local into PSMCT32 is carried out.
TrxDir(g, xdir) ==
  [g EXCEPT !.cur_x = 0, !.cur_y = 0,
            !.trx_active = (xdir = 0 /\ g.dpsm = 0)]

VertexRegs == {"XYZ2", "XYZF2", "XYZ3", "XYZF3"}
DrawingRegs == {"XYZ2", "XYZF2"}

apply_ad_write(g, r, v) ==
  CASE r[1] = "PRIM"       -> SetPrim(g, v)
    [] r[1] = "RGBAQ"      -> [g EXCEPT !.rgba = v]
    [] r[1] \in VertexRegs -> apply_xyz2_kick(g, v, 0, r[1] \in DrawingRegs)
    [] r[1] = "FOG"        -> [g EXCEPT !.fog = v]
    [] r[1] \in {"UV", "ST"} -> [g EXCEPT !.uv = v]
    [] r[1] = "PRMODECONT" -> Logged([g EXCEPT !.prmodecont_ac = (v = 1)],
                                     [k |-> "prmodecont", v |-> v])
    [] r[1] = "PRMODE"     -> Logged([g EXCEPT !.prmode = v], [k |-> "prmode", v |-> v])
    [] r[2] # 0            -> CtxWrite(g, r, v)
    [] r[1] = "BITBLTBUF"  -> [g EXCEPT !.dpsm = v]
    [] r[1] = "TRXREG"     -> [g EXCEPT !.rrw = v % 16, !.rrh = v \div 16]
    [] r[1] = "TRXDIR"     -> TrxDir(g, v)
    [] r[1] = "FINISH"     -> [g EXCEPT !.finish_pending = @ + 1]
    [] OTHER               -> g

\* One PACKED quadword.  Here a vertex carries a depth, and XYZF its fog;
\* descriptors other than these are skipped.
PackedWrite(g, name, q) ==
  CASE name = "PRIM"  -> SetPrim(g, q.v)
    [] name = "RGBAQ" -> [g EXCEPT !.rgba = q.v]
    [] name \in VertexRegs ->
         apply_xyz2_kick(IF name \in {"XYZF2", "XYZF3"} THEN [g EXCEPT !.fog = q.w] ELSE g,
                         q.v, q.w, name \in DrawingRegs)
    [] name = "FOG"   -> [g EXCEPT !.fog = q.v]
    [] name = "A+D"   -> apply_ad_write(g, q.r, q.v)
    [] OTHER          -> g

----------------------------------------------------------------------------
(* The host-to-local image transfer.                                       *)

\* One pixel of a quadword: raster order inside the rectangle; the transfer
\* ends with the last row, and what follows is dropped.
ImagePixel(g, px) ==
  LET wrap == g.cur_x + 1 >= g.rrw
  IN  IF ~g.trx_active THEN g
      ELSE [g EXCEPT !.pixels = Append(@, <<g.cur_x, g.cur_y, px>>),
                     !.cur_x = IF wrap THEN 0 ELSE @ + 1,
                     !.cur_y = IF wrap THEN @ + 1 ELSE @,
                     !.trx_active = ~(wrap /\ g.cur_y + 1 >= g.rrh)]

QuadPixels(q) == [k \in 1 .. 4 |-> <<q.v, k>>]

image_write_pixel_qwords(g, s) ==
  FoldLeft(ImagePixel, g, FlattenSeq([i \in 1 .. Len(s) |-> QuadPixels(s[i])]))

----------------------------------------------------------------------------
(* process_one_packet: the tag at the head of s and the data it claims.    *)
(* The result is the state and the number of quadwords used.               *)

Smaller(a, b) == IF a < b THEN a ELSE b

Packed(g, t, data) ==
  LET rows == Smaller(t.nloop * Len(t.regs), Len(data))
  IN  [g |-> FoldLeft(LAMBDA h, n : PackedWrite(h, t.regs[((n - 1) % Len(t.regs)) + 1], data[n]),
                      g, [n \in 1 .. rows |-> n]),
       used |-> 1 + rows]

\* Two registers to the quadword; the address is the descriptor's.
RegList(g, t, data) ==
  LET total == t.nloop * Len(t.regs)
      regs == Smaller(total, 2 * Len(data))
      value(n) == LET q == data[(n + 1) \div 2] IN IF n % 2 = 1 THEN q.v ELSE q.w
  IN  [g |-> FoldLeft(LAMBDA h, n : apply_ad_write(h, <<t.regs[((n - 1) % Len(t.regs)) + 1], 0>>,
                                                   value(n)),
                      g, [n \in 1 .. regs |-> n]),
       used |-> 1 + Smaller((total + 1) \div 2, Len(data))]

\* Mutant: a packet that is cut short is forgotten.
ImageForgets(g, t, data) ==
  LET here == Smaller(t.nloop, Len(data))
  IN  [g |-> image_write_pixel_qwords(g, SubSeq(data, 1, here)), used |-> 1 + here]

\* Pixels the buffer does not hold are owed by the next one, if a transfer
\* is under way and they are few enough.  A packet that is cut short uses
\* the whole buffer.
Image(g, t, data) ==
  LET here == Smaller(t.nloop, Len(data))
      h == image_write_pixel_qwords(g, SubSeq(data, 1, here))
      short == t.nloop - here
  IN  [g |-> IF short = 0 THEN h
             ELSE [h EXCEPT !.image_carry =
                     IF h.trx_active /\ short <= CarryMax THEN short ELSE 0],
       used |-> 1 + here]

process_one_packet(g, s) ==
  LET t == AsTag(s[1])
      seen == [g EXCEPT !.last_eop = t.eop,
                        !.p3tag = IF g.path = Path3 THEN t.nloop ELSE @]
      h == IF t.pre THEN SetPrim(seen, t.prim) ELSE seen
  IN  CASE t.flg = "packed"  -> Packed(h, t, Tail(s))
        [] t.flg = "reglist" -> RegList(h, t, Tail(s))
        [] t.flg = "image"   -> Image(h, t, Tail(s))

----------------------------------------------------------------------------
(* gif_process_quadwords.                                                  *)

\* Pixels owed by an earlier call are taken from the head of this buffer,
\* whichever path it came by; none once the transfer is over.
DrainCarry(g, s) ==
  LET take == IF g.trx_active THEN Smaller(g.image_carry, Len(s)) ELSE 0
      h == image_write_pixel_qwords(g, SubSeq(s, 1, take))
  IN  [g |-> [h EXCEPT !.image_carry = IF h.trx_active THEN @ - take ELSE 0],
       used |-> take]

RECURSIVE Packets(_, _)
RECURSIVE PacketsAfter(_, _)
Packets(g, s) ==
  IF s = <<>> THEN g ELSE PacketsAfter(process_one_packet(g, s), s)

\* The rest of s after the packet r came from, unless it was the last.
PacketsAfter(r, s) ==
  IF r.g.last_eop THEN r.g ELSE Packets(r.g, SubSeq(s, r.used + 1, Len(s)))

Undrained(d, s) == Packets(d.g, SubSeq(s, d.used + 1, Len(s)))

GifProcess(g, path, s) ==
  Undrained(DrainCarry([g EXCEPT !.path = path,
                                 !.path1_transfers = IF path = Path1 THEN @ + 1 ELSE @], s), s)

=============================================================================
