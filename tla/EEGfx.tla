-------------------------------- MODULE EEGfx -------------------------------
(***************************************************************************)
(* The EE graphics path: an EE program feeds two streams, one to VIF1 (or  *)
(* VIF0) and one to the GIF, through the DMA controller.  It cuts them     *)
(* into transfers as it likes, in normal or chain mode, and interleaves    *)
(* the channels as it likes.  Each store to CHCR runs a transfer to its    *)
(* end: DMAC, VIF, VU, GIF and the GS front end all act inside it.         *)
(*                                                                         *)
(* The program keeps the packet discipline the code relies on (CutAllowed, *)
(* below): DIRECT, STMASK, STROW and STCOL data, and the rows of a PACKED  *)
(* or REGLIST packet, arrive in one block; MPG, UNPACK and IMAGE data may  *)
(* be cut anywhere.                                                        *)
(***************************************************************************)
EXTENDS Dmac

CONSTANTS
  Programs,     \* a sequence of records [vifch, vif, gif, faulty]: the
                \* streams, and whether the program builds bad chains
  MaxBlock,     \* the largest block of quadwords one tag transfers
  Exclusive     \* TRUE: VIF transfers wait while an image is owed pixels

ASSUME GfxAssumption == MaxBlock \in Nat \ {0} /\ Exclusive \in BOOLEAN

VARIABLES
  dma, vif, vu, gif,
  prog,         \* the program that runs (its index)
  sent,         \* quadwords of its stream each channel has been given
  fault         \* whether the channel's last transfer was in error

vars == <<dma, vif, vu, gif, prog, sent, fault>>

VifChannels == {VIF0, VIF1}
VifChannel == Programs[prog].vifch
Stream(c) == CASE c = GIF -> Programs[prog].gif
               [] c = VifChannel -> Programs[prog].vif
               [] OTHER -> <<>>

Init ==
  /\ dma = DmacInit
  /\ vif = [c \in VifChannels |-> VifInit(c = VIF1)]
  /\ vu = [c \in VifChannels |-> VuInit]
  /\ gif = GifInit
  /\ prog \in DOMAIN Programs
  /\ sent = [c \in Channels |-> 0]
  /\ fault = [c \in Channels |-> FALSE]

----------------------------------------------------------------------------
(* Where a stream may be cut.                                              *)

\* Words of payload that have to arrive with their VIFcode.
Unsplit(c) ==
  CASE c.cmd = "STMASK" -> 1
    [] c.cmd \in {"STROW", "STCOL"} -> 4
    [] c.cmd \in {"DIRECT", "DIRECTHL"} -> 4 * c.imm
    [] OTHER -> 0

VifCutAllowed(ws, n) ==
  \A j \in 1 .. n : ws[j].k = "code" => j + Unsplit(ws[j]) <= n

\* Quadwords of data that have to arrive with their GIFtag.
Rows(t) ==
  CASE t.k # "tag" \/ t.flg = "image" -> 0
    [] t.flg = "packed" -> t.nloop * Len(t.regs)
    [] OTHER -> (t.nloop * Len(t.regs) + 1) \div 2

GifCutAllowed(qs, n) == \A j \in 1 .. n : j + Rows(qs[j]) <= n

Quads(s) == [n \in DOMAIN s |-> Quad(s[n])]

CutAllowed(c, n) ==
  IF c = GIF THEN GifCutAllowed(Quads(Stream(c)), n)
  ELSE VifCutAllowed(FlattenSeq(Stream(c)), 4 * n)

----------------------------------------------------------------------------
(* The program's memory: the two streams, then the chain it builds.        *)

StreamAddr(c) == IF c = GIF THEN Len(Stream(VifChannel)) ELSE 0
ChainAddr == Len(Stream(VifChannel)) + Len(Stream(GIF))
StreamRam == Stream(VifChannel) \o Stream(GIF)

Block(c, from, n) == SubSeq(Stream(c), from + 1, from + n)

\* A chain for the next n and then m quadwords of a stream: by reference, or
\* in line, or in line with the second tag elsewhere.
ChainOf(kind, c, n, m) ==
  LET at == StreamAddr(c) + sent[c]
      first == Block(c, sent[c], n)
      second == Block(c, sent[c] + n, m)
      gap == TagQuad("CALL", 0, 0)
  IN  CASE kind = "ref"  -> <<TagQuad("REF", n, at), TagQuad("REFE", m, at + n)>>
        [] kind = "cnt"  -> <<TagQuad("CNT", n, 0)>> \o first
                            \o <<TagQuad("END", m, 0)>> \o second
        [] kind = "next" -> <<TagQuad("NEXT", n, ChainAddr + n + 2)>> \o first
                            \o <<gap, TagQuad("END", m, 0)>> \o second

\* A chain for the next n quadwords and then a tag in error: data past the
\* end of memory, a tag the controller does not follow, or no end.
FaultyChain(kind, c, n) ==
  LET at == StreamAddr(c) + sent[c]
      here == ChainAddr + 1
  IN  <<TagQuad("REF", n, at),
        CASE kind = "beyond" -> TagQuad("CNT", MaxBlock + 1, 0)
          [] kind = "last"   -> TagQuad("END", MaxBlock + 1, 0)
          [] kind = "call"   -> TagQuad("CALL", 0, 0)
          [] kind = "cycle"  -> TagQuad("NEXT", 0, here)
          [] kind = "lost"   -> TagQuad("NEXT", 0, here + 1)>>

----------------------------------------------------------------------------
(* Actions.                                                                *)

Machine == [dma |-> dma, vif |-> vif, vu |-> vu, gif |-> gif]

Becomes(st) == dma' = st.dma /\ vif' = st.vif /\ vu' = st.vu /\ gif' = st.gif

\* The program waits for an image the GIF is in the middle of.
MayStart(c) == ~(Exclusive /\ c # GIF /\ gif.image_carry > 0)

\* MADR and QWC, then CHCR.
SendNormal(c, n) ==
  LET st == [Machine EXCEPT !.dma.chan[c].madr = StreamAddr(c) + sent[c],
                            !.dma.chan[c].qwc = n]
  IN  /\ MayStart(c)
      /\ sent[c] + n <= Len(Stream(c))
      /\ CutAllowed(c, sent[c] + n)
      /\ Becomes(WriteChcr(st, StreamRam, c, 0, TRUE))
      /\ sent' = [sent EXCEPT ![c] = @ + n]
      /\ fault' = [fault EXCEPT ![c] = FALSE]
      /\ UNCHANGED prog

\* The chain, TADR, then CHCR.
SendChain(c, kind, n, m) ==
  LET st == [Machine EXCEPT !.dma.chan[c].tadr = ChainAddr]
  IN  /\ MayStart(c)
      /\ sent[c] + n + m <= Len(Stream(c))
      /\ CutAllowed(c, sent[c] + n)
      /\ CutAllowed(c, sent[c] + n + m)
      /\ Becomes(WriteChcr(st, StreamRam \o ChainOf(kind, c, n, m), c, 1, TRUE))
      /\ sent' = [sent EXCEPT ![c] = @ + n + m]
      /\ fault' = [fault EXCEPT ![c] = FALSE]
      /\ UNCHANGED prog

SendFaulty(c, kind, n) ==
  LET st == [Machine EXCEPT !.dma.chan[c].tadr = ChainAddr]
  IN  /\ MayStart(c)
      /\ Programs[prog].faulty
      /\ sent[c] + n <= Len(Stream(c))
      /\ CutAllowed(c, sent[c] + n)
      /\ Becomes(WriteChcr(st, StreamRam \o FaultyChain(kind, c, n), c, 1, TRUE))
      /\ sent' = [sent EXCEPT ![c] = @ + n]
      /\ fault' = [fault EXCEPT ![c] = TRUE]
      /\ UNCHANGED prog

\* The DMAC handler: clears the status bits it saw.
Service ==
  /\ dma.status # {}
  /\ dma' = WriteDStat(dma, dma.status, {})
  /\ UNCHANGED <<vif, vu, gif, prog, sent, fault>>

Next ==
  \/ \E c \in Channels :
       /\ sent[c] < Len(Stream(c))
       /\ \/ \E n \in 1 .. MaxBlock : SendNormal(c, n)
          \/ \E n, m \in 1 .. MaxBlock, kind \in {"ref", "cnt", "next"} :
               SendChain(c, kind, n, m)
          \/ \E n \in 0 .. 1, kind \in {"beyond", "last", "call", "cycle", "lost"} :
               SendFaulty(c, kind, n)
  \/ Service

Spec == Init /\ [][Next]_vars

----------------------------------------------------------------------------
(* What the DMA controller promises.                                       *)

\* A transfer that ended in error says so, one that did not has cleared STR;
\* a channel whose STR is still set after dma_channel_kick reports data out
\* of bounds, so that a program which reads the error never takes a dead
\* channel for a busy one.
KickSettles ==
  \A c \in Channels :
    LET ch == dma.chan[c]
    IN  /\ fault[c] <=> ch.error # "NONE"
        /\ ch.str => ch.error = "OUT_OF_BOUNDS"

----------------------------------------------------------------------------
(* What the VIF promises.                                                  *)

Given(c) == FlattenSeq(Block(c, 0, sent[c]))

\* However the program divided the stream into transfers and chain tags, the VIF
\* and its VU are where they would be had vif_process seen everything so far in
\* one buffer (mpg_pending and unpack_pending, vif.h); and it has executed exactly
\* the VIFcodes of the stream so far, never data for a command.
VifExact ==
  LET c == VifChannel
      ws == Given(c)
      \* mpg_pending_addr means nothing once nothing is pending
      live(v) == IF v.mpg_words = 0 THEN [v EXCEPT !.mpg_addr = 0] ELSE v
      agrees(whole) == live(vif[c]) = live(whole.vif) /\ vu[c] = whole.vu
  IN  /\ agrees(VifProcess([vif |-> VifInit(c = VIF1), vu |-> VuInit, gif |-> GifInit], ws))
      /\ vif[c].codes_processed = Cardinality({j \in DOMAIN ws : ws[j].k = "code"})
      /\ vif[c].unsupported = 0

\* The reference for UNPACK: which vector of the data ends up where, without
\* cursors.  The command is the word j of ws; the registers in force are the
\* ones the commands before it set.
Commands(ws, j, cmd) == {i \in 1 .. j - 1 : ws[i].k = "code" /\ ws[i].cmd = cmd}
Latest(S) == CHOOSE i \in S : \A h \in S : h <= i
SetBy(ws, j, cmd, f, default) ==
  LET S == Commands(ws, j, cmd) IN IF S = {} THEN default ELSE f[Latest(S)]

RefUnpack(ws, j) ==
  LET c == ws[j]
      field(name) == [i \in DOMAIN ws |-> IF ws[i].k = "code" THEN ws[i][name] ELSE 0]
      after(n) == [i \in DOMAIN ws |-> IF i + n \in DOMAIN ws THEN ws[i + n] ELSE Word(0)]
      cl == SetBy(ws, j, "STCYCL", field("imm"), 0)
      wl == SetBy(ws, j, "STCYCL", field("num"), 0)
      mode == IF c.vl = 3 THEN 0 ELSE SetBy(ws, j, "STMOD", field("imm"), 0)
      mask == Value(SetBy(ws, j, "STMASK", after(1), Word(0)))
      row(l) == Value(SetBy(ws, j, "STROW", after(l), Word(0)))
      col(n) == Value(SetBy(ws, j, "STCOL", after(n), Word(0)))
      tops == IF c.flg THEN SetBy(ws, j, "BASE", field("imm"), 0) ELSE 0
      addr(i) == (c.imm + tops + (i \div wl) * cl + (i % wl)) % VuMemQuads
      pos(i) == IF i % wl > 3 THEN 3 ELSE i % wl
      m(i, l) == IF c.m THEN (mask \div 4^(4 * pos(i) + l - 1)) % 4 ELSE 0
      lane(i, l) == Value(Lanes(SubSeq(ws, j + 1, Len(ws)), i * VIF_UNPACK_SIZE(c), c)[l])
      \* the data lanes written to l before vector i
      before(i, l) == {h \in 0 .. i - 1 : m(h, l) = 0}
      rowAt(i, l) ==
        CASE mode = 2 -> row(l) + FoldLeft(LAMBDA s, h : s + (IF m(h, l) = 0 THEN lane(h, l) ELSE 0),
                                           0, [n \in 1 .. i |-> n - 1])
          [] mode = 3 /\ before(i, l) # {} -> lane(Latest(before(i, l)), l)
          [] OTHER -> row(l)
      value(i, l) ==
        CASE m(i, l) = 0 -> lane(i, l) + (IF mode \in {1, 2} THEN rowAt(i, l) ELSE 0)
          [] m(i, l) = 1 -> rowAt(i, l)
          [] m(i, l) = 2 -> col(pos(i) + 1)
      writers(a, l) == {i \in 0 .. c.num - 1 : addr(i) = a /\ m(i, l) # 3}
  IN  [a \in 0 .. VuMemQuads - 1 |-> [l \in 1 .. 4 |->
         IF writers(a, l) = {} THEN 0 ELSE value(Latest(writers(a, l)), l)]]

\* Once the data of the only UNPACK of a stream has arrived, VU memory holds
\* every vector at the address, and every lane with the value, that STCYCL,
\* STMOD, STMASK, STROW, STCOL and TOPS call for (vif_unpack).
UnpackExact ==
  LET c == VifChannel
      ws == FlattenSeq(Stream(c))
      unpacks == Commands(ws, Len(ws) + 1, "UNPACK")
  IN  sent[c] = Len(Stream(c)) /\ Cardinality(unpacks) = 1
      /\ Commands(ws, Len(ws) + 1, "MSCAL") = {}
      => \A a \in 0 .. VuMemQuads - 1, l \in 1 .. 4 :
           Value(vu[c].mem[a][l]) = RefUnpack(ws, Latest(unpacks))[a][l]

----------------------------------------------------------------------------
(* What the VU promises.                                                   *)

Conditional == {"IBEQ", "IBNE", "IBLTZ", "IBGTZ", "IBLEZ", "IBGEZ"}

\* A microprogram runs straight on except that the pair after a branch is
\* followed by the branch's target; MSCAL starts at its address and MSCNT
\* where the last run left off, in a pending branch if there was one; a run
\* ends with the pair after the first E bit, and not before (vu_micro_step).
MicroPath ==
  \A c \in VifChannels :
    LET u == vu[c]
        low(p) == AsLower(u.micro[2 * p])
        ebit(p) == AsUpper(u.micro[2 * p + 1]).e
        pcs == FlattenSeq([r \in DOMAIN u.runs |-> u.runs[r].pcs])
        first(r) == Len(FlattenSeq([h \in 1 .. r - 1 |-> u.runs[h].pcs])) + 1
        starts == {first(r) : r \in {h \in DOMAIN u.runs : u.runs[h].at # Resumed}}
        ahead(p) == (p + 1) % VuMicroPairs
        target(p) == (p + 1 + low(p).imm) % VuMicroPairs
        branch(i) == i > 1 /\ i \notin starts /\ low(pcs[i - 1]).op \in {"B", "BAL"} \cup Conditional
    IN  /\ \A i \in DOMAIN pcs \ starts :
             \/ branch(i - 1) /\ pcs[i] = target(pcs[i - 2])
             \/ ~(branch(i - 1) /\ low(pcs[i - 2]).op \notin Conditional)
                /\ pcs[i] = ahead(pcs[i - 1])
        /\ \A r \in DOMAIN u.runs :
             LET run == u.runs[r].pcs
             IN  /\ u.runs[r].at \in {Resumed, run[1]}
                 /\ \A i \in DOMAIN run : ebit(run[i]) <=> i = Len(run) - 1

----------------------------------------------------------------------------
(* What the GIF and the GS front end promise.                              *)

\* Reference: the primitive a vertex write completes, from the vertices since
\* the last write to PRIM.
LogLast(i, kind) == LET S == {h \in 1 .. i : gif.log[h].k = kind}
                    IN  IF S = {} THEN 0 ELSE Latest(S)
LogValue(i, kind, default) ==
  IF LogLast(i, kind) = 0 THEN default ELSE gif.log[LogLast(i, kind)].v

Queue(i) ==
  [n \in DOMAIN SelectSeq(SubSeq(gif.log, LogLast(i, "prim") + 1, i), LAMBDA e : e.k = "vertex") |->
     SelectSeq(SubSeq(gif.log, LogLast(i, "prim") + 1, i), LAMBDA e : e.k = "vertex")[n].v]

Completed(type, q) ==
  LET n == Len(q)
  IN  CASE type = POINT -> <<q[n]>>
        [] type = LINE /\ n % 2 = 0 -> <<q[n - 1], q[n]>>
        [] type = LINE_STRIP /\ n >= 2 -> <<q[n - 1], q[n]>>
        [] type = TRIANGLE /\ n % 3 = 0 -> <<q[n - 2], q[n - 1], q[n]>>
        [] type = TRIANGLE_STRIP /\ n >= 3 -> <<q[n - 2], q[n - 1], q[n]>>
        [] type = TRIANGLE_FAN /\ n >= 3 -> <<q[1], q[n - 1], q[n]>>
        [] type = SPRITE /\ n % 2 = 0 -> <<[q[n - 1] EXCEPT !.rgba = 0], q[n]>>
        [] OTHER -> <<>>

\* Reference: the registers of the context in force, each the value last
\* written to that context's copy.
ContextRegs(i) ==
  LET ctxt == IF LogValue(i, "prmodecont", 1) = 1 THEN PrimCtxt(LogValue(i, "prim", 0))
              ELSE PrimCtxt(LogValue(i, "prmode", 0))
      writes(g) == {h \in 1 .. i : gif.log[h].k = "ctx" /\ gif.log[h].r[2] = ctxt + 1
                                   /\ g \in GroupsOf(gif.log[h].r[1])}
  IN  [g \in CtxGroups |-> IF writes(g) = {} THEN 0 ELSE gif.log[Latest(writes(g))].v]

\* Everything drawn is what the vertex queue calls for and nothing else is
\* drawn, with the registers of the context PRIM or PRMODE selects, whatever
\* paths the register writes came by (apply_xyz2_kick, gs_activate_context).
DrawnExact ==
  gif.drawn = FlattenSeq([i \in DOMAIN gif.log |->
    LET e == gif.log[i]
        type == PrimType(LogValue(i, "prim", 0))
        vs == Completed(type, Queue(i))
    IN  IF e.k = "vertex" /\ e.kick /\ vs # <<>>
        THEN <<[type |-> type, vs |-> vs, regs |-> ContextRegs(i)]>>
        ELSE <<>>])

\* The pixels of an IMAGE packet arrive once each and in raster order, and
\* nothing else does, however the packet is cut (image_carry, gif.h).
ImageExact ==
  LET qs == Quads(Block(GIF, 0, sent[GIF]))
      tags == {j \in DOMAIN qs : qs[j].k = "tag" /\ qs[j].flg = "image"}
      data == IF tags = {} THEN <<>>
              ELSE SubSeq(qs, Latest(tags) + 1,
                          Smaller(Len(qs), Latest(tags) + qs[Latest(tags)].nloop))
      px == FlattenSeq([n \in DOMAIN data |-> QuadPixels(data[n])])
  IN  gif.pixels = [n \in 1 .. Smaller(Len(px), gif.rrw * gif.rrh) |->
                      <<(n - 1) % gif.rrw, (n - 1) \div gif.rrw, px[n]>>]

=============================================================================
