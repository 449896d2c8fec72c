-------------------------------- MODULE Vif --------------------------------
(***************************************************************************)
(* VIF0 and VIF1: the interpreter of the VIFcode stream a DMA transfer     *)
(* carries.  source/hw/vif.c, state vif_state_t.                           *)
(*                                                                         *)
(* vif_process is called once per block of quadwords the DMA controller    *)
(* transfers, so a command and its data may be cut anywhere between two    *)
(* calls.  It is an operator, VifProcess, on the record st with the fields *)
(* vif, vu (the VU this VIF feeds) and gif.                                *)
(*                                                                         *)
(* Words are those of Vu.tla plus the VIFcodes below.  A word that is no   *)
(* VIFcode executes as NOP, which is what a small number decodes to.       *)
(***************************************************************************)
EXTENDS Vu

Code(cmd, imm, num) == [k |-> "code", cmd |-> cmd, imm |-> imm, num |-> num]

\* UNPACK: format, mask enable, unsigned, TOPS-relative, address, vectors.
Unpack(vn, vl, m, usn, flg, addr, num) ==
  [k |-> "code", cmd |-> "UNPACK", vn |-> vn, vl |-> vl, m |-> m, usn |-> usn,
   flg |-> flg, imm |-> addr, num |-> num]

AsCode(w) == IF w.k = "code" THEN w ELSE Code("NOP", 0, 0)

NoUnpack == Code("NOP", 0, 0)

VifInit(isVif1) ==
  [is_vif1 |-> isVif1, cl |-> 0, wl |-> 0, mode |-> 0, mark |-> 0, mask |-> 0,
   row |-> [l \in 1 .. 4 |-> Word(0)], col |-> [l \in 1 .. 4 |-> Word(0)],
   itops |-> 0, base |-> 0, ofst |-> 0, tops |-> 0,
   codes_processed |-> 0, unsupported |-> 0,
   mpg_words |-> 0, mpg_addr |-> 0,
   unpack_code |-> NoUnpack, unpack_needed |-> 0, unpack_buffer |-> <<>>]

----------------------------------------------------------------------------
(* UNPACK.                                                                 *)

\* VIF_UNPACK_SIZE: bytes of source data per vector, 0 when reserved.
VIF_UNPACK_SIZE(c) ==
  CASE c.vl = 3 -> IF c.vn = 3 THEN 2 ELSE 0
    [] OTHER    -> ((c.vn + 1) * 4) \div 2^c.vl

ComponentWidth(c) == CASE c.vl = 0 -> 4 [] c.vl = 2 -> 1 [] OTHER -> 2

\* Bytes the decoder looks at for one vector; V3 is read as V4.
ReadSpan(c) ==
  CASE c.vn = 3 /\ c.vl = 3 -> 2
    [] c.vn \in {0, 1}      -> (c.vn + 1) * ComponentWidth(c)
    [] OTHER                -> 4 * ComponentWidth(c)

\* STCYCL: WL vectors are written out of CL (skipping write) or CL are read
\* for WL written (filling write).
WlEff(vif) == IF vif.wl = 0 THEN 256 ELSE vif.wl
IsFill(vif) == vif.cl < WlEff(vif)

\* How the source and block cursors move after one vector.
Advance(vif, c, cur) ==
  LET bp == cur.bp + 1
      read == IF IsFill(vif) THEN bp <= vif.cl ELSE TRUE
      full == IF IsFill(vif) THEN ~read /\ bp = WlEff(vif) ELSE bp >= WlEff(vif)
  IN  [src |-> IF read THEN cur.src + VIF_UNPACK_SIZE(c) ELSE cur.src,
       bp |-> IF full THEN 0 ELSE bp,
       addr |-> cur.addr + 1 + (IF full /\ ~IsFill(vif) THEN vif.cl - WlEff(vif) ELSE 0),
       end |-> IF cur.src + ReadSpan(c) > cur.end THEN cur.src + ReadSpan(c) ELSE cur.end]

\* NUM and IMM counts of zero stand for the largest count.
Count(n, largest) == IF n = 0 THEN largest ELSE n
Times(n) == [i \in 1 .. n |-> i]

Start(addr) == [src |-> 0, bp |-> 0, addr |-> addr, end |-> 0]

WordsOf(bytes) == (bytes + 3) \div 4

\* vif_unpack_needed_bytes, in words: the dry run.
NeededWords(vif, c) ==
  LET step(cur, n) == Advance(vif, c, cur)
  IN  IF VIF_UNPACK_SIZE(c) = 0 THEN 0
      ELSE WordsOf(FoldLeft(step, Start(0), Times(Count(c.num, 256))).end)

\* vif_rd_bytes_le and vif_extend: one component, zero past the buffer.
Component(data, off, c) ==
  LET width == ComponentWidth(c)
      w == data[(off \div 4) + 1]
      raw == (Value(w) \div 256^(off % 4)) % 256^width
  IN  IF off + width > 4 * Len(data) THEN Word(0)
      ELSE IF width = 4 THEN w
      ELSE Word(IF c.usn \/ raw < 256^width \div 2 THEN raw ELSE raw - 256^width)

\* V4-5: a 16-bit colour spread over four lanes.
SpreadColour(raw) ==
  <<Word((raw % 32) * 8), Word(((raw \div 32) % 32) * 8),
    Word(((raw \div 1024) % 32) * 8), Word((raw \div 32768) * 128)>>
Colour(data, off) ==
  SpreadColour(Value(Component(data, off, Unpack(0, 1, FALSE, TRUE, FALSE, 0, 1))))

Lanes(data, off, c) ==
  LET at(n) == Component(data, off + n * ComponentWidth(c), c)
  IN  CASE c.vn = 3 /\ c.vl = 3 -> Colour(data, off)
        [] c.vn \in {0, 1} -> [l \in 1 .. 4 |-> at((l - 1) % (c.vn + 1))]
        [] OTHER -> [l \in 1 .. 4 |-> at(l - 1)]

\* Mutant: the block position does not select the field.
MaskFieldFirst(vif, c, bp, l) ==
  IF c.m THEN (vif.mask \div 4^(l - 1)) % 4 ELSE 0

\* The mask field for a lane at a block position: 0 data, 1 row, 2 column,
\* 3 write-protect.
MaskField(vif, c, bp, l) ==
  IF c.m THEN (vif.mask \div 4^(4 * bp + l - 1)) % 4 ELSE 0

\* vif_unpack_write_lane on the four lanes: what reaches memory, and the row
\* registers it leaves.
WriteVector(st, c, cur, lanes) ==
  LET vif == st.vif
      bp == IF cur.bp > 3 THEN 3 ELSE cur.bp
      a == cur.addr % VuMemQuads
      mode == IF c.vn = 3 /\ c.vl = 3 THEN 0 ELSE vif.mode
      field(l) == MaskField(vif, c, bp, l)
      sum(l) == Word(Value(lanes[l]) + Value(vif.row[l]))
      data(l) == IF mode \in {1, 2} THEN sum(l) ELSE lanes[l]
      out == [l \in 1 .. 4 |-> CASE field(l) = 0 -> data(l)
                                 [] field(l) = 1 -> vif.row[l]
                                 [] field(l) = 2 -> vif.col[bp + 1]
                                 [] OTHER -> st.vu.mem[a][l]]
      row == [l \in 1 .. 4 |-> IF field(l) = 0 /\ mode \in {2, 3}
                               THEN data(l) ELSE vif.row[l]]
  IN  [st EXCEPT !.vu.mem[a] = out, !.vif.row = row]

\* vif_unpack: the payload is at the head of data; cur.end is then one past
\* the last byte looked at.
vif_unpack(st, c, data) ==
  LET addr == IF st.vif.is_vif1 /\ c.flg THEN c.imm + st.vif.tops ELSE c.imm
  IN  FoldLeft(LAMBDA x, n : [st |-> WriteVector(x.st, c, x.cur, Lanes(data, x.cur.src, c)),
                              cur |-> Advance(st.vif, c, x.cur)],
               [st |-> st, cur |-> Start(addr)], Times(Count(c.num, 256)))

----------------------------------------------------------------------------
(* Commands.  Each takes the words after its code and returns the state    *)
(* and the words left.                                                     *)

Drop(ws, n) == SubSeq(ws, n + 1, Len(ws))
Took(st, ws, n) == [st |-> st, rest |-> Drop(ws, n)]

Unsupported(st) == [st EXCEPT !.vif.unsupported = @ + 1]
OnVif1(st, to) == IF st.vif.is_vif1 THEN to ELSE Unsupported(st)

\* The payload goes to micro memory two words to the instruction; what the
\* buffer lacks is written by the next call.
MpgWrite(st, addr, ws, n) ==
  [st EXCEPT !.vu.micro = [a \in DOMAIN @ |->
     LET i == (a - addr) % (2 * VuMicroPairs)
     IN  IF i < n THEN ws[i + 1] ELSE @[a]]]

Mpg(st, c, ws) ==
  LET wanted == 2 * Count(c.num, 256)
      n == Smaller(wanted, Len(ws))
      done == MpgWrite(st, 2 * c.imm, ws, n)
  IN  Took(IF n < wanted
           THEN [done EXCEPT !.vif.mpg_addr = 2 * c.imm + n,
                             !.vif.mpg_words = wanted - n]
           ELSE done, ws, n)

\* The payload is collected until it is whole, then unpacked.  A reserved
\* format ends the call.
UnpackCode(st, c, ws) ==
  LET needed == NeededWords(st.vif, c)
      unpacked(r) == Took(r.st, ws, Smaller(WordsOf(r.cur.end), Len(ws)))
  IN  CASE needed = 0 -> [st |-> Unsupported(st), rest |-> <<>>]
        [] needed > Len(ws) ->
             [st |-> [st EXCEPT !.vif.unpack_code = c, !.vif.unpack_needed = needed,
                                !.vif.unpack_buffer = ws],
              rest |-> <<>>]
        [] OTHER -> unpacked(vif_unpack(st, c, ws))

\* Only the quadwords in this buffer are forwarded.
Direct(st, c, ws) ==
  LET n == Smaller(4 * Count(c.imm, 65536), Len(ws))
      quads == [i \in 1 .. n \div 4 |-> Quad(SubSeq(ws, 4 * i - 3, 4 * i))]
  IN  IF ~st.vif.is_vif1 THEN Took(Unsupported(st), ws, 0)
      ELSE Took(IF n > 0 THEN [st EXCEPT !.gif = GifProcess(@, Path2, quads)] ELSE st,
                ws, n)

\* STROW and STCOL take the words that are there, up to four.
Four(old, ws) ==
  [l \in 1 .. 4 |-> IF l <= Len(ws) THEN ws[l] ELSE old[l]]

Exec(st, c, ws) ==
  LET vif == st.vif
  IN  CASE c.cmd = "UNPACK" -> UnpackCode(st, c, ws)
        [] c.cmd = "STCYCL" -> Took([st EXCEPT !.vif.cl = c.imm, !.vif.wl = c.num], ws, 0)
        [] c.cmd = "OFFSET" -> Took(OnVif1(st, [st EXCEPT !.vif.ofst = c.imm % VuMemQuads,
                                                          !.vif.tops = vif.base]), ws, 0)
        [] c.cmd = "BASE"   -> Took(OnVif1(st, [st EXCEPT !.vif.base = c.imm % VuMemQuads]), ws, 0)
        [] c.cmd = "ITOP"   -> Took([st EXCEPT !.vif.itops = c.imm % VuMemQuads], ws, 0)
        [] c.cmd = "STMOD"  -> Took([st EXCEPT !.vif.mode = c.imm % 4], ws, 0)
        [] c.cmd = "MARK"   -> Took([st EXCEPT !.vif.mark = c.imm], ws, 0)
        [] c.cmd \in {"MSKPATH3", "FLUSH", "FLUSHA"} -> Took(OnVif1(st, st), ws, 0)
        [] c.cmd \in {"MSCAL", "MSCALF", "MSCNT"} ->
             Took(RunMicro(IF c.cmd = "MSCNT" THEN vu_exec_micro_continue(st)
                           ELSE vu_exec_micro(st, c.imm), vif.is_vif1, VuStepCap), ws, 0)
        [] c.cmd = "STMASK" -> Took(IF ws = <<>> THEN st
                                    ELSE [st EXCEPT !.vif.mask = Value(ws[1])],
                                    ws, Smaller(1, Len(ws)))
        [] c.cmd = "STROW"  -> Took([st EXCEPT !.vif.row = Four(@, ws)], ws, Smaller(4, Len(ws)))
        [] c.cmd = "STCOL"  -> Took([st EXCEPT !.vif.col = Four(@, ws)], ws, Smaller(4, Len(ws)))
        [] c.cmd = "MPG"    -> Mpg(st, c, ws)
        [] c.cmd \in {"DIRECT", "DIRECTHL"} -> Direct(st, c, ws)
        [] c.cmd \in {"NOP", "FLUSHE"} -> Took(st, ws, 0)
        [] OTHER            -> Took(Unsupported(st), ws, 0)

----------------------------------------------------------------------------
(* vif_process: what an earlier call owes comes first.                     *)

ResumeMpg(st, ws) ==
  LET vif == st.vif
      n == Smaller(vif.mpg_words, Len(ws))
  IN  Took([MpgWrite(st, vif.mpg_addr, ws, n) EXCEPT !.vif.mpg_addr = @ + n,
                                                     !.vif.mpg_words = @ - n],
           ws, n)

\* The payload so far: unpacked when it is whole.
Collected(st, buffer) ==
  IF Len(buffer) < st.vif.unpack_needed
  THEN [st EXCEPT !.vif.unpack_buffer = buffer]
  ELSE [vif_unpack(st, st.vif.unpack_code, buffer).st
          EXCEPT !.vif.unpack_code = NoUnpack, !.vif.unpack_needed = 0,
                 !.vif.unpack_buffer = <<>>]

\* Mutant: what has already arrived is asked for again.
ResumeUnpackAgain(st, ws) ==
  LET n == Smaller(st.vif.unpack_needed, Len(ws))
  IN  Took(Collected(st, st.vif.unpack_buffer \o SubSeq(ws, 1, n)), ws, n)

ResumeUnpack(st, ws) ==
  LET n == Smaller(st.vif.unpack_needed - Len(st.vif.unpack_buffer), Len(ws))
  IN  Took(Collected(st, st.vif.unpack_buffer \o SubSeq(ws, 1, n)), ws, n)

\* The VIFcodes of what is left.
RECURSIVE Codes(_)
Codes(r) ==
  IF r.rest = <<>> THEN r.st
  ELSE Codes(Exec([r.st EXCEPT !.vif.codes_processed = @ + 1], AsCode(r.rest[1]), Tail(r.rest)))

OwedUnpack(r) == IF r.st.vif.unpack_needed > 0 THEN ResumeUnpack(r.st, r.rest) ELSE r
OwedMpg(st, ws) == IF st.vif.mpg_words > 0 THEN ResumeMpg(st, ws) ELSE Took(st, ws, 0)

VifProcess(st, ws) == Codes(OwedUnpack(OwedMpg(st, ws)))

=============================================================================
