-------------------------------- MODULE Dmac --------------------------------
(***************************************************************************)
(* The EE DMA controller: channel registers, normal and chained source     *)
(* transfers, and the status register behind the DMAC interrupt line.      *)
(* source/hw/dma.c; the sinks are the ones ee_core.c registers.            *)
(*                                                                         *)
(* A transfer runs to its end inside the store to CHCR that starts it, one *)
(* sink call per block of quadwords.  The operators act on the record st   *)
(* with the fields dma, vif, vu (one of each per VIF channel) and gif.     *)
(*                                                                         *)
(* Memory is a sequence of quadwords of four words; addresses and counts   *)
(* are in quadwords.                                                       *)
(***************************************************************************)
EXTENDS Vif

CONSTANTS
  MaxTags       \* MAX_TAGS_PER_KICK

ASSUME MaxTagsAssumption == MaxTags \in Nat \ {0}

VIF0 == "VIF0"
VIF1 == "VIF1"
GIF == "GIF"
Channels == {VIF0, VIF1, GIF}

\* The first word of a chain tag.  A quadword that is no tag reads as the
\* number zero does: REFE, no data.
DmaTag(id, qwc, addr) == [k |-> "dmatag", id |-> id, qwc |-> qwc, addr |-> addr]
TagQuad(id, qwc, addr) == <<DmaTag(id, qwc, addr), Word(0), Word(0), Word(0)>>
AsDmaTag(ws) == IF ws[1].k = "dmatag" THEN ws[1] ELSE DmaTag("REFE", 0, 0)

DmacInit ==
  [chan |-> [c \in Channels |-> [str |-> FALSE, mod |-> 0, madr |-> 0, qwc |-> 0,
                                 tadr |-> 0, error |-> "NONE"]],
   status |-> {}, mask |-> {}, enabled |-> FALSE, suspended |-> FALSE]

\* dma_dmac_interrupt_pending: the line to the EE core.
dma_dmac_interrupt_pending(d) ==
  d.enabled /\ ~d.suspended /\ d.status \cap d.mask # {}

\* D_STAT: a one clears a status bit and toggles a mask bit.
WriteDStat(d, clear, toggle) ==
  [d EXCEPT !.status = @ \ clear,
            !.mask = (@ \cup toggle) \ (@ \cap toggle)]

----------------------------------------------------------------------------
(* Transfers.                                                              *)

\* The sinks: VIF0, VIF1, and the GIF over PATH3.
Sink(st, c, quads) ==
  LET fed(r) == [st EXCEPT !.vif[c] = r.vif, !.vu[c] = r.vu, !.gif = r.gif]
  IN  IF c = GIF
      THEN [st EXCEPT !.gif = GifProcess(@, Path3, [n \in DOMAIN quads |-> Quad(quads[n])])]
      ELSE fed(VifProcess([vif |-> st.vif[c], vu |-> st.vu[c], gif |-> st.gif],
                          FlattenSeq(quads)))

InRam(ram, addr, qwc) == addr + qwc <= Len(ram)

transfer_quadwords(st, ram, c, addr, qwc) ==
  CASE qwc = 0 -> [ok |-> TRUE, st |-> st]
    [] ~InRam(ram, addr, qwc) -> [ok |-> FALSE, st |-> st]
    [] OTHER -> [ok |-> TRUE, st |-> Sink(st, c, SubSeq(ram, addr + 1, addr + qwc))]

Failed(st, c, error) == [st EXCEPT !.dma.chan[c].error = error]
Stopped(st, c) == [st EXCEPT !.dma.chan[c].str = FALSE]

\* dma_channel_signal_done, with the stop that goes with it here.
Done(st, c) == [Stopped(st, c) EXCEPT !.dma.status = @ \cup {c}]

CheckedSilently(r, c) == r.st  \* mutant: the error is not recorded
Checked(r, c) == IF r.ok THEN r.st ELSE Failed(r.st, c, "OUT_OF_BOUNDS")

Normal(st, ram, c) ==
  LET ch == st.dma.chan[c]
      moved(r) == IF r.ok THEN [r.st EXCEPT !.dma.chan[c].madr = @ + ch.qwc,
                                            !.dma.chan[c].qwc = 0]
                  ELSE Checked(r, c)
  IN  Done(moved(transfer_quadwords(st, ram, c, ch.madr, ch.qwc)), c)

\* CALL and RET are not followed.
Supported == {"REFE", "CNT", "NEXT", "REF", "REFS", "END"}

\* One tag after another until one ends the chain or the guard runs out.  The
\* data of a tag follows it or is where it points; so does the next tag.
RECURSIVE Chain(_, _, _, _)
RECURSIVE AfterTag(_, _, _, _, _, _)
Chain(st, ram, c, guard) ==
  LET tadr == st.dma.chan[c].tadr
      tag == AsDmaTag(ram[tadr + 1])
      from == IF tag.id \in {"CNT", "NEXT", "END"} THEN tadr + 1 ELSE tag.addr
  IN  IF guard = 0 \/ ~InRam(ram, tadr, 1) \/ tag.id \notin Supported
      THEN Stopped(Failed(st, c, "UNSUPPORTED_TAG"), c)
      ELSE AfterTag(transfer_quadwords(st, ram, c, from, tag.qwc), ram, c, tag, tadr, guard)

AfterTag(r, ram, c, tag, tadr, guard) ==
  LET next == CASE tag.id \in {"REFE", "REF", "REFS"} -> tadr + 1
                [] tag.id \in {"CNT", "END"} -> tadr + 1 + tag.qwc
                [] tag.id = "NEXT" -> tag.addr
      goto(s) == [s EXCEPT !.dma.chan[c].tadr = next]
  IN  CASE tag.id \in {"REFE", "END"} -> Done(goto(Checked(r, c)), c)
        [] r.ok  -> Chain(goto(r.st), ram, c, guard - 1)
        [] OTHER -> Checked(r, c)

dma_channel_kick(st, ram, c) ==
  LET ready == Failed(st, c, "NONE")
      mod == st.dma.chan[c].mod
  IN  CASE mod = 0 -> Normal(ready, ram, c)
        [] mod = 1 -> Chain(ready, ram, c, MaxTags)
        [] OTHER   -> Stopped(Failed(ready, c, "UNSUPPORTED_TAG"), c)

\* A store to CHCR: starts the transfer when it sets STR.
WriteChcr(st, ram, c, mod, str) ==
  LET s == [st EXCEPT !.dma.chan[c].mod = mod, !.dma.chan[c].str = str]
  IN  IF str THEN dma_channel_kick(s, ram, c) ELSE s

=============================================================================
