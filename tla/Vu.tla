--------------------------------- MODULE Vu ---------------------------------
(***************************************************************************)
(* The VU micro-mode interpreter: pairs of an upper and a lower            *)
(* instruction, the delay slots of branches and of the E bit, and the      *)
(* XGKICK that sends a packet from VU memory to the GIF over PATH1.        *)
(* source/hw/vu.c; both VUs run vu_micro_step, VU0 without a GIF.          *)
(*                                                                         *)
(* A run is synchronous: MSCAL and MSCNT return when the program has       *)
(* stopped.  A step is therefore an operator on the record st with the     *)
(* fields vu and gif.  Vector arithmetic is abstracted: an upper           *)
(* instruction leaves an opaque word in its destination register.          *)
(***************************************************************************)
EXTENDS Gif

CONSTANTS
  VuMemQuads,    \* size of VU data memory, in quadwords
  VuMicroPairs,  \* size of VU micro memory, in instruction pairs
  VuStepCap      \* VU_EXEC_STEP_CAP

ASSUME VuAssumption ==
  /\ VuMemQuads \in Nat \ {0}
  /\ VuMicroPairs \in Nat \ {0}
  /\ VuStepCap \in Nat

----------------------------------------------------------------------------
(* Words: a number, a quarter of a GIF quadword, half an instruction pair, *)
(* or a VIFcode.                                                           *)

Word(d) == [k |-> "word", d |-> d]
Part(q, n) == [k |-> "part", q |-> q, n |-> n]
Opaque == [k |-> "opaque"]
Value(w) == IF w.k = "word" THEN w.d ELSE 0

\* The quadword four consecutive words make up.
Quad(ws) ==
  IF \A n \in 1 .. 4 : ws[n].k = "part" /\ ws[n].n = n /\ ws[n].q = ws[1].q
  THEN ws[1].q
  ELSE Datum(NoReg, Value(ws[1]), 0)

\* Instruction words.  A word that is no instruction executes as a no-op.
Upper(e, i, fd) == [k |-> "upper", e |-> e, i |-> i, fd |-> fd]
Lower(op, rt, rs, imm) ==
  [k |-> "lower", op |-> op, rt |-> rt, rs |-> rs, rd |-> 0, lane |-> 1, imm |-> imm]
AsUpper(w) == IF w.k = "upper" THEN w ELSE Upper(FALSE, FALSE, 0)
AsLower(w) == IF w.k = "lower" THEN w ELSE Lower("NOP", 0, 0, 0)

One == 1065353216   \* the bits of 1.0

\* VF00 reads as (0, 0, 0, 1.0).
VuInit ==
  [vi |-> [r \in 0 .. 3 |-> 0], vf |-> [r \in 0 .. 1 |-> [l \in 1 .. 4 |-> Word(IF r = 0 /\ l = 4 THEN One ELSE 0)]],
   mem |-> [a \in 0 .. VuMemQuads - 1 |-> [l \in 1 .. 4 |-> Word(0)]],
   micro |-> [a \in 0 .. 2 * VuMicroPairs - 1 |-> Word(0)],
   tpc |-> 0, branch_delay |-> 0, branch_target |-> 0, ebit_delay |-> 0,
   runs |-> <<>>]

\* vu_write_vi: register 0 reads as zero, the others hold 16 bits.
WriteVi(u, r, v) == IF r = 0 THEN u ELSE [u EXCEPT !.vi[r] = v % 65536]

----------------------------------------------------------------------------
(* vu_exec_lower.                                                          *)

MemAddr(base, imm) == (base + imm) % VuMemQuads

\* Mutant: a branch without its delay slot.
JumpAtOnce(u, target) == [u EXCEPT !.branch_delay = 1, !.branch_target = target]
Jump(u, target) == [u EXCEPT !.branch_delay = 2, !.branch_target = target]

Signed16(v) == IF v < 32768 THEN v ELSE v - 65536

\* The conditions of the branches that have one.
Taken(u, l) ==
  LET s == u.vi[l.rs]
  IN  CASE l.op \in {"B", "BAL"} -> TRUE
        [] l.op = "IBEQ"  -> s = u.vi[l.rt]
        [] l.op = "IBNE"  -> s # u.vi[l.rt]
        [] l.op = "IBLTZ" -> Signed16(s) < 0
        [] l.op = "IBGTZ" -> Signed16(s) > 0
        [] l.op = "IBLEZ" -> Signed16(s) <= 0
        [] l.op = "IBGEZ" -> Signed16(s) >= 0
        [] OTHER -> FALSE

\* XGKICK hands over everything from the kick address to the end of memory;
\* the packet ends with its EOP tag.
Xgkick(st, addr, isVu1) ==
  LET quads == [n \in 1 .. VuMemQuads - addr |-> Quad(st.vu.mem[addr + n - 1])]
  IN  IF isVu1 THEN [st EXCEPT !.gif = GifProcess(@, Path1, quads)] ELSE st

\* Loads, stores and integer arithmetic.
Compute(u, l) ==
  LET s == u.vi[l.rs]
      t == u.vi[l.rt]
      load(a) == IF l.rt = 0 THEN u ELSE [u EXCEPT !.vf[l.rt] = u.mem[a]]
      store(a, r) == [u EXCEPT !.mem[a] = u.vf[r]]
      dec == WriteVi(u, l.rs, s + 65535)
      decAddr == MemAddr(dec.vi[l.rs], 0)
  IN  CASE l.op = "LQ"     -> load(MemAddr(s, l.imm))
        [] l.op = "SQ"     -> store(MemAddr(t, l.imm), l.rs)
        [] l.op = "LQI"    -> WriteVi(load(MemAddr(s, 0)), l.rs, s + 1)
        [] l.op = "SQI"    -> WriteVi(store(MemAddr(s, 0), l.rt), l.rs, s + 1)
        [] l.op = "LQD"    -> IF l.rt = 0 THEN dec
                              ELSE [dec EXCEPT !.vf[l.rt] = u.mem[decAddr]]
        [] l.op = "SQD"    -> [dec EXCEPT !.mem[decAddr] = u.vf[l.rt]]
        [] l.op = "ILW"    -> WriteVi(u, l.rt, Value(u.mem[MemAddr(s, l.imm)][l.lane]))
        [] l.op = "ISW"    -> [u EXCEPT !.mem[MemAddr(s, l.imm)][l.lane] = Word(t)]
        [] l.op = "IADD"   -> WriteVi(u, l.rd, s + t)
        [] l.op = "ISUB"   -> WriteVi(u, l.rd, s + 65536 - t)
        [] l.op = "IADDIU" -> WriteVi(u, l.rt, s + l.imm)
        [] l.op = "ISUBIU" -> WriteVi(u, l.rt, s + 65536 - l.imm)
        [] OTHER           -> u

vu_exec_lower(st, l, pc, isVu1) ==
  LET u == st.vu
      linked == IF l.op \in {"BAL", "JALR"} THEN WriteVi(u, l.rt, pc + 2) ELSE u
  IN  CASE l.op \in {"JR", "JALR"} -> [st EXCEPT !.vu = Jump(linked, linked.vi[l.rs])]
        [] l.op = "XGKICK" -> Xgkick(st, MemAddr(u.vi[l.rs], 0), isVu1)
        [] Taken(u, l)     -> [st EXCEPT !.vu = Jump(linked, pc + 1 + l.imm)]
        [] OTHER           -> [st EXCEPT !.vu = Compute(u, l)]

----------------------------------------------------------------------------
(* vu_micro_step: the E bit and a taken branch each let one more pair      *)
(* execute.  The history `runs' records where each run started and the     *)
(* pairs it executed.                                                      *)

\* What ends the step: the delays count down, a branch takes effect, and the
\* run stops after the pair behind the E bit.
EndPair(st) ==
  LET u == st.vu
      less(n) == IF n > 0 THEN n - 1 ELSE 0
  IN  [st |-> [st EXCEPT !.vu.branch_delay = less(@), !.vu.ebit_delay = less(@),
                         !.vu.tpc = IF u.branch_delay = 1
                                    THEN u.branch_target % VuMicroPairs ELSE @],
       stop |-> u.ebit_delay = 1]

vu_micro_step(st, isVu1) ==
  LET pc == st.vu.tpc
      lower == st.vu.micro[2 * pc]
      up == AsUpper(st.vu.micro[2 * pc + 1])
      fetched == [st.vu EXCEPT
                    !.tpc = (pc + 1) % VuMicroPairs,
                    !.runs[Len(st.vu.runs)].pcs = Append(@, pc),
                    !.ebit_delay = IF up.e THEN 2 ELSE @,
                    !.vf[up.fd] = IF up.fd = 0 THEN @ ELSE [l \in 1 .. 4 |-> Opaque]]
      st1 == [st EXCEPT !.vu = fetched]
  IN  EndPair(IF up.i THEN st1 ELSE vu_exec_lower(st1, AsLower(lower), pc, isVu1))

RECURSIVE RunMicro(_, _, _)
RECURSIVE RunAfter(_, _, _)
RunMicro(st, isVu1, steps) ==
  IF steps = 0 THEN st ELSE RunAfter(vu_micro_step(st, isVu1), isVu1, steps - 1)
RunAfter(r, isVu1, steps) ==
  IF r.stop THEN r.st ELSE RunMicro(r.st, isVu1, steps)

\* MSCAL: from an address.  MSCNT: from where the last run stopped.
\* Both then run until the program stops.
vu_exec_micro(st, start) ==
  [st EXCEPT !.vu.tpc = start % VuMicroPairs,
             !.vu.runs = Append(@, [at |-> start % VuMicroPairs, pcs |-> <<>>])]

Resumed == -1
vu_exec_micro_continue(st) ==
  [st EXCEPT !.vu.runs = Append(@, [at |-> Resumed, pcs |-> <<>>])]

=============================================================================
