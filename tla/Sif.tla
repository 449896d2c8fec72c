--------------------------------- MODULE Sif ---------------------------------
(***************************************************************************)
(* The SIF mailbox flags between the EE and the IOP (source/hw/sif.c): the *)
(* IOP publishes its boot status in SMFLAG with a plain store, the EE      *)
(* clears bits of it by writing ones, and once the IOP has booted a        *)
(* dropped BOOTEND bit is put back after a delay counted in EE             *)
(* instructions by sif_ee_tick().                                          *)
(*                                                                         *)
(* Both programs are external.  The EE's is reduced to the two loops that  *)
(* sif.c's comments describe: the kernel's debounce at 0x8000CDF8, which   *)
(* clears what it reads until it reads nothing, and the wait for BOOTEND   *)
(* at 0x000820D0.  SMFLAG is the set of its bits that are 1; bit 30, which *)
(* the EE's read forces and the debounce masks off, is left out.           *)
(***************************************************************************)
EXTENDS Integers

CONSTANTS Delay,    \* SIF_BOOTEND_REASSERT_DELAY_TICKS
          Recheck,  \* most EE instructions between two SIF accesses of a loop
          MaxIop    \* bound: SMFLAG stores by the IOP, the boot's own left out

ASSUME DelayAssumption == Delay \in Nat /\ Delay > 0
ASSUME RecheckAssumption == Recheck \in Nat /\ Recheck + 2 <= Delay
ASSUME MaxIopAssumption == MaxIop \in Nat

BootBits == {"SIFINIT", "CMDINIT", "BOOTEND"}
Bits == BootBits \cup {"OTHER"}

VARIABLES smflag,   \* the bits of SMFLAG that are set
          f260,     \* register F260: the EE's sentinel 0xFF, or the mirror address
          booted,   \* iop_boot_completed_once
          pending,  \* bootend_reassert_pending
          left,     \* bootend_reassert_ticks_left
          sbus,     \* INTC_STAT.SBUS of the EE
          ee,       \* where the EE's program is
          seen,     \* what the debounce loop last read, and clears
          gap,      \* instructions since the loop's last SIF access
          quiet,    \* 1 iff the IOP has not stored to SMFLAG since the loop's last read
          stores    \* SMFLAG stores the IOP has made

sifVars == <<smflag, booted, pending, left>>
eeVars == <<ee, seen, gap>>
vars == <<sifVars, f260, sbus, eeVars, quiet, stores>>

Init == /\ smflag = {} /\ f260 = "mirror"
        /\ booted = 0 /\ pending = 0 /\ left = 0
        /\ sbus = 0
        /\ ee = "free" /\ seen = {} /\ gap = 0
        /\ quiet = 0 /\ stores = 0

-----------------------------------------------------------------------------
(***************************************************************************)
(* sif_ee_tick(), the epilogue of every EE instruction.  It starts from    *)
(* the flag, pending and ticks_left that the instruction leaves behind.    *)
(***************************************************************************)
TickQuietly(flag, pend, ticks) ==
    \/ pend = 0 /\ smflag' = flag /\ pending' = 0 /\ left' = ticks
    \/ pend = 1 /\ ticks > 1 /\ smflag' = flag /\ pending' = 1 /\ left' = ticks - 1

\* Mutant: the countdown stops at one.
TickStuck(flag, pend, ticks) ==
    \/ TickQuietly(flag, pend, ticks)
    \/ pend = 1 /\ ticks <= 1 /\ smflag' = flag /\ pending' = 1 /\ left' = ticks

sif_ee_tick(flag, pend, ticks) ==
    \/ TickQuietly(flag, pend, ticks)
    \/ pend = 1 /\ ticks <= 1 /\ smflag' = flag \cup BootBits /\ pending' = 0 /\ left' = 0

\* An EE instruction that does not write to the SIF.
NoSifWrite == /\ sif_ee_tick(smflag, pending, left)
              /\ UNCHANGED <<booted, stores>>

ClearAtOnce(bits) ==
    /\ IF "BOOTEND" \in bits /\ booted = 1
       THEN sif_ee_tick(smflag \ bits, 1, 1)
       ELSE sif_ee_tick(smflag \ bits, pending, left)
    /\ UNCHANGED booted

\* The EE's write to SMFLAG: bits to clear.  A clear that names BOOTEND
\* schedules the reassertion, once the IOP has booted.
WriteSMFLAG(bits) ==
    /\ IF "BOOTEND" \in bits /\ booted = 1
       THEN sif_ee_tick(smflag \ bits, 1, Delay)
       ELSE sif_ee_tick(smflag \ bits, pending, left)
    /\ UNCHANGED booted

-----------------------------------------------------------------------------
(***************************************************************************)
(* The EE's program, one action per instruction that matters.              *)
(***************************************************************************)
Compute == /\ ee = "free" \/ gap < Recheck
           /\ gap' = IF ee = "free" THEN 0 ELSE gap + 1
           /\ NoSifWrite
           /\ UNCHANGED <<f260, sbus, ee, seen, quiet>>

EnterDebounce == /\ ee = "free" /\ ee' = "read" /\ gap' = 0
                 /\ NoSifWrite
                 /\ UNCHANGED <<f260, sbus, seen, quiet>>

\* The debounce loop reads SMFLAG, and leaves when it reads nothing.
DebounceRead == /\ ee \in {"read", "recheck"}
                /\ seen' = smflag /\ gap' = 0
                /\ ee' = IF smflag = {} THEN "free" ELSE "clear"
                /\ NoSifWrite /\ quiet' = 1
                /\ UNCHANGED <<f260, sbus>>

DebounceClear == /\ ee = "clear" /\ ee' = "recheck" /\ gap' = 0
                 /\ WriteSMFLAG(seen)
                 /\ UNCHANGED <<f260, sbus, seen, quiet, stores>>

EnterWait == /\ ee = "free" /\ ee' = "wait" /\ gap' = 0
             /\ NoSifWrite
             /\ UNCHANGED <<f260, sbus, seen, quiet>>

\* The wait loop reads SMFLAG until BOOTEND is set.
WaitRead == /\ ee = "wait" /\ gap' = 0
            /\ ee' = IF "BOOTEND" \in smflag THEN "free" ELSE "wait"
            /\ NoSifWrite
            /\ UNCHANGED <<f260, sbus, seen, quiet>>

\* Other EE code clears the flags it chooses, as _LoadExecPS2 does.
EEClears(bits) == /\ ee = "free" /\ bits # {}
                  /\ WriteSMFLAG(bits)
                  /\ UNCHANGED <<f260, sbus, eeVars, quiet, stores>>

\* sceSifInit() writes its "not yet ready" sentinel to F260.
WriteF260 == /\ ee = "free"
             /\ f260' = IF booted = 1 THEN "mirror" ELSE "sentinel"
             /\ NoSifWrite
             /\ UNCHANGED <<sbus, eeVars, quiet>>

\* The EE acknowledges the SBUS interrupt in INTC_STAT.
AckSbus == /\ ee = "free" /\ sbus = 1 /\ sbus' = 0
           /\ NoSifWrite
           /\ UNCHANGED <<f260, eeVars, quiet>>

-----------------------------------------------------------------------------
StoreNoReassert(value) ==
    /\ smflag' = value
    /\ sbus' = IF value \ smflag # {} THEN 1 ELSE sbus
    /\ UNCHANGED <<pending, left>>

\* sif_iop_mmio_write32() on SMFLAG: a plain store.  New bits raise SBUS; a
\* store that drops BOOTEND after the boot schedules its reassertion.
StoreSMFLAG(value) ==
    /\ smflag' = value
    /\ sbus' = IF value \ smflag # {} THEN 1 ELSE sbus
    /\ IF booted = 1 /\ "BOOTEND" \in smflag /\ "BOOTEND" \notin value
       THEN pending' = 1 /\ left' = Delay
       ELSE UNCHANGED <<pending, left>>

\* An IOP program calls sceSifSetSMFlag().
IOPStores(value) == /\ stores < MaxIop /\ stores' = stores + 1
                    /\ StoreSMFLAG(value) /\ quiet' = 0
                    /\ UNCHANGED <<f260, booted, eeVars>>

\* The module loader has run its last module; its panic-loop bypasses may
\* come back to the same place later.
mark_iop_boot_complete == /\ booted = 0 \/ stores < MaxIop
                          /\ stores' = stores + booted
                          /\ StoreSMFLAG(smflag \cup BootBits)
                          /\ booted' = 1 /\ quiet' = 0
                          /\ UNCHANGED <<f260, eeVars>>

EE == \/ Compute \/ EnterDebounce \/ DebounceRead \/ DebounceClear
      \/ EnterWait \/ WaitRead \/ WriteF260 \/ AckSbus
      \/ \E bits \in SUBSET Bits : EEClears(bits)

IOP == \/ mark_iop_boot_complete
       \/ \E value \in SUBSET Bits : IOPStores(value)

Next == EE \/ IOP

Spec == Init /\ [][Next]_vars

\* The EE executes instructions for ever; the IOP may never run again.
FairSpec == Spec /\ WF_vars(EE)

-----------------------------------------------------------------------------
TypeOK == /\ smflag \in SUBSET Bits
          /\ f260 \in {"mirror", "sentinel"}
          /\ booted \in {0, 1} /\ pending \in {0, 1} /\ sbus \in {0, 1}
          /\ left \in 0 .. Delay
          /\ ee \in {"free", "read", "clear", "recheck", "wait"}
          /\ seen \in SUBSET Bits
          /\ gap \in 0 .. Recheck
          /\ quiet \in {0, 1}
          /\ stores \in 0 .. MaxIop

(***************************************************************************)
(* sif.c:159-233 and 432-436: whatever the EE clears and the IOP stores,   *)
(* once the IOP has booted BOOTEND is either set or on its way back, with  *)
(* a countdown that has not run out.                                       *)
(***************************************************************************)
BootendScheduled == booted = 1 /\ "BOOTEND" \notin smflag => pending = 1 /\ left > 0

(***************************************************************************)
(* sif.c:77-80: when the debounce loop has read all three boot bits, its   *)
(* clear leaves nothing set until the recheck, unless the IOP has stored   *)
(* meanwhile: the reassertion comes later, even one scheduled before.      *)
(***************************************************************************)
BootendWindow == ee = "recheck" /\ quiet = 1 /\ BootBits \subseteq seen => smflag = {}

(***************************************************************************)
(* The inductive strengthening of the two: a pending reassertion has time  *)
(* left and only follows a boot; between the loop's read of the boot bits  *)
(* and its clear nothing new comes up; and after the clear the countdown   *)
(* has at least as many ticks left as the loop has instructions.           *)
(***************************************************************************)
Countdown ==
    /\ BootendScheduled
    /\ pending = 1 => booted = 1 /\ left > 0
    /\ quiet = 1 /\ BootBits \subseteq seen =>
         /\ ee = "clear" => smflag \subseteq seen
         /\ ee = "recheck" => smflag = {} /\ (booted = 0 \/ left + gap + 1 >= Delay)

(***************************************************************************)
(* sif.c:75-84, as the comment has it: after any clearing write of the     *)
(* debounce loop its recheck "reliably observes a genuine all-clear        *)
(* window", the IOP having stored nothing since the loop's read.           *)
(***************************************************************************)
ClearWindow == ee = "recheck" /\ quiet = 1 => smflag = {}

(***************************************************************************)
(* sif.c:251-287, as the comment has it: F260 is left in the handshake's   *)
(* end state, the mirror address, once the IOP is ready.                   *)
(***************************************************************************)
F260Published == booted = 1 => f260 = "mirror"

(***************************************************************************)
(* sif.c:181-231, 532-542: both of the kernel's loops end.  After the boot *)
(* a wait for BOOTEND is satisfied, and the debounce loop reads nothing    *)
(* before the reassertion puts the bits back.                              *)
(***************************************************************************)
LoopsEnd ==
    /\ (ee = "wait" /\ booted = 1) ~> (ee = "free")
    /\ (ee = "read") ~> (ee = "free")
=============================================================================
