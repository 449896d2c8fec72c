------------------------------ MODULE SifProofs ------------------------------
(* Proofs about the SIF boot-status flags, for every Delay and Recheck.    *)
EXTENDS Sif, TLAPS

IInv == TypeOK /\ Countdown

\* What sif_ee_tick() leaves behind, from any flag, pending and ticks_left.
LEMMA TickFacts ==
    ASSUME NEW flag \in SUBSET Bits, NEW pend \in {0, 1}, NEW ticks \in 0 .. Delay,
           sif_ee_tick(flag, pend, ticks),
           pend = 1 => ticks > 0
    PROVE  /\ smflag' \in SUBSET Bits /\ pending' \in {0, 1} /\ left' \in 0 .. Delay
           /\ pending' = 1 => pend = 1 /\ left' > 0
           /\ pend = 0 => smflag' = flag /\ pending' = 0
           /\ pend = 1 /\ ticks > 1 => smflag' = flag /\ pending' = 1 /\ left' = ticks - 1
           /\ pend = 1 /\ pending' = 0 => smflag' = flag \cup BootBits
           /\ smflag' \subseteq flag \cup BootBits
<1>1. BootBits \subseteq Bits
  BY DEF Bits
<1>2. CASE pend = 0
  BY <1>2 DEF sif_ee_tick, TickQuietly
<1>3. CASE pend = 1 /\ ticks > 1
  BY <1>3, DelayAssumption DEF sif_ee_tick, TickQuietly
<1>4. CASE pend = 1 /\ ticks <= 1
  <2>1. smflag' = flag \cup BootBits /\ pending' = 0 /\ left' = 0
    BY <1>4 DEF sif_ee_tick, TickQuietly
  <2>2. ~(ticks > 1)
    BY <1>4
  <2> QED BY <1>1, <1>4, <2>1, <2>2, DelayAssumption
<1> QED
  BY <1>2, <1>3, <1>4

\* An instruction that writes nothing to the SIF keeps the schedule.
LEMMA NoWriteKeeps ==
    ASSUME IInv, NoSifWrite
    PROVE  /\ smflag' \in SUBSET Bits /\ pending' \in {0, 1} /\ left' \in 0 .. Delay
           /\ booted' = booted /\ stores' = stores
           /\ BootendScheduled'
           /\ pending' = 1 => booted' = 1 /\ left' > 0
           /\ smflag' \subseteq smflag \cup BootBits
           /\ booted = 1 /\ smflag = {} /\ left > 1 => smflag' = {} /\ left' = left - 1
           /\ booted = 0 => smflag' = smflag
<1>1. /\ smflag \in SUBSET Bits /\ pending \in {0, 1} /\ left \in 0 .. Delay
      /\ pending = 1 => left > 0
  BY DEF IInv, TypeOK, Countdown
<1>2. sif_ee_tick(smflag, pending, left)
  BY DEF NoSifWrite
<1>3. /\ smflag' \in SUBSET Bits /\ pending' \in {0, 1} /\ left' \in 0 .. Delay
      /\ pending' = 1 => pending = 1 /\ left' > 0
      /\ pending = 0 => smflag' = smflag /\ pending' = 0
      /\ pending = 1 /\ left > 1 => smflag' = smflag /\ pending' = 1 /\ left' = left - 1
      /\ pending = 1 /\ pending' = 0 => smflag' = smflag \cup BootBits
      /\ smflag' \subseteq smflag \cup BootBits
  BY <1>1, <1>2, TickFacts
<1>4. booted' = booted /\ stores' = stores
  BY DEF NoSifWrite
<1>5. BootendScheduled'
  BY <1>1, <1>3, <1>4 DEF BootendScheduled, BootBits, IInv, Countdown
<1> QED
  BY <1>1, <1>3, <1>4, <1>5 DEF IInv, Countdown, BootendScheduled, TypeOK

\* So does a clearing write, and one that leaves nothing starts the countdown.
LEMMA ClearKeeps ==
    ASSUME IInv, NEW bits \in SUBSET Bits, WriteSMFLAG(bits)
    PROVE  /\ smflag' \in SUBSET Bits /\ pending' \in {0, 1} /\ left' \in 0 .. Delay
           /\ booted' = booted
           /\ BootendScheduled'
           /\ pending' = 1 => booted' = 1 /\ left' > 0
           /\ BootBits \subseteq bits /\ smflag \subseteq bits =>
                /\ smflag' = {}
                /\ booted = 1 => left' + 1 >= Delay
<1>1. /\ smflag \ bits \in SUBSET Bits /\ pending \in {0, 1} /\ left \in 0 .. Delay
      /\ pending = 1 => left > 0 /\ booted = 1
      /\ booted \in {0, 1}
  BY DEF IInv, TypeOK, Countdown
<1>2. booted' = booted
  BY DEF WriteSMFLAG
<1>3. CASE "BOOTEND" \in bits /\ booted = 1
  <2>1. sif_ee_tick(smflag \ bits, 1, Delay)
    BY <1>3 DEF WriteSMFLAG
  <2>2. Delay \in 0 .. Delay /\ Delay > 1
    BY DelayAssumption, RecheckAssumption
  <2> HIDE DEF WriteSMFLAG
  <2>3. /\ smflag' \in SUBSET Bits /\ pending' \in {0, 1} /\ left' \in 0 .. Delay
        /\ smflag' = smflag \ bits /\ pending' = 1 /\ left' = Delay - 1
    BY <1>1, <2>1, <2>2, TickFacts
  <2> QED
    BY <1>2, <1>3, <2>2, <2>3, DelayAssumption DEF BootendScheduled
<1>4. CASE ~("BOOTEND" \in bits /\ booted = 1)
  <2>1. sif_ee_tick(smflag \ bits, pending, left)
    BY <1>4 DEF WriteSMFLAG
  <2>2. /\ smflag' \in SUBSET Bits /\ pending' \in {0, 1} /\ left' \in 0 .. Delay
        /\ pending' = 1 => pending = 1 /\ left' > 0
        /\ pending = 0 => smflag' = smflag \ bits /\ pending' = 0
        /\ pending = 1 /\ pending' = 0 => smflag' = (smflag \ bits) \cup BootBits
        /\ pending = 1 /\ left > 1 => smflag' = smflag \ bits /\ pending' = 1 /\ left' = left - 1
    BY <1>1, <2>1, TickFacts
  <2>3. BootendScheduled'
    BY <1>1, <1>2, <1>4, <2>2 DEF BootendScheduled, BootBits, IInv, Countdown
  <2>4. ~(BootBits \subseteq bits) \/ booted = 0
    BY <1>1, <1>4 DEF BootBits
  <2> QED
    BY <1>1, <1>2, <2>2, <2>3, <2>4
<1> QED
  BY <1>3, <1>4

\* An IOP store keeps the schedule.
LEMMA StoreKeeps ==
    ASSUME IInv, NEW value \in SUBSET Bits, StoreSMFLAG(value), booted' = booted
    PROVE  /\ smflag' \in SUBSET Bits /\ pending' \in {0, 1} /\ left' \in 0 .. Delay
           /\ sbus' \in {0, 1}
           /\ BootendScheduled'
           /\ pending' = 1 => booted' = 1 /\ left' > 0
BY DelayAssumption DEF IInv, TypeOK, Countdown, BootendScheduled, StoreSMFLAG

LEMMA InitIInv == Init => IInv
BY DelayAssumption, RecheckAssumption, MaxIopAssumption
   DEF Init, IInv, TypeOK, Countdown, BootendScheduled, BootBits

LEMMA NextIInv == IInv /\ [Next]_vars => IInv'
<1> SUFFICES ASSUME IInv, [Next]_vars PROVE IInv'
  OBVIOUS
<1> USE DelayAssumption, RecheckAssumption, MaxIopAssumption
<1>1. CASE Compute
  <2>1. NoSifWrite /\ UNCHANGED <<f260, sbus, ee, seen, quiet>>
    BY <1>1 DEF Compute
  <2>2. gap \in 0 .. Recheck /\ gap' \in 0 .. Recheck /\ (ee # "free" => gap < Recheck /\ gap' = gap + 1)
    BY <1>1 DEF Compute, IInv, TypeOK
  <2> QED BY <2>1, <2>2, NoWriteKeeps DEF IInv, TypeOK, Countdown
<1>2. CASE EnterDebounce
  BY <1>2, NoWriteKeeps DEF EnterDebounce, IInv, TypeOK, Countdown
<1>3. CASE DebounceRead
  <2>1. NoSifWrite /\ ee' \in {"free", "clear"} /\ seen' = smflag /\ gap' = 0 /\ quiet' = 1 /\ UNCHANGED <<f260, sbus>>
    BY <1>3 DEF DebounceRead
  <2> QED BY <2>1, NoWriteKeeps DEF IInv, TypeOK, Countdown
<1>4. CASE DebounceClear
  <2>1. WriteSMFLAG(seen) /\ seen \in SUBSET Bits /\ ee = "clear"
    BY <1>4 DEF DebounceClear, IInv, TypeOK
  <2> QED BY <1>4, <2>1, ClearKeeps DEF DebounceClear, IInv, TypeOK, Countdown
<1>5. CASE EnterWait
  BY <1>5, NoWriteKeeps DEF EnterWait, IInv, TypeOK, Countdown
<1>6. CASE WaitRead
  BY <1>6, NoWriteKeeps DEF WaitRead, IInv, TypeOK, Countdown
<1>7. CASE WriteF260
  BY <1>7, NoWriteKeeps DEF WriteF260, eeVars, IInv, TypeOK, Countdown
<1>8. CASE AckSbus
  BY <1>8, NoWriteKeeps DEF AckSbus, eeVars, IInv, TypeOK, Countdown
<1>9. ASSUME NEW bits \in SUBSET Bits, EEClears(bits) PROVE IInv'
  BY <1>9, ClearKeeps DEF EEClears, eeVars, IInv, TypeOK, Countdown
<1>10. CASE mark_iop_boot_complete
  BY <1>10 DEF mark_iop_boot_complete, StoreSMFLAG, eeVars, IInv, TypeOK, Countdown, BootendScheduled, BootBits, Bits
<1>11. ASSUME NEW value \in SUBSET Bits, IOPStores(value) PROVE IInv'
  BY <1>11, StoreKeeps DEF IOPStores, eeVars, IInv, TypeOK, Countdown
<1>12. CASE UNCHANGED vars
  BY <1>12 DEF vars, sifVars, eeVars, IInv, TypeOK, Countdown, BootendScheduled
<1> QED
  BY <1>1, <1>2, <1>3, <1>4, <1>5, <1>6, <1>7, <1>8, <1>9, <1>10, <1>11, <1>12 DEF Next, EE, IOP

\* sif.c:159-233, 432-436 and 532-542: whatever the two processors write,
\* after the boot BOOTEND is set or its reassertion is still counting down.
THEOREM BootendComesBack == Spec => []BootendScheduled
<1>1. IInv => BootendScheduled
  BY DEF IInv, Countdown
<1> QED
  BY InitIInv, NextIInv, <1>1, PTL DEF Spec

\* sif.c:75-84: when the debounce loop read all three boot bits, nothing is
\* set again before its recheck unless the IOP stores: the delay is longer
\* than the loop, for every delay of at least Recheck + 2.
THEOREM RecheckSeesNothing == Spec => []BootendWindow
<1>1. IInv => BootendWindow
  BY DEF IInv, Countdown, BootendWindow
<1> QED
  BY InitIInv, NextIInv, <1>1, PTL DEF Spec
=============================================================================
