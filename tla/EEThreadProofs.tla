--------------------------- MODULE EEThreadProofs ---------------------------
(* Proofs about the EE scheduler, for any number of threads and semaphores *)
(* and any repertoire of calls.                                            *)
EXTENDS EEThread, FiniteSetTheorems, TLAPS

\* What the scheduler needs of a TCB table while thread c is current.
SoundTable(T, c) ==
    /\ T \in [Threads -> Tcbs]
    /\ \A t \in Threads :
         /\ T[t].status = "RUN" => t = c
         /\ T[t].status \in {"READY", "WAIT"} => T[t].ctx.own = t

\* The inductive invariant.  While the CPU idles the registers are still the
\* current thread's: an interrupt taken then saves them into EPC.
IInv ==
    /\ TypeOK
    /\ SoundTable(thr, current)
    /\ mode \in {"thread", "idle"} => live.own = current
    /\ mode = "handler" => epc.own = current

LEMMA StampType == ASSUME older \subseteq Threads \X Threads, NEW t \in Threads
                   PROVE  Stamp(t) \subseteq Threads \X Threads
  BY DEF Stamp

\* Updating one TCB.
LEMMA TableUpdate ==
    ASSUME NEW T \in [Threads -> Tcbs], NEW t \in Threads, NEW r \in Tcbs
    PROVE  /\ [T EXCEPT ![t] = r] \in [Threads -> Tcbs]
           /\ [T EXCEPT ![t] = r][t] = r
           /\ \A u \in Threads \ {t} : [T EXCEPT ![t] = r][u] = T[u]
  OBVIOUS

LEMMA SoundUpdate ==
    ASSUME NEW c, NEW T, SoundTable(T, c), NEW t \in Threads, NEW r \in Tcbs,
           r.status = "RUN" => t = c,
           r.status \in {"READY", "WAIT"} => r.ctx.own = t
    PROVE  SoundTable([T EXCEPT ![t] = r], c)
  BY TableUpdate, ZenonT(60) DEF SoundTable

LEMMA SavedTcb == ASSUME NEW r \in Tcbs, NEW x \in Contexts, NEW st \in Statuses
                  PROVE  LET q == [r EXCEPT !.status = st, !.ctx = x]
                         IN  q \in Tcbs /\ q.status = st /\ q.ctx = x
  BY Zenon DEF Tcbs

\* The TCB CreateThread makes.
LEMMA NewTcb ==
    ASSUME NEW p \in Priorities
    PROVE  /\ [FreeTcb EXCEPT !.status = "DORMANT", !.prio = p] \in Tcbs
           /\ [FreeTcb EXCEPT !.status = "DORMANT", !.prio = p].status = "DORMANT"
<1>1. \A q \in Tcbs : [q EXCEPT !.status = "DORMANT", !.prio = p] \in Tcbs
  BY Zenon DEF Tcbs, Statuses
<1>2. FreeTcb \in Tcbs
  BY ConstantsAssumption DEF FreeTcb, Tcbs, Statuses, HandlerCtx, Contexts
<1>3. [FreeTcb EXCEPT !.status = "DORMANT", !.prio = p].status = "DORMANT"
  BY ZenonT(60) DEF FreeTcb
<1> QED BY <1>1, <1>2, <1>3, Zenon

\* Blocking the current thread (whose TCB may not be in use).
LEMMA BlockedTable ==
    ASSUME NEW c \in Threads, NEW T, SoundTable(T, c), NEW x \in Contexts, x.own = c,
           NEW st \in {"FREE", "WAIT"}, NEW k \in {"NONE", "SLEEP", "SEMA"}, NEW s \in Semas \cup {0}
    PROVE  SoundTable([T EXCEPT ![c] = [@ EXCEPT !.status = st, !.wait = k, !.wid = s, !.ctx = x]], c)
<1> DEFINE r == [T[c] EXCEPT !.status = st, !.wait = k, !.wid = s, !.ctx = x]
<1>1. T[c] \in Tcbs
  BY ZenonT(60) DEF SoundTable
<1>2. \A q \in Tcbs : LET y == [q EXCEPT !.status = st, !.wait = k, !.wid = s, !.ctx = x]
                      IN  y \in Tcbs /\ y.status = st /\ y.ctx = x
  BY Zenon DEF Tcbs, Statuses
<1>3. r \in Tcbs /\ r.status = st /\ r.ctx = x
  BY <1>1, <1>2, Zenon
<1>4. SoundTable([T EXCEPT ![c] = r], c)
  <2> HIDE DEF r
  <2> QED BY <1>3, SoundUpdate, ZenonT(60)
<1> QED BY <1>4, ZenonT(60)

\* reschedule() past its EXL test keeps the tables sound.
LEMMA DispatchSound ==
    ASSUME current \in Threads, NEW T, SoundTable(T, current), NEW O,
           NEW L \in Contexts, L.own = current, Dispatch(T, O, L)
    PROVE  /\ current' \in Threads /\ SoundTable(thr', current')
           /\ live' \in Contexts /\ live'.own = current'
           /\ mode' \in {"thread", "idle"}
<1>1. CASE /\ Runnable(T) = {} /\ thr' = T /\ live' = L /\ mode' = NoneReady /\ UNCHANGED current
  BY <1>1, ZenonT(60) DEF NoneReady
<1>2. ASSUME NEW n \in PickNextReady(T, O),
             thr' = IF n = current THEN [T EXCEPT ![n].status = "RUN"]
                                   ELSE [SwitchOut(T, L) EXCEPT ![n].status = "RUN"],
             live' = IF n = current THEN L ELSE T[n].ctx,
             current' = n, mode' = "thread"
      PROVE  /\ current' \in Threads /\ SoundTable(thr', current')
             /\ live' \in Contexts /\ live'.own = current'
             /\ mode' \in {"thread", "idle"}
  <2>1. n \in Threads /\ T[n].status \in {"RUN", "READY"}
    BY ZenonT(60) DEF PickNextReady, Runnable
  <2>2. CASE n = current
    BY <1>2, <2>1, <2>2 DEF SoundTable, Tcbs, Statuses
  <2>3. CASE n # current
    <3>1. T[n].status = "READY" /\ T[n].ctx \in Contexts /\ T[n].ctx.own = n
      BY <2>1, <2>3, ZenonT(60) DEF SoundTable, Tcbs
    <3> DEFINE S == SwitchOut(T, L)
    <3>2. S \in [Threads -> Tcbs]
      <4>1. [T[current] EXCEPT !.status = "READY", !.ctx = L] \in Tcbs
        BY SavedTcb, Zenon DEF SoundTable, Statuses
      <4> QED BY <4>1, TableUpdate, ZenonT(60) DEF SoundTable, SwitchOut
    <3>3. /\ \A t \in Threads \ {current} : S[t] = T[t]
          /\ S[current].status # "RUN"
          /\ S[current].status \in {"READY", "WAIT"} => S[current].ctx.own = current
      BY DEF SoundTable, Tcbs, SwitchOut
    <3>4. thr' = [S EXCEPT ![n].status = "RUN"]
      BY <1>2, <2>3, ZenonT(60)
    <3>5. SoundTable(thr', n)
      <4> HIDE DEF S
      <4>1. thr' \in [Threads -> Tcbs]
        BY <2>1, <3>2, <3>4 DEF Tcbs, Statuses
      <4>2. thr'[n].status = "RUN"
        BY <2>1, <2>3, <3>2, <3>3, <3>4, ZenonT(60) DEF Tcbs
      <4>3. \A t \in Threads \ {n} : thr'[t] = S[t]
        BY <3>2, <3>4, ZenonT(60)
      <4>4. \A t \in Threads \ {n} : S[t].status # "RUN"
        BY <3>3, ZenonT(60) DEF SoundTable
      <4>5. \A t \in Threads : S[t].status \in {"READY", "WAIT"} => S[t].ctx.own = t
        BY <3>3, ZenonT(60) DEF SoundTable
      <4> QED BY <2>1, <4>1, <4>2, <4>3, <4>4, <4>5, ZenonT(60) DEF SoundTable
    <3> QED BY <1>2, <2>1, <2>3, <3>1, <3>5, ZenonT(60)
  <2> QED BY <2>2, <2>3, ZenonT(60)
<1> QED BY <1>1, <1>2, ZenonT(60) DEF Dispatch

\* A call keeps the invariant when the table it hands on is sound and the
\* registers it hands on are the caller's.
LEMMA CallSound ==
    ASSUME IInv, NEW T, SoundTable(T, current), NEW O, NEW L \in Contexts,
           mode # "handler" => L.own = current,
           Continue(T, L) \/ Reschedule(T, O, L),
           epc' = epc, older' \subseteq Threads \X Threads,
           sema' \in [Semas -> SemaRecs], prog' \in [Threads -> {0, 1}]
    PROVE  IInv'
<1>1. CASE Continue(T, L)
  BY <1>1, ZenonT(60) DEF Continue, IInv, TypeOK, SoundTable
<1>2. CASE mode # "handler" /\ Dispatch(T, O, L)
  <2>1. /\ current' \in Threads /\ SoundTable(thr', current')
        /\ live' \in Contexts /\ live'.own = current'
        /\ mode' \in {"thread", "idle"}
    BY <1>2, DispatchSound, ZenonT(60) DEF IInv, TypeOK
  <2> QED BY <2>1, ZenonT(60) DEF IInv, TypeOK, SoundTable
<1> QED BY <1>1, <1>2, ZenonT(60) DEF Reschedule

LEMMA AdvanceSound ==
    ASSUME IInv, mode \in {"thread", "handler"}
    PROVE  /\ Advanced(live) \in Contexts
           /\ mode # "handler" => Advanced(live).own = current
           /\ Advance => epc' = epc /\ prog' \in [Threads -> {0, 1}]
<1>1. Advanced(live) \in Contexts
  BY Zenon DEF IInv, TypeOK, Advanced, Contexts, Flip
<1>2. mode # "handler" => Advanced(live).own = current
  BY ZenonT(60) DEF IInv, TypeOK, Advanced, Contexts
<1>3. Advance => epc' = epc /\ prog' \in [Threads -> {0, 1}]
  BY ZenonT(60) DEF IInv, TypeOK, Advance, Flip
<1> QED BY <1>1, <1>2, <1>3, ZenonT(60)

LEMMA InitSound == Init => IInv
<1> SUFFICES ASSUME Init PROVE IInv
  OBVIOUS
<1>1. 1 \in Threads
  BY ConstantsAssumption DEF Threads
<1>2. HandlerCtx \in Contexts /\ EntryCtx(1) \in Contexts /\ EntryCtx(1).own = 1
  BY <1>1, ZenonT(60) DEF HandlerCtx, EntryCtx, Contexts
<1>3. FreeTcb \in Tcbs /\ [FreeTcb EXCEPT !.status = "RUN"] \in Tcbs
  BY <1>2, ConstantsAssumption DEF FreeTcb, Tcbs, Statuses
<1>4. FreeSema \in SemaRecs
  BY ConstantsAssumption DEF FreeSema, SemaRecs
<1>5. SoundTable(thr, current)
  BY <1>1, <1>3, ZenonT(60) DEF Init, SoundTable, FreeTcb
<1>6. older \subseteq Threads \X Threads
  BY <1>1 DEF Init
<1> QED BY <1>1, <1>2, <1>4, <1>5, <1>6, ZenonT(60) DEF Init, IInv, TypeOK, SoundTable

\* The calls that change one TCB other than by blocking a thread.
LEMMA SimpleUpdates ==
    ASSUME NEW c, NEW T, SoundTable(T, c), NEW t \in Threads
    PROVE  /\ \A w \in 0..MaxWakeup : SoundTable([T EXCEPT ![t].wakeup = w], c)
           /\ \A p \in Priorities : SoundTable([T EXCEPT ![t].prio = p], c)
           /\ \A st \in {"DORMANT", "FREE"} : SoundTable([T EXCEPT ![t].status = st], c)
           /\ SoundTable([T EXCEPT ![t] = [@ EXCEPT !.status = "DORMANT", !.wait = "NONE", !.wid = 0]], c)
           /\ T[t].status = "WAIT" =>
                /\ SoundTable([T EXCEPT ![t] = [@ EXCEPT !.status = "READY", !.wait = "NONE"]], c)
                /\ SoundTable([T EXCEPT ![t] = [@ EXCEPT !.status = "READY", !.wait = "NONE", !.wid = 0]], c)
           /\ SoundTable([T EXCEPT ![t] = [@ EXCEPT !.status = "READY", !.ctx = EntryCtx(t)]], c)
<1>1. T[t] \in Tcbs
  BY ZenonT(60) DEF SoundTable
<1>2. ASSUME NEW w \in 0..MaxWakeup PROVE SoundTable([T EXCEPT ![t].wakeup = w], c)
  BY DEF SoundTable, Tcbs
<1>3. ASSUME NEW p \in Priorities PROVE SoundTable([T EXCEPT ![t].prio = p], c)
  BY DEF SoundTable, Tcbs
<1>4. ASSUME NEW st \in {"DORMANT", "FREE"} PROVE SoundTable([T EXCEPT ![t].status = st], c)
  BY DEF SoundTable, Tcbs, Statuses
<1>5. SoundTable([T EXCEPT ![t] = [@ EXCEPT !.status = "DORMANT", !.wait = "NONE", !.wid = 0]], c)
  <2>1. \A q \in Tcbs : LET r == [q EXCEPT !.status = "DORMANT", !.wait = "NONE", !.wid = 0]
                        IN  r \in Tcbs /\ r.status = "DORMANT"
    BY Zenon DEF Tcbs, Statuses
  <2> QED BY <1>1, <2>1, SoundUpdate, Zenon
<1>6. ASSUME T[t].status = "WAIT"
      PROVE  /\ SoundTable([T EXCEPT ![t] = [@ EXCEPT !.status = "READY", !.wait = "NONE"]], c)
             /\ SoundTable([T EXCEPT ![t] = [@ EXCEPT !.status = "READY", !.wait = "NONE", !.wid = 0]], c)
  <2>1. \A q \in Tcbs : LET r == [q EXCEPT !.status = "READY", !.wait = "NONE"]
                        IN  r \in Tcbs /\ r.status = "READY" /\ r.ctx = q.ctx
    BY Zenon DEF Tcbs, Statuses
  <2>2. \A q \in Tcbs : LET r == [q EXCEPT !.status = "READY", !.wait = "NONE", !.wid = 0]
                        IN  r \in Tcbs /\ r.status = "READY" /\ r.ctx = q.ctx
    BY Zenon DEF Tcbs, Statuses
  <2>3. T[t].ctx.own = t
    BY <1>6, ZenonT(60) DEF SoundTable
  <2>4. SoundTable([T EXCEPT ![t] = [@ EXCEPT !.status = "READY", !.wait = "NONE"]], c)
    BY <1>1, <2>1, <2>3, SoundUpdate, Zenon
  <2>5. SoundTable([T EXCEPT ![t] = [@ EXCEPT !.status = "READY", !.wait = "NONE", !.wid = 0]], c)
    BY <1>1, <2>2, <2>3, SoundUpdate, Zenon
  <2> QED BY <2>4, <2>5, ZenonT(60)
<1>7. SoundTable([T EXCEPT ![t] = [@ EXCEPT !.status = "READY", !.ctx = EntryCtx(t)]], c)
  <2>1. EntryCtx(t) \in Contexts /\ EntryCtx(t).own = t
    BY ZenonT(60) DEF EntryCtx, Contexts
  <2>2. \A q \in Tcbs, x \in Contexts : LET r == [q EXCEPT !.status = "READY", !.ctx = x]
                                       IN  r \in Tcbs /\ r.status = "READY" /\ r.ctx = x
    BY SavedTcb, Zenon DEF Statuses
  <2> DEFINE r == [T[t] EXCEPT !.status = "READY", !.ctx = EntryCtx(t)]
  <2>3. r \in Tcbs /\ r.status = "READY" /\ r.ctx = EntryCtx(t)
    BY <1>1, <2>1, <2>2, Zenon
  <2>4. SoundTable([T EXCEPT ![t] = r], c)
    <3> HIDE DEF r
    <3> QED BY <2>1, <2>3, SoundUpdate, ZenonT(60)
  <2> QED BY <2>4, ZenonT(60)
<1> QED BY <1>2, <1>3, <1>4, <1>5, <1>6, <1>7, ZenonT(60)

-----------------------------------------------------------------------------
\* Every step keeps the invariant: one lemma for the thread calls, one for the
\* semaphore calls, and the remaining steps in NextSound.

LEMMA ThreadCallSound == IInv /\ ThreadCall => IInv'
<1> SUFFICES ASSUME IInv, ThreadCall PROVE IInv'
  OBVIOUS
<1> USE DEF Executing, Issued
<1>0. /\ SoundTable(thr, current) /\ current \in Threads
      /\ older \subseteq Threads \X Threads
      /\ sema \in [Semas -> SemaRecs] /\ prog \in [Threads -> {0, 1}]
      /\ live \in Contexts /\ (mode = "thread" => live.own = current)
  BY ZenonT(60) DEF IInv, TypeOK
<1>1. ASSUME NEW p \in Priorities, CreateThread(p) PROVE IInv'
  <2> DEFINE slot == LeastFree({t \in Threads : ~Used(t)})
             T == [t \in Threads |-> IF t \in slot THEN [FreeTcb EXCEPT !.status = "DORMANT", !.prio = p] ELSE thr[t]]
  <2>1. [FreeTcb EXCEPT !.status = "DORMANT", !.prio = p] \in Tcbs
    BY NewTcb, Zenon
  <2>2. [FreeTcb EXCEPT !.status = "DORMANT", !.prio = p].status = "DORMANT"
    BY NewTcb, Zenon
  <2>3. SoundTable(T, current)
    BY <1>0, <2>1, <2>2, ZenonT(60) DEF SoundTable
  <2>4. Continue(T, Advanced(live)) /\ Advance /\ UNCHANGED <<older, sema>>
    BY <1>1, ZenonT(60) DEF CreateThread
  <2> HIDE DEF T
  <2> QED BY <1>0, <1>1, <2>3, <2>4, AdvanceSound, CallSound, ZenonT(60) DEF CreateThread
<1>2. ASSUME NEW t \in Threads, DeleteThread(t) PROVE IInv'
  <2>1. SoundTable(IF thr[t].status = "DORMANT" THEN [thr EXCEPT ![t].status = "FREE"] ELSE thr, current)
    BY <1>0, SimpleUpdates, Zenon
  <2> QED BY <1>0, <1>2, <2>1, AdvanceSound, CallSound, ZenonT(60) DEF DeleteThread
<1>3. ASSUME NEW t \in Threads, StartThread(t) PROVE IInv'
  <2>1. SoundTable([thr EXCEPT ![t] = [@ EXCEPT !.status = "READY", !.ctx = EntryCtx(t)]], current)
    BY <1>0, SimpleUpdates, Zenon
  <2>2. prog' \in [Threads -> {0, 1}] /\ older' \subseteq Threads \X Threads
    BY <1>0, <1>3, StampType, ZenonT(60) DEF StartThread, Flip
  <2> QED BY <1>0, <1>3, <2>1, <2>2, AdvanceSound, CallSound, ZenonT(60) DEF StartThread
<1>4. ASSUME NEW keep \in BOOLEAN, Exit(keep) PROVE IInv'
  <2>1. (IF keep THEN InUse("DORMANT") ELSE "FREE") \in {"DORMANT", "FREE"}
    BY ZenonT(60) DEF InUse
  <2>2. SoundTable([thr EXCEPT ![current].status = IF keep THEN InUse("DORMANT") ELSE "FREE"], current)
    BY <1>0, <2>1, SimpleUpdates, Zenon
  <2> QED BY <1>0, <1>4, <2>2, AdvanceSound, CallSound, ZenonT(60) DEF Exit
<1>5. ASSUME ThreadReturns PROVE IInv'
  <2>1. SoundTable([thr EXCEPT ![current].status = "FREE"], current)
    BY <1>0, SimpleUpdates, Zenon
  <2> QED BY <1>0, <1>5, <2>1, CallSound, ZenonT(60) DEF ThreadReturns
<1>6. ASSUME NEW t \in Threads, TerminateThread(t) PROVE IInv'
  <2>1. SoundTable(IF Used(t) /\ t # current
                   THEN [thr EXCEPT ![t] = [@ EXCEPT !.status = "DORMANT", !.wait = "NONE", !.wid = 0]]
                   ELSE thr, current)
    BY <1>0, SimpleUpdates, Zenon
  <2> QED BY <1>0, <1>6, <2>1, AdvanceSound, CallSound, ZenonT(60) DEF TerminateThread
<1>7. ASSUME NEW t \in Threads, NEW p \in Priorities, ChangeThreadPriority(t, p) PROVE IInv'
  <2>1. SoundTable(IF Used(t) THEN [thr EXCEPT ![t].prio = p] ELSE thr, current)
    BY <1>0, SimpleUpdates, Zenon
  <2> QED BY <1>0, <1>7, <2>1, AdvanceSound, CallSound, ZenonT(60) DEF ChangeThreadPriority
<1>8. ASSUME NEW p \in Priorities, RotateThreadReadyQueue(p) PROVE IInv'
  <2>1. older' \subseteq Threads \X Threads
    BY <1>0, <1>8, StampType, ZenonT(60) DEF RotateThreadReadyQueue, Runnable
  <2> QED BY <1>0, <1>8, <2>1, AdvanceSound, CallSound, ZenonT(60) DEF RotateThreadReadyQueue
<1>9. ASSUME SleepThread PROVE IInv'
  <2>1. CASE thr[current].wakeup > 0
    <3>1. thr[current].wakeup - 1 \in 0..MaxWakeup
      BY <1>0, <2>1, ConstantsAssumption DEF SoundTable, Tcbs
    <3>2. SoundTable([thr EXCEPT ![current].wakeup = @ - 1], current)
      BY <1>0, <3>1, SimpleUpdates, Zenon
    <3> QED BY <1>0, <1>9, <2>1, <3>2, AdvanceSound, CallSound, ZenonT(60) DEF SleepThread
  <2>2. CASE ~(thr[current].wakeup > 0)
    <3>1. InUse("WAIT") \in {"FREE", "WAIT"} /\ 0 \in Semas \cup {0}
      BY ZenonT(60) DEF InUse
    <3>2. Advanced(live) \in Contexts /\ Advanced(live).own = current
      BY <1>9, AdvanceSound, ZenonT(60) DEF SleepThread
    <3>3. SoundTable([thr EXCEPT ![current] = [@ EXCEPT !.status = InUse("WAIT"), !.wait = "SLEEP",
                                                         !.wid = 0, !.ctx = Advanced(live)]], current)
      BY <1>0, <3>1, <3>2, BlockedTable, Zenon
    <3> QED BY <1>0, <1>9, <2>2, <3>3, AdvanceSound, CallSound, ZenonT(60) DEF SleepThread
  <2> QED BY <2>1, <2>2, ZenonT(60)
<1>10. ASSUME NEW t \in Threads, WakeupThread(t) PROVE IInv'
  <2>1. CASE thr[t].status = "WAIT" /\ thr[t].wait = "SLEEP"
    <3>1. SoundTable([thr EXCEPT ![t] = [@ EXCEPT !.status = "READY", !.wait = "NONE"]], current)
      BY <1>0, <2>1, SimpleUpdates, Zenon
    <3> QED BY <1>0, <1>10, <2>1, <3>1, StampType, AdvanceSound, CallSound, ZenonT(60) DEF WakeupThread
  <2>2. CASE ~(thr[t].status = "WAIT" /\ thr[t].wait = "SLEEP")
    <3>1. Used(t) => thr[t].wakeup + 1 \in 0..MaxWakeup
      BY <1>0, <1>10, <2>2, ConstantsAssumption DEF WakeupThread, SoundTable, Tcbs
    <3>2. SoundTable(IF Used(t) THEN [thr EXCEPT ![t].wakeup = @ + 1] ELSE thr, current)
      BY <1>0, <3>1, SimpleUpdates, Zenon
    <3> QED BY <1>0, <1>10, <2>2, <3>2, AdvanceSound, CallSound, ZenonT(60) DEF WakeupThread
  <2> QED BY <2>1, <2>2, ZenonT(60)
<1>11. ASSUME NEW t \in Threads, CancelWakeupThread(t) PROVE IInv'
  <2>1. 0 \in 0..MaxWakeup
    BY ConstantsAssumption
  <2>2. SoundTable(IF Used(t) THEN [thr EXCEPT ![t].wakeup = 0] ELSE thr, current)
    BY <1>0, <2>1, SimpleUpdates, Zenon
  <2> QED BY <1>0, <1>11, <2>2, AdvanceSound, CallSound, ZenonT(60) DEF CancelWakeupThread
<1> QED BY <1>1, <1>2, <1>3, <1>4, <1>5, <1>6, <1>7, <1>8, <1>9, <1>10, <1>11, ZenonT(60) DEF ThreadCall

LEMMA SemaCallSound == IInv /\ SemaCall => IInv'
<1> SUFFICES ASSUME IInv, SemaCall PROVE IInv'
  OBVIOUS
<1> USE DEF Executing, Issued
<1>0. /\ SoundTable(thr, current) /\ current \in Threads
      /\ older \subseteq Threads \X Threads
      /\ sema \in [Semas -> SemaRecs] /\ prog \in [Threads -> {0, 1}]
      /\ live \in Contexts /\ (mode = "thread" => live.own = current)
  BY ZenonT(60) DEF IInv, TypeOK
<1>1. ASSUME NEW max \in 1..MaxCount, NEW init \in 0..max, CreateSema(max, init) PROVE IInv'
  <2>1. [used |-> TRUE, max |-> max, count |-> init, waits |-> 0] \in SemaRecs
    BY ConstantsAssumption DEF SemaRecs
  <2>2. sema' \in [Semas -> SemaRecs]
    BY <1>0, <1>1, <2>1, ZenonT(60) DEF CreateSema
  <2> QED BY <1>0, <1>1, <2>2, AdvanceSound, CallSound, Zenon DEF CreateSema
<1>2. ASSUME NEW s \in Semas, DeleteSema(s) PROVE IInv'
  <2>1. sema' \in [Semas -> SemaRecs]
    BY <1>0, <1>2, Zenon DEF DeleteSema, SemaRecs
  <2> QED BY <1>0, <1>2, <2>1, AdvanceSound, CallSound, Zenon DEF DeleteSema
<1>3. ASSUME NEW s \in Semas, SignalSema(s) PROVE IInv'
  <2>1. ASSUME NEW T, SoundTable(T, current), NEW O, Signalled(T, O), Advance,
               older' \subseteq Threads \X Threads, sema' \in [Semas -> SemaRecs]
        PROVE  IInv'
    <3>1. mode \in {"thread", "handler"}
      BY <1>3, Zenon DEF SignalSema
    <3>2. Continue(T, Advanced(live)) \/ Reschedule(T, O, Advanced(live))
      BY <2>1, ZenonT(60) DEF Signalled
    <3>3. /\ Advanced(live) \in Contexts /\ (mode # "handler" => Advanced(live).own = current)
          /\ epc' = epc /\ prog' \in [Threads -> {0, 1}]
      BY <2>1, <3>1, AdvanceSound, ZenonT(60)
    <3> QED BY <2>1, <3>2, <3>3, CallSound, ZenonT(60)
  <2>4. Advance
    BY <1>3, Zenon DEF SignalSema
  <2>2. CASE /\ ~sema[s].used \/ sema[s].count >= sema[s].max
             /\ UNCHANGED <<older, sema>> /\ Signalled(thr, older)
    BY <1>0, <2>1, <2>2, <2>4, ZenonT(60)
  <2>3. ASSUME sema[s].count < sema[s].max,
               \/ /\ Waiters(s) = {} /\ sema' = [sema EXCEPT ![s].count = @ + 1]
                  /\ UNCHANGED older /\ Signalled(thr, older)
               \/ \E t \in FirstWaiter(s) :
                    /\ sema' = Woken(s, t) /\ older' = Stamp(t)
                    /\ Signalled([thr EXCEPT ![t] = [@ EXCEPT !.status = "READY", !.wait = "NONE", !.wid = 0]], Stamp(t))
        PROVE  IInv'
    <3>1. sema[s].count + 1 \in 0..MaxCount
      <4>1. sema[s].count < sema[s].max
        BY <2>3, Zenon
      <4> QED BY <1>0, <4>1, ConstantsAssumption DEF SemaRecs
    <3>2. [sema EXCEPT ![s].count = @ + 1] \in [Semas -> SemaRecs]
      BY <1>0, <3>1, ZenonT(60) DEF SemaRecs
    <3>3. ASSUME NEW t PROVE Woken(s, t) \in [Semas -> SemaRecs]
      <4> DEFINE counted == [sema EXCEPT ![s].count = @ + 1]
      <4>1. \A S \in [Semas -> SemaRecs] : [S EXCEPT ![s].waits = @ - 1] \in [Semas -> SemaRecs]
        BY DEF SemaRecs
      <4>2. Woken(s, t) = [counted EXCEPT ![s].waits = @ - 1]
        BY ZenonT(60) DEF Woken
      <4>3. counted \in [Semas -> SemaRecs]
        BY <3>2, ZenonT(60)
      <4> HIDE DEF counted
      <4>4. [counted EXCEPT ![s].waits = @ - 1] \in [Semas -> SemaRecs]
        BY <4>1, <4>3, ZenonT(60)
      <4> QED BY <4>2, <4>4, ZenonT(60)
    <3>4. CASE Waiters(s) = {} /\ sema' = [sema EXCEPT ![s].count = @ + 1]
               /\ UNCHANGED older /\ Signalled(thr, older)
      BY <1>0, <2>1, <2>4, <3>2, <3>4, ZenonT(60)
    <3>5. ASSUME NEW t \in FirstWaiter(s), sema' = Woken(s, t), older' = Stamp(t),
                 Signalled([thr EXCEPT ![t] = [@ EXCEPT !.status = "READY", !.wait = "NONE", !.wid = 0]], Stamp(t))
          PROVE  IInv'
      <4>1. t \in Threads /\ thr[t].status = "WAIT"
        BY <3>5, ZenonT(60) DEF FirstWaiter, Waiters
      <4>2. SoundTable([thr EXCEPT ![t] = [@ EXCEPT !.status = "READY", !.wait = "NONE", !.wid = 0]], current)
        BY <1>0, <4>1, SimpleUpdates, Zenon
      <4> QED BY <1>0, <2>1, <2>4, <3>3, <3>5, <4>1, <4>2, StampType, ZenonT(60)
    <3> QED BY <2>3, <3>4, <3>5, Zenon
  <2> QED BY <1>3, <2>2, <2>3, Zenon DEF SignalSema
<1>4. ASSUME NEW s \in Semas, WaitSema(s) PROVE IInv'
  <2>1. CASE ~sema[s].used /\ Advance /\ Continue(thr, Advanced(live)) /\ UNCHANGED <<older, sema>>
    BY <1>0, <1>4, <2>1, AdvanceSound, CallSound, ZenonT(60) DEF WaitSema
  <2>2. CASE /\ sema[s].used /\ sema[s].count > 0 /\ Advance
             /\ sema' = [sema EXCEPT ![s].count = @ - 1]
             /\ Continue(thr, Advanced(live)) /\ UNCHANGED older
    <3>1. sema[s].count - 1 \in 0..MaxCount
      BY <1>0, <2>2, ConstantsAssumption DEF SemaRecs
    <3>2. sema' \in [Semas -> SemaRecs]
      BY <1>0, <2>2, <3>1, ZenonT(60) DEF SemaRecs
    <3> QED BY <1>0, <1>4, <2>2, <3>2, AdvanceSound, CallSound, ZenonT(60) DEF WaitSema
  <2>3. CASE /\ sema[s].used /\ sema[s].count = 0
             /\ sema' = [sema EXCEPT ![s].waits = @ + 1]
             /\ older' = Stamp(current)
             /\ Reschedule([thr EXCEPT ![current] = [@ EXCEPT !.status = InUse("WAIT"), !.wait = "SEMA",
                                                              !.wid = s, !.ctx = Parked(s)]],
                           Stamp(current), Parked(s))
             /\ UNCHANGED <<epc, prog>>
    <3>1. sema' \in [Semas -> SemaRecs]
      BY <1>0, <2>3 DEF SemaRecs
    <3>2. Parked(s) \in Contexts /\ Parked(s).own = current
      BY <1>0, <1>4, ZenonT(60) DEF WaitSema, Parked, Contexts
    <3>3. InUse("WAIT") \in {"FREE", "WAIT"} /\ s \in Semas \cup {0}
      BY ZenonT(60) DEF InUse
    <3>4. SoundTable([thr EXCEPT ![current] = [@ EXCEPT !.status = InUse("WAIT"), !.wait = "SEMA",
                                                        !.wid = s, !.ctx = Parked(s)]], current)
      BY <1>0, <3>2, <3>3, BlockedTable, Zenon
    <3> QED BY <1>0, <1>4, <2>3, <3>1, <3>2, <3>4, StampType, CallSound, ZenonT(60)
  <2> QED BY <1>4, <2>1, <2>2, <2>3, ZenonT(60) DEF WaitSema
<1>5. ASSUME NEW s \in Semas, PollSema(s) PROVE IInv'
  <2>1. sema[s].count > 0 => sema[s].count - 1 \in 0..MaxCount
    BY <1>0, ConstantsAssumption DEF SemaRecs
  <2>2. sema' \in [Semas -> SemaRecs]
    BY <1>0, <1>5, <2>1, ZenonT(60) DEF PollSema, SemaRecs
  <2> QED BY <1>0, <1>5, <2>2, AdvanceSound, CallSound, ZenonT(60) DEF PollSema
<1> QED BY <1>1, <1>2, <1>3, <1>4, <1>5, ZenonT(60) DEF SemaCall

LEMMA NextSound == IInv /\ [Next]_vars => IInv'
<1> SUFFICES ASSUME IInv, [Next]_vars PROVE IInv'
  OBVIOUS
<1>0. /\ SoundTable(thr, current) /\ current \in Threads
      /\ older \subseteq Threads \X Threads
      /\ sema \in [Semas -> SemaRecs] /\ prog \in [Threads -> {0, 1}]
      /\ live \in Contexts /\ epc \in Contexts
      /\ (mode \in {"thread", "idle"} => live.own = current)
      /\ (mode = "handler" => epc.own = current)
  BY ZenonT(60) DEF IInv, TypeOK
<1>1. CASE Step
  BY <1>0, <1>1, AdvanceSound, CallSound, ZenonT(60) DEF Step, Executing
<1>2. CASE ThreadCall
  BY <1>2, ThreadCallSound, ZenonT(60)
<1>3. CASE SemaCall
  BY <1>3, SemaCallSound, ZenonT(60)
<1>4. CASE Interrupt
  <2>1. mode \in {"thread", "idle"}
    BY <1>4, ConstantsAssumption, ZenonT(60) DEF Interrupt
  <2>2. HandlerCtx \in Contexts
    BY ZenonT(60) DEF HandlerCtx, Contexts
  <2> QED BY <1>0, <1>4, <2>1, <2>2, ZenonT(60) DEF Interrupt, IInv, TypeOK, SoundTable
<1>5. ASSUME NEW region \in EpcRegions, Eret(region) PROVE IInv'
  <2>1. HandlerCtx \in Contexts
    BY ZenonT(60) DEF HandlerCtx, Contexts
  <2>2. CASE Dispatch(thr, older, epc)
    <3>1. /\ current' \in Threads /\ SoundTable(thr', current')
          /\ live' \in Contexts /\ live'.own = current'
          /\ mode' \in {"thread", "idle"}
      BY <1>0, <1>5, <2>2, DispatchSound, ZenonT(60) DEF Eret
    <3> QED BY <1>0, <1>5, <2>1, <3>1, ZenonT(60) DEF Eret, IInv, TypeOK, SoundTable
  <2>3. CASE live' = epc /\ mode' = "thread" /\ UNCHANGED <<thr, current>>
    BY <1>0, <1>5, <2>1, <2>3, ZenonT(60) DEF Eret, IInv, TypeOK, SoundTable
  <2> QED BY <1>5, <2>2, <2>3, ZenonT(60) DEF Eret
<1>6. CASE IdleTick
  BY <1>0, <1>6, CallSound, ZenonT(60) DEF IdleTick
<1>7. CASE UNCHANGED vars
  BY <1>7, ZenonT(60) DEF vars, IInv, TypeOK, SoundTable
<1> QED BY <1>1, <1>2, <1>3, <1>4, <1>5, <1>6, <1>7, ZenonT(60) DEF Next

\* Every call, interrupt, ERET and idle tick of ee_hle_thread.c keeps the table of
\* threads sound and the registers where the mode says.
THEOREM Invariance == Spec => []IInv
  BY InitSound, NextSound, PTL DEF Spec

\* The TCBs, semaphores, registers and stamps always have their types; in
\* particular no count leaves its semaphore's range and no call sequence makes
\* a pending wakeup negative.
THEOREM TypeCorrect == Spec => []TypeOK
<1>1. IInv => TypeOK
  BY ZenonT(60) DEF IInv
<1> QED BY <1>1, Invariance, PTL

\* At most the current thread is RUN, whatever threads and handlers call.
THEOREM OnlyCurrentRuns == Spec => []RunIsCurrent
<1>1. IInv => RunIsCurrent
  BY ZenonT(60) DEF IInv, SoundTable, RunIsCurrent
<1> QED BY <1>1, Invariance, PTL

\* No two threads' registers are ever mixed up.
THEOREM RegistersNotMixed == Spec => []OwnRegisters
<1>1. IInv => OwnRegisters
  BY ZenonT(60) DEF IInv, SoundTable, OwnRegisters
<1> QED BY <1>1, Invariance, PTL
-----------------------------------------------------------------------------
(* Freshness.  Where no interrupt arrives while the CPU idles, the current *)
(* thread is RUN whenever code executes, and what a thread will be resumed *)
(* with is what its program reached.                                       *)

Resumable == {"RUN", "READY", "WAIT"}

\* What the calls hand to the scheduler: TCBs T, the current thread c, its
\* registers L and what the programs reached, P.
FreshTable(T, c, L, P) ==
    /\ \A t \in Threads \ {c} : T[t].status \in Resumable => T[t].ctx.at = P[t]
    /\ T[c].status \in Resumable => L.at = P[c]
    /\ T[c].status = "WAIT" => T[c].ctx = L
    /\ T[c].status # "READY"

\* The registers of the current thread.
Own == IF mode = "handler" THEN epc ELSE live

FInv ==
    /\ IInv
    /\ FreshTable(thr, current, Own, prog)
    /\ mode # "idle" => thr[current].status = "RUN"
    /\ mode = "idle" => Runnable(thr) = {}

\* The scheduler hands the registers on unmixed and current.
LEMMA DispatchFresh ==
    ASSUME current \in Threads, NEW T, SoundTable(T, current), NEW O,
           NEW L \in Contexts, L.own = current, Dispatch(T, O, L),
           NEW P, FreshTable(T, current, L, P)
    PROVE  /\ FreshTable(thr', current', live', P)
           /\ mode' \in {"thread", "idle"}
           /\ mode' = "thread" => thr'[current'].status = "RUN"
           /\ mode' = "idle" => Runnable(thr') = {}
<1>1. CASE /\ Runnable(T) = {} /\ thr' = T /\ live' = L /\ mode' = NoneReady /\ UNCHANGED current
  BY <1>1, ZenonT(60) DEF NoneReady
<1>2. ASSUME NEW n \in PickNextReady(T, O),
             thr' = IF n = current THEN [T EXCEPT ![n].status = "RUN"]
                                   ELSE [SwitchOut(T, L) EXCEPT ![n].status = "RUN"],
             live' = IF n = current THEN L ELSE T[n].ctx,
             current' = n, mode' = "thread"
      PROVE  FreshTable(thr', current', live', P) /\ thr'[current'].status = "RUN"
  <2>1. n \in Threads /\ T[n].status \in {"RUN", "READY"}
    BY ZenonT(60) DEF PickNextReady, Runnable
  <2>2. CASE n = current
    BY <1>2, <2>1, <2>2 DEF SoundTable, FreshTable, Tcbs, Resumable
  <2>3. CASE n # current
    <3> DEFINE S == SwitchOut(T, L)
    <3>1. S \in [Threads -> Tcbs]
      <4>1. [T[current] EXCEPT !.status = "READY", !.ctx = L] \in Tcbs
        BY SavedTcb, Zenon DEF SoundTable, Statuses
      <4> QED BY <4>1, TableUpdate, ZenonT(60) DEF SoundTable, SwitchOut
    <3>2. /\ \A t \in Threads \ {current} : S[t] = T[t]
          /\ S[current].status \in Resumable => S[current].ctx = L /\ T[current].status \in Resumable
      BY DEF SoundTable, FreshTable, Tcbs, SwitchOut, Resumable
    <3>3. thr' = [S EXCEPT ![n].status = "RUN"] /\ live' = T[n].ctx
      BY <1>2, <2>3, ZenonT(60)
    <3> HIDE DEF S
    <3>4. thr'[n].status = "RUN" /\ \A t \in Threads \ {n} : thr'[t] = S[t]
      BY <2>1, <3>1, <3>3, ZenonT(60) DEF Tcbs
    <3>5. live'.at = P[n]
      BY <2>1, <2>3, <3>3, ZenonT(60) DEF FreshTable, Resumable
    <3>6. \A t \in Threads \ {n} : S[t].status \in Resumable => S[t].ctx.at = P[t]
      BY <3>2, ZenonT(60) DEF FreshTable, Resumable
    <3> QED BY <1>2, <3>4, <3>5, <3>6 DEF FreshTable, Resumable
  <2> QED BY <2>2, <2>3, ZenonT(60)
<1> QED BY <1>1, <1>2, ZenonT(60) DEF Dispatch
\* The registers of the current thread when a call leaves L in the CPU.
Keeps(L) == IF mode = "handler" THEN epc ELSE L

LEMMA CallFresh ==
    ASSUME FInv, NEW T, SoundTable(T, current), NEW O, NEW L \in Contexts,
           mode # "handler" => L.own = current,
           \/ Continue(T, L) /\ mode # "idle" /\ T[current].status = "RUN"
           \/ Reschedule(T, O, L) /\ (mode = "handler" => T[current].status = "RUN"),
           epc' = epc, older' \subseteq Threads \X Threads,
           sema' \in [Semas -> SemaRecs], prog' \in [Threads -> {0, 1}],
           FreshTable(T, current, Keeps(L), prog')
    PROVE  FInv'
<1>1. IInv'
  BY CallSound, ZenonT(60) DEF FInv
<1>2. CASE Continue(T, L) /\ mode # "idle" /\ T[current].status = "RUN"
  BY <1>1, <1>2, ZenonT(60) DEF Continue, FInv, Keeps, Own, FreshTable, Runnable
<1>3. CASE mode # "handler" /\ Dispatch(T, O, L)
  <2>1. FreshTable(T, current, L, prog')
    BY <1>3, ZenonT(60) DEF Keeps
  <2>2. current \in Threads
    BY ZenonT(60) DEF FInv, IInv, TypeOK
  <2>3. /\ FreshTable(thr', current', live', prog')
        /\ mode' \in {"thread", "idle"}
        /\ mode' = "thread" => thr'[current'].status = "RUN"
        /\ mode' = "idle" => Runnable(thr') = {}
    BY <1>3, <2>1, <2>2, DispatchFresh, ZenonT(60)
  <2> QED BY <1>1, <2>3, ZenonT(60) DEF FInv, Own, FreshTable, Runnable
<1> QED BY <1>2, <1>3, ZenonT(60) DEF Reschedule

\* Advancing the current thread's program advances its registers.
LEMMA AdvanceFresh ==
    ASSUME FInv, mode \in {"thread", "handler"}
    PROVE  /\ Advance => FreshTable(thr, current, Keeps(Advanced(live)), prog')
           /\ FreshTable(thr, current, Keeps(live), prog)
           /\ mode = "thread" =>
                /\ live.own = current
                /\ FreshTable(thr, current, Advanced(live), [prog EXCEPT ![live.own] = Flip(live.at)])
<1>1. /\ current \in Threads /\ live \in Contexts /\ prog \in [Threads -> {0, 1}]
      /\ FreshTable(thr, current, Own, prog) /\ thr[current].status = "RUN"
      /\ mode = "thread" => live.own = current
  BY ZenonT(60) DEF FInv, IInv, TypeOK
<1>2. FreshTable(thr, current, Keeps(live), prog)
  BY <1>1, ZenonT(60) DEF Own, Keeps
<1>3. ASSUME mode = "thread"
      PROVE  FreshTable(thr, current, Advanced(live), [prog EXCEPT ![live.own] = Flip(live.at)])
  <2>1. Advanced(live).at = Flip(live.at)
    BY <1>1, <1>3, ZenonT(60) DEF Advanced, Contexts
  <2>2. \A t \in Threads : [prog EXCEPT ![live.own] = Flip(live.at)][t] = IF t = current THEN Flip(live.at) ELSE prog[t]
    BY <1>1, <1>3, ZenonT(60)
  <2> QED BY <1>1, <2>1, <2>2, ZenonT(60) DEF FreshTable
<1>4. Advance => FreshTable(thr, current, Keeps(Advanced(live)), prog')
  BY <1>2, <1>3, ZenonT(60) DEF Advance, Keeps, Advanced
<1> QED BY <1>1, <1>2, <1>3, <1>4, ZenonT(60)

\* Updating the TCB of another thread.
LEMMA FreshUpdate ==
    ASSUME NEW c \in Threads, NEW T \in [Threads -> Tcbs], NEW L, NEW P, FreshTable(T, c, L, P),
           NEW t \in Threads \ {c}, NEW r \in Tcbs,
           r.status \in Resumable => r.ctx.at = P[t]
    PROVE  /\ FreshTable([T EXCEPT ![t] = r], c, L, P)
           /\ [T EXCEPT ![t] = r][c] = T[c]
  BY TableUpdate DEF FreshTable
\* The calls that change one TCB other than by blocking a thread.
LEMMA FreshUpdates ==
    ASSUME NEW c \in Threads, NEW T \in [Threads -> Tcbs], NEW L, NEW P, FreshTable(T, c, L, P), NEW t \in Threads
    PROVE  /\ \A w \in 0..MaxWakeup : /\ FreshTable([T EXCEPT ![t].wakeup = w], c, L, P)
                                      /\ [T EXCEPT ![t].wakeup = w][c].status = T[c].status
           /\ \A p \in Priorities : /\ FreshTable([T EXCEPT ![t].prio = p], c, L, P)
                                    /\ [T EXCEPT ![t].prio = p][c].status = T[c].status
           /\ \A st \in {"DORMANT", "FREE"} : /\ FreshTable([T EXCEPT ![t].status = st], c, L, P)
                                              /\ t # c => [T EXCEPT ![t].status = st][c] = T[c]
           /\ LET S == [T EXCEPT ![t] = [@ EXCEPT !.status = "DORMANT", !.wait = "NONE", !.wid = 0]]
              IN  t # c => FreshTable(S, c, L, P) /\ S[c] = T[c]
           /\ t # c /\ T[t].status = "WAIT" =>
                /\ LET S == [T EXCEPT ![t] = [@ EXCEPT !.status = "READY", !.wait = "NONE"]]
                   IN  FreshTable(S, c, L, P) /\ S[c] = T[c]
                /\ LET S == [T EXCEPT ![t] = [@ EXCEPT !.status = "READY", !.wait = "NONE", !.wid = 0]]
                   IN  FreshTable(S, c, L, P) /\ S[c] = T[c]
           /\ t # c /\ P[t] = 0 =>
                LET S == [T EXCEPT ![t] = [@ EXCEPT !.status = "READY", !.ctx = EntryCtx(t)]]
                IN  FreshTable(S, c, L, P) /\ S[c] = T[c]
<1>1. T[t] \in Tcbs /\ T[t].ctx \in Contexts
  BY ZenonT(60) DEF Tcbs
<1>2. ASSUME NEW w \in 0..MaxWakeup
      PROVE  FreshTable([T EXCEPT ![t].wakeup = w], c, L, P) /\ [T EXCEPT ![t].wakeup = w][c].status = T[c].status
  BY ZenonT(60) DEF FreshTable, Tcbs
<1>3. ASSUME NEW p \in Priorities
      PROVE  FreshTable([T EXCEPT ![t].prio = p], c, L, P) /\ [T EXCEPT ![t].prio = p][c].status = T[c].status
  BY ZenonT(60) DEF FreshTable, Tcbs
<1>4. ASSUME NEW st \in {"DORMANT", "FREE"}
      PROVE  /\ FreshTable([T EXCEPT ![t].status = st], c, L, P)
             /\ t # c => [T EXCEPT ![t].status = st][c] = T[c]
  BY ZenonT(60) DEF FreshTable, Tcbs, Resumable
<1>5. ASSUME t # c
      PROVE  LET S == [T EXCEPT ![t] = [@ EXCEPT !.status = "DORMANT", !.wait = "NONE", !.wid = 0]]
             IN  FreshTable(S, c, L, P) /\ S[c] = T[c]
  <2>1. \A q \in Tcbs : LET r == [q EXCEPT !.status = "DORMANT", !.wait = "NONE", !.wid = 0]
                        IN  r \in Tcbs /\ r.status = "DORMANT"
    BY Zenon DEF Tcbs, Statuses
  <2> QED BY <1>1, <1>5, <2>1, FreshUpdate, Zenon DEF Resumable
<1>6. ASSUME t # c, T[t].status = "WAIT"
      PROVE  /\ LET S == [T EXCEPT ![t] = [@ EXCEPT !.status = "READY", !.wait = "NONE"]]
                IN  FreshTable(S, c, L, P) /\ S[c] = T[c]
             /\ LET S == [T EXCEPT ![t] = [@ EXCEPT !.status = "READY", !.wait = "NONE", !.wid = 0]]
                IN  FreshTable(S, c, L, P) /\ S[c] = T[c]
  <2>1. \A q \in Tcbs : LET r == [q EXCEPT !.status = "READY", !.wait = "NONE"]
                        IN  r \in Tcbs /\ r.ctx = q.ctx
    BY Zenon DEF Tcbs, Statuses
  <2>2. \A q \in Tcbs : LET r == [q EXCEPT !.status = "READY", !.wait = "NONE", !.wid = 0]
                        IN  r \in Tcbs /\ r.ctx = q.ctx
    BY Zenon DEF Tcbs, Statuses
  <2>3. T[t].ctx.at = P[t]
    BY <1>6, ZenonT(60) DEF FreshTable, Resumable
  <2>4. t \in Threads \ {c}
    BY <1>6, ZenonT(60)
  <2> DEFINE r == [T[t] EXCEPT !.status = "READY", !.wait = "NONE"]
             q == [T[t] EXCEPT !.status = "READY", !.wait = "NONE", !.wid = 0]
  <2>5. r \in Tcbs /\ r.ctx.at = P[t] /\ q \in Tcbs /\ q.ctx.at = P[t]
    BY <1>1, <2>1, <2>2, <2>3, Zenon
  <2>6. /\ FreshTable([T EXCEPT ![t] = r], c, L, P) /\ [T EXCEPT ![t] = r][c] = T[c]
        /\ FreshTable([T EXCEPT ![t] = q], c, L, P) /\ [T EXCEPT ![t] = q][c] = T[c]
    <3> HIDE DEF r, q
    <3> QED BY <2>4, <2>5, FreshUpdate, Zenon
  <2> QED BY <2>6, ZenonT(60)
<1>7. ASSUME t # c, P[t] = 0
      PROVE  LET S == [T EXCEPT ![t] = [@ EXCEPT !.status = "READY", !.ctx = EntryCtx(t)]]
             IN  FreshTable(S, c, L, P) /\ S[c] = T[c]
  <2>1. EntryCtx(t) \in Contexts /\ EntryCtx(t).at = 0
    BY ZenonT(60) DEF EntryCtx, Contexts
  <2>2. \A q \in Tcbs, x \in Contexts : LET r == [q EXCEPT !.status = "READY", !.ctx = x]
                                       IN  r \in Tcbs /\ r.ctx = x
    BY SavedTcb, Zenon DEF Statuses
  <2> DEFINE r == [T[t] EXCEPT !.status = "READY", !.ctx = EntryCtx(t)]
  <2>3. r \in Tcbs /\ r.ctx = EntryCtx(t)
    BY <1>1, <2>1, <2>2, Zenon
  <2>4. FreshTable([T EXCEPT ![t] = r], c, L, P) /\ [T EXCEPT ![t] = r][c] = T[c]
    <3> HIDE DEF r
    <3>1. t \in Threads \ {c} /\ r.ctx.at = P[t]
      BY <1>7, <2>1, <2>3, ZenonT(60)
    <3> QED BY <2>3, <3>1, FreshUpdate, Zenon
  <2> QED BY <2>4, ZenonT(60)
<1> QED BY <1>2, <1>3, <1>4, <1>5, <1>6, <1>7, ZenonT(60)

\* Blocking the current thread.
LEMMA FreshBlocked ==
    ASSUME NEW c \in Threads, NEW T \in [Threads -> Tcbs], NEW L \in Contexts, NEW P, FreshTable(T, c, L, P),
           T[c].status = "RUN", NEW k \in {"NONE", "SLEEP", "SEMA"}, NEW s \in Semas \cup {0}
    PROVE  FreshTable([T EXCEPT ![c] = [@ EXCEPT !.status = "WAIT", !.wait = k, !.wid = s, !.ctx = L]], c, L, P)
<1>1. \A q \in Tcbs : LET r == [q EXCEPT !.status = "WAIT", !.wait = k, !.wid = s, !.ctx = L]
                      IN  r \in Tcbs /\ r.status = "WAIT" /\ r.ctx = L
  BY Zenon DEF Tcbs, Statuses
<1> DEFINE r == [T[c] EXCEPT !.status = "WAIT", !.wait = k, !.wid = s, !.ctx = L]
<1>2. r \in Tcbs /\ r.status = "WAIT" /\ r.ctx = L
  BY <1>1, Zenon
<1>3. FreshTable([T EXCEPT ![c] = r], c, L, P)
  <2> HIDE DEF r
  <2> QED BY <1>2, TableUpdate, ZenonT(60) DEF FreshTable, Resumable
<1> QED BY <1>3, ZenonT(60)
\* What every call starts from.
LEMMA FreshFacts ==
    ASSUME FInv
    PROVE  /\ IInv /\ SoundTable(thr, current) /\ thr \in [Threads -> Tcbs] /\ current \in Threads
           /\ older \subseteq Threads \X Threads
           /\ sema \in [Semas -> SemaRecs] /\ prog \in [Threads -> {0, 1}]
           /\ live \in Contexts /\ epc \in Contexts /\ (mode = "thread" => live.own = current)
           /\ mode \in {"thread", "handler"} => thr[current].status = "RUN"
           /\ mode \in {"thread", "idle", "handler"}
  BY ZenonT(60) DEF FInv, IInv, TypeOK

\* A call that only does bookkeeping on another thread, or reschedules after it.
LEMMA PlainCallFresh ==
    ASSUME FInv, mode \in {"thread", "handler"}, Advance, NEW T, SoundTable(T, current), NEW O,
           FreshTable(T, current, Keeps(Advanced(live)), prog'), T[current].status = "RUN",
           Continue(T, Advanced(live)) \/ Reschedule(T, O, Advanced(live)),
           older' \subseteq Threads \X Threads, sema' \in [Semas -> SemaRecs]
    PROVE  FInv'
  BY FreshFacts, AdvanceSound, CallFresh, ZenonT(60)

LEMMA ThreadCallFresh == FInv /\ ThreadCall => FInv'
<1> SUFFICES ASSUME FInv, ThreadCall PROVE FInv'
  OBVIOUS
<1> USE DEF Executing, Issued
<1> DEFINE L == Advanced(live)
<1>0. /\ IInv /\ SoundTable(thr, current) /\ thr \in [Threads -> Tcbs] /\ current \in Threads
      /\ older \subseteq Threads \X Threads
      /\ sema \in [Semas -> SemaRecs] /\ prog \in [Threads -> {0, 1}]
      /\ live \in Contexts /\ epc \in Contexts /\ (mode = "thread" => live.own = current)
      /\ mode \in {"thread", "handler"} => thr[current].status = "RUN"
  BY FreshFacts, ZenonT(60)
<1>00. ASSUME Advance, mode \in {"thread", "handler"}
       PROVE  FreshTable(thr, current, Keeps(L), prog')
  BY <1>00, AdvanceFresh, ZenonT(60)
<1>1. ASSUME NEW p \in Priorities, CreateThread(p) PROVE FInv'
  <2> DEFINE slot == LeastFree({t \in Threads : ~Used(t)})
             T == [t \in Threads |-> IF t \in slot THEN [FreeTcb EXCEPT !.status = "DORMANT", !.prio = p] ELSE thr[t]]
  <2>1. [FreeTcb EXCEPT !.status = "DORMANT", !.prio = p] \in Tcbs
    BY NewTcb, Zenon
  <2>2. [FreeTcb EXCEPT !.status = "DORMANT", !.prio = p].status = "DORMANT"
    BY NewTcb, Zenon
  <2>3. SoundTable(T, current)
    BY <1>0, <2>1, <2>2, ZenonT(60) DEF SoundTable
  <2>4. Continue(T, L) /\ Advance /\ UNCHANGED <<older, sema>> /\ mode = "thread"
    BY <1>1, ZenonT(60) DEF CreateThread
  <2>5. current \notin slot
    BY <1>0, <2>4, ZenonT(60) DEF LeastFree, Used
  <2>6. FreshTable(T, current, Keeps(L), prog') /\ T[current].status = "RUN"
    BY <1>0, <1>00, <2>2, <2>4, <2>5, ZenonT(60) DEF FreshTable, Resumable
  <2> HIDE DEF T, L
  <2> QED BY <1>0, <2>3, <2>4, <2>6, PlainCallFresh, ZenonT(60) DEF L
<1>2. ASSUME NEW t \in Threads, DeleteThread(t) PROVE FInv'
  <2> DEFINE T == IF thr[t].status = "DORMANT" THEN [thr EXCEPT ![t].status = "FREE"] ELSE thr
  <2>1. Continue(T, L) /\ Advance /\ UNCHANGED <<older, sema>> /\ mode = "thread"
    BY <1>2, ZenonT(60) DEF DeleteThread
  <2>2. SoundTable(T, current)
    BY <1>0, SimpleUpdates, Zenon
  <2>3. FreshTable(T, current, Keeps(L), prog') /\ T[current].status = "RUN"
    BY <1>0, <1>00, <2>1, FreshUpdates, Zenon
  <2> HIDE DEF T
  <2> QED BY <1>0, <2>1, <2>2, <2>3, PlainCallFresh, ZenonT(60)
<1>3. ASSUME NEW t \in Threads, StartThread(t) PROVE FInv'
  <2> DEFINE at == [prog EXCEPT ![live.own] = Flip(live.at)]
  <2>0. mode = "thread" /\ UNCHANGED <<epc, sema>>
    BY <1>3, ZenonT(60) DEF StartThread
  <2>1. FreshTable(thr, current, L, at) /\ at \in [Threads -> {0, 1}]
    BY <1>0, <2>0, AdvanceFresh, ZenonT(60) DEF Flip
  <2>2. CASE thr[t].status = "DORMANT"
    <3> DEFINE T == [thr EXCEPT ![t] = [@ EXCEPT !.status = "READY", !.ctx = EntryCtx(t)]]
               P == [at EXCEPT ![t] = 0]
    <3>1. t # current
      BY <1>0, <2>0, <2>2, ZenonT(60)
    <3>2. FreshTable(thr, current, L, P) /\ P[t] = 0
      BY <1>0, <2>1, <2>2, <3>1, ZenonT(60) DEF FreshTable, Resumable
    <3>3. SoundTable(T, current)
      BY <1>0, SimpleUpdates, Zenon
    <3>4. FreshTable(T, current, L, P) /\ T[current].status = "RUN"
      <4> HIDE DEF L, P
      <4> QED BY <1>0, <2>0, <3>1, <3>2, FreshUpdates, Zenon
    <3>5. Reschedule(T, Stamp(t), L) /\ prog' = P /\ older' = Stamp(t)
      BY <1>3, <2>2, ZenonT(60) DEF StartThread
    <3>6. P \in [Threads -> {0, 1}] /\ Stamp(t) \subseteq Threads \X Threads
      BY <1>0, <2>1, StampType, Zenon
    <3>7. FreshTable(T, current, Keeps(L), prog')
      BY <2>0, <3>4, <3>5, ZenonT(60) DEF Keeps
    <3>8. L \in Contexts /\ L.own = current
      BY <1>0, <2>0, AdvanceSound, ZenonT(60)
    <3> HIDE DEF T, P, L
    <3> QED BY <1>0, <2>0, <3>3, <3>4, <3>5, <3>6, <3>7, <3>8, CallFresh, ZenonT(60)
  <2>3. CASE thr[t].status # "DORMANT"
    <3>1. Reschedule(thr, older, L) /\ prog' = at /\ older' = older
      BY <1>3, <2>3, ZenonT(60) DEF StartThread
    <3>2. FreshTable(thr, current, Keeps(L), prog')
      BY <2>0, <2>1, <3>1, ZenonT(60) DEF Keeps
    <3>3. L \in Contexts /\ L.own = current
      BY <1>0, <2>0, AdvanceSound, ZenonT(60)
    <3> HIDE DEF at, L
    <3> QED BY <1>0, <2>0, <2>1, <3>1, <3>2, <3>3, CallFresh, ZenonT(60)
  <2> QED BY <2>2, <2>3, ZenonT(60)
<1>4. ASSUME NEW st \in {"DORMANT", "FREE"}, NEW K \in Contexts, K.own = current, NEW O, mode = "thread",
             Reschedule([thr EXCEPT ![current].status = st], O, K),
             FreshTable(thr, current, K, prog'), prog' \in [Threads -> {0, 1}],
             UNCHANGED <<older, sema, epc>>
      PROVE  FInv'
  <2> DEFINE T == [thr EXCEPT ![current].status = st]
  <2>1. SoundTable(T, current)
    BY <1>0, SimpleUpdates, Zenon
  <2>2. FreshTable(T, current, K, prog')
    BY <1>0, <1>4, FreshUpdates, Zenon
  <2>3. FreshTable(T, current, Keeps(K), prog')
    BY <1>4, <2>2, ZenonT(60) DEF Keeps
  <2>4. Reschedule(T, O, K)
    BY <1>4, ZenonT(60)
  <2> HIDE DEF T
  <2> QED BY <1>0, <1>4, <2>1, <2>3, <2>4, CallFresh, ZenonT(60)
<1>5. ASSUME NEW keep \in BOOLEAN, Exit(keep) PROVE FInv'
  <2>1. (IF keep THEN InUse("DORMANT") ELSE "FREE") \in {"DORMANT", "FREE"}
    BY ZenonT(60) DEF InUse
  <2>2. Advance /\ mode = "thread"
    BY <1>5, ZenonT(60) DEF Exit
  <2>3. L \in Contexts /\ L.own = current /\ epc' = epc /\ prog' \in [Threads -> {0, 1}]
    BY <1>0, <2>2, AdvanceSound, ZenonT(60)
  <2>4. FreshTable(thr, current, L, prog')
    BY <1>00, <2>2, ZenonT(60) DEF Keeps
  <2> QED BY <1>4, <1>5, <2>1, <2>2, <2>3, <2>4, Zenon DEF Exit
<1>6. ASSUME ThreadReturns PROVE FInv'
  <2>1. FreshTable(thr, current, live, prog)
    BY <1>6, AdvanceFresh, ZenonT(60) DEF ThreadReturns, Keeps
  <2> QED BY <1>0, <1>4, <1>6, <2>1, ZenonT(60) DEF ThreadReturns
<1>7. ASSUME NEW t \in Threads, TerminateThread(t) PROVE FInv'
  <2> DEFINE T == IF Used(t) /\ t # current
                  THEN [thr EXCEPT ![t] = [@ EXCEPT !.status = "DORMANT", !.wait = "NONE", !.wid = 0]]
                  ELSE thr
  <2>1. Continue(T, L) /\ Advance /\ UNCHANGED <<older, sema>> /\ mode \in {"thread", "handler"}
    BY <1>7, ZenonT(60) DEF TerminateThread
  <2>2. SoundTable(T, current)
    BY <1>0, SimpleUpdates, Zenon
  <2>3. FreshTable(T, current, Keeps(L), prog') /\ T[current].status = "RUN"
    BY <1>0, <1>00, <2>1, FreshUpdates, Zenon
  <2> HIDE DEF T
  <2> QED BY <1>0, <2>1, <2>2, <2>3, PlainCallFresh, ZenonT(60)
<1>8. ASSUME NEW t \in Threads, NEW p \in Priorities, ChangeThreadPriority(t, p) PROVE FInv'
  <2> DEFINE T == IF Used(t) THEN [thr EXCEPT ![t].prio = p] ELSE thr
  <2>1. Reschedule(T, older, L) /\ Advance /\ UNCHANGED <<older, sema>> /\ mode \in {"thread", "handler"}
    BY <1>8, ZenonT(60) DEF ChangeThreadPriority
  <2>2. SoundTable(T, current)
    BY <1>0, SimpleUpdates, Zenon
  <2>3. FreshTable(T, current, Keeps(L), prog') /\ T[current].status = "RUN"
    <3>1. FreshTable(thr, current, Keeps(L), prog')
      BY <1>00, <2>1, ZenonT(60)
    <3>2. FreshTable([thr EXCEPT ![t].prio = p], current, Keeps(L), prog') /\ [thr EXCEPT ![t].prio = p][current].status = thr[current].status
      <4> HIDE DEF L
      <4> QED BY <1>0, <3>1 DEF FreshTable, Tcbs
    <3> QED BY <1>0, <2>1, <3>1, <3>2, ZenonT(60)
  <2> HIDE DEF T
  <2> QED BY <1>0, <2>1, <2>2, <2>3, PlainCallFresh, ZenonT(60)
<1>9. ASSUME NEW p \in Priorities, RotateThreadReadyQueue(p) PROVE FInv'
  <2>1. older' \subseteq Threads \X Threads
    BY <1>0, <1>9, StampType, ZenonT(60) DEF RotateThreadReadyQueue, Runnable
  <2>2. /\ Advance /\ sema' = sema /\ mode \in {"thread", "handler"}
        /\ \E O : Reschedule(thr, O, L)
    BY <1>9, ZenonT(60) DEF RotateThreadReadyQueue
  <2> QED BY <1>0, <1>00, <2>1, <2>2, PlainCallFresh, ZenonT(60)
<1>10. ASSUME SleepThread PROVE FInv'
  <2>0. Advance /\ mode = "thread" /\ UNCHANGED <<older, sema>>
    BY <1>10, ZenonT(60) DEF SleepThread
  <2>1. CASE thr[current].wakeup > 0
    <3> DEFINE T == [thr EXCEPT ![current].wakeup = @ - 1]
    <3>1. thr[current].wakeup - 1 \in 0..MaxWakeup
      BY <1>0, <2>1, ConstantsAssumption DEF Tcbs
    <3>2. SoundTable(T, current)
      BY <1>0, <3>1, SimpleUpdates, Zenon
    <3>3. FreshTable(T, current, Keeps(L), prog') /\ T[current].status = "RUN"
      <4>1. FreshTable(thr, current, Keeps(L), prog')
        BY <1>00, <2>0, ZenonT(60)
      <4>2. FreshTable([thr EXCEPT ![current].wakeup = @ - 1], current, Keeps(L), prog') /\ [thr EXCEPT ![current].wakeup = @ - 1][current].status = thr[current].status
        <5> HIDE DEF L
        <5> QED BY <1>0, <3>1, <4>1, ZenonT(60) DEF FreshTable, Tcbs
      <4> QED BY <1>0, <2>0, <4>1, <4>2, ZenonT(60)
    <3>4. Continue(T, L)
      BY <1>10, <2>1, ZenonT(60) DEF SleepThread
    <3> HIDE DEF T
    <3> QED BY <1>0, <2>0, <3>2, <3>3, <3>4, PlainCallFresh, ZenonT(60)
  <2>2. CASE ~(thr[current].wakeup > 0)
    <3> DEFINE T == [thr EXCEPT ![current] = [@ EXCEPT !.status = "WAIT", !.wait = "SLEEP", !.wid = 0, !.ctx = L]]
    <3>1. L \in Contexts /\ L.own = current /\ epc' = epc /\ prog' \in [Threads -> {0, 1}]
      BY <1>0, <2>0, AdvanceSound, ZenonT(60)
    <3>2. FreshTable(thr, current, L, prog')
      BY <1>00, <2>0, ZenonT(60) DEF Keeps
    <3>3. Reschedule(T, older, L)
      BY <1>0, <1>10, <2>0, <2>2, Zenon DEF SleepThread, InUse
    <3> HIDE DEF L
    <3>4. SoundTable(T, current)
      BY <1>0, <3>1, BlockedTable, Zenon
    <3>5. FreshTable(T, current, L, prog')
      BY <1>0, <2>0, <3>1, <3>2, FreshBlocked, Zenon
    <3>6. FreshTable(T, current, Keeps(L), prog')
      BY <2>0, <3>5, ZenonT(60) DEF Keeps
    <3> HIDE DEF T
    <3> QED BY <1>0, <2>0, <3>1, <3>3, <3>4, <3>6, CallFresh, ZenonT(60)
  <2> QED BY <2>1, <2>2, ZenonT(60)
<1>11. ASSUME NEW t \in Threads, WakeupThread(t) PROVE FInv'
  <2>0. Advance /\ mode \in {"thread", "handler"} /\ sema' = sema
    BY <1>11, ZenonT(60) DEF WakeupThread
  <2>1. CASE thr[t].status = "WAIT" /\ thr[t].wait = "SLEEP"
    <3> DEFINE T == [thr EXCEPT ![t] = [@ EXCEPT !.status = "READY", !.wait = "NONE"]]
    <3>1. t # current
      BY <1>0, <2>0, <2>1, ZenonT(60)
    <3>2. SoundTable(T, current)
      BY <1>0, <2>1, SimpleUpdates, Zenon
    <3>3. FreshTable(T, current, Keeps(L), prog') /\ T[current].status = "RUN"
      BY <1>0, <1>00, <2>0, <2>1, <3>1, FreshUpdates, Zenon
    <3>4. Reschedule(T, Stamp(t), L) /\ older' \subseteq Threads \X Threads
      BY <1>0, <1>11, <2>1, StampType, ZenonT(60) DEF WakeupThread
    <3> HIDE DEF T
    <3> QED BY <1>0, <2>0, <3>2, <3>3, <3>4, PlainCallFresh, ZenonT(60)
  <2>2. CASE ~(thr[t].status = "WAIT" /\ thr[t].wait = "SLEEP")
    <3> DEFINE T == IF Used(t) THEN [thr EXCEPT ![t].wakeup = @ + 1] ELSE thr
    <3>1. Used(t) => thr[t].wakeup + 1 \in 0..MaxWakeup
      BY <1>0, <1>11, <2>2, ConstantsAssumption DEF WakeupThread, Tcbs
    <3>2. SoundTable(T, current)
      BY <1>0, <3>1, SimpleUpdates, Zenon
    <3>3. FreshTable(T, current, Keeps(L), prog') /\ T[current].status = "RUN"
      <4>1. FreshTable(thr, current, Keeps(L), prog')
        BY <1>00, <2>0, ZenonT(60)
      <4>2. FreshTable([thr EXCEPT ![t].wakeup = @ + 1], current, Keeps(L), prog') /\ [thr EXCEPT ![t].wakeup = @ + 1][current].status = thr[current].status
        <5> HIDE DEF L
        <5> QED BY <1>0, <3>1, <4>1 DEF FreshTable, Tcbs
      <4> QED BY <1>0, <2>0, <4>1, <4>2, ZenonT(60)
    <3>4. Reschedule(T, older, L) /\ older' = older
      BY <1>11, <2>2, ZenonT(60) DEF WakeupThread
    <3> HIDE DEF T
    <3> QED BY <1>0, <2>0, <3>2, <3>3, <3>4, PlainCallFresh, ZenonT(60)
  <2> QED BY <2>1, <2>2, ZenonT(60)
<1>12. ASSUME NEW t \in Threads, CancelWakeupThread(t) PROVE FInv'
  <2> DEFINE T == IF Used(t) THEN [thr EXCEPT ![t].wakeup = 0] ELSE thr
  <2>1. Continue(T, L) /\ Advance /\ UNCHANGED <<older, sema>> /\ mode \in {"thread", "handler"}
    BY <1>12, ZenonT(60) DEF CancelWakeupThread
  <2>2. 0 \in 0..MaxWakeup
    BY ConstantsAssumption
  <2>3. SoundTable(T, current)
    BY <1>0, <2>2, SimpleUpdates, Zenon
  <2>4. FreshTable(T, current, Keeps(L), prog') /\ T[current].status = "RUN"
    <3>1. FreshTable(thr, current, Keeps(L), prog')
      BY <1>00, <2>1, ZenonT(60)
    <3>2. FreshTable([thr EXCEPT ![t].wakeup = 0], current, Keeps(L), prog') /\ [thr EXCEPT ![t].wakeup = 0][current].status = thr[current].status
      <4> HIDE DEF L
      <4> QED BY <1>0, <2>2, <3>1 DEF FreshTable, Tcbs
    <3> QED BY <1>0, <2>1, <3>1, <3>2, ZenonT(60)
  <2> HIDE DEF T
  <2> QED BY <1>0, <2>1, <2>3, <2>4, PlainCallFresh, ZenonT(60)
<1> QED BY <1>1, <1>2, <1>3, <1>5, <1>6, <1>7, <1>8, <1>9, <1>10, <1>11, <1>12, ZenonT(60) DEF ThreadCall

LEMMA SemaCallFresh == FInv /\ SemaCall => FInv'
<1> SUFFICES ASSUME FInv, SemaCall PROVE FInv'
  OBVIOUS
<1> USE DEF Executing, Issued
<1> DEFINE L == Advanced(live)
<1>0. /\ IInv /\ SoundTable(thr, current) /\ thr \in [Threads -> Tcbs] /\ current \in Threads
      /\ older \subseteq Threads \X Threads
      /\ sema \in [Semas -> SemaRecs] /\ prog \in [Threads -> {0, 1}]
      /\ live \in Contexts /\ epc \in Contexts /\ (mode = "thread" => live.own = current)
      /\ mode \in {"thread", "handler"} => thr[current].status = "RUN"
  BY FreshFacts, ZenonT(60)
<1>1. sema' \in [Semas -> SemaRecs]
  BY SemaCallSound, ZenonT(60) DEF FInv, IInv, TypeOK
<1>2. ASSUME mode \in {"thread", "handler"}, Advance, Continue(thr, L), older' = older
      PROVE  FInv'
  BY <1>0, <1>1, <1>2, AdvanceFresh, PlainCallFresh, ZenonT(60)
<1>3. ASSUME NEW max \in 1..MaxCount, NEW init \in 0..max, CreateSema(max, init) PROVE FInv'
  BY <1>2, <1>3, ZenonT(60) DEF CreateSema
<1>4. ASSUME NEW s \in Semas, DeleteSema(s) PROVE FInv'
  BY <1>2, <1>4, ZenonT(60) DEF DeleteSema
<1>5. ASSUME NEW s \in Semas, SignalSema(s) PROVE FInv'
  <2>0. Advance /\ mode \in {"thread", "handler"}
    BY <1>5, ZenonT(30) DEF SignalSema
  <2>1. ASSUME NEW T, SoundTable(T, current), NEW O, Signalled(T, O), older' \subseteq Threads \X Threads,
               FreshTable(T, current, Keeps(L), prog'), T[current].status = "RUN"
        PROVE  FInv'
    <3>1. Continue(T, L) \/ Reschedule(T, O, L)
      BY <2>1, ZenonT(60) DEF Signalled
    <3> QED BY <1>1, <2>0, <2>1, <3>1, PlainCallFresh, ZenonT(60)
  <2>2. CASE Signalled(thr, older) /\ older' = older
    BY <1>0, <2>0, <2>1, <2>2, AdvanceFresh, ZenonT(60)
  <2>3. ASSUME NEW t \in FirstWaiter(s), older' = Stamp(t),
               Signalled([thr EXCEPT ![t] = [@ EXCEPT !.status = "READY", !.wait = "NONE", !.wid = 0]], Stamp(t))
        PROVE  FInv'
    <3> DEFINE T == [thr EXCEPT ![t] = [@ EXCEPT !.status = "READY", !.wait = "NONE", !.wid = 0]]
    <3>1. t \in Threads /\ thr[t].status = "WAIT" /\ t # current
      BY <1>0, <2>0, <2>3, ZenonT(60) DEF FirstWaiter, Waiters
    <3>2. SoundTable(T, current)
      BY <1>0, <3>1, SimpleUpdates, Zenon
    <3>3. FreshTable(T, current, Keeps(L), prog') /\ T[current].status = "RUN"
      BY <1>0, <2>0, <3>1, AdvanceFresh, FreshUpdates, Zenon
    <3>4. Signalled(T, Stamp(t)) /\ older' \subseteq Threads \X Threads
      BY <1>0, <2>3, <3>1, StampType, ZenonT(60)
    <3> HIDE DEF T
    <3> QED BY <2>1, <3>2, <3>3, <3>4, ZenonT(60)
  <2> QED BY <1>5, <2>2, <2>3, Zenon DEF SignalSema
<1>6. ASSUME NEW s \in Semas, WaitSema(s) PROVE FInv'
  <2>1. CASE Advance /\ Continue(thr, L) /\ older' = older
    BY <1>2, <1>6, <2>1, ZenonT(60) DEF WaitSema
  <2>2. CASE /\ older' = Stamp(current)
             /\ Reschedule([thr EXCEPT ![current] = [@ EXCEPT !.status = InUse("WAIT"), !.wait = "SEMA",
                                                              !.wid = s, !.ctx = Parked(s)]],
                           Stamp(current), Parked(s))
             /\ UNCHANGED <<epc, prog>>
    <3> DEFINE K == Parked(s)
               T == [thr EXCEPT ![current] = [@ EXCEPT !.status = "WAIT", !.wait = "SEMA", !.wid = s, !.ctx = K]]
    <3>0. mode = "thread" /\ thr[current].status = "RUN"
      BY <1>0, <1>6, ZenonT(60) DEF WaitSema
    <3>1. K \in Contexts /\ K.own = current /\ K.at = live.at
      BY <1>0, <3>0, ZenonT(60) DEF Parked, Contexts
    <3>2. FreshTable(thr, current, K, prog)
      BY <3>0, <3>1, AdvanceFresh, ZenonT(60) DEF FreshTable, Keeps
    <3>3. Reschedule(T, Stamp(current), K) /\ older' \subseteq Threads \X Threads
      BY <1>0, <2>2, <3>0, StampType, ZenonT(60) DEF InUse
    <3> HIDE DEF K
    <3>4. SoundTable(T, current)
      BY <1>0, <3>1, BlockedTable, Zenon
    <3>5. FreshTable(T, current, K, prog)
      BY <1>0, <3>0, <3>1, <3>2, FreshBlocked, Zenon
    <3>6. FreshTable(T, current, Keeps(K), prog')
      BY <2>2, <3>0, <3>5, ZenonT(60) DEF Keeps
    <3> HIDE DEF T
    <3> QED BY <1>0, <1>1, <2>2, <3>0, <3>1, <3>3, <3>4, <3>6, CallFresh, ZenonT(60)
  <2> QED BY <1>6, <2>1, <2>2, ZenonT(60) DEF WaitSema
<1>7. ASSUME NEW s \in Semas, PollSema(s) PROVE FInv'
  BY <1>2, <1>7, ZenonT(60) DEF PollSema
<1> QED BY <1>3, <1>4, <1>5, <1>6, <1>7, ZenonT(60) DEF SemaCall
LEMMA InitFresh == Init => FInv
<1> SUFFICES ASSUME Init PROVE FInv
  OBVIOUS
<1>1. IInv
  BY InitSound, ZenonT(60)
<1>2. \A t \in Threads : thr[t].status = IF t = 1 THEN "RUN" ELSE "FREE"
  BY ZenonT(60) DEF Init, FreeTcb
<1>3. FreshTable(thr, current, Own, prog)
  <2>1. /\ current = 1 /\ 1 \in Threads /\ Own = EntryCtx(1) /\ EntryCtx(1).at = 0
        /\ prog = [t \in Threads |-> 0]
    BY ConstantsAssumption DEF Init, Own, EntryCtx, Threads
  <2> QED BY <1>2, <2>1, ZenonT(60) DEF FreshTable, Resumable
<1> QED BY <1>1, <1>2, <1>3, Zenon DEF FInv, Init, Threads, IInv, TypeOK

LEMMA NextFresh == ASSUME "idle" \notin IrqModes PROVE FInv /\ [Next]_vars => FInv'
<1> SUFFICES ASSUME FInv, [Next]_vars PROVE FInv'
  OBVIOUS
<1>0. /\ IInv /\ SoundTable(thr, current) /\ thr \in [Threads -> Tcbs] /\ current \in Threads
      /\ older \subseteq Threads \X Threads
      /\ sema \in [Semas -> SemaRecs] /\ prog \in [Threads -> {0, 1}]
      /\ live \in Contexts /\ epc \in Contexts /\ (mode = "thread" => live.own = current)
      /\ mode \in {"thread", "handler"} => thr[current].status = "RUN"
  BY FreshFacts, ZenonT(60)
<1>1. CASE Step
  BY <1>0, <1>1, AdvanceFresh, PlainCallFresh, ZenonT(60) DEF Step, Executing
<1>2. CASE ThreadCall
  BY <1>2, ThreadCallFresh, ZenonT(60)
<1>3. CASE SemaCall
  BY <1>3, SemaCallFresh, ZenonT(60)
<1>4. CASE Interrupt
  <2>1. mode = "thread" /\ IInv'
    BY <1>0, <1>4, NextSound, ConstantsAssumption, ZenonT(60) DEF Interrupt, Next
  <2> QED BY <1>0, <1>4, <2>1, ZenonT(60) DEF Interrupt, FInv, FreshTable, Own
<1>5. ASSUME NEW region \in EpcRegions, Eret(region) PROVE FInv'
  <2>1. IInv'
    BY <1>0, <1>5, NextSound, ZenonT(60) DEF Next
  <2>2. mode = "handler" /\ FreshTable(thr, current, epc, prog) /\ epc.own = current
    BY <1>5, ZenonT(60) DEF Eret, FInv, Own, IInv
  <2>3. CASE Dispatch(thr, older, epc)
    <3>1. /\ FreshTable(thr', current', live', prog')
          /\ mode' \in {"thread", "idle"}
          /\ mode' = "thread" => thr'[current'].status = "RUN"
          /\ mode' = "idle" => Runnable(thr') = {}
      BY <1>0, <1>5, <2>2, <2>3, DispatchFresh, ZenonT(60) DEF Eret
    <3> QED BY <2>1, <3>1, ZenonT(60) DEF FInv, Own, FreshTable, Runnable
  <2>4. CASE live' = epc /\ mode' = "thread" /\ UNCHANGED <<thr, current>>
    BY <1>0, <1>5, <2>1, <2>2, <2>4, ZenonT(60) DEF Eret, FInv, FreshTable, Own
  <2> QED BY <1>5, <2>3, <2>4, ZenonT(60) DEF Eret
<1>6. CASE IdleTick
  <2>1. live.own = current /\ Keeps(live) = Own /\ FreshTable(thr, current, Own, prog)
    BY <1>6, ZenonT(60) DEF IdleTick, FInv, IInv, Keeps, Own
  <2> QED BY <1>0, <1>6, <2>1, CallFresh, ZenonT(60) DEF IdleTick
<1>7. CASE UNCHANGED vars
  <2>1. IInv'
    BY <1>0, NextSound, ZenonT(60)
  <2> QED BY <1>7, <2>1, ZenonT(60) DEF vars, FInv, FreshTable, Own, Runnable
<1> QED BY <1>1, <1>2, <1>3, <1>4, <1>5, <1>6, <1>7, ZenonT(60) DEF Next

\* Every TCB, the CPU and EPC hold what the programs reached, the current thread is
\* RUN unless the CPU idles, and it idles only when reschedule() finds nobody.
THEOREM Freshness == ASSUME "idle" \notin IrqModes PROVE Spec => []FInv
<1>1. FInv /\ [Next]_vars => FInv'
  BY NextFresh, ZenonT(60)
<1> QED BY <1>1, InitFresh, PTL DEF Spec

\* A thread always resumes exactly where its program left off, however calls,
\* preemptions and handlers interleave, as long as no interrupt is taken while
\* the CPU idles.
THEOREM ThreadsResumeFresh == ASSUME "idle" \notin IrqModes PROVE Spec => []ContextFresh
<1>1. FInv => ContextFresh
  BY ZenonT(60) DEF FInv, FreshTable, Own, ContextFresh, Context, IInv, TypeOK, Resumable
<1> QED BY <1>1, Freshness, PTL

\* Only a RUN thread's code executes outside handlers, under the same condition.
THEOREM OnlyRunExecutes == ASSUME "idle" \notin IrqModes PROVE Spec => []BlockedNeverExecutes
<1>1. FInv => BlockedNeverExecutes
  BY ZenonT(60) DEF FInv, BlockedNeverExecutes
<1> QED BY <1>1, Freshness, PTL
-----------------------------------------------------------------------------
(* Semaphores.  Where no thread is terminated, wait_threads counts the     *)
(* blocked threads and every unit of a count that blocked threads could    *)
(* use is about to be taken by a thread that retries its WaitSema.         *)

\* The registers thread t will execute with next.
Regs(T, c, L, t) == IF t = c THEN L ELSE T[t].ctx

BlockedIn(T, s) == {t \in Threads : T[t].status = "WAIT" /\ T[t].wait = "SEMA" /\ T[t].wid = s}
RetryingIn(T, c, L, s) == {t \in Threads : T[t].status \in {"RUN", "READY"} /\ Regs(T, c, L, t).call = s}

SemaOK(T, c, L, S) ==
    \A s \in Semas :
      /\ \A t \in BlockedIn(T, s) : T[t].ctx.call = s
      /\ Cardinality(BlockedIn(T, s)) = IF S[s].used THEN S[s].waits ELSE 0
      /\ S[s].used /\ BlockedIn(T, s) # {} => S[s].count <= Cardinality(RetryingIn(T, c, L, s))

SInv == FInv /\ SemaOK(thr, current, Own, sema)

\* A table U and registers K in which the same threads are blocked on semaphores
\* as in T and L, and every thread that was about to retry still is.
Undisturbed(T, L, c, U, K, d) ==
    \A t \in Threads :
      /\ (U[t].status = "WAIT" /\ U[t].wait = "SEMA") <=> (T[t].status = "WAIT" /\ T[t].wait = "SEMA")
      /\ T[t].status = "WAIT" /\ T[t].wait = "SEMA" => U[t].wid = T[t].wid /\ U[t].ctx = T[t].ctx
      /\ T[t].status \in {"RUN", "READY"} /\ Regs(T, c, L, t).call \in Semas =>
           U[t].status \in {"RUN", "READY"} /\ Regs(U, d, K, t).call = Regs(T, c, L, t).call

LEMMA ThreadSets ==
    ASSUME NEW A, A \subseteq Threads
    PROVE  /\ IsFiniteSet(A) /\ Cardinality(A) \in Nat
           /\ Cardinality(A) = 0 <=> A = {}
           /\ \A B : A \subseteq B /\ B \subseteq Threads => Cardinality(A) <= Cardinality(B)
           /\ \A t \in Threads \ A : Cardinality(A \cup {t}) = Cardinality(A) + 1
           /\ \A t \in A : Cardinality(A \ {t}) = Cardinality(A) - 1
<1>1. IsFiniteSet(Threads)
  BY FS_Interval, ConstantsAssumption DEF Threads
<1>2. \A B : B \subseteq Threads => IsFiniteSet(B)
  BY <1>1, FS_Subset, ZenonT(60)
<1> QED BY <1>2, FS_CardinalityType, FS_EmptySet, FS_Subset, FS_AddElement, FS_RemoveElement, Zenon

LEMMA SemaKept ==
    ASSUME NEW T, NEW L, NEW c, NEW U, NEW K, NEW d, NEW S \in [Semas -> SemaRecs],
           SemaOK(T, c, L, S), Undisturbed(T, L, c, U, K, d)
    PROVE  SemaOK(U, d, K, S)
<1> SUFFICES ASSUME NEW s \in Semas
             PROVE  /\ \A t \in BlockedIn(U, s) : U[t].ctx.call = s
                    /\ Cardinality(BlockedIn(U, s)) = IF S[s].used THEN S[s].waits ELSE 0
                    /\ S[s].used /\ BlockedIn(U, s) # {} => S[s].count <= Cardinality(RetryingIn(U, d, K, s))
  BY ZenonT(60) DEF SemaOK
<1>1. BlockedIn(U, s) = BlockedIn(T, s)
  BY ZenonT(60) DEF BlockedIn, Undisturbed
<1>2. \A t \in BlockedIn(U, s) : U[t].ctx.call = s
  <2>1. \A t \in BlockedIn(T, s) : T[t].ctx.call = s
    BY ZenonT(60) DEF SemaOK
  <2>2. \A t \in BlockedIn(T, s) : U[t].ctx = T[t].ctx
    BY ZenonT(60) DEF BlockedIn, Undisturbed
  <2> QED BY <1>1, <2>1, <2>2, ZenonT(60)
<1>3. RetryingIn(T, c, L, s) \subseteq RetryingIn(U, d, K, s) /\ RetryingIn(U, d, K, s) \subseteq Threads
  BY ZenonT(60) DEF RetryingIn, Undisturbed
<1>4. Cardinality(RetryingIn(T, c, L, s)) <= Cardinality(RetryingIn(U, d, K, s))
  BY <1>3, ThreadSets, ZenonT(60)
<1>5. Cardinality(RetryingIn(T, c, L, s)) \in Nat /\ Cardinality(RetryingIn(U, d, K, s)) \in Nat
  BY <1>3, ThreadSets, ZenonT(60)
<1>6. S[s].count \in Int
  BY DEF SemaRecs
<1> QED BY <1>1, <1>2, <1>4, <1>5, <1>6, SMTT(30) DEF SemaOK

\* Switching threads disturbs no semaphore.
LEMMA DispatchSema ==
    ASSUME current \in Threads, NEW T \in [Threads -> Tcbs], NEW O, NEW L \in Contexts, Dispatch(T, O, L),
           T[current].status # "READY"
    PROVE  Undisturbed(T, L, current, thr', live', current')
<1>1. CASE Runnable(T) = {} /\ thr' = T /\ live' = L /\ UNCHANGED current
  BY <1>1, ZenonT(60) DEF Undisturbed
<1>2. ASSUME NEW n \in Runnable(T), n = current, thr' = [T EXCEPT ![n].status = "RUN"], live' = L, current' = n
      PROVE  Undisturbed(T, L, current, thr', live', current')
  BY <1>2, ZenonT(60) DEF Undisturbed, Runnable, Regs, Tcbs
<1>3. ASSUME NEW n \in Runnable(T), n # current, thr' = [SwitchOut(T, L) EXCEPT ![n].status = "RUN"],
             live' = T[n].ctx, current' = n
      PROVE  Undisturbed(T, L, current, thr', live', current')
  <2> DEFINE S == SwitchOut(T, L)
  <2>1. /\ S \in [Threads -> Tcbs]
        /\ \A t \in Threads \ {current} : S[t] = T[t]
        /\ T[current].status # "RUN" => S[current] = T[current]
        /\ T[current].status = "RUN" => S[current].status = "READY" /\ S[current].ctx = L
    <3>1. [T[current] EXCEPT !.status = "READY", !.ctx = L] \in Tcbs
      BY SavedTcb, ZenonT(30) DEF Statuses
    <3> QED BY <3>1, TableUpdate DEF SwitchOut, Tcbs
  <2> HIDE DEF S
  <2>2. /\ \A t \in Threads \ {n} : thr'[t] = S[t]
        /\ thr'[n].status = "RUN"
        /\ n \in Threads /\ T[n].status \in {"RUN", "READY"}
    BY <1>3, <2>1, ZenonT(60) DEF S, Runnable, Tcbs
  <2>3. ASSUME NEW t \in Threads
        PROVE  /\ (thr'[t].status = "WAIT" /\ thr'[t].wait = "SEMA") <=> (T[t].status = "WAIT" /\ T[t].wait = "SEMA")
               /\ T[t].status = "WAIT" /\ T[t].wait = "SEMA" => thr'[t].wid = T[t].wid /\ thr'[t].ctx = T[t].ctx
               /\ T[t].status \in {"RUN", "READY"} =>
                    thr'[t].status \in {"RUN", "READY"} /\ Regs(thr', n, T[n].ctx, t) = Regs(T, current, L, t)
    <3>1. CASE t = n
      BY <1>3, <2>2, <3>1, ZenonT(60) DEF Regs
    <3>2. CASE t # n /\ t # current
      BY <2>1, <2>2, <3>2, ZenonT(60) DEF Regs
    <3>3. CASE t # n /\ t = current
      BY <2>1, <2>2, <3>3, ZenonT(60) DEF Regs
    <3> QED BY <3>1, <3>2, <3>3, ZenonT(60)
  <2> QED BY <1>3, <2>3, Zenon DEF Undisturbed
<1> QED BY <1>1, <1>2, <1>3, ZenonT(60) DEF Dispatch, PickNextReady

\* A call that leaves the semaphores' threads alone.
LEMMA CallSema ==
    ASSUME FInv, NEW T \in [Threads -> Tcbs], NEW O, NEW L \in Contexts, T[current].status # "READY",
           (mode # "idle" /\ Continue(T, L)) \/ Reschedule(T, O, L), epc' = epc,
           sema' \in [Semas -> SemaRecs], SemaOK(T, current, Keeps(L), sema')
    PROVE  SemaOK(thr', current', Own', sema')
<1>1. CASE mode # "idle" /\ Continue(T, L)
  BY <1>1, ZenonT(60) DEF Continue, Own, Keeps
<1>2. CASE mode # "handler" /\ Dispatch(T, O, L)
  <2>1. current \in Threads
    BY FreshFacts, ZenonT(60)
  <2>2. Undisturbed(T, L, current, thr', live', current') /\ Own' = live' /\ Keeps(L) = L
    BY <1>2, <2>1, DispatchSema, ZenonT(60) DEF Dispatch, NoneReady, Own, Keeps
  <2> QED BY <2>2, SemaKept
<1>3. CASE mode = "handler" /\ Continue(T, L)
  BY <1>1, <1>3, ZenonT(60)
<1> QED BY <1>1, <1>2, <1>3, ZenonT(60) DEF Reschedule

\* A call that changes no semaphore and no thread that waits or retries.
LEMMA QuietCall ==
    ASSUME SInv, NEW T \in [Threads -> Tcbs], NEW O, NEW L \in Contexts, T[current].status # "READY",
           (mode # "idle" /\ Continue(T, L)) \/ Reschedule(T, O, L), epc' = epc, sema' = sema,
           Undisturbed(thr, Own, current, T, Keeps(L), current)
    PROVE  SemaOK(thr', current', Own', sema')
<1>1. FInv /\ SemaOK(thr, current, Own, sema) /\ sema \in [Semas -> SemaRecs] /\ sema' \in [Semas -> SemaRecs]
  BY FreshFacts, ZenonT(60) DEF SInv
<1>2. SemaOK(T, current, Keeps(L), sema')
  BY <1>1, SemaKept, ZenonT(60)
<1> QED BY <1>1, <1>2, CallSema, ZenonT(60)

\* What a thread call may do to each TCB.
QuietTable(T) ==
    /\ \A t \in Threads \ {current} :
         \/ /\ thr[t].status = T[t].status /\ thr[t].wait = T[t].wait
            /\ thr[t].wid = T[t].wid /\ thr[t].ctx = T[t].ctx
         \/ /\ thr[t].status \in {"FREE", "DORMANT"} \/ (thr[t].status = "WAIT" /\ thr[t].wait # "SEMA")
            /\ T[t].status # "WAIT"
    /\ T[current].status = "WAIT" => T[current].wait # "SEMA"
    /\ mode = "handler" => T[current].status = "RUN"
    /\ T[current].status # "READY"

LEMMA QuietTcb ==
    ASSUME FInv, mode \in {"thread", "handler"}, mode = "thread" => live.call = NoCall,
           NEW T \in [Threads -> Tcbs], NEW L, L = Advanced(live) \/ (mode = "thread" /\ L = live),
           QuietTable(T)
    PROVE  Undisturbed(thr, Own, current, T, Keeps(L), current)
<1>1. /\ live \in Contexts /\ current \in Threads /\ thr[current].status = "RUN"
  BY FreshFacts, ZenonT(60)
<1>2. mode = "thread" => Own.call \notin Semas /\ Keeps(L).call \notin Semas
  <2>1. \A x \in Contexts : [x EXCEPT !.at = Flip(@), !.call = NoCall].call = NoCall
    BY ZenonT(60) DEF Contexts
  <2>2. NoCall \notin Semas
    BY ConstantsAssumption DEF NoCall, Semas
  <2> QED BY <1>1, <2>1, <2>2, Zenon DEF Own, Keeps, Advanced
<1>3. mode = "handler" => Keeps(L) = Own
  BY ZenonT(60) DEF Own, Keeps
<1> SUFFICES ASSUME NEW t \in Threads
             PROVE  /\ (T[t].status = "WAIT" /\ T[t].wait = "SEMA") <=> (thr[t].status = "WAIT" /\ thr[t].wait = "SEMA")
                    /\ thr[t].status = "WAIT" /\ thr[t].wait = "SEMA" => T[t].wid = thr[t].wid /\ T[t].ctx = thr[t].ctx
                    /\ thr[t].status \in {"RUN", "READY"} /\ Regs(thr, current, Own, t).call \in Semas =>
                         /\ T[t].status \in {"RUN", "READY"}
                         /\ Regs(T, current, Keeps(L), t).call = Regs(thr, current, Own, t).call
  BY ZenonT(60) DEF Undisturbed
<1>4. CASE t = current
  BY <1>1, <1>2, <1>3, <1>4, ZenonT(60) DEF Regs, QuietTable
<1>5. CASE t # current
  BY <1>5, ZenonT(60) DEF Regs, QuietTable
<1> QED BY <1>4, <1>5, ZenonT(60)

LEMMA ThreadCallSema ==
    ASSUME SInv, ThreadCall, Calls \cap {"TerminateThread", "iTerminateThread"} = {}
    PROVE  SemaOK(thr', current', Own', sema')
<1> USE DEF Executing, Issued
<1> DEFINE L == Advanced(live)
<1>0. /\ FInv /\ thr \in [Threads -> Tcbs] /\ current \in Threads /\ SoundTable(thr, current)
      /\ live \in Contexts
      /\ mode \in {"thread", "handler"} => thr[current].status = "RUN" /\ L \in Contexts
  BY FreshFacts, AdvanceSound, ZenonT(60) DEF SInv, Advanced, Contexts, Flip, NoCall
<1>1. ASSUME NEW T \in [Threads -> Tcbs], NEW K, K = L \/ (mode = "thread" /\ K = live), QuietTable(T),
             mode \in {"thread", "handler"}, mode = "thread" => live.call = NoCall,
             NEW O, Continue(T, K) \/ Reschedule(T, O, K), epc' = epc, sema' = sema
      PROVE  SemaOK(thr', current', Own', sema')
  <2>1. Undisturbed(thr, Own, current, T, Keeps(K), current)
    BY <1>0, <1>1, QuietTcb, ZenonT(60)
  <2>2. T[current].status # "READY" /\ K \in Contexts /\ mode # "idle"
    BY <1>0, <1>1, ZenonT(60) DEF QuietTable
  <2> QED BY <1>1, <2>1, <2>2, QuietCall, ZenonT(60)
<1>2. ASSUME NEW p \in Priorities, CreateThread(p) PROVE SemaOK(thr', current', Own', sema')
  <2> DEFINE slot == LeastFree({t \in Threads : ~Used(t)})
             T == [t \in Threads |-> IF t \in slot THEN [FreeTcb EXCEPT !.status = "DORMANT", !.prio = p]
                                                   ELSE thr[t]]
  <2>1. Continue(T, L) /\ mode = "thread" /\ live.call = NoCall /\ epc' = epc /\ sema' = sema
    BY <1>2, ZenonT(60) DEF CreateThread, Advance
  <2>2. [FreeTcb EXCEPT !.status = "DORMANT", !.prio = p] \in Tcbs
    BY NewTcb, Zenon
  <2>3. [FreeTcb EXCEPT !.status = "DORMANT", !.prio = p].status = "DORMANT"
    BY NewTcb, Zenon
  <2>4. \A t \in slot : thr[t].status = "FREE"
    BY ZenonT(60) DEF LeastFree, Used
  <2>5. T \in [Threads -> Tcbs]
    BY <1>0, <2>2, ZenonT(60)
  <2>6. QuietTable(T)
    BY <1>0, <2>1, <2>3, <2>4, ZenonT(60) DEF QuietTable
  <2> HIDE DEF T
  <2> QED BY <1>1, <2>1, <2>5, <2>6, ZenonT(60)
<1>3. ASSUME NEW t \in Threads, DeleteThread(t) PROVE SemaOK(thr', current', Own', sema')
  <2> DEFINE T == IF thr[t].status = "DORMANT" THEN [thr EXCEPT ![t].status = "FREE"] ELSE thr
  <2>1. Continue(T, L) /\ mode = "thread" /\ live.call = NoCall /\ epc' = epc /\ sema' = sema
    BY <1>3, ZenonT(60) DEF DeleteThread, Advance
  <2>2. T \in [Threads -> Tcbs] /\ QuietTable(T)
    BY <1>0, <2>1 DEF QuietTable, Tcbs, Statuses
  <2> HIDE DEF T
  <2> QED BY <1>1, <2>1, <2>2, ZenonT(60)
<1>4. ASSUME NEW t \in Threads, StartThread(t) PROVE SemaOK(thr', current', Own', sema')
  <2>0. mode = "thread" /\ live.call = NoCall /\ epc' = epc /\ sema' = sema
    BY <1>4, ZenonT(60) DEF StartThread
  <2>1. CASE thr[t].status = "DORMANT"
    <3> DEFINE T == [thr EXCEPT ![t] = [@ EXCEPT !.status = "READY", !.ctx = EntryCtx(t)]]
    <3>1. Reschedule(T, Stamp(t), L)
      BY <1>4, <2>1, ZenonT(60) DEF StartThread
    <3>2. EntryCtx(t) \in Contexts
      BY ZenonT(60) DEF EntryCtx, Contexts
    <3>3. T \in [Threads -> Tcbs] /\ QuietTable(T)
      BY <1>0, <2>0, <2>1, <3>2, ZenonT(30) DEF QuietTable, Tcbs, Statuses
    <3> HIDE DEF T
    <3> QED BY <1>1, <2>0, <3>1, <3>3, ZenonT(60)
  <2>2. CASE thr[t].status # "DORMANT"
    <3>1. Reschedule(thr, older, L)
      BY <1>4, <2>2, ZenonT(60) DEF StartThread
    <3>2. QuietTable(thr)
      BY <1>0, <2>0, ZenonT(60) DEF QuietTable
    <3> QED BY <1>0, <1>1, <2>0, <3>1, <3>2, ZenonT(60)
  <2> QED BY <2>1, <2>2, ZenonT(60)
<1>5. ASSUME NEW st \in {"DORMANT", "FREE"}, NEW K, K = L \/ K = live,
             mode = "thread", live.call = NoCall, epc' = epc, sema' = sema,
             NEW O, Reschedule([thr EXCEPT ![current].status = st], O, K)
      PROVE  SemaOK(thr', current', Own', sema')
  <2> DEFINE T == [thr EXCEPT ![current].status = st]
  <2>1. T \in [Threads -> Tcbs] /\ QuietTable(T)
    BY <1>0, <1>5 DEF QuietTable, Tcbs, Statuses
  <2>2. Reschedule(T, O, K)
    BY <1>5, ZenonT(60)
  <2> HIDE DEF T
  <2> QED BY <1>1, <1>5, <2>1, <2>2, ZenonT(60)
<1>6. ASSUME NEW keep \in BOOLEAN, Exit(keep) PROVE SemaOK(thr', current', Own', sema')
  <2>1. (IF keep THEN InUse("DORMANT") ELSE "FREE") \in {"DORMANT", "FREE"}
    BY ZenonT(60) DEF InUse
  <2> QED BY <1>5, <1>6, <2>1, Zenon DEF Exit, Advance
<1>7. ASSUME ThreadReturns PROVE SemaOK(thr', current', Own', sema')
  BY <1>5, <1>7, ZenonT(60) DEF ThreadReturns
<1>8. ASSUME NEW t \in Threads, TerminateThread(t) PROVE FALSE
  BY <1>8, ZenonT(60) DEF TerminateThread
<1>9. ASSUME NEW t \in Threads, NEW p \in Priorities, ChangeThreadPriority(t, p)
      PROVE  SemaOK(thr', current', Own', sema')
  <2> DEFINE T == IF Used(t) THEN [thr EXCEPT ![t].prio = p] ELSE thr
  <2>1. /\ Reschedule(T, older, L) /\ epc' = epc /\ sema' = sema
        /\ mode \in {"thread", "handler"} /\ (mode = "thread" => live.call = NoCall)
    BY <1>9, ZenonT(60) DEF ChangeThreadPriority, Advance
  <2>2. T \in [Threads -> Tcbs] /\ QuietTable(T)
    BY <1>0, <2>1 DEF QuietTable, Tcbs
  <2> HIDE DEF T
  <2> QED BY <1>1, <2>1, <2>2, ZenonT(60)
<1>10. ASSUME NEW p \in Priorities, RotateThreadReadyQueue(p) PROVE SemaOK(thr', current', Own', sema')
  <2>1. /\ epc' = epc /\ sema' = sema /\ \E O : Reschedule(thr, O, L)
        /\ mode \in {"thread", "handler"} /\ (mode = "thread" => live.call = NoCall)
    BY <1>10, ZenonT(60) DEF RotateThreadReadyQueue, Advance
  <2>2. QuietTable(thr)
    BY <1>0, <2>1, ZenonT(60) DEF QuietTable
  <2> QED BY <1>0, <1>1, <2>1, <2>2, ZenonT(60)
<1>11. ASSUME SleepThread PROVE SemaOK(thr', current', Own', sema')
  <2>0. mode = "thread" /\ live.call = NoCall /\ epc' = epc /\ sema' = sema
    BY <1>11, ZenonT(60) DEF SleepThread, Advance
  <2>1. CASE thr[current].wakeup > 0
    <3> DEFINE T == [thr EXCEPT ![current].wakeup = @ - 1]
    <3>1. Continue(T, L)
      BY <1>11, <2>1, ZenonT(60) DEF SleepThread
    <3>2. thr[current].wakeup - 1 \in 0..MaxWakeup
      BY <1>0, <2>1, ConstantsAssumption DEF Tcbs
    <3>3. T \in [Threads -> Tcbs] /\ QuietTable(T)
      BY <1>0, <2>0, <3>2, SMTT(30) DEF QuietTable, Tcbs
    <3> HIDE DEF T
    <3> QED BY <1>1, <2>0, <3>1, <3>3, ZenonT(60)
  <2>2. CASE ~(thr[current].wakeup > 0)
    <3> DEFINE T == [thr EXCEPT ![current] = [@ EXCEPT !.status = "WAIT", !.wait = "SLEEP", !.wid = 0, !.ctx = L]]
    <3>1. Reschedule(T, older, L) /\ L \in Contexts
      BY <1>0, <1>11, <2>0, <2>2, Zenon DEF SleepThread, InUse
    <3> HIDE DEF L
    <3>2. T \in [Threads -> Tcbs] /\ QuietTable(T)
      BY <1>0, <2>0, <3>1, ZenonT(30) DEF QuietTable, Tcbs, Statuses
    <3> HIDE DEF T
    <3> QED BY <1>1, <2>0, <3>1, <3>2, ZenonT(60)
  <2> QED BY <2>1, <2>2, ZenonT(60)
<1>12. ASSUME NEW t \in Threads, WakeupThread(t) PROVE SemaOK(thr', current', Own', sema')
  <2>0. /\ mode \in {"thread", "handler"} /\ (mode = "thread" => live.call = NoCall)
        /\ epc' = epc /\ sema' = sema
    BY <1>12, ZenonT(60) DEF WakeupThread, Advance
  <2>1. CASE thr[t].status = "WAIT" /\ thr[t].wait = "SLEEP"
    <3> DEFINE T == [thr EXCEPT ![t] = [@ EXCEPT !.status = "READY", !.wait = "NONE"]]
    <3>1. Reschedule(T, Stamp(t), L)
      BY <1>12, <2>1, ZenonT(60) DEF WakeupThread
    <3>2. T \in [Threads -> Tcbs] /\ QuietTable(T)
      BY <1>0, <2>0, <2>1, ZenonT(30) DEF QuietTable, Tcbs, Statuses
    <3> HIDE DEF T
    <3> QED BY <1>1, <2>0, <3>1, <3>2, ZenonT(60)
  <2>2. CASE ~(thr[t].status = "WAIT" /\ thr[t].wait = "SLEEP")
    <3> DEFINE T == IF Used(t) THEN [thr EXCEPT ![t].wakeup = @ + 1] ELSE thr
    <3>1. Reschedule(T, older, L)
      BY <1>12, <2>2, ZenonT(60) DEF WakeupThread
    <3>2. Used(t) => thr[t].wakeup + 1 \in 0..MaxWakeup
      BY <1>0, <1>12, <2>2, ConstantsAssumption DEF WakeupThread, Tcbs
    <3>3. T \in [Threads -> Tcbs] /\ QuietTable(T)
      BY <1>0, <2>0, <3>2 DEF QuietTable, Tcbs
    <3> HIDE DEF T
    <3> QED BY <1>1, <2>0, <3>1, <3>3, ZenonT(60)
  <2> QED BY <2>1, <2>2, ZenonT(60)
<1>13. ASSUME NEW t \in Threads, CancelWakeupThread(t) PROVE SemaOK(thr', current', Own', sema')
  <2> DEFINE T == IF Used(t) THEN [thr EXCEPT ![t].wakeup = 0] ELSE thr
  <2>1. /\ Continue(T, L) /\ epc' = epc /\ sema' = sema
        /\ mode \in {"thread", "handler"} /\ (mode = "thread" => live.call = NoCall)
    BY <1>13, ZenonT(60) DEF CancelWakeupThread, Advance
  <2>2. 0 \in 0..MaxWakeup
    BY ConstantsAssumption
  <2>3. T \in [Threads -> Tcbs] /\ QuietTable(T)
    BY <1>0, <2>1, <2>2 DEF QuietTable, Tcbs
  <2> HIDE DEF T
  <2> QED BY <1>1, <2>1, <2>3, ZenonT(60)
<1> QED BY <1>2, <1>3, <1>4, <1>6, <1>7, <1>8, <1>9, <1>10, <1>11, <1>12, <1>13, ZenonT(60) DEF ThreadCall

LEMMA SemaCallSema ==
    ASSUME SInv, SemaCall
    PROVE  SemaOK(thr', current', Own', sema')
<1> USE DEF Executing, Issued
<1> DEFINE L == Advanced(live)
<1>0. /\ FInv /\ thr \in [Threads -> Tcbs] /\ current \in Threads /\ SoundTable(thr, current)
      /\ live \in Contexts /\ sema \in [Semas -> SemaRecs]
      /\ mode \in {"thread", "handler"} => thr[current].status = "RUN" /\ L \in Contexts
      /\ SemaOK(thr, current, Own, sema)
  BY FreshFacts, AdvanceSound, ZenonT(60) DEF SInv, Advanced, Contexts, Flip, NoCall
<1>1. sema' \in [Semas -> SemaRecs]
  BY <1>0, SemaCallSound, ZenonT(60) DEF FInv, IInv, TypeOK
\* The calls that go on without touching a TCB.
<1>2. ASSUME mode \in {"thread", "handler"}, Advance, Continue(thr, L),
             SemaOK(thr, current, Keeps(L), sema')
      PROVE  SemaOK(thr', current', Own', sema')
  BY <1>0, <1>1, <1>2, CallSema, ZenonT(60) DEF Advance
\* ... made where no WaitSema is being retried.
<1>3. ASSUME mode \in {"thread", "handler"}, mode = "thread" => live.call = NoCall
      PROVE  SemaOK(thr, current, Keeps(L), sema)
  <2>1. QuietTable(thr)
    BY <1>0, <1>3, ZenonT(60) DEF QuietTable
  <2>2. Undisturbed(thr, Own, current, thr, Keeps(L), current)
    BY <1>0, <1>3, <2>1, QuietTcb, ZenonT(60)
  <2> QED BY <1>0, <2>2, SemaKept, ZenonT(60)
<1>4. ASSUME NEW max \in 1..MaxCount, NEW init \in 0..max, CreateSema(max, init)
      PROVE  SemaOK(thr', current', Own', sema')
  <2>1. SemaOK(thr, current, Keeps(L), sema)
    BY <1>3, <1>4, ZenonT(60) DEF CreateSema
  <2>2. ASSUME NEW s \in Semas PROVE sema'[s] = sema[s] \/ (~sema[s].used /\ sema'[s].waits = 0 /\ sema'[s].used)
    BY <1>4, <2>2, ZenonT(60) DEF CreateSema, LeastFree
  <2>3. \A s \in Semas : ~sema[s].used => BlockedIn(thr, s) = {}
    BY <2>1, ThreadSets, ZenonT(30) DEF SemaOK, BlockedIn
  <2>4. SemaOK(thr, current, Keeps(L), sema')
    BY <2>1, <2>2, <2>3, ZenonT(60) DEF SemaOK
  <2> QED BY <1>2, <1>4, <2>4, ZenonT(60) DEF CreateSema
<1>5. ASSUME NEW s \in Semas, DeleteSema(s) PROVE SemaOK(thr', current', Own', sema')
  <2>1. SemaOK(thr, current, Keeps(L), sema)
    BY <1>3, <1>5, ZenonT(60) DEF DeleteSema
  <2>2. SemaOK(thr, current, Keeps(L), sema')
    <3>1. CASE sema[s].waits > 0
      BY <1>5, <2>1, <3>1, ZenonT(60) DEF DeleteSema
    <3>2. CASE ~(sema[s].waits > 0)
      <4>1. Cardinality(BlockedIn(thr, s)) = 0
        <5>1. Cardinality(BlockedIn(thr, s)) \in Nat
          BY ThreadSets, ZenonT(60) DEF BlockedIn
        <5> QED BY <1>0, <2>1, <3>2, <5>1, SMTT(30) DEF SemaOK, SemaRecs
      <4>2. \A r \in Semas : IF r = s THEN ~sema'[r].used ELSE sema'[r] = sema[r]
        BY <1>0, <1>5, <3>2, ZenonT(60) DEF DeleteSema, SemaRecs
      <4> QED BY <2>1, <4>1, <4>2, ZenonT(60) DEF SemaOK
    <3> QED BY <3>1, <3>2, ZenonT(60)
  <2> QED BY <1>2, <1>5, <2>2, ZenonT(60) DEF DeleteSema
<1>6. ASSUME NEW s \in Semas, PollSema(s) PROVE SemaOK(thr', current', Own', sema')
  <2>1. SemaOK(thr, current, Keeps(L), sema)
    BY <1>3, <1>6, ZenonT(60) DEF PollSema
  <2>2. \A r \in Semas : /\ sema'[r].used = sema[r].used /\ sema'[r].waits = sema[r].waits
                         /\ sema'[r].count <= sema[r].count
                         /\ sema'[r].count \in Int /\ sema[r].count \in Int
    BY <1>0, <1>6, SMTT(30) DEF PollSema, SemaRecs
  <2>3. \A r \in Semas : Cardinality(RetryingIn(thr, current, Keeps(L), r)) \in Nat
    BY ThreadSets, ZenonT(60) DEF RetryingIn
  <2>4. SemaOK(thr, current, Keeps(L), sema')
    BY <2>1, <2>2, <2>3 DEF SemaOK
  <2> QED BY <1>2, <1>6, <2>4, ZenonT(60) DEF PollSema
<1>7. ASSUME NEW T \in [Threads -> Tcbs], NEW O, T[current].status = "RUN",
             SemaOK(T, current, Keeps(L), sema'), mode \in {"thread", "handler"}, Advance, Signalled(T, O)
      PROVE  SemaOK(thr', current', Own', sema')
  <2>1. (mode # "idle" /\ Continue(T, L)) \/ Reschedule(T, O, L)
    BY <1>7, ZenonT(60) DEF Signalled
  <2> QED BY <1>0, <1>1, <1>7, <2>1, CallSema, ZenonT(30) DEF Advance
<1>8. ASSUME NEW s \in Semas, SignalSema(s) PROVE SemaOK(thr', current', Own', sema')
  <2> DEFINE K == Keeps(L)
  <2>0. mode \in {"thread", "handler"} /\ Advance /\ thr[current].status = "RUN"
    BY <1>0, <1>8, Zenon DEF SignalSema
  <2>1. SemaOK(thr, current, K, sema)
    BY <1>3, <1>8, Zenon DEF SignalSema
  <2>2. CASE sema' = sema /\ Signalled(thr, older)
    BY <1>0, <1>7, <2>0, <2>1, <2>2, ZenonT(60)
  <2>3. CASE Waiters(s) = {} /\ sema' = [sema EXCEPT ![s].count = @ + 1] /\ Signalled(thr, older)
    <3>1. BlockedIn(thr, s) = {}
      BY <2>3, ZenonT(60) DEF BlockedIn, Waiters
    <3>2. \A r \in Semas : /\ sema'[r].used = sema[r].used /\ sema'[r].waits = sema[r].waits
                           /\ r # s => sema'[r] = sema[r]
      BY <1>0, <2>3, ZenonT(60) DEF SemaRecs
    <3>3. SemaOK(thr, current, K, sema')
      BY <2>1, <3>1, <3>2, ZenonT(60) DEF SemaOK
    <3> QED BY <1>0, <1>7, <2>0, <2>3, <3>3, Zenon
  <2>4. ASSUME NEW t \in FirstWaiter(s), sema[s].used, sema' = Woken(s, t), older' = Stamp(t),
               Signalled([thr EXCEPT ![t] = [@ EXCEPT !.status = "READY", !.wait = "NONE", !.wid = 0]], Stamp(t))
        PROVE  SemaOK(thr', current', Own', sema')
    <3> DEFINE T == [thr EXCEPT ![t] = [@ EXCEPT !.status = "READY", !.wait = "NONE", !.wid = 0]]
    <3>1. t \in BlockedIn(thr, s) /\ t \in Threads /\ t # current
      BY <2>0, ZenonT(60) DEF FirstWaiter, Waiters, BlockedIn
    <3>2. /\ T \in [Threads -> Tcbs] /\ T[t].status = "READY" /\ T[t].ctx = thr[t].ctx
          /\ \A u \in Threads \ {t} : T[u] = thr[u]
      BY <1>0, <3>1, ZenonT(30) DEF Tcbs, Statuses
    <3>3. /\ sema'[s].count = sema[s].count + 1 /\ sema'[s].waits = sema[s].waits - 1 /\ sema'[s].used
          /\ sema[s].count \in Int /\ sema[s].waits \in Int
          /\ \A r \in Semas \ {s} : sema'[r] = sema[r] /\ sema[r].count \in Int
      BY <1>0, <2>4 DEF Woken, SemaRecs
    <3>4. Signalled(T, Stamp(t))
      BY <2>4, ZenonT(60)
    <3> HIDE DEF T, K
    <3>5. /\ \A r \in Semas \ {s} : BlockedIn(T, r) = BlockedIn(thr, r)
          /\ BlockedIn(T, s) = BlockedIn(thr, s) \ {t}
      BY <3>1, <3>2, ZenonT(60) DEF BlockedIn
    <3>6. /\ \A r \in Semas : RetryingIn(thr, current, K, r) \subseteq RetryingIn(T, current, K, r)
          /\ RetryingIn(thr, current, K, s) \cup {t} \subseteq RetryingIn(T, current, K, s)
          /\ t \notin RetryingIn(thr, current, K, s)
      <4>1. thr[t].ctx.call = s /\ thr[t].status = "WAIT"
        BY <2>1, <3>1, ZenonT(30) DEF SemaOK, BlockedIn
      <4> QED BY <3>1, <3>2, <4>1 DEF RetryingIn, Regs
    <3>7. \A r \in Semas : /\ RetryingIn(thr, current, K, r) \subseteq Threads
                           /\ RetryingIn(T, current, K, r) \subseteq Threads
                           /\ BlockedIn(thr, r) \subseteq Threads
      BY ZenonT(60) DEF RetryingIn, BlockedIn
    <3>8. \A r \in Semas : /\ Cardinality(RetryingIn(thr, current, K, r)) \in Nat
                           /\ Cardinality(RetryingIn(T, current, K, r)) \in Nat
                           /\ Cardinality(RetryingIn(thr, current, K, r)) <= Cardinality(RetryingIn(T, current, K, r))
      BY <3>6, <3>7, ThreadSets, ZenonT(60)
    <3>9. Cardinality(RetryingIn(thr, current, K, s)) + 1 <= Cardinality(RetryingIn(T, current, K, s))
      <4>1. Cardinality(RetryingIn(thr, current, K, s) \cup {t}) = Cardinality(RetryingIn(thr, current, K, s)) + 1
        BY <3>1, <3>6, <3>7, ThreadSets, ZenonT(60)
      <4>2. Cardinality(RetryingIn(thr, current, K, s) \cup {t}) <= Cardinality(RetryingIn(T, current, K, s))
        <5>1. RetryingIn(thr, current, K, s) \cup {t} \subseteq Threads
          BY <3>1, <3>7, ZenonT(60)
        <5> QED BY <3>6, <3>7, <5>1, ThreadSets, ZenonT(60)
      <4> QED BY <4>1, <4>2, ZenonT(60)
    <3>10. Cardinality(BlockedIn(T, s)) = sema'[s].waits
      <4>1. Cardinality(BlockedIn(thr, s) \ {t}) = Cardinality(BlockedIn(thr, s)) - 1
        BY <3>1, <3>7, ThreadSets, ZenonT(60)
      <4> QED BY <2>1, <2>4, <3>3, <3>5, <4>1, ZenonT(60) DEF SemaOK
    <3>11. sema[s].count <= Cardinality(RetryingIn(thr, current, K, s))
      BY <2>1, <2>4, <3>1, ZenonT(60) DEF SemaOK
    <3>12. \A r \in Semas : \A u \in BlockedIn(T, r) : T[u].ctx.call = r
      <4>1. \A r \in Semas : \A u \in BlockedIn(T, r) : u \in BlockedIn(thr, r) /\ u # t /\ u \in Threads
        BY <3>1, <3>2, <3>5, SMTT(30) DEF BlockedIn
      <4> QED BY <2>1, <3>2, <4>1, SMTT(30) DEF SemaOK
    <3>13. SemaOK(T, current, K, sema')
      <4> SUFFICES ASSUME NEW r \in Semas
                   PROVE  /\ Cardinality(BlockedIn(T, r)) = IF sema'[r].used THEN sema'[r].waits ELSE 0
                          /\ sema'[r].used /\ BlockedIn(T, r) # {} =>
                               sema'[r].count <= Cardinality(RetryingIn(T, current, K, r))
        BY <3>12, ZenonT(60) DEF SemaOK
      <4>0. /\ Cardinality(BlockedIn(thr, r)) = IF sema[r].used THEN sema[r].waits ELSE 0
            /\ sema[r].used /\ BlockedIn(thr, r) # {} =>
                 sema[r].count <= Cardinality(RetryingIn(thr, current, K, r))
        BY <2>1, ZenonT(60) DEF SemaOK
      <4>1. CASE r = s
        BY <3>3, <3>8, <3>9, <3>10, <3>11, <4>1, SMTT(30)
      <4>2. CASE r # s
        BY <3>3, <3>5, <3>8, <4>0, <4>2, SMTT(30)
      <4> QED BY <4>1, <4>2, ZenonT(60)
    <3>14. T[current].status = "RUN"
      BY <1>0, <2>0, <3>1, <3>2, ZenonT(60)
    <3> QED BY <1>7, <2>0, <3>2, <3>4, <3>13, <3>14, ZenonT(60) DEF K
  <2> QED BY <1>8, <2>2, <2>3, <2>4, Zenon DEF SignalSema
<1>9. ASSUME NEW s \in Semas, WaitSema(s) PROVE SemaOK(thr', current', Own', sema')
  <2> DEFINE K == Keeps(L)
  <2>0. mode = "thread" /\ thr[current].status = "RUN" /\ live.call \in {s, NoCall} /\ Own = live
    BY <1>0, <1>9, ZenonT(60) DEF WaitSema, Own
  <2>1. NoCall \notin Semas
    BY ConstantsAssumption DEF NoCall, Semas
  <2>2. \A r \in Semas : /\ r # s => RetryingIn(thr, current, Own, r) \subseteq RetryingIn(thr, current, K, r)
                         /\ RetryingIn(thr, current, Own, r) \ {current} \subseteq RetryingIn(thr, current, K, r)
    <3> HIDE DEF K
    <3> QED BY <2>0, <2>1, ZenonT(60) DEF RetryingIn, Regs
  <2> HIDE DEF K
  <2>3. \A r \in Semas : /\ RetryingIn(thr, current, Own, r) \subseteq Threads
                         /\ RetryingIn(thr, current, K, r) \subseteq Threads
                         /\ BlockedIn(thr, r) \subseteq Threads
    BY ZenonT(60) DEF RetryingIn, BlockedIn
  <2>4. \A r \in Semas : /\ Cardinality(RetryingIn(thr, current, Own, r)) \in Nat
                         /\ Cardinality(RetryingIn(thr, current, K, r)) \in Nat
                         /\ r # s => Cardinality(RetryingIn(thr, current, Own, r)) <= Cardinality(RetryingIn(thr, current, K, r))
                         /\ Cardinality(RetryingIn(thr, current, Own, r)) - 1 <= Cardinality(RetryingIn(thr, current, K, r))
    <3> SUFFICES ASSUME NEW r \in Semas
                 PROVE  /\ Cardinality(RetryingIn(thr, current, Own, r)) \in Nat
                        /\ Cardinality(RetryingIn(thr, current, K, r)) \in Nat
                        /\ r # s => Cardinality(RetryingIn(thr, current, Own, r)) <= Cardinality(RetryingIn(thr, current, K, r))
                        /\ Cardinality(RetryingIn(thr, current, Own, r)) - 1 <= Cardinality(RetryingIn(thr, current, K, r))
      OBVIOUS
    <3> DEFINE A == RetryingIn(thr, current, Own, r)
               B == RetryingIn(thr, current, K, r)
    <3>1. A \subseteq Threads /\ B \subseteq Threads /\ (r # s => A \subseteq B) /\ A \ {current} \subseteq B
      BY <2>2, <2>3, ZenonT(60)
    <3> HIDE DEF A, B
    <3>2. Cardinality(A) \in Nat /\ Cardinality(B) \in Nat /\ (A \subseteq B => Cardinality(A) <= Cardinality(B))
      BY <3>1, ThreadSets, ZenonT(60)
    <3>3. Cardinality(A) - 1 <= Cardinality(B)
      <4>1. CASE current \in A
        <5>1. Cardinality(A \ {current}) = Cardinality(A) - 1
          BY <3>1, <4>1, ThreadSets, ZenonT(60)
        <5>2. Cardinality(A \ {current}) <= Cardinality(B)
          <6>1. A \ {current} \subseteq Threads
            BY <3>1, ZenonT(60)
          <6> QED BY <3>1, <6>1, ThreadSets, ZenonT(60)
        <5> QED BY <5>1, <5>2, ZenonT(60)
      <4>2. CASE current \notin A
        <5>1. A \subseteq B
          BY <3>1, <4>2, ZenonT(60)
        <5> QED BY <3>2, <5>1
      <4> QED BY <4>1, <4>2, ZenonT(60)
    <3> QED BY <3>1, <3>2, <3>3, ZenonT(60) DEF A, B
  <2>5. CASE ~sema[s].used /\ Advance /\ Continue(thr, L) /\ sema' = sema
    <3>1. SemaOK(thr, current, K, sema')
      BY <1>0, <2>4, <2>5 DEF SemaOK, SemaRecs
    <3> QED BY <1>2, <2>0, <2>5, <3>1, ZenonT(60) DEF K
  <2>6. CASE Advance /\ Continue(thr, L) /\ sema' = [sema EXCEPT ![s].count = @ - 1]
    <3>1. /\ sema'[s].count = sema[s].count - 1 /\ sema'[s].waits = sema[s].waits /\ sema'[s].used = sema[s].used
          /\ \A r \in Semas : sema[r].count \in Int
          /\ \A r \in Semas \ {s} : sema'[r] = sema[r]
      BY <1>0, <2>6, SMTT(30) DEF SemaRecs
    <3>2. SemaOK(thr, current, K, sema')
      <4> SUFFICES ASSUME NEW r \in Semas
                   PROVE  /\ \A t \in BlockedIn(thr, r) : thr[t].ctx.call = r
                          /\ Cardinality(BlockedIn(thr, r)) = IF sema'[r].used THEN sema'[r].waits ELSE 0
                          /\ sema'[r].used /\ BlockedIn(thr, r) # {} =>
                               sema'[r].count <= Cardinality(RetryingIn(thr, current, K, r))
        BY ZenonT(60) DEF SemaOK
      <4>0. /\ \A t \in BlockedIn(thr, r) : thr[t].ctx.call = r
            /\ Cardinality(BlockedIn(thr, r)) = IF sema[r].used THEN sema[r].waits ELSE 0
            /\ sema[r].used /\ BlockedIn(thr, r) # {} =>
                 sema[r].count <= Cardinality(RetryingIn(thr, current, Own, r))
        BY <1>0, ZenonT(60) DEF SemaOK
      <4>1. CASE r = s
        BY <2>4, <3>1, <4>0, <4>1, SMTT(30)
      <4>2. CASE r # s
        BY <2>4, <3>1, <4>0, <4>2
      <4> QED BY <4>1, <4>2, ZenonT(60)
    <3> QED BY <1>2, <2>0, <2>6, <3>2, ZenonT(60) DEF K
  <2>7. CASE /\ sema[s].used /\ sema[s].count = 0 /\ sema' = [sema EXCEPT ![s].waits = @ + 1]
             /\ Reschedule([thr EXCEPT ![current] = [@ EXCEPT !.status = InUse("WAIT"), !.wait = "SEMA",
                                                              !.wid = s, !.ctx = Parked(s)]],
                           Stamp(current), Parked(s))
             /\ UNCHANGED epc
    <3> DEFINE P == Parked(s)
               T == [thr EXCEPT ![current] = [@ EXCEPT !.status = "WAIT", !.wait = "SEMA", !.wid = s, !.ctx = P]]
    <3>1. P \in Contexts /\ P.call = s
      BY <1>0, ZenonT(60) DEF Parked, Contexts
    <3>2. Reschedule(T, Stamp(current), P) /\ Keeps(P) = P
      BY <2>0, <2>7, ZenonT(60) DEF InUse, Keeps
    <3> HIDE DEF P
    <3>3. /\ T \in [Threads -> Tcbs]
          /\ T[current].status = "WAIT" /\ T[current].wait = "SEMA" /\ T[current].wid = s /\ T[current].ctx = P
          /\ \A t \in Threads \ {current} : T[t] = thr[t]
      BY <1>0, <3>1, ZenonT(30) DEF Tcbs, Statuses
    <3> HIDE DEF T
    <3>4. /\ sema'[s].count = 0 /\ sema'[s].waits = sema[s].waits + 1 /\ sema'[s].used /\ sema[s].waits \in Int
          /\ \A r \in Semas : sema[r].count \in Int
          /\ \A r \in Semas \ {s} : sema'[r] = sema[r]
      BY <1>0, <2>7 DEF SemaRecs
    <3>5. /\ BlockedIn(T, s) = BlockedIn(thr, s) \cup {current} /\ current \notin BlockedIn(thr, s)
          /\ \A r \in Semas \ {s} : BlockedIn(T, r) = BlockedIn(thr, r)
      BY <1>0, <2>0, <3>3, SMTT(30) DEF BlockedIn
    <3>6. Cardinality(BlockedIn(T, s)) = Cardinality(BlockedIn(thr, s)) + 1
      BY <1>0, <2>3, <3>5, ThreadSets, SMTT(30)
    <3>7. \A r \in Semas : /\ RetryingIn(T, current, P, r) \subseteq Threads
                           /\ r # s => RetryingIn(thr, current, Own, r) \subseteq RetryingIn(T, current, P, r)
      BY <2>0, <2>1, <3>3, ZenonT(60) DEF RetryingIn, Regs
    <3>8. \A r \in Semas : /\ Cardinality(RetryingIn(T, current, P, r)) \in Nat
                           /\ r # s => Cardinality(RetryingIn(thr, current, Own, r)) <= Cardinality(RetryingIn(T, current, P, r))
      BY <2>3, <3>7, ThreadSets, ZenonT(60)
    <3>9. \A r \in Semas : \A t \in BlockedIn(T, r) : T[t].ctx.call = r
      <4>1. \A r \in Semas : \A t \in BlockedIn(thr, r) : thr[t].ctx.call = r /\ t \in Threads
        BY <1>0, <2>3, ZenonT(60) DEF SemaOK
      <4>2. \A r \in Semas \ {s} : current \notin BlockedIn(thr, r)
        BY <2>0, ZenonT(60) DEF BlockedIn
      <4>3. ASSUME NEW r \in Semas, NEW t \in BlockedIn(T, r) PROVE T[t].ctx.call = r
        <5>1. CASE t = current
          BY <3>1, <3>3, <3>5, <4>2, <4>3, <5>1, ZenonT(60)
        <5>2. CASE t # current
          BY <3>3, <3>5, <4>1, <4>3, <5>2, SMTT(30)
        <5> QED BY <5>1, <5>2, ZenonT(60)
      <4> QED BY <4>3, ZenonT(60)
    <3>10. SemaOK(T, current, P, sema')
      <4> SUFFICES ASSUME NEW r \in Semas
                   PROVE  /\ Cardinality(BlockedIn(T, r)) = IF sema'[r].used THEN sema'[r].waits ELSE 0
                          /\ sema'[r].used /\ BlockedIn(T, r) # {} =>
                               sema'[r].count <= Cardinality(RetryingIn(T, current, P, r))
        BY <3>9, ZenonT(60) DEF SemaOK
      <4>0. /\ Cardinality(BlockedIn(thr, r)) = IF sema[r].used THEN sema[r].waits ELSE 0
            /\ sema[r].used /\ BlockedIn(thr, r) # {} =>
                 sema[r].count <= Cardinality(RetryingIn(thr, current, Own, r))
        BY <1>0, ZenonT(60) DEF SemaOK
      <4>1. CASE r = s
        BY <2>7, <3>4, <3>6, <3>8, <4>0, <4>1, SMTT(30)
      <4>2. CASE r # s
        <5>1. sema'[r] = sema[r] /\ BlockedIn(T, r) = BlockedIn(thr, r) /\ sema[r].count \in Int
          BY <3>4, <3>5, <4>2, ZenonT(60)
        <5>2. Cardinality(RetryingIn(thr, current, Own, r)) <= Cardinality(RetryingIn(T, current, P, r))
          BY <3>8, <4>2, ZenonT(60)
        <5> QED BY <2>4, <3>8, <4>0, <5>1, <5>2, SMTT(30)
      <4> QED BY <4>1, <4>2, ZenonT(60)
    <3> QED BY <1>0, <1>1, <2>7, <3>1, <3>2, <3>3, <3>10, CallSema, ZenonT(30)
  <2> QED BY <1>9, <2>5, <2>6, <2>7, ZenonT(60) DEF WaitSema
<1> QED BY <1>4, <1>5, <1>6, <1>8, <1>9, ZenonT(60) DEF SemaCall

LEMMA InitSema == Init => SInv
<1> SUFFICES ASSUME Init PROVE SInv
  OBVIOUS
<1>1. FInv
  BY InitFresh, ZenonT(60)
<1>2. \A s \in Semas : BlockedIn(thr, s) = {} /\ ~sema[s].used
  BY ZenonT(60) DEF BlockedIn, Init, FreeTcb, FreeSema
<1> QED BY <1>1, <1>2, FS_EmptySet, ZenonT(60) DEF SInv, SemaOK

LEMMA NextSema ==
    ASSUME "idle" \notin IrqModes, Calls \cap {"TerminateThread", "iTerminateThread"} = {}
    PROVE  SInv /\ [Next]_vars => SInv'
<1> SUFFICES ASSUME SInv, [Next]_vars PROVE SemaOK(thr', current', Own', sema')
  BY NextFresh, ZenonT(30) DEF SInv, SemaOK, BlockedIn, RetryingIn, Regs
<1>0. /\ FInv /\ SemaOK(thr, current, Own, sema) /\ thr \in [Threads -> Tcbs] /\ current \in Threads
      /\ live \in Contexts /\ epc \in Contexts /\ sema \in [Semas -> SemaRecs]
      /\ thr[current].status # "READY"
  BY FreshFacts, ZenonT(30) DEF SInv, FInv, FreshTable
<1>1. CASE Step
  <2>1. mode = "thread" /\ live.call = NoCall /\ sema' = sema /\ epc' = epc /\ Continue(thr, Advanced(live))
    BY <1>1, ZenonT(60) DEF Step, Executing, Advance
  <2>2. QuietTable(thr)
    BY <1>0, <2>1, FreshFacts, ZenonT(60) DEF QuietTable
  <2>3. Undisturbed(thr, Own, current, thr, Keeps(Advanced(live)), current)
    BY <1>0, <2>1, <2>2, QuietTcb, ZenonT(60)
  <2>4. Advanced(live) \in Contexts
    BY <1>0, <1>1, AdvanceSound, FreshFacts, ZenonT(60) DEF Step, Executing
  <2> QED BY <1>0, <2>1, <2>3, <2>4, QuietCall, ZenonT(60)
<1>2. CASE ThreadCall
  BY <1>2, ThreadCallSema, ZenonT(60)
<1>3. CASE SemaCall
  BY <1>3, SemaCallSema, ZenonT(60)
<1>4. CASE Interrupt
  <2>1. Own' = Own /\ UNCHANGED <<thr, current, sema>>
    BY <1>4, ConstantsAssumption, ZenonT(60) DEF Interrupt, Own
  <2> QED BY <1>0, <2>1, ZenonT(60)
<1>5. ASSUME NEW region \in EpcRegions, Eret(region) PROVE SemaOK(thr', current', Own', sema')
  <2>1. mode = "handler" /\ Own = epc /\ sema' = sema
    BY <1>5, ZenonT(60) DEF Eret, Own
  <2>2. CASE Dispatch(thr, older, epc)
    <3>1. Undisturbed(thr, epc, current, thr', live', current') /\ Own' = live'
      BY <1>0, <2>2, DispatchSema, ZenonT(60) DEF Dispatch, NoneReady, Own
    <3> QED BY <1>0, <2>1, <3>1, SemaKept, ZenonT(60)
  <2>3. CASE live' = epc /\ mode' = "thread" /\ UNCHANGED <<thr, current>>
    BY <1>0, <2>1, <2>3, ZenonT(60) DEF Own
  <2> QED BY <1>5, <2>2, <2>3, ZenonT(60) DEF Eret
<1>6. CASE IdleTick
  <2>1. /\ mode = "idle" /\ Own = live /\ sema' = sema /\ Keeps(live) = live /\ epc' = epc
        /\ Reschedule(thr, older, live)
    BY <1>6, ZenonT(60) DEF IdleTick, Own, Keeps
  <2> QED BY <1>0, <2>1, CallSema, ZenonT(60)
<1>7. CASE UNCHANGED vars
  BY <1>0, <1>7, ZenonT(60) DEF vars, Own
<1> QED BY <1>1, <1>2, <1>3, <1>4, <1>5, <1>6, <1>7, ZenonT(60) DEF Next

\* wait_threads and the units that SignalSema leaves for woken threads add up, for
\* each semaphore.
THEOREM Semaphores ==
    ASSUME "idle" \notin IrqModes, Calls \cap {"TerminateThread", "iTerminateThread"} = {}
    PROVE  Spec => []SInv
<1>1. SInv /\ [Next]_vars => SInv'
  BY NextSema, ZenonT(60)
<1> QED BY <1>1, InitSema, PTL DEF Spec

\* No signal is lost: for programs that terminate no thread, a count that a
\* blocked thread could use always has a woken thread on its way to take it.
THEOREM SignalsKept ==
    ASSUME "idle" \notin IrqModes, Calls \cap {"TerminateThread", "iTerminateThread"} = {}
    PROVE  Spec => []NoLostSignal
<1>1. SInv => NoLostSignal
  <2> SUFFICES ASSUME SInv, NEW s \in Semas
               PROVE  sema[s].used /\ BlockedOn(s) # {} => sema[s].count <= Cardinality(Retrying(s))
    BY ZenonT(60) DEF NoLostSignal
  <2>1. BlockedOn(s) = BlockedIn(thr, s)
    BY ZenonT(60) DEF BlockedOn, BlockedIn
  <2>2. Retrying(s) = RetryingIn(thr, current, Own, s)
    BY ZenonT(60) DEF Retrying, RetryingIn, Runnable, Context, Regs, Own
  <2> QED BY <2>1, <2>2, ZenonT(60) DEF SInv, SemaOK
<1> QED BY <1>1, Semaphores, PTL

\* wait_threads is exact for the same programs, so that DeleteSema is refused
\* iff a thread waits.
THEOREM WaitThreadsCount ==
    ASSUME "idle" \notin IrqModes, Calls \cap {"TerminateThread", "iTerminateThread"} = {}
    PROVE  Spec => []WaitThreadsExact
<1>1. SInv => WaitThreadsExact
  <2>1. \A s \in Semas : BlockedOn(s) = BlockedIn(thr, s)
    BY ZenonT(60) DEF BlockedOn, BlockedIn
  <2> QED BY <2>1, ZenonT(60) DEF SInv, SemaOK, WaitThreadsExact
<1> QED BY <1>1, Semaphores, PTL
=============================================================================
