------------------------------- MODULE SifRpc -------------------------------
(***************************************************************************)
(* SIF remote procedure calls as the emulator answers them in the IOP's    *)
(* place (source/core/ee/ee_core.c): the system call SifSetDma (119) looks *)
(* at what the EE sends, a bind or a call is answered through a FIFO and a *)
(* delay counted in EE instructions, and a CDVD N command only after the   *)
(* IOP's own handler of interrupt 2 has run.                               *)
(*                                                                         *)
(* The EE's program is external: sifrpc clients with one request           *)
(* outstanding each and a semaphore of maximal count 1 to wait on, and the *)
(* kernel's SIF0 interrupt handler, which takes the packet out of the      *)
(* receive buffer and signals the same semaphore again.  Contents of       *)
(* requests and replies are left out but for what decides whether there is *)
(* a reply.                                                                *)
(***************************************************************************)
EXTENDS Integers, Sequences, FiniteSets

CONSTANTS
    Clients,     \* client descriptors (cd_ptr)
    Uses,        \* the services that each client is bound to, in turn
    QDepth,      \* R1032_RPC_QUEUE_DEPTH
    TableSize,   \* SIF_CMD_BIND_SID_TABLE_SIZE
    Delay,       \* g_rpc_bind_delay and g_rpcinit_delay when armed
    Latency,     \* most EE instructions that SIF0's interrupt stays untaken
    NoClient     \* a null cd_ptr

ASSUME ClientsAssumption == IsFiniteSet(Clients) /\ Clients \cap {NoClient, "none", "ready"} = {}
ASSUME UsesAssumption == \A c \in Clients : "none" \notin Uses[c]
ASSUME BoundsAssumption ==
    /\ QDepth \in Nat /\ Cardinality(Clients) <= QDepth
    /\ TableSize \in Nat \ {0} /\ Cardinality(Clients) <= TableSize
ASSUME DelayAssumption == Delay \in Nat /\ Latency \in Nat /\ Latency <= Delay + 1

VARIABLES
    cds,       \* g_bind_sid_table_cd
    sids,      \* g_bind_sid_table_sid
    next,      \* g_bind_sid_table_next
    queue,     \* g_rpc_bind_queue: the clients whose answer is due
    current,   \* g_rpc_bind_cd_pending while g_rpc_bind_pending is set
    left,      \* g_rpc_bind_delay
    init,      \* g_rpcinit_pending
    initLeft,  \* g_rpcinit_delay
    recvbuf,   \* 1 iff the EE has registered its receive buffer
    packet,    \* what is in it and unread: "none", "ready", or the client answered
    sif0,      \* 1 iff SIF0's bit in D_STAT is set
    late,      \* EE instructions since it was set
    ncmd,      \* g_ee_cdvd_ncmd_reentry.ee_cd while it is valid
    done,      \* 1 iff the completion count has changed since it was armed
    irq2,      \* bit 2 of the IOP's I_STAT
    serving,   \* 1 iff the IOP is in its handler
    prog,      \* what each client does
    bound,     \* the service a client has bound, as the program knows
    sem,       \* count of the semaphore at cd + 8
    rpcReady   \* 1 iff the EE has seen the IOP's RPCINIT

tableVars == <<cds, sids, next>>
initVars == <<init, initLeft, recvbuf>>
cdvdVars == <<ncmd, done, irq2, serving>>
progVars == <<prog, bound, sem, rpcReady>>
vars == <<tableVars, queue, current, left, initVars, packet, sif0, late, cdvdVars, progVars>>

Sids == UNION {Uses[c] : c \in Clients}
Cells == 0..(TableSize - 1)

Init ==
    /\ cds = [i \in Cells |-> NoClient] /\ sids = [i \in Cells |-> "none"] /\ next = 0
    /\ queue = <<>> /\ current = NoClient /\ left = 0
    /\ init = 0 /\ initLeft = 0 /\ recvbuf = 0
    /\ packet = "none" /\ sif0 = 0 /\ late = 0
    /\ ncmd = NoClient /\ done = 0 /\ irq2 = 0 /\ serving = 0
    /\ prog = [c \in Clients |-> "idle"] /\ bound = [c \in Clients |-> "none"]
    /\ sem = [c \in Clients |-> 0] /\ rpcReady = 0

-----------------------------------------------------------------------------
(***************************************************************************)
(* The table of bound services, and the queue of answers.                  *)
(***************************************************************************)
\* mutant: every bind takes a new cell
TracksSidAnew(c, s) ==
    /\ cds' = [cds EXCEPT ![next] = c] /\ sids' = [sids EXCEPT ![next] = s]
    /\ next' = (next + 1) % TableSize

TracksSid(c, s) ==
    IF \E i \in Cells : cds[i] = c
    THEN \E i \in Cells : cds[i] = c /\ sids' = [sids EXCEPT ![i] = s] /\ UNCHANGED <<cds, next>>
    ELSE /\ cds' = [cds EXCEPT ![next] = c] /\ sids' = [sids EXCEPT ![next] = s]
         /\ next' = (next + 1) % TableSize

\* The services that a call of c may be taken for: the one in the table, or none.
Lookup(c) == IF \E i \in Cells : cds[i] = c THEN {sids[i] : i \in {j \in Cells : cds[j] = c}} ELSE {"none"}

EnqueuedShort(q, c) == IF Len(q) < QDepth - 1 THEN Append(q, c) ELSE q  \* mutant: full too early
Enqueued(q, c) == IF Len(q) < QDepth THEN Append(q, c) ELSE q

\* dma_channel_signal_done(): D_STAT's bit stays as it is when it is set already.
Sif0Done == sif0' = 1 /\ UNCHANGED late

-----------------------------------------------------------------------------
(***************************************************************************)
(* Which calls are answered.  A request is what the dispatch reads of it:  *)
(* the function, whether it has a receive buffer, whether a payload was    *)
(* sent before it, and whether what it asks for is there.                  *)
(***************************************************************************)
Requests == [fn : 0..9, recv : BOOLEAN, payload : BOOLEAN, ok : BOOLEAN]

LoadElf(r) == r.fn = 1 /\ r.recv /\ r.payload /\ r.ok
LoadModule(r) == r.fn = 0 /\ r.recv /\ r.payload
GetAddr(r) == r.fn = 3 /\ r.recv /\ r.payload /\ r.ok
PadOld(r) == r.recv
McServ(r) == r.recv
Spu2Init(r) == r.fn \in {1, 20481} /\ r.recv
Spu2Drv(r) == r.recv
IopHeap(r) == r.fn = 1 /\ r.recv
CdvdInit(r) == r.fn = 0
DiskReady(r) == r.fn = 0 /\ r.recv
CdvdScmd(r) == TRUE
FioOpen(r) == r.fn = 0
FioRead(r) == r.fn = 2 /\ r.recv
FioClose(r) == r.fn = 1 /\ r.recv
FioSeek(r) == r.fn = 4 /\ r.recv
FioOther(r) == TRUE
MtapOpen(r) == r.fn = 1 /\ r.recv
Rmman(r) == r.fn = 0 /\ r.recv
PadNew(r) == r.fn = 1 /\ r.recv

\* Answered at once, by the case the dispatch takes for service s.
Answered(s, r) ==
    \/ s = "LOADFILE" /\ (LoadElf(r) \/ LoadModule(r) \/ GetAddr(r))
    \/ s = "PAD_OLD" /\ PadOld(r)
    \/ s = "MCSERV" /\ McServ(r)
    \/ s = "SPU2DRV" /\ (Spu2Init(r) \/ Spu2Drv(r))
    \/ s = "IOPHEAP" /\ IopHeap(r)
    \/ s = "CDVD_INIT" /\ CdvdInit(r)
    \/ s = "CDVD_DISKREADY" /\ DiskReady(r)
    \/ s = "CDVD_SCMD" /\ CdvdScmd(r)
    \/ s = "FILEIO" /\ (FioOpen(r) \/ FioRead(r) \/ FioClose(r) \/ FioSeek(r) \/ FioOther(r))
    \/ s = "MTAP" /\ MtapOpen(r)
    \/ s = "RMMAN2" /\ Rmman(r)
    \/ s = "PAD_NEW" /\ PadNew(r)

\* ee_try_cdvd_ncmd_real_dispatch(): read commands need their payload, and only
\* one command is under way.
RealNcmd(r) ==
    /\ r.recv /\ ncmd = NoClient
    /\ r.fn \in {4, 5, 6, 7, 8} \/ (r.fn \in {1, 3} /\ r.payload /\ r.ok)

-----------------------------------------------------------------------------
(***************************************************************************)
(* SifSetDma, system call 119, with what the EE's program sends.           *)
(***************************************************************************)
\* SIF_CMD_INIT_CMD.  The program sends it again only when nothing is under way.
SendInit ==
    /\ \A c \in Clients : prog[c] # "waiting"
    /\ recvbuf = 0 \/ rpcReady = 1
    /\ recvbuf' = 1 /\ init' = 1 /\ initLeft' = Delay
    /\ rpcReady' = 0
    /\ Sif0Done
    /\ UNCHANGED <<tableVars, queue, current, left, packet, cdvdVars, prog, bound, sem>>

\* SIF_CMD_RPC_BIND, which the program sends once it has seen RPCINIT.
SendBind(c, s) ==
    /\ prog[c] = "idle" /\ rpcReady = 1
    /\ TracksSid(c, s)
    /\ queue' = Enqueued(queue, c)
    /\ prog' = [prog EXCEPT ![c] = "waiting"] /\ bound' = [bound EXCEPT ![c] = s]
    /\ Sif0Done
    /\ UNCHANGED <<current, left, initVars, packet, cdvdVars, sem, rpcReady>>

\* ee_arm_rpc_call_pending(): the answer is due.
Replies(c) ==
    /\ queue' = Enqueued(queue, c)
    /\ prog' = [prog EXCEPT ![c] = "waiting"]
    /\ UNCHANGED cdvdVars

\* An N command that the drive gets is answered by ee_check_cdvd_ncmd_pending().
CdvdNcmd(c, r) ==
    \/ ~RealNcmd(r) /\ Replies(c)
    \/ /\ RealNcmd(r)
       /\ ncmd' = c /\ done' = 0 /\ irq2' = 1
       /\ prog' = [prog EXCEPT ![c] = "waiting"]
       /\ UNCHANGED <<queue, serving>>

\* A call that no case takes is never answered.
Ignored(c) == prog' = [prog EXCEPT ![c] = "stuck"] /\ UNCHANGED <<queue, cdvdVars>>

\* SIF_CMD_RPC_CALL, of a client that has been bound.
SendCall(c) ==
    /\ prog[c] = "idle" /\ rpcReady = 1 /\ bound[c] # "none"
    /\ \E s \in Lookup(c), r \in Requests :
         \/ Answered(s, r) /\ Replies(c)
         \/ s = "CDVD_NCMD" /\ CdvdNcmd(c, r)
         \/ s # "CDVD_NCMD" /\ ~Answered(s, r) /\ Ignored(c)
    /\ Sif0Done
    /\ UNCHANGED <<tableVars, current, left, initVars, packet, bound, sem, rpcReady>>

-----------------------------------------------------------------------------
(***************************************************************************)
(* The checks at the end of every EE instruction, in the order of the      *)
(* code: RPCINIT, the answer that is due, the CDVD command.                *)
(***************************************************************************)
CheckRpcInit ==
    IF init = 1 /\ initLeft = 0
    THEN init' = 0 /\ UNCHANGED initLeft
    ELSE UNCHANGED init /\ initLeft' = IF init = 1 THEN initLeft - 1 ELSE initLeft

InitDeliveredQuiet == init = 1 /\ initLeft = 0 /\ recvbuf = 1 /\ sif0 = 0  \* mutant: lost while SIF0 is pending
InitDelivered == init = 1 /\ initLeft = 0 /\ recvbuf = 1

Dequeues == current = NoClient /\ queue # <<>>
Answers == current # NoClient /\ left = 0
Delivered == Answers /\ recvbuf = 1

\* Mutant: there is no delay.
CheckRpcBindAtOnce ==
    /\ current' = IF Dequeues THEN Head(queue) ELSE IF Answers THEN NoClient ELSE current
    /\ left' = 0

CheckRpcBind ==
    /\ current' = IF Dequeues THEN Head(queue) ELSE IF Answers THEN NoClient ELSE current
    /\ left' = IF Dequeues THEN Delay ELSE IF left > 0 THEN left - 1 ELSE left

\* sif_cmd_iop_send_rpcinit_ready() and sif_cmd_iop_send_rpc_bind_rend(): the packet
\* and SIF0's interrupt.  The latter signals the client's semaphore itself as well.
Receives ==
    /\ packet' = IF Delivered THEN current ELSE IF InitDelivered THEN "ready" ELSE packet
    /\ sem' = IF Delivered THEN [sem EXCEPT ![current] = 1] ELSE sem
    /\ sif0' = IF Delivered \/ InitDelivered THEN 1 ELSE sif0
    /\ late' = IF sif0 = 1 THEN late + 1 ELSE late

Completed == ncmd # NoClient /\ done = 1

CheckCdvdNcmd ==
    LET rest == IF Dequeues THEN Tail(queue) ELSE queue
    IN  /\ queue' = IF Completed THEN Enqueued(rest, ncmd) ELSE rest
        /\ ncmd' = IF Completed THEN NoClient ELSE ncmd
        /\ UNCHANGED <<done, irq2, serving>>

\* SIF0's interrupt is taken after Latency instructions at the latest.
Tick ==
    /\ sif0 = 0 \/ late < Latency
    /\ CheckRpcInit /\ CheckRpcBind /\ Receives /\ CheckCdvdNcmd
    /\ UNCHANGED <<tableVars, recvbuf, prog, bound, rpcReady>>

-----------------------------------------------------------------------------
(***************************************************************************)
(* The EE's program, and the IOP.                                          *)
(***************************************************************************)
\* The kernel's handler of SIF0: it empties the receive buffer, and for an answer
\* signals the client's semaphore, which has been signalled already.
Sif0Handler ==
    /\ sif0 = 1
    /\ sif0' = 0 /\ late' = 0 /\ packet' = "none"
    /\ sem' = IF packet \in Clients THEN [sem EXCEPT ![packet] = 1] ELSE sem
    /\ rpcReady' = IF packet = "ready" THEN 1 ELSE rpcReady
    /\ UNCHANGED <<tableVars, queue, current, left, initVars, cdvdVars, prog, bound>>

\* The client's WaitSema succeeds.  Only masked code runs while SIF0 is pending,
\* and does not wait.
Returns(c) ==
    /\ prog[c] = "waiting" /\ sem[c] = 1 /\ sif0 = 0
    /\ prog' = [prog EXCEPT ![c] = "idle"] /\ sem' = [sem EXCEPT ![c] = 0]
    /\ UNCHANGED <<tableVars, queue, current, left, initVars, packet, sif0, late, cdvdVars, bound, rpcReady>>

\* An N command of the IOP's own, which interrupts as well.
IopCommand ==
    /\ irq2' = 1
    /\ UNCHANGED <<tableVars, queue, current, left, initVars, packet, sif0, late, ncmd, done, serving, progVars>>

TakeIrq2 ==
    /\ irq2 = 1 /\ serving = 0 /\ serving' = 1
    /\ UNCHANGED <<tableVars, queue, current, left, initVars, packet, sif0, late, ncmd, done, irq2, progVars>>

\* mutant: the completion is not counted
Irq2ReturnsUncounted ==
    /\ serving = 1 /\ serving' = 0 /\ irq2' = 0
    /\ UNCHANGED <<tableVars, queue, current, left, initVars, packet, sif0, late, ncmd, done, progVars>>

\* The handler's return clears I_STAT's bit, and counts a completion.
Irq2Returns ==
    /\ serving = 1 /\ serving' = 0 /\ irq2' = 0
    /\ done' = 1
    /\ UNCHANGED <<tableVars, queue, current, left, initVars, packet, sif0, late, ncmd, progVars>>

Next ==
    \/ SendInit
    \/ \E c \in Clients : \E s \in Uses[c] : SendBind(c, s)
    \/ \E c \in Clients : SendCall(c) \/ Returns(c)
    \/ Tick
    \/ Sif0Handler
    \/ IopCommand
    \/ TakeIrq2
    \/ Irq2Returns

Spec == Init /\ [][Next]_vars

\* The EE executes instructions and takes its interrupts, the IOP takes interrupt
\* 2 and its handler returns, and a client whose WaitSema can succeed is scheduled.
FairSpec ==
    /\ Spec /\ WF_vars(Tick) /\ WF_vars(Sif0Handler) /\ WF_vars(TakeIrq2) /\ WF_vars(Irq2Returns)
    /\ \A c \in Clients : SF_vars(Returns(c))

-----------------------------------------------------------------------------
(***************************************************************************)
(* Properties.                                                             *)
(***************************************************************************)
TypeOK ==
    /\ cds \in [Cells -> Clients \cup {NoClient}] /\ sids \in [Cells -> Sids \cup {"none"}] /\ next \in Cells
    /\ queue \in Seq(Clients) /\ current \in Clients \cup {NoClient} /\ left \in 0..Delay
    /\ init \in {0, 1} /\ initLeft \in 0..Delay /\ recvbuf \in {0, 1}
    /\ packet \in Clients \cup {"none", "ready"} /\ sif0 \in {0, 1} /\ late \in 0..Latency
    /\ ncmd \in Clients \cup {NoClient} /\ done \in {0, 1} /\ irq2 \in {0, 1} /\ serving \in {0, 1}
    /\ prog \in [Clients -> {"idle", "waiting", "stuck"}] /\ bound \in [Clients -> Sids \cup {"none"}]
    /\ sem \in [Clients -> {0, 1}] /\ rpcReady \in {0, 1}

\* The places where c's answer can be: the FIFO, the delay, the CDVD re-entry, and
\* the semaphore when it has been given.
Places == {"queue", "delay", "cdvd", "semaphore"}
Holds(p, c) ==
    \/ p = "queue" /\ \E i \in DOMAIN queue : queue[i] = c
    \/ p = "delay" /\ current = c
    \/ p = "cdvd" /\ ncmd = c
    \/ p = "semaphore" /\ sem[c] = 1

\* No answer is lost, given twice or given early, however requests, deliveries,
\* interrupts of both processors and completions of the drive interleave: a
\* client that waits for a request which the dispatch takes has its answer once,
\* in exactly one place, and the others have none.
AnswerOnTheWay ==
    /\ \A i, j \in DOMAIN queue : queue[i] = queue[j] => i = j
    /\ \A c \in Clients :
         IF prog[c] = "waiting"
         THEN \E p \in Places : Holds(p, c) /\ \A q \in Places : Holds(q, c) => q = p
         ELSE \A p \in Places : ~Holds(p, c)

\* A CDVD command that waits for the IOP's handler has interrupt 2 pending until
\* the handler has counted a completion, so the poll of the count ends.
CompletionComes == ncmd # NoClient /\ done = 0 => irq2 = 1

\* A packet stays in the EE's receive buffer until the SIF0 handler has taken it:
\* the next one is never written over it, whatever is queued.
PacketSeen == [][packet # "none" => packet' = packet \/ sif0' = 0]_vars

\* A call is dispatched to the service that its client bound last.
BindKnown == \A c \in Clients : bound[c] # "none" => Lookup(c) = {bound[c]}

\* Every request that is taken comes back, whatever the others do, and the EE sees
\* RPCINIT after SIF_CMD_INIT_CMD.
RequestsReturn ==
    /\ \A c \in Clients : prog[c] = "waiting" ~> prog[c] = "idle"
    /\ recvbuf = 1 ~> rpcReady = 1
=============================================================================
