---------------------------- MODULE SifRpcProofs ----------------------------
(***************************************************************************)
(* Proofs about SIF remote procedure calls, for any number of clients that *)
(* the FIFO and the table have room for, and every delay.                  *)
(***************************************************************************)
EXTENDS SifRpc, FiniteSetTheorems, FunctionTheorems, TLAPS

In(q, c) == \E i \in DOMAIN q : q[i] = c
Distinct(q) == \A i, j \in DOMAIN q : q[i] = q[j] => i = j

-----------------------------------------------------------------------------
(* The FIFO.                                                               *)

\* A client that is not in the FIFO finds room in it: the others fill less.
LEMMA RoomInQueue ==
    ASSUME NEW q \in Seq(Clients), Distinct(q), NEW c \in Clients, ~In(q, c)
    PROVE  Len(q) < QDepth
<1> DEFINE T == Clients \ {c}
<1>1. q \in [1..Len(q) -> T]
  BY DEF In
<1>2. q \in Injection(1..Len(q), T)
  <2>1. \A i, j \in 1..Len(q) : q[i] = q[j] => i = j
    BY DEF Distinct
  <2> HIDE DEF T
  <2> QED BY ONLY <1>1, <2>1, Fun_IsInj
<1>3. IsFiniteSet(T) /\ Cardinality(T) = Cardinality(Clients) - 1
  BY FS_RemoveElement, ClientsAssumption
<1>4. Cardinality(1..Len(q)) <= Cardinality(T)
  <2> HIDE DEF T
  <2> QED BY ONLY <1>2, <1>3, FS_Injection
<1>5. Cardinality(1..Len(q)) = Len(q)
  <2>1. Len(q) \in Nat
    OBVIOUS
  <2>2. \A n \in Nat : Cardinality(1..n) = IF 1 > n THEN 0 ELSE n - 1 + 1
    BY FS_Interval
  <2> QED BY <2>1, <2>2
<1>6. Cardinality(Clients) \in Nat
  BY FS_CardinalityType, ClientsAssumption
<1> QED
  BY <1>3, <1>4, <1>5, <1>6, BoundsAssumption

\* Appending a client that is not in the FIFO.
LEMMA EnqueuedFacts ==
    ASSUME NEW q \in Seq(Clients), Distinct(q), NEW c \in Clients, ~In(q, c)
    PROVE  /\ Enqueued(q, c) \in Seq(Clients)
           /\ Distinct(Enqueued(q, c))
           /\ \A d : In(Enqueued(q, c), d) <=> In(q, d) \/ d = c
<1>1. Enqueued(q, c) = Append(q, c)
  BY RoomInQueue DEF Enqueued
<1> DEFINE r == Append(q, c)
<1>2. r \in Seq(Clients) /\ Len(r) = Len(q) + 1 /\ r[Len(q) + 1] = c /\ \A i \in 1..Len(q) : r[i] = q[i]
  OBVIOUS
<1>3. DOMAIN r = 1..(Len(q) + 1) /\ DOMAIN q = 1..Len(q) /\ Len(q) \in Nat
  BY <1>2
<1> HIDE DEF r
<1>4. Distinct(r)
  BY <1>2, <1>3 DEF Distinct, In
<1>5. \A d : In(r, d) <=> In(q, d) \/ d = c
  BY <1>2, <1>3 DEF In
<1> QED
  BY <1>1, <1>2, <1>4, <1>5 DEF r

\* Taking the head out of the FIFO.
LEMMA TailFacts ==
    ASSUME NEW q \in Seq(Clients), Distinct(q), q # <<>>
    PROVE  /\ Head(q) \in Clients /\ In(q, Head(q))
           /\ Tail(q) \in Seq(Clients)
           /\ Distinct(Tail(q))
           /\ \A d : In(Tail(q), d) <=> In(q, d) /\ d # Head(q)
<1> DEFINE r == Tail(q)
<1>1. Len(q) \in Nat /\ Len(q) > 0 /\ DOMAIN q = 1..Len(q) /\ Head(q) = q[1] /\ Head(q) \in Clients
  OBVIOUS
<1>2. r \in Seq(Clients) /\ DOMAIN r = 1..(Len(q) - 1) /\ \A i \in 1..(Len(q) - 1) : r[i] = q[i + 1]
  BY <1>1
<1> HIDE DEF r
<1>3. In(q, Head(q))
  BY <1>1 DEF In
<1>4. Distinct(r)
  <2> SUFFICES ASSUME NEW i \in 1..(Len(q) - 1), NEW j \in 1..(Len(q) - 1), r[i] = r[j] PROVE i = j
    BY <1>2 DEF Distinct
  <2>1. i + 1 \in 1..Len(q) /\ j + 1 \in 1..Len(q) /\ q[i + 1] = q[j + 1]
    BY <1>1, <1>2
  <2>2. i + 1 = j + 1
    BY <2>1, <1>1 DEF Distinct
  <2> QED BY <2>2
<1>5. ASSUME NEW d PROVE In(r, d) <=> In(q, d) /\ d # Head(q)
  <2>1. In(r, d) => In(q, d) /\ d # Head(q)
    <3> SUFFICES ASSUME NEW i \in 1..(Len(q) - 1), r[i] = d PROVE In(q, d) /\ d # Head(q)
      BY <1>2 DEF In
    <3>1. i + 1 \in 1..Len(q) /\ 1 \in 1..Len(q) /\ q[i + 1] = d
      BY <1>1, <1>2
    <3> QED BY <3>1, <1>1 DEF In, Distinct
  <2>2. In(q, d) /\ d # Head(q) => In(r, d)
    <3> SUFFICES ASSUME NEW i \in 1..Len(q), q[i] = d, d # Head(q) PROVE In(r, d)
      BY <1>1 DEF In
    <3>1. i - 1 \in 1..(Len(q) - 1)
      BY <1>1
    <3>2. r[i - 1] = d
      BY <3>1, <1>1, <1>2
    <3> QED BY <3>1, <3>2, <1>2 DEF In
  <2> QED BY <2>1, <2>2
<1> QED
  BY <1>1, <1>2, <1>3, <1>4, <1>5 DEF r

-----------------------------------------------------------------------------
(***************************************************************************)
(* The inductive invariant.                                                *)
(***************************************************************************)
\* AnswerOnTheWay, with its four places spelled out.
OnlyIn(c) ==
    /\ prog[c] = "waiting" => In(queue, c) \/ current = c \/ ncmd = c \/ sem[c] = 1
    /\ prog[c] # "waiting" => ~In(queue, c) /\ current # c /\ ncmd # c /\ sem[c] = 0
    /\ In(queue, c) => current # c /\ ncmd # c /\ sem[c] = 0
    /\ current = c => ncmd # c /\ sem[c] = 0
    /\ ncmd = c => sem[c] = 0
OnTheWay == Distinct(queue) /\ \A c \in Clients : OnlyIn(c)

\* Nobody waits before RPCINIT has been seen; an unread packet has its interrupt
\* pending, and the semaphore of the client it answers has been signalled.
Handshake ==
    /\ rpcReady = 0 => \A c \in Clients : prog[c] # "waiting"
    /\ rpcReady = 1 => recvbuf = 1 /\ init = 0
    /\ packet = "ready" => rpcReady = 0 /\ init = 0
    /\ packet # "none" => sif0 = 1 /\ recvbuf = 1
    /\ packet \in Clients => prog[packet] = "waiting" /\ sem[packet] = 1

\* The next answer is later than the interrupt of the packet that is unread.
Timing == packet # "none" /\ current # NoClient => left + late > Delay

\* Each client has at most one cell, with the service it bound; the cells fill up
\* in order.
Table ==
    /\ \A i, j \in Cells : cds[i] = cds[j] /\ cds[i] # NoClient => i = j
    /\ \A c \in Clients : bound[c] # "none" <=> \E i \in Cells : cds[i] = c
    /\ \A i \in Cells : cds[i] # NoClient => sids[i] = bound[cds[i]]
    /\ \/ \A i \in Cells : cds[i] # NoClient <=> i < next
       \/ \A i \in Cells : cds[i] # NoClient

IInv == TypeOK /\ OnTheWay /\ Handshake /\ Timing /\ CompletionComes /\ Table

LEMMA InitHolds == Init => IInv
<1> SUFFICES ASSUME Init PROVE IInv
  OBVIOUS
<1> USE ClientsAssumption, BoundsAssumption, DelayAssumption
<1>1. TypeOK
  BY DEF Init, TypeOK, Cells
<1>2. OnTheWay
  BY DEF Init, OnTheWay, OnlyIn, In, Distinct
<1>3. Handshake /\ Timing /\ CompletionComes
  BY DEF Init, Handshake, Timing, CompletionComes
<1>4. Table
  BY DEF Init, Table, Cells
<1> QED BY <1>1, <1>2, <1>3, <1>4 DEF IInv

\* What depends on the table alone.
LEMMA TableKept ==
    ASSUME Table, UNCHANGED <<tableVars, bound>>
    PROVE  Table'
BY DEF Table, tableVars, Cells

\* SIF_CMD_INIT_CMD.
LEMMA SendInitKeeps == IInv /\ SendInit => IInv'
<1> SUFFICES ASSUME IInv, SendInit PROVE IInv'
  OBVIOUS
<1> USE DEF IInv
<1>1. TypeOK'
  BY DelayAssumption DEF TypeOK, SendInit, Sif0Done, tableVars, cdvdVars, Cells
<1>2. OnTheWay'
  BY DEF SendInit, OnTheWay, OnlyIn, In, Distinct, cdvdVars
<1>3. packet = "none"
  BY ClientsAssumption DEF SendInit, Handshake, TypeOK
<1>4. Handshake'
  BY <1>3, ClientsAssumption DEF SendInit, Handshake, TypeOK, Sif0Done
<1>5. Timing' /\ CompletionComes'
  BY <1>3 DEF SendInit, Timing, CompletionComes, cdvdVars
<1>6. Table'
  BY TableKept DEF SendInit
<1> QED BY <1>1, <1>2, <1>4, <1>5, <1>6

\* The interrupts and commands of the IOP.
LEMMA IopKeeps == IInv /\ (IopCommand \/ TakeIrq2 \/ Irq2Returns) => IInv'
<1> SUFFICES ASSUME IInv, IopCommand \/ TakeIrq2 \/ Irq2Returns PROVE IInv'
  OBVIOUS
<1> USE DEF IInv
<1>1. UNCHANGED <<tableVars, queue, current, left, initVars, packet, sif0, late, ncmd, progVars>>
  BY DEF IopCommand, TakeIrq2, Irq2Returns
<1>2. TypeOK'
  BY <1>1 DEF TypeOK, IopCommand, TakeIrq2, Irq2Returns, tableVars, initVars, progVars, Cells
<1>3. OnTheWay'
  BY <1>1 DEF OnTheWay, OnlyIn, In, Distinct, progVars
<1>4. Handshake' /\ Timing'
  BY <1>1 DEF Handshake, Timing, progVars, initVars
<1>5. CompletionComes'
  BY <1>1 DEF CompletionComes, IopCommand, TakeIrq2, Irq2Returns, TypeOK
<1>6. Table'
  BY <1>1, TableKept DEF progVars
<1> QED BY <1>2, <1>3, <1>4, <1>5, <1>6

\* A client's WaitSema succeeds.
LEMMA ReturnsKeeps == ASSUME IInv, NEW c \in Clients, Returns(c) PROVE IInv'
<1> USE DEF IInv
<1>1. TypeOK'
  BY DEF TypeOK, Returns, tableVars, initVars, cdvdVars, Cells
<1>2. OnTheWay'
  <2>1. Distinct(queue)'
    BY DEF Returns, OnTheWay, Distinct
  <2>2. ASSUME NEW d \in Clients PROVE OnlyIn(d)'
    BY <2>2 DEF Returns, OnTheWay, OnlyIn, In, TypeOK, cdvdVars
  <2> QED BY <2>1, <2>2 DEF OnTheWay
<1>3. packet = "none"
  BY DEF Returns, Handshake, TypeOK
<1>4. Handshake'
  BY <1>3, ClientsAssumption DEF Returns, Handshake, TypeOK, initVars
<1>5. Timing' /\ CompletionComes'
  BY DEF Returns, Timing, CompletionComes, cdvdVars
<1>6. Table'
  BY TableKept DEF Returns
<1> QED BY <1>1, <1>2, <1>4, <1>5, <1>6

\* The EE kernel's handler of SIF0.
LEMMA HandlerKeeps == IInv /\ Sif0Handler => IInv'
<1> SUFFICES ASSUME IInv, Sif0Handler PROVE IInv'
  OBVIOUS
<1> USE DEF IInv
<1>1. TypeOK'
  BY DelayAssumption DEF TypeOK, Sif0Handler, tableVars, initVars, cdvdVars, Cells
<1>2. sem' = sem
  <2>1. CASE packet \in Clients
    BY <2>1 DEF Sif0Handler, Handshake, TypeOK
  <2>2. CASE packet \notin Clients
    BY <2>2 DEF Sif0Handler
  <2> QED BY <2>1, <2>2
<1>3. OnTheWay'
  BY <1>2 DEF Sif0Handler, OnTheWay, OnlyIn, In, Distinct, cdvdVars
<1>4. Handshake'
  BY <1>2, ClientsAssumption DEF Sif0Handler, Handshake, TypeOK, initVars
<1>5. Timing' /\ CompletionComes'
  BY DEF Sif0Handler, Timing, CompletionComes, cdvdVars
<1>6. Table'
  BY TableKept DEF Sif0Handler
<1> QED BY <1>1, <1>3, <1>4, <1>5, <1>6

\* A client without a cell finds the next one free: the others do not fill the
\* table.
LEMMA RoomInTable ==
    ASSUME TypeOK, Table, NEW c \in Clients, \A i \in Cells : cds[i] # c
    PROVE  \A i \in Cells : cds[i] # NoClient <=> i < next
<1> SUFFICES ASSUME \A i \in Cells : cds[i] # NoClient PROVE FALSE
  BY DEF Table
<1> DEFINE T == Clients \ {c}
<1>1. cds \in [Cells -> T]
  BY DEF TypeOK
<1>2. cds \in Injection(Cells, T)
  <2>1. \A i, j \in Cells : cds[i] = cds[j] => i = j
    BY DEF Table
  <2> HIDE DEF T
  <2> QED BY ONLY <1>1, <2>1, Fun_IsInj
<1>3. IsFiniteSet(T) /\ Cardinality(T) = Cardinality(Clients) - 1
  BY FS_RemoveElement, ClientsAssumption
<1>4. Cardinality(Cells) <= Cardinality(T)
  <2> HIDE DEF T
  <2> QED BY ONLY <1>2, <1>3, FS_Injection
<1>5. Cardinality(Cells) = TableSize
  <2>1. \A n \in Nat : Cardinality(0..(n - 1)) = IF 0 > n - 1 THEN 0 ELSE n - 1 - 0 + 1
    BY FS_Interval
  <2> QED BY <2>1, BoundsAssumption DEF Cells
<1>6. Cardinality(Clients) \in Nat
  BY FS_CardinalityType, ClientsAssumption
<1> QED
  BY <1>3, <1>4, <1>5, <1>6, BoundsAssumption

\* sif_cmd_iop_track_bind_sid() and the program's note of it.
LEMMA TracksKeeps ==
    ASSUME TypeOK, Table, NEW c \in Clients, NEW s \in Uses[c],
           TracksSid(c, s), bound' = [bound EXCEPT ![c] = s]
    PROVE  /\ Table'
           /\ cds' \in [Cells -> Clients \cup {NoClient}] /\ sids' \in [Cells -> Sids \cup {"none"}]
           /\ next' \in Cells
<1>0. s \in Sids /\ s # "none" /\ c # NoClient /\ TableSize \in Nat \ {0}
  BY UsesAssumption, ClientsAssumption, BoundsAssumption DEF Sids
<1>1. CASE \E i \in Cells : cds[i] = c
  <2>1. PICK i \in Cells : cds[i] = c /\ sids' = [sids EXCEPT ![i] = s] /\ UNCHANGED <<cds, next>>
    BY <1>1 DEF TracksSid
  <2>2. \A j \in Cells : cds[j] # NoClient => sids'[j] = bound'[cds[j]]
    <3> SUFFICES ASSUME NEW j \in Cells, cds[j] # NoClient PROVE sids'[j] = bound'[cds[j]]
      OBVIOUS
    <3>1. CASE j = i
      BY <3>1, <2>1 DEF TypeOK
    <3>2. CASE j # i
      <4>1. cds[j] # c /\ cds[j] \in Clients
        BY <3>2, <2>1, <1>0 DEF Table, TypeOK
      <4> QED BY <4>1, <3>2, <2>1 DEF Table, TypeOK
    <3> QED BY <3>1, <3>2
  <2>3. \A d \in Clients : bound'[d] # "none" <=> \E j \in Cells : cds[j] = d
    BY <2>1, <1>0 DEF Table, TypeOK
  <2>4. Table'
    BY <2>1, <2>2, <2>3 DEF Table, Cells
  <2> QED BY <2>1, <2>4, <1>0 DEF TypeOK, Cells
<1>2. CASE ~\E i \in Cells : cds[i] = c
  <2>1. /\ cds' = [cds EXCEPT ![next] = c] /\ sids' = [sids EXCEPT ![next] = s]
        /\ next' = (next + 1) % TableSize
    BY <1>2 DEF TracksSid
  <2>2. \A i \in Cells : cds[i] # NoClient <=> i < next
    BY <1>2, RoomInTable
  <2>3. next \in Cells /\ next' \in Cells
    BY <2>1, <1>0 DEF TypeOK, Cells
  <2>4. cds[next] = NoClient
    BY <2>2, <2>3 DEF Cells
  <2>5. \A i, j \in Cells : cds'[i] = cds'[j] /\ cds'[i] # NoClient => i = j
    BY <2>1, <2>3, <1>2 DEF Table, TypeOK
  <2>6. \A d \in Clients : bound'[d] # "none" <=> \E j \in Cells : cds'[j] = d
    <3> SUFFICES ASSUME NEW d \in Clients PROVE bound'[d] # "none" <=> \E j \in Cells : cds'[j] = d
      OBVIOUS
    <3>1. CASE d = c
      BY <3>1, <2>1, <2>3, <1>0 DEF TypeOK
    <3>2. CASE d # c
      <4>1. bound'[d] = bound[d]
        BY <3>2 DEF TypeOK
      <4>2. \A j \in Cells : cds'[j] = d <=> cds[j] = d
        BY <3>2, <2>1, <2>3, <2>4, ClientsAssumption DEF TypeOK
      <4> QED BY <4>1, <4>2 DEF Table
    <3> QED BY <3>1, <3>2
  <2>7. \A i \in Cells : cds'[i] # NoClient => sids'[i] = bound'[cds'[i]]
    <3> SUFFICES ASSUME NEW i \in Cells, cds'[i] # NoClient PROVE sids'[i] = bound'[cds'[i]]
      OBVIOUS
    <3>1. CASE i = next
      BY <3>1, <2>1, <2>3 DEF TypeOK
    <3>2. CASE i # next
      <4>1. cds'[i] = cds[i] /\ sids'[i] = sids[i]
        BY <3>2, <2>1, <2>3 DEF TypeOK
      <4>2. cds[i] \in Clients /\ cds[i] # c
        BY <4>1, <1>2 DEF TypeOK
      <4> QED BY <4>1, <4>2 DEF Table, TypeOK
    <3> QED BY <3>1, <3>2
  <2>8. \A i \in Cells : cds'[i] # NoClient <=> i < next + 1
    BY <2>1, <2>2, <2>3, <1>0 DEF TypeOK, Cells
  <2>9. \/ \A i \in Cells : cds'[i] # NoClient <=> i < next'
        \/ \A i \in Cells : cds'[i] # NoClient
    <3>1. CASE next + 1 < TableSize
      <4>1. next' = next + 1
        BY <3>1, <2>1, <2>3, <1>0 DEF Cells
      <4> QED BY <4>1, <2>8
    <3>2. CASE next + 1 = TableSize
      BY <3>2, <2>8, <1>0 DEF Cells
    <3> QED BY <3>1, <3>2, <2>3, <1>0 DEF Cells
  <2>10. Table'
    BY <2>5, <2>6, <2>7, <2>9 DEF Table, Cells
  <2> QED BY <2>1, <2>3, <2>10, <1>0 DEF TypeOK
<1> QED BY <1>1, <1>2

\* A client that was idle waits, and its answer goes to the FIFO.
LEMMA RepliesKeep ==
    ASSUME IInv, NEW c \in Clients, prog[c] = "idle",
           queue' = Enqueued(queue, c), prog' = [prog EXCEPT ![c] = "waiting"],
           UNCHANGED <<current, ncmd, sem>>
    PROVE  queue' \in Seq(Clients) /\ OnTheWay'
<1> USE DEF IInv
<1>1. ~In(queue, c) /\ current # c /\ ncmd # c /\ sem[c] = 0
  BY DEF OnTheWay, OnlyIn
<1>2. queue \in Seq(Clients) /\ Distinct(queue)
  BY DEF TypeOK, OnTheWay
<1>3. queue' \in Seq(Clients) /\ Distinct(queue') /\ \A d : In(queue', d) <=> In(queue, d) \/ d = c
  BY <1>1, <1>2, EnqueuedFacts
<1>4. ASSUME NEW d \in Clients PROVE OnlyIn(d)'
  <2>1. CASE d = c
    BY <2>1, <1>1, <1>3 DEF OnlyIn, TypeOK, In
  <2>2. CASE d # c
    <3>1. prog'[d] = prog[d] /\ (In(queue', d) <=> In(queue, d)) /\ OnlyIn(d)
      BY <2>2, <1>3 DEF TypeOK, OnTheWay
    <3> QED BY <3>1 DEF OnlyIn, In
  <2> QED BY <2>1, <2>2
<1> QED BY <1>3, <1>4 DEF OnTheWay, Distinct

\* SIF_CMD_RPC_BIND.
LEMMA SendBindKeeps == ASSUME IInv, NEW c \in Clients, NEW s \in Uses[c], SendBind(c, s) PROVE IInv'
<1> USE DEF IInv
<1>1. queue' \in Seq(Clients) /\ OnTheWay'
  BY RepliesKeep DEF SendBind, cdvdVars
<1>2. /\ Table' /\ cds' \in [Cells -> Clients \cup {NoClient}] /\ sids' \in [Cells -> Sids \cup {"none"}]
      /\ next' \in Cells
  BY TracksKeeps DEF SendBind
<1>3. s \in Sids
  BY DEF Sids
<1>4. TypeOK'
  BY <1>1, <1>2, <1>3 DEF TypeOK, SendBind, Sif0Done, initVars, cdvdVars, Cells
<1>5. Handshake'
  BY ClientsAssumption DEF SendBind, Handshake, TypeOK, Sif0Done, initVars
<1>6. Timing' /\ CompletionComes'
  BY DEF SendBind, Sif0Done, Timing, CompletionComes, cdvdVars
<1> QED BY <1>1, <1>2, <1>4, <1>5, <1>6

\* SIF_CMD_RPC_CALL.
LEMMA SendCallKeeps == ASSUME IInv, NEW c \in Clients, SendCall(c) PROVE IInv'
<1> USE DEF IInv
<1>0. /\ prog[c] = "idle" /\ rpcReady = 1 /\ sif0' = 1
      /\ UNCHANGED <<late, tableVars, current, left, initVars, packet, bound, sem, rpcReady>>
  BY DEF SendCall, Sif0Done
<1>1. PICK s \in Lookup(c), r \in Requests : Replies(c) \/ CdvdNcmd(c, r) \/ Ignored(c)
  BY DEF SendCall
<1>2. Table'
  BY <1>0, TableKept
<1>3. CASE Replies(c)
  <2>1. queue' \in Seq(Clients) /\ OnTheWay'
    BY <1>0, <1>3, RepliesKeep DEF Replies, cdvdVars
  <2>2. TypeOK'
    BY <2>1, <1>0, <1>3 DEF TypeOK, Replies, tableVars, initVars, cdvdVars, Cells
  <2>3. Handshake'
    BY <1>0, <1>3 DEF Replies, Handshake, TypeOK, initVars
  <2>4. Timing' /\ CompletionComes'
    BY <1>0, <1>3 DEF Replies, Timing, CompletionComes, cdvdVars
  <2> QED BY <1>2, <2>1, <2>2, <2>3, <2>4
<1>4. CASE CdvdNcmd(c, r) /\ ~Replies(c)
  <2>1. /\ ncmd = NoClient /\ ncmd' = c /\ done' = 0 /\ irq2' = 1
        /\ prog' = [prog EXCEPT ![c] = "waiting"] /\ UNCHANGED <<queue, serving>>
    BY <1>4 DEF CdvdNcmd, RealNcmd
  <2>2. TypeOK'
    BY <2>1, <1>0 DEF TypeOK, tableVars, initVars, Cells
  <2>3. ASSUME NEW d \in Clients PROVE OnlyIn(d)'
    <3>1. OnlyIn(d) /\ OnlyIn(c) /\ d # NoClient
      BY ClientsAssumption DEF OnTheWay
    <3> QED BY <3>1, <2>1, <1>0 DEF OnlyIn, In, TypeOK
  <2>4. OnTheWay'
    BY <2>1, <2>3 DEF OnTheWay, Distinct
  <2>5. Handshake'
    BY <2>1, <1>0 DEF Handshake, TypeOK, initVars
  <2>6. Timing' /\ CompletionComes'
    BY <2>1, <1>0 DEF Timing, CompletionComes
  <2> QED BY <1>2, <2>2, <2>4, <2>5, <2>6
<1>5. CASE Ignored(c)
  <2>1. prog' = [prog EXCEPT ![c] = "stuck"] /\ UNCHANGED <<queue, ncmd, done, irq2, serving>>
    BY <1>5 DEF Ignored, cdvdVars
  <2>2. TypeOK'
    BY <2>1, <1>0 DEF TypeOK, tableVars, initVars, Cells
  <2>3. ASSUME NEW d \in Clients PROVE OnlyIn(d)'
    BY <2>1, <1>0 DEF OnTheWay, OnlyIn, In, TypeOK
  <2>4. OnTheWay'
    BY <2>1, <2>3 DEF OnTheWay, Distinct
  <2>5. Handshake'
    BY <2>1, <1>0 DEF Handshake, OnTheWay, OnlyIn, TypeOK, initVars
  <2>6. Timing' /\ CompletionComes'
    BY <2>1, <1>0 DEF Timing, CompletionComes
  <2> QED BY <1>2, <2>2, <2>4, <2>5, <2>6
<1> QED BY <1>1, <1>3, <1>4, <1>5

-----------------------------------------------------------------------------
(* The end of an EE instruction.                                           *)

\* An answer finds its client waiting and the receive buffer empty.
LEMMA AnswersFacts ==
    ASSUME IInv, Answers, sif0 = 0 \/ late < Latency
    PROVE  Delivered /\ current \in Clients /\ prog[current] = "waiting" /\ init = 0 /\ packet = "none"
<1> USE DEF IInv
<1>1. current \in Clients /\ left = 0
  BY DEF Answers, TypeOK
<1>2. prog[current] = "waiting"
  BY <1>1 DEF OnTheWay, OnlyIn
<1>3. rpcReady = 1
  BY <1>1, <1>2 DEF Handshake, TypeOK
<1>4. packet = "none"
  <2> SUFFICES ASSUME packet # "none" PROVE FALSE
    OBVIOUS
  <2>1. late > Delay /\ sif0 = 1
    BY <1>1, DelayAssumption DEF Timing, Handshake, Answers, TypeOK
  <2> QED BY <2>1, DelayAssumption DEF TypeOK
<1> QED BY <1>1, <1>2, <1>3, <1>4 DEF Delivered, Handshake

\* RPCINIT finds the receive buffer empty and nothing under way.
LEMMA InitDeliveredFacts ==
    ASSUME IInv, InitDelivered
    PROVE  packet = "none" /\ current = NoClient /\ ~Dequeues /\ rpcReady = 0
<1> USE DEF IInv
<1>1. rpcReady = 0 /\ \A c \in Clients : prog[c] # "waiting"
  BY DEF InitDelivered, Handshake, TypeOK
<1>2. packet = "none"
  BY <1>1 DEF InitDelivered, Handshake, TypeOK
<1>3. current = NoClient
  BY <1>1 DEF OnTheWay, OnlyIn, TypeOK
<1>4. queue = <<>>
  <2> SUFFICES ASSUME queue # <<>> PROVE FALSE
    OBVIOUS
  <2>1. Head(queue) \in Clients /\ In(queue, Head(queue))
    BY TailFacts DEF OnTheWay, TypeOK
  <2> QED BY <2>1, <1>1 DEF OnTheWay, OnlyIn
<1> QED BY <1>1, <1>2, <1>3, <1>4 DEF Dequeues

\* The FIFO and the delay after the step: an answer moves on or is signalled.
LEMMA TickQueue ==
    ASSUME IInv, Tick
    PROVE  queue' \in Seq(Clients) /\ OnTheWay'
<1> USE DEF IInv
<1> DEFINE rest == IF Dequeues THEN Tail(queue) ELSE queue
<1>0. /\ queue' = IF Completed THEN Enqueued(rest, ncmd) ELSE rest
      /\ ncmd' = IF Completed THEN NoClient ELSE ncmd
      /\ current' = IF Dequeues THEN Head(queue) ELSE IF Answers THEN NoClient ELSE current
      /\ sem' = IF Delivered THEN [sem EXCEPT ![current] = 1] ELSE sem
      /\ prog' = prog
      /\ sif0 = 0 \/ late < Latency
  BY DEF Tick, CheckCdvdNcmd, CheckRpcBind, Receives
<1>1. queue \in Seq(Clients) /\ Distinct(queue) /\ \A c \in Clients : OnlyIn(c)
  BY DEF TypeOK, OnTheWay
<1>2. /\ rest \in Seq(Clients) /\ Distinct(rest)
      /\ \A d : In(rest, d) <=> In(queue, d) /\ ~(Dequeues /\ d = Head(queue))
  <2>1. CASE Dequeues
    BY <2>1, <1>1, TailFacts DEF Dequeues
  <2>2. CASE ~Dequeues
    BY <2>2, <1>1
  <2> QED BY <2>1, <2>2
<1>3. Dequeues => Head(queue) \in Clients /\ In(queue, Head(queue)) /\ current = NoClient
  BY <1>1, TailFacts DEF Dequeues
<1> HIDE DEF rest
<1>4. /\ queue' \in Seq(Clients) /\ Distinct(queue')
      /\ \A d : In(queue', d) <=> In(rest, d) \/ (Completed /\ d = ncmd)
  <2>1. CASE Completed
    <3>1. ncmd \in Clients
      BY <2>1 DEF Completed, TypeOK
    <3>2. ~In(rest, ncmd)
      BY <3>1, <1>1, <1>2 DEF OnlyIn
    <3> QED BY <2>1, <3>1, <3>2, <1>0, <1>2, EnqueuedFacts
  <2>2. CASE ~Completed
    BY <2>2, <1>0, <1>2
  <2> QED BY <2>1, <2>2
<1>5. Answers => Delivered /\ current \in Clients
  BY <1>0, AnswersFacts
<1>6. Delivered => Answers /\ current # NoClient
  BY DEF Delivered, Answers
<1>7. ASSUME NEW c \in Clients PROVE OnlyIn(c)'
  <2>1. OnlyIn(c) /\ c # NoClient /\ (Dequeues => OnlyIn(Head(queue)))
    BY <1>1, <1>3, ClientsAssumption
  <2>2. In(queue', c) <=> (In(queue, c) /\ ~(Dequeues /\ c = Head(queue))) \/ (Completed /\ c = ncmd)
    BY <1>2, <1>4
  <2>3. current' = c <=> (Dequeues /\ c = Head(queue)) \/ (current = c /\ ~Answers)
    BY <2>1, <1>0, <1>3 DEF Dequeues
  <2>4. ncmd' = c <=> ncmd = c /\ ~Completed
    BY <2>1, <1>0
  <2>5. sem'[c] = IF Answers /\ current = c THEN 1 ELSE sem[c]
    BY <1>0, <1>5, <1>6 DEF TypeOK
  <2>6. Completed => ncmd # NoClient
    BY DEF Completed
  <2>7. Dequeues => current # c
    BY <2>1, <1>3
  <2>8. sem[c] \in {0, 1}
    BY DEF TypeOK
  <2>9. prog' = prog
    BY <1>0
  <2>10. Dequeues /\ c = Head(queue) => In(queue, c)
    BY <1>3
  <2> DEFINE q == In(queue, c) qq == In(queue', c) dq == Dequeues /\ c = Head(queue)
             an == Answers /\ current = c co == Completed /\ c = ncmd
  <2>11. (qq <=> (q /\ ~dq) \/ co) /\ (dq => q) /\ (an => current = c) /\ (co => ncmd = c)
    BY <2>2, <2>10
  <2>12. (current' = c <=> dq \/ (current = c /\ ~an)) /\ (ncmd' = c <=> ncmd = c /\ ~co)
    BY <2>3, <2>4
  <2>13. sem'[c] = IF an THEN 1 ELSE sem[c]
    BY <2>5
  <2>14. /\ prog[c] = "waiting" => q \/ current = c \/ ncmd = c \/ sem[c] = 1
         /\ prog[c] # "waiting" => ~q /\ current # c /\ ncmd # c /\ sem[c] = 0
         /\ q => current # c /\ ncmd # c /\ sem[c] = 0
         /\ current = c => ncmd # c /\ sem[c] = 0
         /\ ncmd = c => sem[c] = 0
    BY <2>1 DEF OnlyIn
  <2>15. OnlyIn(c)' <=>
           /\ prog[c] = "waiting" => qq \/ current' = c \/ ncmd' = c \/ sem'[c] = 1
           /\ prog[c] # "waiting" => ~qq /\ current' # c /\ ncmd' # c /\ sem'[c] = 0
           /\ qq => current' # c /\ ncmd' # c /\ sem'[c] = 0
           /\ current' = c => ncmd' # c /\ sem'[c] = 0
           /\ ncmd' = c => sem'[c] = 0
    BY <2>9 DEF OnlyIn, In
  <2> HIDE DEF q, qq, dq, an, co
  <2> QED BY ONLY <2>8, <2>11, <2>12, <2>13, <2>14, <2>15
<1> QED BY <1>4, <1>7 DEF OnTheWay, Distinct

LEMMA TickKeeps == IInv /\ Tick => IInv'
<1> SUFFICES ASSUME IInv, Tick PROVE IInv'
  OBVIOUS
<1> USE DEF IInv
<1>1. queue' \in Seq(Clients) /\ OnTheWay'
  BY TickQueue
<1>2. UNCHANGED <<tableVars, recvbuf, prog, bound, rpcReady, done, irq2, serving>>
  BY DEF Tick, CheckCdvdNcmd
<1>3. current' \in Clients \cup {NoClient} /\ left' \in 0..Delay
  <2>1. Dequeues => Head(queue) \in Clients
    BY TailFacts DEF Dequeues, OnTheWay, TypeOK
  <2>2. left \in 0..Delay /\ current \in Clients \cup {NoClient}
    BY DEF TypeOK
  <2> QED BY <2>1, <2>2, DelayAssumption DEF Tick, CheckRpcBind
<1>4. init' \in {0, 1} /\ initLeft' \in 0..Delay
  BY DelayAssumption DEF Tick, CheckRpcInit, TypeOK
<1>5. /\ packet' \in Clients \cup {"none", "ready"} /\ sif0' \in {0, 1} /\ late' \in 0..Latency
      /\ sem' \in [Clients -> {0, 1}]
  <2>1. Delivered => current \in Clients
    BY DEF Delivered, Answers, TypeOK
  <2> QED BY <2>1, DelayAssumption DEF Tick, Receives, TypeOK
<1>6. ncmd' \in Clients \cup {NoClient}
  BY DEF Tick, CheckCdvdNcmd, TypeOK
<1>7. TypeOK'
  BY <1>1, <1>2, <1>3, <1>4, <1>5, <1>6 DEF TypeOK, tableVars, Cells
<1>8. Handshake' /\ Timing'
  <2>1. CASE Answers
    <3>1. Delivered /\ current \in Clients /\ prog[current] = "waiting" /\ init = 0 /\ packet = "none"
      BY <2>1, AnswersFacts DEF Tick
    <3>2. /\ packet' = current /\ sem'[current] = 1 /\ sif0' = 1 /\ init' = 0 /\ current' = NoClient
          /\ rpcReady = 1 /\ recvbuf = 1
      BY <2>1, <3>1 DEF Tick, Receives, CheckRpcInit, CheckRpcBind, Dequeues, Delivered, Answers, TypeOK, Handshake
    <3> QED BY <3>1, <3>2, <1>2, ClientsAssumption DEF Handshake, Timing
  <2>2. CASE ~Answers /\ InitDelivered
    <3>1. packet = "none" /\ current = NoClient /\ ~Dequeues /\ rpcReady = 0
      BY <2>2, InitDeliveredFacts
    <3>2. packet' = "ready" /\ sif0' = 1 /\ init' = 0 /\ current' = NoClient /\ recvbuf = 1
      BY <2>2, <3>1 DEF Tick, Receives, CheckRpcInit, CheckRpcBind, Delivered, InitDelivered
    <3> QED BY <3>1, <3>2, <1>2, ClientsAssumption DEF Handshake, Timing
  <2>3. CASE ~Answers /\ ~InitDelivered
    <3>1. /\ packet' = packet /\ sem' = sem /\ sif0' = sif0
          /\ late' = IF sif0 = 1 THEN late + 1 ELSE late
      BY <2>3 DEF Tick, Receives, Delivered
    <3>2. init = 0 => init' = 0
      BY DEF Tick, CheckRpcInit
    <3>3. Handshake'
      BY <3>1, <3>2, <1>2 DEF Handshake
    <3>4. ASSUME packet # "none", current' # NoClient PROVE left' + late' > Delay
      <4>1. sif0 = 1 /\ late' = late + 1
        BY <3>1, <3>4 DEF Handshake
      <4>2. CASE Dequeues
        <5>1. left' = Delay
          BY <4>2 DEF Tick, CheckRpcBind
        <5> QED BY <4>1, <5>1, DelayAssumption DEF TypeOK
      <4>3. CASE ~Dequeues
        <5>1. current' = current /\ left # 0
          BY <4>3, <2>3, <3>4 DEF Tick, CheckRpcBind, Answers
        <5>2. left' = left - 1
          BY <4>3, <5>1 DEF Tick, CheckRpcBind, TypeOK
        <5> QED BY <4>1, <5>1, <5>2, <3>4, DelayAssumption DEF TypeOK, Timing
      <4> QED BY <4>2, <4>3
    <3> QED BY <3>1, <3>3, <3>4 DEF Timing
  <2> QED BY <2>1, <2>2, <2>3
<1>9. CompletionComes'
  BY <1>2 DEF Tick, CheckCdvdNcmd, CompletionComes
<1>10. Table'
  BY <1>2, TableKept
<1> QED BY <1>1, <1>7, <1>8, <1>9, <1>10

-----------------------------------------------------------------------------
(***************************************************************************)
(* The theorems.                                                           *)
(***************************************************************************)
LEMMA NextKeeps == IInv /\ [Next]_vars => IInv'
<1> SUFFICES ASSUME IInv, [Next]_vars PROVE IInv'
  OBVIOUS
<1>1. ASSUME NEW c \in Clients, NEW s \in Uses[c], SendBind(c, s) PROVE IInv'
  BY <1>1, SendBindKeeps
<1>2. ASSUME NEW c \in Clients, SendCall(c) \/ Returns(c) PROVE IInv'
  BY <1>2, SendCallKeeps, ReturnsKeeps
<1>3. CASE UNCHANGED vars
  <2>1. TypeOK'
    BY <1>3 DEF IInv, vars, TypeOK, tableVars, initVars, cdvdVars, progVars, Cells
  <2>2. OnTheWay'
    BY <1>3 DEF IInv, vars, OnTheWay, OnlyIn, In, Distinct, cdvdVars, progVars
  <2>3. Handshake' /\ Timing' /\ CompletionComes'
    BY <1>3 DEF IInv, vars, Handshake, Timing, CompletionComes, initVars, cdvdVars, progVars
  <2>4. Table'
    BY <1>3, TableKept DEF IInv, vars, progVars
  <2> QED BY <2>1, <2>2, <2>3, <2>4 DEF IInv
<1>4. CASE Next
  BY <1>1, <1>2, <1>4, SendInitKeeps, IopKeeps, HandlerKeeps, TickKeeps DEF Next
<1> QED BY <1>3, <1>4

LEMMA Invariant == Spec => []IInv
BY InitHolds, NextKeeps, PTL DEF Spec

\* Every client whose request the dispatch has taken has its answer exactly once,
\* in the FIFO, in the delay, with the CDVD or in its semaphore, for any number of
\* clients up to the depth of the FIFO.
THEOREM NoAnswerLost == Spec => []AnswerOnTheWay
<1>1. IInv => AnswerOnTheWay
  <2> SUFFICES ASSUME IInv PROVE AnswerOnTheWay
    OBVIOUS
  <2>1. \A i, j \in DOMAIN queue : queue[i] = queue[j] => i = j
    BY DEF IInv, OnTheWay, Distinct
  <2>2. ASSUME NEW c \in Clients
        PROVE  IF prog[c] = "waiting"
               THEN \E p \in Places : Holds(p, c) /\ \A q \in Places : Holds(q, c) => q = p
               ELSE \A p \in Places : ~Holds(p, c)
    <3>1. OnlyIn(c)
      BY DEF IInv, OnTheWay
    <3>2. /\ Holds("queue", c) <=> In(queue, c)
          /\ Holds("delay", c) <=> current = c
          /\ Holds("cdvd", c) <=> ncmd = c
          /\ Holds("semaphore", c) <=> sem[c] = 1
      BY DEF Holds, In
    <3> QED BY <3>1, <3>2 DEF OnlyIn, Places
  <2> QED BY <2>1, <2>2 DEF AnswerOnTheWay
<1> QED BY <1>1, Invariant, PTL

\* The poll for the IOP's completion of a CDVD command has an interrupt to wait for.
THEOREM CdvdCompletes == Spec => []CompletionComes
<1>1. IInv => CompletionComes
  BY DEF IInv
<1> QED BY <1>1, Invariant, PTL

\* Calls go to the service that the client bound last, for any number of clients
\* up to the size of the table.
THEOREM CallsGoWhereBound == Spec => []BindKnown
<1>1. IInv => BindKnown
  <2> SUFFICES ASSUME IInv, NEW c \in Clients, bound[c] # "none" PROVE Lookup(c) = {bound[c]}
    BY DEF BindKnown
  <2>1. PICK i \in Cells : cds[i] = c
    BY DEF IInv, Table
  <2>2. \A j \in Cells : cds[j] = c => sids[j] = bound[c]
    BY ClientsAssumption DEF IInv, Table
  <2> QED BY <2>1, <2>2 DEF Lookup
<1> QED BY <1>1, Invariant, PTL

\* No packet is written over one that the EE has not read, for every delay and
\* every interrupt latency of at most one instruction more.
THEOREM NoPacketOverwritten == Spec => PacketSeen
<1>1. IInv /\ [Next]_vars => [packet # "none" => packet' = packet \/ sif0' = 0]_vars
  <2> SUFFICES ASSUME IInv, Next, packet # "none" PROVE packet' = packet \/ sif0' = 0
    OBVIOUS
  <2>1. CASE Tick
    <3>1. ~Answers /\ ~InitDelivered
      BY <2>1, AnswersFacts, InitDeliveredFacts DEF Tick
    <3> QED BY <2>1, <3>1 DEF Tick, Receives, Delivered
  <2>2. CASE Sif0Handler
    BY <2>2 DEF Sif0Handler
  <2>3. CASE ~Tick /\ ~Sif0Handler
    BY <2>3 DEF Next, SendInit, SendBind, SendCall, Returns, IopCommand, TakeIrq2, Irq2Returns
  <2> QED BY <2>1, <2>2, <2>3
<1> QED BY <1>1, Invariant, PTL DEF Spec, PacketSeen
=============================================================================
