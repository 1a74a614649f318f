---------------------------- MODULE HostCoreProofs ----------------------------
(***************************************************************************)
(* The safety of the Host execution core, for any set of intents, any      *)
(* retry policy, any outbox limit and any number of faults: one live task  *)
(* per agent, nothing live behind a settled intent, outcomes applied once  *)
(* and never past a cancellation, and a scan that always comes back.       *)
(*                                                                         *)
(* The inductive invariant, Inv, ties the three places that know about an  *)
(* intent: its row, what the scan read of it before an await, and its task *)
(* in the cloud.                                                           *)
(***************************************************************************)
EXTENDS HostCore, TLAPS, FiniteSetTheorems

-----------------------------------------------------------------------------
(* The inductive invariant *)

\* A conclusion is written by settling; the attempts count the generations; an
\* intent waits for a further attempt only while it has one left.
RowsOK ==
  \A i \in Intent :
    /\ row[i].conclusion # "none" <=> row[i].phase = "settled"
    /\ row[i].attempts = 0 => row[i].generation = 0
    /\ row[i].attempts # 0 => row[i].attempts = row[i].generation + 1
    /\ row[i].phase \in {"absent", "queued"} => row[i].attempts = 0
    /\ row[i].phase = "backoff" => row[i].attempts # 0
    /\ row[i].phase \in {"backoff", "memory_blocked"} => row[i].attempts < 3
    /\ row[i].phase = "inflight" => row[i].attempts # 0

\* Intents are enqueued in order, and before the one in flight all are settled.
Fifo ==
  \A i, j \in Intent : j < i =>
    /\ row[i].phase # "absent" => row[j].phase # "absent"
    /\ row[i].phase = "inflight" => row[j].phase = "settled"

Acting  == {"attempt", "cancel", "terminal", "authority", "finish", "submit", "send", "sent"}
Holding == Acting \union {"reconcile"}

\* What the scan holds of its head: the copy of a phase that only the scan or a
\* memory notice can have changed since, and, from its first await on, a row in
\* flight that nothing but the scan moves.
CopyOK ==
  scan.pc \in Holding =>
    /\ scan.at \in Intent
    /\ \A j \in Intent : j < scan.at => row[j].phase = "settled"
    /\ scan.pc \in Acting => row[scan.at].phase = "inflight"
    /\ scan.pc = "reconcile" =>
         /\ scan.phase \in {"inflight", "queued", "backoff", "memory_blocked"}
         /\ scan.phase # "memory_blocked" => row[scan.at].phase = scan.phase
         /\ scan.phase = "memory_blocked" => row[scan.at].phase \in Waiting \union {"settled"}

\* What the scan read in the cloud still says something of the task: a terminal
\* stays, and so does a cancellation, after which no device claims the task.
ReadsOK ==
  scan.pc \in Holding =>
    LET s == server[TaskOf(scan.at)]
    IN /\ scan.pc \in {"attempt", "authority", "finish"} /\ scan.terminal # "none" => s.terminal = scan.terminal
       /\ scan.pc \in {"authority", "finish"} => scan.terminal # "none"
       /\ scan.pc = "terminal" /\ scan.attempt.cancellation =>
            s.cancellation /\ (~scan.attempt.claimed => ~s.claimed)

\* Only the current task of an intent in flight runs or can start.
LiveOK == \A t \in Task : Live(t) => row[t[1]].phase = "inflight" /\ t = TaskOf(t[1])

\* An outcome belongs to the current task of an intent that succeeded.
AppliedOK ==
  /\ \A t \in applied : t = TaskOf(t[1]) /\ row[t[1]].conclusion = "succeeded"
  /\ \A i \in Intent : row[i].conclusion = "succeeded" => TaskOf(i) \in applied

\* A scan wake that is armed is in the outbox or with the SDK.
WakeOK == (scanWake # {} => wakeRow \/ wake) /\ ScanCovered

Inv ==
  /\ TypeOK
  /\ RowsOK
  /\ Fifo
  /\ CopyOK
  /\ ReadsOK
  /\ LiveOK
  /\ AppliedOK
  /\ WakeOK

-----------------------------------------------------------------------------
(* The fields of the records, after the updates the code makes *)

LEMMA RowFields ==
  ASSUME NEW r \in Row
  PROVE  /\ r.phase \in Phase /\ r.generation \in 0 .. 2 /\ r.attempts \in 0 .. 3
         /\ r.cancelReason \in BOOLEAN /\ r.conclusion \in Conclusion
BY DEF Row, Generation

LEMMA RowPhase ==
  ASSUME NEW r \in Row, NEW p \in Phase
  PROVE  LET x == [r EXCEPT !.phase = p]
         IN /\ x \in Row /\ x.phase = p /\ x.generation = r.generation /\ x.attempts = r.attempts
            /\ x.cancelReason = r.cancelReason /\ x.conclusion = r.conclusion
BY DEF Row

LEMMA RowCancelled ==
  ASSUME NEW r \in Row
  PROVE  LET x == [r EXCEPT !.cancelReason = TRUE]
         IN /\ x \in Row /\ x.phase = r.phase /\ x.generation = r.generation /\ x.attempts = r.attempts
            /\ x.conclusion = r.conclusion
BY DEF Row

LEMMA RowSettled ==
  ASSUME NEW r \in Row, NEW c \in Conclusion
  PROVE  LET x == Settled(r, c)
         IN /\ x \in Row /\ x.generation = r.generation /\ x.attempts = r.attempts
            /\ r.conclusion # "none" => x = r
            /\ r.conclusion = "none" => x.phase = "settled" /\ x.conclusion = c
<1>1. "settled" \in Phase
  BY DEF Phase
<1> QED
  BY <1>1 DEF Row, Settled

\* A begun intent counts its attempt; only a backoff that is over starts a new
\* generation.
LEMMA RowBegun ==
  ASSUME NEW r \in Row, r.attempts < 3, r.phase = "backoff" => r.generation < 2
  PROVE  LET x == Begun(r)
         IN /\ x \in Row /\ x.phase = "inflight" /\ x.attempts = r.attempts + 1 /\ x.conclusion = r.conclusion
            /\ x.generation = IF r.phase = "backoff" THEN r.generation + 1 ELSE r.generation
<1>1. "inflight" \in Phase /\ r.attempts + 1 \in 0 .. 3 /\ r.generation \in 0 .. 2
  BY RowFields DEF Phase
<1>2. CASE r.phase = "backoff"
  <2>1. r.generation + 1 \in 0 .. 2
    BY <1>1, <1>2
  <2> QED
    BY <1>1, <1>2, <2>1 DEF Row, Begun, Generation
<1>3. CASE r.phase # "backoff"
  BY <1>1, <1>3 DEF Row, Begun, Generation
<1> QED
  BY <1>2, <1>3

LEMMA TaskPairs ==
  ASSUME TypeOK
  PROVE  /\ \A i \in Intent : TaskOf(i) \in Task /\ TaskOf(i)[1] = i /\ TaskOf(i)[2] = row[i].generation
         /\ \A t \in Task : t[1] \in Intent /\ t[2] \in 0 .. 2 /\ t = <<t[1], t[2]>>
<1>1. \A i \in Intent : row[i].generation \in Generation
  BY DEF TypeOK, Row
<1>2. \A i \in Intent : TaskOf(i) \in Task /\ TaskOf(i)[1] = i /\ TaskOf(i)[2] = row[i].generation
  BY <1>1 DEF TaskOf, Task
<1>3. \A t \in Task : t[1] \in Intent /\ t[2] \in 0 .. 2 /\ t = <<t[1], t[2]>>
  BY DEF Task, Generation
<1> QED
  BY <1>2, <1>3

\* Two tasks of one intent differ in their generation.
LEMMA TaskOfUnique ==
  ASSUME TypeOK, NEW t \in Task
  PROVE  t = TaskOf(t[1]) <=> t[2] = row[t[1]].generation
BY TaskPairs DEF TaskOf

LEMMA IdleFields ==
  /\ Idle \in ScanState /\ Idle.pc = "idle"
  /\ \A pc \in Step, failed \in BOOLEAN :
       LET x == [Idle EXCEPT !.pc = pc, !.failed = failed] IN x \in ScanState /\ x.pc = pc
<1>1. /\ "idle" \in Step /\ "absent" \in Phase /\ None \in Intent \union {None}
      /\ "none" \in {"none"} \union Terminal /\ NoAttempt \in Attempt
  BY DEF Step, Phase, NoAttempt, Attempt
<1>2. Idle \in ScanState /\ Idle.pc = "idle"
  BY <1>1 DEF Idle, ScanState
<1> QED
  BY <1>1, <1>2 DEF Idle, ScanState

\* The end of a reconcile keeps nothing of the head.
LEMMA DoneFields ==
  ASSUME TypeOK, NEW changed \in BOOLEAN, Done(changed)
  PROVE  scan' \in ScanState /\ scan'.pc \in {"pass", "arm"}
<1>1. scan.failed \in BOOLEAN /\ {"pass", "arm"} \subseteq Step
  BY DEF TypeOK, ScanState, Step
<1>2. CASE changed
  BY <1>1, <1>2, IdleFields DEF Done
<1>3. CASE ~changed
  BY <1>1, <1>3, IdleFields DEF Done
<1> QED
  BY <1>2, <1>3

\* The step of the scan, and nothing else of it.
LEMMA ScanMoves ==
  ASSUME TypeOK, NEW pc \in Step, scan' = [scan EXCEPT !.pc = pc]
  PROVE  /\ scan' \in ScanState /\ scan'.pc = pc /\ scan'.at = scan.at /\ scan'.terminal = scan.terminal
         /\ scan'.attempt = scan.attempt
BY DEF TypeOK, ScanState

LEMMA ServerFields ==
  ASSUME NEW s \in Server
  PROVE  /\ s.attempt \in BOOLEAN /\ s.delivered \in BOOLEAN /\ s.claimed \in BOOLEAN
         /\ s.cancellation \in BOOLEAN /\ s.terminal \in {"none"} \union Terminal /\ s.final \in BOOLEAN
BY DEF Server

LEMMA FaultType ==
  ASSUME TypeOK, Fault
  PROVE  faults' \in 0 .. MaxFaults
BY HostAssumption DEF TypeOK, Fault

-----------------------------------------------------------------------------
(* Frames: what a step leaves alone *)

LEMMA SameLedger ==
  ASSUME Inv, UNCHANGED <<row, applied, server>>
  PROVE  RowsOK' /\ Fifo' /\ LiveOK' /\ AppliedOK'
BY DEF Inv, RowsOK, Fifo, LiveOK, Live, AppliedOK, TaskOf

LEMMA SameScan ==
  ASSUME Inv, UNCHANGED <<row, server, scan>>
  PROVE  CopyOK' /\ ReadsOK'
BY DEF Inv, CopyOK, ReadsOK, TaskOf, Acting, Holding

\* The scan holds no head.
LEMMA NoHead ==
  ASSUME scan'.pc \in {"idle", "pass", "arm"}
  PROVE  CopyOK' /\ ReadsOK'
BY DEF CopyOK, ReadsOK, Holding, Acting

\* While a scan is under way, or asked for, nothing else needs to bring it back.
LEMMA ScanComes ==
  ASSUME Inv, UNCHANGED wakes, scan'.pc # "idle" \/ again' \/ ~up'
  PROVE  WakeOK'
BY DEF Inv, WakeOK, ScanCovered, wakes

\* A step of the scan that keeps the ledger and its head.
LEMMA ScanOnly ==
  ASSUME Inv, scan' \in ScanState, scan'.pc # "idle", CopyOK', ReadsOK', ScanUnchanged,
         UNCHANGED <<row, applied, backlog, server>>, execution' \in [Task -> Execution]
  PROVE  Inv'
<1>1. TypeOK'
  BY DEF Inv, TypeOK, ScanUnchanged, wakes, process, world
<1>2. RowsOK' /\ Fifo' /\ LiveOK' /\ AppliedOK'
  BY SameLedger
<1>3. WakeOK'
  BY ScanComes DEF ScanUnchanged
<1> QED
  BY <1>1, <1>2, <1>3 DEF Inv

\* A step that touches neither the ledger's rows, nor the cloud, nor the scan.
LEMMA OutsideScan ==
  ASSUME Inv, UNCHANGED <<row, applied, server, scan>>, TypeOK', WakeOK'
  PROVE  Inv'
BY SameLedger, SameScan DEF Inv

-----------------------------------------------------------------------------
(* The Host's calls, the timers, memory and the process *)

LEMMA EntryKeepsInv ==
  ASSUME Inv, Consume \/ TimerDrain \/ Hint \/ Admit \/ EventsEnd \/ Upload
  PROVE  Inv'
<1> USE DEF ledger, wakes, process, world, Drain
<1>1. UNCHANGED <<row, applied, server, scan>>
  BY DEF Consume, TimerDrain, Hint, Admit, EventsEnd, Upload
<1>2. CASE Consume
  <2>1. TypeOK'
    BY <1>2 DEF Consume, Inv, TypeOK
  <2>2. WakeOK'
    BY <1>2 DEF Consume, WakeOK, ScanCovered
  <2> QED
    BY <1>1, <2>1, <2>2, OutsideScan
<1>3. CASE TimerDrain \/ Hint \/ Admit \/ EventsEnd
  <2>1. TypeOK'
    <3>1. faults' \in 0 .. MaxFaults
      BY <1>3, FaultType DEF TimerDrain, Hint, Admit, EventsEnd, Inv, TypeOK
    <3> QED
      BY <1>3, <3>1 DEF TimerDrain, Hint, Admit, EventsEnd, Inv, TypeOK
  <2>2. WakeOK'
    BY <1>3, ScanComes DEF TimerDrain, Hint, Admit, EventsEnd
  <2> QED
    BY <1>1, <2>1, <2>2, OutsideScan
<1>4. CASE Upload
  <2>1. TypeOK'
    BY <1>4, HostAssumption DEF Upload, Inv, TypeOK
  <2>2. WakeOK'
    BY <1>4 DEF Upload, Inv, WakeOK, ScanCovered, Open, TaskOf
  <2> QED
    BY <1>1, <2>1, <2>2, OutsideScan
<1> QED
  BY <1>2, <1>3, <1>4

LEMMA WorldKeepsInv ==
  ASSUME Inv, MemoryDrift \/ MemoryFree \/ Hold \/ (\E i \in Intent : Tick(i))
  PROVE  Inv'
<1> USE DEF ledger, wakes, process, world
<1>1. UNCHANGED <<row, applied, server, scan>>
  BY DEF MemoryDrift, MemoryFree, Hold, Tick
<1>2. CASE MemoryDrift \/ MemoryFree \/ Hold
  <2>1. TypeOK'
    <3>1. faults' \in 0 .. MaxFaults
      BY <1>2, FaultType DEF MemoryDrift, MemoryFree, Hold, Inv, TypeOK
    <3> QED
      BY <1>2, <3>1 DEF MemoryDrift, MemoryFree, Hold, Inv, TypeOK
  <2>2. WakeOK'
    BY <1>2 DEF MemoryDrift, MemoryFree, Hold, Inv, WakeOK, ScanCovered, Open, TaskOf
  <2> QED
    BY <1>1, <2>1, <2>2, OutsideScan
<1>3. ASSUME NEW i \in Intent, Tick(i)
      PROVE  Inv'
  <2>1. TypeOK'
    BY <1>3 DEF Tick, Inv, TypeOK
  <2>2. WakeOK'
    BY <1>3 DEF Tick, Inv, WakeOK, ScanCovered, Open, TaskOf
  <2> QED
    BY <1>1, <2>1, <2>2, OutsideScan
<1> QED
  BY <1>2, <1>3

LEMMA CrashKeepsInv ==
  ASSUME Inv, Crash
  PROVE  Inv'
<1> USE DEF Crash, ledger, wakes, process, world
<1>1. TypeOK'
  <2>1. faults' \in 0 .. MaxFaults
    BY FaultType DEF Inv
  <2> QED
    BY <2>1, IdleFields DEF Inv, TypeOK
<1>2. RowsOK' /\ Fifo' /\ LiveOK' /\ AppliedOK'
  BY SameLedger
<1>3. CopyOK' /\ ReadsOK'
  BY IdleFields, NoHead
<1>4. WakeOK'
  BY ScanComes
<1> QED
  BY <1>1, <1>2, <1>3, <1>4 DEF Inv

\* A reason to cancel changes nothing that Inv is about.
LEMMA MarkedRows ==
  ASSUME Inv, NEW i \in Intent, row' = [row EXCEPT ![i].cancelReason = TRUE], UNCHANGED <<applied, server>>
  PROVE  /\ row' \in [Intent -> Row] /\ RowsOK' /\ Fifo' /\ LiveOK' /\ AppliedOK'
         /\ \A j \in Intent : row'[j].phase = row[j].phase /\ TaskOf(j)' = TaskOf(j)
<1>1. row[i] \in Row /\ row \in [Intent -> Row] /\ TypeOK
  BY DEF Inv, TypeOK
<1>2. row' = [row EXCEPT ![i] = [row[i] EXCEPT !.cancelReason = TRUE]]
  BY <1>1
<1>3. /\ row' \in [Intent -> Row]
      /\ \A j \in Intent : /\ row'[j].phase = row[j].phase /\ row'[j].generation = row[j].generation
                           /\ row'[j].attempts = row[j].attempts /\ row'[j].conclusion = row[j].conclusion
  BY <1>1, <1>2, RowCancelled
<1>4. RowsOK' /\ Fifo'
  BY <1>3 DEF Inv, RowsOK, Fifo
<1>5. \A j \in Intent : TaskOf(j)' = TaskOf(j)
  BY <1>3 DEF TaskOf
<1>6. LiveOK'
  BY <1>1, <1>3, <1>5, TaskPairs DEF Inv, LiveOK, Live
<1>7. AppliedOK'
  BY <1>1, <1>3, <1>5, TaskPairs DEF Inv, TypeOK, AppliedOK
<1> QED
  BY <1>3, <1>4, <1>5, <1>6, <1>7

\* A new intent is the last in the queue, and a cancellation only marks one.
LEMMA CommandKeepsInv ==
  ASSUME Inv, NEW i \in Intent, Enqueue(i) \/ Cancel(i)
  PROVE  Inv'
<1> USE DEF ledger, process, world, Drain
<1>1. UNCHANGED <<execution, applied, backlog, wakes, server, scan, process, world, faults>> /\ again' = TRUE
  BY DEF Enqueue, Cancel
<1>2. WakeOK'
  BY <1>1, ScanComes
<1>3. row[i] \in Row /\ row \in [Intent -> Row] /\ TypeOK
  BY DEF Inv, TypeOK
<1>4. CASE Enqueue(i)
  <2>1. "queued" \in Phase
    BY DEF Phase, Waiting
  <2>2. /\ row[i].phase = "absent" /\ \A j \in Intent : j < i => row[j].phase # "absent"
        /\ row' = [row EXCEPT ![i] = [row[i] EXCEPT !.phase = "queued"]]
    BY <1>3, <1>4 DEF Enqueue
  <2>3. /\ row' \in [Intent -> Row] /\ \A j \in Intent \ {i} : row'[j] = row[j]
        /\ row'[i].phase = "queued" /\ row'[i].generation = row[i].generation
        /\ row'[i].attempts = row[i].attempts /\ row'[i].conclusion = row[i].conclusion
    BY <1>3, <2>1, <2>2, RowPhase
  <2>4. TypeOK'
    BY <1>1, <2>3 DEF TypeOK, Inv, wakes
  <2>5. \A j \in Intent : row'[j].generation = row[j].generation /\ row'[j].conclusion = row[j].conclusion
    BY <2>3
  <2>6. RowsOK'
    BY <2>2, <2>3 DEF Inv, RowsOK
  <2>7. Fifo'
    BY <1>3, <2>2, <2>3, HostAssumption DEF Inv, Fifo
  <2>8. LiveOK' /\ AppliedOK'
    <3>1. ASSUME NEW t \in Task, Live(t)'
          PROVE  row'[t[1]].phase = "inflight" /\ t = TaskOf(t[1])'
      BY <1>1, <1>3, <2>2, <2>3, <3>1, TaskPairs DEF Inv, LiveOK, Live, TaskOf
    <3>2. AppliedOK'
      BY <1>1, <1>3, <2>5, TaskPairs DEF Inv, TypeOK, AppliedOK, TaskOf
    <3> QED
      BY <3>1, <3>2 DEF LiveOK
  <2>9. CopyOK' /\ ReadsOK'
    BY <1>1, <2>2, <2>3 DEF Inv, CopyOK, ReadsOK, TaskOf, Holding, Acting, Waiting
  <2> QED
    BY <1>2, <2>4, <2>6, <2>7, <2>8, <2>9 DEF Inv
<1>5. CASE Cancel(i)
  <2>1. row' = [row EXCEPT ![i].cancelReason = TRUE]
    BY <1>5 DEF Cancel
  <2>2. /\ row' \in [Intent -> Row] /\ RowsOK' /\ Fifo' /\ LiveOK' /\ AppliedOK'
        /\ \A j \in Intent : row'[j].phase = row[j].phase /\ TaskOf(j)' = TaskOf(j)
    BY <1>1, <2>1, MarkedRows
  <2>3. TypeOK'
    BY <1>1, <2>2 DEF TypeOK, Inv, wakes
  <2>4. CopyOK' /\ ReadsOK'
    BY <1>1, <2>2 DEF Inv, CopyOK, ReadsOK, Holding, Acting
  <2> QED
    BY <1>2, <2>2, <2>3, <2>4 DEF Inv
<1> QED
  BY <1>4, <1>5

\* The cloud and its devices: terminals and cancellations stay, and a cancelled
\* task is not claimed.
LEMMA CloudKeepsInv ==
  ASSUME Inv, NEW t \in Task, Claim(t) \/ Report(t) \/ Finalise(t) \/ ForeignCancel(t)
  PROVE  Inv'
<1> DEFINE s == server[t]
<1>1. /\ UNCHANGED <<ledger, wakes, scan, again, process, world>> /\ faults' \in 0 .. MaxFaults
  BY HostAssumption DEF Inv, TypeOK, Claim, Report, Finalise, ForeignCancel, EnvUnchanged, Fault
<1>2. server \in [Task -> Server] /\ s \in Server /\ TypeOK
  BY DEF Inv, TypeOK
<1>3. /\ server' \in [Task -> Server] /\ \A u \in Task \ {t} : server'[u] = server[u]
      /\ server'[t].attempt = s.attempt
      /\ s.terminal # "none" => server'[t].terminal = s.terminal
      /\ s.cancellation => server'[t].cancellation /\ server'[t].claimed = s.claimed
      /\ Live(t)' => Live(t)
  <2>1. CASE Claim(t)
    <3>1. server' = [server EXCEPT ![t] = [s EXCEPT !.claimed = TRUE]] /\ s.terminal = "none" /\ ~s.cancellation
      BY <1>2, <2>1 DEF Claim
    <3> QED
      BY <1>2, <3>1 DEF Server, Live
  <2>2. CASE Report(t)
    <3>1. PICK k \in Terminal : server' = [server EXCEPT ![t] = [s EXCEPT !.terminal = k]] /\ s.terminal = "none"
      BY <1>2, <2>2 DEF Report
    <3>2. k # "none"
      BY DEF Terminal
    <3> QED
      BY <1>2, <3>1, <3>2 DEF Server, Live
  <2>3. CASE Finalise(t)
    <3>1. server' = [server EXCEPT ![t] = [s EXCEPT !.final = TRUE]]
      BY <1>2, <2>3 DEF Finalise
    <3> QED
      BY <1>2, <3>1 DEF Server, Live
  <2>4. CASE ForeignCancel(t)
    <3>1. server' = [server EXCEPT ![t] = [s EXCEPT !.cancellation = TRUE]]
      BY <1>2, <2>4 DEF ForeignCancel, Cancelled
    <3> QED
      BY <1>2, <3>1 DEF Server, Live
  <2> QED
    BY <2>1, <2>2, <2>3, <2>4
<1> USE DEF ledger, wakes, process, world
<1>4. TypeOK'
  BY <1>1, <1>3 DEF Inv, TypeOK
<1>5. RowsOK' /\ Fifo' /\ AppliedOK' /\ CopyOK'
  BY <1>1 DEF Inv, RowsOK, Fifo, AppliedOK, CopyOK, TaskOf, Holding, Acting
<1>6. LiveOK'
  <2>1. \A u \in Task : Live(u)' => Live(u)
    BY <1>3 DEF Live
  <2> QED
    BY <1>1, <2>1 DEF Inv, LiveOK, TaskOf
<1>7. ReadsOK'
  <2>1. ASSUME scan.pc \in Holding
        PROVE  TaskOf(scan.at) \in Task
    BY <1>2, <2>1, TaskPairs DEF Inv, CopyOK
  <2>2. ASSUME NEW u \in Task
        PROVE  /\ server[u].terminal # "none" => server'[u].terminal = server[u].terminal
               /\ server[u].cancellation => server'[u].cancellation /\ (~server[u].claimed => ~server'[u].claimed)
    BY <1>3
  <2> QED
    BY <1>1, <2>1, <2>2 DEF Inv, ReadsOK, TaskOf
<1>8. WakeOK'
  BY <1>1 DEF Inv, WakeOK, ScanCovered, Open, TaskOf
<1> QED
  BY <1>4, <1>5, <1>6, <1>7, <1>8 DEF Inv

-----------------------------------------------------------------------------
(* Waiting intents: expiry, and memory that is freed or has moved *)

\* A waiting intent settles without success, or a blocked one goes on.
Eased(r, x) ==
  /\ r.phase \in Waiting /\ x.generation = r.generation /\ x.attempts = r.attempts
  /\ \/ x.phase = "settled" /\ x.conclusion \in {"failed", "stopped"}
     \/ r.phase = "memory_blocked" /\ x.phase = Resume(r) /\ x.conclusion = r.conclusion

LEMMA EasedRows ==
  ASSUME Inv, row' \in [Intent -> Row], UNCHANGED <<applied, server>>,
         \A i \in Intent : row'[i] = row[i] \/ Eased(row[i], row'[i])
  PROVE  /\ RowsOK' /\ Fifo' /\ LiveOK' /\ AppliedOK'
         /\ \A i \in Intent : /\ TaskOf(i)' = TaskOf(i)
                              /\ row[i].phase \in {"settled", "inflight"} => row'[i].phase = row[i].phase
<1>1. TypeOK /\ \A i \in Intent : row[i] \in Row /\ row'[i] \in Row
  BY DEF Inv, TypeOK
<1>2. \A i \in Intent : /\ row'[i].generation = row[i].generation /\ row'[i].attempts = row[i].attempts
                        /\ row[i].phase \in {"settled", "inflight", "absent"} => row'[i] = row[i]
                        /\ row'[i].phase \in {"inflight", "absent"} => row'[i] = row[i]
  <2>1. ASSUME NEW i \in Intent, Eased(row[i], row'[i])
        PROVE  /\ row[i].phase \notin {"settled", "inflight", "absent"}
               /\ row'[i].phase \notin {"inflight", "absent"}
    BY <2>1 DEF Eased, Waiting, Resume
  <2> QED
    BY <2>1 DEF Eased
<1>3. \A i \in Intent : TaskOf(i)' = TaskOf(i)
  BY <1>2 DEF TaskOf
<1>4. RowsOK'
  <2>1. ASSUME NEW i \in Intent, Eased(row[i], row'[i])
        PROVE  /\ row'[i].conclusion # "none" <=> row'[i].phase = "settled"
               /\ row'[i].attempts = 0 => row'[i].generation = 0
               /\ row'[i].attempts # 0 => row'[i].attempts = row'[i].generation + 1
               /\ row'[i].phase \in {"absent", "queued"} => row'[i].attempts = 0
               /\ row'[i].phase = "backoff" => row'[i].attempts # 0
               /\ row'[i].phase \in {"backoff", "memory_blocked"} => row'[i].attempts < 3
               /\ row'[i].phase = "inflight" => row'[i].attempts # 0
    BY <2>1 DEF Inv, RowsOK, Eased, Waiting, Resume
  <2> QED
    BY <2>1 DEF Inv, RowsOK
<1>5. Fifo'
  BY <1>2 DEF Inv, Fifo
<1>6. LiveOK'
  BY <1>1, <1>2, <1>3, TaskPairs DEF Inv, LiveOK, Live
<1>7. AppliedOK'
  <2>1. \A i \in Intent : row[i].conclusion = "succeeded" <=> row'[i].conclusion = "succeeded"
    BY <1>2 DEF Inv, RowsOK, Eased, Waiting
  <2>2. applied \subseteq Task
    BY <1>1 DEF TypeOK
  <2> QED
    BY <1>1, <1>3, <2>1, <2>2, TaskPairs DEF Inv, AppliedOK
<1> QED
  BY <1>2, <1>3, <1>4, <1>5, <1>6, <1>7

\* The transactions that settle any number of intents count them.
LEMMA Counts ==
  ASSUME TypeOK
  PROVE  Cardinality(Expired) \in Nat /\ ResumeResults \in Nat
<1>1. Expired \subseteq Intent /\ Blocked \subseteq Intent /\ IsFiniteSet(Intent)
  BY HostAssumption DEF Expired, Blocked
<1>2. IsFiniteSet(Expired) /\ IsFiniteSet(Blocked)
  BY <1>1, FS_Subset
<1> QED
  BY <1>2, FS_CardinalityType DEF ResumeResults

LEMMA FitsBacklog ==
  ASSUME TypeOK, NEW n \in Nat, Fits(n), backlog' = backlog + n
  PROVE  backlog' \in 0 .. MaxCount
BY HostAssumption DEF TypeOK, Fits

LEMMA ResumedEased ==
  ASSUME Inv, NEW m, row' = ResumedRows(m)
  PROVE  /\ row' \in [Intent -> Row]
         /\ \A i \in Intent : row'[i] = row[i] \/ (row[i].phase = "memory_blocked" /\ Eased(row[i], row'[i]))
<1>1. ASSUME NEW i \in Intent
      PROVE  row'[i] \in Row /\ (row'[i] = row[i] \/ (row[i].phase = "memory_blocked" /\ Eased(row[i], row'[i])))
  <2>1. row[i] \in Row
    BY DEF Inv, TypeOK
  <2>2. CASE i \in Blocked /\ m = "ok"
    <3>1. Resume(row[i]) \in Phase
      BY DEF Resume, Phase, Waiting
    <3>2. row'[i] = [row[i] EXCEPT !.phase = Resume(row[i])]
      BY <2>2 DEF ResumedRows
    <3>3. /\ row'[i] \in Row /\ row'[i].phase = Resume(row[i]) /\ row'[i].generation = row[i].generation
          /\ row'[i].attempts = row[i].attempts /\ row'[i].conclusion = row[i].conclusion
      BY <2>1, <3>1, <3>2, RowPhase
    <3> QED
      BY <2>2, <3>3 DEF Blocked, Eased, Waiting
  <2>3. CASE i \in Blocked /\ m = "moved"
    <3>1. row'[i] = Settled(row[i], "failed") /\ "failed" \in Conclusion
      BY <2>3 DEF ResumedRows, Conclusion
    <3>2. row[i].conclusion = "none"
      BY <2>3 DEF Inv, RowsOK, Blocked
    <3> QED
      BY <2>1, <2>3, <3>1, <3>2, RowSettled DEF Blocked, Eased, Waiting
  <2>4. CASE ~(i \in Blocked /\ m = "ok") /\ ~(i \in Blocked /\ m = "moved")
    BY <2>1, <2>4 DEF ResumedRows
  <2> QED
    BY <2>2, <2>3, <2>4
<1> QED
  BY <1>1 DEF ResumedRows

\* A reconcile that ends without a change of the ledger.
LEMMA DoneKeepsInv ==
  ASSUME Inv, NEW changed \in BOOLEAN, Done(changed), ScanUnchanged,
         UNCHANGED <<row, applied, backlog, server>>, execution' \in [Task -> Execution]
  PROVE  Inv'
<1>1. scan' \in ScanState /\ scan'.pc \in {"pass", "arm"}
  BY DoneFields DEF Inv
<1> QED
  BY <1>1, NoHead, ScanOnly

LEMMA PassKeepsInv ==
  ASSUME Inv, Pass
  PROVE  Inv'
<1> DEFINE rows == [i \in Intent |-> IF i \in Expired THEN Settled(row[i], "stopped") ELSE row[i]]
           n    == Cardinality(Expired)
<1>1. UNCHANGED <<execution, applied, server>> /\ ScanUnchanged
  BY DEF Pass
<1>2. TypeOK /\ n \in Nat /\ execution \in [Task -> Execution] /\ scan.failed \in BOOLEAN
  BY Counts DEF Inv, TypeOK, ScanState
<1>3. CASE Done(FALSE) /\ UNCHANGED <<row, backlog>>
  BY <1>1, <1>2, <1>3, DoneKeepsInv
<1>4. CASE Fits(n) /\ row' = rows /\ backlog' = backlog + n /\ TakeHead(rows)
  <2>1. ASSUME NEW i \in Intent
        PROVE  row'[i] \in Row /\ (row'[i] = row[i] \/ Eased(row[i], row'[i]))
    <3>1. row[i] \in Row /\ "stopped" \in Conclusion
      BY <1>2 DEF TypeOK, Conclusion
    <3>2. CASE i \in Expired
      <4>1. row[i].phase \in Waiting /\ row[i].conclusion = "none"
        BY <3>2 DEF Inv, RowsOK, Expired, Waiting
      <4> QED
        BY <1>4, <3>1, <3>2, <4>1, RowSettled DEF Eased
    <3>3. CASE i \notin Expired
      BY <1>4, <3>1, <3>3
    <3> QED
      BY <3>2, <3>3
  <2>2. row' \in [Intent -> Row] /\ \A i \in Intent : row'[i] = row[i] \/ Eased(row[i], row'[i])
    BY <1>4, <2>1
  <2> HIDE DEF rows
  <2>3. RowsOK' /\ Fifo' /\ LiveOK' /\ AppliedOK'
    BY <1>1, <2>2, EasedRows
  <2>4. backlog' \in 0 .. MaxCount
    BY <1>2, <1>4, FitsBacklog
  <2>5. /\ scan' \in ScanState /\ scan'.pc # "idle" /\ CopyOK' /\ ReadsOK'
    <3>1. CASE Open(rows) = {}
      BY <1>2, <1>4, <3>1, DoneFields, NoHead DEF TakeHead
    <3>2. CASE Open(rows) # {}
      <4>1. PICK i \in Open(rows) :
               /\ IsHead(rows, i)
               /\ scan' = [Idle EXCEPT !.pc = "reconcile", !.failed = scan.failed, !.at = i,
                                       !.phase = rows[i].phase, !.cancelReason = rows[i].cancelReason]
        BY <1>4, <3>2 DEF TakeHead
      <4>2. /\ i \in Intent /\ row'[i] \in Row /\ rows = row'
            /\ row'[i].phase \in {"inflight", "queued", "backoff", "memory_blocked"}
        BY <1>4, <2>2, <4>1, RowFields DEF Open, Phase, Waiting
      <4>3. \A j \in Intent : j < i => row'[j].phase = "settled"
        <5>1. ASSUME NEW j \in Intent, j < i PROVE row'[j].phase \in {"absent", "settled"}
          BY <4>1, <4>2, <5>1, HostAssumption DEF IsHead, Open
        <5> QED
          BY <2>3, <4>2, <5>1 DEF Fifo
      <4>4. /\ scan' \in ScanState /\ scan'.pc = "reconcile" /\ scan'.at = i /\ scan'.phase = row'[i].phase
        <5>1. "reconcile" \in Step /\ row'[i].phase \in Phase /\ row'[i].cancelReason \in BOOLEAN
          BY <4>2, RowFields DEF Step
        <5> QED
          BY <1>2, <4>1, <4>2, <5>1, IdleFields DEF ScanState
      <4> QED
        BY <4>2, <4>3, <4>4 DEF CopyOK, ReadsOK, Holding, Acting, Waiting
    <3> QED
      BY <3>1, <3>2
  <2>6. TypeOK'
    BY <1>1, <1>2, <2>2, <2>4, <2>5 DEF TypeOK, ScanUnchanged, wakes, process, world
  <2>7. WakeOK'
    BY <1>1, <2>5, ScanComes DEF ScanUnchanged
  <2> QED
    BY <2>3, <2>5, <2>6, <2>7 DEF Inv
<1> QED
  BY <1>3, <1>4 DEF Pass, Settle

\* resumeMemory in the scan, for a head that was blocked.
LEMMA ReconcileBlockedKeepsInv ==
  ASSUME Inv, ReconcileBlocked
  PROVE  Inv'
<1> DEFINE i    == scan.at
           rows == ResumedRows(memory)
           n    == ResumeResults
<1>1. /\ UNCHANGED <<execution, applied, server>> /\ ScanUnchanged
      /\ scan.pc = "reconcile" /\ scan.phase = "memory_blocked"
  BY DEF ReconcileBlocked
<1>2. TypeOK /\ n \in Nat /\ execution \in [Task -> Execution] /\ scan \in ScanState
  BY Counts DEF Inv, TypeOK
<1>3. CASE Done(FALSE) /\ UNCHANGED <<row, backlog>>
  BY <1>1, <1>2, <1>3, DoneKeepsInv
<1>4. CASE /\ Fits(n) /\ row' = rows /\ backlog' = backlog + n
           /\ IF rows = row \/ rows[i].phase = "settled" THEN Done(rows # row)
              ELSE scan' = [scan EXCEPT !.phase = rows[i].phase, !.cancelReason = rows[i].cancelReason]
  <2>1. /\ row' \in [Intent -> Row]
        /\ \A j \in Intent : row'[j] = row[j] \/ (row[j].phase = "memory_blocked" /\ Eased(row[j], row'[j]))
    BY <1>4, ResumedEased
  <2>2. /\ RowsOK' /\ Fifo' /\ LiveOK' /\ AppliedOK'
        /\ \A j \in Intent : row[j].phase \in {"settled", "inflight"} => row'[j].phase = row[j].phase
    BY <1>1, <2>1, EasedRows
  <2>3. backlog' \in 0 .. MaxCount
    BY <1>2, <1>4, FitsBacklog
  <2>4. /\ i \in Intent /\ \A j \in Intent : j < i => row[j].phase = "settled"
        /\ row[i].phase \in Waiting \union {"settled"}
    BY <1>1 DEF Inv, CopyOK, Holding
  <2> HIDE DEF rows
  <2>5. scan' \in ScanState /\ scan'.pc # "idle" /\ CopyOK' /\ ReadsOK'
    <3>1. CASE rows = row \/ rows[i].phase = "settled"
      BY <1>2, <1>4, <3>1, DoneFields, NoHead
    <3>2. CASE ~(rows = row \/ rows[i].phase = "settled")
      <4>1. scan' = [scan EXCEPT !.phase = row'[i].phase, !.cancelReason = row'[i].cancelReason]
        BY <1>4, <3>2
      <4>2. row'[i] \in Row /\ row'[i].phase \in Phase /\ row'[i].cancelReason \in BOOLEAN
        BY <2>1, <2>4, RowFields
      <4>3. scan' \in ScanState /\ scan'.pc = "reconcile" /\ scan'.at = i /\ scan'.phase = row'[i].phase
        BY <1>1, <1>2, <4>1, <4>2 DEF ScanState
      <4>4. row'[i].phase \in Waiting
        BY <1>4, <2>1, <2>4, <3>2 DEF Eased, Waiting, Resume
      <4>5. \A j \in Intent : j < i => row'[j].phase = "settled"
        BY <2>2, <2>4
      <4> QED
        BY <2>4, <4>3, <4>4, <4>5 DEF CopyOK, ReadsOK, Holding, Acting, Waiting
    <3> QED
      BY <3>1, <3>2
  <2>6. TypeOK'
    BY <1>1, <1>2, <2>1, <2>3, <2>5 DEF TypeOK, ScanUnchanged, wakes, process, world
  <2>7. WakeOK'
    BY <1>1, <2>5, ScanComes DEF ScanUnchanged
  <2> QED
    BY <2>2, <2>5, <2>6, <2>7 DEF Inv
<1> QED
  BY <1>3, <1>4 DEF ReconcileBlocked, Settle

\* A memory notice or a recovery resumes the blocked intents, under a scan that
\* may hold one of them.
LEMMA ResumeRows ==
  ASSUME Inv, row' = ResumedRows(memory), UNCHANGED <<applied, server, scan>>
  PROVE  row' \in [Intent -> Row] /\ RowsOK' /\ Fifo' /\ LiveOK' /\ AppliedOK' /\ CopyOK' /\ ReadsOK'
<1>1. /\ row' \in [Intent -> Row]
      /\ \A j \in Intent : row'[j] = row[j] \/ (row[j].phase = "memory_blocked" /\ Eased(row[j], row'[j]))
  BY ResumedEased
<1>2. /\ RowsOK' /\ Fifo' /\ LiveOK' /\ AppliedOK'
      /\ \A j \in Intent : TaskOf(j)' = TaskOf(j)
      /\ \A j \in Intent : row[j].phase \in {"settled", "inflight"} => row'[j].phase = row[j].phase
  BY <1>1, EasedRows
<1>3. CopyOK'
  <2>1. \A j \in Intent : row[j].phase = "memory_blocked" => row'[j].phase \in Waiting \union {"settled"}
    BY <1>1 DEF Eased, Waiting, Resume
  <2>2. \A j \in Intent : row[j].phase # "memory_blocked" => row'[j].phase = row[j].phase
    BY <1>1
  <2> QED
    BY <1>2, <2>1, <2>2 DEF Inv, CopyOK, Holding, Acting, Waiting
<1>4. ReadsOK'
  BY <1>2 DEF Inv, ReadsOK, CopyOK
<1> QED
  BY <1>1, <1>2, <1>3, <1>4

-----------------------------------------------------------------------------
(* The scan wake *)

\* armScan names a moment for every open intent, except one whose task events report.
LEMMA DueOrLive ==
  ASSUME NEW r \in [Intent -> Row], NEW readyAt, NEW i \in Open(r)
  PROVE  \/ AllDue(r, readyAt) # {}
         \/ r[i].phase = "inflight" /\ <<i, r[i].generation>> \in live
<1>1. i \in Intent /\ r[i].phase \in {"memory_blocked", "backoff", "queued", "inflight"}
  BY RowFields DEF Open, Phase, Waiting
<1>2. Due(r, readyAt, i) \subseteq AllDue(r, readyAt)
  BY DEF AllDue
<1>3. CASE r[i].phase = "memory_blocked"
  <2>1. <<"overdue", i>> \in Due(r, readyAt, i)
    BY <1>3 DEF Due
  <2> QED
    BY <1>2, <2>1
<1>4. CASE r[i].phase = "backoff"
  <2>1. <<"overdue", i>> \in Due(r, readyAt, i)
    BY <1>4 DEF Due
  <2> QED
    BY <1>2, <2>1
<1>5. CASE r[i].phase = "queued"
  <2>1. <<"overdue", i>> \in Due(r, readyAt, i)
    BY <1>5 DEF Due
  <2> QED
    BY <1>2, <2>1
<1>6. CASE r[i].phase = "inflight" /\ <<i, r[i].generation>> \notin live
  <2>1. <<"soon", None>> \in Due(r, readyAt, i)
    BY <1>6 DEF Due
  <2> QED
    BY <1>2, <2>1
<1> QED
  BY <1>1, <1>3, <1>4, <1>5, <1>6

LEMMA DueMoments ==
  ASSUME NEW r \in [Intent -> Row], NEW readyAt \in SUBSET Moment
  PROVE  AllDue(r, readyAt) \subseteq Moment
<1>1. ASSUME NEW i \in Open(r)
      PROVE  Due(r, readyAt, i) \subseteq Moment
  <2>1. i \in Intent /\ r[i].phase \in {"memory_blocked", "backoff", "queued", "inflight"}
    BY RowFields DEF Open, Phase, Waiting
  <2>2. <<"overdue", i>> \in Moment /\ <<"ready", i>> \in Moment /\ <<"soon", None>> \in Moment
    BY <2>1 DEF Moment
  <2>3. CASE r[i].phase = "memory_blocked"
    BY <2>2, <2>3 DEF Due
  <2>4. CASE r[i].phase = "backoff"
    BY <2>2, <2>4 DEF Due
  <2>5. CASE r[i].phase = "queued"
    BY <2>2, <2>5 DEF Due
  <2>6. CASE r[i].phase = "inflight"
    BY <2>2, <2>6 DEF Due
  <2> QED
    BY <2>1, <2>3, <2>4, <2>5, <2>6
<1> QED
  BY <1>1 DEF AllDue

\* A wake that is due is kept or replaced, never lost.
LEMMA ArmedWake ==
  ASSUME Inv, NEW due
  PROVE  /\ Armed(due).row \in BOOLEAN /\ Armed(due).sdk \in BOOLEAN
         /\ due # {} => Armed(due).row \/ Armed(due).sdk
<1>1. CASE Kept(due)
  <2>1. Armed(due).row = wakeRow /\ Armed(due).sdk = wake /\ scanWake = due
    BY <1>1 DEF Armed, Kept
  <2> QED
    BY <2>1 DEF Inv, TypeOK, WakeOK
<1>2. CASE ~Kept(due)
  <2>1. Armed(due).row = (due # {}) /\ Armed(due).sdk = FALSE
    BY <1>2 DEF Armed
  <2> QED
    BY <2>1
<1> QED
  BY <1>1, <1>2

\* A flush, successful or not, keeps the wake that there is.
LEMMA FlushKeepsWake ==
  ASSUME Inv, NEW w, w.row \in BOOLEAN, w.sdk \in BOOLEAN, Flushed(w) \/ FlushFailed(w)
  PROVE  /\ wakeRow' \in BOOLEAN /\ wake' \in BOOLEAN /\ faults' \in 0 .. MaxFaults
         /\ w.row \/ w.sdk => wakeRow' \/ wake'
<1>1. faults' \in 0 .. MaxFaults
  BY FaultType DEF Inv, TypeOK, Flushed, FlushFailed
<1> QED
  BY <1>1 DEF Flushed, FlushFailed

LEMMA ScanStartKeepsInv ==
  ASSUME Inv, ScanStart
  PROVE  Inv'
<1>1. /\ UNCHANGED <<ledger, scanWake, server, process, world>> /\ again' = FALSE
      /\ Flushed(Current) \/ FlushFailed(Current)
      /\ scan' = [Idle EXCEPT !.pc = "pass"] \/ scan' = [Idle EXCEPT !.pc = "pass", !.failed = TRUE]
  BY DEF ScanStart
<1>2. scan' \in ScanState /\ scan'.pc = "pass"
  <2>1. "pass" \in Step /\ Idle \in ScanState
    BY IdleFields DEF Step
  <2>2. CASE scan' = [Idle EXCEPT !.pc = "pass"]
    BY <2>1, <2>2 DEF ScanState
  <2>3. CASE scan' = [Idle EXCEPT !.pc = "pass", !.failed = TRUE]
    BY <2>1, <2>3 DEF ScanState
  <2> QED
    BY <1>1, <2>2, <2>3
<1>3. /\ wakeRow' \in BOOLEAN /\ wake' \in BOOLEAN /\ faults' \in 0 .. MaxFaults
      /\ wakeRow \/ wake => wakeRow' \/ wake'
  <2>1. Current.row = wakeRow /\ Current.sdk = wake /\ wakeRow \in BOOLEAN /\ wake \in BOOLEAN
    BY DEF Current, Inv, TypeOK
  <2> QED
    BY <1>1, <2>1, FlushKeepsWake
<1>4. TypeOK'
  BY <1>1, <1>2, <1>3 DEF Inv, TypeOK, ledger, process, world
<1>5. RowsOK' /\ Fifo' /\ LiveOK' /\ AppliedOK'
  BY <1>1, SameLedger DEF ledger
<1>6. CopyOK' /\ ReadsOK'
  BY <1>2, NoHead
<1>7. WakeOK'
  BY <1>1, <1>2, <1>3 DEF Inv, WakeOK, ScanCovered
<1> QED
  BY <1>4, <1>5, <1>6, <1>7 DEF Inv

\* The scan ends with a wake for everything that no live task reports.
LEMMA ScanEndKeepsInv ==
  ASSUME Inv, ScanEnd
  PROVE  Inv'
<1> DEFINE due  == AllDue(row, Soon)
           skip == scan.failed /\ wakeRow /\ Kept(due)
<1>1. /\ scanWake' = due /\ live' = StillLive /\ scan' = Idle
      /\ \/ ~skip /\ (Flushed(Armed(due)) \/ FlushFailed(Armed(due)))
         \/ skip /\ UNCHANGED <<wakeRow, wake, faults>>
      /\ UNCHANGED <<ledger, server, again, up, events, noticed, world>>
  BY DEF ScanEnd
<1>2. row \in [Intent -> Row] /\ TypeOK /\ Soon \in SUBSET Moment
  BY DEF Inv, TypeOK, Soon, Moment
<1>3. due \subseteq Moment /\ \A i \in Open(row) : due # {} \/ (row[i].phase = "inflight" /\ TaskOf(i) \in live)
  <2>1. \A i \in Open(row) : due # {} \/ (row[i].phase = "inflight" /\ TaskOf(i) \in live)
    BY <1>2, DueOrLive DEF TaskOf
  <2> QED
    BY <1>2, <2>1, DueMoments
<1> HIDE DEF due
<1>4. /\ wakeRow' \in BOOLEAN /\ wake' \in BOOLEAN /\ faults' \in 0 .. MaxFaults
      /\ due # {} => wakeRow' \/ wake'
  <2>1. CASE skip /\ UNCHANGED <<wakeRow, wake, faults>>
    BY <1>2, <2>1 DEF TypeOK
  <2>2. CASE Flushed(Armed(due)) \/ FlushFailed(Armed(due))
    <3>1. /\ Armed(due).row \in BOOLEAN /\ Armed(due).sdk \in BOOLEAN
          /\ due # {} => Armed(due).row \/ Armed(due).sdk
      BY ArmedWake
    <3> QED
      BY <2>2, <3>1, FlushKeepsWake
  <2> QED
    BY <1>1, <2>1, <2>2
<1>5. TypeOK'
  BY <1>1, <1>2, <1>3, <1>4, IdleFields DEF TypeOK, ledger, world, StillLive
<1>6. RowsOK' /\ Fifo' /\ LiveOK' /\ AppliedOK'
  BY <1>1, SameLedger DEF ledger
<1>7. CopyOK' /\ ReadsOK'
  BY <1>1, IdleFields, NoHead
<1>8. WakeOK'
  <2>1. ASSUME NEW i \in Open(row), row[i].phase = "inflight", TaskOf(i) \in live
        PROVE  TaskOf(i) \in live'
    BY <1>1, <1>2, <2>1, TaskPairs DEF StillLive, Open
  <2>2. Open(row)' = Open(row) /\ \A i \in Intent : TaskOf(i)' = TaskOf(i)
    BY <1>1 DEF ledger, Open, TaskOf
  <2> QED
    BY <1>1, <1>3, <1>4, <2>1, <2>2 DEF WakeOK, ScanCovered, ledger, Open
<1> QED
  BY <1>5, <1>6, <1>7, <1>8 DEF Inv

LEMMA MemoryChangeKeepsInv ==
  ASSUME Inv, MemoryChange
  PROVE  Inv'
<1> DEFINE rows == ResumedRows(memory)
           due  == AllDue(rows, Soon)
<1>1. UNCHANGED <<execution, applied, server, scan, again, up, live, events, world, faults>>
  BY DEF MemoryChange
<1>2. TypeOK /\ ResumeResults \in Nat /\ Soon \in SUBSET Moment
  BY Counts DEF Inv, Soon, Moment
<1>3. CASE ~Fits(ResumeResults) /\ noticed' = "no" /\ UNCHANGED <<row, backlog, wakes>>
  <2>1. TypeOK'
    BY <1>1, <1>2, <1>3 DEF TypeOK, wakes, world
  <2>2. WakeOK'
    BY <1>1, <1>3 DEF Inv, WakeOK, ScanCovered, Open, TaskOf, wakes
  <2> QED
    BY <1>1, <1>3, <2>1, <2>2, OutsideScan
<1>4. CASE /\ Fits(ResumeResults)
           /\ row' = rows /\ backlog' = backlog + ResumeResults
           /\ scanWake' = due /\ wakeRow' = Armed(due).row /\ wake' = Armed(due).sdk
           /\ noticed' = "flush"
  <2>1. row' \in [Intent -> Row] /\ RowsOK' /\ Fifo' /\ LiveOK' /\ AppliedOK' /\ CopyOK' /\ ReadsOK'
    BY <1>1, <1>4, ResumeRows
  <2>2. due = AllDue(row', Soon)
    BY <1>4
  <2> HIDE DEF rows, due
  <2>3. due \subseteq Moment /\ \A i \in Open(row') : due # {} \/ (row'[i].phase = "inflight" /\ <<i, row'[i].generation>> \in live)
    BY <1>2, <2>1, <2>2, DueOrLive, DueMoments
  <2>4. wakeRow' \in BOOLEAN /\ wake' \in BOOLEAN /\ (due # {} => wakeRow' \/ wake')
    BY <1>4, ArmedWake
  <2>5. backlog' \in 0 .. MaxCount
    BY <1>2, <1>4, FitsBacklog
  <2>6. TypeOK'
    BY <1>1, <1>2, <1>4, <2>1, <2>3, <2>4, <2>5 DEF TypeOK, world
  <2>7. WakeOK'
    BY <1>1, <1>4, <2>3, <2>4 DEF WakeOK, ScanCovered, Open, TaskOf
  <2> QED
    BY <2>1, <2>6, <2>7 DEF Inv
<1> QED
  BY <1>3, <1>4 DEF MemoryChange

LEMMA NoticeFlushKeepsInv ==
  ASSUME Inv, NoticeFlush
  PROVE  Inv'
<1>1. /\ UNCHANGED <<ledger, server, scan, again, up, live, events, world>> /\ noticed' = "no"
  BY DEF NoticeFlush
<1>2. TypeOK /\ row \in [Intent -> Row]
  BY DEF Inv, TypeOK
<1>3. CASE Flushed(Current) /\ UNCHANGED scanWake
  <2>1. /\ wakeRow' \in BOOLEAN /\ wake' \in BOOLEAN /\ faults' \in 0 .. MaxFaults
        /\ wakeRow \/ wake => wakeRow' \/ wake'
    <3>1. Current.row = wakeRow /\ Current.sdk = wake /\ wakeRow \in BOOLEAN /\ wake \in BOOLEAN
      BY <1>2 DEF Current, TypeOK
    <3> QED
      BY <1>3, <3>1, FlushKeepsWake
  <2>2. TypeOK'
    BY <1>1, <1>2, <1>3, <2>1 DEF TypeOK, ledger, world
  <2>3. WakeOK'
    BY <1>1, <1>3, <2>1 DEF Inv, WakeOK, ScanCovered, Open, TaskOf, ledger
  <2> QED
    BY <1>1, <2>2, <2>3, OutsideScan DEF ledger
<1>4. CASE /\ wakeRow /\ Fault
           /\ scanWake' = AllDue(row, {})
           /\ \/ wakeRow' = FALSE /\ wake' = (scanWake' # {})
              \/ wakeRow' = (scanWake' # {}) /\ wake' = FALSE
  <2>1. scanWake' \subseteq Moment /\ \A i \in Open(row) : scanWake' # {} \/ (row[i].phase = "inflight" /\ TaskOf(i) \in live)
    BY <1>2, <1>4, DueOrLive, DueMoments DEF TaskOf
  <2>2. faults' \in 0 .. MaxFaults
    BY <1>2, <1>4, FaultType
  <2>3. TypeOK'
    BY <1>1, <1>2, <1>4, <2>1, <2>2 DEF TypeOK, ledger, world
  <2>4. WakeOK'
    BY <1>1, <1>4, <2>1 DEF WakeOK, ScanCovered, Open, TaskOf, ledger
  <2> QED
    BY <1>1, <2>3, <2>4, OutsideScan DEF ledger
<1> QED
  BY <1>3, <1>4 DEF NoticeFlush

LEMMA RecoverKeepsInv ==
  ASSUME Inv, Recover
  PROVE  Inv'
<1> USE DEF Recover, world, Drain
<1>1. row' \in [Intent -> Row] /\ RowsOK' /\ Fifo' /\ LiveOK' /\ AppliedOK' /\ CopyOK' /\ ReadsOK'
  BY ResumeRows
<1>2. backlog' \in 0 .. MaxCount
  BY Counts, FitsBacklog DEF Inv
<1>3. TypeOK'
  BY <1>1, <1>2 DEF Inv, TypeOK
<1>4. WakeOK'
  BY DEF WakeOK, ScanCovered
<1> QED
  BY <1>1, <1>3, <1>4 DEF Inv

-----------------------------------------------------------------------------
(* The reconcile of a head *)

\* An intent settles when its task is not live, with its outcome if it succeeded.
LEMMA SettledRow ==
  ASSUME Inv, NEW i \in Intent, NEW c \in {"succeeded", "failed", "stopped"},
         row' = [row EXCEPT ![i] = Settled(row[i], c)], row[i].phase \notin {"absent", "settled"},
         UNCHANGED server, ~Live(TaskOf(i)),
         applied' = IF c = "succeeded" THEN applied \union {TaskOf(i)} ELSE applied
  PROVE  row' \in [Intent -> Row] /\ applied' \subseteq Task /\ RowsOK' /\ Fifo' /\ LiveOK' /\ AppliedOK'
<1>1. row[i] \in Row /\ row \in [Intent -> Row] /\ TypeOK /\ c \in Conclusion /\ applied \subseteq Task
  BY DEF Inv, TypeOK, Conclusion
<1>2. row[i].conclusion = "none"
  BY DEF Inv, RowsOK
<1>3. /\ row' \in [Intent -> Row] /\ \A j \in Intent \ {i} : row'[j] = row[j]
      /\ row'[i].phase = "settled" /\ row'[i].conclusion = c
      /\ row'[i].generation = row[i].generation /\ row'[i].attempts = row[i].attempts
  BY <1>1, <1>2, RowSettled
<1>4. RowsOK' /\ Fifo'
  BY <1>3 DEF Inv, RowsOK, Fifo
<1>5. \A j \in Intent : TaskOf(j)' = TaskOf(j)
  BY <1>3 DEF TaskOf
<1>6. LiveOK'
  <2>1. ASSUME NEW t \in Task, Live(t)
        PROVE  t[1] \in Intent \ {i} /\ row'[t[1]].phase = "inflight" /\ t = TaskOf(t[1])
    BY <1>1, <1>3, <2>1, TaskPairs DEF Inv, LiveOK
  <2> QED
    BY <1>5, <2>1 DEF LiveOK, Live
<1>7. applied' \subseteq Task
  BY <1>1, TaskPairs
<1>8. AppliedOK'
  <2>1. ASSUME NEW t \in applied'
        PROVE  t[1] \in Intent /\ t = TaskOf(t[1]) /\ row'[t[1]].conclusion = "succeeded"
    <3>1. CASE t \in applied
      BY <1>1, <1>2, <1>3, <3>1, TaskPairs DEF Inv, AppliedOK
    <3>2. CASE t \notin applied
      BY <1>1, <1>3, <3>2, TaskPairs
    <3> QED
      BY <3>1, <3>2
  <2>2. ASSUME NEW j \in Intent, row'[j].conclusion = "succeeded"
        PROVE  TaskOf(j) \in applied'
    BY <1>3, <2>2 DEF Inv, AppliedOK
  <2> QED
    BY <1>5, <2>1, <2>2 DEF AppliedOK
<1> QED
  BY <1>3, <1>4, <1>6, <1>7, <1>8

\* settle, in a step of the scan, without an outcome.
LEMMA SettleAtKeepsInv ==
  ASSUME Inv, NEW i \in Intent, NEW c \in {"failed", "stopped"}, NEW n \in Nat, SettleAt(i, c, n),
         row[i].phase \notin {"absent", "settled"}, ~Live(TaskOf(i)),
         UNCHANGED <<applied, server>>, execution' \in [Task -> Execution], ScanUnchanged
  PROVE  Inv'
<1>1. CASE Done(FALSE) /\ UNCHANGED <<row, backlog>>
  BY <1>1, DoneKeepsInv
<1>2. CASE /\ Fits(n) /\ row' = [row EXCEPT ![i] = Settled(row[i], c)]
           /\ backlog' = backlog + n /\ Done(TRUE)
  <2>1. row' \in [Intent -> Row] /\ applied' \subseteq Task /\ RowsOK' /\ Fifo' /\ LiveOK' /\ AppliedOK'
    BY <1>2, SettledRow
  <2>2. scan' \in ScanState /\ scan'.pc \in {"pass", "arm"} /\ backlog' \in 0 .. MaxCount
    BY <1>2, DoneFields, FitsBacklog DEF Inv
  <2>3. CopyOK' /\ ReadsOK' /\ WakeOK'
    BY <2>2, NoHead, ScanComes DEF ScanUnchanged
  <2>4. TypeOK'
    BY <2>1, <2>2 DEF Inv, TypeOK, ScanUnchanged, wakes, process, world
  <2> QED
    BY <2>1, <2>3, <2>4 DEF Inv
<1> QED
  BY <1>1, <1>2 DEF SettleAt, Settle

\* The scan's head in a step that reads or calls: in flight, and its task's.
LEMMA HeadInFlight ==
  ASSUME Inv, scan.pc \in Acting
  PROVE  /\ scan.at \in Intent /\ row[scan.at].phase = "inflight" /\ TaskOf(scan.at) \in Task
         /\ server[TaskOf(scan.at)] \in Server /\ scan \in ScanState /\ scan.changed \in BOOLEAN
         /\ \A j \in Intent : j < scan.at => row[j].phase = "settled"
<1>1. TypeOK /\ scan.at \in Intent
  BY DEF Inv, CopyOK, Holding
<1>2. TaskOf(scan.at) \in Task
  BY <1>1, TaskPairs
<1>3. server[TaskOf(scan.at)] \in Server /\ scan \in ScanState /\ scan.changed \in BOOLEAN
  BY <1>1, <1>2 DEF TypeOK, ScanState
<1> QED
  BY <1>1, <1>2, <1>3 DEF Inv, CopyOK, Holding

\* begin: the row decides, and only a waiting head goes in flight.
LEMMA BeginKeepsInv ==
  ASSUME Inv, Begin
  PROVE  Inv'
<1> DEFINE i    == scan.at
           next == Begun(row[i])
           task == <<i, next.generation>>
<1>1. UNCHANGED <<applied, server>> /\ ScanUnchanged /\ scan.pc = "reconcile"
  BY DEF Begin
<1>2. /\ TypeOK /\ i \in Intent /\ row \in [Intent -> Row] /\ row[i] \in Row /\ scan \in ScanState
      /\ execution \in [Task -> Execution]
      /\ \A j \in Intent : j < i => row[j].phase = "settled"
  BY <1>1 DEF Inv, TypeOK, CopyOK, Holding
<1>3. CASE ~CanBegin(i) /\ Done(row[i].phase = "settled") /\ UNCHANGED <<row, backlog, execution>>
  <2>1. (row[i].phase = "settled") \in BOOLEAN
    OBVIOUS
  <2> QED
    BY <1>1, <1>2, <1>3, <2>1, DoneKeepsInv
<1>4. ASSUME CanBegin(i)
      PROVE  /\ row[i].phase \in {"queued", "backoff"} /\ row[i].conclusion = "none" /\ ~Live(TaskOf(i))
             /\ row[i].attempts < 3 /\ (row[i].phase = "backoff" => row[i].generation < 2)
  <2>1. row[i].phase \in {"queued", "backoff"}
    BY <1>4 DEF CanBegin
  <2>2. row[i].generation \in 0 .. 2 /\ row[i].attempts \in 0 .. 3
    BY <1>2, RowFields
  <2>3. ~Live(TaskOf(i))
    BY <1>2, <2>1, TaskPairs DEF Inv, LiveOK
  <2> QED
    BY <1>2, <2>1, <2>2, <2>3 DEF Inv, RowsOK
<1>5. CASE CanBegin(i) /\ SettleAt(i, "failed", 1) /\ UNCHANGED execution
  BY <1>1, <1>2, <1>4, <1>5, SettleAtKeepsInv
<1>6. CASE /\ CanBegin(i) /\ row' = [row EXCEPT ![i].phase = "memory_blocked"] /\ Done(FALSE)
           /\ UNCHANGED <<backlog, execution>>
  <2>1. row' = [row EXCEPT ![i] = [row[i] EXCEPT !.phase = "memory_blocked"]] /\ "memory_blocked" \in Phase
    BY <1>2, <1>6 DEF Phase, Waiting
  <2>2. /\ row' \in [Intent -> Row] /\ \A j \in Intent \ {i} : row'[j] = row[j]
        /\ row'[i].phase = "memory_blocked" /\ row'[i].generation = row[i].generation
        /\ row'[i].attempts = row[i].attempts /\ row'[i].conclusion = row[i].conclusion
    BY <1>2, <2>1, RowPhase
  <2>3. \A j \in Intent : TaskOf(j)' = TaskOf(j) /\ row'[j].conclusion = row[j].conclusion
    BY <2>2 DEF TaskOf
  <2>4. RowsOK' /\ Fifo'
    BY <1>4, <1>6, <2>2 DEF Inv, RowsOK, Fifo
  <2>5. LiveOK'
    BY <1>1, <1>2, <1>4, <1>6, <2>2, <2>3, TaskPairs DEF Inv, LiveOK, Live
  <2>6. AppliedOK'
    <3>1. \A t \in applied : t[1] \in Intent
      BY <1>2, TaskPairs DEF TypeOK
    <3> QED
      BY <1>1, <2>3, <3>1 DEF Inv, AppliedOK
  <2>7. scan' \in ScanState /\ scan'.pc \in {"pass", "arm"}
    BY <1>2, <1>6, DoneFields
  <2>8. CopyOK' /\ ReadsOK' /\ WakeOK'
    BY <1>1, <2>7, NoHead, ScanComes DEF ScanUnchanged
  <2>9. TypeOK'
    BY <1>1, <1>2, <1>6, <2>2, <2>7 DEF TypeOK, ScanUnchanged, wakes, process, world
  <2> QED
    BY <2>4, <2>5, <2>6, <2>8, <2>9 DEF Inv
<1>7. CASE /\ CanBegin(i) /\ row' = [row EXCEPT ![i] = next]
           /\ execution' = [execution EXCEPT ![task].submission = "uncertain"]
           /\ scan' = [scan EXCEPT !.pc = "submit", !.changed = TRUE]
           /\ UNCHANGED backlog
  <2>1. /\ next \in Row /\ next.phase = "inflight" /\ next.attempts = row[i].attempts + 1
        /\ next.conclusion = row[i].conclusion
        /\ next.generation = IF row[i].phase = "backoff" THEN row[i].generation + 1 ELSE row[i].generation
    BY <1>2, <1>4, <1>7, RowBegun
  <2> HIDE DEF next
  <2>2. row' \in [Intent -> Row] /\ row'[i] = next /\ \A j \in Intent \ {i} : row'[j] = row[j]
    BY <1>2, <1>7, <2>1
  <2>3. RowsOK'
    <3>1. row[i].generation \in 0 .. 2 /\ row[i].attempts \in 0 .. 3
      BY <1>2, RowFields
    <3>2. /\ next.conclusion = "none" /\ next.attempts # 0 /\ next.attempts = next.generation + 1
      BY <1>2, <1>4, <1>7, <2>1, <3>1 DEF Inv, RowsOK
    <3> QED
      BY <2>1, <2>2, <3>2 DEF Inv, RowsOK
  <2>4. Fifo'
    <3>1. ASSUME NEW j \in Intent, NEW k \in Intent, k < j
          PROVE  /\ row'[j].phase # "absent" => row'[k].phase # "absent"
                 /\ row'[j].phase = "inflight" => row'[k].phase = "settled"
      <4>1. CASE j = i
        BY <1>2, <2>2, <3>1, <4>1, HostAssumption
      <4>2. CASE k = i
        <5>1. row[j].phase # "inflight"
          BY <1>4, <1>7, <3>1, <4>2 DEF Inv, Fifo
        <5>2. j # i
          BY <3>1, <4>2, HostAssumption
        <5> QED
          BY <2>1, <2>2, <4>2, <5>1, <5>2
      <4>3. CASE j # i /\ k # i
        BY <2>2, <3>1, <4>3 DEF Inv, Fifo
      <4> QED
        BY <4>1, <4>2, <4>3
    <3> QED
      BY <3>1 DEF Fifo
  <2>5. LiveOK'
    <3>1. ASSUME NEW t \in Task, Live(t)
          PROVE  t[1] \in Intent \ {i} /\ row[t[1]].phase = "inflight" /\ t = TaskOf(t[1])
      BY <1>2, <1>4, <1>7, <3>1, TaskPairs DEF Inv, LiveOK
    <3>2. \A j \in Intent \ {i} : TaskOf(j)' = TaskOf(j)
      BY <2>2 DEF TaskOf
    <3> QED
      BY <1>1, <2>2, <3>1, <3>2 DEF LiveOK, Live
  <2>6. AppliedOK'
    <3>1. \A t \in applied : t[1] \in Intent \ {i} /\ t = TaskOf(t[1]) /\ row[t[1]].conclusion = "succeeded"
      BY <1>2, <1>4, <1>7, TaskPairs DEF Inv, TypeOK, AppliedOK
    <3>2. \A j \in Intent \ {i} : TaskOf(j)' = TaskOf(j)
      BY <2>2 DEF TaskOf
    <3>3. row'[i].conclusion # "succeeded"
      BY <1>4, <1>7, <2>1, <2>2
    <3> QED
      BY <1>1, <2>2, <3>1, <3>2, <3>3 DEF Inv, AppliedOK
  <2>7. scan' \in ScanState /\ scan'.pc = "submit" /\ scan'.at = i
    <3>1. "submit" \in Step
      BY DEF Step
    <3> QED
      BY <1>2, <1>7, <3>1 DEF ScanState
  <2>8. CopyOK' /\ ReadsOK'
    <3>1. \A j \in Intent : j < i => row'[j].phase = "settled"
      BY <1>2, <2>2, HostAssumption
    <3> QED
      BY <1>2, <2>1, <2>2, <2>7, <3>1 DEF CopyOK, ReadsOK, Holding, Acting
  <2>9. WakeOK'
    BY <1>1, <2>7, ScanComes DEF ScanUnchanged
  <2>10. execution' \in [Task -> Execution]
    <3>1. task \in Task
      BY <1>2, <2>1, RowFields DEF Task, Generation
    <3> QED
      BY <1>2, <1>7, <3>1 DEF Execution
  <2>11. TypeOK'
    BY <1>1, <1>2, <1>7, <2>2, <2>7, <2>10 DEF TypeOK, ScanUnchanged, wakes, process, world
  <2> QED
    BY <2>3, <2>4, <2>5, <2>6, <2>8, <2>9, <2>11 DEF Inv
<1> QED
  BY <1>3, <1>5, <1>6, <1>7 DEF Begin

\* A step of the scan from one call to the next, on a head that stays in flight.
LEMMA HeadStays ==
  ASSUME Inv, scan.pc \in Holding, row[scan.at].phase = "inflight", scan'.at = scan.at, scan'.pc \in Acting,
         \A j \in Intent : row'[j].phase = row[j].phase
  PROVE  CopyOK'
BY DEF Inv, CopyOK, Holding, Acting

\* deviceTerminal
LEMMA ReadTerminalKeepsInv ==
  ASSUME Inv, ReadTerminal
  PROVE  Inv'
<1> DEFINE i    == scan.at
           t    == TaskOf(i)
           late == Unstarted(t)
<1>1. /\ UNCHANGED <<execution, applied, backlog, server>> /\ ScanUnchanged
      /\ scan.pc = "reconcile" /\ scan.phase = "inflight"
      /\ row' = IF late THEN [row EXCEPT ![i].cancelReason = TRUE] ELSE row
      /\ scan' = [scan EXCEPT !.pc = "attempt", !.terminal = server[t].terminal, !.cancelReason = @ \/ late]
  BY DEF ReadTerminal
<1>2. TypeOK /\ i \in Intent /\ t \in Task /\ row[i].phase = "inflight" /\ scan \in ScanState /\ server[t] \in Server
  <2>1. TypeOK /\ i \in Intent /\ row[i].phase = "inflight" /\ scan \in ScanState
    BY <1>1 DEF Inv, CopyOK, Holding, TypeOK
  <2> QED
    BY <2>1, TaskPairs DEF TypeOK
<1>3. /\ row' \in [Intent -> Row] /\ RowsOK' /\ Fifo' /\ LiveOK' /\ AppliedOK'
      /\ \A j \in Intent : row'[j].phase = row[j].phase /\ TaskOf(j)' = TaskOf(j)
  <2>1. CASE late
    BY <1>1, <1>2, <2>1, MarkedRows
  <2>2. CASE ~late
    BY <1>1, <1>2, <2>2, SameLedger DEF TypeOK, TaskOf
  <2> QED
    BY <2>1, <2>2
<1> HIDE DEF late, t
<1>4. /\ scan' \in ScanState /\ scan'.pc = "attempt" /\ scan'.at = i /\ scan'.terminal = server[t].terminal
  <2>1. "attempt" \in Step /\ server[t].terminal \in {"none"} \union Terminal
    BY <1>2, ServerFields DEF Step
  <2>2. (scan.cancelReason \/ late) \in BOOLEAN
    OBVIOUS
  <2> QED
    BY <1>1, <1>2, <2>1, <2>2 DEF ScanState
<1>5. CopyOK'
  BY <1>1, <1>2, <1>3, <1>4, HeadStays DEF Holding, Acting
<1>6. ReadsOK'
  BY <1>1, <1>2, <1>3, <1>4 DEF ReadsOK, t
<1>7. WakeOK'
  BY <1>1, <1>4, ScanComes DEF ScanUnchanged
<1>8. TypeOK'
  BY <1>1, <1>2, <1>3, <1>4 DEF TypeOK, ScanUnchanged, wakes, process, world
<1> QED
  BY <1>3, <1>5, <1>6, <1>7, <1>8 DEF Inv

\* What follows the reads, given that they still hold.
LEMMA ObserveKeepsInv ==
  ASSUME Inv, scan.pc \in Acting, NEW terminal \in {"none"} \union Terminal, NEW attempt \in Attempt,
         Observe(terminal, attempt), UNCHANGED <<applied, server>>, ScanUnchanged,
         terminal # "none" => server[TaskOf(scan.at)].terminal = terminal,
         Quiet(terminal, attempt) => ~Live(TaskOf(scan.at))
  PROVE  Inv'
<1> DEFINE i      == scan.at
           t      == TaskOf(i)
           resend == ~attempt.cancellation /\ ~scan.cancelReason /\ execution[t].submission # "delivered"
<1>1. /\ i \in Intent /\ row[i].phase = "inflight" /\ t \in Task /\ scan \in ScanState
      /\ TypeOK /\ execution \in [Task -> Execution]
  BY HeadInFlight DEF Inv, TypeOK
<1>2. execution' \in [Task -> Execution]
  <2>1. execution' = [execution EXCEPT ![t].started = @ \/ attempt.claimed]
    BY DEF Observe
  <2>2. (execution[t].started \/ attempt.claimed) \in BOOLEAN
    OBVIOUS
  <2> QED
    BY <1>1, <2>1, <2>2 DEF Execution
<1>3. CASE Quiet(terminal, attempt) /\ SettleAt(i, "stopped", 1)
  BY <1>1, <1>2, <1>3, SettleAtKeepsInv
<1>4. CASE /\ ~Quiet(terminal, attempt) /\ UNCHANGED <<row, backlog>>
           /\ \/ terminal # "none" /\ scan' = [scan EXCEPT !.pc = "authority", !.terminal = terminal, !.attempt = attempt]
              \/ scan' = [scan EXCEPT !.pc = "submit"]
              \/ Done(FALSE)
  <2>1. CASE terminal # "none" /\ scan' = [scan EXCEPT !.pc = "authority", !.terminal = terminal, !.attempt = attempt]
    <3>1. "authority" \in Step
      BY DEF Step
    <3>2. scan' \in ScanState /\ scan'.pc = "authority" /\ scan'.at = i /\ scan'.terminal = terminal
      BY <1>1, <2>1, <3>1 DEF ScanState
    <3>3. CopyOK'
      BY <1>1, <1>4, <3>2, HeadStays DEF Holding, Acting
    <3>4. ReadsOK'
      BY <1>4, <2>1, <3>2 DEF ReadsOK, TaskOf
    <3> QED
      BY <1>2, <1>4, <3>2, <3>3, <3>4, ScanOnly
  <2>2. CASE scan' = [scan EXCEPT !.pc = "submit"]
    <3>1. "submit" \in Step
      BY DEF Step
    <3>2. scan' \in ScanState /\ scan'.pc = "submit" /\ scan'.at = i
      BY <1>1, <2>2, <3>1, ScanMoves
    <3>3. CopyOK' /\ ReadsOK'
      BY <1>1, <1>4, <3>2, HeadStays DEF Holding, Acting, ReadsOK
    <3> QED
      BY <1>2, <1>4, <3>2, <3>3, ScanOnly
  <2>3. CASE Done(FALSE)
    BY <1>2, <1>4, <2>3, DoneKeepsInv
  <2> QED
    BY <1>4, <2>1, <2>2, <2>3
<1>5. \/ Quiet(terminal, attempt) /\ SettleAt(i, "stopped", 1)
      \/ /\ ~Quiet(terminal, attempt) /\ UNCHANGED <<row, backlog>>
         /\ CASE terminal # "none" -> scan' = [scan EXCEPT !.pc = "authority", !.terminal = terminal, !.attempt = attempt]
              [] terminal = "none" /\ resend -> scan' = [scan EXCEPT !.pc = "submit"]
              [] OTHER -> Done(FALSE)
  BY DEF Observe
<1> HIDE DEF resend
<1> QED
  BY <1>3, <1>4, <1>5

LEMMA ReadAttemptKeepsInv ==
  ASSUME Inv, ReadAttempt
  PROVE  Inv'
<1> DEFINE i    == scan.at
           t    == TaskOf(i)
           stop == scan.cancelReason /\ scan.terminal = "none"
<1>1. scan.pc = "attempt" /\ UNCHANGED <<applied, server>> /\ ScanUnchanged
  BY DEF ReadAttempt
<1>2. /\ i \in Intent /\ row[i].phase = "inflight" /\ t \in Task /\ server[t] \in Server /\ scan \in ScanState
      /\ TypeOK /\ execution \in [Task -> Execution]
  BY <1>1, HeadInFlight DEF Inv, TypeOK, Acting
<1>3. CASE ~stop /\ Observe(scan.terminal, AttemptOf(t))
  <2>1. scan.terminal \in {"none"} \union Terminal /\ AttemptOf(t) \in Attempt
    BY <1>2, ServerFields DEF ScanState, AttemptOf, Attempt
  <2>2. scan.terminal # "none" => server[t].terminal = scan.terminal
    BY <1>1 DEF Inv, ReadsOK, Holding, Acting
  <2>3. Quiet(scan.terminal, AttemptOf(t)) => ~Live(t)
    BY <1>2, ServerFields DEF Quiet, AttemptOf, Live
  <2> QED
    BY <1>1, <1>3, <2>1, <2>2, <2>3, ObserveKeepsInv DEF Acting
<1>4. CASE Unsent(t) /\ SettleAt(i, "stopped", 1) /\ UNCHANGED execution
  <2>1. ~Live(t)
    BY <1>4 DEF Unsent, Live
  <2> QED
    BY <1>1, <1>2, <1>4, <2>1, SettleAtKeepsInv
<1>5. CASE scan' = [scan EXCEPT !.pc = "cancel"] /\ UNCHANGED <<row, backlog, execution>>
  <2>1. "cancel" \in Step
    BY DEF Step
  <2>2. scan' \in ScanState /\ scan'.pc = "cancel" /\ scan'.at = i
    BY <1>2, <1>5, <2>1, ScanMoves
  <2>3. CopyOK' /\ ReadsOK'
    BY <1>1, <1>2, <1>5, <2>2, HeadStays DEF Holding, Acting, ReadsOK
  <2> QED
    BY <1>1, <1>2, <1>5, <2>2, <2>3, ScanOnly
<1> QED
  BY <1>3, <1>4, <1>5 DEF ReadAttempt

\* tasks.cancel: the cancellation that is read back stays.
LEMMA CancelTaskKeepsInv ==
  ASSUME Inv, CancelTask
  PROVE  Inv'
<1> DEFINE i == scan.at
           t == TaskOf(i)
           s == server[t]
           a == [claimed |-> server'[t].claimed, cancellation |-> server'[t].cancellation]
<1>1. /\ scan.pc = "cancel" /\ server' = [server EXCEPT ![t] = Cancelled(s)]
      /\ scan' = [scan EXCEPT !.pc = "terminal", !.attempt = a]
      /\ UNCHANGED ledger /\ ScanUnchanged
  BY HeadInFlight DEF CancelTask, Acting, Inv, TypeOK
<1>2. /\ i \in Intent /\ row[i].phase = "inflight" /\ t \in Task /\ s \in Server /\ scan \in ScanState
      /\ TypeOK /\ server \in [Task -> Server]
  BY <1>1, HeadInFlight DEF Inv, TypeOK, Acting
<1> HIDE DEF t
<1>3. /\ Cancelled(s) \in Server /\ Cancelled(s).attempt = s.attempt /\ Cancelled(s).terminal = s.terminal
      /\ Cancelled(s).claimed = s.claimed /\ (s.cancellation => Cancelled(s).cancellation)
  BY <1>2 DEF Cancelled, Server
<1>4. /\ server' \in [Task -> Server] /\ server'[t] = Cancelled(s) /\ \A u \in Task \ {t} : server'[u] = server[u]
  BY <1>1, <1>2, <1>3
<1>5. /\ scan' \in ScanState /\ scan'.pc = "terminal" /\ scan'.at = i /\ scan'.attempt = a
  <2>1. "terminal" \in Step /\ a \in Attempt
    BY <1>3, <1>4, ServerFields DEF Step, Attempt
  <2> HIDE DEF a
  <2> QED
    BY <1>1, <1>2, <2>1 DEF ScanState
<1> USE DEF ledger
<1>6. RowsOK' /\ Fifo' /\ AppliedOK'
  BY <1>1 DEF Inv, RowsOK, Fifo, AppliedOK, TaskOf
<1>7. LiveOK'
  <2>1. \A u \in Task : Live(u)' => Live(u)
    BY <1>3, <1>4 DEF Live
  <2> QED
    BY <1>1, <2>1 DEF Inv, LiveOK, TaskOf
<1>8. CopyOK'
  BY <1>1, <1>2, <1>5, HeadStays DEF Holding, Acting
<1>9. ReadsOK'
  <2>1. TaskOf(i)' = t
    BY <1>1 DEF t, TaskOf
  <2> QED
    BY <1>5, <2>1 DEF ReadsOK
<1>10. WakeOK'
  BY <1>1, <1>5, ScanComes DEF ScanUnchanged
<1>11. TypeOK'
  BY <1>1, <1>2, <1>4, <1>5 DEF TypeOK, ScanUnchanged, wakes, process, world
<1> QED
  BY <1>6, <1>7, <1>8, <1>9, <1>10, <1>11 DEF Inv

LEMMA RereadTerminalKeepsInv ==
  ASSUME Inv, RereadTerminal
  PROVE  Inv'
<1> DEFINE t == TaskOf(scan.at)
<1>1. /\ scan.pc = "terminal" /\ Observe(server[t].terminal, scan.attempt)
      /\ UNCHANGED <<applied, server>> /\ ScanUnchanged
  BY DEF RereadTerminal
<1>2. t \in Task /\ server[t] \in Server /\ scan \in ScanState
  BY <1>1, HeadInFlight DEF Acting
<1>3. server[t].terminal \in {"none"} \union Terminal /\ scan.attempt \in Attempt
  BY <1>2, ServerFields DEF ScanState
<1>4. Quiet(server[t].terminal, scan.attempt) => ~Live(t)
  BY <1>1 DEF Inv, ReadsOK, Holding, Acting, Quiet, Live
<1> QED
  BY <1>1, <1>3, <1>4, ObserveKeepsInv DEF Acting

\* The last read of the attempt, before finish.
LEMMA ReadAuthorityKeepsInv ==
  ASSUME Inv, ReadAuthority
  PROVE  Inv'
<1> DEFINE t == TaskOf(scan.at)
<1>1. /\ scan.pc = "authority" /\ scan' = [scan EXCEPT !.pc = "finish", !.attempt = AttemptOf(t)]
      /\ UNCHANGED <<ledger, server>> /\ ScanUnchanged
  BY DEF ReadAuthority, Authority
<1>2. t \in Task /\ server[t] \in Server /\ scan \in ScanState /\ row[scan.at].phase = "inflight"
  BY <1>1, HeadInFlight DEF Acting
<1>3. "finish" \in Step /\ AttemptOf(t) \in Attempt
  BY <1>2, ServerFields DEF Step, AttemptOf, Attempt
<1>4. scan' \in ScanState /\ scan'.pc = "finish" /\ scan'.at = scan.at /\ scan'.terminal = scan.terminal
  BY <1>1, <1>2, <1>3 DEF ScanState
<1>5. CopyOK'
  BY <1>1, <1>2, <1>4, HeadStays DEF Holding, Acting, ledger
<1>6. ReadsOK'
  BY <1>1, <1>4 DEF Inv, ReadsOK, TaskOf, Holding, Acting, ledger
<1>7. execution' \in [Task -> Execution]
  BY <1>1 DEF Inv, TypeOK, ledger
<1> QED
  BY <1>1, <1>4, <1>5, <1>6, <1>7, ScanOnly DEF ledger

\* A head in backoff that is not ready, an answer that is recorded, a call that
\* throws: the reconcile ends.
LEMMA EndKeepsInv ==
  ASSUME Inv, ReconcileEarly \/ Sent \/ CallFails
  PROVE  Inv'
<1>1. TypeOK /\ execution \in [Task -> Execution] /\ scan.changed \in BOOLEAN
  BY DEF Inv, TypeOK, ScanState
<1>2. CASE ReconcileEarly
  BY <1>1, <1>2, DoneKeepsInv DEF ReconcileEarly, ledger
<1>3. CASE Sent
  <2>1. execution' \in [Task -> Execution]
    BY <1>1, <1>3 DEF Sent, Execution
  <2> QED
    BY <1>1, <1>3, <2>1, DoneKeepsInv DEF Sent
<1>4. CASE CallFails
  <2>1. /\ Fault /\ Done(FALSE) /\ UNCHANGED <<ledger, wakes, server, again, process, world>>
    BY <1>4 DEF CallFails
  <2>2. scan' \in ScanState /\ scan'.pc \in {"pass", "arm"} /\ faults' \in 0 .. MaxFaults
    BY <1>1, <2>1, DoneFields, FaultType
  <2>3. CopyOK' /\ ReadsOK' /\ WakeOK'
    BY <2>1, <2>2, NoHead, ScanComes
  <2>4. RowsOK' /\ Fifo' /\ LiveOK' /\ AppliedOK'
    BY <2>1, SameLedger DEF ledger
  <2>5. TypeOK'
    BY <1>1, <2>1, <2>2 DEF TypeOK, ledger, wakes, process, world
  <2> QED
    BY <2>3, <2>4, <2>5 DEF Inv
<1> QED
  BY <1>2, <1>3, <1>4

\* A change of the head's task in the cloud that keeps its terminal, its claim
\* and its cancellation: the task of an intent in flight may become live.
LEMMA HeadServed ==
  ASSUME Inv, NEW i \in Intent, row[i].phase = "inflight", NEW s \in Server,
         server' = [server EXCEPT ![TaskOf(i)] = s], UNCHANGED <<row, applied>>
  PROVE  server' \in [Task -> Server] /\ RowsOK' /\ Fifo' /\ LiveOK' /\ AppliedOK'
<1>1. TypeOK /\ TaskOf(i) \in Task /\ TaskOf(i)[1] = i /\ server \in [Task -> Server]
  BY TaskPairs DEF Inv, TypeOK
<1>2. /\ server' \in [Task -> Server] /\ \A u \in Task \ {TaskOf(i)} : server'[u] = server[u]
  BY <1>1
<1>3. RowsOK' /\ Fifo' /\ AppliedOK'
  BY DEF Inv, RowsOK, Fifo, AppliedOK, TaskOf
<1>4. ASSUME NEW u \in Task, Live(u)'
      PROVE  row[u[1]].phase = "inflight" /\ u = TaskOf(u[1])
  <2>1. CASE u = TaskOf(i)
    BY <1>1, <2>1
  <2>2. CASE u # TaskOf(i)
    BY <1>2, <1>4, <2>2 DEF Inv, LiveOK, Live
  <2> QED
    BY <2>1, <2>2
<1>5. LiveOK'
  BY <1>4 DEF LiveOK, TaskOf
<1> QED
  BY <1>2, <1>3, <1>5

\* submitFrozen
LEMMA SubmitKeepsInv ==
  ASSUME Inv, Submit
  PROVE  Inv'
<1> DEFINE i == scan.at
           t == TaskOf(i)
<1>1. scan.pc = "submit" /\ UNCHANGED <<execution, applied, backlog>> /\ ScanUnchanged
  BY DEF Submit
<1>2. /\ i \in Intent /\ row[i].phase = "inflight" /\ t \in Task /\ server[t] \in Server /\ scan \in ScanState
      /\ scan.changed \in BOOLEAN /\ TypeOK /\ execution \in [Task -> Execution] /\ server \in [Task -> Server]
  BY <1>1, HeadInFlight DEF Inv, TypeOK, Acting
<1>3. CASE scan' = [scan EXCEPT !.pc = "sent"] /\ UNCHANGED <<row, server>>
  <2>1. "sent" \in Step
    BY DEF Step
  <2>2. scan' \in ScanState /\ scan'.pc = "sent" /\ scan'.at = i
    BY <1>2, <1>3, <2>1, ScanMoves
  <2>3. CopyOK' /\ ReadsOK'
    BY <1>1, <1>2, <1>3, <2>2, HeadStays DEF Holding, Acting, ReadsOK
  <2> QED
    BY <1>1, <1>2, <1>3, <2>2, <2>3, ScanOnly
<1>4. CASE Done(scan.changed) /\ UNCHANGED <<row, server>>
  BY <1>1, <1>2, <1>4, DoneKeepsInv
<1>5. CASE row' = [row EXCEPT ![i].cancelReason = TRUE] /\ Done(scan.changed) /\ UNCHANGED server
  <2>1. row' \in [Intent -> Row] /\ RowsOK' /\ Fifo' /\ LiveOK' /\ AppliedOK'
    BY <1>1, <1>2, <1>5, MarkedRows
  <2>2. scan' \in ScanState /\ scan'.pc \in {"pass", "arm"}
    BY <1>2, <1>5, DoneFields
  <2>3. CopyOK' /\ ReadsOK' /\ WakeOK'
    BY <1>1, <2>2, NoHead, ScanComes DEF ScanUnchanged
  <2>4. TypeOK'
    BY <1>1, <1>2, <1>5, <2>1, <2>2 DEF TypeOK, ScanUnchanged, wakes, process, world
  <2> QED
    BY <2>1, <2>3, <2>4 DEF Inv
<1>6. CASE /\ server' = [server EXCEPT ![t].attempt = TRUE] /\ scan' = [scan EXCEPT !.pc = "send"]
           /\ UNCHANGED row
  <2> DEFINE s == [server[t] EXCEPT !.attempt = TRUE]
  <2>1. s \in Server /\ server' = [server EXCEPT ![t] = s] /\ "send" \in Step
    BY <1>2, <1>6 DEF Server, Step
  <2> HIDE DEF s
  <2>2. server' \in [Task -> Server] /\ RowsOK' /\ Fifo' /\ LiveOK' /\ AppliedOK'
    BY <1>1, <1>2, <1>6, <2>1, HeadServed
  <2>3. scan' \in ScanState /\ scan'.pc = "send" /\ scan'.at = i
    BY <1>2, <1>6, <2>1, ScanMoves
  <2>4. CopyOK' /\ ReadsOK' /\ WakeOK'
    BY <1>1, <1>2, <1>6, <2>3, HeadStays, ScanComes DEF Holding, Acting, ReadsOK, ScanUnchanged
  <2>5. TypeOK'
    BY <1>1, <1>2, <1>6, <2>2, <2>3 DEF TypeOK, ScanUnchanged, wakes, process, world
  <2> QED
    BY <2>2, <2>4, <2>5 DEF Inv
<1> QED
  BY <1>3, <1>4, <1>5, <1>6 DEF Submit

LEMMA SendDeliverKeepsInv ==
  ASSUME Inv, SendDeliver
  PROVE  Inv'
<1> DEFINE i == scan.at
           t == TaskOf(i)
           s == [server[t] EXCEPT !.delivered = TRUE]
<1>1. /\ scan.pc = "send" /\ server' = [server EXCEPT ![t].delivered = TRUE]
      /\ live' = (IF events THEN live \union {t} ELSE live) /\ scan' = [scan EXCEPT !.pc = "sent"]
      /\ UNCHANGED <<ledger, wakes, again, up, events, noticed, world, faults>>
  BY DEF SendDeliver
<1>2. /\ i \in Intent /\ row[i].phase = "inflight" /\ t \in Task /\ server[t] \in Server /\ scan \in ScanState
      /\ TypeOK /\ server \in [Task -> Server]
  BY <1>1, HeadInFlight DEF Inv, TypeOK, Acting
<1>3. s \in Server /\ server' = [server EXCEPT ![t] = s] /\ "sent" \in Step
  BY <1>1, <1>2 DEF Server, Step
<1> HIDE DEF s
<1>4. server' \in [Task -> Server] /\ RowsOK' /\ Fifo' /\ LiveOK' /\ AppliedOK'
  BY <1>1, <1>2, <1>3, HeadServed DEF ledger
<1>5. scan' \in ScanState /\ scan'.pc = "sent" /\ scan'.at = i
  BY <1>1, <1>2, <1>3, ScanMoves
<1>6. CopyOK' /\ ReadsOK' /\ WakeOK'
  BY <1>1, <1>2, <1>5, HeadStays, ScanComes DEF Holding, Acting, ReadsOK, ledger
<1> HIDE DEF t
<1>7. TypeOK'
  BY <1>1, <1>2, <1>4, <1>5 DEF TypeOK, ledger, wakes, world
<1> QED
  BY <1>4, <1>6, <1>7 DEF Inv

\* finish: the terminal that was read is the task's, so the task is not live.
LEMMA FinishKeepsInv ==
  ASSUME Inv, Finish
  PROVE  Inv'
<1> DEFINE i    == scan.at
           t    == TaskOf(i)
           n    == IF i \in Publishing THEN 2 ELSE 1
<1>1. scan.pc = "finish" /\ UNCHANGED <<execution, server, wakes, again, process, memory, admitting, faults>>
  BY DEF Finish
<1>2. /\ i \in Intent /\ row[i].phase = "inflight" /\ t \in Task /\ TypeOK /\ execution \in [Task -> Execution]
      /\ row \in [Intent -> Row] /\ row[i] \in Row
  BY <1>1, HeadInFlight DEF Inv, TypeOK, Acting
<1>3. ~Live(t)
  BY <1>1 DEF Inv, ReadsOK, Holding, Acting, Live
<1>4. CASE /\ SettleAt(i, "stopped", 1) \/ SettleAt(i, "failed", 1)
           /\ UNCHANGED <<applied, clock>>
  <2>1. ScanUnchanged
    BY <1>1, <1>4 DEF ScanUnchanged, world
  <2> QED
    BY <1>1, <1>2, <1>3, <1>4, <2>1, SettleAtKeepsInv
<1>5. CASE SettleAt(i, "succeeded", n) /\ applied' = Outcome(t, n) /\ UNCHANGED clock
  <2>1. ScanUnchanged
    BY <1>1, <1>5 DEF ScanUnchanged, world
  <2>2. CASE ~Fits(n) /\ Done(FALSE) /\ UNCHANGED <<row, backlog>>
    BY <1>1, <1>2, <1>5, <2>1, <2>2, DoneKeepsInv DEF Outcome
  <2>3. CASE /\ Fits(n) /\ row' = [row EXCEPT ![i] = Settled(row[i], "succeeded")]
             /\ backlog' = backlog + n /\ Done(TRUE)
    <3>1. applied' = applied \union {t}
      BY <1>5, <2>3 DEF Outcome
    <3>2. row' \in [Intent -> Row] /\ applied' \subseteq Task /\ RowsOK' /\ Fifo' /\ LiveOK' /\ AppliedOK'
      BY <1>1, <1>2, <1>3, <2>3, <3>1, SettledRow
    <3>3. scan' \in ScanState /\ scan'.pc \in {"pass", "arm"} /\ backlog' \in 0 .. MaxCount
      BY <1>2, <2>3, DoneFields, FitsBacklog
    <3>4. CopyOK' /\ ReadsOK' /\ WakeOK'
      BY <2>1, <3>3, NoHead, ScanComes DEF ScanUnchanged
    <3>5. TypeOK'
      BY <1>1, <1>2, <2>1, <3>2, <3>3 DEF TypeOK, ScanUnchanged, wakes, process, world
    <3> QED
      BY <3>2, <3>4, <3>5 DEF Inv
  <2> QED
    BY <1>5, <2>2, <2>3 DEF SettleAt, Settle
<1>6. CASE /\ Retryable(i) /\ row' = [row EXCEPT ![i].phase = "backoff"] /\ clock' = [clock EXCEPT ![i] = "early"]
           /\ Done(TRUE) /\ UNCHANGED <<applied, backlog>>
  <2>1. row' = [row EXCEPT ![i] = [row[i] EXCEPT !.phase = "backoff"]] /\ "backoff" \in Phase
    BY <1>2, <1>6 DEF Phase, Waiting
  <2>2. /\ row' \in [Intent -> Row] /\ \A j \in Intent \ {i} : row'[j] = row[j]
        /\ row'[i].phase = "backoff" /\ row'[i].generation = row[i].generation
        /\ row'[i].attempts = row[i].attempts /\ row'[i].conclusion = row[i].conclusion
    BY <1>2, <2>1, RowPhase
  <2>3. \A j \in Intent : TaskOf(j)' = TaskOf(j) /\ row'[j].conclusion = row[j].conclusion
    BY <2>2 DEF TaskOf
  <2>4. RowsOK' /\ Fifo'
    <3>1. row[i].attempts < MaxAttempts[i] /\ MaxAttempts[i] \in 1 .. 3 /\ row[i].attempts \in 0 .. 3
      BY <1>2, <1>6, HostAssumption, RowFields DEF Retryable
    <3>2. row[i].attempts < 3
      BY <3>1
    <3> QED
      BY <1>2, <2>2, <3>2 DEF Inv, RowsOK, Fifo
  <2>5. LiveOK'
    BY <1>1, <1>2, <1>3, <2>2, <2>3, TaskPairs DEF Inv, LiveOK, Live
  <2>6. AppliedOK'
    <3>1. \A u \in applied : u[1] \in Intent
      BY <1>2, TaskPairs DEF TypeOK
    <3> QED
      BY <1>6, <2>3, <3>1 DEF Inv, AppliedOK
  <2>7. scan' \in ScanState /\ scan'.pc \in {"pass", "arm"}
    BY <1>2, <1>6, DoneFields
  <2>8. CopyOK' /\ ReadsOK' /\ WakeOK'
    BY <1>1, <2>7, NoHead, ScanComes
  <2>9. TypeOK'
    BY <1>1, <1>2, <1>6, <2>2, <2>7 DEF TypeOK, wakes, process
  <2> QED
    BY <2>4, <2>5, <2>6, <2>8, <2>9 DEF Inv
<1> QED
  BY <1>4, <1>5, <1>6 DEF Finish

-----------------------------------------------------------------------------
(* The theorems *)

LEMMA InitInv == Init => Inv
<1> SUFFICES ASSUME Init PROVE Inv
  OBVIOUS
<1> USE DEF Init
<1>1. NoIntent \in Row /\ NoServer \in Server
  BY DEF NoIntent, Row, Phase, Generation, Conclusion, NoServer, Server
<1>2. /\ row \in [Intent -> Row] /\ server \in [Task -> Server]
      /\ execution \in [Task -> Execution]
  BY <1>1 DEF Execution
<1>3. TypeOK
  <2>1. backlog \in 0 .. MaxCount /\ faults \in 0 .. MaxFaults
    <3>1. MaxCount \in Nat /\ MaxFaults \in Nat
      BY HostAssumption
    <3> QED
      BY <3>1
  <2>2. clock \in [Intent -> {"early", "ready", "overdue"}] /\ scan \in ScanState
    BY IdleFields
  <2> QED
    BY <1>2, <2>1, <2>2 DEF TypeOK
<1>4. \A i \in Intent : row[i] = NoIntent
  OBVIOUS
<1>5. RowsOK /\ Fifo
  BY <1>4 DEF RowsOK, Fifo, NoIntent
<1>6. CopyOK /\ ReadsOK
  BY IdleFields DEF CopyOK, ReadsOK, Holding, Acting
<1>7. LiveOK
  BY DEF LiveOK, Live, NoServer
<1>8. AppliedOK
  BY <1>4 DEF AppliedOK, NoIntent
<1>9. WakeOK
  BY <1>4 DEF WakeOK, ScanCovered, Open, NoIntent
<1> QED
  BY <1>3, <1>5, <1>6, <1>7, <1>8, <1>9 DEF Inv

LEMMA NextKeepsInv == Inv /\ [Next]_vars => Inv'
<1> SUFFICES ASSUME Inv, [Next]_vars PROVE Inv'
  OBVIOUS
<1>1. CASE UNCHANGED vars
  <2>1. UNCHANGED <<row, applied, server, scan>> /\ TypeOK' /\ WakeOK'
    BY <1>1 DEF Inv, TypeOK, WakeOK, ScanCovered, Open, TaskOf, vars, ledger, wakes, process, world
  <2> QED
    BY <2>1, OutsideScan
<1>2. CASE ScanStep
  BY <1>2, ScanStartKeepsInv, PassKeepsInv, ReconcileBlockedKeepsInv, BeginKeepsInv, EndKeepsInv,
     ReadTerminalKeepsInv, ReadAttemptKeepsInv, CancelTaskKeepsInv, RereadTerminalKeepsInv,
     ReadAuthorityKeepsInv, FinishKeepsInv, SubmitKeepsInv, SendDeliverKeepsInv, ScanEndKeepsInv DEF ScanStep
<1>3. CASE CallFails
  BY <1>3, EndKeepsInv
<1>4. CASE \E i \in Intent : Enqueue(i) \/ Cancel(i) \/ Tick(i)
  BY <1>4, CommandKeepsInv, WorldKeepsInv
<1>5. CASE \/ Consume \/ TimerDrain \/ Hint \/ MemoryDrift \/ MemoryFree \/ MemoryChange \/ NoticeFlush \/ Hold
           \/ Admit \/ EventsEnd \/ Upload \/ Crash \/ Recover
  BY <1>5, EntryKeepsInv, WorldKeepsInv, MemoryChangeKeepsInv, NoticeFlushKeepsInv, CrashKeepsInv,
     RecoverKeepsInv
<1>6. CASE \E t \in Task : Claim(t) \/ Report(t) \/ Finalise(t) \/ ForeignCancel(t)
  BY <1>6, CloudKeepsInv
<1> QED
  BY <1>1, <1>2, <1>3, <1>4, <1>5, <1>6 DEF Next

\* The row, the scan's reads and the task in the cloud agree in every state of
\* the Host (core.ts, transitions.ts, submit.ts).
THEOREM Invariance == Spec => []Inv
<1>1. Init => Inv
  BY InitInv
<1>2. Inv /\ [Next]_vars => Inv'
  BY NextKeepsInv
<1> QED
  BY <1>1, <1>2, PTL DEF Spec

\* The ledger, the scan and the cloud keep their types.
THEOREM TypeCorrect == Spec => []TypeOK
<1>1. Inv => TypeOK
  BY DEF Inv
<1> QED
  BY <1>1, Invariance, PTL

\* However intents, retries, cancellations, uncertain submits and restarts
\* interleave, at most one task of the agent runs or can start.
THEOREM OneWriter == Spec => []OneLiveTask
<1>1. ASSUME Inv PROVE OneLiveTask
  <2>1. ASSUME NEW t \in Task, NEW u \in Task, Live(t), Live(u)
        PROVE  t = u
    <3>1. /\ t[1] \in Intent /\ u[1] \in Intent
          /\ row[t[1]].phase = "inflight" /\ t = TaskOf(t[1])
          /\ row[u[1]].phase = "inflight" /\ u = TaskOf(u[1])
      BY <1>1, <2>1, TaskPairs DEF Inv, LiveOK
    <3>2. ~(t[1] < u[1]) /\ ~(u[1] < t[1])
      BY <1>1, <3>1 DEF Inv, Fifo
    <3>3. t[1] \in Nat /\ u[1] \in Nat
      BY <3>1, HostAssumption
    <3>4. t[1] = u[1]
      BY <3>2, <3>3
    <3> QED
      BY <3>1, <3>4
  <2> QED
    BY <2>1 DEF OneLiveTask
<1> QED
  BY <1>1, Invariance, PTL

\* settle leaves no task behind, whatever submit was uncertain.
THEOREM SettlingIsQuiet == Spec => []SettledIsQuiet
<1>1. Inv => SettledIsQuiet
  BY DEF Inv, LiveOK, SettledIsQuiet
<1> QED
  BY <1>1, Invariance, PTL

\* The marker of an outcome and the conclusion it comes with are written together, once.
THEOREM OutcomesOnce == Spec => []AppliedOnce
<1>1. ASSUME Inv PROVE AppliedOnce
  <2>1. ASSUME NEW i \in Intent
        PROVE  /\ Cardinality({t \in applied : t[1] = i}) <= 1
               /\ row[i].conclusion = "succeeded" <=> TaskOf(i) \in applied
    <3> DEFINE own == {t \in applied : t[1] = i}
    <3>1. own \subseteq {TaskOf(i)}
      BY <1>1 DEF Inv, AppliedOK
    <3>2. IsFiniteSet({TaskOf(i)}) /\ Cardinality({TaskOf(i)}) = 1
      BY FS_Singleton
    <3> HIDE DEF own
    <3>3. Cardinality(own) <= Cardinality({TaskOf(i)})
      BY <3>1, <3>2, FS_Subset
    <3>4. TaskOf(i)[1] = i
      BY <1>1, <2>1, TaskPairs DEF Inv
    <3>5. row[i].conclusion = "succeeded" <=> TaskOf(i) \in applied
      BY <1>1, <2>1, <3>4 DEF Inv, AppliedOK
    <3> QED
      BY <3>2, <3>3, <3>5 DEF own
  <2> QED
    BY <2>1 DEF AppliedOnce
<1> QED
  BY <1>1, Invariance, PTL

\* armScan, the timers and the flushes leave no open intent without a way back.
THEOREM ScanComesBack == Spec => []ScanCovered
<1>1. Inv => ScanCovered
  BY DEF Inv, WakeOK
<1> QED
  BY <1>1, Invariance, PTL

\* What came to the cloud before the last read of the attempt outranks the outcome.

LEMMA CancellationStays ==
  ASSUME Inv, [Next]_vars, NEW t \in Task, server[t].cancellation
  PROVE  server'[t].cancellation
<1>1. TypeOK /\ server \in [Task -> Server]
  BY DEF Inv, TypeOK
<1>2. CASE UNCHANGED server
  BY <1>2
<1>3. CASE CancelTask
  <2>1. server' = [server EXCEPT ![TaskOf(scan.at)] = Cancelled(server[TaskOf(scan.at)])] /\ TaskOf(scan.at) \in Task
    BY <1>1, <1>3, HeadInFlight DEF CancelTask, Acting
  <2>2. Cancelled(server[t]).cancellation
    BY <1>1 DEF Cancelled, Server
  <2> QED
    BY <1>1, <2>1, <2>2
<1>4. CASE Submit
  <2>1. TaskOf(scan.at) \in Task
    BY <1>4, HeadInFlight DEF Submit, Acting
  <2>2. UNCHANGED server \/ server' = [server EXCEPT ![TaskOf(scan.at)].attempt = TRUE]
    BY <1>4 DEF Submit
  <2> QED
    BY <1>1, <2>1, <2>2 DEF Server
<1>5. CASE SendDeliver
  <2>1. TaskOf(scan.at) \in Task
    BY <1>5, HeadInFlight DEF SendDeliver, Acting
  <2>2. server' = [server EXCEPT ![TaskOf(scan.at)].delivered = TRUE]
    BY <1>5 DEF SendDeliver
  <2> QED
    BY <1>1, <2>1, <2>2 DEF Server
<1>6. ASSUME NEW u \in Task, Claim(u) \/ Report(u) \/ Finalise(u) \/ ForeignCancel(u)
      PROVE  server'[t].cancellation
  BY <1>1, <1>6 DEF Claim, Report, Finalise, ForeignCancel, Cancelled, Server
<1>7. ASSUME \A u \in Task : ~(Claim(u) \/ Report(u) \/ Finalise(u) \/ ForeignCancel(u)),
             ~CancelTask, ~Submit, ~SendDeliver
      PROVE  UNCHANGED server
  <2>1. CASE \E i \in Intent : Enqueue(i) \/ Cancel(i) \/ Tick(i)
    BY <2>1 DEF Enqueue, Cancel, Tick
  <2>2. CASE ScanStart \/ Pass \/ ReconcileBlocked \/ Begin \/ ReconcileEarly \/ ReadTerminal
    BY <2>2 DEF ScanStart, Pass, ReconcileBlocked, Begin, ReconcileEarly, ReadTerminal
  <2>3. CASE ReadAttempt \/ RereadTerminal \/ ReadAuthority \/ Finish \/ Sent \/ ScanEnd \/ CallFails
    BY <2>3 DEF ReadAttempt, RereadTerminal, ReadAuthority, Finish, Sent, ScanEnd, CallFails
  <2>4. CASE Consume \/ TimerDrain \/ Hint \/ MemoryDrift \/ MemoryFree \/ MemoryChange \/ NoticeFlush
    BY <2>4 DEF Consume, TimerDrain, Hint, MemoryDrift, MemoryFree, MemoryChange, NoticeFlush
  <2>5. CASE Hold \/ Admit \/ EventsEnd \/ Upload \/ Crash \/ Recover \/ UNCHANGED vars
    BY <2>5 DEF Hold, Admit, EventsEnd, Upload, Crash, Recover, vars
  <2> QED
    BY <1>7, <2>1, <2>2, <2>3, <2>4, <2>5 DEF Next, ScanStep
<1> QED
  BY <1>2, <1>3, <1>4, <1>5, <1>6, <1>7

\* Only finish applies an outcome, on the attempt that the scan read last.
LEMMA OnlyFinishApplies ==
  ASSUME Inv, [Next]_vars, NEW t \in applied' \ applied
  PROVE  Decided(t)
<1>1. Finish
  <2> USE DEF ledger
  <2>1. applied' # applied
    OBVIOUS
  <2>2. ~(UNCHANGED vars) /\ ~CallFails /\ ~Consume /\ ~TimerDrain /\ ~Hint /\ ~MemoryDrift /\ ~MemoryFree
    BY <2>1 DEF vars, CallFails, Consume, TimerDrain, Hint, MemoryDrift, MemoryFree
  <2>3. ~MemoryChange /\ ~NoticeFlush /\ ~Hold /\ ~Admit /\ ~EventsEnd /\ ~Upload /\ ~Crash /\ ~Recover
    BY <2>1 DEF MemoryChange, NoticeFlush, Hold, Admit, EventsEnd, Upload, Crash, Recover
  <2>4. ASSUME NEW i \in Intent
        PROVE  ~Enqueue(i) /\ ~Cancel(i) /\ ~Tick(i)
    BY <2>1 DEF Enqueue, Cancel, Tick
  <2>5. ASSUME NEW u \in Task
        PROVE  ~Claim(u) /\ ~Report(u) /\ ~Finalise(u) /\ ~ForeignCancel(u)
    BY <2>1 DEF Claim, Report, Finalise, ForeignCancel, EnvUnchanged
  <2>6. /\ ~ScanStart /\ ~Pass /\ ~ReconcileBlocked /\ ~Begin /\ ~ReconcileEarly /\ ~ReadTerminal
    BY <2>1 DEF ScanStart, Pass, ReconcileBlocked, Begin, ReconcileEarly, ReadTerminal
  <2>7. ~ReadAttempt /\ ~CancelTask /\ ~RereadTerminal /\ ~ReadAuthority /\ ~Submit /\ ~SendDeliver /\ ~Sent /\ ~ScanEnd
    BY <2>1 DEF ReadAttempt, CancelTask, RereadTerminal, ReadAuthority, Submit, SendDeliver, Sent, ScanEnd
  <2> QED
    BY <2>2, <2>3, <2>4, <2>5, <2>6, <2>7 DEF Next, ScanStep
<1> QED
  BY <1>1 DEF Finish, Outcome, Decided

\* A scan comes to finish by reading the attempt, and no step of it goes on past
\* a cancellation that is in the cloud then.
LEMMA FinishAfterRead ==
  ASSUME Inv, [Next]_vars, scan'.pc = "finish"
  PROVE  \/ ReadAuthority
         \/ UNCHANGED scan /\ TaskOf(scan.at)' = TaskOf(scan.at)
<1>1. TypeOK /\ scan \in ScanState
  BY DEF Inv, TypeOK
<1>2. \A changed \in BOOLEAN : ~Done(changed)
  BY <1>1, DoneFields
<1>3. ~ScanStart /\ ~ScanEnd /\ ~Crash
  <2>1. {"pass", "idle"} \subseteq Step /\ TRUE \in BOOLEAN /\ Idle.failed = FALSE
    BY DEF Step, Idle
  <2>2. ~ScanStart
    BY <2>1, IdleFields DEF ScanStart, Idle
  <2> QED
    BY <2>2, IdleFields DEF ScanEnd, Crash
<1>4. ~Pass
  <2>1. ASSUME NEW rows, TakeHead(rows)
        PROVE  FALSE
    BY <1>2, <2>1 DEF TakeHead, Idle
  <2> QED
    BY <1>2, <2>1 DEF Pass, Settle
<1>5. ~ReconcileBlocked
  <2>1. ASSUME NEW rows, scan.pc = "reconcile",
               scan' = [scan EXCEPT !.phase = rows[scan.at].phase, !.cancelReason = rows[scan.at].cancelReason]
        PROVE  FALSE
    BY <1>1, <2>1 DEF ScanState
  <2>2. \A rows : (rows # row) \in BOOLEAN
    OBVIOUS
  <2> QED
    BY <1>2, <2>1, <2>2 DEF ReconcileBlocked, Settle
<1>6. \A i, c, n : ~SettleAt(i, c, n)
  BY <1>2 DEF SettleAt, Settle
<1>7. ~Begin /\ ~ReconcileEarly
  <2>1. (row[scan.at].phase = "settled") \in BOOLEAN
    OBVIOUS
  <2>2. scan' # [scan EXCEPT !.pc = "submit", !.changed = TRUE]
    BY <1>1 DEF ScanState
  <2> QED
    BY <1>2, <1>6, <2>1, <2>2 DEF Begin, ReconcileEarly
<1>8. ~ReadTerminal
  <2> DEFINE t == TaskOf(scan.at)
             x == server[t].terminal
             y == scan.cancelReason \/ Unstarted(t)
  <2>1. ReadTerminal => scan' = [scan EXCEPT !.pc = "attempt", !.terminal = x, !.cancelReason = y]
    BY DEF ReadTerminal
  <2> HIDE DEF x, y
  <2> QED
    BY <1>1, <2>1 DEF ScanState
<1>9. ~ReadAttempt /\ ~CancelTask /\ ~RereadTerminal
  <2>1. ASSUME NEW terminal, NEW attempt, Observe(terminal, attempt)
        PROVE  FALSE
    <3>1. \/ scan' = [scan EXCEPT !.pc = "authority", !.terminal = terminal, !.attempt = attempt]
          \/ scan' = [scan EXCEPT !.pc = "submit"]
          \/ Done(FALSE)
          \/ SettleAt(scan.at, "stopped", 1)
      <4> DEFINE resend == /\ ~attempt.cancellation /\ ~scan.cancelReason
                           /\ execution[TaskOf(scan.at)].submission # "delivered"
      <4>1. \/ SettleAt(scan.at, "stopped", 1)
            \/ CASE terminal # "none" -> scan' = [scan EXCEPT !.pc = "authority", !.terminal = terminal, !.attempt = attempt]
                 [] terminal = "none" /\ resend -> scan' = [scan EXCEPT !.pc = "submit"]
                 [] OTHER -> Done(FALSE)
        BY <2>1 DEF Observe
      <4> HIDE DEF resend
      <4> QED
        BY <4>1
    <3> QED
      BY <1>1, <1>2, <1>6, <3>1 DEF ScanState
  <2>2. scan' # [scan EXCEPT !.pc = "cancel"]
    BY <1>1 DEF ScanState
  <2>3. ASSUME NEW x, scan' = [scan EXCEPT !.pc = "terminal", !.attempt = x]
        PROVE  FALSE
    BY <1>1, <2>3 DEF ScanState
  <2>4. ~ReadAttempt
    BY <1>6, <2>1, <2>2 DEF ReadAttempt
  <2>5. ~CancelTask
    BY <2>3 DEF CancelTask
  <2> QED
    BY <2>1, <2>4, <2>5 DEF RereadTerminal
<1>10. ~Finish /\ ~Submit /\ ~SendDeliver /\ ~Sent /\ ~CallFails
  <2>1. scan.changed \in BOOLEAN /\ scan' # [scan EXCEPT !.pc = "send"] /\ scan' # [scan EXCEPT !.pc = "sent"]
    BY <1>1 DEF ScanState
  <2> QED
    BY <1>2, <1>6, <2>1 DEF Finish, Submit, SendDeliver, Sent, CallFails
<1>11. ASSUME UNCHANGED <<row, scan>>
       PROVE  UNCHANGED scan /\ TaskOf(scan.at)' = TaskOf(scan.at)
  BY <1>11 DEF TaskOf
<1>12. ASSUME UNCHANGED scan
       PROVE  scan.pc \in Acting /\ scan.at \in Intent /\ row[scan.at].phase = "inflight"
  <2>1. scan.pc \in Acting
    BY <1>12 DEF Acting
  <2> QED
    BY <2>1, HeadInFlight
<1>13. ASSUME NEW i \in Intent, Enqueue(i) \/ Cancel(i)
       PROVE  UNCHANGED scan /\ TaskOf(scan.at)' = TaskOf(scan.at)
  <2>1. UNCHANGED scan /\ row[i] \in Row /\ row \in [Intent -> Row]
    BY <1>1, <1>13 DEF Enqueue, Cancel, TypeOK
  <2>2. row'[scan.at].generation = row[scan.at].generation
    BY <1>12, <1>13, <2>1 DEF Enqueue, Cancel, Row
  <2> QED
    BY <2>1, <2>2 DEF TaskOf
<1>14. ASSUME MemoryChange \/ Recover
       PROVE  UNCHANGED scan /\ TaskOf(scan.at)' = TaskOf(scan.at)
  <2>1. UNCHANGED scan /\ (UNCHANGED row \/ row' = ResumedRows(memory))
    BY <1>14 DEF MemoryChange, Recover
  <2>2. row'[scan.at] = row[scan.at]
    BY <1>12, <2>1, ResumedEased
  <2> QED
    BY <2>1, <2>2 DEF TaskOf
<1>15. CASE \E i \in Intent : Tick(i)
  BY <1>11, <1>15 DEF Tick, ledger
<1>16. CASE Consume \/ TimerDrain \/ Hint \/ MemoryDrift \/ MemoryFree \/ NoticeFlush
  BY <1>11, <1>16 DEF Consume, TimerDrain, Hint, MemoryDrift, MemoryFree, NoticeFlush, ledger
<1>17. CASE Hold \/ Admit \/ EventsEnd \/ Upload \/ UNCHANGED vars
  BY <1>11, <1>17 DEF Hold, Admit, EventsEnd, Upload, vars, ledger
<1>18. CASE \E t \in Task : Claim(t) \/ Report(t) \/ Finalise(t) \/ ForeignCancel(t)
  BY <1>11, <1>18 DEF Claim, Report, Finalise, ForeignCancel, EnvUnchanged, ledger
<1> QED
  BY <1>3, <1>4, <1>5, <1>7, <1>8, <1>9, <1>10, <1>13, <1>14, <1>15, <1>16, <1>17, <1>18 DEF Next, ScanStep

\* "A successful terminal after accepted cancellation does not authorize outcome
\* application" (core.ts reconcile and finish): a cancellation that is in the cloud
\* when the scan reads the attempt for the last time keeps the outcome from ever
\* being applied.
THEOREM CancellationOutranks == Spec => NoCancelledOutcome
<1>1. ASSUME Inv, [Next]_vars, NEW t \in Task, Outranked(t)
      PROVE  Outranked(t)'
  <2>1. server'[t].cancellation
    BY <1>1, CancellationStays DEF Outranked
  <2>2. t \notin applied'
    BY <1>1, OnlyFinishApplies DEF Outranked
  <2>3. ASSUME Decided(t)'
        PROVE  FALSE
    <3>1. scan'.pc = "finish" /\ TaskOf(scan.at)' = t /\ ~scan'.attempt.cancellation
      BY <2>3 DEF Decided
    <3>2. CASE ReadAuthority
      <4>1. scan \in ScanState /\ scan' = [scan EXCEPT !.pc = "finish", !.attempt = AttemptOf(TaskOf(scan.at))]
        BY <1>1, <3>2 DEF ReadAuthority, Authority, Inv, TypeOK
      <4>2. scan'.at = scan.at /\ scan'.attempt = AttemptOf(TaskOf(scan.at)) /\ UNCHANGED row
        BY <3>2, <4>1 DEF ScanState, ReadAuthority, ledger
      <4>3. TaskOf(scan.at) = t
        BY <3>1, <4>2 DEF TaskOf
      <4> QED
        BY <1>1, <3>1, <4>2, <4>3 DEF AttemptOf, Outranked
    <3>3. CASE UNCHANGED scan /\ TaskOf(scan.at)' = TaskOf(scan.at)
      BY <1>1, <3>1, <3>3 DEF Outranked, Decided
    <3> QED
      BY <1>1, <3>1, <3>2, <3>3, FinishAfterRead
  <2> QED
    BY <2>1, <2>2, <2>3 DEF Outranked
<1>2. ASSUME Inv, [Next]_vars
      PROVE  [\A t \in Task : Outranked(t) => Outranked(t)']_vars
  BY <1>1, <1>2
<1> QED
  BY <1>2, Invariance, PTL DEF Spec, NoCancelledOutcome
=============================================================================
