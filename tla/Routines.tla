------------------------------- MODULE Routines -------------------------------
(***************************************************************************)
(* One routine of the Host execution core: the chain of wakes that it      *)
(* reserves one at a time, the occurrences that the wakes record, pause,   *)
(* resume and completion, and the staged version that replaces the         *)
(* definition once nothing of the old one is left                          *)
(* (packages/server/src/execution-core/routines.ts, core.ts, and the wake  *)
(* queue of packages/server/src/wakes).                                    *)
(*                                                                         *)
(* A wake's key names a version and a slot.  An occurrence's intent is     *)
(* reduced to its phase: HostCore has the rest of its life.  Cancellation, *)
(* the waiting bound and the outcome all end an intent, and which one did  *)
(* makes no difference here.  The wake store is durable, and the Host and  *)
(* the scheduler read one clock.                                           *)
(***************************************************************************)
EXTENDS Naturals, Sequences, FiniteSets, FiniteSetsExt

CONSTANTS
  Kind,        \* what the routine may run: "execution", "hostJob", "hostOccurrence"
  Every,       \* Every[v]: the interval of version v
  End,         \* endAt, and the end of the clock
  Horizon,     \* how far ahead a wake may be scheduled
  Flusher,     \* who sends the outbox's wake calls: "drain", and "memory" for a core with a memory
  MaxFaults    \* bound on failed calls, rejected deliveries, calendar errors and crashes

ASSUME RoutinesAssumption ==
  /\ Kind \subseteq {"execution", "hostJob", "hostOccurrence"} /\ Kind # {}
  /\ Every \in Seq(Nat \ {0}) /\ Every # <<>>
  /\ End \in Nat /\ Horizon \in Nat /\ MaxFaults \in Nat
  /\ Flusher \subseteq {"drain", "memory"}

Version == DOMAIN Every
Slot    == 1 .. End
Key     == Version \X Slot
Row     == {"schedule", "cancel"} \X Key
Never   == End + 1   \* no retryUntil
NoSlot  == 0
NoKey   == <<0, 0>>
NoRow   == <<"none", NoKey>>

Routine == [life : {"active", "paused", "completed"}, def : Version, pend : Version \union {0},
            next : Slot \union {NoSlot}, status : {"ok", "schedule_retrying", "calendar_error"}]
Occurrence == [phase : {"none", "job", "hook", "queued", "running", "backoff", "settled"},
               until : 0 .. Never, nextAt : Slot \union {NoSlot}, superseded : BOOLEAN]

VARIABLES
  now,
  kind,
  routine,   \* the ledger's row of the routine
  occ,       \* occ[k]: the occurrence that the wake k recorded
  box,       \* the wake calls in the ledger's outbox
  wake,      \* wake[k]: the scheduler's row
  active,    \* the delivery under way
  flush,     \* flush[f]: the rows of the snapshot that are left, and the call under way
  up,        \* the core runs
  faults

ledger == <<routine, occ, box>>
sdk    == <<wake, active>>
vars   == <<now, kind, ledger, sdk, flush, up, faults>>

NoActive == [key |-> NoKey, stage |-> "none"]
NoFlush  == [todo |-> {}, row |-> NoRow]
NoOcc    == [phase |-> "none", until |-> Never, nextAt |-> NoSlot, superseded |-> FALSE]
Settled  == [NoOcc EXCEPT !.phase = "settled"]   \* the rest of its row is not read again

TypeOK ==
  /\ now \in 0 .. End /\ kind \in Kind
  /\ routine \in Routine
  /\ occ \in [Key -> Occurrence]
  /\ box \subseteq Row
  /\ wake \in [Key -> {"none", "queued", "done"}]
  /\ active \in [key : Key \union {NoKey}, stage : {"none", "begun", "drain"}]
  /\ flush \in [Flusher -> [todo : SUBSET Row, row : Row \union {NoRow}]]
  /\ up \in BOOLEAN /\ faults \in 0 .. MaxFaults

Fault == faults < MaxFaults /\ faults' = faults + 1

-----------------------------------------------------------------------------
(* Planning and scheduling.  A plan is a slot, or NoSlot: the routine ends. *)

\* mutant: the end of the routine is not looked at
NextSlotPastEnd(v, after) == Every[v] * ((after \div Every[v]) + 1)

\* nextWake with nextIntervalOccurrence
NextSlot(v, after) ==
  LET later == {s \in Slot : s > after /\ s % Every[v] = 0}
  IN IF later = {} THEN NoSlot ELSE Min(later)

NextKey(r) == <<r.def, r.next>>

\* cancelWake
CancelRows(r, rows) ==
  IF r.next = NoSlot THEN rows
  ELSE (rows \ {<<"schedule", NextKey(r)>>}) \union {<<"cancel", NextKey(r)>>}

\* deferSchedule
Deferred(r, rows) ==
  <<[r EXCEPT !.status = "schedule_retrying"], rows \ {<<"schedule", NextKey(r)>>}>>

\* mutant: the cancellation of the same wake stays in the outbox
ScheduledNextTo(r, rows) ==
  CASE r.life # "active" \/ r.next = NoSlot -> <<r, rows>>
    [] r.next - now > Horizon -> Deferred(r, rows)
    [] OTHER -> <<[r EXCEPT !.status = "ok"], rows \union {<<"schedule", NextKey(r)>>}>>

\* scheduleNext
Scheduled(r, rows) ==
  CASE r.life # "active" \/ r.next = NoSlot -> <<r, rows>>
    [] r.life = "active" /\ r.next # NoSlot /\ r.next - now > Horizon -> Deferred(r, rows)
    [] OTHER -> <<[r EXCEPT !.status = "ok"],
                  (rows \ {<<"cancel", NextKey(r)>>}) \union {<<"schedule", NextKey(r)>>}>>

\* applyPlan
Applied(r, slot, rows) ==
  IF slot = NoSlot THEN <<[r EXCEPT !.next = NoSlot, !.status = "ok", !.life = "completed", !.pend = 0], rows>>
  ELSE Scheduled([r EXCEPT !.next = slot, !.status = "ok"], rows)

Set(result) == routine' = result[1] /\ box' = result[2]

-----------------------------------------------------------------------------
(* Versions *)

Open == {k \in Key : occ[k].phase \notin {"none", "settled"}}

\* mutant: only occurrences with an intent hold a version back
SwitchDueWithoutJobs(r) ==
  /\ r.life = "active" /\ r.pend # 0
  /\ r.next # NoSlot => r.next > now
  /\ \A k \in Open : occ[k].phase \in {"job", "hook"}

\* versionSwitchDue: no occurrence is unsettled, and no reserved slot is due.
SwitchDue(r) ==
  /\ r.life = "active" /\ r.pend # 0
  /\ r.next # NoSlot => r.next > now
  /\ Open = {}

\* switchVersion; a calendar that throws leaves the new version without a slot.
Switched(r, rows) ==
  Applied([r EXCEPT !.def = r.pend, !.pend = 0], NextSlot(r.pend, now), CancelRows(r, rows))
SwitchedWithError(r, rows) ==
  <<[r EXCEPT !.def = r.pend, !.pend = 0, !.next = NoSlot, !.status = "calendar_error"], CancelRows(r, rows)>>

Switch(r) ==
  \/ Set(Switched(r, box)) /\ UNCHANGED faults
  \/ Fault /\ Set(SwitchedWithError(r, box))

\* mutant: a staged version is looked at only when it is staged or its routine resumed
SwitchVersionsNever == FALSE /\ UNCHANGED vars

\* switchVersions, in every scan and after every change of the memory.
SwitchVersions ==
  /\ up /\ SwitchDue(routine)
  /\ Switch(routine)
  /\ UNCHANGED <<now, kind, occ, sdk, flush, up>>

-----------------------------------------------------------------------------
(* Commands *)

\* updateRoutine, stageVersion: the version after the newest one.  updateRoutine
\* has planned it before, so no calendar error is left to the switch.
Update ==
  LET v == Max({routine.def, routine.pend}) + 1
      r == [routine EXCEPT !.pend = v]
  IN /\ up /\ v \in Version /\ routine.life # "completed"
     /\ IF SwitchDue(r) THEN Set(Switched(r, box)) ELSE Set(<<r, box>>)
     /\ UNCHANGED <<now, kind, occ, sdk, flush, up, faults>>

\* A pause, or an end, gives the reserved wake back.
Halted(life) == [routine EXCEPT !.life = life, !.next = NoSlot, !.status = "ok",
                                !.pend = IF life = "completed" THEN 0 ELSE @]

\* The cutoff of a slot that will not come is lifted.
Pause ==
  /\ up /\ routine.life = "active"
  /\ occ' = [k \in Key |-> IF k \in Open /\ routine.next # NoSlot /\ occ[k].until = routine.next
                           THEN [occ[k] EXCEPT !.until = Never] ELSE occ[k]]
  /\ Set(<<Halted("paused"), CancelRows(routine, box)>>)
  /\ UNCHANGED <<now, kind, sdk, flush, up, faults>>

Complete ==
  /\ up /\ routine.life # "completed"
  /\ Set(<<Halted("completed"), CancelRows(routine, box)>>)
  /\ UNCHANGED <<now, kind, occ, sdk, flush, up, faults>>

\* A staged version that is due takes over; otherwise the current one goes on.
\* That one is planned before any change, so a calendar that throws changes nothing.
Resume ==
  LET r == [routine EXCEPT !.life = "active"]
  IN /\ up /\ routine.life = "paused"
     /\ \/ SwitchDue(r) /\ Switch(r)
        \/ ~SwitchDue(r) /\ Set(Applied(r, NextSlot(r.def, now), box)) /\ UNCHANGED faults
     /\ UNCHANGED <<now, kind, occ, sdk, flush, up>>

-----------------------------------------------------------------------------
(* A wake is delivered *)

\* mutant: a running occurrence keeps its retries
OvertakenKeepsRetries(o) ==
  CASE o.phase \in {"job", "hook"} -> [o EXCEPT !.superseded = TRUE]
    [] o.phase \in {"queued", "backoff"} -> Settled
    [] OTHER -> o

\* An unsettled occurrence when a new slot is recorded: one that waits is
\* superseded, one that runs gets no retry any more.
Overtaken(o) ==
  CASE o.phase \in {"job", "hook"} -> [o EXCEPT !.superseded = TRUE]
    [] o.phase \in {"queued", "backoff"} -> Settled
    [] o.phase = "running" -> [o EXCEPT !.until = Min({@, now})]
    [] OTHER -> o

FirstPhase == CASE kind = "execution" -> "queued" [] kind = "hostJob" -> "job" [] kind = "hostOccurrence" -> "hook"

\* The retries of an intent end with the next slot.
Until(slot) == IF slot = NoSlot THEN Never ELSE slot

Recorded(slot) ==
  IF kind = "execution" THEN [NoOcc EXCEPT !.phase = FirstPhase, !.until = Until(slot)]
  ELSE [NoOcc EXCEPT !.phase = FirstPhase, !.nextAt = slot]

\* recordOccurrence for the wake that is reserved.  While a version is staged
\* the old chain reserves nothing.
Record(k) ==
  LET slot == IF routine.pend # 0 THEN NoSlot ELSE NextSlot(routine.def, Max({now, k[2]}))
  IN /\ \/ /\ UNCHANGED faults
           /\ IF routine.pend # 0 THEN Set(<<[routine EXCEPT !.next = NoSlot, !.status = "ok"], box>>)
              ELSE Set(Applied(routine, slot, box))
           /\ occ' = [l \in Key |-> IF l = k THEN Recorded(slot) ELSE Overtaken(occ[l])]
        \/ /\ Fault /\ routine.pend = 0
           /\ Set(<<[routine EXCEPT !.next = NoSlot, !.status = "calendar_error"], box>>)
           /\ occ' = [l \in Key |-> IF l = k THEN Recorded(NoSlot) ELSE Overtaken(occ[l])]

\* consume: the transaction.  A replay, and a wake that is not the reserved one
\* of an active routine, change nothing.
Consume ==
  LET k == active.key
  IN /\ up /\ active.stage = "begun" /\ active' = [active EXCEPT !.stage = "drain"]
     /\ \/ /\ occ[k].phase = "none" /\ routine.life = "active" /\ NextKey(routine) = k
           /\ Record(k)
        \/ /\ occ[k].phase # "none" \/ routine.life # "active" \/ NextKey(routine) # k
           /\ UNCHANGED <<ledger, faults>>
     /\ UNCHANGED <<now, kind, wake, flush, up>>

-----------------------------------------------------------------------------
(* The occurrence's work *)

\* A Host job's result, or the Host's decision on an occurrence.
Conclude(k) ==
  /\ up /\ occ[k].phase \in {"job", "hook"}
  /\ occ' = [occ EXCEPT ![k] = Settled]
  /\ UNCHANGED <<now, kind, routine, box, sdk, flush, up, faults>>

\* promote: what a newer slot has overtaken settles at once.
Promoted(o) ==
  IF o.superseded THEN Settled
  ELSE [NoOcc EXCEPT !.phase = "queued", !.until = IF routine.life = "active" THEN Until(o.nextAt) ELSE Never]

Promote(k) ==
  /\ up /\ occ[k].phase \in {"job", "hook"}
  /\ occ' = [occ EXCEPT ![k] = Promoted(@)]
  /\ UNCHANGED <<now, kind, routine, box, sdk, flush, up, faults>>

\* The head of the queue starts: no older intent is open.
Start(k) ==
  /\ up /\ occ[k].phase \in {"queued", "backoff"}
  /\ \A l \in Open : l[2] < k[2] => occ[l].phase \in {"job", "hook"}
  /\ occ' = [occ EXCEPT ![k].phase = "running"]
  /\ UNCHANGED <<now, kind, routine, box, sdk, flush, up, faults>>

Retry(k) ==
  /\ up /\ occ[k].phase = "running" /\ now < occ[k].until
  /\ occ' = [occ EXCEPT ![k].phase = "backoff"]
  /\ UNCHANGED <<now, kind, routine, box, sdk, flush, up, faults>>

Settle(k) ==
  /\ up /\ occ[k].phase \in {"queued", "running", "backoff"}
  /\ occ' = [occ EXCEPT ![k] = Settled]
  /\ UNCHANGED <<now, kind, routine, box, sdk, flush, up, faults>>

-----------------------------------------------------------------------------
(* The outbox's wake calls *)

\* A scan tries a deferred slot again.
RetrySchedule ==
  /\ up /\ routine.status = "schedule_retrying" /\ routine.next - now <= Horizon
  /\ Set(Scheduled(routine, box))
  /\ UNCHANGED <<now, kind, occ, sdk, flush, up, faults>>

FlushStart(f) ==
  /\ up /\ flush[f] = NoFlush /\ box # {}
  /\ flush' = [flush EXCEPT ![f].todo = box]
  /\ UNCHANGED <<now, kind, ledger, sdk, up, faults>>

\* The scheduler: a key it has or had is not scheduled again, and only a queued
\* wake that is not being delivered can be cancelled.
WakeAfter(row) ==
  LET k == row[2]
  IN IF row[1] = "schedule" THEN [wake EXCEPT ![k] = IF @ = "none" THEN "queued" ELSE @]
     ELSE [wake EXCEPT ![k] = IF @ = "queued" /\ active.key # k THEN "none" ELSE @]

Dropped(f, row) == flush' = [flush EXCEPT ![f] = [todo |-> @.todo \ {row}, row |-> NoRow]]

\* The call goes out although its row may have left the outbox since the snapshot.
FlushCall(f, row) ==
  /\ up /\ flush[f].row = NoRow /\ row \in flush[f].todo
  /\ wake' = WakeAfter(row)
  /\ flush' = [flush EXCEPT ![f].row = row]
  /\ UNCHANGED <<now, kind, ledger, active, up, faults>>

FlushDone(f) ==
  /\ up /\ flush[f].row # NoRow
  /\ box' = box \ {flush[f].row}
  /\ Dropped(f, flush[f].row)
  /\ UNCHANGED <<now, kind, routine, occ, sdk, up, faults>>

\* The call fails; what it did may stand.  Its row stays.
FlushFails(f) ==
  /\ up /\ Fault
  /\ \/ /\ flush[f].row # NoRow /\ Dropped(f, flush[f].row)
     \/ /\ flush[f].row = NoRow
        /\ \E row \in flush[f].todo : Dropped(f, row)
  /\ UNCHANGED <<now, kind, ledger, sdk, up>>

\* The scheduler finds the slot too far ahead.
FlushInvalid(f, row) ==
  /\ up /\ Fault
  /\ flush[f].row = NoRow /\ row \in flush[f].todo /\ row[1] = "schedule"
  /\ routine.life = "active" /\ row[2] = NextKey(routine)
  /\ Set(Deferred(routine, box))
  /\ Dropped(f, row)
  /\ UNCHANGED <<now, kind, occ, sdk, up>>

-----------------------------------------------------------------------------
(* The scheduler, the clock and the process *)

Deliver(k) ==
  /\ up /\ active = NoActive
  /\ wake[k] = "queued" /\ k[2] <= now
  /\ active' = [key |-> k, stage |-> "begun"]
  /\ UNCHANGED <<now, kind, ledger, wake, flush, up, faults>>

DeliveryDone ==
  /\ up /\ active.stage = "drain"
  /\ wake' = [wake EXCEPT ![active.key] = "done"] /\ active' = NoActive
  /\ UNCHANGED <<now, kind, ledger, flush, up, faults>>

\* The hook throws, before its commit or after it, or passes its deadline.
DeliveryRejected ==
  /\ up /\ Fault
  /\ active.stage \in {"begun", "drain"} /\ active' = NoActive
  /\ UNCHANGED <<now, kind, ledger, wake, flush, up>>

Tick ==
  /\ now < End /\ now' = now + 1
  /\ UNCHANGED <<kind, ledger, sdk, flush, up, faults>>

Crash ==
  /\ up /\ Fault
  /\ up' = FALSE /\ active' = NoActive /\ flush' = [f \in Flusher |-> NoFlush]
  /\ UNCHANGED <<now, kind, ledger, wake>>

\* recover: a reserved wake that the scheduler does not have is scheduled again.
Recover ==
  /\ ~up /\ up' = TRUE
  /\ IF routine.next # NoSlot /\ wake[NextKey(routine)] # "queued"
     THEN Set(Scheduled(routine, box)) ELSE UNCHANGED <<routine, box>>
  /\ UNCHANGED <<now, kind, occ, sdk, flush, faults>>

-----------------------------------------------------------------------------

\* addRoutine, at time 0
Init ==
  LET r == [life |-> "active", def |-> 1, pend |-> 0, next |-> NoSlot, status |-> "ok"]
  IN /\ now = 0 /\ kind \in Kind
     /\ routine = Applied(r, NextSlot(1, 0), {})[1] /\ box = Applied(r, NextSlot(1, 0), {})[2]
     /\ occ = [k \in Key |-> NoOcc]
     /\ wake = [k \in Key |-> "none"] /\ active = NoActive
     /\ flush = [f \in Flusher |-> NoFlush] /\ up = TRUE /\ faults = 0

Next ==
  \/ SwitchVersions \/ Update \/ Pause \/ Complete \/ Resume \/ Consume \/ RetrySchedule
  \/ \E k \in Key : Conclude(k) \/ Promote(k) \/ Start(k) \/ Retry(k) \/ Settle(k) \/ Deliver(k)
  \/ \E f \in Flusher : \/ FlushStart(f) \/ FlushDone(f) \/ FlushFails(f)
                        \/ \E row \in flush[f].todo : FlushCall(f, row) \/ FlushInvalid(f, row)
  \/ DeliveryDone \/ DeliveryRejected \/ Tick \/ Crash \/ Recover

Spec == Init /\ [][Next]_vars

FlushStep(f) == FlushStart(f) \/ FlushDone(f) \/ \E row \in flush[f].todo : FlushCall(f, row)
WorkEnds     == \E k \in Key : Conclude(k) \/ Settle(k)
Delivery     == Consume \/ DeliveryDone \/ \E k \in Key : Deliver(k)

\* Scans come again, calls to the scheduler are answered, due wakes are
\* delivered, work ends and the clock goes on; a core that went down recovers.
Fairness ==
  /\ WF_vars(SwitchVersions) /\ WF_vars(RetrySchedule) /\ WF_vars(Delivery) /\ WF_vars(WorkEnds)
  /\ \A f \in Flusher : WF_vars(FlushStep(f))
  /\ WF_vars(Tick) /\ WF_vars(Recover)

FairSpec == Spec /\ Fairness

-----------------------------------------------------------------------------
(* Properties *)

\* The chain of an active routine is never lost: it has a next slot, unless a
\* staged version holds it or its calendar failed, and the wake of that slot is
\* with the scheduler or still in the outbox, whatever order pauses, resumes,
\* redeliveries, failed calls and restarts come in.  This holds where one caller at
\* a time sends the outbox's calls (Flusher = {"drain"}, a core without a memory);
\* a change of the memory sends them next to the drain, and can lose the wake.
ChainAlive ==
  routine.life = "active" =>
    /\ routine.next = NoSlot => routine.pend # 0 \/ routine.status = "calendar_error"
    /\ routine.next # NoSlot /\ routine.status = "ok" =>
         <<"schedule", NextKey(routine)>> \in box \/ wake[NextKey(routine)] = "queued"

\* Once a newer slot is recorded, an older occurrence runs to its end or is
\* settled; it never waits again, for a first start or for a retry.
OnlyNewestWaits ==
  \A k, l \in Key :
    occ[k].phase # "none" /\ occ[l].phase # "none" /\ k[2] < l[2] =>
      occ[k].phase \in {"running", "settled"} \/ occ[k].superseded

\* Work that is not settled belongs to the current definition: its job, its
\* waiting bound and its retries are read from there.
CurrentVersion == \A k \in Open : k[1] = routine.def

\* A staged version takes over, or the routine is paused or ends: the old chain
\* does not hold it back for ever.
StagedSwitches == routine.pend # 0 ~> routine.pend = 0 \/ routine.life # "active"
=============================================================================
