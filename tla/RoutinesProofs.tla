---------------------------- MODULE RoutinesProofs ----------------------------
(***************************************************************************)
(* The safety of a routine, for any intervals, clock, horizon and number   *)
(* of faults: unsettled work belongs to the current version, only the      *)
(* newest occurrence waits, and, where one flusher sends the wake calls,   *)
(* the chain of wakes is never lost.                                       *)
(*                                                                         *)
(* Inv orders the slots: what is recorded, delivered or done lies behind   *)
(* the reserved slot, which was ahead of the clock when it was chosen.     *)
(* Calls adds what the one flusher knows of the outbox.                    *)
(***************************************************************************)
EXTENDS Routines, TLAPS, WellFoundedInduction

-----------------------------------------------------------------------------
(* The inductive invariants *)

\* A slot is reserved only while the routine is active; an active routine without
\* one has a staged version or a calendar that failed.
PlanOK ==
  /\ routine.next # NoSlot => routine.life = "active"
  /\ routine.status = "schedule_retrying" => routine.next # NoSlot
  /\ routine.life = "active" /\ routine.next = NoSlot => routine.pend # 0 \/ routine.status = "calendar_error"

\* What was recorded or delivered is not the reserved wake, and not after it.
SlotsOK ==
  /\ \A k \in Key : occ[k].phase # "none" =>
       k[2] <= now /\ (routine.next # NoSlot => k[2] < routine.next)
  /\ active.stage # "none" => active.key \in Key /\ active.key[2] <= now
  /\ active.stage = "drain" => active.key # NextKey(routine)
  /\ \A k \in Key : wake[k] = "done" => k[2] <= now /\ k # NextKey(routine)

\* An overtaken occurrence is settled, will settle when it is promoted, or runs
\* with its retries cut off, at a time that no later pause takes for the reserved slot.
CutOff(o) == o.phase = "running" /\ o.until <= now /\ (routine.next # NoSlot => o.until < routine.next)

NewestOK ==
  /\ \A k \in Key : occ[k].superseded => occ[k].phase \in {"job", "hook"}
  /\ \A k, l \in Key : occ[k].phase # "none" /\ occ[l].phase # "none" /\ k[2] < l[2] =>
       occ[k].phase = "settled" \/ occ[k].superseded \/ CutOff(occ[k])

Schedule(k) == <<"schedule", k>>
CancelOf(k) == <<"cancel", k>>

\* A wake is to be scheduled or to be cancelled, not both.
OneCall(rows) == \A k \in Key : ~(Schedule(k) \in rows /\ CancelOf(k) \in rows)

Inv ==
  /\ TypeOK
  /\ PlanOK
  /\ OneCall(box)
  /\ SlotsOK
  /\ NewestOK
  /\ CurrentVersion

\* What a flusher holds: rows of one snapshot, the call under way among them, and
\* what it has scheduled the scheduler has or had.
FlushOK ==
  \A f \in Flusher :
    /\ OneCall(flush[f].todo)
    /\ flush[f].row # NoRow => flush[f].row \in flush[f].todo
    /\ \A k \in Key : flush[f].row = Schedule(k) => wake[k] # "none"

\* The reserved wake is in the outbox, or with the scheduler and no snapshot
\* still cancels it.
Reserved ==
  routine.next # NoSlot /\ routine.status = "ok" =>
    /\ CancelOf(NextKey(routine)) \notin box
    /\ \/ Schedule(NextKey(routine)) \in box
       \/ /\ wake[NextKey(routine)] = "queued"
          /\ \A f \in Flusher : CancelOf(NextKey(routine)) \notin flush[f].todo

Calls ==
  /\ FlushOK
  /\ Reserved
  /\ ~up => flush = [f \in Flusher |-> NoFlush]

-----------------------------------------------------------------------------
(* Slots and plans *)

LEMMA Bounds ==
  /\ End \in Nat /\ Horizon \in Nat /\ MaxFaults \in Nat
  /\ Version \subseteq Nat \ {0} /\ 1 \in Version /\ Slot \subseteq Nat \ {0} /\ NoSlot \notin Slot
  /\ \A k \in Key : k[1] \in Version /\ k[2] \in Slot /\ k = <<k[1], k[2]>>
<1>1. End \in Nat /\ Horizon \in Nat /\ MaxFaults \in Nat
  BY RoutinesAssumption
<1>2. Every \in Seq(Nat \ {0}) /\ Every # <<>>
  BY RoutinesAssumption
<1>3. Version = 1 .. Len(Every) /\ Len(Every) \in Nat /\ Len(Every) # 0
  BY <1>2 DEF Version
<1>4. Slot \subseteq Nat \ {0} /\ NoSlot \notin Slot
  BY <1>1 DEF Slot, NoSlot
<1> QED
  BY <1>1, <1>3, <1>4 DEF Key

LEMMA LeastSlot ==
  ASSUME NEW S \in SUBSET Nat, S # {}
  PROVE  Min(S) \in S /\ \A y \in S : Min(S) <= y
<1> DEFINE R == {p \in Nat \X Nat : p[1] < p[2]}
<1>1. IsWellFoundedOn(R, Nat)
  BY NatLessThanWellFounded, Zenon DEF OpToRel
<1>2. PICK x \in S : \A y \in S : <<y, x>> \notin R
  <2> HIDE DEF R
  <2> QED
    BY <1>1, WFMin
<1>3. \A y \in S : x <= y
  <2>1. ASSUME NEW y \in S PROVE ~(y < x)
    BY <1>2, <2>1
  <2> QED
    BY <2>1
<1> QED
  BY <1>3 DEF Min

LEMMA MinOfTwo ==
  ASSUME NEW a \in Nat, NEW b \in Nat
  PROVE  Min({a, b}) \in {a, b} /\ Min({a, b}) <= a /\ Min({a, b}) <= b
BY LeastSlot

LEMMA MaxOfTwo ==
  ASSUME NEW a \in Nat, NEW b \in Nat
  PROVE  Max({a, b}) \in {a, b} /\ Max({a, b}) >= a /\ Max({a, b}) >= b
<1>1. \E x \in {a, b} : \A y \in {a, b} : x >= y
  OBVIOUS
<1> QED
  BY <1>1 DEF Max

\* nextWake: a slot after the given time, or none.
LEMMA NextSlotLater ==
  ASSUME NEW v, NEW after
  PROVE  /\ NextSlot(v, after) \in Slot \union {NoSlot}
         /\ NextSlot(v, after) # NoSlot => NextSlot(v, after) > after
<1> DEFINE later == {s \in Slot : s > after /\ s % Every[v] = 0}
<1>1. CASE later = {}
  BY <1>1 DEF NextSlot
<1>2. CASE later # {}
  <2>1. later \in SUBSET Nat
    BY Bounds
  <2>2. Min(later) \in later
    <3> HIDE DEF later
    <3> QED
      BY <1>2, <2>1, LeastSlot
  <2> QED
    BY <1>2, <2>2 DEF NextSlot
<1> QED
  BY <1>1, <1>2

LEMMA NextKeyIsKey ==
  ASSUME NEW r \in Routine, r.next # NoSlot
  PROVE  /\ NextKey(r) \in Key /\ NextKey(r)[1] = r.def /\ NextKey(r)[2] = r.next
         /\ Schedule(NextKey(r)) \in Row /\ CancelOf(NextKey(r)) \in Row
<1>1. r.def \in Version /\ r.next \in Slot
  BY DEF Routine
<1>2. NextKey(r) \in Key /\ NextKey(r)[1] = r.def /\ NextKey(r)[2] = r.next
  BY <1>1 DEF NextKey, Key
<1> QED
  BY <1>2 DEF Schedule, CancelOf, Row

\* The wake calls of different keys, and of the two kinds, differ.
LEMMA CallsDiffer ==
  \A k, l : /\ Schedule(k) # CancelOf(l)
            /\ Schedule(k) = Schedule(l) => k = l
            /\ CancelOf(k) = CancelOf(l) => k = l
BY DEF Schedule, CancelOf

\* A plan that was just made: its slot is ahead, and its wake is to be
\* scheduled, unless that must wait.
Planned(r, rows) ==
  /\ r \in Routine /\ rows \subseteq Row /\ OneCall(rows)
  /\ r.next # NoSlot => r.life = "active" /\ r.next > now
  /\ r.status = "schedule_retrying" => r.next # NoSlot
  /\ r.life = "active" /\ r.next = NoSlot => r.pend # 0 \/ r.status = "calendar_error"
  /\ r.next # NoSlot /\ r.status = "ok" =>
       CancelOf(NextKey(r)) \notin rows /\ Schedule(NextKey(r)) \in rows

\* scheduleNext and deferSchedule
LEMMA ScheduledRow ==
  ASSUME NEW r \in Routine, NEW rows \in SUBSET Row, r.life = "active", r.next # NoSlot, now \in Nat
  PROVE  LET x == Scheduled(r, rows)
         IN /\ x[1] \in Routine /\ x[1].life = r.life /\ x[1].def = r.def /\ x[1].pend = r.pend
            /\ x[1].next = r.next /\ x[1].status \in {"ok", "schedule_retrying"}
            /\ x[2] \subseteq Row /\ (OneCall(rows) => OneCall(x[2]))
            /\ x[1].status = "ok" => CancelOf(NextKey(r)) \notin x[2] /\ Schedule(NextKey(r)) \in x[2]
<1> DEFINE k == NextKey(r)
           x == Scheduled(r, rows)
<1>1. /\ k \in Key /\ <<"schedule", k>> = Schedule(k) /\ <<"cancel", k>> = CancelOf(k)
      /\ Schedule(k) \in Row /\ CancelOf(k) \in Row
  BY NextKeyIsKey DEF Schedule, CancelOf
<1>2. CASE r.next - now > Horizon
  <2>1. x = <<[r EXCEPT !.status = "schedule_retrying"], rows \ {Schedule(k)}>>
    BY <1>1, <1>2 DEF Scheduled, Deferred
  <2> HIDE DEF x, k
  <2> QED
    BY <2>1 DEF Routine, OneCall, x
<1>3. CASE ~(r.next - now > Horizon)
  <2>1. x = <<[r EXCEPT !.status = "ok"], (rows \ {CancelOf(k)}) \union {Schedule(k)}>>
    BY <1>1, <1>3 DEF Scheduled
  <2>2. x[2] \subseteq Row /\ Schedule(k) \in x[2] /\ CancelOf(k) \notin x[2]
    BY <1>1, <2>1, CallsDiffer
  <2>3. OneCall(rows) => OneCall(x[2])
    <3> HIDE DEF x, k
    <3> QED
      BY <2>1, CallsDiffer DEF OneCall
  <2> HIDE DEF k
  <2>4. /\ x[1] \in Routine /\ x[1].life = r.life /\ x[1].def = r.def /\ x[1].pend = r.pend
        /\ x[1].next = r.next /\ x[1].status = "ok"
    <3> HIDE DEF x
    <3> QED
      BY <2>1 DEF Routine
  <2> QED
    BY <2>2, <2>3, <2>4 DEF k
<1> QED
  BY <1>2, <1>3

\* applyPlan
LEMMA AppliedPlan ==
  ASSUME NEW r \in Routine, r.life = "active", NEW slot \in Slot \union {NoSlot}, slot # NoSlot => slot > now,
         NEW rows \in SUBSET Row, OneCall(rows), now \in Nat
  PROVE  LET x == Applied(r, slot, rows)
         IN Planned(x[1], x[2]) /\ x[1].def = r.def
<1> DEFINE x == Applied(r, slot, rows)
<1>1. CASE slot = NoSlot
  <2>1. x = <<[r EXCEPT !.next = NoSlot, !.status = "ok", !.life = "completed", !.pend = 0], rows>>
    BY <1>1 DEF Applied
  <2> HIDE DEF x
  <2>2. x[1] \in Routine /\ x[1].def = r.def /\ x[1].next = NoSlot /\ x[1].status = "ok" /\ x[1].life = "completed"
    BY <2>1 DEF Routine
  <2> QED
    BY <2>1, <2>2 DEF Planned, x
<1>2. CASE slot # NoSlot
  <2> DEFINE q == [r EXCEPT !.next = slot, !.status = "ok"]
  <2>1. q \in Routine /\ q.next = slot /\ q.life = "active" /\ q.def = r.def
    BY DEF Routine
  <2>2. x = Scheduled(q, rows)
    BY <1>2 DEF Applied
  <2> HIDE DEF q, x
  <2>3. /\ x[1] \in Routine /\ x[1].life = "active" /\ x[1].def = r.def /\ x[1].next = slot
        /\ x[2] \subseteq Row /\ OneCall(x[2])
        /\ x[1].status = "ok" => CancelOf(NextKey(q)) \notin x[2] /\ Schedule(NextKey(q)) \in x[2]
    BY <1>2, <2>1, <2>2, ScheduledRow
  <2>4. NextKey(q) = NextKey(x[1])
    BY <2>1, <2>3 DEF NextKey
  <2> QED
    BY <1>2, <2>3, <2>4 DEF Planned, x
<1> QED
  BY <1>1, <1>2

\* cancelWake
LEMMA CancelledRows ==
  ASSUME NEW r \in Routine, NEW rows \in SUBSET Row, OneCall(rows)
  PROVE  CancelRows(r, rows) \subseteq Row /\ OneCall(CancelRows(r, rows))
<1>1. CASE r.next = NoSlot
  BY <1>1 DEF CancelRows
<1>2. CASE r.next # NoSlot
  <2> DEFINE k == NextKey(r)
  <2>1. CancelRows(r, rows) = (rows \ {Schedule(k)}) \union {CancelOf(k)} /\ CancelOf(k) \in Row
    BY <1>2, NextKeyIsKey DEF CancelRows, Schedule, CancelOf
  <2> HIDE DEF k
  <2> QED
    BY <2>1, CallsDiffer DEF OneCall
<1> QED
  BY <1>1, <1>2

\* switchVersion
LEMMA SwitchedPlan ==
  ASSUME NEW r \in Routine, SwitchDue(r), NEW rows \in SUBSET Row, OneCall(rows), now \in Nat,
         NEW x \in {Switched(r, rows), SwitchedWithError(r, rows)}
  PROVE  Planned(x[1], x[2])
<1>1. r.life = "active" /\ r.pend \in Version
  BY DEF SwitchDue, Routine
<1>2. CancelRows(r, rows) \subseteq Row /\ OneCall(CancelRows(r, rows))
  BY CancelledRows
<1>3. CASE x = Switched(r, rows)
  <2> DEFINE q == [r EXCEPT !.def = r.pend, !.pend = 0]
  <2>1. q \in Routine /\ q.life = "active"
    BY <1>1 DEF Routine
  <2>2. x = Applied(q, NextSlot(r.pend, now), CancelRows(r, rows))
    BY <1>3 DEF Switched
  <2> HIDE DEF q
  <2> QED
    BY <1>2, <2>1, <2>2, AppliedPlan, NextSlotLater
<1>4. CASE x = SwitchedWithError(r, rows)
  <2>1. x = <<[r EXCEPT !.def = r.pend, !.pend = 0, !.next = NoSlot, !.status = "calendar_error"], CancelRows(r, rows)>>
    BY <1>4 DEF SwitchedWithError
  <2>2. x[1] \in Routine /\ x[1].next = NoSlot /\ x[1].status = "calendar_error"
    BY <1>1, <2>1 DEF Routine
  <2> QED
    BY <1>2, <2>1, <2>2 DEF Planned
<1> QED
  BY <1>3, <1>4

-----------------------------------------------------------------------------
(* Steps that make a plan *)

\* What lies behind the clock lies behind a plan that was just made.
LEMMA BehindPlan ==
  ASSUME NEW r, NEW rows, Planned(r, rows), NEW k \in Key, k[2] <= now, now \in Nat
  PROVE  k # NextKey(r) /\ (r.next # NoSlot => k[2] < r.next)
<1>1. k[2] \in Nat \ {0} /\ r \in Routine
  BY Bounds DEF Planned
<1>2. CASE r.next = NoSlot
  BY <1>1, <1>2 DEF NextKey, NoSlot
<1>3. CASE r.next # NoSlot
  <2>1. r.next \in Nat /\ r.next > now
    BY <1>1, <1>3, Bounds DEF Planned, Routine
  <2>2. k[2] < r.next
    BY <1>1, <2>1
  <2> QED
    BY <1>1, <2>1, <2>2 DEF NextKey
<1> QED
  BY <1>2, <1>3

LEMMA ReplanKeepsInv ==
  ASSUME Inv, Planned(routine', box'), UNCHANGED <<now, kind, wake, flush, up>>, faults' \in 0 .. MaxFaults,
         occ' \in [Key -> Occurrence], NewestOK', CurrentVersion',
         \A k \in Key : occ'[k].phase # "none" => k[2] <= now,
         active' \in [key : Key \union {NoKey}, stage : {"none", "begun", "drain"}],
         active'.stage # "none" => active'.key \in Key /\ active'.key[2] <= now
  PROVE  Inv'
<1>1. now \in Nat
  BY Bounds DEF Inv, TypeOK
<1>2. TypeOK'
  BY DEF Inv, TypeOK, Planned
<1>3. PlanOK' /\ OneCall(box)'
  BY DEF Planned, PlanOK, OneCall, Schedule, CancelOf
<1>4. SlotsOK'
  <2>1. ASSUME NEW k \in Key, occ'[k].phase # "none"
        PROVE  k[2] <= now /\ (routine'.next # NoSlot => k[2] < routine'.next)
    BY <1>1, <2>1, BehindPlan
  <2>2. active'.stage = "drain" => active'.key # NextKey(routine')
    BY <1>1, BehindPlan
  <2>3. ASSUME NEW k \in Key, wake[k] = "done"
        PROVE  k[2] <= now /\ k # NextKey(routine')
    BY <1>1, <2>3, BehindPlan DEF Inv, SlotsOK
  <2> QED
    BY <2>1, <2>2, <2>3 DEF SlotsOK, NextKey
<1> QED
  BY <1>2, <1>3, <1>4 DEF Inv

\* A plan that leaves the occurrences and the delivery alone.
LEMMA CommandPlan ==
  ASSUME Inv, Planned(routine', box'), UNCHANGED <<now, kind, occ, sdk, flush, up>>, faults' \in 0 .. MaxFaults,
         Open # {} => routine'.def = routine.def
  PROVE  Inv'
<1>1. now \in Nat /\ occ \in [Key -> Occurrence] /\ \A k \in Key : occ[k].until \in Nat
  BY Bounds DEF Inv, TypeOK, Occurrence, Never
<1>2. NewestOK'
  <2>1. ASSUME NEW k \in Key, CutOff(occ[k])
        PROVE  CutOff(occ[k])'
    <3>1. routine'.next # NoSlot => routine'.next \in Nat /\ routine'.next > now
      BY Bounds DEF Planned, Routine
    <3> QED
      BY <1>1, <2>1, <3>1 DEF CutOff
  <2> QED
    BY <2>1 DEF Inv, NewestOK
<1>3. CurrentVersion'
  BY DEF Inv, CurrentVersion, Open
<1>4. /\ active' \in [key : Key \union {NoKey}, stage : {"none", "begun", "drain"}]
      /\ active'.stage # "none" => active'.key \in Key /\ active'.key[2] <= now
      /\ \A k \in Key : occ'[k].phase # "none" => k[2] <= now
      /\ UNCHANGED <<now, kind, wake, flush, up>> /\ occ' \in [Key -> Occurrence]
  BY <1>1 DEF Inv, TypeOK, SlotsOK, sdk
<1> QED
  BY <1>2, <1>3, <1>4, ReplanKeepsInv

LEMMA FaultType ==
  ASSUME TypeOK, Fault
  PROVE  faults' \in 0 .. MaxFaults
BY Bounds DEF TypeOK, Fault

LEMMA RoutineFields ==
  ASSUME Inv
  PROVE  /\ TypeOK /\ now \in Nat /\ routine \in Routine /\ box \in SUBSET Row /\ OneCall(box)
         /\ faults \in 0 .. MaxFaults
BY Bounds DEF Inv, TypeOK

\* switchVersions
LEMMA SwitchKeepsInv ==
  ASSUME Inv, SwitchVersions
  PROVE  Inv' /\ Planned(routine', box')
<1>1. PICK x \in {Switched(routine, box), SwitchedWithError(routine, box)} : routine' = x[1] /\ box' = x[2]
  BY DEF SwitchVersions, Switch, Set
<1>2. Planned(routine', box')
  BY <1>1, RoutineFields, SwitchedPlan DEF SwitchVersions
<1>3. faults' \in 0 .. MaxFaults
  BY RoutineFields, FaultType DEF SwitchVersions, Switch
<1>4. Open = {} /\ UNCHANGED <<now, kind, occ, sdk, flush, up>>
  BY DEF SwitchVersions, SwitchDue
<1> QED
  BY <1>2, <1>3, <1>4, CommandPlan

\* stageVersion: only pend changes, unless the version is due.
LEMMA StagedRoutine ==
  ASSUME Inv, Update
  PROVE  LET r == [routine EXCEPT !.pend = Max({routine.def, routine.pend}) + 1]
         IN /\ r \in Routine /\ r.def = routine.def /\ r.next = routine.next /\ r.status = routine.status
            /\ r.life = routine.life /\ r.pend # 0
<1> DEFINE v == Max({routine.def, routine.pend}) + 1
<1>1. v \in Version /\ v # 0
  BY Bounds DEF Update
<1> HIDE DEF v
<1>2. routine \in Routine
  BY RoutineFields
<1> SUFFICES LET r == [routine EXCEPT !.pend = v]
             IN /\ r \in Routine /\ r.def = routine.def /\ r.next = routine.next /\ r.status = routine.status
                /\ r.life = routine.life /\ r.pend # 0
  BY DEF v
<1> QED
  BY <1>1, <1>2 DEF Routine

LEMMA UpdateKeepsInv ==
  ASSUME Inv, Update
  PROVE  /\ Inv'
         /\ \/ Planned(routine', box')
            \/ box' = box /\ routine'.next = routine.next /\ routine'.status = routine.status
                /\ NextKey(routine') = NextKey(routine)
<1> DEFINE r == [routine EXCEPT !.pend = Max({routine.def, routine.pend}) + 1]
<1>1. /\ UNCHANGED <<now, kind, occ, sdk, flush, up, faults>>
      /\ IF SwitchDue(r) THEN Set(Switched(r, box)) ELSE Set(<<r, box>>)
  BY DEF Update
<1>2. /\ r \in Routine /\ r.def = routine.def /\ r.next = routine.next /\ r.status = routine.status
      /\ r.life = routine.life /\ r.pend # 0
  BY StagedRoutine
<1>3. /\ TypeOK /\ now \in Nat /\ routine \in Routine /\ box \in SUBSET Row /\ OneCall(box)
      /\ faults \in 0 .. MaxFaults
  BY RoutineFields
<1> HIDE DEF r
<1>4. CASE SwitchDue(r)
  <2>1. Planned(routine', box')
    BY <1>1, <1>2, <1>3, <1>4, SwitchedPlan DEF Set
  <2>2. Open = {}
    BY <1>4 DEF SwitchDue
  <2> QED
    BY <1>1, <1>3, <2>1, <2>2, CommandPlan
<1>5. CASE ~SwitchDue(r)
  <2>1. routine' = r /\ box' = box
    BY <1>1, <1>5 DEF Set
  <2>2. TypeOK'
    BY <1>1, <1>2, <1>3, <2>1 DEF TypeOK, sdk
  <2>3. PlanOK' /\ OneCall(box)'
    BY <1>2, <1>3, <2>1 DEF Inv, PlanOK, OneCall, Schedule, CancelOf
  <2>4. NextKey(routine') = NextKey(routine)
    BY <1>2, <2>1 DEF NextKey
  <2>5. SlotsOK' /\ NewestOK' /\ CurrentVersion'
    BY <1>1, <1>2, <2>1, <2>4 DEF Inv, SlotsOK, NextKey, NewestOK, CutOff, CurrentVersion, Open, sdk
  <2> QED
    BY <1>2, <2>1, <2>2, <2>3, <2>4, <2>5 DEF Inv
<1> QED
  BY <1>4, <1>5

LEMMA HaltedPlan ==
  ASSUME Inv, NEW life \in {"paused", "completed"}
  PROVE  Planned(Halted(life), CancelRows(routine, box)) /\ Halted(life).def = routine.def
<1> DEFINE r == Halted(life)
<1>1. routine \in Routine /\ routine.pend \in Version \union {0}
  BY RoutineFields DEF Routine
<1>2. r \in Routine /\ r.next = NoSlot /\ r.life = life /\ r.def = routine.def /\ r.status = "ok"
  BY <1>1 DEF Halted, Routine
<1>3. CancelRows(routine, box) \subseteq Row /\ OneCall(CancelRows(routine, box))
  BY RoutineFields, CancelledRows
<1> HIDE DEF r
<1>4. Planned(r, CancelRows(routine, box))
  BY <1>2, <1>3 DEF Planned
<1> QED
  BY <1>2, <1>4 DEF r

LEMMA CompleteKeepsInv ==
  ASSUME Inv, Complete
  PROVE  Inv' /\ Planned(routine', box')
<1>1. routine' = Halted("completed") /\ box' = CancelRows(routine, box)
  BY DEF Complete, Set
<1>2. Planned(routine', box') /\ routine'.def = routine.def
  BY <1>1, HaltedPlan
<1> QED
  BY <1>2, RoutineFields, CommandPlan DEF Complete

\* The cutoff that a pause lifts is that of the reserved slot, which only the
\* newest occurrence has.
LEMMA PauseKeepsInv ==
  ASSUME Inv, Pause
  PROVE  Inv' /\ Planned(routine', box')
<1>1. /\ routine' = Halted("paused") /\ box' = CancelRows(routine, box)
      /\ UNCHANGED <<now, kind, sdk, flush, up, faults>>
      /\ occ' = [k \in Key |-> IF k \in Open /\ routine.next # NoSlot /\ occ[k].until = routine.next
                               THEN [occ[k] EXCEPT !.until = Never] ELSE occ[k]]
  BY DEF Pause, Set
<1>2. Planned(routine', box') /\ routine'.def = routine.def /\ routine'.next = NoSlot
  BY <1>1, HaltedPlan DEF Halted, Inv, TypeOK, Routine
<1>3. /\ now \in Nat /\ occ \in [Key -> Occurrence] /\ Never \in 0 .. Never
      /\ \A k \in Key : occ[k].until \in Nat
  BY Bounds DEF Inv, TypeOK, Occurrence, Never
<1>4. /\ occ' \in [Key -> Occurrence]
      /\ \A k \in Key : /\ occ'[k].phase = occ[k].phase /\ occ'[k].superseded = occ[k].superseded
                        /\ CutOff(occ[k]) => occ'[k] = occ[k]
  <2>1. ASSUME NEW k \in Key
        PROVE  /\ occ'[k] \in Occurrence /\ occ'[k].phase = occ[k].phase /\ occ'[k].superseded = occ[k].superseded
               /\ CutOff(occ[k]) => occ'[k] = occ[k]
    <3>1. CASE k \in Open /\ routine.next # NoSlot /\ occ[k].until = routine.next
      <4>1. occ'[k] = [occ[k] EXCEPT !.until = Never] /\ occ[k] \in Occurrence
        BY <1>1, <1>3, <2>1, <3>1
      <4>2. ~CutOff(occ[k])
        BY <1>3, <3>1 DEF CutOff
      <4> QED
        BY <1>3, <4>1, <4>2 DEF Occurrence
    <3>2. CASE ~(k \in Open /\ routine.next # NoSlot /\ occ[k].until = routine.next)
      BY <1>1, <1>3, <3>2
    <3> QED
      BY <3>1, <3>2
  <2> QED
    BY <1>1, <2>1
<1>5. NewestOK'
  <2>1. ASSUME NEW k \in Key, CutOff(occ[k])
        PROVE  CutOff(occ[k])'
    BY <1>1, <1>2, <1>4, <2>1 DEF CutOff
  <2> QED
    BY <1>4, <2>1 DEF Inv, NewestOK
<1>6. CurrentVersion'
  BY <1>2, <1>4 DEF Inv, CurrentVersion, Open
<1>7. /\ active' \in [key : Key \union {NoKey}, stage : {"none", "begun", "drain"}]
      /\ active'.stage # "none" => active'.key \in Key /\ active'.key[2] <= now
      /\ \A k \in Key : occ'[k].phase # "none" => k[2] <= now
      /\ UNCHANGED <<now, kind, wake, flush, up>> /\ faults' \in 0 .. MaxFaults
  BY <1>1, <1>4 DEF Inv, TypeOK, SlotsOK, sdk
<1> QED
  BY <1>2, <1>4, <1>5, <1>6, <1>7, ReplanKeepsInv

LEMMA ResumeKeepsInv ==
  ASSUME Inv, Resume
  PROVE  Inv' /\ Planned(routine', box')
<1> DEFINE r == [routine EXCEPT !.life = "active"]
<1>1. /\ UNCHANGED <<now, kind, occ, sdk, flush, up>>
      /\ \/ SwitchDue(r) /\ Switch(r)
         \/ ~SwitchDue(r) /\ Set(Applied(r, NextSlot(r.def, now), box)) /\ UNCHANGED faults
  BY DEF Resume
<1>2. r \in Routine /\ r.life = "active" /\ r.def = routine.def
  BY RoutineFields DEF Routine
<1> HIDE DEF r
<1>3. CASE SwitchDue(r) /\ Switch(r)
  <2>1. PICK x \in {Switched(r, box), SwitchedWithError(r, box)} : routine' = x[1] /\ box' = x[2]
    BY <1>3 DEF Switch, Set
  <2>2. Planned(routine', box') /\ Open = {}
    BY <1>2, <1>3, <2>1, RoutineFields, SwitchedPlan DEF SwitchDue
  <2>3. faults' \in 0 .. MaxFaults
    BY <1>3, RoutineFields, FaultType DEF Switch
  <2> QED
    BY <1>1, <2>2, <2>3, RoutineFields, CommandPlan
<1>4. CASE Set(Applied(r, NextSlot(r.def, now), box)) /\ UNCHANGED faults
  <2> DEFINE x == Applied(r, NextSlot(r.def, now), box)
  <2>1. Planned(x[1], x[2]) /\ x[1].def = r.def
    BY <1>2, RoutineFields, AppliedPlan, NextSlotLater
  <2>2. routine' = x[1] /\ box' = x[2]
    BY <1>4 DEF Set
  <2> HIDE DEF x
  <2> QED
    BY <1>1, <1>2, <1>4, <2>1, <2>2, RoutineFields, CommandPlan
<1> QED
  BY <1>1, <1>3, <1>4

-----------------------------------------------------------------------------
(* A wake is delivered *)

LEMMA OccFields ==
  ASSUME NEW o \in Occurrence
  PROVE  /\ o.phase \in {"none", "job", "hook", "queued", "running", "backoff", "settled"} /\ o.until \in Nat
         /\ o.nextAt \in Slot \union {NoSlot} /\ o.superseded \in BOOLEAN
BY Bounds DEF Occurrence, Never

LEMMA NewOcc ==
  /\ NoOcc \in Occurrence /\ NoOcc.superseded = FALSE
  /\ Settled \in Occurrence /\ Settled.phase = "settled" /\ Settled.superseded = FALSE
  /\ \A slot \in Slot \union {NoSlot} : Until(slot) \in 0 .. Never
<1>1. Never \in 0 .. Never /\ \A slot \in Slot : slot \in 0 .. Never
  BY Bounds DEF Never, Slot
<1>2. NoOcc \in Occurrence /\ NoOcc.superseded = FALSE
  BY <1>1 DEF NoOcc, Occurrence
<1>3. Settled \in Occurrence /\ Settled.phase = "settled" /\ Settled.superseded = FALSE
  BY <1>2 DEF Settled, Occurrence
<1>4. \A slot \in Slot \union {NoSlot} : Until(slot) \in 0 .. Never
  BY <1>1 DEF Until
<1> QED
  BY <1>2, <1>3, <1>4

\* What a newer slot makes of an occurrence.
LEMMA OvertakenOcc ==
  ASSUME NEW o \in Occurrence, now \in Nat, o.superseded => o.phase \in {"job", "hook"}
  PROVE  LET x == Overtaken(o)
         IN /\ x \in Occurrence
            /\ x.phase = "none" <=> o.phase = "none"
            /\ x.phase \notin {"none", "settled"} => o.phase \notin {"none", "settled"}
            /\ x.superseded => x.phase \in {"job", "hook"}
            /\ x.phase \in {"none", "settled"} \/ x.superseded \/ (x.phase = "running" /\ x.until <= now)
<1> DEFINE x == Overtaken(o)
<1>1. CASE o.phase \in {"job", "hook"}
  BY <1>1 DEF Overtaken, Occurrence
<1>2. CASE o.phase \in {"queued", "backoff"}
  BY <1>2, NewOcc DEF Overtaken
<1>3. CASE o.phase = "running"
  <2> DEFINE m == Min({o.until, now})
  <2>1. m \in {o.until, now} /\ m <= o.until /\ m <= now /\ o.until \in Nat /\ o.until \in 0 .. Never
    BY OccFields, MinOfTwo DEF Occurrence
  <2>2. m \in 0 .. Never
    BY <2>1, Bounds DEF Never
  <2> HIDE DEF m
  <2>3. x = [o EXCEPT !.until = m]
    BY <1>3 DEF Overtaken, m
  <2> HIDE DEF x
  <2> QED
    BY <1>3, <2>1, <2>2, <2>3 DEF Occurrence, x
<1>4. CASE o.phase \in {"none", "settled"}
  BY <1>4 DEF Overtaken
<1> QED
  BY <1>1, <1>2, <1>3, <1>4, OccFields

LEMMA RecordedOcc ==
  ASSUME kind \in Kind, NEW slot \in Slot \union {NoSlot}
  PROVE  /\ Recorded(slot) \in Occurrence /\ Recorded(slot).phase \notin {"none", "settled"}
         /\ Recorded(slot).superseded = FALSE
<1>1. kind \in {"execution", "hostJob", "hostOccurrence"}
  BY RoutinesAssumption
<1>2. FirstPhase \in {"queued", "job", "hook"}
  BY <1>1 DEF FirstPhase
<1> QED
  BY <1>2, NewOcc DEF Recorded, Occurrence

\* recordOccurrence: the new occurrence is the newest, and overtakes the others.
LEMMA RecordPlan ==
  ASSUME Inv, NEW k \in Key, k[2] <= now, routine.life = "active", NextKey(routine) = k, Record(k)
  PROVE  /\ Planned(routine', box') /\ routine'.def = routine.def /\ faults' \in 0 .. MaxFaults
         /\ \E slot \in Slot \union {NoSlot} :
              occ' = [l \in Key |-> IF l = k THEN Recorded(slot) ELSE Overtaken(occ[l])]
<1> DEFINE slot == IF routine.pend # 0 THEN NoSlot ELSE NextSlot(routine.def, Max({now, k[2]}))
<1>1. /\ TypeOK /\ now \in Nat /\ routine \in Routine /\ box \in SUBSET Row /\ OneCall(box)
      /\ faults \in 0 .. MaxFaults /\ k[2] \in Nat
  BY RoutineFields, Bounds
<1>2. slot \in Slot \union {NoSlot} /\ (slot # NoSlot => slot > now)
  <2>1. Max({now, k[2]}) \in Nat /\ Max({now, k[2]}) >= now
    BY <1>1, MaxOfTwo
  <2> DEFINE m == Max({now, k[2]})
             s == NextSlot(routine.def, m)
  <2>2. s \in Slot \union {NoSlot} /\ (s # NoSlot => s > m)
    BY NextSlotLater
  <2> HIDE DEF s, m
  <2>3. s # NoSlot => s > now
    <3>1. s # NoSlot => s \in Nat
      BY <2>2, Bounds
    <3> QED
      BY <1>1, <2>1, <2>2, <3>1 DEF m
  <2> QED
    BY <2>2, <2>3 DEF s, m
<1>3. CASE /\ UNCHANGED faults
           /\ IF routine.pend # 0 THEN Set(<<[routine EXCEPT !.next = NoSlot, !.status = "ok"], box>>)
              ELSE Set(Applied(routine, slot, box))
           /\ occ' = [l \in Key |-> IF l = k THEN Recorded(slot) ELSE Overtaken(occ[l])]
  <2> HIDE DEF slot
  <2>1. CASE routine.pend # 0
    <3>1. routine' = [routine EXCEPT !.next = NoSlot, !.status = "ok"] /\ box' = box
      BY <1>3, <2>1 DEF Set
    <3>2. /\ routine' \in Routine /\ routine'.next = NoSlot /\ routine'.status = "ok"
          /\ routine'.pend = routine.pend /\ routine'.def = routine.def
      BY <1>1, <3>1 DEF Routine
    <3> QED
      BY <1>1, <1>2, <1>3, <2>1, <3>1, <3>2 DEF Planned
  <2>2. CASE routine.pend = 0
    <3> DEFINE x == Applied(routine, slot, box)
    <3>1. Planned(x[1], x[2]) /\ x[1].def = routine.def
      BY <1>1, <1>2, AppliedPlan
    <3>2. routine' = x[1] /\ box' = x[2]
      BY <1>3, <2>2 DEF Set
    <3> HIDE DEF x
    <3> QED
      BY <1>1, <1>2, <1>3, <3>1, <3>2
  <2> QED
    BY <2>1, <2>2
<1>4. CASE /\ Fault /\ Set(<<[routine EXCEPT !.next = NoSlot, !.status = "calendar_error"], box>>)
           /\ occ' = [l \in Key |-> IF l = k THEN Recorded(NoSlot) ELSE Overtaken(occ[l])]
  <2>1. routine' = [routine EXCEPT !.next = NoSlot, !.status = "calendar_error"] /\ box' = box
    BY <1>4 DEF Set
  <2>2. routine' \in Routine /\ routine'.next = NoSlot /\ routine'.status = "calendar_error" /\ routine'.def = routine.def
    BY <1>1, <2>1 DEF Routine
  <2> QED
    BY <1>1, <1>4, <2>1, <2>2, FaultType DEF Planned
<1> QED
  BY <1>3, <1>4 DEF Record

LEMMA ConsumeKeepsInv ==
  ASSUME Inv, Consume
  PROVE  Inv' /\ (Planned(routine', box') \/ UNCHANGED <<routine, box>>)
<1> DEFINE k == active.key
<1>1. /\ active.stage = "begun" /\ active' = [active EXCEPT !.stage = "drain"]
      /\ UNCHANGED <<now, kind, wake, flush, up>>
  BY DEF Consume
<1>2. /\ k \in Key /\ k[2] <= now /\ now \in Nat /\ occ \in [Key -> Occurrence] /\ kind \in Kind
      /\ active \in [key : Key \union {NoKey}, stage : {"none", "begun", "drain"}]
  BY <1>1, Bounds DEF Inv, TypeOK, SlotsOK
<1>3. /\ active' \in [key : Key \union {NoKey}, stage : {"none", "begun", "drain"}]
      /\ active'.key = k /\ active'.stage = "drain"
  BY <1>1, <1>2
<1>4. CASE occ[k].phase = "none" /\ routine.life = "active" /\ NextKey(routine) = k /\ Record(k)
  <2> HIDE DEF k
  <2>1. Planned(routine', box') /\ routine'.def = routine.def /\ faults' \in 0 .. MaxFaults
    BY <1>2, <1>4, RecordPlan
  <2>2. PICK slot \in Slot \union {NoSlot} :
           occ' = [l \in Key |-> IF l = k THEN Recorded(slot) ELSE Overtaken(occ[l])]
    BY <1>2, <1>4, RecordPlan
  <2>3. k[1] = routine.def /\ k[2] = routine.next /\ routine.next # NoSlot
    <3>1. k[1] = routine.def /\ k[2] = routine.next
      BY <1>4 DEF NextKey
    <3> QED
      BY <1>2, <3>1, Bounds
  <2>4. /\ Recorded(slot) \in Occurrence /\ Recorded(slot).phase \notin {"none", "settled"}
        /\ Recorded(slot).superseded = FALSE
    BY <1>2, RecordedOcc
  <2>5. ASSUME NEW l \in Key \ {k}
        PROVE  /\ occ'[l] \in Occurrence
               /\ occ'[l].phase = "none" <=> occ[l].phase = "none"
               /\ occ'[l].phase \notin {"none", "settled"} => occ[l].phase \notin {"none", "settled"}
               /\ occ'[l].superseded => occ'[l].phase \in {"job", "hook"}
               /\ occ'[l].phase \in {"none", "settled"} \/ occ'[l].superseded
                  \/ (occ'[l].phase = "running" /\ occ'[l].until <= now)
    <3>1. occ[l] \in Occurrence /\ (occ[l].superseded => occ[l].phase \in {"job", "hook"}) /\ occ'[l] = Overtaken(occ[l])
      BY <1>2, <2>2 DEF Inv, NewestOK
    <3> QED
      BY <1>2, <3>1, OvertakenOcc
  <2>6. occ'[k] = Recorded(slot) /\ occ' \in [Key -> Occurrence]
    BY <1>2, <2>2, <2>4, <2>5
  <2>7. \A l \in Key : occ'[l].phase # "none" => l[2] <= now
    BY <1>2, <2>5 DEF Inv, SlotsOK
  <2>8. NewestOK'
    <3>1. ASSUME NEW l \in Key, occ'[l].phase = "running", occ'[l].until <= now
          PROVE  CutOff(occ[l])'
      <4>1. occ'[l].until \in Nat /\ (routine'.next # NoSlot => routine'.next \in Nat /\ routine'.next > now)
        BY <2>1, <2>6, OccFields, Bounds DEF Planned, Routine
      <4> QED
        BY <1>1, <1>2, <3>1, <4>1 DEF CutOff
    <3>2. ASSUME NEW l \in Key, NEW m \in Key, occ'[l].phase # "none", occ'[m].phase # "none", l[2] < m[2]
          PROVE  occ'[l].phase = "settled" \/ occ'[l].superseded \/ CutOff(occ[l])'
      <4>1. CASE l = k
        <5>1. m # k /\ m[2] < routine.next
          BY <2>3, <2>5, <3>2, <4>1, Bounds DEF Inv, SlotsOK
        <5> QED
          BY <2>3, <3>2, <4>1, <5>1, Bounds
      <4>2. CASE l # k
        BY <2>5, <3>1, <3>2, <4>2
      <4> QED
        BY <4>1, <4>2
    <3>3. \A l \in Key : occ'[l].superseded => occ'[l].phase \in {"job", "hook"}
      BY <2>4, <2>5, <2>6
    <3> QED
      BY <3>2, <3>3 DEF NewestOK
  <2>9. CurrentVersion'
    <3>1. \A l \in Key : occ'[l].phase \notin {"none", "settled"} => l[1] = routine'.def
      BY <2>1, <2>3, <2>5 DEF Inv, CurrentVersion, Open
    <3> QED
      BY <3>1 DEF CurrentVersion, Open
  <2> QED
    BY <1>1, <1>2, <1>3, <2>1, <2>6, <2>7, <2>8, <2>9, ReplanKeepsInv
<1>5. CASE /\ occ[k].phase # "none" \/ routine.life # "active" \/ NextKey(routine) # k
           /\ UNCHANGED <<ledger, faults>>
  <2>1. k # NextKey(routine)
    <3>1. k[2] \in Nat \ {0} /\ routine \in Routine
      BY <1>2, Bounds, RoutineFields
    <3>2. ASSUME k = NextKey(routine) PROVE FALSE
      <4>1. k[2] = routine.next
        BY <3>2 DEF NextKey
      <4>2. routine.next # NoSlot
        BY <3>1, <4>1 DEF NoSlot
      <4> HIDE DEF k
      <4>3. routine.life = "active" /\ occ[k].phase = "none"
        BY <1>2, <3>1, <4>1, <4>2 DEF Inv, PlanOK, SlotsOK
      <4> QED
        BY <1>5, <3>2, <4>3
    <3> QED
      BY <3>2
  <2> HIDE DEF k
  <2>2. TypeOK' /\ PlanOK' /\ OneCall(box)'
    BY <1>1, <1>3, <1>5 DEF Inv, TypeOK, PlanOK, OneCall, Schedule, CancelOf, ledger
  <2>3. SlotsOK'
    BY <1>1, <1>2, <1>3, <1>5, <2>1 DEF Inv, SlotsOK, NextKey, ledger
  <2>4. NewestOK' /\ CurrentVersion'
    BY <1>1, <1>5 DEF Inv, NewestOK, CutOff, CurrentVersion, Open, ledger
  <2> QED
    BY <1>5, <2>2, <2>3, <2>4 DEF Inv, ledger
<1> QED
  BY <1>4, <1>5 DEF Consume

-----------------------------------------------------------------------------
(* The occurrence's work *)

Older(k) == \E l \in Key : occ[l].phase # "none" /\ k[2] < l[2]

\* A step of one occurrence: if a newer one is recorded, it does not wait.
LEMMA WorkKeepsInv ==
  ASSUME Inv, NEW k \in Key, NEW x \in Occurrence, occ' = [occ EXCEPT ![k] = x],
         occ[k].phase \notin {"none", "settled"}, x.phase # "none", x.superseded => x.phase \in {"job", "hook"},
         Older(k) => x.phase = "settled" \/ x.superseded \/ CutOff(x),
         UNCHANGED <<now, kind, routine, box, sdk, flush, up, faults>>
  PROVE  Inv'
<1>1. occ \in [Key -> Occurrence]
  BY DEF Inv, TypeOK
<1>2. occ' \in [Key -> Occurrence] /\ occ'[k] = x /\ \A l \in Key \ {k} : occ'[l] = occ[l]
  BY <1>1
<1>3. TypeOK' /\ PlanOK' /\ OneCall(box)'
  BY <1>2 DEF Inv, TypeOK, PlanOK, OneCall, Schedule, CancelOf, sdk
<1>4. SlotsOK'
  BY <1>2 DEF Inv, SlotsOK, NextKey, sdk
<1>5. NewestOK'
  <2>1. ASSUME NEW l \in Key, NEW m \in Key, occ'[l].phase # "none", occ'[m].phase # "none", l[2] < m[2]
        PROVE  occ'[l].phase = "settled" \/ occ'[l].superseded \/ CutOff(occ'[l])
    <3>1. occ[l].phase # "none" /\ occ[m].phase # "none"
      BY <1>2, <2>1
    <3>2. CASE l = k
      BY <1>2, <2>1, <3>1, <3>2 DEF Older
    <3>3. CASE l # k
      BY <1>2, <2>1, <3>1, <3>3 DEF Inv, NewestOK
    <3> QED
      BY <3>2, <3>3
  <2>2. \A l \in Key : occ'[l].superseded => occ'[l].phase \in {"job", "hook"}
    BY <1>2 DEF Inv, NewestOK
  <2> QED
    BY <2>1, <2>2 DEF NewestOK, CutOff
<1>6. CurrentVersion'
  BY <1>2 DEF Inv, CurrentVersion, Open
<1> QED
  BY <1>3, <1>4, <1>5, <1>6 DEF Inv

LEMMA OccurrenceKeepsInv ==
  ASSUME Inv, NEW k \in Key, Conclude(k) \/ Promote(k) \/ Start(k) \/ Retry(k) \/ Settle(k)
  PROVE  Inv'
<1>1. /\ UNCHANGED <<now, kind, routine, box, sdk, flush, up, faults>>
      /\ occ[k].phase \notin {"none", "settled"}
  BY DEF Conclude, Promote, Start, Retry, Settle
<1>2. /\ occ \in [Key -> Occurrence] /\ occ[k] \in Occurrence /\ now \in Nat /\ occ[k].until \in Nat
      /\ occ[k].nextAt \in Slot \union {NoSlot}
      /\ occ[k].superseded => occ[k].phase \in {"job", "hook"}
  BY OccFields, Bounds DEF Inv, TypeOK, NewestOK
<1>3. Older(k) => occ[k].phase = "settled" \/ occ[k].superseded \/ CutOff(occ[k])
  BY <1>1 DEF Inv, NewestOK, Older
<1>4. CASE Conclude(k) \/ Settle(k)
  <2>1. occ' = [occ EXCEPT ![k] = Settled]
    BY <1>4 DEF Conclude, Settle
  <2> QED
    BY <1>1, <2>1, NewOcc, WorkKeepsInv
<1>5. CASE Promote(k)
  <2> DEFINE x == Promoted(occ[k])
  <2>1. occ' = [occ EXCEPT ![k] = x] /\ occ[k].phase \in {"job", "hook"}
    BY <1>5 DEF Promote
  <2>2. CASE occ[k].superseded
    BY <1>1, <2>1, <2>2, NewOcc, WorkKeepsInv DEF Promoted
  <2>3. CASE ~occ[k].superseded
    <3>1. ~Older(k)
      BY <1>3, <2>1, <2>3 DEF CutOff
    <3> DEFINE u == IF routine.life = "active" THEN Until(occ[k].nextAt) ELSE Never
    <3>2. u \in 0 .. Never
      BY <1>2, NewOcc, Bounds DEF Never
    <3> HIDE DEF u
    <3>3. x = [NoOcc EXCEPT !.phase = "queued", !.until = u]
      BY <2>3 DEF Promoted, u
    <3> HIDE DEF x
    <3>4. x \in Occurrence /\ x.phase = "queued" /\ x.superseded = FALSE
      BY <3>2, <3>3, NewOcc DEF Occurrence
    <3> QED
      BY <1>1, <2>1, <3>1, <3>4, WorkKeepsInv
  <2> QED
    BY <2>2, <2>3
<1>6. CASE Start(k)
  <2> DEFINE x == [occ[k] EXCEPT !.phase = "running"]
  <2>1. occ' = [occ EXCEPT ![k] = x] /\ occ[k].phase \in {"queued", "backoff"}
    BY <1>2, <1>6 DEF Start
  <2>2. ~Older(k) /\ ~occ[k].superseded
    BY <1>2, <1>3, <2>1 DEF CutOff
  <2>3. x \in Occurrence /\ x.phase = "running" /\ x.superseded = occ[k].superseded
    BY <1>2 DEF Occurrence
  <2> HIDE DEF x
  <2> QED
    BY <1>1, <2>1, <2>2, <2>3, WorkKeepsInv
<1>7. CASE Retry(k)
  <2> DEFINE x == [occ[k] EXCEPT !.phase = "backoff"]
  <2>1. occ' = [occ EXCEPT ![k] = x] /\ occ[k].phase = "running" /\ now < occ[k].until
    BY <1>2, <1>7 DEF Retry
  <2>2. ~Older(k) /\ ~occ[k].superseded
    BY <1>2, <1>3, <2>1 DEF CutOff
  <2>3. x \in Occurrence /\ x.phase = "backoff" /\ x.superseded = occ[k].superseded
    BY <1>2 DEF Occurrence
  <2> HIDE DEF x
  <2> QED
    BY <1>1, <2>1, <2>2, <2>3, WorkKeepsInv
<1> QED
  BY <1>4, <1>5, <1>6, <1>7

-----------------------------------------------------------------------------
(* Wake calls, deliveries, the clock and the process *)

\* A step that keeps the reserved slot and the occurrences.
LEMMA SlotKept ==
  ASSUME Inv, TypeOK', OneCall(box)', routine'.next = routine.next, routine'.def = routine.def,
         routine'.life = routine.life, routine'.pend = routine.pend,
         routine'.status = "schedule_retrying" => routine.next # NoSlot,
         routine.status = "calendar_error" /\ routine.next = NoSlot => routine'.status = "calendar_error",
         now' = now \/ now' = now + 1, UNCHANGED occ,
         active'.stage # "none" => active'.key \in Key /\ active'.key[2] <= now,
         active'.stage = "drain" => active' = active,
         \A k \in Key : wake'[k] = "done" => wake[k] = "done" \/ (k[2] <= now /\ k # NextKey(routine))
  PROVE  Inv'
<1>1. /\ now \in Nat /\ now <= now' /\ NextKey(routine') = NextKey(routine) /\ now' \in Nat
      /\ \A k \in Key : k[2] \in Nat /\ occ[k].until \in Nat
  BY Bounds, OccFields DEF Inv, TypeOK, NextKey
<1>2. \A n \in Nat : n <= now => n <= now'
  BY <1>1
<1>3. PlanOK'
  BY DEF Inv, PlanOK
<1>4. SlotsOK'
  <2>1. \A k \in Key : occ[k].phase # "none" => k[2] <= now' /\ (routine'.next # NoSlot => k[2] < routine'.next)
    BY <1>1, <1>2 DEF Inv, SlotsOK
  <2>2. active'.stage # "none" => active'.key \in Key /\ active'.key[2] <= now'
    BY <1>1, <1>2
  <2>3. active'.stage = "drain" => active'.key # NextKey(routine')
    BY <1>1 DEF Inv, SlotsOK
  <2>4. \A k \in Key : wake'[k] = "done" => k[2] <= now' /\ k # NextKey(routine')
    BY <1>1, <1>2 DEF Inv, SlotsOK
  <2> QED
    BY <2>1, <2>2, <2>3, <2>4 DEF SlotsOK, NextKey
<1>5. NewestOK'
  <2>1. \A k \in Key : CutOff(occ[k]) => CutOff(occ[k])'
    BY <1>1, <1>2 DEF CutOff
  <2> QED
    BY <2>1 DEF Inv, NewestOK
<1>6. CurrentVersion'
  BY DEF Inv, CurrentVersion, Open
<1> QED
  BY <1>3, <1>4, <1>5, <1>6 DEF Inv

\* scheduleNext for the slot that is already reserved.
LEMMA RescheduleKeepsInv ==
  ASSUME Inv, routine.next # NoSlot, Set(Scheduled(routine, box)),
         UNCHANGED <<now, kind, occ, sdk, flush, faults>>, up' \in BOOLEAN
  PROVE  /\ Inv'
         /\ NextKey(routine') = NextKey(routine) /\ routine'.next = routine.next
         /\ routine'.status = "ok" =>
              CancelOf(NextKey(routine)) \notin box' /\ Schedule(NextKey(routine)) \in box'
<1> DEFINE x == Scheduled(routine, box)
<1>1. routine' = x[1] /\ box' = x[2]
  BY DEF Set
<1>2. routine.life = "active"
  BY DEF Inv, PlanOK
<1>3. /\ x[1] \in Routine /\ x[1].life = routine.life /\ x[1].def = routine.def /\ x[1].pend = routine.pend
      /\ x[1].next = routine.next /\ x[1].status \in {"ok", "schedule_retrying"}
      /\ x[2] \subseteq Row /\ OneCall(x[2])
      /\ x[1].status = "ok" => CancelOf(NextKey(routine)) \notin x[2] /\ Schedule(NextKey(routine)) \in x[2]
  BY <1>2, RoutineFields, ScheduledRow
<1> HIDE DEF x
<1>4. TypeOK'
  BY <1>1, <1>3 DEF Inv, TypeOK, sdk
<1>5. OneCall(box)'
  BY <1>1, <1>3 DEF OneCall, Schedule, CancelOf
<1>6. /\ active'.stage # "none" => active'.key \in Key /\ active'.key[2] <= now
      /\ active' = active /\ wake' = wake
  BY DEF Inv, SlotsOK, sdk
<1> QED
  BY <1>1, <1>3, <1>4, <1>5, <1>6, SlotKept DEF NextKey

LEMMA RetryScheduleKeepsInv ==
  ASSUME Inv, RetrySchedule
  PROVE  /\ Inv'
         /\ NextKey(routine') = NextKey(routine) /\ routine'.next = routine.next
         /\ routine'.status = "ok" =>
              CancelOf(NextKey(routine)) \notin box' /\ Schedule(NextKey(routine)) \in box'
<1>1. routine.next # NoSlot
  BY DEF Inv, PlanOK, RetrySchedule
<1>2. Set(Scheduled(routine, box)) /\ UNCHANGED <<now, kind, occ, sdk, flush, faults>> /\ up' \in BOOLEAN
  BY DEF RetrySchedule, Inv, TypeOK
<1> QED
  BY <1>1, <1>2, RescheduleKeepsInv

\* Steps that leave the ledger's routine and occurrences alone.
LEMMA LedgerKept ==
  ASSUME Inv, TypeOK', UNCHANGED <<routine, occ>>, box' \subseteq box, now' = now \/ now' = now + 1,
         active'.stage # "none" => active'.key \in Key /\ active'.key[2] <= now,
         active'.stage = "drain" => active' = active,
         \A k \in Key : wake'[k] = "done" => wake[k] = "done" \/ (k[2] <= now /\ k # NextKey(routine))
  PROVE  Inv'
<1>1. OneCall(box)'
  BY DEF Inv, OneCall, Schedule, CancelOf
<1>2. routine.status = "schedule_retrying" => routine.next # NoSlot
  BY DEF Inv, PlanOK
<1> QED
  BY <1>1, <1>2, SlotKept

LEMMA DroppedType ==
  ASSUME Inv, NEW f \in Flusher, NEW r, Dropped(f, r)
  PROVE  /\ flush' \in [Flusher -> [todo : SUBSET Row, row : Row \union {NoRow}]]
         /\ flush'[f].todo = flush[f].todo \ {r} /\ flush'[f].row = NoRow
         /\ \A g \in Flusher \ {f} : flush'[g] = flush[g]
<1>1. flush \in [Flusher -> [todo : SUBSET Row, row : Row \union {NoRow}]]
  BY DEF Inv, TypeOK
<1>2. flush' = [flush EXCEPT ![f] = [todo |-> flush[f].todo \ {r}, row |-> NoRow]]
  BY DEF Dropped
<1> QED
  BY <1>1, <1>2

LEMMA WakeAfterType ==
  ASSUME Inv, NEW row \in Row
  PROVE  /\ WakeAfter(row) \in [Key -> {"none", "queued", "done"}]
         /\ \A k \in Key : WakeAfter(row)[k] = "done" <=> wake[k] = "done"
         /\ \A k \in Key : row = Schedule(k) => WakeAfter(row)[k] # "none"
         /\ \A k \in Key : row # CancelOf(k) /\ wake[k] # "none" => WakeAfter(row)[k] # "none"
         /\ \A k \in Key : row # CancelOf(k) /\ wake[k] = "queued" => WakeAfter(row)[k] = "queued"
<1>1. wake \in [Key -> {"none", "queued", "done"}]
  BY DEF Inv, TypeOK
<1>2. row[2] \in Key /\ row[1] \in {"schedule", "cancel"} /\ row = <<row[1], row[2]>>
  BY DEF Row
<1>3. CASE row[1] = "schedule"
  <2>1. WakeAfter(row) = [wake EXCEPT ![row[2]] = IF wake[row[2]] = "none" THEN "queued" ELSE wake[row[2]]]
    BY <1>1, <1>2, <1>3 DEF WakeAfter
  <2>2. \A k \in Key : row = Schedule(k) => k = row[2]
    BY DEF Schedule
  <2> QED
    BY <1>1, <1>2, <2>1, <2>2
<1>4. CASE row[1] = "cancel"
  <2>1. WakeAfter(row) = [wake EXCEPT ![row[2]] = IF wake[row[2]] = "queued" /\ active.key # row[2] THEN "none"
                                                  ELSE wake[row[2]]]
    BY <1>1, <1>2, <1>4 DEF WakeAfter
  <2>2. row = CancelOf(row[2]) /\ \A k \in Key : row # Schedule(k)
    BY <1>2, <1>4 DEF Schedule, CancelOf
  <2> QED
    BY <1>1, <1>2, <2>1, <2>2
<1> QED
  BY <1>2, <1>3, <1>4

LEMMA FlushKeepsInv ==
  ASSUME Inv, NEW f \in Flusher,
         \/ FlushStart(f) \/ FlushDone(f) \/ FlushFails(f)
         \/ \E row \in flush[f].todo : FlushCall(f, row) \/ FlushInvalid(f, row)
  PROVE  Inv'
<1>1. /\ flush \in [Flusher -> [todo : SUBSET Row, row : Row \union {NoRow}]] /\ flush[f].todo \subseteq Row
      /\ TypeOK /\ box \subseteq Row
  BY DEF Inv, TypeOK
<1>2. /\ active.stage # "none" => active.key \in Key /\ active.key[2] <= now
  BY DEF Inv, SlotsOK
<1>3. CASE FlushStart(f)
  <2>1. flush' \in [Flusher -> [todo : SUBSET Row, row : Row \union {NoRow}]]
    BY <1>1, <1>3 DEF FlushStart
  <2>2. TypeOK'
    BY <1>1, <1>3, <2>1 DEF FlushStart, TypeOK, ledger, sdk
  <2> QED
    BY <1>2, <1>3, <2>2, LedgerKept DEF FlushStart, ledger, sdk
<1>4. CASE FlushDone(f)
  <2>1. TypeOK'
    BY <1>1, <1>4, DroppedType DEF FlushDone, TypeOK, sdk
  <2> QED
    BY <1>2, <1>4, <2>1, LedgerKept DEF FlushDone, sdk
<1>5. CASE FlushFails(f)
  <2>1. \E r : Dropped(f, r)
    BY <1>5 DEF FlushFails
  <2>2. flush' \in [Flusher -> [todo : SUBSET Row, row : Row \union {NoRow}]] /\ faults' \in 0 .. MaxFaults
    BY <1>1, <1>5, <2>1, DroppedType, FaultType DEF FlushFails
  <2>3. TypeOK'
    BY <1>1, <1>5, <2>2 DEF FlushFails, TypeOK, ledger, sdk
  <2> QED
    BY <1>2, <1>5, <2>3, LedgerKept DEF FlushFails, ledger, sdk
<1>6. ASSUME NEW row \in flush[f].todo, FlushCall(f, row)
      PROVE  Inv'
  <2>1. /\ wake' = WakeAfter(row) /\ flush' = [flush EXCEPT ![f].row = row] /\ row \in Row
        /\ UNCHANGED <<now, kind, ledger, active, up, faults>>
    BY <1>1, <1>6 DEF FlushCall
  <2>2. wake' \in [Key -> {"none", "queued", "done"}] /\ \A k \in Key : wake'[k] = "done" => wake[k] = "done"
    BY <2>1, WakeAfterType
  <2>3. flush' \in [Flusher -> [todo : SUBSET Row, row : Row \union {NoRow}]]
    BY <1>1, <2>1
  <2>4. TypeOK'
    BY <1>1, <2>1, <2>2, <2>3 DEF TypeOK, ledger
  <2> QED
    BY <1>2, <2>1, <2>2, <2>4, LedgerKept DEF ledger
<1>7. ASSUME NEW row \in flush[f].todo, FlushInvalid(f, row)
      PROVE  Inv'
  <2>1. /\ Fault /\ row \in Row /\ row[2] = NextKey(routine) /\ Dropped(f, row)
        /\ UNCHANGED <<now, kind, occ, sdk, up>>
        /\ routine' = [routine EXCEPT !.status = "schedule_retrying"]
        /\ box' = box \ {<<"schedule", NextKey(routine)>>}
    BY <1>1, <1>7 DEF FlushInvalid, Set, Deferred
  <2>2. routine \in Routine /\ routine.next # NoSlot
    <3>1. NextKey(routine) \in Key
      BY <2>1 DEF Row
    <3> QED
      BY <3>1, RoutineFields, Bounds DEF NextKey
  <2>3. /\ routine' \in Routine /\ routine'.next = routine.next /\ routine'.def = routine.def
        /\ routine'.life = routine.life /\ routine'.pend = routine.pend
    BY <2>1, <2>2 DEF Routine
  <2>4. flush' \in [Flusher -> [todo : SUBSET Row, row : Row \union {NoRow}]] /\ faults' \in 0 .. MaxFaults
    BY <1>1, <2>1, DroppedType, FaultType
  <2>5. TypeOK'
    BY <1>1, <2>1, <2>3, <2>4 DEF TypeOK, sdk
  <2>6. OneCall(box)'
    BY <2>1 DEF Inv, OneCall, Schedule, CancelOf
  <2> QED
    BY <1>2, <2>1, <2>2, <2>3, <2>5, <2>6, SlotKept DEF sdk
<1> QED
  BY <1>3, <1>4, <1>5, <1>6, <1>7

LEMMA SchedulerKeepsInv ==
  ASSUME Inv, \/ \E k \in Key : Deliver(k)
              \/ DeliveryDone \/ DeliveryRejected \/ Tick \/ Crash
  PROVE  Inv'
<1>1. /\ TypeOK /\ now \in Nat /\ wake \in [Key -> {"none", "queued", "done"}]
      /\ active.stage # "none" => active.key \in Key /\ active.key[2] <= now
      /\ active.stage = "drain" => active.key # NextKey(routine)
  BY RoutineFields DEF Inv, SlotsOK, TypeOK
<1>2. NoActive \in [key : Key \union {NoKey}, stage : {"none", "begun", "drain"}] /\ NoActive.stage = "none"
  BY DEF NoActive
<1> USE DEF ledger, sdk
<1>3. ASSUME NEW k \in Key, Deliver(k)
      PROVE  Inv'
  <2>1. active' = [key |-> k, stage |-> "begun"] /\ k[2] <= now /\ UNCHANGED <<now, kind, ledger, wake, flush, up, faults>>
    BY <1>3 DEF Deliver
  <2>2. TypeOK'
    BY <1>1, <2>1 DEF TypeOK
  <2> QED
    BY <2>1, <2>2, LedgerKept
<1>4. CASE DeliveryDone
  <2>1. /\ active.stage = "drain" /\ wake' = [wake EXCEPT ![active.key] = "done"] /\ active' = NoActive
        /\ UNCHANGED <<now, kind, ledger, flush, up, faults>>
    BY <1>4 DEF DeliveryDone
  <2>2. TypeOK'
    BY <1>1, <1>2, <2>1 DEF TypeOK
  <2>3. \A k \in Key : wake'[k] = "done" => wake[k] = "done" \/ (k[2] <= now /\ k # NextKey(routine))
    BY <1>1, <2>1
  <2> QED
    BY <1>2, <2>1, <2>2, <2>3, LedgerKept
<1>5. CASE DeliveryRejected
  <2>1. active' = NoActive /\ faults' \in 0 .. MaxFaults /\ UNCHANGED <<now, kind, ledger, wake, flush, up>>
    BY <1>1, <1>5, FaultType DEF DeliveryRejected
  <2>2. TypeOK'
    BY <1>1, <1>2, <2>1 DEF TypeOK
  <2> QED
    BY <1>2, <2>1, <2>2, LedgerKept
<1>6. CASE Tick
  <2>1. now' = now + 1 /\ now < End /\ UNCHANGED <<kind, ledger, sdk, flush, up, faults>>
    BY <1>6 DEF Tick
  <2>2. now' \in 0 .. End
    BY <1>1, <2>1, Bounds
  <2>3. TypeOK'
    BY <1>1, <2>1, <2>2 DEF TypeOK
  <2> QED
    BY <1>1, <2>1, <2>3, LedgerKept
<1>7. CASE Crash
  <2>1. /\ active' = NoActive /\ faults' \in 0 .. MaxFaults /\ UNCHANGED <<now, kind, ledger, wake>>
        /\ up' = FALSE /\ flush' = [f \in Flusher |-> NoFlush]
    BY <1>1, <1>7, FaultType DEF Crash
  <2>2. NoFlush \in [todo : SUBSET Row, row : Row \union {NoRow}]
    BY DEF NoFlush
  <2>3. TypeOK'
    BY <1>1, <1>2, <2>1, <2>2 DEF TypeOK
  <2> QED
    BY <1>2, <2>1, <2>3, LedgerKept
<1> QED
  BY <1>3, <1>4, <1>5, <1>6, <1>7

\* recover
LEMMA RecoverKeepsInv ==
  ASSUME Inv, Recover
  PROVE  /\ Inv'
         /\ NextKey(routine') = NextKey(routine) /\ routine'.next = routine.next
         /\ \/ UNCHANGED <<routine, box>> /\ (routine.next # NoSlot => wake[NextKey(routine)] = "queued")
            \/ routine'.status = "ok" =>
                 CancelOf(NextKey(routine)) \notin box' /\ Schedule(NextKey(routine)) \in box'
<1>1. UNCHANGED <<now, kind, occ, sdk, flush, faults>> /\ up' = TRUE
  BY DEF Recover
<1>2. CASE routine.next # NoSlot /\ wake[NextKey(routine)] # "queued"
  BY <1>1, <1>2, RescheduleKeepsInv DEF Recover
<1>3. CASE ~(routine.next # NoSlot /\ wake[NextKey(routine)] # "queued")
  <2>1. UNCHANGED <<routine, box>>
    BY <1>3 DEF Recover
  <2>2. TypeOK'
    BY <1>1, <2>1 DEF Inv, TypeOK, sdk
  <2>3. Inv'
    BY <1>1, <2>1, <2>2, LedgerKept DEF Inv, SlotsOK, sdk
  <2> QED
    BY <1>3, <2>1, <2>3 DEF NextKey
<1> QED
  BY <1>2, <1>3

-----------------------------------------------------------------------------
(* The theorems for any flushers *)

LEMMA InitInv == Init => Inv
<1> SUFFICES ASSUME Init PROVE Inv
  OBVIOUS
<1> DEFINE r == [life |-> "active", def |-> 1, pend |-> 0, next |-> NoSlot, status |-> "ok"]
           x == Applied(r, NextSlot(1, 0), {})
<1>1. /\ now = 0 /\ kind \in Kind /\ routine = x[1] /\ box = x[2] /\ occ = [k \in Key |-> NoOcc]
      /\ wake = [k \in Key |-> "none"] /\ active = NoActive
      /\ flush = [f \in Flusher |-> NoFlush] /\ up = TRUE /\ faults = 0
  BY DEF Init
<1>2. r \in Routine /\ r.life = "active"
  BY Bounds DEF Routine
<1> HIDE DEF r
<1>3. Planned(x[1], x[2])
  <2>1. {} \in SUBSET Row /\ OneCall({}) /\ now \in Nat
    BY <1>1 DEF OneCall
  <2>2. NextSlot(1, 0) \in Slot \union {NoSlot} /\ (NextSlot(1, 0) # NoSlot => NextSlot(1, 0) > now)
    BY <1>1, NextSlotLater
  <2> QED
    BY <1>2, <2>1, <2>2, AppliedPlan
<1> HIDE DEF x
<1>4. NoActive \in [key : Key \union {NoKey}, stage : {"none", "begun", "drain"}] /\ NoActive.stage = "none"
  BY DEF NoActive
<1>5. NoFlush \in [todo : SUBSET Row, row : Row \union {NoRow}]
  BY DEF NoFlush
<1>6. occ \in [Key -> Occurrence] /\ \A k \in Key : occ[k].phase = "none" /\ ~occ[k].superseded
  BY <1>1, NewOcc DEF NoOcc
<1>7. TypeOK
  <2>1. 0 \in 0 .. End /\ 0 \in 0 .. MaxFaults
    BY Bounds
  <2> QED
    BY <1>1, <1>3, <1>4, <1>5, <1>6, <2>1 DEF TypeOK, Planned
<1>8. PlanOK /\ OneCall(box)
  BY <1>1, <1>3 DEF Planned, PlanOK
<1>9. SlotsOK /\ NewestOK /\ CurrentVersion
  BY <1>1, <1>4, <1>6 DEF SlotsOK, NewestOK, CurrentVersion, Open
<1> QED
  BY <1>7, <1>8, <1>9 DEF Inv

LEMMA NextKeepsInv == Inv /\ [Next]_vars => Inv'
<1> SUFFICES ASSUME Inv, [Next]_vars PROVE Inv'
  OBVIOUS
<1>1. CASE UNCHANGED vars
  <2>1. UNCHANGED <<now, routine, occ, box, wake, active>> /\ TypeOK'
    BY <1>1 DEF Inv, TypeOK, vars, ledger, sdk
  <2> QED
    BY <2>1, LedgerKept DEF Inv, SlotsOK
<1>2. CASE SwitchVersions \/ Update \/ Pause \/ Complete \/ Resume \/ Consume \/ RetrySchedule
  BY <1>2, SwitchKeepsInv, UpdateKeepsInv, PauseKeepsInv, CompleteKeepsInv, ResumeKeepsInv, ConsumeKeepsInv,
     RetryScheduleKeepsInv
<1>3. CASE \E k \in Key : Conclude(k) \/ Promote(k) \/ Start(k) \/ Retry(k) \/ Settle(k) \/ Deliver(k)
  BY <1>3, OccurrenceKeepsInv, SchedulerKeepsInv
<1>4. CASE \E f \in Flusher : \/ FlushStart(f) \/ FlushDone(f) \/ FlushFails(f)
                              \/ \E row \in flush[f].todo : FlushCall(f, row) \/ FlushInvalid(f, row)
  BY <1>4, FlushKeepsInv
<1>5. CASE DeliveryDone \/ DeliveryRejected \/ Tick \/ Crash \/ Recover
  BY <1>5, SchedulerKeepsInv, RecoverKeepsInv
<1> QED
  BY <1>1, <1>2, <1>3, <1>4, <1>5 DEF Next

\* The slots keep their order through every command, delivery, failure and
\* restart (routines.ts, core.ts).
THEOREM Invariance == Spec => []Inv
<1>1. Init => Inv
  BY InitInv
<1>2. Inv /\ [Next]_vars => Inv'
  BY NextKeepsInv
<1> QED
  BY <1>1, <1>2, PTL DEF Spec

\* The routine, its occurrences and the scheduler keep their types.
THEOREM TypeCorrect == Spec => []TypeOK
<1>1. Inv => TypeOK
  BY DEF Inv
<1> QED
  BY <1>1, Invariance, PTL

\* recordOccurrence, promote and the retries leave only the newest occurrence waiting.
THEOREM OlderNeverWaits == Spec => []OnlyNewestWaits
<1>1. Inv => OnlyNewestWaits
  BY DEF Inv, NewestOK, OnlyNewestWaits, CutOff
<1> QED
  BY <1>1, Invariance, PTL

\* switchVersion never changes the definition under work that is not settled.
THEOREM WorkKeepsVersion == Spec => []CurrentVersion
<1>1. Inv => CurrentVersion
  BY DEF Inv
<1> QED
  BY <1>1, Invariance, PTL

-----------------------------------------------------------------------------
(* One flusher: the chain of wakes *)

OneFlusher == \A f, g \in Flusher : f = g

\* A new plan puts its wake into the outbox.
LEMMA PlanKeepsCalls ==
  ASSUME Inv, Calls, Planned(routine', box'), UNCHANGED <<wake, flush, up>>
  PROVE  Calls'
<1>1. FlushOK' /\ (~up' => flush' = [f \in Flusher |-> NoFlush])
  BY DEF Calls, FlushOK, OneCall, Schedule, CancelOf
<1>2. Reserved'
  BY DEF Planned, Reserved, NextKey, Schedule, CancelOf
<1> QED
  BY <1>1, <1>2 DEF Calls

\* A step that neither plans nor flushes, and takes no wake away.
LEMMA QuietKeepsCalls ==
  ASSUME Inv, Calls, UNCHANGED <<box, flush, up>>, NextKey(routine') = NextKey(routine),
         routine'.next = routine.next, routine'.status = routine.status,
         \A k \in Key : wake'[k] = "none" => wake[k] = "none",
         \A k \in Key : wake[k] = "queued" => wake'[k] = "queued" \/ k # NextKey(routine)
  PROVE  Calls'
<1>1. FlushOK' /\ (~up' => flush' = [f \in Flusher |-> NoFlush])
  BY DEF Calls, FlushOK, OneCall, Schedule, CancelOf
<1>2. Reserved'
  <2>1. routine.next # NoSlot => NextKey(routine) \in Key
    BY RoutineFields, NextKeyIsKey
  <2> QED
    BY <2>1 DEF Calls, Reserved, NextKey, Schedule, CancelOf
<1> QED
  BY <1>1, <1>2 DEF Calls

\* scheduleNext for the reserved slot, or for none.
LEMMA RescheduleKeepsCalls ==
  ASSUME Inv, Calls, UNCHANGED <<wake, flush>>, ~up' => UNCHANGED up,
         NextKey(routine') = NextKey(routine), routine'.next = routine.next,
         routine'.status = "ok" => CancelOf(NextKey(routine)) \notin box' /\ Schedule(NextKey(routine)) \in box'
  PROVE  Calls'
<1>1. FlushOK' /\ (~up' => flush' = [f \in Flusher |-> NoFlush])
  BY DEF Calls, FlushOK, OneCall, Schedule, CancelOf
<1>2. Reserved'
  BY DEF Reserved, NextKey, Schedule, CancelOf
<1> QED
  BY <1>1, <1>2 DEF Calls

LEMMA FlusherFields ==
  ASSUME Inv, NEW f \in Flusher
  PROVE  /\ flush \in [Flusher -> [todo : SUBSET Row, row : Row \union {NoRow}]]
         /\ flush[f].todo \subseteq Row /\ NoRow \notin Row
<1>1. flush \in [Flusher -> [todo : SUBSET Row, row : Row \union {NoRow}]]
  BY DEF Inv, TypeOK
<1>2. NoRow \notin Row
  BY DEF NoRow, Row
<1> QED
  BY <1>1, <1>2

\* The reserved wake is not done, so a schedule that went out is queued.
LEMMA ReservedQueued ==
  ASSUME Inv, routine.next # NoSlot, wake[NextKey(routine)] # "none"
  PROVE  wake[NextKey(routine)] = "queued"
<1>1. NextKey(routine) \in Key
  BY RoutineFields, NextKeyIsKey
<1>2. wake[NextKey(routine)] \in {"none", "queued", "done"}
  BY <1>1 DEF Inv, TypeOK
<1> QED
  BY <1>1, <1>2 DEF Inv, SlotsOK

LEMMA FlushKeepsCalls ==
  ASSUME OneFlusher, Inv, Calls, NEW f \in Flusher,
         \/ FlushStart(f) \/ FlushDone(f) \/ FlushFails(f)
         \/ \E row \in flush[f].todo : FlushCall(f, row) \/ FlushInvalid(f, row)
  PROVE  Calls'
<1> DEFINE K == NextKey(routine)
<1>1. Flusher = {f}
  BY DEF OneFlusher
<1>2. /\ flush \in [Flusher -> [todo : SUBSET Row, row : Row \union {NoRow}]]
      /\ flush[f].todo \subseteq Row /\ NoRow \notin Row
  BY FlusherFields
<1>3. /\ OneCall(flush[f].todo) /\ OneCall(box)
      /\ flush[f].row # NoRow => flush[f].row \in flush[f].todo
      /\ \A k \in Key : flush[f].row = Schedule(k) => wake[k] # "none"
  BY DEF Inv, Calls, FlushOK
<1>4. up
  BY DEF FlushStart, FlushDone, FlushFails, FlushCall, FlushInvalid
<1>5. routine.next # NoSlot => K \in Key
  BY RoutineFields, NextKeyIsKey
<1>6. \A k \in Key : Schedule(k) # NoRow
  BY DEF Schedule, NoRow
<1> HIDE DEF K
<1>7. CASE FlushStart(f)
  <2>1. /\ flush[f] = NoFlush /\ flush' = [flush EXCEPT ![f].todo = box] /\ UNCHANGED <<routine, box, wake, up>>
    BY <1>7 DEF FlushStart, ledger, sdk
  <2>2. flush'[f].todo = box /\ flush'[f].row = NoRow
    BY <1>2, <2>1 DEF NoFlush
  <2>3. FlushOK'
    BY <1>1, <1>3, <1>6, <2>1, <2>2 DEF FlushOK, OneCall, Schedule, CancelOf
  <2>4. Reserved'
    BY <1>1, <2>1, <2>2 DEF Calls, Reserved, NextKey, Schedule, CancelOf
  <2> QED
    BY <1>4, <2>1, <2>3, <2>4 DEF Calls
<1>8. CASE FlushDone(f)
  <2> DEFINE row == flush[f].row
  <2>1. row # NoRow /\ box' = box \ {row} /\ Dropped(f, row) /\ UNCHANGED <<routine, wake, up>>
    BY <1>8 DEF FlushDone, sdk
  <2>2. flush'[f].todo = flush[f].todo \ {row} /\ flush'[f].row = NoRow
    BY <2>1, DroppedType
  <2>3. FlushOK'
    BY <1>1, <1>3, <1>6, <2>2 DEF FlushOK, OneCall, Schedule, CancelOf
  <2>4. ASSUME routine.next # NoSlot, routine.status = "ok"
        PROVE  /\ CancelOf(K) \notin box'
               /\ Schedule(K) \in box' \/ (wake[K] = "queued" /\ CancelOf(K) \notin flush'[f].todo)
    <3>1. /\ CancelOf(K) \notin box
          /\ Schedule(K) \in box \/ (wake[K] = "queued" /\ CancelOf(K) \notin flush[f].todo)
      BY <2>4 DEF Calls, Reserved, K
    <3>2. CASE row = Schedule(K)
      <4>1. wake[K] = "queued"
        BY <1>3, <1>5, <2>4, <3>2, ReservedQueued DEF K
      <4>2. CancelOf(K) \notin flush[f].todo
        BY <1>3, <1>5, <2>1, <2>4, <3>2 DEF OneCall
      <4> QED
        BY <2>1, <2>2, <3>1, <4>1, <4>2
    <3>3. CASE row # Schedule(K)
      BY <2>1, <2>2, <3>1, <3>3
    <3> QED
      BY <3>2, <3>3
  <2>5. Reserved'
    BY <1>1, <2>1, <2>4 DEF Reserved, NextKey, Schedule, CancelOf, K
  <2> QED
    BY <1>4, <2>1, <2>3, <2>5 DEF Calls
<1>9. CASE FlushFails(f)
  <2>1. PICK r : Dropped(f, r)
    BY <1>9 DEF FlushFails
  <2>2. UNCHANGED <<routine, box, wake, up>>
    BY <1>9 DEF FlushFails, ledger, sdk
  <2>3. flush'[f].todo = flush[f].todo \ {r} /\ flush'[f].row = NoRow
    BY <2>1, DroppedType
  <2>4. FlushOK'
    BY <1>1, <1>3, <1>6, <2>3 DEF FlushOK, OneCall, Schedule, CancelOf
  <2>5. Reserved'
    BY <1>1, <2>2, <2>3 DEF Calls, Reserved, NextKey, Schedule, CancelOf
  <2> QED
    BY <1>4, <2>2, <2>4, <2>5 DEF Calls
<1>10. ASSUME NEW row \in flush[f].todo, FlushCall(f, row)
       PROVE  Calls'
  <2>1. /\ wake' = WakeAfter(row) /\ flush' = [flush EXCEPT ![f].row = row] /\ row \in Row
        /\ UNCHANGED <<routine, box, up>>
    BY <1>2, <1>10 DEF FlushCall, ledger
  <2>2. /\ \A k \in Key : row = Schedule(k) => wake'[k] # "none"
        /\ \A k \in Key : row # CancelOf(k) /\ wake[k] = "queued" => wake'[k] = "queued"
    BY <2>1, WakeAfterType
  <2>3. flush'[f].todo = flush[f].todo /\ flush'[f].row = row
    BY <1>2, <2>1
  <2>4. FlushOK'
    BY <1>1, <1>3, <1>10, <2>2, <2>3 DEF FlushOK, OneCall, Schedule, CancelOf
  <2>5. ASSUME routine.next # NoSlot, routine.status = "ok"
        PROVE  /\ CancelOf(K) \notin box
               /\ Schedule(K) \in box \/ (wake'[K] = "queued" /\ CancelOf(K) \notin flush[f].todo)
    BY <1>5, <1>10, <2>2, <2>5 DEF Calls, Reserved, K
  <2>6. Reserved'
    BY <1>1, <2>1, <2>3, <2>5 DEF Reserved, NextKey, Schedule, CancelOf, K
  <2> QED
    BY <1>4, <2>1, <2>4, <2>6 DEF Calls
<1>11. ASSUME NEW row \in flush[f].todo, FlushInvalid(f, row)
       PROVE  Calls'
  <2>1. /\ Dropped(f, row) /\ UNCHANGED <<wake, up>> /\ routine' = [routine EXCEPT !.status = "schedule_retrying"]
    BY <1>11 DEF FlushInvalid, Set, Deferred, sdk
  <2>2. routine'.status = "schedule_retrying"
    BY <2>1, RoutineFields DEF Routine
  <2>3. flush'[f].todo = flush[f].todo \ {row} /\ flush'[f].row = NoRow
    BY <2>1, DroppedType
  <2>4. FlushOK'
    BY <1>1, <1>3, <1>6, <2>3 DEF FlushOK, OneCall, Schedule, CancelOf
  <2>5. Reserved'
    BY <2>2 DEF Reserved
  <2> QED
    BY <1>4, <2>1, <2>4, <2>5 DEF Calls
<1> QED
  BY <1>7, <1>8, <1>9, <1>10, <1>11

LEMMA NextKeepsCalls ==
  ASSUME OneFlusher, Inv, Calls, [Next]_vars
  PROVE  Calls'
<1> USE DEF ledger, sdk
<1>1. CASE UNCHANGED vars
  BY <1>1, QuietKeepsCalls DEF vars
<1>2. CASE SwitchVersions \/ Pause \/ Complete \/ Resume
  <2>1. Planned(routine', box')
    BY <1>2, SwitchKeepsInv, PauseKeepsInv, CompleteKeepsInv, ResumeKeepsInv
  <2> QED
    BY <1>2, <2>1, PlanKeepsCalls DEF SwitchVersions, Pause, Complete, Resume
<1>3. CASE Update
  BY <1>3, UpdateKeepsInv, PlanKeepsCalls, QuietKeepsCalls DEF Update
<1>4. CASE Consume
  BY <1>4, ConsumeKeepsInv, PlanKeepsCalls, QuietKeepsCalls DEF Consume
<1>5. CASE RetrySchedule
  BY <1>5, RetryScheduleKeepsInv, RescheduleKeepsCalls DEF RetrySchedule
<1>6. CASE \E k \in Key : Conclude(k) \/ Promote(k) \/ Start(k) \/ Retry(k) \/ Settle(k) \/ Deliver(k)
  BY <1>6, QuietKeepsCalls DEF Conclude, Promote, Start, Retry, Settle, Deliver
<1>7. CASE \E f \in Flusher : \/ FlushStart(f) \/ FlushDone(f) \/ FlushFails(f)
                              \/ \E row \in flush[f].todo : FlushCall(f, row) \/ FlushInvalid(f, row)
  BY <1>7, FlushKeepsCalls
<1>8. CASE DeliveryDone
  <2>1. wake \in [Key -> {"none", "queued", "done"}] /\ active.key \in Key /\ active.key # NextKey(routine)
    BY <1>8 DEF DeliveryDone, Inv, SlotsOK, TypeOK
  <2>2. wake' = [wake EXCEPT ![active.key] = "done"] /\ UNCHANGED <<routine, box, flush, up>>
    BY <1>8 DEF DeliveryDone
  <2>3. \A k \in Key : wake'[k] = IF k = active.key THEN "done" ELSE wake[k]
    BY <2>1, <2>2
  <2> QED
    BY <2>1, <2>2, <2>3, QuietKeepsCalls
<1>9. CASE DeliveryRejected \/ Tick
  BY <1>9, QuietKeepsCalls DEF DeliveryRejected, Tick
<1>10. CASE Crash
  <2>1. flush' = [f \in Flusher |-> NoFlush] /\ UNCHANGED <<routine, box, wake>>
    BY <1>10 DEF Crash
  <2>2. \A f \in Flusher : flush'[f].todo = {} /\ flush'[f].row = NoRow
    BY <2>1 DEF NoFlush
  <2>3. FlushOK'
    BY <2>2 DEF FlushOK, OneCall, Schedule, NoRow
  <2>4. Reserved'
    BY <2>1, <2>2 DEF Calls, Reserved, NextKey, Schedule, CancelOf
  <2> QED
    BY <2>1, <2>3, <2>4 DEF Calls
<1>11. CASE Recover
  <2>1. UNCHANGED <<wake, flush>> /\ up' = TRUE
    BY <1>11 DEF Recover
  <2>2. CASE UNCHANGED <<routine, box>>
    <3>1. FlushOK'
      BY <2>1 DEF Calls, FlushOK, OneCall, Schedule, CancelOf
    <3>2. Reserved'
      BY <2>1, <2>2 DEF Calls, Reserved, NextKey, Schedule, CancelOf
    <3> QED
      BY <2>1, <3>1, <3>2 DEF Calls
  <2>3. CASE ~UNCHANGED <<routine, box>>
    BY <1>11, <2>1, <2>3, RecoverKeepsInv, RescheduleKeepsCalls
  <2> QED
    BY <2>2, <2>3
<1> QED
  BY <1>1, <1>2, <1>3, <1>4, <1>5, <1>6, <1>7, <1>8, <1>9, <1>10, <1>11 DEF Next

LEMMA InitCalls ==
  ASSUME Init
  PROVE  Calls
<1> DEFINE r == [life |-> "active", def |-> 1, pend |-> 0, next |-> NoSlot, status |-> "ok"]
           x == Applied(r, NextSlot(1, 0), {})
<1>1. now = 0 /\ routine = x[1] /\ box = x[2] /\ flush = [f \in Flusher |-> NoFlush]
  BY DEF Init
<1>2. r \in Routine /\ r.life = "active"
  BY Bounds DEF Routine
<1> HIDE DEF r
<1>3. Planned(x[1], x[2])
  <2>1. {} \in SUBSET Row /\ OneCall({}) /\ now \in Nat
    BY <1>1 DEF OneCall
  <2>2. NextSlot(1, 0) \in Slot \union {NoSlot} /\ (NextSlot(1, 0) # NoSlot => NextSlot(1, 0) > now)
    BY <1>1, NextSlotLater
  <2> QED
    BY <1>2, <2>1, <2>2, AppliedPlan
<1> HIDE DEF x
<1>4. \A f \in Flusher : flush[f].todo = {} /\ flush[f].row = NoRow
  BY <1>1 DEF NoFlush
<1>5. FlushOK
  BY <1>4 DEF FlushOK, OneCall, Schedule, NoRow
<1>6. Reserved
  BY <1>1, <1>3 DEF Planned, Reserved
<1> QED
  BY <1>1, <1>5, <1>6 DEF Calls

\* With one flusher, as in a core without a memory, no order of pauses, resumes,
\* redeliveries, failed calls and restarts loses the wake of the reserved slot.
THEOREM ChainNeverLost ==
  ASSUME OneFlusher
  PROVE  Spec => []ChainAlive
<1>1. Init => Inv /\ Calls
  BY InitInv, InitCalls
<1>2. (Inv /\ Calls) /\ [Next]_vars => (Inv /\ Calls)'
  BY NextKeepsInv, NextKeepsCalls
<1>3. Inv /\ Calls => ChainAlive
  BY DEF Inv, PlanOK, Calls, Reserved, ChainAlive, Schedule
<1> QED
  BY <1>1, <1>2, <1>3, PTL DEF Spec
=============================================================================
