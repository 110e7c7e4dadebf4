------------------------- MODULE EventIntakeProofs -------------------------
(***************************************************************************)
(* Theorems about EventIntake, for any events, timestamps and tolerance.   *)
(*                                                                         *)
(* Whatever the marker says, an event that was dealt with said it first:   *)
(* the schedule is the timestamp of such an event, and the marker, in      *)
(* memory and in account data, lies below one by the tolerance.  What the  *)
(* task worked out before its write stays what is scheduled, because the   *)
(* schedule's mutex stays with it.                                         *)
(***************************************************************************)
EXTENDS EventIntake, TLAPS

\* A marker that holds anything back is that of an event dealt with.
Earned(marker) == marker > 0 => \E h \in handled : marker = ts[h] - Tolerance

\* What is being written is what is scheduled.
DueIsScheduled == persister = "writing" => due = next - Tolerance

IntakeInv ==
  /\ TypeOK
  /\ DueIsScheduled
  /\ next # 0 => \E h \in handled : next = ts[h]
  /\ Earned(cached) /\ Earned(stored)
  /\ OnlyLateEventsAreIgnored

-----------------------------------------------------------------------------
(* Types.                                                                  *)

LEMMA InitTyped == Init => TypeOK
BY BoundAssumption DEF Init, TypeOK

LEMMA HandlersTyped ==
  ASSUME TypeOK, NEW e \in Events, Deliver(e) \/ HandlerStep(e) \/ HandlerFails(e)
  PROVE  TypeOK'
<1> USE BoundAssumption DEF TypeOK, Ended
<1>1. CASE Deliver(e)
  BY <1>1 DEF Deliver
<1>2. CASE LockManager(e) \/ IsCaughtUp(e)
  BY <1>2 DEF LockManager, IsCaughtUp
<1>3. CASE Handle(e)
  BY <1>3 DEF Handle
<1>4. CASE CatchUp(e)
  BY <1>4 DEF CatchUp, ScheduleIsFree
<1>5. CASE HandlerFails(e)
  BY <1>5 DEF HandlerFails
<1> QED BY <1>1, <1>2, <1>3, <1>4, <1>5 DEF HandlerStep

LEMMA StepTyped == TypeOK /\ [Next]_vars => TypeOK'
<1> SUFFICES ASSUME TypeOK, [Next]_vars
             PROVE  TypeOK'
  OBVIOUS
<1>1. CASE \E e \in Events : Deliver(e) \/ HandlerStep(e) \/ HandlerFails(e)
  BY <1>1, HandlersTyped
<1>2. CASE Tick
  BY <1>2, BoundAssumption DEF Tick, ScheduleIsFree, TypeOK
<1>3. CASE ReadMarker
  <2>1. next \in Timestamps
    BY <1>3 DEF ReadMarker, TypeOK
  <2>2. due' \in {0} \cup {t - Tolerance : t \in Timestamps}
    BY <1>3, <2>1 DEF ReadMarker, TypeOK
  <2> QED BY <1>3, <2>2, BoundAssumption DEF ReadMarker, TypeOK
<1>4. CASE Persist
  <2>1. {cached', stored'} \subseteq {0} \cup {t - Tolerance : t \in Timestamps}
    BY <1>4 DEF Persist, TypeOK
  <2> QED BY <1>4, <2>1, BoundAssumption DEF Persist, TypeOK
<1>5. CASE \E storeLost \in BOOLEAN : Restart(storeLost)
  <2> PICK storeLost \in BOOLEAN : Restart(storeLost)
    BY <1>5
  <2>1. pc' \in [Events -> {"unsent", "checking", "reading", "handling", "catching_up"} \cup Ended]
    BY DEF Restart, TypeOK, Ended
  <2> QED BY <2>1, BoundAssumption DEF Restart, TypeOK
<1>6. CASE UNCHANGED vars
  BY <1>6 DEF vars, TypeOK
<1> QED BY <1>1, <1>2, <1>3, <1>4, <1>5, <1>6 DEF Next

-----------------------------------------------------------------------------
(* The invariant.                                                          *)

\* Timestamps and markers are integers.
LEMMA MarkersAreIntegers ==
  ASSUME TypeOK
  PROVE  /\ \A e \in Events : ts[e] \in Nat /\ ts[e] > 0
         /\ next \in Nat /\ due \in Int /\ cached \in Int /\ stored \in Int /\ Tolerance \in Nat
<1> USE TimestampAssumption, ToleranceAssumption DEF TypeOK
<1>1. \A e \in Events : ts[e] \in Timestamps
  OBVIOUS
<1>2. \A t \in Timestamps : t \in Nat /\ t > 0 /\ t - Tolerance \in Int
  OBVIOUS
<1>3. due \in Int /\ cached \in Int /\ stored \in Int
  BY <1>2
<1>4. next \in Nat
  BY <1>2
<1>5. \A e \in Events : ts[e] \in Nat /\ ts[e] > 0
  BY <1>1, <1>2
<1> QED BY <1>3, <1>4, <1>5

LEMMA InitInv == Init => IntakeInv
BY InitTyped DEF Init, IntakeInv, DueIsScheduled, Earned, OnlyLateEventsAreIgnored

LEMMA StepInv == IntakeInv /\ [Next]_vars => IntakeInv'
<1> SUFFICES ASSUME IntakeInv, [Next]_vars
             PROVE  IntakeInv'
  OBVIOUS
<1> USE DEF DueIsScheduled, Earned, OnlyLateEventsAreIgnored
<1>0. TypeOK /\ TypeOK' /\ ts' = ts
  <2>1. TypeOK /\ TypeOK'
    BY StepTyped DEF IntakeInv
  <2>2. ts' = ts
    BY DEF Next, vars, Deliver, HandlerStep, LockManager, IsCaughtUp, Handle, CatchUp,
           HandlerFails, Tick, ReadMarker, Persist, Restart
  <2> QED BY <2>1, <2>2
\* Only Persist and Restart change a marker, only CatchUp the schedule, and
\* only IsCaughtUp finds an event old.
<1>1. ASSUME NEW e \in Events, Deliver(e) \/ LockManager(e) \/ Handle(e) \/ HandlerFails(e)
      PROVE  IntakeInv'
  <2>1. UNCHANGED <<next, persister, due, cached, stored, handled>>
    BY <1>1 DEF Deliver, LockManager, Handle, HandlerFails
  <2>2. \A f \in Events : pc'[f] = "old" => pc[f] = "old"
    BY <1>0, <1>1 DEF Deliver, LockManager, Handle, HandlerFails, TypeOK
  <2> QED BY <1>0, <2>1, <2>2 DEF IntakeInv
<1>2. ASSUME NEW e \in Events, IsCaughtUp(e)
      PROVE  IntakeInv'
  <2>1. UNCHANGED <<next, persister, due, cached, stored, handled>>
    BY <1>2 DEF IsCaughtUp
  <2>2. cached >= ts[e] => \E h \in handled : ts[h] >= ts[e] + Tolerance
    <3> SUFFICES ASSUME cached >= ts[e]
                 PROVE  \E h \in handled : ts[h] >= ts[e] + Tolerance
      OBVIOUS
    <3>1. PICK h \in handled : cached = ts[h] - Tolerance
      BY <1>0, MarkersAreIntegers DEF IntakeInv
    <3>2. h \in Events
      BY <1>0 DEF TypeOK
    <3> QED BY <1>0, <3>1, <3>2, MarkersAreIntegers
  <2>3. \A f \in Events : pc'[f] = "old" => pc[f] = "old" \/ (f = e /\ cached >= ts[e])
    BY <1>0, <1>2 DEF IsCaughtUp, TypeOK
  <2> QED BY <1>0, <2>1, <2>2, <2>3 DEF IntakeInv
<1>3. ASSUME NEW e \in Events, CatchUp(e)
      PROVE  IntakeInv'
  <2>1. /\ UNCHANGED <<persister, due, cached, stored>> /\ handled' = handled \cup {e}
        /\ persister = "waiting"
    BY <1>3 DEF CatchUp, ScheduleIsFree
  <2>2. next' # 0 => \E h \in handled' : next' = ts[h]
    BY <1>0, <1>3, MarkersAreIntegers DEF CatchUp, IntakeInv
  <2>3. \A f \in Events : pc'[f] = "old" => pc[f] = "old"
    BY <1>0, <1>3 DEF CatchUp, TypeOK
  <2> QED BY <1>0, <2>1, <2>2, <2>3 DEF IntakeInv
<1>4. CASE Tick \/ ReadMarker
  BY <1>0, <1>4 DEF Tick, ReadMarker, IntakeInv
<1>5. CASE Persist
  <2>1. \E h \in handled : due = ts[h] - Tolerance
    BY <1>0, <1>5 DEF Persist, IntakeInv, TypeOK
  <2>2. cached' \in {cached, due} /\ stored' \in {stored, due}
    BY <1>5 DEF Persist
  <2>3. Earned(cached)' /\ Earned(stored)'
    BY <1>0, <1>5, <2>1, <2>2 DEF Persist, IntakeInv
  <2> QED BY <1>0, <1>5, <2>3 DEF Persist, IntakeInv
<1>6. ASSUME NEW storeLost \in BOOLEAN, Restart(storeLost)
      PROVE  IntakeInv'
  <2>1. \A f \in Events : pc'[f] = "old" => pc[f] = "old"
    BY <1>6 DEF Restart
  <2> QED BY <1>0, <1>6, <2>1 DEF Restart, IntakeInv
<1>7. CASE UNCHANGED vars
  BY <1>0, <1>7 DEF vars, IntakeInv
<1> QED BY <1>1, <1>2, <1>3, <1>4, <1>5, <1>6, <1>7 DEF Next, HandlerStep

-----------------------------------------------------------------------------
\* The marker, its schedule and the handlers have the declared types.
THEOREM IntakeTypes == Spec => []TypeOK
<1> QED BY InitTyped, StepTyped, PTL DEF Spec

\* An event is ignored as old only after one that is later by the tolerance
\* was dealt with, in whatever order events arrive and however often the bot
\* is restarted (is_caught_up).
THEOREM LateEventsOnly == Spec => []OnlyLateEventsAreIgnored
<1>1. IntakeInv => OnlyLateEventsAreIgnored
  BY DEF IntakeInv
<1> QED BY InitInv, StepInv, <1>1, PTL DEF Spec

\* What is scheduled is written, superseded, or lost to a failure or a restart,
\* however catch_up and the persisting task interleave.
THEOREM ScheduleKept == Spec => ScheduleIsNotDropped
<1>1. ASSUME TypeOK, DueIsScheduled, [Next]_vars, next' < next
      PROVE  \/ stored' = next - Tolerance /\ cached' = stored'
             \/ persister = "writing" /\ failures' > failures
             \/ crashes' > crashes
  <2>0. next \in Nat /\ failures \in Nat /\ crashes \in Nat
    BY <1>1, MarkersAreIntegers, BoundAssumption DEF TypeOK
  <2>1. ASSUME NEW e \in Events, Deliver(e) \/ HandlerStep(e) \/ HandlerFails(e)
        PROVE  ~(next' < next)
    BY <1>1, <2>0, <2>1, MarkersAreIntegers DEF Deliver, HandlerStep, HandlerFails, LockManager,
                                                IsCaughtUp, Handle, CatchUp
  <2>2. CASE Tick \/ ReadMarker
    BY <1>1, <2>0, <2>2 DEF Tick, ReadMarker
  <2>3. CASE Persist
    BY <1>1, <2>0, <2>3 DEF Persist, DueIsScheduled
  <2>4. CASE \E storeLost \in BOOLEAN : Restart(storeLost)
    BY <2>0, <2>4 DEF Restart
  <2>5. CASE UNCHANGED vars
    BY <1>1, <2>0, <2>5 DEF vars
  <2> QED BY <1>1, <2>1, <2>2, <2>3, <2>4, <2>5 DEF Next
<1>2. IntakeInv => TypeOK /\ DueIsScheduled
  BY DEF IntakeInv
<1> QED BY InitInv, StepInv, <1>1, <1>2, PTL DEF Spec, ScheduleIsNotDropped
=============================================================================
