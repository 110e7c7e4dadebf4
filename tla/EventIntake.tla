---------------------------- MODULE EventIntake ----------------------------
(***************************************************************************)
(* Which events the bot reacts to: the catch-up marker that protects it    *)
(* from answering old events again when the Matrix SDK's state store is    *)
(* lost (src/entity/catch_up_marker), and the handlers that use it.        *)
(*                                                                         *)
(* Handlers of several events overlap, with each other and with the task   *)
(* that persists the marker.  Two mutexes: one around the timestamp        *)
(* scheduled for the next update, which the task holds from its tick until *)
(* the write is over and a handler only for the moment it schedules; and   *)
(* one around the marker's manager, which whoever reads or writes the      *)
(* marker holds across the requests this takes.                            *)
(***************************************************************************)
EXTENDS Integers, FiniteSets

CONSTANTS
  Events,       \* messages, reactions and joins the bot may be given
  Timestamps,   \* values of origin_server_ts
  Tolerance,    \* the federation delay tolerance
  MaxFailures,  \* bound on account data requests that fail
  MaxCrashes    \* bound on restarts, with or without the state store

ASSUME TimestampAssumption == Timestamps \subseteq Nat \ {0}
ASSUME ToleranceAssumption == Tolerance \in Nat
ASSUME BoundAssumption == MaxFailures \in Nat /\ MaxCrashes \in Nat

VARIABLES
  ts,         \* origin_server_ts of each event, as its own server wrote it
  pc,         \* where the event's handler is
  next,       \* the timestamp scheduled for the next update, 0 if none
  persister,  \* the persisting task: waits for its interval, holds the
              \* schedule's mutex, or writes and holds both
  due,        \* what the task is writing, 0 if nothing
  cached,     \* the marker in the manager
  stored,     \* the marker in account data
  handled,    \* history: the events whose handler caught up
  failures, crashes

vars == <<ts, pc, next, persister, due, cached, stored, handled, failures, crashes>>

Ended == {"old", "skipped", "done", "failed", "killed"}

TypeOK ==
  /\ ts \in [Events -> Timestamps]
  /\ pc \in [Events -> {"unsent", "checking", "reading", "handling", "catching_up"} \cup Ended]
  /\ next \in {0} \cup Timestamps
  /\ persister \in {"waiting", "scheduled", "writing"}
  /\ persister # "waiting" => next # 0
  /\ {due, cached, stored} \subseteq {0} \cup {t - Tolerance : t \in Timestamps}
  /\ handled \subseteq Events
  /\ failures \in 0..MaxFailures /\ crashes \in 0..MaxCrashes

Init ==
  /\ ts \in [Events -> Timestamps]
  /\ pc = [e \in Events |-> "unsent"]
  /\ next = 0 /\ persister = "waiting" /\ due = 0
  /\ cached = 0 /\ stored = 0
  /\ handled = {}
  /\ failures = 0 /\ crashes = 0

ScheduleIsFree == persister = "waiting"
ManagerIsFree  == persister # "writing" /\ \A e \in Events : pc[e] # "reading"

-----------------------------------------------------------------------------
(* One event's handler (on_actionable_message, on_actionable_reaction,     *)
(* on_joined).                                                             *)

\* The Matrix SDK gives an event once, as long as its state store is kept.
Deliver(e) ==
  /\ pc[e] = "unsent"
  /\ pc' = [pc EXCEPT ![e] = "checking"]
  /\ UNCHANGED <<ts, next, persister, due, cached, stored, handled, failures, crashes>>

\* is_caught_up takes the manager's mutex, ...
LockManager(e) ==
  /\ pc[e] = "checking" /\ ManagerIsFree
  /\ pc' = [pc EXCEPT ![e] = "reading"]
  /\ UNCHANGED <<ts, next, persister, due, cached, stored, handled, failures, crashes>>

\* Faulty variant: compares with the timestamp that is scheduled, and waits
\* for its mutex with the manager's in hand.
IsCaughtUp_Scheduled(e) ==
  /\ pc[e] = "reading" /\ ScheduleIsFree
  /\ pc' = [pc EXCEPT ![e] = IF next >= ts[e] THEN "old" ELSE "handling"]
  /\ UNCHANGED <<ts, next, persister, due, cached, stored, handled, failures, crashes>>

\* ... has the marker, compares, and lets go of it.
IsCaughtUp(e) ==
  /\ pc[e] = "reading"
  /\ pc' = [pc EXCEPT ![e] = IF cached >= ts[e] THEN "old" ELSE "handling"]
  /\ UNCHANGED <<ts, next, persister, due, cached, stored, handled, failures, crashes>>

\* The marker, or later a configuration document, could not be read: the
\* event is dropped, and the handler ends without catching up.
HandlerFails(e) ==
  /\ pc[e] \in {"reading", "handling"}
  /\ failures < MaxFailures /\ failures' = failures + 1
  /\ pc' = [pc EXCEPT ![e] = "failed"]
  /\ UNCHANGED <<ts, next, persister, due, cached, stored, handled, crashes>>

\* Not from a user of the bot, not for the bot, of a type it does not know;
\* or dealt with.
Handle(e) ==
  /\ pc[e] = "handling"
  /\ pc' \in {[pc EXCEPT ![e] = "skipped"], [pc EXCEPT ![e] = "catching_up"]}
  /\ UNCHANGED <<ts, next, persister, due, cached, stored, handled, failures, crashes>>

\* Faulty variant: does not wait for the task.
CatchUp_Unlocked(e) ==
  /\ pc[e] = "catching_up"
  /\ next' = IF next > ts[e] THEN next ELSE ts[e]
  /\ handled' = handled \cup {e}
  /\ pc' = [pc EXCEPT ![e] = "done"]
  /\ UNCHANGED <<ts, persister, due, cached, stored, failures, crashes>>

\* catch_up waits for the task that persists what is scheduled.
CatchUp(e) ==
  /\ pc[e] = "catching_up" /\ ScheduleIsFree
  /\ next' = IF next > ts[e] THEN next ELSE ts[e]
  /\ handled' = handled \cup {e}
  /\ pc' = [pc EXCEPT ![e] = "done"]
  /\ UNCHANGED <<ts, persister, due, cached, stored, failures, crashes>>

-----------------------------------------------------------------------------
(* The task started by DelayedCatchUpMarkerManager::start.                 *)

\* The interval elapses and something is scheduled: the schedule's mutex is
\* taken, and kept.
Tick ==
  /\ ScheduleIsFree /\ next # 0
  /\ persister' = "scheduled"
  /\ UNCHANGED <<ts, pc, next, due, cached, stored, handled, failures, crashes>>

\* The manager's mutex is taken as well.  What is to be written is worked out
\* now; when the marker cannot be read, both mutexes are let go of and the
\* update is left for the next tick.
ReadMarker ==
  /\ persister = "scheduled" /\ ManagerIsFree
  /\ \/ persister' = "writing" /\ due' = next - Tolerance /\ UNCHANGED failures
     \/ /\ failures < MaxFailures /\ failures' = failures + 1
        /\ persister' = "waiting"
        /\ UNCHANGED due
  /\ UNCHANGED <<ts, pc, next, cached, stored, handled, crashes>>

\* A failed write is not repeated, though it may have been carried out.
Persist ==
  /\ persister = "writing"
  /\ \/ cached' = due /\ stored' = due /\ UNCHANGED failures
     \/ /\ failures < MaxFailures /\ failures' = failures + 1
        /\ stored' \in {stored, due}
        /\ UNCHANGED cached
  /\ next' = 0 /\ due' = 0
  /\ persister' = "waiting"
  /\ UNCHANGED <<ts, pc, handled, crashes>>

-----------------------------------------------------------------------------
\* The process is restarted.  Without its state store, the Matrix SDK feeds it
\* the same events again.
Restart(storeLost) ==
  /\ crashes < MaxCrashes /\ crashes' = crashes + 1
  /\ pc' = [e \in Events |->
              IF storeLost THEN "unsent"
              ELSE IF pc[e] \in {"checking", "reading", "handling", "catching_up"} THEN "killed"
              ELSE pc[e]]
  /\ next' = 0 /\ persister' = "waiting" /\ due' = 0
  /\ cached' = stored
  /\ UNCHANGED <<ts, stored, handled, failures>>

HandlerStep(e) == LockManager(e) \/ IsCaughtUp(e) \/ Handle(e) \/ CatchUp(e)

Next ==
  \/ \E e \in Events : Deliver(e) \/ HandlerStep(e) \/ HandlerFails(e)
  \/ Tick \/ ReadMarker \/ Persist
  \/ \E storeLost \in BOOLEAN : Restart(storeLost)

Spec == Init /\ [][Next]_vars

\* The runtime polls every handler that can go on and the persisting task, and
\* the interval keeps elapsing.  Whoever waits for a mutex is only sure to get
\* it because tokio's mutexes are fair: others take it again and again, so weak
\* fairness would not do.
FairSpec ==
  /\ Spec
  /\ WF_vars(Tick) /\ SF_vars(ReadMarker) /\ WF_vars(Persist)
  /\ \A e \in Events : SF_vars(HandlerStep(e))

-----------------------------------------------------------------------------
(* Safety.                                                                 *)

\* "A larger delay than this may mean we ignore events that are actually new":
\* only then.  An event the bot has not dealt with is ignored as old only when
\* it did deal with one that is later by the tolerance, whatever restarts,
\* failed writes and other handlers came between.
OnlyLateEventsAreIgnored ==
  \A e \in Events : pc[e] = "old" => \E h \in handled : ts[h] >= ts[e] + Tolerance

\* What a handler scheduled leaves the schedule by being persisted, by a later
\* timestamp, by a write that failed, or by a restart: never because it was
\* scheduled while the task was writing what it had read before.
ScheduleIsNotDropped ==
  [][next' < next => \/ stored' = next - Tolerance /\ cached' = stored'
                     \/ persister = "writing" /\ failures' > failures
                     \/ crashes' > crashes]_vars

-----------------------------------------------------------------------------
(* Liveness.                                                               *)

\* A handler ends, and what it scheduled is written, though the task waits for
\* the manager's mutex with the schedule's in hand, and handlers take both: a
\* handler must never want the second while it holds the first.
HandlersAndScheduleEnd ==
  /\ \A e \in Events : pc[e] = "checking" ~> pc[e] \in Ended \cup {"unsent"}
  /\ next # 0 ~> next = 0
=============================================================================
