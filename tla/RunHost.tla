-------------------------------- MODULE RunHost --------------------------------
(***************************************************************************)
(* What keeps a run of agentic-dag going on its host: the scheduled job    *)
(* that fires start again and again, the watcher process that fires it on  *)
(* pull request events, the run lock they meet at, and the start, retry    *)
(* and abort commands that register, retire and kill them.                 *)
(*                                                                         *)
(* The holder of the run lock is one process at one place (who, pc).  A    *)
(* start that was fired and still boots has not come to the lock yet.  The *)
(* clean-up that systemd runs after a retired service is a process of its  *)
(* own; only the lock on the unit files keeps it apart from registration.  *)
(***************************************************************************)
EXTENDS Integers, FiniteSets

CONSTANTS
  Hosts,     \* the job systems considered
  Watchers,  \* process ids of watchers
  Budget,    \* what may happen, each at most once: commands, edits, mishaps
  MaxEvents, \* and how many of these in one behaviour
  Nobody     \* no watcher

Mishaps == {"crash", "reboot", "failure", "rollback", "misjudged", "watcherDies"}
Requests == {"start", "startAgain", "retry", "abort", "edit"}

ASSUME HostAssumption ==
  /\ Hosts \subseteq {"systemd", "launchd"}
  /\ Nobody \notin Watchers
  /\ Watchers \cap {"timer", "person", "abort", "retry", "none"} = {}
  /\ Budget \subseteq Mishaps \cup Requests
  /\ MaxEvents \in Nat

Absent == -1
Version == {Absent, 0, 1}   \* a job before and after the edit of its schedule

VARIABLES
  host,        \* the host's job system
  unit,        \* the unit files (launchd: the plist) and what the system loaded
  unitLock,    \* may the unit files be registered, or does a clean-up hold them
  cleanups,    \* detached clean-ups that systemd has yet to run
  jobRow,      \* the stored scheduled job
  wanted,      \* the job the dag file describes now
  watcherRow,  \* the stored watcher
  alive,       \* the watcher processes that live
  starting,    \* who fired a start that has not come to the run lock yet
  who,         \* whose process holds the run lock
  pc,          \* where that process is
  kept,        \* what it remembers of the units before it wrote them
  watcher,     \* the watcher it has forgotten or spawned, its row still to follow
  settled,     \* has every node of the run ended?
  aborted,     \* has abort ended the run, and was a start in flight then?
  spent        \* what has happened of the budget

hostVars    == <<unit, unitLock, cleanups>>
watchVars   == <<watcherRow, alive>>
lockVars    == <<who, pc, kept, watcher>>
runVars     == <<settled, aborted>>
vars == <<host, hostVars, jobRow, wanted, watchVars, starting, lockVars, runVars, spent>>

Callers == {"timer", "person"} \cup Watchers

NoUnit == [service |-> Absent, timer |-> Absent, loaded |-> Absent,
           enabled |-> FALSE, active |-> FALSE]

Place == {"idle", "tick", "reconcile", "ensure", "write", "activate", "rollback",
          "bootout", "bootstrap", "save", "watch", "saveWatcher", "forget", "kill",
          "deleteRow", "retire", "killOwn"}

TypeOK ==
  /\ host \in Hosts
  /\ unit \in [service : Version, timer : Version, loaded : Version,
               enabled : BOOLEAN, active : BOOLEAN]
  /\ unitLock \in {"free", "cleanup"}
  /\ cleanups \in Nat
  /\ jobRow \in Version /\ wanted \in Version \ {Absent}
  /\ watcherRow \in Watchers \cup {Nobody} /\ alive \subseteq Watchers
  /\ starting \subseteq Callers
  /\ who \in Callers \cup {"none", "abort", "retry"} /\ pc \in Place
  /\ kept \in [service : Version, timer : Version, registered : BOOLEAN]
  /\ watcher \in Watchers \cup {Nobody}
  /\ settled \in BOOLEAN /\ aborted \in {"no", "clean", "raced"}
  /\ spent \subseteq Budget

NothingKept == [service |-> Absent, timer |-> Absent, registered |-> FALSE]

Init ==
  /\ host \in Hosts
  /\ unit = NoUnit /\ unitLock = "free" /\ cleanups = 0
  /\ jobRow = Absent /\ wanted = 0
  /\ watcherRow = Nobody /\ alive = {} /\ starting = {}
  /\ who = "none" /\ pc = "idle" /\ kept = NothingKept /\ watcher = Nobody
  /\ settled = FALSE /\ aborted = "no" /\ spent = {}

-----------------------------------------------------------------------------
Once(event) ==
  /\ event \in Budget \ spent
  /\ Cardinality(spent) < MaxEvents
  /\ spent' = spent \cup {event}

\* Does the host go on firing starts?  systemd asks the timer and its service,
\* launchd only whether it holds the job.
IsRegistered ==
  IF host = "systemd"
  THEN unit.enabled /\ unit.active /\ unit.loaded # Absent
  ELSE unit.loaded # Absent

Fires == unit.loaded # Absent /\ (host = "systemd" => unit.active)

\* The command returns, fails with an error, or its process is gone: in every
\* case the run lock is free again.
LeaveLock ==
  /\ who' = "none" /\ pc' = "idle"
  /\ kept' = NothingKept /\ watcher' = Nobody

Goto(place) == pc' = place /\ UNCHANGED who

-----------------------------------------------------------------------------
(* Starts being fired, and the run lock.                                   *)

TimerFires ==
  /\ Fires
  /\ "timer" \notin starting /\ who # "timer"
  /\ starting' = starting \cup {"timer"}
  /\ UNCHANGED <<host, hostVars, jobRow, wanted, watchVars, lockVars, runVars, spent>>

WatcherFires(w) ==
  /\ w \in alive
  /\ w \notin starting /\ who # w
  /\ starting' = starting \cup {w}
  /\ UNCHANGED <<host, hostVars, jobRow, wanted, watchVars, lockVars, runVars, spent>>

PersonStarts ==
  /\ Once("start") \/ Once("startAgain")
  /\ "person" \notin starting /\ who # "person"
  /\ starting' = starting \cup {"person"}
  /\ aborted' = "no"
  /\ UNCHANGED <<host, hostVars, jobRow, wanted, watchVars, lockVars, settled>>

\* start takes the lock before it opens anything, or leaves when it is held.
ClaimRun(c) ==
  /\ c \in starting
  /\ starting' = starting \ {c}
  /\ IF pc = "idle"
     THEN who' = c /\ pc' = "tick" /\ UNCHANGED <<kept, watcher>>
     ELSE UNCHANGED lockVars
  /\ UNCHANGED <<host, hostVars, jobRow, wanted, watchVars, runVars, spent>>

\* Concludes leaving a run alone that was settled before (a mutated form).
ConcludesOnce == settled' /\ ~settled

Concludes == settled'

\* The pass itself: it finds the run settled or still active, and may fail.
Tick ==
  /\ pc = "tick"
  /\ \/ /\ settled' \in {settled, TRUE}
        /\ Goto(IF Concludes THEN "forget" ELSE "reconcile")
        /\ UNCHANGED <<kept, watcher, spent>>
     \/ Once("failure") /\ LeaveLock /\ UNCHANGED settled
  /\ UNCHANGED <<host, hostVars, jobRow, wanted, watchVars, starting, aborted>>

-----------------------------------------------------------------------------
(* Registering the job.                                                    *)

\* Where registration starts: systemd takes the lock of the unit files and
\* remembers them, launchd retires a job it already holds.
EnterRegister ==
  IF host = "systemd"
  THEN /\ unitLock = "free"
       /\ kept' = [service |-> unit.service, timer |-> unit.timer,
                   registered |-> IsRegistered]
       /\ Goto("write")
  ELSE /\ Goto(IF IsRegistered THEN "bootout" ELSE "bootstrap")
       /\ UNCHANGED kept

\* start: an unchanged job that the host holds is left alone.
Reconcile ==
  /\ pc = "reconcile"
  /\ IF IsRegistered /\ jobRow = wanted
     THEN Goto("watch") /\ UNCHANGED kept
     ELSE EnterRegister
  /\ UNCHANGED <<host, hostVars, jobRow, wanted, watchVars, starting, watcher, runVars, spent>>

StoredOnEnsure == IF jobRow = Absent THEN wanted ELSE jobRow

\* retry, skip and recover: a job that the host holds is left alone, changed
\* or not; its row is written when there is none.
EnsureRegistered ==
  /\ pc = "ensure"
  /\ IF IsRegistered
     THEN LeaveLock /\ jobRow' = StoredOnEnsure
     ELSE EnterRegister /\ UNCHANGED <<jobRow, watcher>>
  /\ UNCHANGED <<host, hostVars, wanted, watchVars, starting, runVars, spent>>

\* The service file is written before the timer's.
WriteUnits ==
  /\ pc = "write"
  /\ \/ /\ unit' = [unit EXCEPT !.service = wanted, !.timer = wanted]
        /\ Goto("activate") /\ UNCHANGED spent
     \/ /\ Once("failure")
        /\ unit' \in {unit, [unit EXCEPT !.service = wanted]}
        /\ Goto("rollback")
  /\ UNCHANGED <<host, unitLock, cleanups, jobRow, wanted, watchVars, starting, kept, watcher, runVars>>

\* link, daemon-reload, enable --now: each may fail.
Activate ==
  /\ pc = "activate"
  /\ \/ /\ unit' = [unit EXCEPT !.loaded = unit.service, !.enabled = TRUE, !.active = TRUE]
        /\ Goto("save") /\ UNCHANGED spent
     \/ /\ Once("failure")
        /\ unit' \in {unit, [unit EXCEPT !.loaded = unit.service]}
        /\ Goto("rollback")
  /\ UNCHANGED <<host, unitLock, cleanups, jobRow, wanted, watchVars, starting, kept, watcher, runVars>>

\* What disabling, unlinking and reloading leave of a unit whose timer goes.
TimerRemoved(u) ==
  [u EXCEPT !.active = FALSE, !.enabled = FALSE, !.timer = Absent, !.loaded = u.service]

WasRegistered == kept.registered

\* The files as they were before, of a job that was not registered those only
\* that existed.
Restored(u) ==
  [u EXCEPT !.service = IF WasRegistered \/ kept.service # Absent THEN kept.service ELSE @,
            !.timer = IF WasRegistered \/ kept.timer # Absent THEN kept.timer ELSE @]

\* An interrupted rollback restores the files and leaves the rest as it was.
Rollback ==
  /\ pc = "rollback"
  /\ \/ /\ LET u == Restored(IF WasRegistered THEN unit ELSE TimerRemoved(unit))
           IN unit' = [u EXCEPT !.loaded = u.service,
                                !.enabled = WasRegistered, !.active = WasRegistered]
        /\ cleanups' = IF WasRegistered THEN cleanups ELSE cleanups + 1
        /\ UNCHANGED spent
     \/ /\ Once("rollback")
        /\ \/ unit' = Restored(unit)
           \/ ~WasRegistered /\ unit' = Restored(TimerRemoved(unit))
        /\ UNCHANGED cleanups
  /\ LeaveLock
  /\ UNCHANGED <<host, unitLock, jobRow, wanted, watchVars, starting, runVars>>

\* launchd ends the processes of a job it lets go: a start the job fired, and
\* it may be the caller; the plist is unlinked first.
Bootout(next) ==
  /\ unit' = NoUnit
  /\ starting' = starting \ {"timer"}
  /\ \/ next
     \/ who = "timer" /\ LeaveLock /\ UNCHANGED <<alive, aborted>>

BootoutToRegister ==
  /\ pc = "bootout"
  /\ \/ /\ Bootout(Goto("bootstrap") /\ UNCHANGED <<kept, watcher, alive, aborted>>)
        /\ UNCHANGED spent
     \/ /\ Once("failure")
        /\ unit' = [unit EXCEPT !.service = Absent]
        /\ LeaveLock /\ UNCHANGED <<starting, alive, aborted>>
  /\ UNCHANGED <<host, unitLock, cleanups, jobRow, wanted, watcherRow, settled>>

\* launchd loads the plist just written, or it is unlinked again.
Bootstrap ==
  /\ pc = "bootstrap"
  /\ \/ /\ unit' = [unit EXCEPT !.service = wanted, !.loaded = wanted]
        /\ Goto("save") /\ UNCHANGED <<kept, watcher, spent>>
     \/ /\ Once("failure")
        /\ LeaveLock /\ UNCHANGED unit
  /\ UNCHANGED <<host, unitLock, cleanups, jobRow, wanted, watchVars, starting, runVars>>

SaveJob ==
  /\ pc = "save"
  /\ jobRow' = unit.loaded
  /\ IF who = "retry"
     THEN LeaveLock
     ELSE Goto("watch") /\ kept' = NothingKept /\ UNCHANGED watcher
  /\ UNCHANGED <<host, hostVars, wanted, watchVars, starting, runVars, spent>>

-----------------------------------------------------------------------------
(* The watcher.                                                            *)

\* WatcherLives never asked (a mutated form).
NoWatcherLives == FALSE

WatcherLives == watcherRow \in alive

\* A watcher that lives is left alone; otherwise one is spawned.  Whether it
\* lives is asked of ps, which may not answer.
Watch ==
  /\ pc = "watch"
  /\ \/ /\ WatcherLives
        /\ LeaveLock /\ UNCHANGED <<alive, spent>>
     \/ /\ IF WatcherLives THEN Once("misjudged") ELSE UNCHANGED spent
        /\ \E w \in Watchers \ (alive \cup {watcherRow}) :
             watcher' = w /\ alive' = alive \cup {w}
        /\ Goto("saveWatcher") /\ UNCHANGED kept
  /\ UNCHANGED <<host, hostVars, jobRow, wanted, watcherRow, starting, runVars>>

SaveWatcher ==
  /\ pc = "saveWatcher"
  /\ watcherRow' = watcher
  /\ LeaveLock
  /\ UNCHANGED <<host, hostVars, jobRow, wanted, alive, starting, runVars, spent>>

\* A watcher stops by itself when the run has no stored job, and it no pull
\* request to watch or its plan still to read.
WatcherEnds(w) ==
  /\ w \in alive
  /\ w \notin starting /\ who # w
  /\ \/ jobRow = Absent /\ UNCHANGED spent
     \/ Once("watcherDies")
  /\ alive' = alive \ {w}
  /\ UNCHANGED <<host, hostVars, jobRow, wanted, watcherRow, starting, lockVars, runVars>>

-----------------------------------------------------------------------------
(* Concluding and aborting.                                                *)

\* The watcher's row is deleted; the process is killed in a later step.
Forget ==
  /\ pc = "forget"
  /\ watcher' = watcherRow
  /\ watcherRow' = Nobody
  /\ Goto("kill") /\ UNCHANGED kept
  /\ UNCHANGED <<host, hostVars, jobRow, wanted, alive, starting, runVars, spent>>

\* The watcher's process group dies, and with it the start it fired.
KillGroup(w) ==
  /\ alive' = alive \ {w}
  /\ starting' = starting \ {w}

\* KillsLater for any watcher (a mutated form).
KillsAnyLater == watcher # Nobody

\* The kill of the watcher that a pass in its own group leaves to the end.
KillsLater == watcher = who

KillForgotten ==
  /\ pc = "kill"
  /\ IF watcher = Nobody \/ KillsLater
     THEN UNCHANGED <<alive, starting, spent>>
     ELSE \/ KillGroup(watcher) /\ UNCHANGED spent
          \/ Once("misjudged") /\ UNCHANGED <<alive, starting>>
  /\ Goto("deleteRow") /\ UNCHANGED <<kept, watcher>>
  /\ UNCHANGED <<host, hostVars, jobRow, wanted, watcherRow, runVars>>

DeleteJobRow ==
  /\ pc = "deleteRow"
  /\ jobRow' = Absent
  /\ Goto("retire") /\ UNCHANGED <<kept, watcher>>
  /\ UNCHANGED <<host, hostVars, wanted, watchVars, starting, runVars, spent>>

ToRetire == IsRegistered

\* What follows the retirement of the job.  A watcher whose pass concluded the
\* run stops; abort ends with the run down, whatever start the host has in
\* flight.
AfterRetire ==
  /\ IF KillsLater
     THEN Goto("killOwn") /\ UNCHANGED <<kept, watcher, alive>>
     ELSE LeaveLock /\ alive' = alive \ {who}
  /\ aborted' = IF who # "abort" \/ "person" \in starting' THEN aborted
                ELSE IF starting' = {} THEN "clean" ELSE "raced"

\* systemd: the timer is stopped, disabled and removed, and a clean-up of the
\* service is left to run behind the current invocation.
RetireTimer ==
  /\ host = "systemd"
  /\ unitLock = "free"
  /\ \/ /\ unit' = TimerRemoved(unit)
        /\ cleanups' = cleanups + 1
        /\ UNCHANGED <<starting, spent>>
        /\ AfterRetire
     \/ /\ Once("failure")
        /\ unit' \in {unit, [unit EXCEPT !.active = FALSE],
                      [unit EXCEPT !.active = FALSE, !.enabled = FALSE]}
        /\ LeaveLock
        /\ UNCHANGED <<cleanups, starting, alive, aborted>>

RetirePlist ==
  /\ host = "launchd"
  /\ \/ Bootout(AfterRetire) /\ UNCHANGED spent
     \/ /\ Once("failure")
        /\ unit' = [unit EXCEPT !.service = Absent]
        /\ LeaveLock /\ UNCHANGED <<starting, alive, aborted>>
  /\ UNCHANGED cleanups

RetireJob ==
  /\ pc = "retire"
  /\ IF ToRetire
     THEN RetireTimer \/ RetirePlist
     ELSE UNCHANGED <<unit, cleanups, starting, spent>> /\ AfterRetire
  /\ UNCHANGED <<host, unitLock, jobRow, wanted, watcherRow, settled>>

\* A pass that the watcher fired kills its own process group at the very end.
KillOwn ==
  /\ pc = "killOwn"
  /\ \/ KillGroup(watcher) /\ UNCHANGED spent
     \/ Once("misjudged") /\ UNCHANGED <<alive, starting>>
  /\ LeaveLock
  /\ UNCHANGED <<host, hostVars, jobRow, wanted, watcherRow, runVars>>

\* abort and retry wait for the lock; retry puts a node back to work before it
\* sees to the job.
AbortRun ==
  /\ Once("abort")
  /\ pc = "idle"
  /\ who' = "abort" /\ pc' = "forget"
  /\ UNCHANGED <<host, hostVars, jobRow, wanted, watchVars, starting, kept, watcher, runVars>>

RetryNode ==
  /\ Once("retry")
  /\ pc = "idle"
  /\ who' = "retry" /\ pc' = "ensure"
  /\ settled' = FALSE /\ aborted' = "no"
  /\ UNCHANGED <<host, hostVars, jobRow, wanted, watchVars, starting, kept, watcher>>

-----------------------------------------------------------------------------
(* The clean-up of a retired service.                                      *)

\* systemd orders it behind the invocation it was asked for in; it waits for
\* the lock of the unit files.
CleanupDue ==
  /\ cleanups > 0
  /\ who # "timer"
  /\ unitLock = "free" /\ pc \notin {"write", "activate", "rollback"}

\* MayRemove not looking for a timer (a mutated form).
MayRemoveAlways == unit.service # Absent

MayRemove == unit.timer = Absent /\ unit.service # Absent

CleanupBegins ==
  /\ CleanupDue
  /\ cleanups' = cleanups - 1
  /\ unitLock' = IF MayRemove THEN "cleanup" ELSE "free"
  /\ UNCHANGED <<host, unit, jobRow, wanted, watchVars, starting, lockVars, runVars, spent>>

CleanupRemoves ==
  /\ unitLock = "cleanup"
  /\ unitLock' = "free"
  /\ \/ unit' = [unit EXCEPT !.service = Absent, !.loaded = Absent] /\ UNCHANGED spent
     \/ Once("failure") /\ unit' \in {unit, [unit EXCEPT !.service = Absent]}
  /\ UNCHANGED <<host, cleanups, jobRow, wanted, watchVars, starting, lockVars, runVars>>

-----------------------------------------------------------------------------
(* Mishaps and the operator's edits.                                       *)

\* The process at the lock dies between two steps; the kernel frees the lock.
Crash ==
  /\ Once("crash")
  /\ pc # "idle"
  /\ LeaveLock
  /\ UNCHANGED <<host, hostVars, jobRow, wanted, watchVars, starting, runVars>>

\* Every process dies; the host comes back with the enabled timers and the
\* plists it finds.
Reboot ==
  /\ Once("reboot")
  /\ LeaveLock
  /\ starting' = {} /\ alive' = {} /\ cleanups' = 0 /\ unitLock' = "free"
  /\ unit' = [unit EXCEPT !.loaded = unit.service,
                          !.active = unit.enabled /\ unit.timer # Absent]
  /\ UNCHANGED <<host, jobRow, wanted, watcherRow, runVars>>

\* The dag file asks for another schedule.
EditSchedule ==
  /\ Once("edit")
  /\ pc = "idle"
  /\ wanted' = 1
  /\ UNCHANGED <<host, hostVars, jobRow, watchVars, starting, lockVars, runVars>>

PassStep ==
  \/ Tick \/ Reconcile \/ EnsureRegistered \/ WriteUnits \/ Activate \/ Rollback
  \/ BootoutToRegister \/ Bootstrap \/ SaveJob \/ Watch \/ SaveWatcher
  \/ Forget \/ KillForgotten \/ DeleteJobRow \/ RetireJob \/ KillOwn

Cleanup == CleanupBegins \/ CleanupRemoves

Next ==
  \/ TimerFires \/ PersonStarts \/ AbortRun \/ RetryNode
  \/ PassStep \/ Cleanup
  \/ Crash \/ Reboot \/ EditSchedule
  \/ \E w \in Watchers : WatcherFires(w) \/ WatcherEnds(w)
  \/ \E c \in Callers : ClaimRun(c)

Spec == Init /\ [][Next]_vars

\* The host runs what it has to run: processes at the lock go on, clean-ups are
\* started, a job fires again and again.  The start that the job fires finds
\* the lock free sooner or later.
Fairness ==
  /\ WF_vars(PassStep) /\ WF_vars(Cleanup) /\ WF_vars(TimerFires)
  /\ SF_vars(pc = "idle" /\ ClaimRun("timer"))

FairSpec == Spec /\ Fairness

-----------------------------------------------------------------------------
(* What the host promises.                                                 *)

Unharmed(kinds) == spent \cap kinds = {}

\* A command can always find and kill the watcher that lives: it is the one in
\* the stored row, or the pass at the lock is about to write its row or to kill
\* it (WatcherService.watch, forget, kill).
EveryWatcherIsKnown ==
  Unharmed({"crash", "failure", "misjudged"}) => alive \subseteq {watcherRow, watcher}

\* A settled run holds on to nothing: when the pass that found it settled has
\* let go of the lock, neither a job nor a watcher would ever fire it again,
\* although that pass may live in the process group or the job that it ends
\* (StartCommandHandler._conclude).
SettledRunHasNoHost ==
  settled /\ pc = "idle" /\ Unharmed({"crash", "reboot", "failure", "misjudged"})
    => ~Fires /\ alive = {} /\ jobRow = Absent

\* As long as the stored row says that a run is scheduled, systemd fires it: an
\* update that fails is rolled back to the job there was
\* (SystemdScheduler._rollback, RunScheduleService).
StoredJobIsRegistered ==
  host = "systemd" /\ pc = "idle" /\ jobRow # Absent /\ Unharmed({"crash", "rollback"})
    => IsRegistered

\* The stored row tells the schedule that the host runs, or reconcile would
\* take a changed job for an unchanged one (RunScheduleService.reconcile).
RowTellsTheSchedule ==
  pc = "idle" /\ jobRow # Absent /\ IsRegistered /\ Unharmed({"crash", "reboot", "failure"})
    => unit.loaded = jobRow

\* The clean-up of a retired service never takes the service of a job that was
\* registered meanwhile (systemd_retirement.retire_service, lock_units).
TimerHasItsService == unit.timer # Absent => unit.service # Absent

\* A run that was aborted while no start was on its way to the lock stays
\* down: nothing fires it until a person starts or retries it
\* (AbortCommandHandler).
AbortedRunStaysDown ==
  aborted = "clean" /\ pc = "idle" /\ Unharmed({"crash", "reboot", "failure", "misjudged"})
    => ~Fires /\ alive = {} /\ starting = {}

\* A settled run gets rid of its job, whatever died or failed before: the job
\* that is left fires a start, and that concludes the run again.
SettledRunIsReleased == settled ~> (~Fires \/ ~settled)

\* The stored row and the host agree on the job, through updates that fail, deaths
\* and the detached clean-up of an earlier job.
HostKeepsTheStoredJob ==
  /\ TypeOK
  /\ StoredJobIsRegistered
  /\ RowTellsTheSchedule
  /\ TimerHasItsService

\* A run that has ended, by itself or by abort, is fired by nothing any more.
EndedRunStaysDown == SettledRunHasNoHost /\ AbortedRunStaysDown

=============================================================================
