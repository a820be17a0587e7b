---------------------------- MODULE RunHostProofs ----------------------------
(***************************************************************************)
(* Proofs that the stored job, the unit files and the watcher stay in step *)
(* and that a run which has ended is fired by nothing any more.            *)
(***************************************************************************)
EXTENDS RunHost, TLAPS

Registering == {"write", "activate", "rollback"}

\* Where a process may stand that ends the run, from forgetting its watcher on.
Ending == {"forget", "kill", "deleteRow", "retire", "killOwn"}

\* systemd registers under the lock of the unit files, launchd by bootout and
\* bootstrap, and it has no timers and no clean-ups.
HostInv ==
  /\ host = "launchd" =>
       pc \notin Registering /\ unit.timer = Absent /\ unitLock = "free" /\ cleanups = 0
  /\ host = "systemd" => pc \notin {"bootout", "bootstrap"}

\* The unit files: a timer has its service, what is enabled has its timer, and
\* what is active is enabled.  A clean-up at work has found no timer, and nobody
\* registers meanwhile.  What was kept for a rollback was in this order too.
UnitInv ==
  /\ TimerHasItsService
  /\ unit.active => unit.enabled
  /\ unit.enabled => unit.timer # Absent
  /\ unitLock = "cleanup" => unit.timer = Absent /\ pc \notin Registering
  /\ pc \in Registering =>
       /\ kept.timer # Absent => kept.service # Absent
       /\ kept.registered => kept.timer # Absent
  /\ pc = "activate" => unit.timer # Absent
  /\ pc = "save" => IsRegistered

\* The stored job is registered, and a job that is taken down is stored no more.
StoredInv ==
  /\ pc \in {"retire", "killOwn"} => jobRow = Absent
  /\ host = "systemd" /\ jobRow # Absent /\ Unharmed({"crash", "rollback"}) =>
       IsRegistered /\ (pc \in Registering => kept.registered)

\* What is registered is stored, as it is, but for a moment on either side.
ScheduleInv ==
  /\ pc = "rollback" => "failure" \in spent
  /\ IsRegistered /\ pc \notin {"save", "retire"} /\ Unharmed({"crash", "reboot", "failure"}) =>
       jobRow # Absent /\ unit.loaded = jobRow

\* The watcher a process has in hand, and what lives of it.
WatcherInv ==
  /\ pc \notin {"saveWatcher", "kill", "deleteRow", "retire", "killOwn"} => watcher = Nobody
  /\ pc \in {"kill", "deleteRow", "retire", "killOwn"} => watcherRow = Nobody
  /\ Unharmed({"crash", "failure", "misjudged"}) =>
       /\ alive \subseteq {watcherRow, watcher}
       /\ pc = "saveWatcher" => alive \subseteq {watcher}
       /\ pc \in {"deleteRow", "retire"} => alive \subseteq {watcher} \cap {who}

Undisturbed == Unharmed({"crash", "reboot", "failure", "misjudged"})

\* A settled run is only ever concluded again, an aborted one not even that.
EndInv ==
  /\ settled => pc \in {"idle", "tick"} \cup Ending
  /\ Undisturbed =>
       /\ pc = "killOwn" => ~Fires
       /\ settled /\ pc \in {"idle", "tick"} => ~Fires /\ alive = {} /\ jobRow = Absent
       /\ aborted = "clean" =>
            ~Fires /\ alive = {} /\ starting = {} /\ pc \in {"idle"} \cup Ending

RunHostInv ==
  TypeOK /\ HostInv /\ UnitInv /\ StoredInv /\ ScheduleInv /\ WatcherInv /\ EndInv

-----------------------------------------------------------------------------
(* Types.                                                                  *)

\* A process that leaves the run lock leaves nothing of the wrong kind.
LEMMA LeaveLockTypes ==
  ASSUME LeaveLock
  PROVE  /\ who' \in Callers \cup {"none", "abort", "retry"} /\ pc' \in Place
         /\ kept' \in [service : Version, timer : Version, registered : BOOLEAN]
         /\ watcher' \in Watchers \cup {Nobody}
BY DEF LeaveLock, Place, NothingKept, Version, Absent

Unit == [service : Version, timer : Version, loaded : Version,
         enabled : BOOLEAN, active : BOOLEAN]

\* Whether the host holds the job is a matter of yes or no.
LEMMA RegisteredIsBoolean ==
  ASSUME unit \in Unit
  PROVE  IsRegistered \in BOOLEAN
<1>1. CASE host = "systemd"
  BY <1>1 DEF IsRegistered
<1>2. CASE host # "systemd"
  BY <1>2 DEF IsRegistered
<1> QED BY <1>1, <1>2

\* What registering, retiring, rolling back and a reboot make of a unit.
LEMMA EditedUnits ==
  ASSUME NEW u \in Unit
  PROVE  /\ \A v \in Version : [u EXCEPT !.service = v] \in Unit
         /\ \A v \in Version : [u EXCEPT !.loaded = v] \in Unit
         /\ \A v, w \in Version : [u EXCEPT !.service = v, !.loaded = w] \in Unit
         /\ \A v, w \in Version : [u EXCEPT !.service = v, !.timer = w] \in Unit
         /\ \A v \in Version, b \in BOOLEAN : [u EXCEPT !.loaded = v, !.active = b] \in Unit
         /\ \A v \in Version, b, c \in BOOLEAN :
              [u EXCEPT !.loaded = v, !.enabled = b, !.active = c] \in Unit
         /\ \A b \in BOOLEAN : [u EXCEPT !.active = b] \in Unit
         /\ \A b, c \in BOOLEAN : [u EXCEPT !.active = b, !.enabled = c] \in Unit
         /\ TimerRemoved(u) \in Unit
BY DEF Unit, TimerRemoved, Version

\* The units are well typed after each step that writes them.
LEMMA UnitTypesKept == TypeOK /\ [Next]_vars => unit' \in Unit
<1> SUFFICES ASSUME TypeOK, [Next]_vars PROVE unit' \in Unit
  OBVIOUS
<1>0. /\ unit \in Unit /\ wanted \in Version /\ NoUnit \in Unit
      /\ Absent \in Version /\ TRUE \in BOOLEAN /\ FALSE \in BOOLEAN
      /\ unit.service \in Version /\ unit.timer \in Version
      /\ kept.service \in Version /\ kept.timer \in Version /\ WasRegistered \in BOOLEAN
  BY DEF TypeOK, Unit, NoUnit, Version, WasRegistered
<1>1. CASE UNCHANGED unit
  BY <1>0, <1>1
<1>2. CASE WriteUnits \/ Activate \/ Bootstrap \/ CleanupRemoves
  <2>1. CASE WriteUnits
    <3>1. \/ unit' = [unit EXCEPT !.service = wanted, !.timer = wanted]
          \/ unit' = unit
          \/ unit' = [unit EXCEPT !.service = wanted]
      BY <2>1 DEF WriteUnits
    <3>2. /\ [unit EXCEPT !.service = wanted, !.timer = wanted] \in Unit
          /\ [unit EXCEPT !.service = wanted] \in Unit
      BY <1>0, EditedUnits
    <3> QED BY <1>0, <3>1, <3>2, Zenon
  <2>2. CASE Activate
    <3>1. \/ unit' = [unit EXCEPT !.loaded = unit.service, !.enabled = TRUE, !.active = TRUE]
          \/ unit' = unit
          \/ unit' = [unit EXCEPT !.loaded = unit.service]
      BY <2>2 DEF Activate
    <3>2. /\ [unit EXCEPT !.loaded = unit.service, !.enabled = TRUE, !.active = TRUE] \in Unit
          /\ [unit EXCEPT !.loaded = unit.service] \in Unit
      BY <1>0, EditedUnits
    <3> QED BY <1>0, <3>1, <3>2, Zenon
  <2>3. CASE Bootstrap
    BY <1>0, <2>3 DEF Bootstrap, Unit, Version
  <2>4. CASE CleanupRemoves
    BY <1>0, <2>4 DEF CleanupRemoves, Unit, Version
  <2> QED BY <1>2, <2>1, <2>2, <2>3, <2>4
<1>3. CASE BootoutToRegister \/ RetireJob
  <2>1. CASE BootoutToRegister
    <3>1. unit' = NoUnit \/ unit' = [unit EXCEPT !.service = Absent]
      BY <2>1 DEF BootoutToRegister, Bootout
    <3>2. [unit EXCEPT !.service = Absent] \in Unit
      BY <1>0, EditedUnits
    <3> QED BY <1>0, <3>1, <3>2, Zenon
  <2>2. CASE RetireJob
    <3>1. \/ unit' \in {unit, NoUnit, TimerRemoved(unit)}
          \/ unit' = [unit EXCEPT !.active = FALSE]
          \/ unit' = [unit EXCEPT !.active = FALSE, !.enabled = FALSE]
          \/ unit' = [unit EXCEPT !.service = Absent]
      BY <2>2 DEF RetireJob, RetireTimer, RetirePlist, Bootout
    <3>2. /\ [unit EXCEPT !.active = FALSE] \in Unit
          /\ [unit EXCEPT !.active = FALSE, !.enabled = FALSE] \in Unit
          /\ [unit EXCEPT !.service = Absent] \in Unit
          /\ TimerRemoved(unit) \in Unit
      BY <1>0, EditedUnits
    <3> QED BY <1>0, <3>1, <3>2, Zenon
  <2> QED BY <1>3, <2>1, <2>2
<1>4. CASE Rollback
  <2>1. ASSUME NEW u \in Unit PROVE Restored(u) \in Unit
    <3>1. u.service \in Version /\ u.timer \in Version
      BY DEF Unit
    <3> QED BY <1>0, <3>1, EditedUnits DEF Restored
  <2>2. CASE unit' = Restored(unit) \/ unit' = Restored(TimerRemoved(unit))
    BY <1>0, <2>1, <2>2, EditedUnits
  <2>3. ASSUME NEW u \in Unit,
               unit' = [u EXCEPT !.loaded = u.service, !.enabled = WasRegistered, !.active = WasRegistered]
        PROVE  unit' \in Unit
    <3>1. u.service \in Version
      BY DEF Unit
    <3> QED BY <1>0, <3>1, <2>3, EditedUnits
  <2>4. Restored(IF WasRegistered THEN unit ELSE TimerRemoved(unit)) \in Unit
    BY <1>0, <2>1, EditedUnits
  <2> QED BY <1>4, <2>2, <2>3, <2>4 DEF Rollback
<1>5. CASE Reboot
  BY <1>0, <1>5, EditedUnits DEF Reboot
<1> QED
  BY <1>1, <1>2, <1>3, <1>4, <1>5
     DEF Next, PassStep, Cleanup, TimerFires, PersonStarts, AbortRun, RetryNode, Tick, Reconcile,
         EnsureRegistered, SaveJob, Watch, SaveWatcher, Forget, KillForgotten, DeleteJobRow, KillOwn,
         CleanupBegins, Crash, EditSchedule, WatcherFires, WatcherEnds, ClaimRun, vars, hostVars

\* Every step leaves the host, the rows and the processes at the lock well
\* typed.
LEMMA TypesKept == TypeOK /\ [Next]_vars => TypeOK'
<1> SUFFICES ASSUME TypeOK, [Next]_vars PROVE TypeOK'
  OBVIOUS
<1>0. /\ Absent \in Version /\ 1 \in Version \ {Absent}
      /\ unit.service \in Version /\ unit.timer \in Version /\ unit.loaded \in Version
      /\ IsRegistered \in BOOLEAN
      /\ unit' \in [service : Version, timer : Version, loaded : Version,
                    enabled : BOOLEAN, active : BOOLEAN]
  BY RegisteredIsBoolean, UnitTypesKept DEF Version, Absent, TypeOK, Unit
<1> USE <1>0, LeaveLockTypes DEF Goto, Once, hostVars, watchVars, lockVars, runVars
<1>1. CASE TimerFires \/ PersonStarts \/ EditSchedule
  <2>1. CASE TimerFires
    BY <2>1 DEF TypeOK, TimerFires, Callers
  <2>2. CASE PersonStarts
    BY <2>2 DEF TypeOK, PersonStarts, Callers
  <2>3. CASE EditSchedule
    BY <2>3 DEF TypeOK, EditSchedule
  <2> QED
    BY <1>1, <2>1, <2>2, <2>3
<1>2. CASE AbortRun \/ RetryNode
  BY <1>2 DEF TypeOK, AbortRun, RetryNode, Place
<1>3. CASE Tick
  BY <1>3 DEF TypeOK, Tick, Concludes, Place
<1>4. CASE Reconcile
  BY <1>4 DEF TypeOK, Reconcile, EnterRegister, Place
<1>5. CASE EnsureRegistered
  BY <1>5 DEF TypeOK, EnsureRegistered, StoredOnEnsure, EnterRegister, Place
<1>6. CASE WriteUnits \/ Activate \/ Bootstrap
  BY <1>6 DEF TypeOK, WriteUnits, Activate, Bootstrap, Place
<1>7. CASE Rollback
  BY <1>7 DEF TypeOK, Rollback, Restored, TimerRemoved, WasRegistered
<1>8. CASE BootoutToRegister
  BY <1>8 DEF TypeOK, BootoutToRegister, Bootout, NoUnit, Place
<1>9. CASE SaveJob
  <2>1. NothingKept \in [service : Version, timer : Version, registered : BOOLEAN]
    BY DEF NothingKept
  <2> QED BY <1>9, <2>1 DEF TypeOK, SaveJob, Place
<1>10. CASE Watch \/ SaveWatcher
  BY <1>10 DEF TypeOK, Watch, SaveWatcher, Place
<1>11. CASE Forget \/ KillForgotten \/ DeleteJobRow
  BY <1>11 DEF TypeOK, Forget, KillForgotten, KillGroup, DeleteJobRow, Place
<1>12. CASE RetireJob
  BY <1>12 DEF TypeOK, RetireJob, RetireTimer, RetirePlist, AfterRetire, Bootout, TimerRemoved, NoUnit, Place
<1>13. CASE KillOwn
  BY <1>13 DEF TypeOK, KillOwn, KillGroup
<1>14. CASE CleanupBegins \/ CleanupRemoves
  BY <1>14 DEF TypeOK, CleanupBegins, CleanupDue, CleanupRemoves
<1>15. CASE Crash \/ Reboot
  BY <1>15 DEF TypeOK, Crash, Reboot
<1>16. CASE \E w \in Watchers : WatcherFires(w) \/ WatcherEnds(w)
  BY <1>16 DEF TypeOK, WatcherFires, WatcherEnds, Callers
<1>17. CASE \E c \in Callers : ClaimRun(c)
  BY <1>17 DEF TypeOK, ClaimRun, Callers, Place
<1>18. CASE UNCHANGED vars
  BY <1>18 DEF TypeOK, vars
<1> QED
  BY <1>1, <1>2, <1>3, <1>4, <1>5, <1>6, <1>7, <1>8, <1>9, <1>10, <1>11, <1>12, <1>13,
     <1>14, <1>15, <1>16, <1>17, <1>18 DEF Next, PassStep, Cleanup

-----------------------------------------------------------------------------
(* The unit files and the stored job.                                      *)

\* Steps that have no part in registering leave the units alone and no process
\* where it registers.
Elsewhere ==
  \/ TimerFires \/ PersonStarts \/ AbortRun \/ RetryNode \/ Tick \/ Watch \/ SaveWatcher
  \/ Forget \/ KillForgotten \/ DeleteJobRow \/ KillOwn \/ Crash \/ EditSchedule
  \/ \E w \in Watchers : WatcherFires(w) \/ WatcherEnds(w)
  \/ \E c \in Callers : ClaimRun(c)
  \/ UNCHANGED vars

Registration ==
  \/ Reconcile \/ EnsureRegistered \/ WriteUnits \/ Activate \/ Rollback
  \/ BootoutToRegister \/ Bootstrap \/ SaveJob

Removal == RetireJob \/ Cleanup \/ Reboot

\* A step leaves the host's units alone, or is one of a registration, or
\* removes units.
LEMMA StepKinds == [Next]_vars => Elsewhere \/ Registration \/ Removal
BY DEF Next, PassStep, Elsewhere, Registration, Removal

\* What the steps that leave the units alone may do to the lock's holder.
LEMMA ElsewhereLeavesUnits ==
  ASSUME Elsewhere
  PROVE  /\ UNCHANGED <<host, hostVars>>
         /\ \/ UNCHANGED <<pc, kept>>
            \/ pc' \in {"idle", "tick", "reconcile", "ensure", "saveWatcher", "forget",
                        "kill", "deleteRow"}
            \/ pc' = "retire" /\ jobRow' = Absent
         /\ UNCHANGED pc \/ pc \notin {"save", "retire"} \/ "crash" \in spent'
         /\ UNCHANGED jobRow \/ (pc' = "retire" /\ jobRow' = Absent)
         /\ spent \subseteq spent'
<1> USE DEF LeaveLock, Goto, Once, hostVars, lockVars
<1>1. CASE TimerFires \/ PersonStarts \/ AbortRun \/ RetryNode \/ Tick
  BY <1>1 DEF TimerFires, PersonStarts, AbortRun, RetryNode, Tick
<1>2. CASE Watch \/ SaveWatcher \/ Forget \/ KillForgotten \/ DeleteJobRow \/ KillOwn
  BY <1>2 DEF Watch, SaveWatcher, Forget, KillForgotten, DeleteJobRow, KillOwn
<1>3. CASE Crash \/ EditSchedule \/ UNCHANGED vars
  BY <1>3 DEF Crash, EditSchedule, vars
<1>4. CASE \E w \in Watchers : WatcherFires(w) \/ WatcherEnds(w)
  BY <1>4 DEF WatcherFires, WatcherEnds
<1>5. CASE \E c \in Callers : ClaimRun(c)
  BY <1>5 DEF ClaimRun
<1> QED
  BY <1>1, <1>2, <1>3, <1>4, <1>5 DEF Elsewhere

\* A host keeps to its own kind of units: systemd to timers under a lock,
\* launchd to a plist that is booted out and in.
LEMMA HostKept == RunHostInv /\ [Next]_vars => HostInv'
<1> SUFFICES ASSUME RunHostInv, [Next]_vars PROVE HostInv'
  OBVIOUS
<1>0. HostInv /\ unit \in Unit /\ host \in {"systemd", "launchd"} /\ UNCHANGED host
  <2>1. UNCHANGED host
    BY ElsewhereLeavesUnits, StepKinds
       DEF Registration, Removal, Cleanup, Reconcile, EnsureRegistered, WriteUnits, Activate,
           Rollback, BootoutToRegister, Bootstrap, SaveJob, RetireJob, CleanupBegins, CleanupRemoves, Reboot
  <2> QED BY <2>1, HostAssumption DEF RunHostInv, TypeOK, Unit
<1> USE <1>0 DEF HostInv, Unit, Registering, LeaveLock, Goto
<1>1. CASE Elsewhere
  BY <1>1, ElsewhereLeavesUnits DEF hostVars
<1>2. CASE Reconcile \/ EnsureRegistered \/ SaveJob
  <2>1. CASE Reconcile
    BY <2>1 DEF Reconcile, EnterRegister, hostVars
  <2>2. CASE EnsureRegistered
    BY <2>2 DEF EnsureRegistered, EnterRegister, hostVars
  <2>3. CASE SaveJob
    BY <2>3 DEF SaveJob, hostVars
  <2> QED BY <1>2, <2>1, <2>2, <2>3
<1>3. CASE WriteUnits \/ Activate \/ Rollback
  <2>1. host = "systemd"
    BY <1>3 DEF WriteUnits, Activate, Rollback
  <2>2. pc' \in {"activate", "rollback", "save", "idle"}
    BY <1>3 DEF WriteUnits, Activate, Rollback
  <2> QED BY <2>1, <2>2
<1>5. CASE BootoutToRegister \/ Bootstrap
  <2>1. host = "launchd" /\ unit.timer = Absent
    BY <1>5 DEF BootoutToRegister, Bootstrap
  <2>2. CASE BootoutToRegister
    BY <2>1, <2>2 DEF BootoutToRegister, Bootout, NoUnit
  <2>3. CASE Bootstrap
    BY <2>1, <2>3 DEF Bootstrap
  <2> QED BY <1>5, <2>2, <2>3
<1>6. CASE RetireJob
  BY <1>6 DEF RetireJob, RetireTimer, RetirePlist, AfterRetire, Bootout, NoUnit
<1>7. CASE Cleanup
  <2>1. host = "systemd" /\ UNCHANGED pc
    BY <1>7 DEF Cleanup, CleanupBegins, CleanupDue, CleanupRemoves, lockVars
  <2> QED BY <2>1
<1>8. CASE Reboot
  BY <1>8 DEF Reboot
<1> QED BY <1>1, <1>2, <1>3, <1>5, <1>6, <1>7, <1>8, StepKinds DEF Registration, Removal

\* Units are written, enabled and removed in an order that leaves no timer
\* without its service, rollbacks and clean-ups included (SystemdScheduler).
LEMMA UnitsKept == RunHostInv /\ [Next]_vars => UnitInv'
<1> SUFFICES ASSUME RunHostInv, [Next]_vars PROVE UnitInv'
  OBVIOUS
<1>0. /\ UnitInv /\ HostInv /\ unit \in Unit /\ IsRegistered \in BOOLEAN
      /\ wanted # Absent /\ WasRegistered \in BOOLEAN
      /\ host \in {"systemd", "launchd"}
  BY RegisteredIsBoolean, HostAssumption DEF RunHostInv, TypeOK, Unit, WasRegistered
<1> USE <1>0 DEF UnitInv, TimerHasItsService, Registering, Unit
<1>1. CASE Elsewhere
  <2>1. IsRegistered' = IsRegistered
    BY <1>1, ElsewhereLeavesUnits DEF IsRegistered, hostVars
  <2> QED BY <1>1, <2>1, ElsewhereLeavesUnits DEF hostVars
<1>2. CASE Reconcile \/ EnsureRegistered \/ SaveJob
  <2>1. UNCHANGED <<unit, unitLock>>
    BY <1>2 DEF Reconcile, EnsureRegistered, SaveJob, hostVars
  <2>2. CASE EnterRegister
    <3>1. CASE host = "systemd"
      BY <2>1, <2>2, <3>1 DEF EnterRegister, Goto, IsRegistered
    <3>2. CASE host # "systemd"
      BY <2>1, <2>2, <3>2 DEF EnterRegister, Goto
    <3> QED BY <3>1, <3>2
  <2>3. CASE pc' \in {"watch", "idle"}
    BY <2>1, <2>3
  <2> QED
    BY <1>2, <2>2, <2>3 DEF Reconcile, EnsureRegistered, SaveJob, Goto, LeaveLock
<1>3. CASE WriteUnits
  BY <1>3 DEF WriteUnits, Goto
<1>4. CASE Activate
  BY <1>4 DEF Activate, Goto, IsRegistered, HostInv
<1>5. CASE Rollback
  <2>1. pc' = "idle" /\ UNCHANGED unitLock /\ unitLock # "cleanup"
    BY <1>5 DEF Rollback, LeaveLock
  <2>2. CASE WasRegistered
    BY <1>5, <2>1, <2>2 DEF Rollback, Restored, WasRegistered
  <2>3. CASE ~WasRegistered
    BY <1>5, <2>1, <2>3 DEF Rollback, Restored, TimerRemoved, WasRegistered
  <2> QED BY <2>2, <2>3
<1>6. CASE BootoutToRegister \/ Bootstrap
  <2>1. host = "launchd" /\ unit.timer = Absent /\ UNCHANGED <<host, unitLock>>
    BY <1>6 DEF BootoutToRegister, Bootstrap, HostInv
  <2>2. CASE BootoutToRegister
    BY <2>1, <2>2 DEF BootoutToRegister, Bootout, NoUnit, LeaveLock, Goto
  <2>3. CASE Bootstrap
    BY <2>1, <2>3 DEF Bootstrap, LeaveLock, Goto, IsRegistered
  <2> QED BY <1>6, <2>2, <2>3
<1>7. CASE RetireJob
  <2>1. pc' \in {"idle", "killOwn"} /\ UNCHANGED unitLock
    BY <1>7 DEF RetireJob, RetireTimer, RetirePlist, AfterRetire, Bootout, LeaveLock, Goto
  <2>2. CASE UNCHANGED unit
    BY <2>1, <2>2
  <2>3. CASE RetireTimer
    BY <2>1, <2>3 DEF RetireTimer, TimerRemoved
  <2>4. CASE RetirePlist
    BY <2>1, <2>4 DEF RetirePlist, Bootout, NoUnit, HostInv
  <2> QED BY <1>7, <2>2, <2>3, <2>4 DEF RetireJob
<1>8. CASE Cleanup
  <2>1. CASE CleanupBegins
    <3>1. IsRegistered' = IsRegistered
      BY <2>1 DEF CleanupBegins, IsRegistered
    <3> QED BY <2>1, <3>1 DEF CleanupBegins, CleanupDue, MayRemove, lockVars
  <2>2. CASE CleanupRemoves
    <3>1. UNCHANGED <<pc, kept>> /\ unitLock' = "free" /\ pc \notin Registering
      BY <2>2 DEF CleanupRemoves, lockVars
    <3>2. pc # "save"
      BY <2>2 DEF CleanupRemoves, IsRegistered, HostInv
    <3> QED BY <2>2, <3>1, <3>2 DEF CleanupRemoves
  <2> QED BY <1>8, <2>1, <2>2 DEF Cleanup
<1>9. CASE Reboot
  BY <1>9 DEF Reboot, LeaveLock
<1> QED
  BY <1>1, <1>2, <1>3, <1>4, <1>5, <1>6, <1>7, <1>8, <1>9, StepKinds DEF Registration, Removal

\* What happened stays spent, so that a behaviour which is unharmed was so before.
LEMMA SpentGrows == [Next]_vars => spent \subseteq spent'
<1> SUFFICES ASSUME [Next]_vars PROVE spent \subseteq spent'
  OBVIOUS
<1> USE DEF Once
<1>1. CASE Elsewhere
  BY <1>1, ElsewhereLeavesUnits
<1>2. CASE Reconcile \/ EnsureRegistered \/ SaveJob
  BY <1>2 DEF Reconcile, EnsureRegistered, SaveJob
<1>3. CASE WriteUnits \/ Activate \/ Rollback \/ BootoutToRegister \/ Bootstrap
  BY <1>3 DEF WriteUnits, Activate, Rollback, BootoutToRegister, Bootstrap
<1>4. CASE Removal
  BY <1>4 DEF Removal, RetireJob, RetireTimer, RetirePlist, Cleanup, CleanupBegins, CleanupRemoves, Reboot
<1> QED BY <1>1, <1>2, <1>3, <1>4, StepKinds DEF Registration

\* A job is stored after it was registered and taken out of the store before it
\* is retired (RunScheduleService).
LEMMA StoredKept == RunHostInv /\ [Next]_vars => StoredInv'
<1> SUFFICES ASSUME RunHostInv, [Next]_vars PROVE StoredInv'
  OBVIOUS
<1>0. /\ UnitInv /\ HostInv /\ StoredInv /\ unit \in Unit /\ IsRegistered \in BOOLEAN
      /\ wanted # Absent /\ WasRegistered \in BOOLEAN
      /\ host \in {"systemd", "launchd"} /\ spent \subseteq spent'
  BY RegisteredIsBoolean, HostAssumption, SpentGrows DEF RunHostInv, TypeOK, Unit, WasRegistered
<1> USE <1>0 DEF StoredInv, Registering, Unit, Unharmed
<1>1. CASE Elsewhere
  <2>1. IsRegistered' = IsRegistered
    BY <1>1, ElsewhereLeavesUnits DEF IsRegistered, hostVars
  <2> QED BY <1>1, <2>1, ElsewhereLeavesUnits
<1>2. CASE Reconcile \/ EnsureRegistered
  <2>1. IsRegistered' = IsRegistered /\ UNCHANGED host
    BY <1>2 DEF Reconcile, EnsureRegistered, IsRegistered, hostVars
  <2>2. CASE EnterRegister /\ UNCHANGED jobRow
    BY <2>1, <2>2, <1>2 DEF EnterRegister, Goto
  <2>3. CASE IsRegistered /\ pc' \in {"watch", "idle"}
    BY <2>1, <2>3
  <2> QED
    BY <1>2, <2>2, <2>3 DEF Reconcile, EnsureRegistered, Goto, LeaveLock
<1>3. CASE WriteUnits
  <2>1. IsRegistered' = IsRegistered
    BY <1>3 DEF WriteUnits, IsRegistered
  <2> QED BY <1>3, <2>1 DEF WriteUnits, Goto
<1>4. CASE Activate
  <2>1. unit.service # Absent /\ host = "systemd"
    BY <1>4 DEF Activate, UnitInv, TimerHasItsService, HostInv
  <2>2. IsRegistered => IsRegistered'
    BY <1>4, <2>1 DEF Activate, IsRegistered
  <2> QED BY <1>4, <2>1, <2>2 DEF Activate, IsRegistered, Goto
<1>5. CASE Rollback
  <2>1. pc' = "idle" /\ pc \in Registering /\ UNCHANGED <<host, jobRow>> /\ host = "systemd"
    BY <1>5 DEF Rollback, LeaveLock, HostInv
  <2>2. CASE WasRegistered
    <3>1. "rollback" \in spent' \/ IsRegistered'
      BY <1>5, <2>1, <2>2 DEF Rollback, Restored, WasRegistered, UnitInv, IsRegistered, Once
    <3> QED BY <2>1, <3>1
  <2>3. CASE ~WasRegistered
    BY <2>1, <2>3 DEF WasRegistered
  <2> QED BY <2>2, <2>3
<1>6. CASE BootoutToRegister \/ Bootstrap
  BY <1>6 DEF BootoutToRegister, Bootout, Bootstrap, LeaveLock, Goto, HostInv
<1>7. CASE SaveJob
  <2>1. IsRegistered'
    BY <1>7 DEF SaveJob, hostVars, UnitInv, IsRegistered
  <2> QED BY <1>7, <2>1 DEF SaveJob, LeaveLock, Goto
<1>8. CASE RetireJob
  BY <1>8 DEF RetireJob
<1>9. CASE Cleanup
  <2>1. CASE CleanupBegins
    BY <2>1 DEF CleanupBegins, IsRegistered, lockVars
  <2>2. CASE CleanupRemoves
    <3>1. host = "systemd" => ~IsRegistered
      BY <2>2 DEF CleanupRemoves, UnitInv, IsRegistered
    <3> QED BY <2>2, <3>1 DEF CleanupRemoves, lockVars
  <2> QED BY <1>9, <2>1, <2>2 DEF Cleanup
<1>10. CASE Reboot
  <2>1. host = "systemd" /\ IsRegistered => IsRegistered'
    BY <1>10 DEF Reboot, UnitInv, TimerHasItsService, IsRegistered
  <2> QED BY <1>10, <2>1 DEF Reboot, LeaveLock
<1> QED
  BY <1>1, <1>2, <1>3, <1>4, <1>5, <1>6, <1>7, <1>8, <1>9, <1>10, StepKinds
     DEF Registration, Removal

\* Retiring the job leaves none, if it does not fail.
LEMMA RetireUnregisters ==
  ASSUME RetireJob, unit \in Unit
  PROVE  ~IsRegistered' \/ "failure" \in spent'
<1>1. CASE ~ToRetire
  BY <1>1 DEF RetireJob, ToRetire, IsRegistered
<1>2. CASE RetireTimer
  <2>1. CASE unit' = TimerRemoved(unit)
    BY <1>2, <2>1 DEF RetireJob, RetireTimer, TimerRemoved, Unit, IsRegistered
  <2> QED BY <1>2, <2>1 DEF RetireTimer, Once
<1>3. CASE RetirePlist
  BY <1>3 DEF RetireJob, RetirePlist, Bootout, NoUnit, IsRegistered, Once
<1> QED BY <1>1, <1>2, <1>3 DEF RetireJob

\* What is registered is stored at once; only a crash, a reboot or a failing
\* host separates them.
LEMMA ScheduleKept == RunHostInv /\ [Next]_vars => ScheduleInv'
<1> SUFFICES ASSUME RunHostInv, [Next]_vars PROVE ScheduleInv'
  OBVIOUS
<1>0. /\ UnitInv /\ HostInv /\ ScheduleInv /\ unit \in Unit /\ IsRegistered \in BOOLEAN
      /\ host \in {"systemd", "launchd"} /\ spent \subseteq spent'
  BY RegisteredIsBoolean, HostAssumption, SpentGrows DEF RunHostInv, TypeOK, Unit
<1> USE <1>0 DEF ScheduleInv, Unit, Unharmed
<1>1. CASE Elsewhere
  <2>1. IsRegistered' = IsRegistered /\ UNCHANGED unit
    BY <1>1, ElsewhereLeavesUnits DEF IsRegistered, hostVars
  <2> QED BY <1>1, <2>1, ElsewhereLeavesUnits
<1>2. CASE Reconcile \/ EnsureRegistered
  <2>1. IsRegistered' = IsRegistered /\ UNCHANGED unit /\ pc \notin {"save", "retire", "rollback"}
    BY <1>2 DEF Reconcile, EnsureRegistered, IsRegistered, hostVars
  <2>2. pc' # "rollback"
    BY <1>2 DEF Reconcile, EnsureRegistered, EnterRegister, Goto, LeaveLock
  <2>3. CASE UNCHANGED jobRow
    BY <2>1, <2>2, <2>3
  <2>4. CASE IsRegistered /\ jobRow' = StoredOnEnsure
    BY <2>1, <2>2, <2>4 DEF StoredOnEnsure
  <2> QED
    BY <1>2, <2>3, <2>4 DEF Reconcile, EnsureRegistered
<1>3. CASE WriteUnits
  <2>1. IsRegistered' = IsRegistered
    BY <1>3 DEF WriteUnits, IsRegistered
  <2> QED BY <1>3, <2>1 DEF WriteUnits, Goto, Once
<1>4. CASE Activate
  BY <1>4 DEF Activate, Goto, Once
<1>5. CASE Rollback
  BY <1>5 DEF Rollback, LeaveLock
<1>6. CASE BootoutToRegister
  BY <1>6 DEF BootoutToRegister, Bootout, NoUnit, LeaveLock, Goto, IsRegistered, Once
<1>7. CASE Bootstrap
  BY <1>7 DEF Bootstrap, LeaveLock, Goto, Once
<1>8. CASE SaveJob
  <2>1. IsRegistered' /\ unit.loaded # Absent
    BY <1>8 DEF SaveJob, hostVars, UnitInv, IsRegistered
  <2>2. unit'.loaded = unit.loaded /\ jobRow' = unit.loaded /\ pc' \in {"idle", "watch"}
    BY <1>8 DEF SaveJob, hostVars, LeaveLock, Goto
  <2> QED BY <2>1, <2>2
<1>9. CASE RetireJob
  <2>1. ~IsRegistered' \/ "failure" \in spent'
    BY <1>9, RetireUnregisters
  <2>2. pc' \in {"idle", "killOwn"}
    BY <1>9 DEF RetireJob, RetireTimer, RetirePlist, AfterRetire, Bootout, LeaveLock, Goto
  <2> QED BY <2>1, <2>2
<1>10. CASE Cleanup
  <2>1. CASE CleanupBegins
    BY <2>1 DEF CleanupBegins, IsRegistered, lockVars
  <2>2. CASE CleanupRemoves
    <3>1. ~IsRegistered' \/ "failure" \in spent'
      BY <2>2 DEF CleanupRemoves, IsRegistered, Once
    <3> QED BY <2>2, <3>1 DEF CleanupRemoves, lockVars
  <2> QED BY <1>10, <2>1, <2>2 DEF Cleanup
<1>11. CASE Reboot
  BY <1>11 DEF Reboot, LeaveLock, Once
<1> QED
  BY <1>1, <1>2, <1>3, <1>4, <1>5, <1>6, <1>7, <1>8, <1>9, <1>10, <1>11, StepKinds
     DEF Registration, Removal

-----------------------------------------------------------------------------
(* The watcher, and the run's end.                                         *)

\* Steps that register leave the watchers alone, and nobody is about to end the
\* run.
LEMMA RegistrationLeavesWatchers ==
  ASSUME Registration, WatcherInv
  PROVE  /\ UNCHANGED <<watchVars, settled, aborted>>
         /\ pc \notin {"idle", "tick", "watch", "saveWatcher"} \cup Ending
         /\ pc' \notin {"tick", "saveWatcher"} \cup Ending
         /\ watcher' = Nobody
<1> USE DEF WatcherInv, Ending, watchVars, runVars, LeaveLock, Goto
<1>1. CASE Reconcile \/ EnsureRegistered
  BY <1>1 DEF Reconcile, EnsureRegistered, EnterRegister
<1>2. CASE WriteUnits \/ Activate \/ Rollback
  BY <1>2 DEF WriteUnits, Activate, Rollback
<1>3. CASE BootoutToRegister \/ Bootstrap \/ SaveJob
  BY <1>3 DEF BootoutToRegister, Bootout, Bootstrap, SaveJob
<1> QED BY <1>1, <1>2, <1>3 DEF Registration

\* A watcher that lives is in the row or in the hands of the process that is
\* about to write or kill it (services/watching).
LEMMA WatchersKept == RunHostInv /\ [Next]_vars => WatcherInv'
<1> SUFFICES ASSUME RunHostInv, [Next]_vars PROVE WatcherInv'
  OBVIOUS
<1>0. /\ WatcherInv /\ alive \subseteq Watchers /\ spent \subseteq spent'
      /\ watcherRow \in Watchers \cup {Nobody} /\ watcher \in Watchers \cup {Nobody}
      /\ Nobody \notin Watchers /\ {"timer", "abort"} \cap Watchers = {}
  BY HostAssumption, SpentGrows DEF RunHostInv, TypeOK
<1> USE <1>0 DEF WatcherInv, Unharmed
<1>1. CASE TimerFires \/ PersonStarts \/ EditSchedule \/ UNCHANGED vars
  BY <1>1 DEF TimerFires, PersonStarts, EditSchedule, vars, watchVars, lockVars
<1>2. CASE \E w \in Watchers : WatcherFires(w) \/ WatcherEnds(w)
  BY <1>2 DEF WatcherFires, WatcherEnds, watchVars, lockVars
<1>3. CASE (\E c \in Callers : ClaimRun(c)) \/ AbortRun \/ RetryNode
  BY <1>3 DEF ClaimRun, AbortRun, RetryNode, watchVars, lockVars
<1>4. CASE Tick
  BY <1>4 DEF Tick, Goto, LeaveLock, watchVars
<1>5. CASE Registration \/ Cleanup
  <2>1. CASE Registration
    BY <2>1, RegistrationLeavesWatchers DEF watchVars, Ending
  <2>2. CASE Cleanup
    BY <2>2 DEF Cleanup, CleanupBegins, CleanupRemoves, watchVars, lockVars
  <2> QED BY <1>5, <2>1, <2>2
<1>6. CASE Watch
  <2>1. CASE WatcherLives /\ LeaveLock /\ UNCHANGED <<alive, spent>>
    BY <1>6, <2>1 DEF Watch, LeaveLock
  <2>2. CASE pc' = "saveWatcher"
    <3>1. Unharmed({"crash", "failure", "misjudged"})' => alive' \subseteq {watcher'}
      BY <1>6, <2>2 DEF Watch, WatcherLives, Once, LeaveLock
    <3> QED BY <1>6, <2>2, <3>1 DEF Watch
  <2> QED BY <1>6, <2>1, <2>2 DEF Watch, Goto
<1>7. CASE SaveWatcher \/ Forget
  BY <1>7 DEF SaveWatcher, Forget, LeaveLock, Goto
<1>8. CASE KillForgotten \/ DeleteJobRow
  BY <1>8 DEF KillForgotten, KillsLater, KillGroup, DeleteJobRow, watchVars, Goto, Once
<1>9. CASE RetireJob
  <2>1. CASE AfterRetire /\ UNCHANGED watcherRow /\ pc = "retire"
    BY <2>1 DEF AfterRetire, KillsLater, LeaveLock, Goto
  <2>2. CASE LeaveLock /\ UNCHANGED <<alive, watcherRow>> /\ ("failure" \in spent' \/ who = "timer")
    BY <1>9, <2>2 DEF RetireJob, LeaveLock
  <2> QED
    BY <1>9, <2>1, <2>2 DEF RetireJob, RetireTimer, RetirePlist, Bootout, Once
<1>10. CASE KillOwn
  BY <1>10 DEF KillOwn, KillGroup, LeaveLock, Once
<1>11. CASE Crash \/ Reboot
  BY <1>11 DEF Crash, Reboot, LeaveLock, Once
<1> QED
  BY <1>1, <1>2, <1>3, <1>4, <1>5, <1>6, <1>7, <1>8, <1>9, <1>10, <1>11, StepKinds
     DEF Elsewhere, Removal

\* What is active is enabled, so that a job fires exactly when it is registered.
LEMMA RegisteredFires ==
  ASSUME UnitInv
  PROVE  Fires <=> IsRegistered
BY DEF UnitInv, Fires, IsRegistered

\* A run that was concluded or aborted registers nothing more.
LEMMA EndsKept == RunHostInv /\ [Next]_vars => EndInv'
<1> SUFFICES ASSUME RunHostInv, [Next]_vars PROVE EndInv'
  OBVIOUS
<1>0. /\ EndInv /\ WatcherInv /\ StoredInv /\ TypeOK /\ unit \in Unit
      /\ alive \subseteq Watchers /\ alive' \subseteq Watchers /\ spent \subseteq spent'
      /\ Nobody \notin Watchers /\ {"timer", "abort"} \cap Watchers = {}
      /\ WatcherInv' /\ (Fires <=> IsRegistered) /\ (Fires' <=> IsRegistered')
  <2>1. TypeOK' /\ UnitInv' /\ WatcherInv'
    BY TypesKept, UnitsKept, WatchersKept DEF RunHostInv
  <2>2. Fires' <=> IsRegistered'
    BY <2>1, RegisteredFires DEF UnitInv, Fires, IsRegistered
  <2> QED
    BY <2>1, <2>2, HostAssumption, SpentGrows, RegisteredFires DEF RunHostInv, TypeOK, Unit
<1>1. settled => pc \in {"idle", "tick"} \cup Ending
  BY <1>0 DEF EndInv
<1>2. UNCHANGED unit /\ UNCHANGED host => Fires' = Fires
  BY DEF Fires
<1> USE DEF EndInv, Ending, Unharmed, Undisturbed
<1>3. CASE TimerFires \/ PersonStarts \/ EditSchedule \/ UNCHANGED vars
  BY <1>0, <1>2, <1>3 DEF TimerFires, PersonStarts, EditSchedule, vars, watchVars, lockVars, hostVars, runVars
<1>4. CASE \E w \in Watchers : WatcherFires(w) \/ WatcherEnds(w)
  BY <1>0, <1>2, <1>4 DEF WatcherFires, WatcherEnds, watchVars, lockVars, hostVars, runVars
<1>5. CASE (\E c \in Callers : ClaimRun(c)) \/ AbortRun \/ RetryNode
  BY <1>0, <1>2, <1>5 DEF ClaimRun, AbortRun, RetryNode, watchVars, lockVars, hostVars, runVars
<1>6. CASE Tick
  BY <1>0, <1>2, <1>6 DEF Tick, Concludes, Goto, LeaveLock, watchVars, hostVars, Once
<1>7. CASE Registration
  BY <1>0, <1>7, RegistrationLeavesWatchers
<1>8. CASE Watch \/ SaveWatcher
  BY <1>0, <1>8 DEF Watch, SaveWatcher, Goto, LeaveLock, runVars
<1>9. CASE Forget \/ KillForgotten \/ DeleteJobRow
  <2>1. /\ pc \in Ending /\ pc' \in {"kill", "deleteRow", "retire"}
        /\ alive' \subseteq alive /\ starting' \subseteq starting
        /\ UNCHANGED <<settled, aborted, host, unit>>
    BY <1>9 DEF Forget, KillForgotten, KillGroup, DeleteJobRow, Goto, watchVars, runVars, hostVars
  <2> QED BY <1>0, <1>2, <2>1
<1>10. CASE RetireJob
  <2>1. /\ pc' \in {"idle", "killOwn"} /\ UNCHANGED <<settled, jobRow>> /\ jobRow = Absent
        /\ starting' \subseteq starting /\ alive' \subseteq alive
    BY <1>0, <1>10
       DEF RetireJob, RetireTimer, RetirePlist, AfterRetire, Bootout, LeaveLock, Goto, StoredInv
  <2>2. Undisturbed' => ~Fires'
    BY <1>0, <1>10, RetireUnregisters
  <2>3. Undisturbed' /\ pc' = "idle" => alive' = {}
    BY <1>0, <1>10 DEF WatcherInv, RetireJob, RetireTimer, RetirePlist, AfterRetire, Bootout, Goto, LeaveLock
  <2>4. UNCHANGED aborted \/ (who = "abort" /\ (aborted' = "clean" => starting' = {}))
    BY <1>10 DEF RetireJob, RetireTimer, RetirePlist, AfterRetire, Bootout
  <2>5. Undisturbed' /\ who = "abort" => alive' = {}
    BY <1>0, <1>10, <2>1 DEF WatcherInv, RetireJob
  <2> QED BY <1>0, <2>1, <2>2, <2>3, <2>4, <2>5
<1>11. CASE KillOwn
  <2>1. /\ pc = "killOwn" /\ pc' = "idle" /\ starting' \subseteq starting /\ alive' \subseteq alive
        /\ UNCHANGED <<jobRow, settled, aborted, host, unit>>
    BY <1>11 DEF KillOwn, KillGroup, LeaveLock, runVars, hostVars
  <2>2. Undisturbed' => alive' = {}
    BY <1>0, <1>11 DEF WatcherInv, KillOwn, LeaveLock
  <2> QED BY <1>0, <1>2, <2>1, <2>2 DEF StoredInv
<1>12. CASE Cleanup
  <2>1. ~Fires => ~Fires'
    BY <1>0, <1>12 DEF Cleanup, CleanupBegins, CleanupRemoves, Fires, Unit
  <2>2. UNCHANGED <<jobRow, alive, starting, settled, aborted, pc>>
    BY <1>12 DEF Cleanup, CleanupBegins, CleanupRemoves, watchVars, runVars, lockVars
  <2> QED BY <1>0, <2>1, <2>2
<1>13. CASE Crash \/ Reboot
  BY <1>13 DEF Crash, Reboot, LeaveLock, Once
<1> QED
  BY <1>3, <1>4, <1>5, <1>6, <1>7, <1>8, <1>9, <1>10, <1>11, <1>12, <1>13, StepKinds
     DEF Elsewhere, Removal

-----------------------------------------------------------------------------
(* The theorems.                                                           *)

\* The invariant holds before the first start.
LEMMA HostStarts == Init => RunHostInv
<1> SUFFICES ASSUME Init PROVE RunHostInv
  OBVIOUS
<1> USE DEF Init
<1>1. TypeOK
  <2>1. Absent \in Version /\ FALSE \in BOOLEAN
    BY DEF Version
  <2>2. NoUnit \in Unit
    BY <2>1 DEF NoUnit, Unit
  <2>3. NothingKept \in [service : Version, timer : Version, registered : BOOLEAN]
    BY <2>1 DEF NothingKept
  <2>4. wanted \in Version \ {Absent}
    BY DEF Version, Absent
  <2> QED BY <2>1, <2>2, <2>3, <2>4 DEF TypeOK, Unit, Place
<1>2. HostInv /\ UnitInv /\ StoredInv
  <2>1. ~unit.active /\ ~unit.enabled /\ unit.timer = Absent
    BY DEF NoUnit
  <2> QED BY <2>1 DEF HostInv, UnitInv, StoredInv, TimerHasItsService, Registering
<1>3. ~IsRegistered /\ ~Fires
  BY DEF NoUnit, IsRegistered, Fires
<1>4. ScheduleInv /\ WatcherInv
  BY <1>3 DEF ScheduleInv, WatcherInv
<1>5. EndInv
  BY <1>3 DEF EndInv
<1> QED BY <1>1, <1>2, <1>4, <1>5 DEF RunHostInv

\* The inductive invariant: in every state a process that stands anywhere between
\* taking and releasing the run lock has the units, the stored job and the watcher
\* where the order of its steps has put them.
THEOREM RunHostInductive == Spec => []RunHostInv
<1>1. RunHostInv /\ [Next]_vars => RunHostInv'
  BY TypesKept, HostKept, UnitsKept, StoredKept, ScheduleKept, WatchersKept, EndsKept DEF RunHostInv
<1> QED BY HostStarts, <1>1, PTL DEF Spec

\* systemd fires the job as long as its row is stored, unless a death or a broken
\* rollback intervened; the row tells the schedule that is loaded; and the detached
\* clean-up never takes the service of a newer timer (RunScheduleService,
\* SystemdScheduler._rollback, systemd_retirement.retire_service).
THEOREM StoredJobTheorem == Spec => []HostKeepsTheStoredJob
<1>1. RunHostInv => HostKeepsTheStoredJob
  BY DEF RunHostInv, HostKeepsTheStoredJob, UnitInv, StoredInv, ScheduleInv,
         StoredJobIsRegistered, RowTellsTheSchedule
<1> QED BY RunHostInductive, <1>1, PTL

\* No watcher lives that neither the stored row names nor the pass at the lock has
\* in hand, so that conclude, abort and the next start find the one there is
\* (WatcherService.watch, forget, kill).
THEOREM WatcherTheorem == Spec => []EveryWatcherIsKnown
<1>1. RunHostInv => EveryWatcherIsKnown
  BY DEF RunHostInv, EveryWatcherIsKnown, WatcherInv
<1> QED BY RunHostInductive, <1>1, PTL

\* When the pass that settled a run, or the abort that ended it, has let go of the
\* lock, no job and no watcher is left to fire it, whichever of them the pass itself
\* was running in (StartCommandHandler._conclude, AbortCommandHandler).
THEOREM EndTheorem == Spec => []EndedRunStaysDown
<1>1. RunHostInv => EndedRunStaysDown
  BY DEF RunHostInv, EndedRunStaysDown, EndInv, SettledRunHasNoHost, AbortedRunStaysDown, Undisturbed
<1> QED BY RunHostInductive, <1>1, PTL
=============================================================================
