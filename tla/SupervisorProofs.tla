-------------------------- MODULE SupervisorProofs --------------------------
(***************************************************************************)
(* Proofs about Supervisor, for any number of supervisors of the device,    *)
(* for both device types, with and without killed supervisors.              *)
(***************************************************************************)
EXTENDS Supervisor, TLAPS

Quiet(r)  == stopped[r] /\ att[r] = "done"
OffBus(r) == warned[r] \/ dev # "bus"

(* What each goroutine's location says of the run's other state. *)
PhaseInv ==
    \A r \in Runs :
        /\ pc[r] \in Before \cup Setup =>
               /\ att[r] = "none" /\ waiter[r] = "waiting"
               /\ launcher[r] = "none" /\ ~term[r] /\ ~live[r]
               /\ ~stopping[r]
        /\ pc[r] \in Serving => waiter[r] # "taken"
        /\ pc[r] \in Ending => waiter[r] = "taken"
        /\ pc[r] \in {"unlock"} \cup Over => att[r] \in {"none", "done"}
        /\ pc[r] = "unlock" => launcher[r] \in {"none", "exited"}
        /\ waiter[r] # "waiting" => launcher[r] = "exited"

(* Only the run that holds the lock, or one that was killed and whose lock   *)
(* nobody has taken yet, has a launcher or a guest.                         *)
ChildInv ==
    \A r \in Runs :
        /\ Alive(r) => launcher[r] = "running"
        /\ launcher[r] \in {"running", "ending"} =>
               pc[r] \in Serving \/ (pc[r] = "crashed" /\ lock = NoRun)

(* The stop sequence, in the order in which it commits to its steps. *)
StopInv ==
    \A r \in Runs :
        /\ pc[r] \in {"stopWait", "stopWait2"} => stopped[r]
        /\ pc[r] \in AfterStop => Quiet(r)
        /\ pc[r] = "term" => OffBus(r)
        /\ pc[r] = "wait" /\ stopping[r] => Quiet(r) /\ OffBus(r)
        /\ pc[r] \in {"stopAtt", "stopWait", "remove", "removing"} => ~term[r]
        /\ pc[r] \in Serving \ {"wait"} => stopping[r]
        /\ pc[r] \in Locked /\ term[r] => stopping[r] /\ Quiet(r) /\ OffBus(r)

(* The attacher holds a device that it binds on the bus, and the device that *)
(* it found there stays bound for as long as it is there.                   *)
BindInv ==
    /\ bound => dev = "bus"
    /\ \A r \in Runs :
           /\ att[r] \in {"adding", "binding", "bound"} => bound
           /\ pc[r] \in Locked /\ live[r] =>
                  att[r] = "done" /\ (dev = "bus" => bound)

IInv ==
    /\ TypeOK
    /\ OneSupervisor
    /\ PhaseInv
    /\ ChildInv
    /\ StopInv
    /\ BindInv
    /\ StopLeavesNothing
    /\ KeptOnlyIfLive

-----------------------------------------------------------------------------
(* Type correctness. *)

(* The state in which the first supervisor has not started satisfies the    *)
(* inductive invariant.                                                     *)
LEMMA InitInv == Init => IInv
  <1> SUFFICES ASSUME Init PROVE IInv
    OBVIOUS
  <1> USE RunsAssumption, FlagsAssumption DEF Init
  <1>1. TypeOK
    <2>1. sigs \in [Runs -> 0..2]
      OBVIOUS
    <2>2. pc \in [Runs -> Before \cup Locked \cup Over]
      BY DEF Before
    <2> QED BY <2>1, <2>2, Zenon DEF TypeOK
  <1>2. OneSupervisor
    BY DEF OneSupervisor, Setup, Serving, Ending, Locked, HoldsMutex
  <1>3. PhaseInv /\ ChildInv
    BY DEF PhaseInv, ChildInv, Before, Setup, Serving, Ending, Over, Alive
  <1>4. StopInv /\ BindInv
    BY DEF StopInv, BindInv, AfterStop, Quiet, OffBus, Setup, Serving, Ending, Locked
  <1>5. StopLeavesNothing /\ KeptOnlyIfLive
    BY DEF StopLeavesNothing, KeptOnlyIfLive, RunEnded
  <1> QED BY <1>1, <1>2, <1>3, <1>4, <1>5 DEF IInv

(* The steps of the launcher's start. *)
SetupActs(r) ==
    \/ Begin(r)
    \/ LockDevice(r)
    \/ Prepare(r)
    \/ RemoveStart(r, "remove1", "removing1", "destroy1", TRUE)
    \/ RemoveEnd(r, "removing1", "destroy1")
    \/ Destroy(r, "destroy1", "launch")
    \/ AbortLaunch(r)
    \/ Launch(r)

(* The steps of the wait loop and the stop sequence. *)
LoopActs(r) ==
    \/ WaitSignal(r)
    \/ WaitExit(r)
    \/ StopAttacher(r, "stopAtt", "stopWait")
    \/ AttacherStopped(r, "stopWait", "remove")
    \/ RemoveStart(r, "remove", "removing", "term", Gone(r))
    \/ RemoveEnd(r, "removing", "term")
    \/ SignalLauncher(r)

(* The steps of what follows the loop. *)
EndActs(r) ==
    \/ LateSignal(r)
    \/ LowerTimeout(r)
    \/ StopAttacher(r, "stopAtt2", "stopWait2")
    \/ AttacherStopped(r, "stopWait2", "decide")
    \/ Decide(r)
    \/ RemoveStart(r, "remove2", "removing2", "destroy2", TRUE)
    \/ RemoveEnd(r, "removing2", "destroy2")
    \/ Destroy(r, "destroy2", "unlock")
    \/ Unlock(r)

(* The steps of the attacher. *)
AttacherActs(r) ==
    \/ AttLock(r)
    \/ AttEnd(r)
    \/ AttRetry(r)
    \/ AttAdd(r)
    \/ AttBind(r)
    \/ AttProbeAnswered(r)
    \/ AttProbeTimeout(r)
    \/ AttLive(r)

(* The steps of the waiter, the guest and the launcher. *)
ChildActs(r) ==
    \/ WaiterGone(r)
    \/ WaiterSend(r)
    \/ GuestCreate(r)
    \/ GuestOpen(r)
    \/ GuestReady(r)
    \/ GuestDie(r)
    \/ GuestHalt(r)
    \/ FdFree(r)
    \/ LauncherReap(r)
    \/ LauncherEnd(r)
    \/ LauncherFail(r)

(* The steps of a stop signal, and a supervisor that is killed. *)
OutsideActs(r) ==
    \/ StopSignal(r)
    \/ Crash(r)
    \/ PdeathKill(r)

(* From the lock to the launch (supervise up to cmd.Start), the variables     *)
(* keep their types.                                                        *)
LEMMA SetupType ==
    ASSUME TypeOK, NEW r \in Runs, SetupActs(r)
    PROVE  TypeOK'
  <1> USE RunsAssumption, FlagsAssumption DEF TypeOK, Before, Setup, Serving, Ending, Locked, Over, HoldsMutex,
             main, attacher, child, device
  <1>1. CASE Begin(r)
    BY <1>1 DEF Begin, Goto
  <1>2. CASE LockDevice(r)
    BY <1>2 DEF LockDevice, Goto
  <1>3. CASE Prepare(r)
    BY <1>3 DEF Prepare, Goto
  <1>4. CASE RemoveStart(r, "remove1", "removing1", "destroy1", TRUE)
    BY <1>4 DEF RemoveStart, Goto, Gone
  <1>5. CASE RemoveEnd(r, "removing1", "destroy1")
    BY <1>5 DEF RemoveEnd, Goto
  <1>6. CASE Destroy(r, "destroy1", "launch")
    BY <1>6 DEF Destroy, Goto, Vanish
  <1>7. CASE AbortLaunch(r)
    BY <1>7 DEF AbortLaunch, Goto
  <1>8. CASE Launch(r)
    BY <1>8 DEF Launch, Goto
  <1> QED BY <1>1, <1>2, <1>3, <1>4, <1>5, <1>6, <1>7, <1>8 DEF SetupActs

(* The wait loop and the ordered stop keep the types.                       *)
LEMMA LoopType ==
    ASSUME TypeOK, NEW r \in Runs, LoopActs(r)
    PROVE  TypeOK'
  <1> USE RunsAssumption, FlagsAssumption DEF TypeOK, Before, Setup, Serving, Ending, Locked, Over, HoldsMutex,
             main, attacher, child, device
  <1>1. CASE WaitSignal(r)
    BY <1>1 DEF WaitSignal, Goto
  <1>2. CASE WaitExit(r)
    BY <1>2 DEF WaitExit, Goto
  <1>3. CASE StopAttacher(r, "stopAtt", "stopWait")
    BY <1>3 DEF StopAttacher, Goto
  <1>4. CASE AttacherStopped(r, "stopWait", "remove")
    BY <1>4 DEF AttacherStopped, Goto
  <1>5. CASE RemoveStart(r, "remove", "removing", "term", Gone(r))
    BY <1>5 DEF RemoveStart, Goto, Gone
  <1>6. CASE RemoveEnd(r, "removing", "term")
    BY <1>6 DEF RemoveEnd, Goto
  <1>7. CASE SignalLauncher(r)
    BY <1>7 DEF SignalLauncher, Goto, Gone
  <1> QED BY <1>1, <1>2, <1>3, <1>4, <1>5, <1>6, <1>7 DEF LoopActs

(* LateSignal takes a signal off the channel only if there is one.           *)
LEMMA LateSignalType ==
    ASSUME TypeOK, NEW r \in Runs, LateSignal(r)
    PROVE  /\ sigs' \in [Runs -> 0..2] /\ stopping' \in [Runs -> BOOLEAN]
           /\ pc' \in [Runs -> Before \cup Locked \cup Over]
  <1>1. /\ sigs \in [Runs -> 0..2] /\ stopping \in [Runs -> BOOLEAN]
        /\ pc \in [Runs -> Before \cup Locked \cup Over]
    BY DEF TypeOK
  <1>2. pc' = [pc EXCEPT ![r] = "lower"]
    BY DEF LateSignal, Goto
  <1>3. "lower" \in Before \cup Locked \cup Over
    BY DEF Locked, Ending
  <1>4. CASE sigs[r] > 0
    <2>1. sigs' = [sigs EXCEPT ![r] = sigs[r] - 1] /\ stopping' = [stopping EXCEPT ![r] = TRUE]
      BY <1>4 DEF LateSignal
    <2>2. sigs[r] - 1 \in 0..2
      BY <1>1, <1>4
    <2> QED BY Zenon, <1>1, <1>2, <1>3, <2>1, <2>2
  <1>5. CASE ~(sigs[r] > 0)
    <2>1. sigs' = sigs /\ stopping' = stopping
      BY <1>5 DEF LateSignal
    <2> QED BY Zenon, <1>1, <1>2, <1>3, <2>1
  <1> QED BY <1>4, <1>5

(* What follows the launcher's exit keeps the types.                        *)
LEMMA EndType ==
    ASSUME TypeOK, NEW r \in Runs, EndActs(r)
    PROVE  TypeOK'
  <1> USE RunsAssumption, FlagsAssumption DEF TypeOK, Before, Setup, Serving, Ending, Locked, Over, HoldsMutex,
             main, attacher, child, device
  <1>1. CASE LateSignal(r)
    BY <1>1, LateSignalType DEF LateSignal
  <1>2. CASE LowerTimeout(r)
    BY <1>2 DEF LowerTimeout, Goto
  <1>3. CASE StopAttacher(r, "stopAtt2", "stopWait2")
    BY <1>3 DEF StopAttacher, Goto
  <1>4. CASE AttacherStopped(r, "stopWait2", "decide")
    BY <1>4 DEF AttacherStopped, Goto
  <1>5. CASE Decide(r)
    BY <1>5 DEF Decide, Goto
  <1>6. CASE RemoveStart(r, "remove2", "removing2", "destroy2", TRUE)
    BY <1>6 DEF RemoveStart, Goto, Gone
  <1>7. CASE RemoveEnd(r, "removing2", "destroy2")
    BY <1>7 DEF RemoveEnd, Goto
  <1>8. CASE Destroy(r, "destroy2", "unlock")
    BY <1>8 DEF Destroy, Goto, Vanish
  <1>9. CASE Unlock(r)
    BY <1>9 DEF Unlock, Goto
  <1> QED BY <1>1, <1>2, <1>3, <1>4, <1>5, <1>6, <1>7, <1>8, <1>9 DEF EndActs

(* The attacher (startAttacher) keeps the types.                            *)
LEMMA AttacherType ==
    ASSUME TypeOK, NEW r \in Runs, AttacherActs(r)
    PROVE  TypeOK'
  <1> USE RunsAssumption, FlagsAssumption DEF TypeOK, Before, Setup, Serving, Ending, Locked, Over, HoldsMutex,
             main, attacher, child, device
  <1>1. CASE AttLock(r)
    BY <1>1 DEF AttLock, AttacherAt
  <1>2. CASE AttEnd(r)
    BY <1>2 DEF AttEnd, AttacherAt
  <1>3. CASE AttRetry(r)
    BY <1>3 DEF AttRetry, AttacherAt
  <1>4. CASE AttAdd(r)
    BY <1>4 DEF AttAdd, AttacherAt
  <1>5. CASE AttBind(r)
    BY <1>5 DEF AttBind, AttacherAt
  <1>6. CASE AttProbeAnswered(r)
    BY <1>6 DEF AttProbeAnswered, AttacherAt, AttProbed, Answered
  <1>7. CASE AttProbeTimeout(r)
    BY <1>7 DEF AttProbeTimeout, AttacherAt, AttProbed, Gone, Answered
  <1>8. CASE AttLive(r)
    BY <1>8 DEF AttLive, AttacherAt, Gone
  <1> QED BY <1>1, <1>2, <1>3, <1>4, <1>5, <1>6, <1>7, <1>8 DEF AttacherActs

(* The launcher, its guest and the waiter keep the types.                   *)
LEMMA ChildType ==
    ASSUME TypeOK, NEW r \in Runs, ChildActs(r)
    PROVE  TypeOK'
  <1> USE RunsAssumption, FlagsAssumption DEF TypeOK, Before, Setup, Serving, Ending, Locked, Over, HoldsMutex,
             main, attacher, child, device
  <1>1. CASE WaiterGone(r)
    BY <1>1 DEF WaiterGone, Gone
  <1>2. CASE WaiterSend(r)
    BY <1>2 DEF WaiterSend
  <1>3. CASE GuestCreate(r)
    BY <1>3 DEF GuestCreate
  <1>4. CASE GuestOpen(r)
    BY <1>4 DEF GuestOpen, SetGuest
  <1>5. CASE GuestReady(r)
    BY <1>5 DEF GuestReady, SetGuest
  <1>6. CASE GuestDie(r)
    BY <1>6 DEF GuestDie, SetGuest, Alive
  <1>7. CASE GuestHalt(r)
    BY <1>7 DEF GuestHalt, Vanish, SetGuest, Alive
  <1>8. CASE FdFree(r)
    BY <1>8 DEF FdFree
  <1>9. CASE LauncherReap(r)
    BY <1>9 DEF LauncherReap
  <1>10. CASE LauncherEnd(r)
    BY <1>10 DEF LauncherEnd, Vanish
  <1>11. CASE LauncherFail(r)
    BY <1>11 DEF LauncherFail, SetGuest
  <1> QED BY <1>1, <1>2, <1>3, <1>4, <1>5, <1>6, <1>7, <1>8, <1>9, <1>10, <1>11 DEF ChildActs

(* A stop signal, of which the channel keeps two, and the death of a        *)
(* supervisor keep the types.                                               *)
LEMMA OutsideType ==
    ASSUME TypeOK, NEW r \in Runs, OutsideActs(r)
    PROVE  TypeOK'
  <1> USE RunsAssumption, FlagsAssumption DEF TypeOK, Before, Setup, Serving, Ending, Locked, Over, HoldsMutex,
             main, attacher, child, device
  <1>1. CASE StopSignal(r)
    BY <1>1 DEF StopSignal
  <1>2. CASE Crash(r)
    BY <1>2 DEF Crash, Goto, Answered
  <1>3. CASE PdeathKill(r)
    BY <1>3 DEF PdeathKill, SetGuest
  <1> QED BY <1>1, <1>2, <1>3 DEF OutsideActs

-----------------------------------------------------------------------------
(* The inductive invariant. *)

(* The start of a run preserves the invariant: it takes the lock only when   *)
(* nobody has it, and what it removes has no guest.                         *)
LEMMA SetupInv ==
    ASSUME IInv, TypeOK', NEW r \in Runs, SetupActs(r)
    PROVE  IInv'
  <1> USE RunsAssumption, FlagsAssumption DEF IInv, OneSupervisor, PhaseInv, ChildInv, StopInv, BindInv,
             StopLeavesNothing, KeptOnlyIfLive, RunEnded, Quiet, OffBus, AfterStop,
             TypeOK, Before, Setup, Serving, Ending, Locked, Over, HoldsMutex,
             Alive, Gone, Answered, main, attacher, child, device
  <1>1. CASE Begin(r)
    BY <1>1, SMTT(60) DEF Begin, Goto
  <1>2. CASE LockDevice(r)
    BY <1>2, SMTT(60) DEF LockDevice, Goto
  <1>3. CASE Prepare(r)
    BY <1>3, SMTT(60) DEF Prepare, Goto
  <1>4. CASE RemoveStart(r, "remove1", "removing1", "destroy1", TRUE)
    BY <1>4, SMTT(60) DEF RemoveStart, Goto, Gone
  <1>5. CASE RemoveEnd(r, "removing1", "destroy1")
    BY <1>5, SMTT(60) DEF RemoveEnd, Goto
  <1>6. CASE Destroy(r, "destroy1", "launch")
    BY <1>6, SMTT(60) DEF Destroy, Goto, Vanish
  <1>7. CASE AbortLaunch(r)
    BY <1>7, SMTT(60) DEF AbortLaunch, Goto
  <1>8. CASE Launch(r)
    BY <1>8, SMTT(60) DEF Launch, Goto
  <1> QED BY <1>1, <1>2, <1>3, <1>4, <1>5, <1>6, <1>7, <1>8 DEF SetupActs

(* The ordered stop preserves the invariant: each step establishes what the  *)
(* next location asserts (attacher over, device off the bus, signal sent).  *)
LEMMA LoopInv ==
    ASSUME IInv, TypeOK', NEW r \in Runs, LoopActs(r)
    PROVE  IInv'
  <1> USE RunsAssumption, FlagsAssumption DEF IInv, OneSupervisor, PhaseInv, ChildInv, StopInv, BindInv,
             StopLeavesNothing, KeptOnlyIfLive, RunEnded, Quiet, OffBus, AfterStop,
             TypeOK, Before, Setup, Serving, Ending, Locked, Over, HoldsMutex,
             Alive, Gone, Answered, main, attacher, child, device
  <1>1. CASE WaitSignal(r)
    BY <1>1, SMTT(60) DEF WaitSignal, Goto
  <1>2. CASE WaitExit(r)
    BY <1>2, SMTT(60) DEF WaitExit, Goto
  <1>3. CASE StopAttacher(r, "stopAtt", "stopWait")
    BY <1>3, SMTT(60) DEF StopAttacher, Goto
  <1>4. CASE AttacherStopped(r, "stopWait", "remove")
    BY <1>4, SMTT(60) DEF AttacherStopped, Goto
  <1>5. CASE RemoveStart(r, "remove", "removing", "term", Gone(r))
    BY <1>5, SMTT(60) DEF RemoveStart, Goto, Gone
  <1>6. CASE RemoveEnd(r, "removing", "term")
    BY <1>6, SMTT(60) DEF RemoveEnd, Goto
  <1>7. CASE SignalLauncher(r)
    BY <1>7, SMTT(60) DEF SignalLauncher, Goto, Gone
  <1> QED BY <1>1, <1>2, <1>3, <1>4, <1>5, <1>6, <1>7 DEF LoopActs

(* The end of a run preserves the invariant: what Decide keeps is bound and  *)
(* live, and everything else is removed.                                    *)
LEMMA EndInv ==
    ASSUME IInv, TypeOK', NEW r \in Runs, EndActs(r)
    PROVE  IInv'
  <1> USE RunsAssumption, FlagsAssumption DEF IInv, OneSupervisor, PhaseInv, ChildInv, StopInv, BindInv,
             StopLeavesNothing, KeptOnlyIfLive, RunEnded, Quiet, OffBus, AfterStop,
             TypeOK, Before, Setup, Serving, Ending, Locked, Over, HoldsMutex,
             Alive, Gone, Answered, main, attacher, child, device
  <1>1. CASE LateSignal(r)
    BY <1>1, SMTT(60) DEF LateSignal, Goto
  <1>2. CASE LowerTimeout(r)
    BY <1>2, SMTT(60) DEF LowerTimeout, Goto
  <1>3. CASE StopAttacher(r, "stopAtt2", "stopWait2")
    BY <1>3, SMTT(60) DEF StopAttacher, Goto
  <1>4. CASE AttacherStopped(r, "stopWait2", "decide")
    BY <1>4, SMTT(60) DEF AttacherStopped, Goto
  <1>5. CASE Decide(r)
    BY <1>5, SMTT(60) DEF Decide, Goto
  <1>6. CASE RemoveStart(r, "remove2", "removing2", "destroy2", TRUE)
    BY <1>6, SMTT(60) DEF RemoveStart, Goto, Gone
  <1>7. CASE RemoveEnd(r, "removing2", "destroy2")
    BY <1>7, SMTT(60) DEF RemoveEnd, Goto
  <1>8. CASE Destroy(r, "destroy2", "unlock")
    BY <1>8, SMTT(60) DEF Destroy, Goto, Vanish
  <1>9. CASE Unlock(r)
    BY <1>9, SMTT(60) DEF Unlock, Goto
  <1> QED BY <1>1, <1>2, <1>3, <1>4, <1>5, <1>6, <1>7, <1>8, <1>9 DEF EndActs

(* The attacher preserves the invariant: it never acts after stop, and sets  *)
(* live last.                                                               *)
LEMMA AttacherInv ==
    ASSUME IInv, TypeOK', NEW r \in Runs, AttacherActs(r)
    PROVE  IInv'
  <1> USE RunsAssumption, FlagsAssumption DEF IInv, OneSupervisor, PhaseInv, ChildInv, StopInv, BindInv,
             StopLeavesNothing, KeptOnlyIfLive, RunEnded, Quiet, OffBus, AfterStop,
             TypeOK, Before, Setup, Serving, Ending, Locked, Over, HoldsMutex,
             Alive, Gone, Answered, main, attacher, child, device
  <1>1. CASE AttLock(r)
    BY <1>1, SMTT(60) DEF AttLock, AttacherAt
  <1>2. CASE AttEnd(r)
    BY <1>2, SMTT(60) DEF AttEnd, AttacherAt
  <1>3. CASE AttRetry(r)
    BY <1>3, SMTT(60) DEF AttRetry, AttacherAt
  <1>4. CASE AttAdd(r)
    BY <1>4, SMTT(60) DEF AttAdd, AttacherAt
  <1>5. CASE AttBind(r)
    BY <1>5, SMTT(60) DEF AttBind, AttacherAt
  <1>6. CASE AttProbeAnswered(r)
    BY <1>6, SMTT(60) DEF AttProbeAnswered, AttacherAt, AttProbed, Answered
  <1>7. CASE AttProbeTimeout(r)
    BY <1>7, SMTT(60) DEF AttProbeTimeout, AttacherAt, AttProbed, Gone, Answered
  <1>8. CASE AttLive(r)
    BY <1>8, SMTT(60) DEF AttLive, AttacherAt, Gone
  <1> QED BY <1>1, <1>2, <1>3, <1>4, <1>5, <1>6, <1>7, <1>8 DEF AttacherActs

(* The launcher, its guest and the waiter preserve the invariant: a device   *)
(* disappears only when it is off the bus.                                  *)
LEMMA ChildInvS ==
    ASSUME IInv, TypeOK', NEW r \in Runs, ChildActs(r)
    PROVE  IInv'
  <1> USE RunsAssumption, FlagsAssumption DEF IInv, OneSupervisor, PhaseInv, ChildInv, StopInv, BindInv,
             StopLeavesNothing, KeptOnlyIfLive, RunEnded, Quiet, OffBus, AfterStop,
             TypeOK, Before, Setup, Serving, Ending, Locked, Over, HoldsMutex,
             Alive, Gone, Answered, main, attacher, child, device
  <1>1. CASE WaiterGone(r)
    BY <1>1, SMTT(60) DEF WaiterGone, Gone
  <1>2. CASE WaiterSend(r)
    BY <1>2, SMTT(60) DEF WaiterSend
  <1>3. CASE GuestCreate(r)
    BY <1>3, SMTT(60) DEF GuestCreate
  <1>4. CASE GuestOpen(r)
    BY <1>4, SMTT(60) DEF GuestOpen, SetGuest
  <1>5. CASE GuestReady(r)
    BY <1>5, SMTT(60) DEF GuestReady, SetGuest
  <1>6. CASE GuestDie(r)
    BY <1>6, SMTT(60) DEF GuestDie, SetGuest, Alive
  <1>7. CASE GuestHalt(r)
    BY <1>7, SMTT(60) DEF GuestHalt, Vanish, SetGuest, Alive
  <1>8. CASE FdFree(r)
    BY <1>8, SMTT(60) DEF FdFree
  <1>9. CASE LauncherReap(r)
    BY <1>9, SMTT(60) DEF LauncherReap
  <1>10. CASE LauncherEnd(r)
    BY <1>10, SMTT(60) DEF LauncherEnd, Vanish
  <1>11. CASE LauncherFail(r)
    BY <1>11, SMTT(60) DEF LauncherFail, SetGuest
  <1> QED BY <1>1, <1>2, <1>3, <1>4, <1>5, <1>6, <1>7, <1>8, <1>9, <1>10, <1>11 DEF ChildActs

(* A stop signal or a killed supervisor preserves the invariant: the lock of *)
(* the dead one is free, and its launcher dies before anyone takes it.      *)
LEMMA OutsideInv ==
    ASSUME IInv, TypeOK', NEW r \in Runs, OutsideActs(r)
    PROVE  IInv'
  <1> USE RunsAssumption, FlagsAssumption DEF IInv, OneSupervisor, PhaseInv, ChildInv, StopInv, BindInv,
             StopLeavesNothing, KeptOnlyIfLive, RunEnded, Quiet, OffBus, AfterStop,
             TypeOK, Before, Setup, Serving, Ending, Locked, Over, HoldsMutex,
             Alive, Gone, Answered, main, attacher, child, device
  <1>1. CASE StopSignal(r)
    BY <1>1, SMTT(60) DEF StopSignal
  <1>2. CASE Crash(r)
    BY <1>2, SMTT(60) DEF Crash, Goto, Answered
  <1>3. CASE PdeathKill(r)
    BY <1>3, SMTT(60) DEF PdeathKill, SetGuest
  <1> QED BY <1>1, <1>2, <1>3 DEF OutsideActs

(* Every step is one of the groups above.                                   *)
LEMMA NextCases ==
    ASSUME Next
    PROVE  \E r \in Runs : \/ SetupActs(r) \/ LoopActs(r) \/ EndActs(r)
                           \/ AttacherActs(r) \/ ChildActs(r) \/ OutsideActs(r)
  <1>1. PICK r \in Runs : \/ MainStep(r) \/ AttacherStep(r) \/ WaiterStep(r)
                        \/ ChildStep(r) \/ OutsideActs(r)
    BY Zenon DEF Next, OutsideActs
  <1>2. MainStep(r) => SetupActs(r) \/ LoopActs(r) \/ EndActs(r)
    BY Zenon DEF MainStep, LeftoverCleanup, OrderedStop, FinalCleanup,
           SetupActs, LoopActs, EndActs
  <1>3. AttacherStep(r) => AttacherActs(r)
    BY Zenon DEF AttacherStep, AttacherActs
  <1>4. WaiterStep(r) \/ ChildStep(r) => ChildActs(r)
    BY Zenon DEF WaiterStep, ChildStep, ChildActs
  <1> QED BY Zenon, <1>1, <1>2, <1>3, <1>4

(* The invariant is inductive.                                              *)
LEMMA StepInv == IInv /\ [Next]_vars => IInv'
  <1> SUFFICES ASSUME IInv, [Next]_vars PROVE IInv'
    OBVIOUS
  <1>1. CASE Next
    <2>1. PICK r \in Runs : \/ SetupActs(r) \/ LoopActs(r) \/ EndActs(r)
                            \/ AttacherActs(r) \/ ChildActs(r) \/ OutsideActs(r)
      BY <1>1, NextCases
    <2>2. TypeOK
      BY DEF IInv
    <2>3. TypeOK'
      BY <2>1, <2>2, SetupType, LoopType, EndType, AttacherType, ChildType, OutsideType
    <2> QED
      BY <2>1, <2>3, SetupInv, LoopInv, EndInv, AttacherInv, ChildInvS, OutsideInv
  <1>2. CASE UNCHANGED vars
    BY <1>2 DEF vars, main, attacher, child, device, IInv, TypeOK, OneSupervisor,
                PhaseInv, ChildInv, StopInv, BindInv, StopLeavesNothing,
                KeptOnlyIfLive, RunEnded, Quiet, OffBus, Alive
  <1> QED BY <1>1, <1>2

(* IInv holds in every reachable state: it is inductive. *)
THEOREM Invariance == Spec => []IInv
  BY InitInv, StepInv, PTL DEF Spec

-----------------------------------------------------------------------------
(* Every variable keeps its type, over any number of restarts and crashes.   *)
THEOREM TypeCorrect == Spec => []TypeOK
  <1>1. IInv => TypeOK
    BY DEF IInv
  <1> QED BY <1>1, Invariance, PTL

(* The lock keeps all but one supervisor away from the device (lockDevice).  *)
THEOREM MutualExclusion == Spec => []OneSupervisor
  <1>1. IInv => OneSupervisor
    BY DEF IInv
  <1> QED BY <1>1, Invariance, PTL

(* attacher.stop is final: once it has returned, no attach starts (run.go,   *)
(* the comment of stop).                                                    *)
THEOREM StopIsFinal == Spec => []NoAttachAfterStop
  <1>1. IInv => NoAttachAfterStop
    BY DEF IInv, StopInv, Quiet, NoAttachAfterStop
  <1> QED BY <1>1, Invariance, PTL

(* A launcher is signalled only after its device has left the bus, and the   *)
(* device stays off it: the guest still runs when the host resets it.       *)
THEOREM StopOrder == Spec => []RemovedBeforeSignal
  <1>1. IInv => RemovedBeforeSignal
    BY DEF IInv, StopInv, OffBus, RemovedBeforeSignal
  <1> QED BY <1>1, Invariance, PTL

(* A stopped supervisor, and any supervisor of a wlan device, leaves no      *)
(* device behind.                                                           *)
THEOREM CleanStop == Spec => []StopLeavesNothing
  <1>1. IInv => StopLeavesNothing
    BY DEF IInv
  <1> QED BY <1>1, Invariance, PTL

(* What a run leaves is a net device on the bus that it saw live.            *)
THEOREM OnlyLiveKept == Spec => []KeptOnlyIfLive
  <1>1. IInv => KeptOnlyIfLive
    BY DEF IInv
  <1> QED BY <1>1, Invariance, PTL

-----------------------------------------------------------------------------
(* The device leaves the bus only in a removal of a supervisor that holds    *)
(* the lock, or in what is left of one when that supervisor is killed.      *)
LEMMA OnlyRemovals ==
    ASSUME NEW r \in Runs, dev = "bus", dev' # "bus",
           \/ SetupActs(r) \/ LoopActs(r) \/ EndActs(r)
           \/ AttacherActs(r) \/ ChildActs(r) \/ OutsideActs(r)
    PROVE  pc[r] \in {"removing1", "removing", "removing2"}
  <1>1. CASE SetupActs(r)
    BY <1>1 DEF SetupActs, Begin, LockDevice, Prepare, RemoveStart, RemoveEnd,
                Destroy, Vanish, AbortLaunch, Launch, device
  <1>2. CASE LoopActs(r)
    BY <1>2 DEF LoopActs, WaitSignal, WaitExit, StopAttacher, AttacherStopped,
                RemoveStart, RemoveEnd, SignalLauncher, device
  <1>3. CASE EndActs(r)
    BY <1>3 DEF EndActs, LateSignal, LowerTimeout, StopAttacher, AttacherStopped,
                Decide, RemoveStart, RemoveEnd, Destroy, Vanish, Unlock, device
  <1>4. CASE AttacherActs(r)
    BY <1>4 DEF AttacherActs, AttLock, AttEnd, AttRetry, AttAdd, AttBind,
                AttProbeAnswered, AttProbeTimeout, AttLive, device
  <1>5. CASE ChildActs(r)
    BY <1>5 DEF ChildActs, WaiterGone, WaiterSend, GuestCreate, GuestOpen,
                GuestReady, GuestDie, GuestHalt, FdFree, LauncherReap,
                LauncherEnd, LauncherFail, Vanish, device
  <1>6. CASE OutsideActs(r)
    BY <1>6 DEF OutsideActs, StopSignal, Crash, PdeathKill, device
  <1> QED BY <1>1, <1>2, <1>3, <1>4, <1>5, <1>6

(* No supervisor takes a running guest's device off the bus but its own, in  *)
(* its stop: not the cleanup of a leftover device by the next one, nor a    *)
(* second one that was started by hand (the comment of lockDevice).         *)
THEOREM RunningGuestKeepsDevice == Spec => OnlyOwnStopRemoves
  <1>1. IInv /\ [Next]_vars => [dev = "bus" /\ dev' # "bus" /\ Answered => stopping[fd]]_vars
    <2> SUFFICES ASSUME IInv, Next, dev = "bus", dev' # "bus", Answered
                 PROVE  stopping[fd]
      BY DEF vars, device
    <2>1. PICK r \in Runs : \/ SetupActs(r) \/ LoopActs(r) \/ EndActs(r)
                            \/ AttacherActs(r) \/ ChildActs(r) \/ OutsideActs(r)
      BY NextCases
    <2>2. pc[r] \in {"removing1", "removing", "removing2"}
      BY <2>1, OnlyRemovals
    <2>3. lock = r /\ r # NoRun
      BY <2>2, RunsAssumption DEF IInv, OneSupervisor, Locked, Setup, Serving, Ending
    <2>4. fd \in Runs /\ launcher[fd] = "running"
      BY DEF IInv, TypeOK, ChildInv, Answered, Alive
    <2>5. pc[fd] \in Serving
      BY <2>3, <2>4 DEF IInv, ChildInv
    <2>6. fd = r
      BY <2>3, <2>4, <2>5 DEF IInv, OneSupervisor, Locked
    <2>7. pc[fd] = "removing"
      BY <2>2, <2>5, <2>6 DEF Serving
    <2> QED BY <2>4, <2>7 DEF IInv, StopInv, Serving
  <1> QED BY <1>1, Invariance, PTL DEF Spec, OnlyOwnStopRemoves
-----------------------------------------------------------------------------
(* What a run takes for live. *)

Excused == low \/ \E q \in Runs : pc[q] = "crashed"

(* Between two runs there is no device, or one that works. *)
Works == dev = "absent" \/ (dev = "bus" /\ bound /\ ~broken)

Up(r) == guest[r] \in {"serving", "dead"}

(* Unless the timeout was lowered or a supervisor was killed, a device whose  *)
(* probe timed out is that of a run whose launcher is gone and which does    *)
(* not take it for live: a run starts with a device that works or makes a    *)
(* new one, the new one is only added once its guest has served it, and a    *)
(* run that ends without keeping the device has lowered the timeout.         *)
AnswerInv ==
    /\ broken => dev = "bus"
    /\ \A r \in Runs : guest[r] \in {"open", "serving"} => fd = r
    /\ ~Excused =>
           /\ (\A r \in Runs : pc[r] \notin Serving \cup Ending) => Works
           /\ \A r \in Runs :
                  /\ pc[r] \in Serving \cup Ending =>
                         /\ dev = "bus" /\ broken => Gone(r) /\ ~live[r]
                         /\ dev = "ready" \/ (dev = "bus" /\ ~bound) => Up(r) \/ att[r] = "done"
                         /\ att[r] \in {"adding", "binding"} => Up(r)
                  /\ pc[r] \in {"stopAtt2", "stopWait2", "decide", "remove2"} =>
                         dev \notin {"created", "ready"}
                  /\ pc[r] \notin {"removing1", "removing2"}
                  /\ pc[r] = "destroy2" => dev = "absent"

(* A run starts with no device or with one that works, and lowers the timeout *)
(* of one that it removes.                                                   *)
LEMMA SetupAnswer ==
    ASSUME IInv, IInv', AnswerInv, NEW r \in Runs, SetupActs(r)
    PROVE  AnswerInv'
  <1> USE RunsAssumption, FlagsAssumption
          DEF IInv, OneSupervisor, PhaseInv, ChildInv, StopInv, BindInv, Quiet, AfterStop,
              AnswerInv, Excused, Works, Up, TypeOK, Before, Setup, Serving, Ending, Locked,
              Over, HoldsMutex, Alive, Gone, Answered, main, attacher, child, device
  <1>1. CASE Begin(r)
    BY <1>1, SMTT(60) DEF Begin, Goto
  <1>2. CASE LockDevice(r)
    BY <1>2, SMTT(60) DEF LockDevice, Goto
  <1>3. CASE Prepare(r)
    BY <1>3, SMTT(60) DEF Prepare, Goto
  <1>4. CASE RemoveStart(r, "remove1", "removing1", "destroy1", TRUE)
    BY <1>4, SMTT(60) DEF RemoveStart, Goto
  <1>5. CASE RemoveEnd(r, "removing1", "destroy1")
    BY <1>5, SMTT(60) DEF RemoveEnd, Goto
  <1>6. CASE Destroy(r, "destroy1", "launch")
    BY <1>6, SMTT(60) DEF Destroy, Goto, Vanish
  <1>7. CASE AbortLaunch(r)
    BY <1>7, SMTT(60) DEF AbortLaunch, Goto
  <1>8. CASE Launch(r)
    BY <1>8, SMTT(60) DEF Launch, Goto
  <1> QED BY <1>1, <1>2, <1>3, <1>4, <1>5, <1>6, <1>7, <1>8 DEF SetupActs

(* What the ordered stop removes is not added again.                         *)
LEMMA LoopAnswer ==
    ASSUME IInv, IInv', AnswerInv, NEW r \in Runs, LoopActs(r)
    PROVE  AnswerInv'
  <1> USE RunsAssumption, FlagsAssumption
          DEF IInv, OneSupervisor, PhaseInv, ChildInv, StopInv, BindInv, Quiet, AfterStop,
              AnswerInv, Excused, Works, Up, TypeOK, Before, Setup, Serving, Ending, Locked,
              Over, HoldsMutex, Alive, Gone, Answered, main, attacher, child, device
  <1>1. CASE WaitSignal(r)
    BY <1>1, SMTT(60) DEF WaitSignal, Goto
  <1>2. CASE WaitExit(r)
    BY <1>2, SMTT(60) DEF WaitExit, Goto
  <1>3. CASE StopAttacher(r, "stopAtt", "stopWait")
    BY <1>3, SMTT(60) DEF StopAttacher, Goto
  <1>4. CASE AttacherStopped(r, "stopWait", "remove")
    BY <1>4, SMTT(60) DEF AttacherStopped, Goto
  <1>5. CASE RemoveStart(r, "remove", "removing", "term", Gone(r))
    BY <1>5, SMTT(60) DEF RemoveStart, Goto
  <1>6. CASE RemoveEnd(r, "removing", "term")
    BY <1>6, SMTT(60) DEF RemoveEnd, Goto
  <1>7. CASE SignalLauncher(r)
    BY <1>7, SMTT(60) DEF SignalLauncher, Goto
  <1> QED BY <1>1, <1>2, <1>3, <1>4, <1>5, <1>6, <1>7 DEF LoopActs

(* After the guest, a device that is not kept has its timeout lowered.       *)
LEMMA EndAnswer ==
    ASSUME IInv, IInv', AnswerInv, NEW r \in Runs, EndActs(r)
    PROVE  AnswerInv'
  <1> USE RunsAssumption, FlagsAssumption
          DEF IInv, OneSupervisor, PhaseInv, ChildInv, StopInv, BindInv, Quiet, AfterStop,
              AnswerInv, Excused, Works, Up, TypeOK, Before, Setup, Serving, Ending, Locked,
              Over, HoldsMutex, Alive, Gone, Answered, main, attacher, child, device
  <1>1. CASE LateSignal(r)
    BY <1>1, SMTT(60) DEF LateSignal, Goto
  <1>2. CASE LowerTimeout(r)
    <2>1. /\ \A q \in Runs : pc'[q] = IF q = r THEN "stopAtt2" ELSE pc[q]
          /\ pc[r] = "lower"
          /\ UNCHANGED <<att, live, waiter, guest, dev, bound, broken, fd>>
      BY <1>2 DEF LowerTimeout, Goto
    <2>2. ~Excused' => ~Excused /\ dev \notin {"created", "ready"}
      <3>1. ~low' => ~low /\ dev \notin {"created", "ready"}
        BY <1>2, Zenon DEF LowerTimeout
      <3> QED BY <2>1, <3>1
    <2> HIDE DEF IInv, Excused
    <2> QED BY <2>1, <2>2
  <1>3. CASE StopAttacher(r, "stopAtt2", "stopWait2")
    BY <1>3, SMTT(60) DEF StopAttacher, Goto
  <1>4. CASE AttacherStopped(r, "stopWait2", "decide")
    BY <1>4, SMTT(60) DEF AttacherStopped, Goto
  <1>5. CASE Decide(r)
    BY <1>5, SMTT(60) DEF Decide, Goto
  <1>6. CASE RemoveStart(r, "remove2", "removing2", "destroy2", TRUE)
    BY <1>6, SMTT(60) DEF RemoveStart, Goto
  <1>7. CASE RemoveEnd(r, "removing2", "destroy2")
    BY <1>7, SMTT(60) DEF RemoveEnd, Goto
  <1>8. CASE Destroy(r, "destroy2", "unlock")
    BY <1>8, SMTT(60) DEF Destroy, Goto, Vanish
  <1>9. CASE Unlock(r)
    BY <1>9, SMTT(60) DEF Unlock, Goto
  <1> QED BY <1>1, <1>2, <1>3, <1>4, <1>5, <1>6, <1>7, <1>8, <1>9 DEF EndActs

(* The attacher adds the device of a guest that serves it or that has died, *)
(* and does not take it for live if its launcher is gone.                    *)
LEMMA AttacherAnswer ==
    ASSUME IInv, IInv', AnswerInv, NEW r \in Runs, AttacherActs(r)
    PROVE  AnswerInv'
  <1> USE RunsAssumption, FlagsAssumption
          DEF IInv, OneSupervisor, PhaseInv, ChildInv, StopInv, BindInv, Quiet, AfterStop,
              AnswerInv, Excused, Works, Up, TypeOK, Before, Setup, Serving, Ending, Locked,
              Over, HoldsMutex, Alive, Gone, Answered, main, attacher, child, device
  <1>1. CASE AttLock(r)
    BY <1>1, SMTT(60) DEF AttLock, AttacherAt
  <1>2. CASE AttEnd(r)
    BY <1>2, SMTT(60) DEF AttEnd, AttacherAt
  <1>3. CASE AttRetry(r)
    BY <1>3, SMTT(60) DEF AttRetry, AttacherAt
  <1>4. CASE AttAdd(r)
    BY <1>4, SMTT(60) DEF AttAdd, AttacherAt
  <1>5. CASE AttBind(r)
    BY <1>5, SMTT(60) DEF AttBind, AttacherAt
  <1>6. CASE AttProbeAnswered(r)
    BY <1>6, SMTT(60) DEF AttProbeAnswered, AttacherAt, AttProbed
  <1>7. CASE AttProbeTimeout(r)
    BY <1>7, SMTT(60) DEF AttProbeTimeout, AttacherAt, AttProbed
  <1>8. CASE AttLive(r)
    BY <1>8, SMTT(60) DEF AttLive, AttacherAt
  <1> QED BY <1>1, <1>2, <1>3, <1>4, <1>5, <1>6, <1>7, <1>8 DEF AttacherActs

(* A guest that is ready has its device open, and makes it ready itself.     *)
LEMMA ChildAnswer ==
    ASSUME IInv, IInv', AnswerInv, NEW r \in Runs, ChildActs(r)
    PROVE  AnswerInv'
  <1> USE RunsAssumption, FlagsAssumption
          DEF IInv, OneSupervisor, PhaseInv, ChildInv, StopInv, BindInv, Quiet, AfterStop,
              AnswerInv, Excused, Works, Up, TypeOK, Before, Setup, Serving, Ending, Locked,
              Over, HoldsMutex, Alive, Gone, Answered, main, attacher, child, device
  <1>1. CASE WaiterGone(r)
    BY <1>1, SMTT(60) DEF WaiterGone
  <1>2. CASE WaiterSend(r)
    BY <1>2, SMTT(60) DEF WaiterSend
  <1>3. CASE GuestCreate(r)
    BY <1>3, SMTT(60) DEF GuestCreate
  <1>4. CASE GuestOpen(r)
    BY <1>4, SMTT(60) DEF GuestOpen, SetGuest
  <1>5. CASE GuestReady(r)
    BY <1>5, SMTT(60) DEF GuestReady, SetGuest
  <1>6. CASE GuestDie(r)
    BY <1>6, SMTT(60) DEF GuestDie, SetGuest
  <1>7. CASE GuestHalt(r)
    BY <1>7, SMTT(60) DEF GuestHalt, Vanish, SetGuest
  <1>8. CASE FdFree(r)
    BY <1>8, SMTT(60) DEF FdFree
  <1>9. CASE LauncherReap(r)
    BY <1>9, SMTT(60) DEF LauncherReap
  <1>10. CASE LauncherEnd(r)
    BY <1>10, SMTT(60) DEF LauncherEnd, Vanish
  <1>11. CASE LauncherFail(r)
    BY <1>11, SMTT(60) DEF LauncherFail, SetGuest
  <1> QED BY <1>1, <1>2, <1>3, <1>4, <1>5, <1>6, <1>7, <1>8, <1>9, <1>10, <1>11 DEF ChildActs

(* A killed supervisor excuses what it left.                                 *)
LEMMA OutsideAnswer ==
    ASSUME IInv, IInv', AnswerInv, NEW r \in Runs, OutsideActs(r)
    PROVE  AnswerInv'
  <1> USE RunsAssumption, FlagsAssumption
          DEF IInv, OneSupervisor, PhaseInv, ChildInv, StopInv, BindInv, Quiet, AfterStop,
              AnswerInv, Excused, Works, Up, TypeOK, Before, Setup, Serving, Ending, Locked,
              Over, HoldsMutex, Alive, Gone, Answered, main, attacher, child, device
  <1>1. CASE StopSignal(r)
    BY <1>1, SMTT(60) DEF StopSignal
  <1>2. CASE Crash(r)
    BY <1>2, SMTT(60) DEF Crash, Goto
  <1>3. CASE PdeathKill(r)
    BY <1>3, SMTT(60) DEF PdeathKill, SetGuest
  <1> QED BY <1>1, <1>2, <1>3 DEF OutsideActs

(* The device that a run takes for live was answered for: the probe of its    *)
(* own guest, or of the run that kept it, did not time out.                 *)
THEOREM LiveDeviceWorks == Spec => []LiveIsAnswered
  <1>1. Init => AnswerInv
    BY DEF Init, AnswerInv, Works, Serving, Ending
  <1>2. IInv /\ IInv' /\ AnswerInv /\ [Next]_vars => AnswerInv'
    <2> SUFFICES ASSUME IInv, IInv', AnswerInv, [Next]_vars PROVE AnswerInv'
      OBVIOUS
    <2>1. CASE Next
      BY <2>1, NextCases, SetupAnswer, LoopAnswer, EndAnswer, AttacherAnswer, ChildAnswer,
         OutsideAnswer
    <2>2. CASE UNCHANGED vars
      BY <2>2 DEF vars, main, attacher, child, device, AnswerInv, Excused, Works, Up, Gone
    <2> QED BY <2>1, <2>2
  <1>3. IInv /\ AnswerInv => LiveIsAnswered
    <2> SUFFICES ASSUME IInv, AnswerInv, ~Excused, NEW r \in Runs,
                        pc[r] \in Locked, live[r], dev = "bus", broken
                 PROVE  FALSE
      BY DEF LiveIsAnswered, Excused
    <2>1. pc[r] \in {"unlock"}
      BY DEF IInv, PhaseInv, AnswerInv, Locked
    <2>2. \A q \in Runs : pc[q] \notin Serving \cup Ending
      BY <2>1, RunsAssumption DEF IInv, OneSupervisor, Locked, Setup, Serving, Ending
    <2> QED BY <2>2 DEF AnswerInv, Works
  <1> QED BY <1>1, <1>2, <1>3, Invariance, PTL DEF Spec

-----------------------------------------------------------------------------
(* The tenancy of the device. *)

Removing == {"removing1", "removing", "removing2"}

(* The attacher works only before attacher.stop, the clean-up before the      *)
(* launch is a wlan device's, and a device that is removed is on the bus.    *)
TenancyInv ==
    \A r \in Runs :
        /\ pc[r] \in Before \cup Setup => ~stopped[r]
        /\ att[r] \in HoldsMutex => ~stopped[r]
        /\ pc[r] \in {"remove1", "removing1", "destroy1"} => Wlan
        /\ pc[r] \in Removing => dev = "bus"


(* Up to the launch, stopped is not set. *)
LEMMA SetupTenancy ==
    ASSUME IInv, TenancyInv, NEW r \in Runs, SetupActs(r)
    PROVE  TenancyInv'
  <1> USE RunsAssumption
          DEF IInv, TypeOK, OneSupervisor, PhaseInv, StopInv, AfterStop, Quiet, TenancyInv,
              Removing, Before, Setup, Serving, Ending, Locked, Over, HoldsMutex,
              main, attacher, child, device
  <1>1. CASE Begin(r)
    BY <1>1, SMTT(60) DEF Begin, Goto
  <1>2. CASE LockDevice(r)
    BY <1>2, SMTT(60) DEF LockDevice, Goto
  <1>3. CASE Prepare(r)
    BY <1>3, SMTT(60) DEF Prepare, Goto
  <1>4. CASE RemoveStart(r, "remove1", "removing1", "destroy1", TRUE)
    BY <1>4, SMTT(60) DEF RemoveStart, Goto
  <1>5. CASE RemoveEnd(r, "removing1", "destroy1")
    BY <1>5, SMTT(60) DEF RemoveEnd, Goto
  <1>6. CASE Destroy(r, "destroy1", "launch")
    BY <1>6, SMTT(60) DEF Destroy, Goto, Vanish
  <1>7. CASE AbortLaunch(r)
    BY <1>7, SMTT(60) DEF AbortLaunch, Goto
  <1>8. CASE Launch(r)
    BY <1>8, SMTT(60) DEF Launch, Goto
  <1> QED BY <1>1, <1>2, <1>3, <1>4, <1>5, <1>6, <1>7, <1>8 DEF SetupActs

(* In the wait loop and the ordered stop, a removal starts on the bus. *)
LEMMA LoopTenancy ==
    ASSUME IInv, TenancyInv, NEW r \in Runs, LoopActs(r)
    PROVE  TenancyInv'
  <1> USE RunsAssumption
          DEF IInv, TypeOK, OneSupervisor, PhaseInv, StopInv, AfterStop, Quiet, TenancyInv,
              Removing, Before, Setup, Serving, Ending, Locked, Over, HoldsMutex,
              main, attacher, child, device
  <1>1. CASE WaitSignal(r)
    BY <1>1, SMTT(60) DEF WaitSignal, Goto
  <1>2. CASE WaitExit(r)
    BY <1>2, SMTT(60) DEF WaitExit, Goto
  <1>3. CASE StopAttacher(r, "stopAtt", "stopWait")
    BY <1>3, SMTT(60) DEF StopAttacher, Goto
  <1>4. CASE AttacherStopped(r, "stopWait", "remove")
    BY <1>4, SMTT(60) DEF AttacherStopped, Goto
  <1>5. CASE RemoveStart(r, "remove", "removing", "term", Gone(r))
    BY <1>5, SMTT(60) DEF RemoveStart, Goto
  <1>6. CASE RemoveEnd(r, "removing", "term")
    BY <1>6, SMTT(60) DEF RemoveEnd, Goto
  <1>7. CASE SignalLauncher(r)
    BY <1>7, SMTT(60) DEF SignalLauncher, Goto
  <1> QED BY <1>1, <1>2, <1>3, <1>4, <1>5, <1>6, <1>7 DEF LoopActs

(* So it does after the loop. *)
LEMMA EndTenancy ==
    ASSUME IInv, TenancyInv, NEW r \in Runs, EndActs(r)
    PROVE  TenancyInv'
  <1> USE RunsAssumption
          DEF IInv, TypeOK, OneSupervisor, PhaseInv, StopInv, AfterStop, Quiet, TenancyInv,
              Removing, Before, Setup, Serving, Ending, Locked, Over, HoldsMutex,
              main, attacher, child, device
  <1>1. CASE LateSignal(r)
    BY <1>1, SMTT(60) DEF LateSignal, Goto
  <1>2. CASE LowerTimeout(r)
    BY <1>2, SMTT(60) DEF LowerTimeout, Goto
  <1>3. CASE StopAttacher(r, "stopAtt2", "stopWait2")
    BY <1>3, SMTT(60) DEF StopAttacher, Goto
  <1>4. CASE AttacherStopped(r, "stopWait2", "decide")
    BY <1>4, SMTT(60) DEF AttacherStopped, Goto
  <1>5. CASE Decide(r)
    BY <1>5, SMTT(60) DEF Decide, Goto
  <1>6. CASE RemoveStart(r, "remove2", "removing2", "destroy2", TRUE)
    BY <1>6, SMTT(60) DEF RemoveStart, Goto
  <1>7. CASE RemoveEnd(r, "removing2", "destroy2")
    BY <1>7, SMTT(60) DEF RemoveEnd, Goto
  <1>8. CASE Destroy(r, "destroy2", "unlock")
    BY <1>8, SMTT(60) DEF Destroy, Goto, Vanish
  <1>9. CASE Unlock(r)
    BY <1>9, SMTT(60) DEF Unlock, Goto
  <1> QED BY <1>1, <1>2, <1>3, <1>4, <1>5, <1>6, <1>7, <1>8, <1>9 DEF EndActs

(* The attacher takes its mutex only while stopped is not set. *)
LEMMA AttacherTenancy ==
    ASSUME IInv, TenancyInv, NEW r \in Runs, AttacherActs(r)
    PROVE  TenancyInv'
  <1> USE RunsAssumption
          DEF IInv, TypeOK, OneSupervisor, PhaseInv, StopInv, AfterStop, Quiet, TenancyInv,
              Removing, Before, Setup, Serving, Ending, Locked, Over, HoldsMutex,
              main, attacher, child, device
  <1>1. CASE AttLock(r)
    BY <1>1, SMTT(60) DEF AttLock, AttacherAt
  <1>2. CASE AttEnd(r)
    BY <1>2, SMTT(60) DEF AttEnd, AttacherAt
  <1>3. CASE AttRetry(r)
    BY <1>3, SMTT(60) DEF AttRetry, AttacherAt
  <1>4. CASE AttAdd(r)
    BY <1>4, SMTT(60) DEF AttAdd, AttacherAt
  <1>5. CASE AttBind(r)
    BY <1>5, SMTT(60) DEF AttBind, AttacherAt
  <1>6. CASE AttProbeAnswered(r)
    BY <1>6, SMTT(60) DEF AttProbeAnswered, AttacherAt, AttProbed
  <1>7. CASE AttProbeTimeout(r)
    BY <1>7, SMTT(60) DEF AttProbeTimeout, AttacherAt, AttProbed
  <1>8. CASE AttLive(r)
    BY <1>8, SMTT(60) DEF AttLive, AttacherAt
  <1> QED BY <1>1, <1>2, <1>3, <1>4, <1>5, <1>6, <1>7, <1>8 DEF AttacherActs

(* A guest and its launcher destroy the device only off the bus. *)
LEMMA ChildTenancy ==
    ASSUME IInv, TenancyInv, NEW r \in Runs, ChildActs(r)
    PROVE  TenancyInv'
  <1> USE RunsAssumption
          DEF IInv, TypeOK, OneSupervisor, PhaseInv, StopInv, AfterStop, Quiet, TenancyInv,
              Removing, Before, Setup, Serving, Ending, Locked, Over, HoldsMutex,
              main, attacher, child, device
  <1>1. CASE WaiterGone(r)
    BY <1>1, SMTT(60) DEF WaiterGone
  <1>2. CASE WaiterSend(r)
    BY <1>2, SMTT(60) DEF WaiterSend
  <1>3. CASE GuestCreate(r)
    BY <1>3, SMTT(60) DEF GuestCreate
  <1>4. CASE GuestOpen(r)
    BY <1>4, SMTT(60) DEF GuestOpen, SetGuest
  <1>5. CASE GuestReady(r)
    BY <1>5, SMTT(60) DEF GuestReady, SetGuest
  <1>6. CASE GuestDie(r)
    BY <1>6, SMTT(60) DEF GuestDie, SetGuest
  <1>7. CASE GuestHalt(r)
    BY <1>7, SMTT(60) DEF GuestHalt, Vanish, SetGuest
  <1>8. CASE FdFree(r)
    BY <1>8, SMTT(60) DEF FdFree
  <1>9. CASE LauncherReap(r)
    BY <1>9, SMTT(60) DEF LauncherReap
  <1>10. CASE LauncherEnd(r)
    BY <1>10, SMTT(60) DEF LauncherEnd, Vanish
  <1>11. CASE LauncherFail(r)
    BY <1>11, SMTT(60) DEF LauncherFail, SetGuest
  <1> QED BY <1>1, <1>2, <1>3, <1>4, <1>5, <1>6, <1>7, <1>8, <1>9, <1>10, <1>11 DEF ChildActs

(* A killed supervisor removes the device no longer. *)
LEMMA OutsideTenancy ==
    ASSUME IInv, TenancyInv, NEW r \in Runs, OutsideActs(r)
    PROVE  TenancyInv'
  <1> USE RunsAssumption
          DEF IInv, TypeOK, OneSupervisor, PhaseInv, StopInv, AfterStop, Quiet, TenancyInv,
              Removing, Before, Setup, Serving, Ending, Locked, Over, HoldsMutex,
              main, attacher, child, device
  <1>1. CASE StopSignal(r)
    BY <1>1, SMTT(60) DEF StopSignal
  <1>2. CASE Crash(r)
    BY <1>2, SMTT(60) DEF Crash, Goto
  <1>3. CASE PdeathKill(r)
    BY <1>3, SMTT(60) DEF PdeathKill, SetGuest
  <1> QED BY <1>1, <1>2, <1>3 DEF OutsideActs

(* The tenancy stays as it is, with what is recorded of the runs. *)
Stays ==
    /\ UNCHANGED <<lock, stopping, live, warned>>
    /\ \A q \in Runs : Stage(q)' = Stage(q)

(* Only r's stage may change. *)
OnlyStage(r) ==
    /\ UNCHANGED <<stopping, live, warned>>
    /\ \A q \in Runs \ {r} : Stage(q)' = Stage(q)

LEMMA Stutters == ASSUME Stays, Place' = Place PROVE UNCHANGED T!vars
  <1>1. [q \in Runs |-> Stage(q)]' = [q \in Runs |-> Stage(q)]
    BY DEF Stays
  <1>2. UNCHANGED <<lock, stopping, live, warned>>
    BY DEF Stays
  <1> QED BY <1>1, <1>2 DEF T!vars

LEMMA StageTurns ==
    ASSUME NEW r \in Runs, NEW from, NEW to, OnlyStage(r), Stage(r) = from, Stage(r)' = to
    PROVE  T!Turns(r, from, to)
  <1> DEFINE stages == [q \in Runs |-> Stage(q)]
  <1>1. stages' = [stages EXCEPT ![r] = to]
    BY DEF OnlyStage
  <1>2. stages[r] = from
    OBVIOUS
  <1> HIDE DEF stages
  <1>3. stages[r] = from /\ stages' = [stages EXCEPT ![r] = to]
    BY <1>1, <1>2
  <1> USE DEF stages
  <1> QED BY <1>3 DEF T!Turns

(* The steps that nobody sees who looks at the tenancy only. *)
QuietSteps(r) ==
    \/ Prepare(r)
    \/ RemoveStart(r, "remove1", "removing1", "destroy1", TRUE)
    \/ AbortLaunch(r)
    \/ WaitExit(r)
    \/ AttacherStopped(r, "stopWait", "remove")
    \/ RemoveStart(r, "remove", "removing", "term", Gone(r))
    \/ SignalLauncher(r)
    \/ LowerTimeout(r)
    \/ AttacherStopped(r, "stopWait2", "decide")
    \/ Decide(r)
    \/ RemoveStart(r, "remove2", "removing2", "destroy2", TRUE)
    \/ AttLock(r)
    \/ AttEnd(r)
    \/ AttRetry(r)
    \/ AttBind(r)
    \/ AttProbeAnswered(r)
    \/ AttProbeTimeout(r)
    \/ WaiterGone(r)
    \/ WaiterSend(r)
    \/ GuestOpen(r)
    \/ GuestReady(r)
    \/ GuestDie(r)
    \/ FdFree(r)
    \/ LauncherReap(r)
    \/ LauncherFail(r)
    \/ StopSignal(r)
    \/ PdeathKill(r)

LEMMA QuietStutters ==
    ASSUME IInv, TenancyInv, NEW r \in Runs, QuietSteps(r)
    PROVE  UNCHANGED T!vars
  <1> SUFFICES Stays /\ Place' = Place
    BY Stutters
  <1> USE RunsAssumption
          DEF Stays, Stage, Place, IInv, TypeOK, OneSupervisor, PhaseInv, StopInv, AfterStop, Quiet, TenancyInv,
              Removing, Before, Setup, Serving, Ending, Locked, Over, HoldsMutex, Gone,
              main, attacher, child, device
  <1>1. CASE Prepare(r)
    BY <1>1, SMTT(60) DEF Prepare, Goto
  <1>2. CASE RemoveStart(r, "remove1", "removing1", "destroy1", TRUE)
    BY <1>2, SMTT(60) DEF RemoveStart, Goto
  <1>3. CASE AbortLaunch(r)
    BY <1>3, SMTT(60) DEF AbortLaunch, Goto
  <1>4. CASE WaitExit(r)
    BY <1>4, SMTT(60) DEF WaitExit, Goto
  <1>5. CASE AttacherStopped(r, "stopWait", "remove")
    BY <1>5, SMTT(60) DEF AttacherStopped, Goto
  <1>6. CASE RemoveStart(r, "remove", "removing", "term", Gone(r))
    BY <1>6, SMTT(60) DEF RemoveStart, Goto
  <1>7. CASE SignalLauncher(r)
    BY <1>7, SMTT(60) DEF SignalLauncher, Goto
  <1>8. CASE LowerTimeout(r)
    BY <1>8, SMTT(60) DEF LowerTimeout, Goto
  <1>9. CASE AttacherStopped(r, "stopWait2", "decide")
    BY <1>9, SMTT(60) DEF AttacherStopped, Goto
  <1>10. CASE Decide(r)
    BY <1>10, SMTT(60) DEF Decide, Goto
  <1>11. CASE RemoveStart(r, "remove2", "removing2", "destroy2", TRUE)
    BY <1>11, SMTT(60) DEF RemoveStart, Goto
  <1>12. CASE AttLock(r)
    BY <1>12, SMTT(60) DEF AttLock, AttacherAt
  <1>13. CASE AttEnd(r)
    BY <1>13, SMTT(60) DEF AttEnd, AttacherAt
  <1>14. CASE AttRetry(r)
    BY <1>14, SMTT(60) DEF AttRetry, AttacherAt
  <1>15. CASE AttBind(r)
    BY <1>15, SMTT(60) DEF AttBind, AttacherAt
  <1>16. CASE AttProbeAnswered(r)
    BY <1>16, SMTT(60) DEF AttProbeAnswered, AttacherAt, AttProbed
  <1>17. CASE AttProbeTimeout(r)
    BY <1>17, SMTT(60) DEF AttProbeTimeout, AttacherAt, AttProbed
  <1>18. CASE WaiterGone(r)
    BY <1>18, SMTT(60) DEF WaiterGone
  <1>19. CASE WaiterSend(r)
    BY <1>19, SMTT(60) DEF WaiterSend
  <1>20. CASE GuestOpen(r)
    BY <1>20, SMTT(60) DEF GuestOpen, SetGuest
  <1>21. CASE GuestReady(r)
    BY <1>21, SMTT(60) DEF GuestReady, SetGuest
  <1>22. CASE GuestDie(r)
    BY <1>22, SMTT(60) DEF GuestDie, SetGuest
  <1>23. CASE FdFree(r)
    BY <1>23, SMTT(60) DEF FdFree
  <1>24. CASE LauncherReap(r)
    BY <1>24, SMTT(60) DEF LauncherReap
  <1>25. CASE LauncherFail(r)
    BY <1>25, SMTT(60) DEF LauncherFail, SetGuest
  <1>26. CASE StopSignal(r)
    BY <1>26, SMTT(60) DEF StopSignal
  <1>27. CASE PdeathKill(r)
    BY <1>27, SMTT(60) DEF PdeathKill, SetGuest
  <1> QED BY <1>1, <1>2, <1>3, <1>4, <1>5, <1>6, <1>7, <1>8, <1>9, <1>10, <1>11, <1>12, <1>13, <1>14, <1>15, <1>16, <1>17, <1>18, <1>19, <1>20, <1>21, <1>22, <1>23, <1>24, <1>25, <1>26, <1>27 DEF QuietSteps

(* A step that takes the lock, leaves it, launches, stops the attacher or     *)
(* ends the run turns the run's stage.                                       *)
LEMMA TurnsFacts ==
    ASSUME IInv, TenancyInv, NEW r \in Runs,
           \/ Begin(r) \/ LockDevice(r) \/ Launch(r) \/ Unlock(r)
           \/ StopAttacher(r, "stopAtt", "stopWait") \/ StopAttacher(r, "stopAtt2", "stopWait2")
    PROVE  OnlyStage(r) /\ Place' = Place
  <1> USE DEF IInv, TypeOK, OnlyStage, Stage, Place, Goto, main, attacher, child, device
  <1>1. CASE Begin(r)
    BY <1>1 DEF Begin
  <1>2. CASE LockDevice(r)
    BY <1>2 DEF LockDevice
  <1>3. CASE Launch(r)
    BY <1>3 DEF Launch
  <1>4. CASE Unlock(r)
    BY <1>4 DEF Unlock
  <1>5. CASE StopAttacher(r, "stopAtt", "stopWait") \/ StopAttacher(r, "stopAtt2", "stopWait2")
    BY <1>5 DEF StopAttacher
  <1> QED BY <1>1, <1>2, <1>3, <1>4, <1>5

LEMMA EnterStep ==
    ASSUME IInv, TenancyInv, NEW r \in Runs, Begin(r) \/ LockDevice(r)
    PROVE  T!Enter(r) \/ T!TurnedAway(r) \/ UNCHANGED T!vars
  <1>1. OnlyStage(r) /\ Place' = Place
    BY TurnsFacts
  <1>2. UNCHANGED <<stopping, live, warned>>
    BY <1>1 DEF OnlyStage
  <1>3. Stage(r) = "new"
    BY DEF Begin, LockDevice, Stage, Before, Setup, Serving, Ending
  <1>4. CASE lock' = lock /\ pc'[r] = "done"
    <2>1. Stage(r)' = "gone"
      BY <1>4 DEF Stage, Before, Setup, Serving, Ending
    <2>2. T!Turns(r, "new", "gone")
      BY <1>1, <1>3, <2>1, StageTurns
    <2> QED BY <1>1, <1>2, <1>4, <2>2 DEF T!TurnedAway
  <1>5. CASE lock' = lock /\ pc'[r] = "locking"
    <2>1. Stage(r)' = "new"
      BY <1>5 DEF Stage, Before, Setup, Serving, Ending
    <2>2. Stays
      BY <1>1, <1>3, <1>5, <2>1 DEF Stays, OnlyStage
    <2> QED BY <1>1, <2>2, Stutters
  <1>6. CASE lock = NoRun /\ lock' = r /\ pc'[r] = "prepare"
    <2>1. Stage(r)' = "setup"
      BY <1>6 DEF Stage, Before, Setup, Serving, Ending
    <2>2. T!Turns(r, "new", "setup")
      BY <1>1, <1>3, <2>1, StageTurns
    <2> QED BY <1>1, <1>2, <1>6, <2>2 DEF T!Enter
  <1> QED BY <1>4, <1>5, <1>6 DEF Begin, LockDevice, Goto, IInv, TypeOK

LEMMA ServeStep ==
    ASSUME IInv, TenancyInv, NEW r \in Runs, Launch(r)
    PROVE  T!Serve(r)
  <1>1. OnlyStage(r) /\ Place' = Place /\ UNCHANGED <<lock, stopping, live, warned>>
    BY TurnsFacts DEF OnlyStage, Launch
  <1>2. lock = r
    BY DEF Launch, IInv, OneSupervisor, Locked, Setup
  <1>3. Stage(r) = "setup"
    BY DEF Launch, Stage, Before, Setup, Serving, Ending
  <1>4. Stage(r)' = "serving"
    BY DEF Launch, Goto, Stage, Before, Setup, Serving, Ending, IInv, TypeOK, TenancyInv
  <1>5. T!Turns(r, "setup", "serving")
    BY <1>1, <1>3, <1>4, StageTurns
  <1> QED BY <1>1, <1>2, <1>5 DEF T!Serve

(* attacher.stop closes the tenancy, the first time. *)
LEMMA CloseStep ==
    ASSUME IInv, TenancyInv, NEW r \in Runs,
           \/ StopAttacher(r, "stopAtt", "stopWait")
           \/ StopAttacher(r, "stopAtt2", "stopWait2")
    PROVE  T!Close(r) \/ UNCHANGED T!vars
  <1>1. OnlyStage(r) /\ Place' = Place /\ UNCHANGED <<lock, stopping, live, warned>>
    BY TurnsFacts DEF OnlyStage, StopAttacher
  <1>2. lock = r
    BY DEF StopAttacher, IInv, OneSupervisor, Locked, Serving, Ending
  <1>3. Stage(r) = IF stopped[r] THEN "closing" ELSE "serving"
    BY DEF StopAttacher, Stage, Before, Setup, Serving, Ending
  <1>4. Stage(r)' = "closing"
    BY DEF StopAttacher, Goto, Stage, Before, Setup, Serving, Ending, IInv, TypeOK
  <1>5. CASE stopped[r]
    <2>1. Stays
      BY <1>1, <1>3, <1>4, <1>5 DEF Stays, OnlyStage
    <2> QED BY <1>1, <2>1, Stutters
  <1>6. CASE ~stopped[r]
    <2>1. T!Turns(r, "serving", "closing")
      BY <1>1, <1>3, <1>4, <1>6, StageTurns
    <2> QED BY <1>1, <1>2, <2>1 DEF T!Close
  <1> QED BY <1>5, <1>6

(* What a run that served its guest leaves is what KeptOnlyIfLive says.      *)
LEMMA LeaveStep ==
    ASSUME IInv, TenancyInv, NEW r \in Runs, Unlock(r)
    PROVE  T!Leave(r) \/ T!GiveUp(r)
  <1>1. OnlyStage(r) /\ Place' = Place /\ lock' = NoRun /\ UNCHANGED <<stopping, live, warned>>
    BY TurnsFacts DEF OnlyStage, Unlock
  <1>2. lock = r
    BY DEF Unlock, IInv, OneSupervisor, Locked
  <1>3. Stage(r) = IF waiter[r] = "taken" THEN "closing" ELSE "setup"
    BY DEF Unlock, Stage, Before, Setup, Serving, Ending
  <1>4. Stage(r)' = "gone"
    BY DEF Unlock, Goto, Stage, Before, Setup, Serving, Ending, IInv, TypeOK
  <1>5. CASE waiter[r] # "taken"
    <2>1. T!Turns(r, "setup", "gone")
      BY <1>1, <1>3, <1>4, <1>5, StageTurns
    <2> QED BY <1>1, <1>2, <2>1 DEF T!GiveUp
  <1>6. CASE waiter[r] = "taken"
    <2>1. T!Turns(r, "closing", "gone")
      BY <1>1, <1>3, <1>4, <1>6, StageTurns
    <2>2. dev = "absent" \/ warned[r] \/ (dev = "bus" /\ live[r] /\ ~stopping[r] /\ ~Wlan)
      BY <1>6 DEF Unlock, RunEnded, IInv, KeptOnlyIfLive
    <2>3. \/ Place = "none"
          \/ r \in {q \in Runs : warned[q]}
          \/ Place = "bus" /\ r \in {q \in Runs : live[q]} /\ r \notin {q \in Runs : stopping[q]} /\ ~Wlan
      BY <2>2 DEF Place
    <2> QED BY <1>1, <1>2, <2>1, <2>3 DEF T!Leave
  <1> QED BY <1>5, <1>6

(* A signal is taken while the guest is served, or right after.              *)
LEMMA ToldStep ==
    ASSUME IInv, TenancyInv, NEW r \in Runs, WaitSignal(r) \/ LateSignal(r)
    PROVE  T!ToldToStop(r) \/ UNCHANGED T!vars
  <1> DEFINE stages == [q \in Runs |-> Stage(q)]
  <1>1. /\ \A q \in Runs : Stage(q)' = Stage(q)
        /\ Stage(r) \in {"serving", "closing"}
        /\ Place' = Place /\ UNCHANGED <<lock, live, warned>>
    BY DEF WaitSignal, LateSignal, Goto, Stage, Place, Before, Setup, Serving, Ending,
           IInv, TypeOK, PhaseInv, attacher, child, device
  <1>2. lock = r
    BY DEF WaitSignal, LateSignal, IInv, OneSupervisor, Locked, Serving, Ending
  <1>3. stages' = stages /\ stages[r] \in {"serving", "closing"}
    BY <1>1
  <1> HIDE DEF stages
  <1>4. CASE stopping' = [stopping EXCEPT ![r] = TRUE]
    <2>1. {q \in Runs : stopping[q]}' = {q \in Runs : stopping[q]} \cup {r}
      BY <1>4 DEF IInv, TypeOK
    <2> USE DEF stages
    <2> QED BY <1>1, <1>2, <1>3, <2>1 DEF T!ToldToStop
  <1>5. CASE UNCHANGED stopping
    BY <1>1, <1>5, Stutters DEF Stays
  <1> QED BY <1>4, <1>5 DEF WaitSignal, LateSignal

(* The three removals and the two ends of a device are clean-ups of its      *)
(* tenant: it has closed, or has not yet served a wlan device.               *)
CleanSteps(r) ==
    \/ RemoveEnd(r, "removing1", "destroy1") \/ Destroy(r, "destroy1", "launch")
    \/ RemoveEnd(r, "removing", "term")
    \/ RemoveEnd(r, "removing2", "destroy2") \/ Destroy(r, "destroy2", "unlock")

CleanPlaces == {"removing1", "destroy1", "removing", "removing2", "destroy2"}

LEMMA CleanerInv ==
    ASSUME IInv, TenancyInv, NEW r \in Runs, pc[r] \in CleanPlaces
    PROVE  /\ lock = r
           /\ Stage(r) = "closing" \/ (Stage(r) = "setup" /\ Wlan)
  <1>1. lock = r
    BY DEF IInv, OneSupervisor, CleanPlaces, Locked, Setup, Serving, Ending
  <1>2. pc[r] \in {"removing", "removing2", "destroy2"} => stopped[r]
    BY DEF IInv, StopInv, AfterStop, Quiet
  <1>3. Stage(r) = "closing" \/ (Stage(r) = "setup" /\ Wlan)
    BY <1>2 DEF TenancyInv, CleanPlaces, Stage, Before, Setup, Serving, Ending
  <1> QED BY <1>1, <1>3

LEMMA CleanStep ==
    ASSUME IInv, TenancyInv, NEW r \in Runs, CleanSteps(r)
    PROVE  T!CleanUp(r)
  <1> DEFINE stages == [q \in Runs |-> Stage(q)]
  <1>1. pc[r] \in CleanPlaces
    BY DEF CleanSteps, RemoveEnd, Destroy, CleanPlaces
  <1>2. /\ lock = r
        /\ stages[r] = "closing" \/ (stages[r] = "setup" /\ Wlan)
    BY <1>1, CleanerInv
  <1>3. \A q \in Runs : Stage(q)' = Stage(q)
    <2>1. /\ pc' = [pc EXCEPT ![r] = pc'[r]] /\ UNCHANGED <<waiter, stopped>>
          /\ \/ pc[r] \in {"removing1", "destroy1"} /\ pc'[r] \in Setup
             \/ pc[r] \in {"removing", "removing2"} /\ pc'[r] \in {"term", "destroy2"}
             \/ pc[r] = "destroy2" /\ pc'[r] = "unlock"
      BY DEF CleanSteps, RemoveEnd, Destroy, Goto, Setup, IInv, TypeOK, attacher, child
    <2>2. ASSUME NEW q \in Runs \ {r} PROVE Stage(q)' = Stage(q)
      BY <2>1 DEF Stage, IInv, TypeOK
    <2>3. Stage(r)' = Stage(r)
      <3>1. pc[r] \in {"removing", "removing2", "destroy2"} => stopped[r]
        BY DEF IInv, StopInv, AfterStop, Quiet
      <3>2. pc[r] = "destroy2" => waiter[r] = "taken"
        BY DEF IInv, PhaseInv, Ending
      <3> QED BY <2>1, <3>1, <3>2 DEF Stage, Before, Setup, Serving, Ending
    <2> QED BY <2>2, <2>3
  <1>4. stages' = stages /\ UNCHANGED <<lock, stopping, live>>
    BY <1>3 DEF CleanSteps, RemoveEnd, Destroy, main, attacher
  <1>5. \/ Place' = (IF Place = "bus" THEN "off" ELSE "none") /\ warned' = warned
        \/ Place' = Place /\ warned' = [warned EXCEPT ![r] = TRUE]
    BY DEF CleanSteps, RemoveEnd, Destroy, Vanish, Place, TenancyInv, Removing
  <1>6. warned' = [warned EXCEPT ![r] = TRUE]
            => {q \in Runs : warned[q]}' = {q \in Runs : warned[q]} \cup {r}
    BY DEF IInv, TypeOK
  <1> QED BY <1>2, <1>4, <1>5, <1>6 DEF T!CleanUp, T!Cleans, T!CleanedUp

(* A kill ends a tenancy; a removal in progress may still finish. *)
LEMMA KilledStep ==
    ASSUME IInv, TenancyInv, NEW r \in Runs, Crash(r)
    PROVE  T!Killed(r)
  <1> DEFINE stages == [q \in Runs |-> Stage(q)]
  <1>1. lock = r /\ lock' = NoRun /\ UNCHANGED <<stopping, live, warned>>
    BY DEF Crash, IInv, OneSupervisor
  <1>2. stages' = [stages EXCEPT ![r] = "killed"]
    <2>1. /\ pc' = [pc EXCEPT ![r] = "crashed"] /\ UNCHANGED <<waiter, stopped>>
      BY DEF Crash, Goto, child
    <2>2. ASSUME NEW q \in Runs \ {r} PROVE Stage(q)' = Stage(q)
      BY <2>1 DEF Stage, IInv, TypeOK
    <2>3. Stage(r)' = "killed"
      BY <2>1 DEF Stage, Before, Setup, Serving, Ending, IInv, TypeOK
    <2> QED BY <2>2, <2>3
  <1>3. CASE dev' = dev
    <2>1. Place' = Place
      BY <1>3 DEF Place
    <2> QED BY <1>1, <1>2, <2>1 DEF T!Killed
  <1>4. CASE pc[r] \in Removing /\ dev' = "ready"
    <2>1. Place = "bus" /\ Place' = "off"
      BY <1>4 DEF Place, TenancyInv
    <2>2. stages[r] = "closing" \/ (stages[r] = "setup" /\ Wlan)
      BY <1>4, CleanerInv DEF Removing, CleanPlaces
    <2> QED BY <1>1, <1>2, <2>1, <2>2 DEF T!Killed, T!Cleans, T!CleanedUp
  <1> QED BY <1>3, <1>4 DEF Crash, Removing

(* The attacher works for a tenant that has not closed. *)
LEMMA AttacherTenancyStep ==
    ASSUME IInv, TenancyInv, NEW r \in Runs, AttAdd(r) \/ AttLive(r)
    PROVE  T!Attach(r) \/ T!See(r) \/ UNCHANGED T!vars
  <1> DEFINE stages == [q \in Runs |-> Stage(q)]
  <1>1. att[r] \in HoldsMutex
    BY DEF AttAdd, AttLive, AttacherAt, HoldsMutex
  <1>2. lock = r /\ pc[r] \in Serving \cup Ending /\ ~stopped[r]
    BY <1>1 DEF IInv, OneSupervisor, PhaseInv, TenancyInv, HoldsMutex, Locked
  <1>3. stages[r] = "serving"
    BY <1>2 DEF Stage, Before, Setup, Serving, Ending
  <1>4. UNCHANGED <<pc, waiter, stopped, lock, stopping, warned>>
    BY DEF AttAdd, AttLive, main, child
  <1>5. stages' = stages /\ \A q \in Runs : Stage(q)' = Stage(q)
    BY <1>4 DEF Stage
  <1>6. CASE AttAdd(r)
    <2>1. Place = "off" /\ Place' = "bus" /\ UNCHANGED live
      BY <1>6 DEF AttAdd, Place
    <2> QED BY <1>2, <1>3, <1>4, <1>5, <2>1 DEF T!Attach
  <1>7. CASE AttLive(r)
    <2>1. dev = "bus" /\ ~live[r] /\ UNCHANGED dev
      BY <1>2, <1>7 DEF AttLive, AttacherAt, IInv, BindInv, Locked, device
    <2>2. Place = "bus" /\ Place' = Place
      BY <2>1 DEF Place
    <2>3. CASE live' = [live EXCEPT ![r] = TRUE]
      <3>1. {q \in Runs : live[q]}' = {q \in Runs : live[q]} \cup {r}
        BY <2>3 DEF IInv, TypeOK
      <3> QED BY <1>2, <1>3, <1>4, <1>5, <2>2, <3>1 DEF T!See
    <2>4. CASE live' = [live EXCEPT ![r] = FALSE]
      <3>1. live' = live
        BY <2>1, <2>4 DEF IInv, TypeOK
      <3> QED BY <1>4, <1>5, <2>2, <3>1, Stutters DEF Stays
    <2> QED BY <1>7, <2>3, <2>4 DEF AttLive, Gone
  <1> QED BY <1>6, <1>7

(* Only the tenant's guest, or one whose supervisor was killed while nobody  *)
(* has entered since, makes the device or destroys it.                       *)
LEMMA GuestTenancyStep ==
    ASSUME IInv, TenancyInv, NEW r \in Runs, GuestCreate(r) \/ GuestHalt(r) \/ LauncherEnd(r)
    PROVE  T!Make \/ T!Unmake \/ UNCHANGED T!vars
  <1> DEFINE stages == [q \in Runs |-> Stage(q)]
  <1>1. launcher[r] \in {"running", "ending"}
    BY DEF GuestCreate, GuestHalt, LauncherEnd, Alive, IInv, ChildInv
  <1>2. pc[r] \in Serving \/ (pc[r] = "crashed" /\ lock = NoRun)
    BY <1>1 DEF IInv, ChildInv
  <1>3. T!HasGuest
    <2>1. CASE pc[r] \in Serving
      <3>1. lock = r
        BY <2>1 DEF IInv, OneSupervisor, Locked
      <3>2. stages[r] \in {"serving", "closing"}
        BY <2>1 DEF Stage, Before, Setup, Serving, Ending
      <3> QED BY <3>1, <3>2, RunsAssumption DEF T!HasGuest
    <2>2. CASE pc[r] = "crashed" /\ lock = NoRun
      <3>1. stages[r] = "killed"
        BY <2>2 DEF Stage, Before, Setup, Serving, Ending
      <3> QED BY <2>2, <3>1 DEF T!HasGuest
    <2> QED BY <1>2, <2>1, <2>2
  <1>4. UNCHANGED <<pc, waiter, stopped, lock, stopping, live, warned>>
    BY DEF GuestCreate, GuestHalt, LauncherEnd, main, attacher, child
  <1>5. stages' = stages /\ \A q \in Runs : Stage(q)' = Stage(q)
    BY <1>4 DEF Stage
  <1>6. \/ Place = "none" /\ Place' = "off"
        \/ Place = "off" /\ Place' = "none"
        \/ Place' = Place
    BY DEF GuestCreate, GuestHalt, LauncherEnd, Vanish, Place, device
  <1>7. CASE Place' = Place
    BY <1>4, <1>5, <1>7, Stutters DEF Stays
  <1>8. CASE (Place = "none" /\ Place' = "off") \/ (Place = "off" /\ Place' = "none")
    BY <1>3, <1>4, <1>5, <1>8 DEF T!Make, T!Unmake
  <1> QED BY <1>6, <1>7, <1>8

(* Every step is one of DeviceTenancy, or changes nothing there. *)
LEMMA TenancyStep ==
    ASSUME IInv, TenancyInv, Next
    PROVE  T!Next \/ UNCHANGED T!vars
  <1>1. PICK r \in Runs : \/ SetupActs(r) \/ LoopActs(r) \/ EndActs(r)
                          \/ AttacherActs(r) \/ ChildActs(r) \/ OutsideActs(r)
    BY NextCases
  <1>2. \/ QuietSteps(r) \/ Begin(r) \/ LockDevice(r) \/ Launch(r) \/ Unlock(r)
        \/ StopAttacher(r, "stopAtt", "stopWait") \/ StopAttacher(r, "stopAtt2", "stopWait2")
        \/ WaitSignal(r) \/ LateSignal(r) \/ CleanSteps(r) \/ Crash(r)
        \/ AttAdd(r) \/ AttLive(r) \/ GuestCreate(r) \/ GuestHalt(r) \/ LauncherEnd(r)
    BY <1>1, Zenon DEF SetupActs, LoopActs, EndActs, AttacherActs, ChildActs, OutsideActs,
                       QuietSteps, CleanSteps
  <1>3. \/ T!Enter(r) \/ T!TurnedAway(r) \/ T!GiveUp(r) \/ T!Serve(r)
        \/ T!ToldToStop(r) \/ T!Close(r) \/ T!Leave(r) \/ T!Killed(r)
        \/ T!Attach(r) \/ T!See(r) \/ T!CleanUp(r) \/ T!Make \/ T!Unmake
        \/ UNCHANGED T!vars
    BY <1>2, QuietStutters, EnterStep, ServeStep, CloseStep, LeaveStep, ToldStep, CleanStep,
       KilledStep, AttacherTenancyStep, GuestTenancyStep
  <1> QED BY <1>3, Zenon DEF T!Next

(* The supervisors of a device implement DeviceTenancy, however many there    *)
(* are, whatever their guests do and whichever of them is killed: they have  *)
(* it one after the other, nobody but the tenant and its guest moves it,     *)
(* nothing attaches it after attacher.stop, and what a tenant leaves without *)
(* a warning is nothing, or a net device that it saw live on the bus.        *)
THEOREM DeviceHasOneTenant == Spec => Tenancy
  <1>1. Init => TenancyInv
    BY DEF Init, TenancyInv, HoldsMutex, Removing
  <1>2. IInv /\ TenancyInv /\ [Next]_vars => TenancyInv'
    <2> SUFFICES ASSUME IInv, TenancyInv, [Next]_vars PROVE TenancyInv'
      OBVIOUS
    <2>1. CASE Next
      BY <2>1, NextCases, SetupTenancy, LoopTenancy, EndTenancy, AttacherTenancy,
         ChildTenancy, OutsideTenancy
    <2>2. CASE UNCHANGED vars
      BY <2>2 DEF vars, main, attacher, child, device, TenancyInv
    <2> QED BY <2>1, <2>2
  <1>3. Init => T!Init
    BY DEF Init, T!Init, Stage, Place, Before, Setup, Serving, Ending
  <1>4. IInv /\ TenancyInv /\ [Next]_vars => [T!Next]_T!vars
    <2> SUFFICES ASSUME IInv, TenancyInv, [Next]_vars, ~Next PROVE UNCHANGED T!vars
      BY TenancyStep
    <2>1. /\ UNCHANGED <<pc, waiter, stopped, lock, stopping, live, warned, dev>>
      BY DEF vars, main, attacher, child, device
    <2>2. Stays /\ Place' = Place
      BY <2>1 DEF Stays, Stage, Place
    <2> QED BY <2>2, Stutters
  <1> QED BY <1>1, <1>2, <1>3, <1>4, Invariance, PTL DEF Spec, Tenancy, T!Spec
=============================================================================
