-------------------------- MODULE CvpInst_proofs --------------------------
(***************************************************************************)
(* Proofs about CvpInst, for any number of instances and threads:          *)
(* core->state does not claim a device that is down, because core->lock is *)
(* held throughout a restart, and a restart is not undone.                 *)
(***************************************************************************)
EXTENDS CvpInst, TLAPS

(* The labels at which a thread owns core->lock. *)
HoldsCore == {"core_wait", "invalidate"}

Whys == {"none", "open", "create", "undo", "deinit", "uninit", "init", "end"}
Nexts == {"none", "fail", "core_done", "open_session", "open_done",
          "close_session", "close_done", "close_clean"}
Rcs == {"ok", "err", "timeout", "reset"}
Job == [inst : Threads, why : Whys, flip : 0 .. 9, next : Nexts, rc : Rcs]

(* Types of the control state.  A thread that is not idle works on an      *)
(* instance, unless it is the one that reports system errors.              *)
Control ==
    /\ pc = [t \in Threads |-> pc[t]]
    /\ job \in [Threads -> Job]
    /\ state \in [Insts -> 1 .. 9]
    /\ \A t \in Threads :
         t = "wdog" \/ pc[t] = "idle" \/ job[t].inst \in Insts

(* core->lock is owned by the thread that is at one of these labels. *)
CoreLockOwned ==
    \A t \in Threads : pc[t] \in HoldsCore <=> core_lock = t

(* core->state stays UNINIT until handle_sys_error lets core->lock go. *)
RestartIsUninit ==
    \A t \in Threads : pc[t] = "invalidate" => core_state = "UNINIT"

LockInv == /\ CoreLockOwned
           /\ RestartIsUninit
           /\ fooled \in BOOLEAN /\ dev_up \in BOOLEAN
           /\ CoreStateHonest

IInv == Control /\ LockInv

(* The variables of the core that most steps leave alone. *)
core == <<core_lock, core_state, dev_up, fooled>>

(* A step of t that ends at a label without core->lock, and began at one,  *)
(* keeps the invariant if it leaves the core alone.                        *)
LEMMA QuietStep ==
    ASSUME LockInv, Control, UNCHANGED core
    PROVE  \A label : \A t \in Threads :
             /\ pc[t] \notin HoldsCore /\ label \notin HoldsCore
             /\ pc' = [pc EXCEPT ![t] = label]
             => LockInv'
<1> TAKE label
<1> TAKE t \in Threads
<1> HAVE /\ pc[t] \notin HoldsCore /\ label \notin HoldsCore
         /\ pc' = [pc EXCEPT ![t] = label]
<1>1. \A u \in Threads : pc'[u] = IF u = t THEN label ELSE pc[u]
  BY DEF Control
<1>2. CoreLockOwned'
  BY <1>1 DEF LockInv, CoreLockOwned, core
<1>3. RestartIsUninit'
  BY <1>1 DEF LockInv, RestartIsUninit, core, HoldsCore
<1>4. CoreStateHonest' /\ fooled' \in BOOLEAN /\ dev_up' \in BOOLEAN
  BY DEF LockInv, CoreStateHonest, core
<1> QED BY <1>2, <1>3, <1>4 DEF LockInv

(* change_cvp_inst_state keeps the type of inst->state. *)
LEMMA ChangeStateType ==
    ASSUME state \in [Insts -> 1 .. 9]
    PROVE  \A i, s : s \in 1 .. 9 /\ ChangeState(i, s)
                        => state' \in [Insts -> 1 .. 9]
BY DEF ChangeState, INVALID

(* The control of a step of t that sets its arguments to j. *)
LEMMA ControlStep ==
    ASSUME Control, state' \in [Insts -> 1 .. 9]
    PROVE  \A label : \A t \in Threads, j \in Job :
             /\ pc' = [pc EXCEPT ![t] = label]
             /\ job' = [job EXCEPT ![t] = j]
             /\ t = "wdog" \/ label = "idle" \/ j.inst \in Insts
             => Control'
BY DEF Control

(* The same for a step that leaves its arguments alone. *)
LEMMA GotoControl ==
    ASSUME Control, state' \in [Insts -> 1 .. 9], UNCHANGED job
    PROVE  \A label : \A t \in Threads :
             (t = "wdog" \/ pc[t] # "idle") /\ Goto(t, label) => Control'
BY DEF Control, Goto

(* Updates of the arguments of a thread. *)
LEMMA JobUpdate ==
    ASSUME NEW r \in Job
    PROVE  /\ \A rc \in Rcs : [r EXCEPT !.rc = rc] \in Job
           /\ \A next \in Nexts : [r EXCEPT !.next = next] \in Job
           /\ \A why \in Whys : [r EXCEPT !.why = why] \in Job
           /\ \A n \in 0 .. 9 : [r EXCEPT !.flip = n] \in Job
BY DEF Job

(* The same for a handler that ends, with Then. *)
LEMMA ThenControl ==
    ASSUME Control, state' \in [Insts -> 1 .. 9]
    PROVE  \A t \in Threads, rc \in Rcs, next \in Nexts :
             pc[t] # "idle" /\ Then(t, rc, next) => Control'
<1> TAKE t \in Threads, rc \in Rcs, next \in Nexts
<1> HAVE pc[t] # "idle" /\ Then(t, rc, next)
<1>1. pc' = [pc EXCEPT ![t] = "check"]
  BY DEF Then, Goto
<1>2. job' = [job EXCEPT ![t] = [[job[t] EXCEPT !.rc = rc] EXCEPT !.next = next]]
  BY DEF Then, Control
<1>3. [job[t] EXCEPT !.rc = rc] \in Job
  BY JobUpdate DEF Control
<1>4. [[job[t] EXCEPT !.rc = rc] EXCEPT !.next = next] \in Job
  BY <1>3, JobUpdate
<1>a. [[job[t] EXCEPT !.rc = rc] EXCEPT !.next = next].inst = job[t].inst
  BY DEF Control, Job
<1>5. PICK j \in Job : /\ job' = [job EXCEPT ![t] = j]
                       /\ j.inst = job[t].inst
  BY <1>2, <1>4, <1>a
<1>6. t = "wdog" \/ job[t].inst \in Insts
  BY DEF Control
<1> QED BY <1>1, <1>5, <1>6, ControlStep

(* The same for a call that has returned. *)
LEMMA ReturnControl ==
    ASSUME Control, state' \in [Insts -> 1 .. 9]
    PROVE  \A label : \A t \in Threads, i \in Insts :
             Return(t, i, label) => Control'
<1> TAKE label
<1> TAKE t \in Threads, i \in Insts
<1> HAVE Return(t, i, label)
<1>1. \A k \in Threads : NoJob(k) \in Job /\ NoJob(k).inst = k
  BY DEF NoJob, Job, Whys, Nexts, Rcs
<1>2. i \in Threads
  BY DEF Threads
<1> QED BY <1>1, <1>2, ControlStep DEF Return, Goto

(* The same for a call of msm_cvp_comm_try_state. *)
LEMMA CallTryControl ==
    ASSUME Control, state' \in [Insts -> 1 .. 9]
    PROVE  \A t \in Threads, i \in Insts, why \in Whys :
             CallTry(t, i, why) => Control'
<1> TAKE t \in Threads, i \in Insts, why \in Whys
<1> HAVE CallTry(t, i, why)
<1>0. i \in Threads
  BY DEF Threads
<1>1. /\ [NoJob(i) EXCEPT !.why = why] \in Job
      /\ [NoJob(i) EXCEPT !.why = why].inst = i
  BY <1>0 DEF NoJob, Job, Whys, Nexts, Rcs
<1> QED BY <1>1, ControlStep DEF CallTry, Goto

-----------------------------------------------------------------------------
(* The ways a step of t can end, when it leaves the core alone. *)

(* It goes on at a label, with the same arguments. *)
LEMMA QuietGoto ==
    ASSUME IInv, UNCHANGED <<core, job>>, state' \in [Insts -> 1 .. 9]
    PROVE  \A label : \A t \in Threads :
             /\ pc[t] \notin HoldsCore \cup {"idle"} /\ label \notin HoldsCore
             /\ Goto(t, label)
             => IInv'
BY QuietStep, GotoControl DEF IInv, Goto

(* A handler ends. *)
LEMMA QuietThen ==
    ASSUME IInv, UNCHANGED core, state' \in [Insts -> 1 .. 9]
    PROVE  \A t \in Threads, rc \in Rcs, next \in Nexts :
             pc[t] \notin HoldsCore \cup {"idle"} /\ Then(t, rc, next) => IInv'
<1> TAKE t \in Threads, rc \in Rcs, next \in Nexts
<1> HAVE pc[t] \notin HoldsCore \cup {"idle"} /\ Then(t, rc, next)
<1>1. Control'
  BY ThenControl DEF IInv
<1>2. pc' = [pc EXCEPT ![t] = "check"] /\ "check" \notin HoldsCore
  BY DEF Then, Goto, HoldsCore
<1> QED BY <1>1, <1>2, QuietStep DEF IInv

(* A call returns. *)
LEMMA QuietReturn ==
    ASSUME IInv, UNCHANGED core, state' \in [Insts -> 1 .. 9]
    PROVE  \A label : \A t \in Threads, i \in Insts :
             /\ pc[t] \notin HoldsCore /\ label \notin HoldsCore
             /\ Return(t, i, label)
             => IInv'
<1> TAKE label
<1> TAKE t \in Threads, i \in Insts
<1> HAVE /\ pc[t] \notin HoldsCore /\ label \notin HoldsCore
         /\ Return(t, i, label)
<1>1. Control'
  BY ReturnControl DEF IInv
<1>2. pc' = [pc EXCEPT ![t] = label]
  BY DEF Return, Goto
<1> QED BY <1>1, <1>2, QuietStep DEF IInv

(* msm_cvp_comm_try_state is called. *)
LEMMA QuietCallTry ==
    ASSUME IInv, UNCHANGED core, state' \in [Insts -> 1 .. 9]
    PROVE  \A t \in Threads, i \in Insts, why \in Whys :
             pc[t] \notin HoldsCore /\ CallTry(t, i, why) => IInv'
<1> TAKE t \in Threads, i \in Insts, why \in Whys
<1> HAVE pc[t] \notin HoldsCore /\ CallTry(t, i, why)
<1>1. Control'
  BY CallTryControl DEF IInv
<1>2. pc' = [pc EXCEPT ![t] = "try"] /\ "try" \notin HoldsCore
  BY DEF CallTry, Goto, HoldsCore
<1> QED BY <1>1, <1>2, QuietStep DEF IInv

(* cvp_put_inst. *)
LEMMA QuietPut ==
    ASSUME IInv, UNCHANGED core, state' \in [Insts -> 1 .. 9]
    PROVE  \A label : \A t \in Threads, i \in Insts :
             /\ pc[t] \notin HoldsCore /\ label \notin HoldsCore
             /\ PutInst(t, i, label)
             => IInv'
<1> TAKE label
<1> TAKE t \in Threads, i \in Insts
<1> HAVE /\ pc[t] \notin HoldsCore /\ label \notin HoldsCore
         /\ PutInst(t, i, label)
<1>1. "destroy" \notin HoldsCore
  BY DEF HoldsCore
<1> QED BY <1>1, QuietReturn DEF PutInst

-----------------------------------------------------------------------------
(* What the invariant gives for the arguments of a thread. *)
LEMMA JobType ==
    ASSUME IInv
    PROVE  /\ \A t \in Threads : job[t] \in Job /\ job[t].inst \in Threads
           /\ \A t \in Threads :
                t = "wdog" \/ pc[t] = "idle" \/ job[t].inst \in Insts
           /\ state \in [Insts -> 1 .. 9]
BY DEF IInv, Control, Job

(* Freeing an instance keeps the invariant. *)
LEMMA DestroyKeeps ==
    ASSUME IInv, NEW t \in Threads, t # "wdog", Destroy(t)
    PROVE  IInv'
<1>0. job[t].inst \in Insts
  BY JobType DEF Destroy, DestroyUnlink, DestroyFree
<1>1. CASE DestroyUnlink(t)
  <2>1. UNCHANGED <<core, job>> /\ state' \in [Insts -> 1 .. 9]
    BY <1>1, JobType DEF DestroyUnlink, core, coreVars, lockVars
  <2>2. /\ pc[t] \notin HoldsCore \cup {"idle"} /\ "free" \notin HoldsCore
        /\ Goto(t, "free")
    BY <1>1 DEF DestroyUnlink, HoldsCore
  <2> QED BY <2>1, <2>2, QuietGoto
<1>2. CASE DestroyFree(t)
  <2>1. UNCHANGED core /\ state' \in [Insts -> 1 .. 9]
    BY <1>2, JobType DEF DestroyFree, core, coreVars, lockVars
  <2>2. pc[t] \notin HoldsCore /\ Home(t) \notin HoldsCore
    BY <1>2 DEF DestroyFree, HoldsCore, Home
  <2> QED BY <1>0, <1>2, <2>1, <2>2, QuietReturn DEF DestroyFree
<1> QED BY <1>1, <1>2 DEF Destroy

(* Opening and closing an instance, but for the calls of try_state. *)
LEMMA OwnerKeeps ==
    ASSUME IInv, NEW i \in Insts,
           OpenCount(i) \/ OpenAdd(i) \/ CloseStart(i) \/ CloseStep(i)
    PROVE  IInv'
<1>0. i \in Threads
  BY DEF Threads
<1>1. UNCHANGED core
  BY DEF OpenCount, OpenAdd, CloseStart, CloseStep, CloseRaw, CleanupGet,
         CleanupPut, CloseDeinit, CloseUninit, CloseDeinitCore, FinalClean,
         FinalPut, core, coreVars, lockVars
<1>2. pc[i] \notin HoldsCore
  BY DEF OpenCount, OpenAdd, CloseStart, CloseStep, CloseRaw, CleanupGet,
         CleanupPut, CloseDeinit, CloseUninit, CloseDeinitCore, FinalClean,
         FinalPut, HoldsCore
<1>3. state' \in [Insts -> 1 .. 9]
  <2>1. CASE CloseRaw(i)
    BY <2>1, JobType DEF CloseRaw, CORE_UNINIT
  <2>2. CASE CloseDeinitCore(i)
    BY <2>2, JobType, ChangeStateType DEF CloseDeinitCore, CORE_UNINIT
  <2>3. CASE UNCHANGED state
    BY <2>3, JobType
  <2> QED BY <2>1, <2>2, <2>3 DEF OpenCount, OpenAdd, CloseStart, CloseStep,
         CleanupGet, CleanupPut, CloseDeinit, CloseUninit, FinalClean, FinalPut
<1>4. CASE OpenCount(i)
  BY <1>0, <1>1, <1>2, <1>3, <1>4, QuietGoto DEF OpenCount, HoldsCore
<1>5. CASE OpenAdd(i)
  BY <1>0, <1>1, <1>2, <1>3, <1>5, QuietCallTry DEF OpenAdd, Whys
<1>6. CASE CloseStart(i)
  BY <1>0, <1>1, <1>2, <1>3, <1>6, QuietGoto DEF CloseStart, HoldsCore
<1>7. CASE CloseRaw(i)
  BY <1>0, <1>1, <1>2, <1>3, <1>7, QuietGoto DEF CloseRaw, HoldsCore
<1>8. CASE CleanupGet(i)
  BY <1>0, <1>1, <1>2, <1>3, <1>8, QuietGoto DEF CleanupGet, HoldsCore
<1>9. CASE CleanupPut(i)
  BY <1>0, <1>1, <1>2, <1>3, <1>9, QuietPut DEF CleanupPut, HoldsCore
<1>10. CASE CloseDeinit(i)
  BY <1>0, <1>1, <1>2, <1>3, <1>10, QuietCallTry, QuietGoto
     DEF CloseDeinit, HoldsCore, Whys
<1>11. CASE CloseUninit(i)
  BY <1>0, <1>1, <1>2, <1>3, <1>11, QuietCallTry DEF CloseUninit, Whys
<1>12. CASE CloseDeinitCore(i)
  BY <1>0, <1>1, <1>2, <1>3, <1>12, QuietGoto DEF CloseDeinitCore, HoldsCore
<1>13. CASE FinalClean(i)
  BY <1>0, <1>1, <1>2, <1>3, <1>13, QuietGoto DEF FinalClean, HoldsCore
<1>14. CASE FinalPut(i)
  BY <1>0, <1>1, <1>2, <1>3, <1>14, QuietPut DEF FinalPut, HoldsCore
<1> QED BY <1>4, <1>5, <1>6, <1>7, <1>8, <1>9, <1>10, <1>11, <1>12, <1>13,
           <1>14 DEF CloseStep

(* The ioctls, but for the calls of try_state. *)
LEMMA UserKeeps ==
    ASSUME IInv, NEW u \in Users, NEW i \in Insts,
           \/ UserCreate(u, i) \/ UserGet(u, i)
           \/ UserArp(u) \/ UserValidate(u) \/ UserPut(u)
    PROVE  IInv'
<1>0. /\ u \in Threads
      /\ pc[u] # "idle" => job[u].inst \in Insts
  BY JobType, ThreadsAssumption DEF Threads
<1>1. UNCHANGED core
  BY DEF UserCreate, UserGet, UserArp, UserValidate, UserPut, core, coreVars,
         lockVars
<1>2. pc[u] \notin HoldsCore
  BY DEF UserCreate, UserGet, UserArp, UserValidate, UserPut, HoldsCore
<1>3. state' \in [Insts -> 1 .. 9]
  BY JobType DEF UserCreate, UserGet, UserArp, UserValidate, UserPut
<1>4. CASE UserCreate(u, i)
  BY <1>0, <1>1, <1>2, <1>3, <1>4, QuietCallTry DEF UserCreate, Whys
<1>5. CASE UserGet(u, i)
  <2>1. Return(u, i, "validate")
    BY <1>5 DEF UserGet, Return
  <2> QED BY <1>0, <1>1, <1>2, <1>3, <2>1, QuietReturn DEF HoldsCore
<1>6. CASE UserArp(u)
  BY <1>0, <1>1, <1>2, <1>3, <1>6, QuietCallTry, QuietReturn
     DEF UserArp, Whys, HoldsCore
<1>7. CASE UserValidate(u)
  BY <1>0, <1>1, <1>2, <1>3, <1>7, QuietPut, QuietReturn
     DEF UserValidate, HoldsCore
<1>8. CASE UserPut(u)
  BY <1>0, <1>1, <1>2, <1>3, <1>8, QuietPut DEF UserPut, HoldsCore
<1> QED BY <1>4, <1>5, <1>6, <1>7, <1>8

(* The interrupt handler, but for freeing an instance. *)
LEMMA IrqKeeps ==
    ASSUME IInv, NEW i \in Insts, NEW cmd \in {"init", "end"},
           NEW status \in {"ok", "err"},
           \/ IrqSysInitDone \/ IrqTake(i, cmd, status) \/ IrqGet \/ IrqSkip
           \/ IrqSignal \/ IrqPut
    PROVE  IInv'
<1>0. /\ "irq" \in Threads /\ i \in Threads
      /\ pc["irq"] # "idle" => job["irq"].inst \in Insts
  BY JobType DEF Threads
<1>1. UNCHANGED core
  BY DEF IrqSysInitDone, IrqTake, IrqGet, IrqSkip, IrqSignal, IrqPut, core,
         coreVars, lockVars
<1>2. pc["irq"] \notin HoldsCore
  BY DEF IrqSysInitDone, IrqTake, IrqGet, IrqSkip, IrqSignal, IrqPut,
         HoldsCore
<1>3. state' \in [Insts -> 1 .. 9]
  BY JobType DEF IrqSysInitDone, IrqTake, IrqGet, IrqSkip, IrqSignal, IrqPut
<1>4. CASE UNCHANGED <<pc, job>>
  BY <1>1, <1>3, <1>4 DEF IInv, Control, LockInv, CoreLockOwned,
     RestartIsUninit, CoreStateHonest, core
<1>5. CASE IrqTake(i, cmd, status) /\ ~UNCHANGED <<pc, job>>
  <2>1. /\ job' = [job EXCEPT !["irq"] = [NoJob(i) EXCEPT !.why = cmd,
                                                          !.rc = status]]
        /\ Goto("irq", "get")
    BY <1>5 DEF IrqTake
  <2>a. NoJob(i) \in Job
    BY <1>0 DEF NoJob, Job, Whys, Nexts, Rcs
  <2>b. cmd \in Whys /\ status \in Rcs
    BY DEF Whys, Rcs
  <2>c. [NoJob(i) EXCEPT !.why = cmd, !.rc = status].inst = i
    BY DEF NoJob
  <2>2. [[NoJob(i) EXCEPT !.why = cmd] EXCEPT !.rc = status] \in Job
    BY <2>a, <2>b, JobUpdate
  <2>3. Control'
    BY <1>0, <1>3, <2>1, <2>2, <2>c, ControlStep DEF IInv, Goto
  <2> QED BY <1>0, <1>1, <1>2, <2>1, <2>3, QuietStep DEF IInv, Goto, HoldsCore
<1>6. CASE IrqGet
  BY <1>0, <1>1, <1>2, <1>3, <1>6, QuietGoto, QuietReturn
     DEF IrqGet, HoldsCore
<1>7. CASE IrqSkip
  BY <1>0, <1>1, <1>2, <1>3, <1>7, QuietReturn DEF IrqSkip, HoldsCore
<1>8. CASE IrqSignal
  BY <1>0, <1>1, <1>2, <1>3, <1>8, QuietReturn DEF IrqSignal, HoldsCore
<1>9. CASE IrqPut
  BY <1>0, <1>1, <1>2, <1>3, <1>9, QuietPut DEF IrqPut, HoldsCore
<1> QED BY <1>4, <1>5, <1>6, <1>7, <1>8, <1>9 DEF IrqSysInitDone

(* handle_sys_error: core->lock is held from its first to its last step. *)
LEMMA SysErrorKeeps ==
    ASSUME IInv, NEW t \in Threads, SysError(t)
    PROVE  IInv'
<1>0. "none" \notin Threads
  BY ThreadsAssumption DEF Threads
<1>1. \A label : Goto(t, label) =>
        \A u \in Threads : pc'[u] = IF u = t THEN label ELSE pc[u]
  BY DEF IInv, Control, Goto
<1>a. pc[t] # "idle"
  BY DEF SysError, SysErrorBegin, SysErrorInvalidate, SysErrorRelease
<1>2. ASSUME SysErrorReturn(t), state' \in [Insts -> 1 .. 9]
      PROVE  /\ Control'
             /\ \E label \in {"idle", "unlock"} : Goto(t, label)
  <2>1. CASE t = "wdog"
    BY <1>2, <2>1, GotoControl DEF SysErrorReturn, IInv
  <2>2. CASE t # "wdog"
    <3>1. job' = [job EXCEPT ![t] = [job[t] EXCEPT !.rc = "err"]]
      BY <1>2, <2>2 DEF SysErrorReturn, IInv, Control
    <3>2. [job[t] EXCEPT !.rc = "err"] \in Job
      BY JobType, JobUpdate DEF Rcs
    <3>a. [job[t] EXCEPT !.rc = "err"].inst \in Insts
      BY <1>a, <2>2, JobType DEF Job
    <3>3. Control'
      BY <1>2, <2>2, <3>1, <3>2, <3>a, ControlStep DEF SysErrorReturn, IInv, Goto
    <3> QED BY <1>2, <2>2, <3>3 DEF SysErrorReturn
  <2> QED BY <2>1, <2>2
<1>3. CASE SysErrorBegin(t)
  <2>1. state' \in [Insts -> 1 .. 9]
    BY <1>3, JobType DEF SysErrorBegin
  <2>2. CASE core_state = "UNINIT"
    <3>1. UNCHANGED core
      BY <1>3, <2>2 DEF SysErrorBegin, core
    <3>2. PICK label \in {"idle", "unlock"} : Goto(t, label)
      BY <1>2, <1>3, <2>1, <2>2 DEF SysErrorBegin
    <3>3. Control'
      BY <1>2, <1>3, <2>1, <2>2 DEF SysErrorBegin
    <3>4. pc[t] \notin HoldsCore /\ label \notin HoldsCore
      BY <1>3 DEF SysErrorBegin, HoldsCore
    <3> QED BY <3>1, <3>2, <3>3, <3>4, QuietStep DEF IInv, Goto
  <2>3. CASE core_state # "UNINIT"
    <3>1. Control'
      BY <1>a, <1>3, <2>1, <2>3, GotoControl DEF SysErrorBegin, IInv
    <3>2. \A u \in Threads : pc'[u] = IF u = t THEN "invalidate" ELSE pc[u]
      BY <1>1, <1>3, <2>3 DEF SysErrorBegin
    <3>3. CoreLockOwned'
      BY <1>0, <1>3, <2>3, <3>2 DEF SysErrorBegin, CoreFree, IInv, LockInv,
         CoreLockOwned, HoldsCore
    <3>4. /\ RestartIsUninit' /\ CoreStateHonest'
          /\ fooled' \in BOOLEAN /\ dev_up' \in BOOLEAN
      BY <1>3, <2>3 DEF SysErrorBegin, IInv, LockInv, RestartIsUninit,
         CoreStateHonest
    <3> QED BY <3>1, <3>3, <3>4 DEF IInv, LockInv
  <2> QED BY <2>2, <2>3
<1>4. ASSUME NEW i \in Insts, SysErrorInvalidate(t, i)
      PROVE  IInv'
  <2>1. state' \in [Insts -> 1 .. 9]
    BY <1>4, JobType DEF SysErrorInvalidate, INVALID
  <2>2. UNCHANGED <<core, pc, job>>
    BY <1>4 DEF SysErrorInvalidate, core, coreVars, lockVars
  <2> QED BY <2>1, <2>2 DEF IInv, Control, LockInv, CoreLockOwned,
     RestartIsUninit, CoreStateHonest, core
<1>5. CASE SysErrorRelease(t)
  <2>1. /\ state' \in [Insts -> 1 .. 9] /\ core_lock = t
        /\ core_state = "UNINIT"
    BY <1>5, JobType DEF SysErrorRelease, IInv, LockInv, CoreLockOwned,
       RestartIsUninit, HoldsCore
  <2>2. Control'
    BY <1>2, <1>5, <2>1 DEF SysErrorRelease
  <2>3. PICK label \in {"idle", "unlock"} : Goto(t, label)
    BY <1>2, <1>5, <2>1 DEF SysErrorRelease
  <2>4. \A u \in Threads : pc'[u] = IF u = t THEN label ELSE pc[u]
    BY <1>1, <2>3
  <2>5. CoreLockOwned'
    BY <1>0, <1>5, <2>1, <2>4 DEF SysErrorRelease, IInv, LockInv,
       CoreLockOwned, HoldsCore
  <2>6. RestartIsUninit'
    BY <2>1, <2>4 DEF IInv, LockInv, CoreLockOwned, RestartIsUninit, HoldsCore
  <2>7. CoreStateHonest' /\ fooled' \in BOOLEAN /\ dev_up' \in BOOLEAN
    BY <1>5, <2>1 DEF SysErrorRelease, IInv, LockInv, CoreStateHonest
  <2> QED BY <2>2, <2>5, <2>6, <2>7 DEF IInv, LockInv
<1> QED BY <1>3, <1>4, <1>5 DEF SysError

(* The steps of msm_cvp_comm_try_state that leave the core alone. *)
QuietTry(t) ==
    \/ TryState(t) \/ HandlerCheck(t) \/ SessionInit(t)
    \/ SessionInitWrite(t) \/ SessionInitDone(t) \/ SessionClose(t)
    \/ SessionCloseDone(t) \/ CloseClean(t) \/ Uninit(t) \/ TryUnlock(t)
    \/ ResultCheck(t)

(* wait_for_state keeps the type of inst->state, and ends its handler. *)
LEMMA WaitForStateType ==
    ASSUME IInv
    PROVE  \A t \in Threads, s \in 1 .. 9 : \A cmd, next :
             WaitForState(t, cmd, s, next) =>
               /\ state' \in [Insts -> 1 .. 9]
               /\ \E rc \in Rcs : Then(t, rc, next)
<1> TAKE t \in Threads, s \in 1 .. 9
<1> TAKE cmd, next
<1> HAVE WaitForState(t, cmd, s, next)
<1>1. UNCHANGED state \/ ChangeState(job[t].inst, s)
  BY DEF WaitForState
<1>2. state' \in [Insts -> 1 .. 9]
  BY <1>1, JobType, ChangeStateType
<1>3. \/ Then(t, "ok", next) \/ Then(t, "reset", next)
      \/ Then(t, "err", next) \/ Then(t, "timeout", next)
  BY DEF WaitForState
<1> QED BY <1>2, <1>3 DEF Rcs

(* Those steps keep the invariant. *)
LEMMA QuietTryKeeps ==
    ASSUME IInv, NEW t \in Threads, t # "wdog", QuietTry(t)
    PROVE  IInv'
<1>1. UNCHANGED core
  BY DEF QuietTry, TryState, HandlerCheck, SessionInit, SessionInitWrite,
         SessionInitDone, SessionClose, SessionCloseDone, CloseClean, Uninit,
         TryUnlock, ResultCheck, core, coreVars, lockVars
<1>2. pc[t] \notin HoldsCore \cup {"idle"} /\ pc[t] \notin HoldsCore
  BY DEF QuietTry, TryState, HandlerCheck, SessionInit, SessionInitWrite,
         SessionInitDone, SessionClose, SessionCloseDone, CloseClean, Uninit,
         TryUnlock, ResultCheck, HoldsCore
<1>0. job[t] \in Job /\ job[t].inst \in Insts /\ job[t].next \in Nexts
  BY <1>2, JobType DEF Job
<1>3. \A why, ok : AfterTry(why, ok) \notin HoldsCore
  BY DEF AfterTry, HoldsCore
<1>4. CASE TryState(t)
  <2>1. state' \in [Insts -> 1 .. 9]
    BY <1>4, JobType DEF TryState
  <2>2. CASE state[job[t].inst] = INVALID /\ core_state = "UNINIT"
    BY <1>0, <1>1, <1>2, <1>3, <1>4, <2>1, <2>2, QuietReturn DEF TryState
  <2>3. CASE ~(state[job[t].inst] = INVALID /\ core_state = "UNINIT")
    <3>1. PICK flip : /\ flip = Flip(state[job[t].inst], Goal(job[t].why))
                      /\ job' = [job EXCEPT ![t] = [job[t] EXCEPT !.flip = flip]]
                      /\ Goto(t, Handler(flip))
      BY <1>4, <2>3 DEF TryState, IInv, Control
    <3>2. flip \in 0 .. 9
      BY <1>0, <3>1, JobType DEF Flip, CORE_UNINIT, CLOSE
    <3>3. /\ [job[t] EXCEPT !.flip = flip] \in Job
          /\ [job[t] EXCEPT !.flip = flip].inst \in Insts
      BY <1>0, <3>2 DEF Job
    <3>4. Control'
      BY <2>1, <3>1, <3>3, ControlStep DEF IInv, Goto
    <3>5. Handler(flip) \notin HoldsCore
      BY DEF Handler, HoldsCore
    <3> QED BY <1>1, <1>2, <3>1, <3>4, <3>5, QuietStep DEF IInv, Goto
  <2> QED BY <2>2, <2>3
<1>5. CASE HandlerCheck(t)
  <2>1. state' \in [Insts -> 1 .. 9]
    BY <1>5, JobType DEF HandlerCheck
  <2>2. PICK label \in Nexts \cup {"unlock"} : Goto(t, label)
    BY <1>0, <1>5 DEF HandlerCheck
  <2>3. label \notin HoldsCore
    BY DEF Nexts, HoldsCore
  <2>4. CASE UNCHANGED job
    BY <1>1, <1>2, <2>1, <2>2, <2>3, <2>4, QuietGoto
  <2>5. CASE ~UNCHANGED job
    <3>1. job' = [job EXCEPT ![t] = [job[t] EXCEPT !.rc = "err"]]
      BY <1>5, <2>5 DEF HandlerCheck, IInv, Control
    <3>2. /\ [job[t] EXCEPT !.rc = "err"] \in Job
          /\ [job[t] EXCEPT !.rc = "err"].inst \in Insts
      BY <1>0 DEF Job, Rcs
    <3>3. Control'
      BY <2>1, <2>2, <3>1, <3>2, ControlStep DEF IInv, Goto
    <3> QED BY <1>1, <1>2, <2>2, <2>3, <3>3, QuietStep DEF IInv, Goto
  <2> QED BY <2>4, <2>5
<1>6. CASE SessionInit(t)
  BY <1>1, <1>2, <1>6, QuietGoto, JobType DEF SessionInit, HoldsCore
<1>7. CASE SessionInitWrite(t)
  <2>1. UNCHANGED state \/ ChangeState(job[t].inst, OPEN)
    BY <1>7 DEF SessionInitWrite
  <2>2. state' \in [Insts -> 1 .. 9]
    BY <2>1, JobType, ChangeStateType DEF OPEN
  <2>3. \E rc \in Rcs : Then(t, rc, "open_done")
    BY <1>7 DEF SessionInitWrite, Rcs
  <2> QED BY <1>1, <1>2, <2>2, <2>3, QuietThen DEF Nexts
<1>8. CASE SessionInitDone(t)
  <2>1. /\ state' \in [Insts -> 1 .. 9]
        /\ \E rc \in Rcs : Then(t, rc, "close_session")
    BY <1>8, WaitForStateType DEF SessionInitDone, OPEN_DONE
  <2> QED BY <1>1, <1>2, <2>1, QuietThen DEF Nexts
<1>9. CASE SessionClose(t)
  <2>1. UNCHANGED state \/ ChangeState(job[t].inst, CLOSE)
    BY <1>9 DEF SessionClose
  <2>2. state' \in [Insts -> 1 .. 9]
    BY <2>1, JobType, ChangeStateType DEF CLOSE
  <2>3. \E rc \in Rcs : Then(t, rc, "close_done")
    BY <1>9 DEF SessionClose, Rcs
  <2> QED BY <1>1, <1>2, <2>2, <2>3, QuietThen DEF Nexts
<1>10. CASE SessionCloseDone(t)
  <2>1. /\ state' \in [Insts -> 1 .. 9]
        /\ \E rc \in Rcs : Then(t, rc, "close_clean")
    BY <1>10, WaitForStateType DEF SessionCloseDone, CLOSE_DONE
  <2> QED BY <1>1, <1>2, <2>1, QuietThen DEF Nexts
<1>11. CASE CloseClean(t)
  BY <1>1, <1>2, <1>11, QuietGoto, JobType DEF CloseClean, HoldsCore
<1>12. CASE Uninit(t)
  <2>1. state' \in [Insts -> 1 .. 9]
    BY <1>12, JobType, ChangeStateType DEF Uninit, CORE_UNINIT
  <2> QED BY <1>1, <1>2, <1>12, <2>1, QuietThen DEF Uninit, Nexts, Rcs
<1>13. CASE TryUnlock(t)
  BY <1>1, <1>2, <1>13, QuietGoto, JobType DEF TryUnlock, HoldsCore
<1>14. CASE ResultCheck(t)
  <2>1. state' \in [Insts -> 1 .. 9]
    BY <1>14, JobType DEF ResultCheck, INVALID
  <2> QED BY <1>0, <1>1, <1>2, <1>3, <1>14, <2>1, QuietReturn DEF ResultCheck
<1> QED BY <1>4, <1>5, <1>6, <1>7, <1>8, <1>9, <1>10, <1>11, <1>12, <1>13,
           <1>14 DEF QuietTry

(* The steps that bring the core up: msm_comm_init_core and                *)
(* msm_cvp_comm_check_core_init, which waits while it holds core->lock.    *)
LEMMA CoreTryKeeps ==
    ASSUME IInv, NEW t \in Threads, t # "wdog",
           \/ InitCore(t) \/ CheckCoreInit(t) \/ CoreInitDone(t)
           \/ CoreInitTimeout(t)
    PROVE  IInv'
<1>0. "none" \notin Threads
  BY ThreadsAssumption DEF Threads
<1>1. \A label : Goto(t, label) =>
        \A u \in Threads : pc'[u] = IF u = t THEN label ELSE pc[u]
  BY DEF IInv, Control, Goto
<1>2. pc[t] # "idle"
  BY DEF InitCore, CheckCoreInit, CoreInitDone, CoreInitTimeout
<1>3. CASE InitCore(t)
  <2>1. UNCHANGED state \/ ChangeState(job[t].inst, INIT)
    BY <1>3 DEF InitCore
  <2>2. state' \in [Insts -> 1 .. 9]
    BY <2>1, JobType, ChangeStateType DEF INIT
  <2>3. PICK rc \in Rcs : Then(t, rc, "core_done")
    BY <1>3 DEF InitCore, Rcs
  <2>4. Control'
    BY <1>2, <2>2, <2>3, ThenControl DEF IInv, Nexts
  <2>5. \A u \in Threads : pc'[u] = IF u = t THEN "check" ELSE pc[u]
    BY <1>1, <2>3 DEF Then
  <2>6. core_lock = "none" /\ core_lock' = core_lock /\ pc[t] = "init_core"
    BY <1>3 DEF InitCore, CoreFree, lockVars
  <2>7. CoreLockOwned'
    BY <1>0, <2>5, <2>6 DEF IInv, LockInv, CoreLockOwned, HoldsCore
  <2>8. RestartIsUninit'
    BY <1>0, <2>5, <2>6 DEF IInv, LockInv, CoreLockOwned, RestartIsUninit,
       HoldsCore
  <2>9. CoreStateHonest' /\ fooled' \in BOOLEAN /\ dev_up' \in BOOLEAN
    <3>1. CASE UNCHANGED coreVars
      BY <3>1 DEF coreVars, IInv, LockInv, CoreStateHonest
    <3>2. CASE dev_up' = TRUE /\ fooled' = FALSE
      BY <3>2 DEF CoreStateHonest
    <3>3. CASE /\ core_state = "UNINIT" /\ dev_up' = FALSE
               /\ UNCHANGED <<core_state, fooled>>
      BY <3>3 DEF IInv, LockInv, CoreStateHonest
    <3> QED BY <1>3, <3>1, <3>2, <3>3 DEF InitCore
  <2> QED BY <2>4, <2>7, <2>8, <2>9 DEF IInv, LockInv
<1>4. CASE CheckCoreInit(t)
  <2>1. UNCHANGED <<core_state, dev_up, fooled>> /\ pc[t] = "core_done"
    BY <1>4 DEF CheckCoreInit, coreVars
  <2>2. CASE core_state = "INIT_DONE"
    <3>1. state' \in [Insts -> 1 .. 9]
      BY <1>4, <2>2, JobType, ChangeStateType DEF CheckCoreInit, INIT_DONE
    <3>2. UNCHANGED core /\ Then(t, "ok", "open_session")
      BY <1>4, <2>1, <2>2 DEF CheckCoreInit, core
    <3>3. pc[t] \notin HoldsCore \cup {"idle"}
      BY <2>1 DEF HoldsCore
    <3> QED BY <3>1, <3>2, <3>3, QuietThen DEF Nexts, Rcs
  <2>3. CASE core_state # "INIT_DONE"
    <3>1. /\ core_lock = "none" /\ core_lock' = t /\ Goto(t, "core_wait")
          /\ UNCHANGED <<state, job>>
      BY <1>4, <2>3 DEF CheckCoreInit, CoreFree
    <3>2. Control'
      BY <1>2, <3>1, JobType, GotoControl DEF IInv
    <3>3. \A u \in Threads : pc'[u] = IF u = t THEN "core_wait" ELSE pc[u]
      BY <1>1, <3>1
    <3>4. CoreLockOwned'
      BY <1>0, <3>1, <3>3 DEF IInv, LockInv, CoreLockOwned, HoldsCore
    <3>5. RestartIsUninit'
      BY <2>1, <3>3 DEF IInv, LockInv, RestartIsUninit
    <3>6. CoreStateHonest' /\ fooled' \in BOOLEAN /\ dev_up' \in BOOLEAN
      BY <2>1 DEF IInv, LockInv, CoreStateHonest
    <3> QED BY <3>2, <3>4, <3>5, <3>6 DEF IInv, LockInv
  <2> QED BY <2>2, <2>3
<1>5. CASE CoreInitDone(t)
  <2>1. state' \in [Insts -> 1 .. 9]
    BY <1>5, JobType, ChangeStateType DEF CoreInitDone, INIT_DONE
  <2>2. Control'
    BY <1>2, <1>5, <2>1, ThenControl DEF CoreInitDone, IInv, Nexts, Rcs
  <2>3. \A u \in Threads : pc'[u] = IF u = t THEN "check" ELSE pc[u]
    BY <1>1, <1>5 DEF CoreInitDone, Then
  <2>4. core_lock = t /\ core_lock' = "none"
    BY <1>5 DEF CoreInitDone, IInv, LockInv, CoreLockOwned, HoldsCore
  <2>5. CoreLockOwned'
    BY <1>0, <2>3, <2>4 DEF IInv, LockInv, CoreLockOwned, HoldsCore
  <2>6. RestartIsUninit'
    BY <2>3, <2>4 DEF IInv, LockInv, CoreLockOwned, RestartIsUninit, HoldsCore
  <2>7. CoreStateHonest' /\ fooled' \in BOOLEAN /\ dev_up' \in BOOLEAN
    BY <1>5 DEF CoreInitDone, IInv, LockInv, CoreStateHonest
  <2> QED BY <2>2, <2>5, <2>6, <2>7 DEF IInv, LockInv
<1>6. CASE CoreInitTimeout(t)
  <2>1. UNCHANGED <<core_state, dev_up, fooled, state, job>>
    BY <1>6 DEF CoreInitTimeout, coreVars
  <2>2. Control'
    BY <1>2, <1>6, <2>1, JobType, GotoControl DEF CoreInitTimeout, IInv
  <2>3. \A u \in Threads : pc'[u] = IF u = t THEN "sys_error" ELSE pc[u]
    BY <1>1, <1>6 DEF CoreInitTimeout
  <2>4. core_lock = t /\ core_lock' = "none"
    BY <1>6 DEF CoreInitTimeout, IInv, LockInv, CoreLockOwned, HoldsCore
  <2>5. CoreLockOwned'
    BY <1>0, <2>3, <2>4 DEF IInv, LockInv, CoreLockOwned, HoldsCore
  <2>6. RestartIsUninit'
    BY <2>1, <2>3 DEF IInv, LockInv, RestartIsUninit
  <2>7. CoreStateHonest' /\ fooled' \in BOOLEAN /\ dev_up' \in BOOLEAN
    BY <2>1 DEF IInv, LockInv, CoreStateHonest
  <2> QED BY <2>2, <2>5, <2>6, <2>7 DEF IInv, LockInv
<1> QED BY <1>3, <1>4, <1>5, <1>6

-----------------------------------------------------------------------------
(* Every step keeps the invariant. *)
LEMMA NextKeeps ==
    ASSUME IInv, [Next]_vars
    PROVE  IInv'
<1>1. ASSUME NEW t \in Insts \cup Users, Try(t)
      PROVE  IInv'
  <2>1. t \in Threads /\ t # "wdog"
    BY ThreadsAssumption DEF Threads
  <2>2. QuietTry(t) \/ InitCore(t) \/ CheckCoreInit(t) \/ CoreInitDone(t)
        \/ CoreInitTimeout(t)
    BY <1>1 DEF Try, QuietTry
  <2> QED BY <2>1, <2>2, QuietTryKeeps, CoreTryKeeps
<1>2. ASSUME NEW t \in Insts \cup Users \cup {"irq"}, Destroy(t)
      PROVE  IInv'
  <2>1. t \in Threads /\ t # "wdog"
    BY ThreadsAssumption DEF Threads
  <2> QED BY <1>2, <2>1, DestroyKeeps
<1>3. ASSUME NEW i \in Insts, Owner(i)
      PROVE  IInv'
  <2>1. CASE OpenCount(i) \/ OpenAdd(i) \/ CloseStart(i) \/ CloseStep(i)
    BY <2>1, OwnerKeeps
  <2>2. CASE SysError(i)
    BY <2>2, SysErrorKeeps DEF Threads
  <2> QED BY <1>1, <1>2, <1>3, <2>1, <2>2 DEF Owner, OwnerStep
<1>4. ASSUME NEW u \in Users, User(u)
      PROVE  IInv'
  <2>1. CASE \E i \in Insts : UserCreate(u, i) \/ UserGet(u, i)
    BY <2>1, UserKeeps
  <2>2. CASE UserArp(u) \/ UserValidate(u) \/ UserPut(u)
    <3>1. pc[u] # "idle" /\ u \in Threads /\ u # "wdog"
      BY <2>2, ThreadsAssumption
         DEF UserArp, UserValidate, UserPut, Threads
    <3>2. job[u].inst \in Insts
      BY <3>1, JobType
    <3> QED BY <2>2, <3>2, UserKeeps
  <2> QED BY <1>1, <1>2, <1>4, <2>1, <2>2 DEF User, UserStep
<1>5. CASE Irq
  <2>1. CASE Destroy("irq")
    BY <1>2, <2>1
  <2>2. CASE \E i \in Insts, cmd \in {"init", "end"}, status \in {"ok", "err"} :
               IrqTake(i, cmd, status)
    BY <2>2, IrqKeeps
  <2>3. CASE IrqGet \/ IrqSkip \/ IrqSignal \/ IrqPut
    <3>1. job["irq"].inst \in Insts
      BY <2>3, JobType DEF IrqGet, IrqSkip, IrqSignal, IrqPut, Threads
    <3> QED BY <2>3, <3>1, IrqKeeps
  <2>4. CASE IrqSysInitDone
    <3>1. UNCHANGED <<core, pc, job, state>>
      BY <2>4 DEF IrqSysInitDone, core, lockVars
    <3> QED BY <3>1 DEF IInv, Control, LockInv, CoreLockOwned,
       RestartIsUninit, CoreStateHonest, core
  <2> QED BY <1>5, <2>1, <2>2, <2>3, <2>4 DEF Irq, IrqStep
<1>6. CASE Wdog
  <2>1. CASE WdogFire
    <3>1. UNCHANGED <<core, job>> /\ state' \in [Insts -> 1 .. 9]
      BY <2>1, JobType DEF WdogFire, core, coreVars, lockVars
    <3>2. "wdog" \in Threads /\ Goto("wdog", "sys_error")
      BY <2>1 DEF WdogFire, Threads
    <3>3. Control'
      BY <3>1, <3>2, GotoControl DEF IInv
    <3>4. pc["wdog"] \notin HoldsCore /\ "sys_error" \notin HoldsCore
      BY <2>1 DEF WdogFire, HoldsCore
    <3> QED BY <3>1, <3>2, <3>3, <3>4, QuietStep DEF IInv, Goto
  <2>2. CASE SysError("wdog")
    BY <2>2, SysErrorKeeps DEF Threads
  <2> QED BY <1>6, <2>1, <2>2 DEF Wdog
<1>7. CASE UNCHANGED vars
  <2>1. UNCHANGED <<core, pc, job, state>>
    BY <1>7 DEF vars, core, coreVars, lockVars
  <2> QED BY <2>1 DEF IInv, Control, LockInv, CoreLockOwned,
     RestartIsUninit, CoreStateHonest, core
<1> QED BY <1>3, <1>4, <1>5, <1>6, <1>7 DEF Next

(* The initial state satisfies the invariant. *)
LEMMA InitIInv == Init => IInv
<1> SUFFICES ASSUME Init PROVE IInv
  OBVIOUS
<1>1. \A t \in Threads : NoJob(t) \in Job /\ NoJob(t).inst = t
  BY DEF NoJob, Job, Whys, Nexts, Rcs
<1>2. \A t \in Threads : job[t] \in Job /\ job[t].inst = t
  BY <1>1 DEF Init
<1>3. Control
  BY <1>1, <1>2 DEF Init, Control, UNINIT_DONE
<1>4. LockInv
  BY ThreadsAssumption DEF Init, LockInv, CoreLockOwned, RestartIsUninit,
     CoreStateHonest, HoldsCore, Threads
<1> QED BY <1>3, <1>4 DEF IInv

(* The inductive invariant holds of every reachable state. *)
THEOREM IInvInvariant == Spec => []IInv
<1>1. IInv /\ [Next]_vars => IInv'
  BY NextKeeps
<1> QED BY InitIInv, <1>1, PTL DEF Spec

(* core->state says that the core is initialised only while the device is  *)
(* up, but for the two exceptions that fooled records: however many        *)
(* threads bring the core up, and wherever handle_sys_error runs between   *)
(* their steps.                                                            *)
THEOREM CoreStateIsHonest == Spec => []CoreStateHonest
<1>1. IInv => CoreStateHonest
  BY DEF IInv, LockInv
<1> QED BY IInvInvariant, <1>1, PTL

-----------------------------------------------------------------------------
(* INVALID is left by nobody but the store of msm_cvp_close. *)

(* No instance leaves INVALID in this step. *)
KeepsInvalid == \A i \in Insts : state[i] = INVALID => state'[i] = INVALID

(* change_cvp_inst_state does not lead out of INVALID. *)
LEMMA ChangeStateKeeps ==
    ASSUME state \in [Insts -> 1 .. 9]
    PROVE  \A i, s : ChangeState(i, s) => KeepsInvalid
BY DEF ChangeState, KeepsInvalid, INVALID

(* No step of msm_cvp_comm_try_state leads out of INVALID. *)
LEMMA TryKeepsInvalid ==
    ASSUME state \in [Insts -> 1 .. 9], NEW t, Try(t)
    PROVE  KeepsInvalid
<1>1. CASE \/ InitCore(t) \/ CheckCoreInit(t) \/ CoreInitDone(t)
           \/ SessionInitWrite(t) \/ SessionInitDone(t) \/ SessionClose(t)
           \/ SessionCloseDone(t) \/ Uninit(t)
  <2>1. UNCHANGED state \/ \E i, s : ChangeState(i, s)
    BY <1>1 DEF InitCore, CheckCoreInit, CoreInitDone, SessionInitWrite,
       SessionInitDone, SessionClose, SessionCloseDone, Uninit, WaitForState
  <2> QED BY <2>1, ChangeStateKeeps DEF KeepsInvalid
<1>2. CASE ResultCheck(t)
  BY <1>2 DEF ResultCheck, KeepsInvalid
<1>3. CASE UNCHANGED state
  BY <1>3 DEF KeepsInvalid
<1> QED BY <1>1, <1>2, <1>3 DEF Try, TryState, HandlerCheck, CoreInitTimeout,
           SessionInit, CloseClean, TryUnlock

(* Nor does a step of handle_sys_error. *)
LEMMA SysErrorKeepsInvalid ==
    ASSUME state \in [Insts -> 1 .. 9], NEW t, SysError(t)
    PROVE  KeepsInvalid
BY DEF SysError, SysErrorBegin, SysErrorInvalidate, SysErrorRelease,
       KeepsInvalid

(* Nor does any other step, but for CloseRaw. *)
LEMMA NextKeepsInvalid ==
    ASSUME state \in [Insts -> 1 .. 9], [Next]_vars
    PROVE  KeepsInvalid \/ \E i \in Insts : CloseRaw(i)
<1>1. UNCHANGED state => KeepsInvalid
  BY DEF KeepsInvalid
<1>2. ASSUME NEW t, Destroy(t)
      PROVE  UNCHANGED state
  BY <1>2 DEF Destroy, DestroyUnlink, DestroyFree
<1>3. ASSUME NEW i \in Insts, Owner(i), ~CloseRaw(i)
      PROVE  KeepsInvalid
  <2>1. CASE CloseDeinitCore(i)
    BY <2>1, ChangeStateKeeps DEF CloseDeinitCore
  <2>2. CASE Try(i)
    BY <2>2, TryKeepsInvalid
  <2>3. CASE SysError(i)
    BY <2>3, SysErrorKeepsInvalid
  <2>4. CASE Destroy(i)
    BY <1>1, <1>2, <2>4
  <2>5. CASE /\ OpenCount(i) \/ OpenAdd(i) \/ CloseStart(i) \/ CloseStep(i)
             /\ ~CloseDeinitCore(i)
    <3>1. UNCHANGED state
      BY <1>3, <2>5 DEF OpenCount, OpenAdd, CloseStart, CloseStep, CleanupGet,
         CleanupPut, CloseDeinit, CloseUninit, FinalClean, FinalPut
    <3> QED BY <1>1, <3>1
  <2> QED BY <1>3, <2>1, <2>2, <2>3, <2>4, <2>5 DEF Owner, OwnerStep
<1>4. ASSUME NEW u \in Users, User(u)
      PROVE  KeepsInvalid
  <2>1. CASE Try(u)
    BY <2>1, TryKeepsInvalid
  <2>2. CASE Destroy(u)
    BY <1>1, <1>2, <2>2
  <2>3. CASE \/ \E i \in Insts : UserCreate(u, i) \/ UserGet(u, i)
             \/ UserArp(u) \/ UserValidate(u) \/ UserPut(u)
    <3>1. UNCHANGED state
      BY <2>3 DEF UserCreate, UserGet, UserArp, UserValidate, UserPut
    <3> QED BY <1>1, <3>1
  <2> QED BY <1>4, <2>1, <2>2, <2>3 DEF User, UserStep
<1>5. CASE Irq
  BY <1>1, <1>2, <1>5 DEF Irq, IrqStep, IrqSysInitDone, IrqTake, IrqGet,
     IrqSkip, IrqSignal, IrqPut
<1>6. CASE Wdog
  BY <1>1, <1>6, SysErrorKeepsInvalid DEF Wdog, WdogFire
<1>7. CASE UNCHANGED vars
  BY <1>1, <1>7 DEF vars
<1> QED BY <1>3, <1>4, <1>5, <1>6, <1>7 DEF Next

(* A restart is not undone: an instance that handle_sys_error, or          *)
(* msm_cvp_comm_kill_session, made INVALID stays so, whatever the state    *)
(* machine was about to store, until msm_cvp_close stores CORE_UNINIT.     *)
THEOREM RestartNotUndone == Spec => InvalidSticky
<1>1. ASSUME IInv, [Next]_vars
      PROVE  [\A i \in Insts : state[i] = INVALID /\ state'[i] # INVALID
                                 => pc[i] = "raw"]_vars
  <2>1. CASE KeepsInvalid
    BY <2>1 DEF KeepsInvalid
  <2>2. ASSUME NEW k \in Insts, CloseRaw(k)
        PROVE  \A i \in Insts : state[i] = INVALID /\ state'[i] # INVALID
                                  => pc[i] = "raw"
    BY <2>2, JobType DEF CloseRaw
  <2> QED BY <1>1, <2>1, <2>2, JobType, NextKeepsInvalid
<1> QED BY IInvInvariant, <1>1, PTL DEF Spec, InvalidSticky
=============================================================================
