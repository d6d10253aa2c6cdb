------------------------------ MODULE CvpInst ------------------------------
(***************************************************************************)
(* The life of EVA instances (struct msm_cvp_inst) and of their firmware   *)
(* sessions (struct cvp_hal_session): open, session create, close, the     *)
(* state machine msm_cvp_comm_try_state, reference counting, responses of  *)
(* the firmware, and subsystem restart (handle_sys_error).                 *)
(*                                                                         *)
(* Threads: the owner of an instance, which opens and closes it (named by  *)
(* the instance); Users, which issue ioctls on open instances; "irq", the  *)
(* threaded interrupt handler; "wdog", whoever reports a system error (the *)
(* watchdog work, a SYS_ERROR packet, a session timeout on a hung          *)
(* firmware).  core->lock, device->lock and inst->sync_lock are modelled;  *)
(* inst->lock is held within single steps only.                            *)
(***************************************************************************)
EXTENDS Integers, FiniteSets

CONSTANTS Insts,      \* instances; each is opened at most once
          Users,      \* threads that issue ioctls
          BootInsts,  \* the instances of type MSM_CVP_BOOT
          MaxInst,    \* max_supported_inst_count
          MaxSsr,     \* bound on the system errors reported
          MaxCreate   \* bound on the session_create calls

ASSUME InstsAssumption == BootInsts \subseteq Insts
ASSUME ThreadsAssumption ==
          /\ {"none", "irq", "wdog"} \cap (Insts \cup Users) = {}
          /\ Insts \cap Users = {}
ASSUME BoundsAssumption == /\ MaxInst \in Nat /\ MaxSsr \in Nat
                           /\ MaxCreate \in Nat

VARIABLES
    core_state,  \* core->state
    core_lock,   \* owner of core->lock, or "none"
    dev_lock,    \* owner of device->lock, or "none"
    dev_up,      \* device->state is not IRIS_STATE_DEINIT
    sys_msg,     \* the firmware owes the answer to SYS_INIT
    sys_done,    \* core->completions[SYS_INIT_DONE]
    todo,        \* instances handle_sys_error has still to go through
    saved,       \* cur_state of handle_sys_error
    errors,      \* system errors reported so far
    fooled,      \* core->state was set to INIT_DONE, or restored, although
                 \* the device is down
    instances,   \* core->instances
    mem,         \* allocation of the instance: "none", "live", "freed"
    kref,        \* inst->kref
    lost,        \* references nobody will ever drop
    state,       \* inst->state
    sync,        \* owner of inst->sync_lock, or "none"
    session,     \* inst->session is not NULL
    obj,         \* the cvp_hal_session
    done,        \* inst->completions
    replies,     \* commands the firmware has not answered yet
    hfi_error,   \* inst->hfi_error_code is set
    prev_error,  \* inst->prev_hfi_error_code is set
    creates,     \* session_create calls so far
    pc, job      \* control and arguments of the threads

coreVars == <<core_state, dev_up, sys_msg, sys_done, fooled>>
ssrVars == <<todo, saved, errors>>
lockVars == <<core_lock, dev_lock, sync>>
refVars == <<instances, mem, kref, lost>>
cmdVars == <<done, replies, hfi_error, prev_error>>
vars == <<coreVars, ssrVars, lockVars, refVars, state, session, obj, cmdVars,
          creates, pc, job>>

Threads == Insts \cup Users \cup {"irq", "wdog"}

(* enum instance_state *)
UNINIT_DONE == 1
INIT == 2
INIT_DONE == 3
OPEN == 4
OPEN_DONE == 5
CLOSE == 6
CLOSE_DONE == 7
CORE_UNINIT == 8
INVALID == 9

NoObj == [mem |-> "none", device |-> FALSE, listed |-> FALSE, idr |-> FALSE]
NoJob(t) == [inst |-> t, why |-> "none", flip |-> 0, next |-> "none",
             rc |-> "ok"]

Init ==
    /\ core_state = "UNINIT" /\ core_lock = "none" /\ dev_lock = "none"
    /\ dev_up = FALSE /\ sys_msg = FALSE /\ sys_done = 0 /\ fooled = FALSE
    /\ todo = {} /\ saved = "UNINIT" /\ errors = 0
    /\ instances = {} /\ mem = [i \in Insts |-> "none"]
    /\ kref = [i \in Insts |-> 0] /\ lost = [i \in Insts |-> 0]
    /\ state = [i \in Insts |-> UNINIT_DONE]
    /\ sync = [i \in Insts |-> "none"]
    /\ session = [i \in Insts |-> FALSE] /\ obj = [i \in Insts |-> NoObj]
    /\ done = [i \in Insts |-> [c \in {"init", "end"} |-> 0]]
    /\ replies = [i \in Insts |-> {}]
    /\ hfi_error = [i \in Insts |-> FALSE]
    /\ prev_error = [i \in Insts |-> FALSE]
    /\ creates = 0
    /\ pc = [t \in Threads |-> IF t \in Insts THEN "none" ELSE "idle"]
    /\ job = [t \in Threads |-> NoJob(t)]

-----------------------------------------------------------------------------
Goto(t, label) == pc' = [pc EXCEPT ![t] = label]

(* A call on instance i has returned: its arguments are forgotten. *)
Return(t, i, label) ==
    /\ Goto(t, label)
    /\ job' = [job EXCEPT ![t] = NoJob(IF label = "idle" THEN t ELSE i)]
CoreFree == core_lock = "none"
DevFree == dev_lock = "none"

(* Where a thread goes when it has freed an instance. *)
Home(t) == IF t \in Insts THEN "closed" ELSE "idle"

(* change_cvp_inst_state: an instance that is INVALID stays so. *)
ChangeState(i, s) ==
    state' = [state EXCEPT ![i] = IF @ = INVALID THEN @ ELSE s]

(* cvp_put_inst and kref_put: the last reference destroys the instance. *)
PutInst(t, i, label) ==
    /\ kref' = [kref EXCEPT ![i] = @ - 1]
    /\ Return(t, i, IF kref[i] = 1 THEN "destroy" ELSE label)

(* The conditions under which cvp_get_inst takes a reference. *)
CanGet(i) == i \in instances /\ session[i] /\ kref[i] > 0

(* Mutant: list_del without core->lock. *)
MutDestroyUnlink(t) ==
    /\ pc[t] = "destroy"
    /\ instances' = instances \ {job[t].inst}
    /\ Goto(t, "free")
    /\ UNCHANGED <<coreVars, ssrVars, lockVars, mem, kref, lost, state,
                   session, obj, cmdVars, creates, job>>

(* msm_cvp_destroy: off the list ... *)
DestroyUnlink(t) ==
    /\ pc[t] = "destroy" /\ CoreFree
    /\ instances' = instances \ {job[t].inst}
    /\ Goto(t, "free")
    /\ UNCHANGED <<coreVars, ssrVars, lockVars, mem, kref, lost, state,
                   session, obj, cmdVars, creates, job>>

(* ... and freed. *)
DestroyFree(t) ==
    /\ pc[t] = "free"
    /\ mem' = [mem EXCEPT ![job[t].inst] = "freed"]
    /\ Return(t, job[t].inst, Home(t))
    /\ UNCHANGED <<coreVars, ssrVars, lockVars, instances, kref, lost, state,
                   session, obj, cmdVars, creates>>

(* msm_cvp_comm_session_clean, iris_hfi_session_clean and __session_clean: *)
(* a session whose device pointer core_release cleared is not freed.       *)
SessionClean(i) ==
    /\ session[i] => DevFree
    /\ session' = [session EXCEPT ![i] = FALSE]
    /\ obj' = IF session[i] /\ obj[i].device
              THEN [obj EXCEPT ![i] = [NoObj EXCEPT !.mem = "freed"]]
              ELSE obj

-----------------------------------------------------------------------------
(* msm_cvp_open. *)

(* msm_cvp_check_for_inst_overload, and the allocation. *)
OpenCount(i) ==
    /\ pc[i] = "none" /\ CoreFree
    /\ IF Cardinality(instances) >= MaxInst
       THEN Goto(i, "rejected") /\ UNCHANGED <<mem, kref>>
       ELSE /\ mem' = [mem EXCEPT ![i] = "live"]
            /\ kref' = [kref EXCEPT ![i] = 1]
            /\ Goto(i, "add")
    /\ UNCHANGED <<coreVars, ssrVars, lockVars, instances, lost, state,
                   session, obj, cmdVars, creates, job>>

(* msm_cvp_comm_try_state is called; the target state says why. *)
CallTry(t, i, why) ==
    /\ job' = [job EXCEPT ![t] = [NoJob(i) EXCEPT !.why = why]]
    /\ Goto(t, "try")

OpenAdd(i) ==
    /\ pc[i] = "add" /\ CoreFree
    /\ instances' = instances \cup {i}
    /\ CallTry(i, i, "open")
    /\ UNCHANGED <<coreVars, ssrVars, lockVars, mem, kref, lost, state,
                   session, obj, cmdVars, creates>>

-----------------------------------------------------------------------------
(* msm_cvp_comm_try_state. *)

Goal(why) == CASE why = "open" -> INIT_DONE
               [] why = "create" -> OPEN_DONE
               [] why \in {"undo", "deinit"} -> CLOSE_DONE
               [] why = "uninit" -> CORE_UNINIT

(* get_flipped_state *)
Flip(s, goal) == CASE s = INIT_DONE /\ goal > CLOSE -> CORE_UNINIT
                   [] s = INVALID -> CLOSE
                   [] OTHER -> s

(* cvp_state_handler: the entry of state s is the way out of s. *)
Handler(s) ==
    CASE s = UNINIT_DONE -> "init_core"
      [] s = INIT -> "core_done"
      [] s = INIT_DONE -> "open_session"
      [] s = OPEN -> "open_done"
      [] s = OPEN_DONE -> "close_session"
      [] s = CLOSE -> "close_done"
      [] OTHER -> "uninit"

(* Where the caller of try_state goes on. *)
AfterTry(why, ok) ==
    CASE why = "open" -> IF ok THEN "opened" ELSE "clean"
      [] why = "create" -> IF ok THEN "arp" ELSE "idle"
      [] why = "undo" -> "idle"
      [] why = "deinit" -> "call_uninit"
      [] OTHER -> IF ok THEN "clean" ELSE "deinit_core"

TryState(t) ==
    LET i == job[t].inst
        flip == Flip(state[i], Goal(job[t].why))
    IN  /\ pc[t] = "try" /\ sync[i] = "none"
        /\ IF state[i] = INVALID /\ core_state = "UNINIT"
           THEN Return(t, i, AfterTry(job[t].why, FALSE)) /\ UNCHANGED sync
           ELSE /\ sync' = [sync EXCEPT ![i] = t]
                /\ job' = [job EXCEPT ![t].flip = flip]
                /\ Goto(t, Handler(flip))
        /\ UNCHANGED <<coreVars, ssrVars, core_lock, dev_lock, refVars, state,
                       session, obj, cmdVars, creates>>

(* A handler ends with rc, and wants to go on with the handler next. *)
Then(t, rc, next) ==
    /\ job' = [job EXCEPT ![t].rc = rc, ![t].next = next]
    /\ Goto(t, "check")

(* if (rc || state <= get_flipped_state(inst->state, state)) return rc; *)
HandlerCheck(t) ==
    LET j == job[t]
        stop == j.rc # "ok" \/ Goal(j.why) <= Flip(state[j.inst], Goal(j.why))
    IN  /\ pc[t] = "check"
        /\ Goto(t, IF stop \/ j.next = "fail" THEN "unlock" ELSE j.next)
        /\ job' = IF ~stop /\ j.next = "fail"
                  THEN [job EXCEPT ![t].rc = "err"] ELSE job
        /\ UNCHANGED <<coreVars, ssrVars, lockVars, refVars, state, session,
                       obj, cmdVars, creates>>

(* msm_comm_init_core with iris_hfi_core_init. *)
InitCore(t) ==
    LET i == job[t].inst
    IN  /\ pc[t] = "init_core" /\ CoreFree /\ DevFree
        /\ \/ /\ core_state # "UNINIT"
              /\ ChangeState(i, INIT)
              /\ Then(t, "ok", "core_done")
              /\ UNCHANGED coreVars
           \/ /\ core_state = "UNINIT"
              /\ core_state' = "INIT" /\ dev_up' = TRUE /\ sys_msg' = TRUE
              /\ fooled' = FALSE
              /\ ChangeState(i, INIT)
              /\ Then(t, "ok", "core_done")
              /\ UNCHANGED sys_done
           \/ /\ core_state = "UNINIT"
              /\ dev_up' = FALSE /\ sys_msg' = FALSE
              /\ Then(t, "err", "core_done")
              /\ UNCHANGED <<core_state, fooled, sys_done, state>>
        /\ UNCHANGED <<ssrVars, lockVars, refVars, session, obj, cmdVars,
                       creates>>

(* msm_cvp_comm_check_core_init: core->lock is held while waiting. *)
CheckCoreInit(t) ==
    LET i == job[t].inst
    IN  /\ pc[t] = "core_done" /\ CoreFree
        /\ IF core_state = "INIT_DONE"
           THEN /\ ChangeState(i, INIT_DONE)
                /\ Then(t, "ok", "open_session")
                /\ UNCHANGED core_lock
           ELSE /\ core_lock' = t
                /\ Goto(t, "core_wait")
                /\ UNCHANGED <<state, job>>
        /\ UNCHANGED <<coreVars, ssrVars, dev_lock, sync, refVars, session,
                       obj, cmdVars, creates>>

(* Mutant: the result of the wait is not looked at. *)
MutCoreInitDone(t) ==
    /\ pc[t] = "core_wait"
    /\ sys_done' = sys_done - 1
    /\ core_state' = "INIT_DONE"
    /\ fooled' = (fooled \/ ~dev_up)
    /\ core_lock' = "none"
    /\ ChangeState(job[t].inst, INIT_DONE)
    /\ Then(t, "ok", "open_session")
    /\ UNCHANGED <<dev_up, sys_msg, ssrVars, dev_lock, sync, refVars, session,
                   obj, cmdVars, creates>>

CoreInitDone(t) ==
    /\ pc[t] = "core_wait" /\ sys_done > 0
    /\ sys_done' = sys_done - 1
    /\ core_state' = "INIT_DONE"
    /\ fooled' = (fooled \/ ~dev_up)
    /\ core_lock' = "none"
    /\ ChangeState(job[t].inst, INIT_DONE)
    /\ Then(t, "ok", "open_session")
    /\ UNCHANGED <<dev_up, sys_msg, ssrVars, dev_lock, sync, refVars, session,
                   obj, cmdVars, creates>>

(* The wait times out: msm_cvp_comm_generate_sys_error, and -EIO. *)
CoreInitTimeout(t) ==
    /\ pc[t] = "core_wait" /\ sys_done = 0
    /\ core_lock' = "none"
    /\ Goto(t, "sys_error")
    /\ UNCHANGED <<coreVars, ssrVars, dev_lock, sync, refVars, state, session,
                   obj, cmdVars, creates, job>>

(* iris_hfi_session_init takes device->lock and publishes the session ... *)
SessionInit(t) ==
    LET i == job[t].inst
    IN  /\ pc[t] = "open_session" /\ DevFree
        /\ dev_lock' = t
        /\ obj' = [obj EXCEPT ![i] = [mem |-> "live", device |-> TRUE,
                                      listed |-> TRUE, idr |-> TRUE]]
        /\ session' = [session EXCEPT ![i] = TRUE]
        /\ Goto(t, "open_write")
        /\ UNCHANGED <<coreVars, ssrVars, core_lock, sync, refVars, state,
                       cmdVars, creates, job>>

(* ... and writes the command, or cannot and takes all of it back.  Only   *)
(* a device that is up accepts a command.                                  *)
SessionInitWrite(t) ==
    LET i == job[t].inst
    IN  /\ pc[t] = "open_write"
        /\ dev_lock' = "none"
        /\ \/ /\ dev_up
              /\ replies' = [replies EXCEPT ![i] = @ \cup {"init"}]
              /\ ChangeState(i, OPEN)
              /\ Then(t, "ok", "open_done")
              /\ UNCHANGED <<session, obj>>
           \/ /\ obj' = [obj EXCEPT ![i] = [NoObj EXCEPT !.mem = "freed"]]
              /\ session' = [session EXCEPT ![i] = FALSE]
              /\ Then(t, "err", "open_done")
              /\ UNCHANGED <<replies, state>>
        /\ UNCHANGED <<coreVars, ssrVars, core_lock, sync, refVars, done,
                       hfi_error, prev_error, creates>>

(* wait_for_state: a completion that is already there is taken, whichever  *)
(* command it was for; otherwise the wait may time out.                    *)
WaitForState(t, cmd, s, next) ==
    LET i == job[t].inst
    IN  \/ /\ job[t].flip >= s
           /\ Then(t, "ok", next)
           /\ UNCHANGED <<state, cmdVars>>
        \/ /\ job[t].flip < s /\ done[i][cmd] > 0
           /\ done' = [done EXCEPT ![i][cmd] = @ - 1]
           /\ IF state[i] = INVALID
              THEN /\ Then(t, "reset", next)
                   /\ UNCHANGED <<state, hfi_error, prev_error>>
              ELSE /\ Then(t, IF hfi_error[i] THEN "err" ELSE "ok", next)
                   /\ prev_error' = [prev_error EXCEPT ![i] = hfi_error[i]]
                   /\ hfi_error' = [hfi_error EXCEPT ![i] = FALSE]
                   /\ IF hfi_error[i] THEN UNCHANGED state
                                      ELSE ChangeState(i, s)
           /\ UNCHANGED replies
        \/ /\ job[t].flip < s /\ done[i][cmd] = 0
           /\ Then(t, "timeout", next)
           /\ UNCHANGED <<state, cmdVars>>

SessionInitDone(t) ==
    /\ pc[t] = "open_done"
    /\ WaitForState(t, "init", OPEN_DONE, "close_session")
    /\ UNCHANGED <<coreVars, ssrVars, lockVars, refVars, session, obj,
                   creates>>

(* msm_comm_session_close with iris_hfi_session_end. *)
SessionClose(t) ==
    LET i == job[t].inst
    IN  /\ pc[t] = "close_session" /\ DevFree
        /\ \/ /\ session[i] /\ obj[i].listed /\ dev_up
              /\ replies' = [replies EXCEPT ![i] = @ \cup {"end"}]
              /\ ChangeState(i, CLOSE)
              /\ Then(t, "ok", "close_done")
           \/ /\ Then(t, "err", "close_done")
              /\ UNCHANGED <<replies, state>>
        /\ UNCHANGED <<coreVars, ssrVars, lockVars, refVars, session, obj,
                       done, hfi_error, prev_error, creates>>

SessionCloseDone(t) ==
    /\ pc[t] = "close_done"
    /\ WaitForState(t, "end", CLOSE_DONE, "close_clean")
    /\ UNCHANGED <<coreVars, ssrVars, lockVars, refVars, session, obj,
                   creates>>

(* The rest of cvp_close_done_handler. *)
CloseClean(t) ==
    /\ pc[t] = "close_clean"
    /\ SessionClean(job[t].inst)
    /\ Goto(t, "uninit")
    /\ UNCHANGED <<coreVars, ssrVars, lockVars, refVars, state, cmdVars,
                   creates, job>>

(* Mutant: the state is stored directly. *)
MutUninit(t) ==
    /\ pc[t] = "uninit" /\ CoreFree
    /\ state' = [state EXCEPT ![job[t].inst] = CORE_UNINIT]
    /\ Then(t, "ok", "fail")
    /\ UNCHANGED <<coreVars, ssrVars, lockVars, refVars, session, obj,
                   cmdVars, creates>>

(* cvp_uninit_handler, cvp_invalid_handler: msm_cvp_deinit_core. *)
Uninit(t) ==
    /\ pc[t] = "uninit" /\ CoreFree
    /\ ChangeState(job[t].inst, CORE_UNINIT)
    /\ Then(t, "ok", "fail")
    /\ UNCHANGED <<coreVars, ssrVars, lockVars, refVars, session, obj,
                   cmdVars, creates>>

TryUnlock(t) ==
    /\ pc[t] = "unlock"
    /\ sync' = [sync EXCEPT ![job[t].inst] = "none"]
    /\ Goto(t, "verdict")
    /\ UNCHANGED <<coreVars, ssrVars, core_lock, dev_lock, refVars, state,
                   session, obj, cmdVars, creates, job>>

(* msm_cvp_state_result_check, and msm_cvp_comm_kill_session after a       *)
(* timeout.  An error other than a timeout counts only if the firmware     *)
(* reported it.                                                            *)
ResultCheck(t) ==
    LET i == job[t].inst
        rc == job[t].rc
        failed == rc = "timeout" \/ (rc # "ok" /\ prev_error[i])
        kill == /\ rc = "timeout" /\ session[i]
                /\ OPEN_DONE <= state[i] /\ state[i] < CLOSE_DONE
    IN  /\ pc[t] = "verdict"
        /\ state' = IF kill THEN [state EXCEPT ![i] = INVALID] ELSE state
        /\ Return(t, i, AfterTry(job[t].why, ~failed))
        /\ UNCHANGED <<coreVars, ssrVars, lockVars, refVars, session, obj,
                       cmdVars, creates>>

-----------------------------------------------------------------------------
(* ioctls on an open instance. *)

(* msm_cvp_session_create: the state is looked at without a lock. *)
UserCreate(u, i) ==
    /\ pc[u] = "idle" /\ pc[i] = "opened" /\ i \notin BootInsts
    /\ creates < MaxCreate
    /\ state[i] = INIT_DONE
    /\ creates' = creates + 1
    /\ CallTry(u, i, "create")
    /\ UNCHANGED <<coreVars, ssrVars, lockVars, refVars, state, session, obj,
                   cmdVars>>

(* The ARP buffers are set, or are not and the session is closed again, or *)
(* the secure session check refuses and leaves the session as it is.       *)
UserArp(u) ==
    LET i == job[u].inst
    IN  /\ pc[u] = "arp"
        /\ \/ session[i] /\ obj[i].listed /\ Return(u, i, "idle")
           \/ CallTry(u, i, "undo")
           \/ Return(u, i, "idle")
        /\ UNCHANGED <<coreVars, ssrVars, lockVars, refVars, state, session,
                       obj, cmdVars, creates>>

(* cvp_get_inst_validate, as most ioctls begin: a reference ... *)
UserGet(u, i) ==
    /\ pc[u] = "idle" /\ pc[i] = "opened" /\ i \notin BootInsts
    /\ CoreFree /\ CanGet(i)
    /\ kref' = [kref EXCEPT ![i] = @ + 1]
    /\ job' = [job EXCEPT ![u] = NoJob(i)]
    /\ Goto(u, "validate")
    /\ UNCHANGED <<coreVars, ssrVars, lockVars, instances, mem, lost, state,
                   session, obj, cmdVars, creates>>

(* ... that is kept if the session is valid, dropped if the device does    *)
(* not know it, and forgotten if the IDR does not.                         *)
UserValidate(u) ==
    LET i == job[u].inst
    IN  /\ pc[u] = "validate" /\ DevFree
        /\ \/ /\ obj[i].idr /\ session[i] /\ obj[i].listed
              /\ Return(u, i, "use")
              /\ UNCHANGED <<kref, lost>>
           \/ /\ obj[i].idr /\ session[i] /\ ~obj[i].listed
              /\ PutInst(u, i, "idle")
              /\ UNCHANGED lost
           \/ /\ ~(obj[i].idr /\ session[i])
              /\ lost' = [lost EXCEPT ![i] = @ + 1]
              /\ Return(u, i, "idle")
              /\ UNCHANGED kref
        /\ UNCHANGED <<coreVars, ssrVars, lockVars, instances, mem, state,
                       session, obj, cmdVars, creates>>

UserPut(u) ==
    /\ pc[u] = "use"
    /\ PutInst(u, job[u].inst, "idle")
    /\ UNCHANGED <<coreVars, ssrVars, lockVars, instances, mem, lost, state,
                   session, obj, cmdVars, creates>>

-----------------------------------------------------------------------------
(* msm_cvp_close: the file is released, so no ioctl on it is under way. *)

CloseStart(i) ==
    /\ pc[i] = "opened"
    /\ \A u \in Users : job[u].inst # i
    /\ Goto(i, CASE ~session[i] /\ INIT_DONE <= state[i]
                                /\ state[i] < OPEN_DONE -> "raw"
                 [] ~session[i] /\ state[i] = CORE_UNINIT -> "stuck"
                 [] i \in BootInsts -> "call_uninit"
                 [] OTHER -> "cleanup")
    /\ UNCHANGED <<coreVars, ssrVars, lockVars, refVars, state, session, obj,
                   cmdVars, creates, job>>

(* No session: inst->state is stored without inst->lock. *)
CloseRaw(i) ==
    /\ pc[i] = "raw"
    /\ state' = [state EXCEPT ![i] = CORE_UNINIT]
    /\ Goto(i, "clean")
    /\ UNCHANGED <<coreVars, ssrVars, lockVars, refVars, session, obj,
                   cmdVars, creates, job>>

(* msm_cvp_cleanup_instance takes a reference of its own, if it can ... *)
CleanupGet(i) ==
    /\ pc[i] = "cleanup" /\ CoreFree
    /\ IF CanGet(i)
       THEN kref' = [kref EXCEPT ![i] = @ + 1] /\ Goto(i, "flush")
       ELSE UNCHANGED kref /\ Goto(i, "deinit")
    /\ UNCHANGED <<coreVars, ssrVars, lockVars, instances, mem, lost, state,
                   session, obj, cmdVars, creates, job>>

(* Mutant: the error exit keeps the reference. *)
MutCleanupPut(i) ==
    /\ pc[i] = "flush"
    /\ \/ PutInst(i, i, "deinit")
       \/ obj[i].listed /\ Return(i, i, "stuck") /\ UNCHANGED kref
    /\ UNCHANGED <<coreVars, ssrVars, lockVars, instances, mem, lost, state,
                   session, obj, cmdVars, creates>>

(* ... and gives it back after msm_cvp_session_flush_stop, which can fail  *)
(* on a session the device knows.  Then close returns without more ado.    *)
CleanupPut(i) ==
    /\ pc[i] = "flush"
    /\ \/ PutInst(i, i, "deinit")
       \/ obj[i].listed /\ PutInst(i, i, "stuck")
    /\ UNCHANGED <<coreVars, ssrVars, lockVars, instances, mem, lost, state,
                   session, obj, cmdVars, creates>>

(* msm_cvp_session_deinit, for a session that is in the IDR. *)
CloseDeinit(i) ==
    /\ pc[i] = "deinit"
    /\ IF session[i] /\ obj[i].idr
       THEN CallTry(i, i, "deinit")
       ELSE Goto(i, "call_uninit") /\ UNCHANGED job
    /\ UNCHANGED <<coreVars, ssrVars, lockVars, refVars, state, session, obj,
                   cmdVars, creates>>

CloseUninit(i) ==
    /\ pc[i] = "call_uninit"
    /\ CallTry(i, i, "uninit")
    /\ UNCHANGED <<coreVars, ssrVars, lockVars, refVars, state, session, obj,
                   cmdVars, creates>>

(* The move failed: msm_cvp_deinit_core. *)
CloseDeinitCore(i) ==
    /\ pc[i] = "deinit_core" /\ CoreFree
    /\ ChangeState(i, CORE_UNINIT)
    /\ Goto(i, "clean")
    /\ UNCHANGED <<coreVars, ssrVars, lockVars, refVars, session, obj,
                   cmdVars, creates, job>>

(* The end of msm_cvp_close, and of a failed msm_cvp_open. *)
FinalClean(i) ==
    /\ pc[i] = "clean"
    /\ SessionClean(i)
    /\ Goto(i, "put")
    /\ UNCHANGED <<coreVars, ssrVars, lockVars, refVars, state, cmdVars,
                   creates, job>>

FinalPut(i) ==
    /\ pc[i] = "put"
    /\ PutInst(i, i, "closed")
    /\ UNCHANGED <<coreVars, ssrVars, lockVars, instances, mem, lost, state,
                   session, obj, cmdVars, creates>>

-----------------------------------------------------------------------------
(* iris_hfi_core_work_handler: responses of the firmware. *)

IrqSysInitDone ==
    /\ pc["irq"] = "idle" /\ dev_up /\ sys_msg
    /\ sys_msg' = FALSE
    /\ sys_done' = sys_done + 1
    /\ UNCHANGED <<core_state, dev_up, fooled, ssrVars, lockVars, refVars,
                   state, session, obj, cmdVars, creates, pc, job>>

(* A session response is matched with a session of the device ... *)
IrqTake(i, cmd, status) ==
    /\ pc["irq"] = "idle" /\ dev_up /\ DevFree
    /\ cmd \in replies[i]
    /\ replies' = [replies EXCEPT ![i] = @ \ {cmd}]
    /\ IF obj[i].listed
       THEN /\ job' = [job EXCEPT !["irq"] = [NoJob(i) EXCEPT !.why = cmd,
                                                              !.rc = status]]
            /\ Goto("irq", "get")
       ELSE UNCHANGED <<pc, job>>
    /\ UNCHANGED <<coreVars, ssrVars, lockVars, refVars, state, session, obj,
                   done, hfi_error, prev_error, creates>>

(* ... the callback looks its instance up again (cvp_get_inst) ... *)
IrqGet ==
    LET i == job["irq"].inst
    IN  /\ pc["irq"] = "get" /\ CoreFree
        /\ IF CanGet(i)
           THEN /\ kref' = [kref EXCEPT ![i] = @ + 1]
                /\ Goto("irq", "signal") /\ UNCHANGED job
           ELSE UNCHANGED kref /\ Return("irq", i, "idle")
        /\ UNCHANGED <<coreVars, ssrVars, lockVars, instances, mem, lost,
                       state, session, obj, cmdVars, creates>>

(* ... unless the device went down, when the callbacks are skipped ... *)
IrqSkip ==
    /\ pc["irq"] = "get" /\ ~dev_up
    /\ Return("irq", job["irq"].inst, "idle")
    /\ UNCHANGED <<coreVars, ssrVars, lockVars, refVars, state, session, obj,
                   cmdVars, creates>>

(* ... and signals it. *)
IrqSignal ==
    LET i == job["irq"].inst
    IN  /\ pc["irq"] = "signal"
        /\ hfi_error' = [hfi_error EXCEPT ![i] = job["irq"].rc = "err"]
        /\ done' = [done EXCEPT ![i][job["irq"].why] = @ + 1]
        /\ Return("irq", i, "put")
        /\ UNCHANGED <<coreVars, ssrVars, lockVars, refVars, state, session,
                       obj, replies, prev_error, creates>>

(* Mutant: the handler of the response forgets its reference. *)
MutIrqPut ==
    /\ pc["irq"] = "put"
    /\ Return("irq", job["irq"].inst, "idle")
    /\ UNCHANGED <<coreVars, ssrVars, lockVars, refVars, state, session, obj,
                   cmdVars, creates>>

IrqPut ==
    /\ pc["irq"] = "put"
    /\ PutInst("irq", job["irq"].inst, "idle")
    /\ UNCHANGED <<coreVars, ssrVars, lockVars, instances, mem, lost, state,
                   session, obj, cmdVars, creates>>

-----------------------------------------------------------------------------
(* handle_sys_error. *)

WdogFire ==
    /\ pc["wdog"] = "idle" /\ errors < MaxSsr
    /\ errors' = errors + 1
    /\ Goto("wdog", "sys_error")
    /\ UNCHANGED <<coreVars, todo, saved, lockVars, refVars, state, session,
                   obj, cmdVars, creates, job>>

(* The system error has been dealt with; msm_comm_init_core_done fails. *)
SysErrorReturn(t) ==
    IF t = "wdog" THEN Goto(t, "idle") /\ UNCHANGED job
    ELSE /\ Goto(t, "unlock")
         /\ job' = [job EXCEPT ![t].rc = "err"]

(* Mutant: core->state is left as it is. *)
MutSysErrorBegin(t) ==
    /\ pc[t] = "sys_error" /\ CoreFree
    /\ IF core_state = "UNINIT"
       THEN SysErrorReturn(t) /\ UNCHANGED <<core_lock, saved, todo>>
       ELSE /\ core_lock' = t
            /\ saved' = core_state
            /\ todo' = instances
            /\ Goto(t, "invalidate")
            /\ UNCHANGED job
    /\ UNCHANGED <<coreVars, errors, dev_lock, sync, refVars, state, session,
                   obj, cmdVars, creates>>

SysErrorBegin(t) ==
    /\ pc[t] = "sys_error" /\ CoreFree
    /\ IF core_state = "UNINIT"
       THEN SysErrorReturn(t) /\ UNCHANGED <<core_state, core_lock, saved, todo>>
       ELSE /\ core_lock' = t
            /\ saved' = core_state
            /\ core_state' = "UNINIT"
            /\ todo' = instances
            /\ Goto(t, "invalidate")
            /\ UNCHANGED job
    /\ UNCHANGED <<dev_up, sys_msg, sys_done, fooled, errors, dev_lock, sync,
                   refVars, state, session, obj, cmdVars, creates>>

(* Mutant: an instance that is still opening its session is passed over. *)
MutSysErrorInvalidate(t, i) ==
    /\ pc[t] = "invalidate" /\ i \in todo
    /\ todo' = todo \ {i}
    /\ IF state[i] = OPEN
       THEN UNCHANGED <<state, done>>
       ELSE /\ state' = [state EXCEPT ![i] = INVALID]
            /\ done' = [done EXCEPT ![i] =
                          [c \in {"init", "end"} |-> @[c] + 1]]
    /\ UNCHANGED <<coreVars, saved, errors, lockVars, refVars, session, obj,
                   replies, hfi_error, prev_error, creates, pc, job>>

SysErrorInvalidate(t, i) ==
    /\ pc[t] = "invalidate" /\ i \in todo
    /\ todo' = todo \ {i}
    /\ state' = [state EXCEPT ![i] = INVALID]
    /\ done' = IF state[i] = INVALID THEN done
               ELSE [done EXCEPT ![i] = [c \in {"init", "end"} |-> @[c] + 1]]
    /\ UNCHANGED <<coreVars, saved, errors, lockVars, refVars, session, obj,
                   replies, hfi_error, prev_error, creates, pc, job>>

(* iris_hfi_core_release unlinks all sessions; when it reports a failure   *)
(* core->state is restored, although the device is down all the same.      *)
SysErrorRelease(t) ==
    /\ pc[t] = "invalidate" /\ todo = {} /\ DevFree
    /\ dev_up' = FALSE /\ sys_msg' = FALSE
    /\ replies' = [i \in Insts |-> {}]
    /\ obj' = [i \in Insts |-> IF obj[i].listed
                               THEN [obj[i] EXCEPT !.device = FALSE,
                                                   !.listed = FALSE]
                               ELSE obj[i]]
    /\ \/ UNCHANGED <<core_state, fooled>>
       \/ core_state' = saved /\ fooled' = TRUE
    /\ core_lock' = "none"
    /\ SysErrorReturn(t)
    /\ UNCHANGED <<sys_done, ssrVars, dev_lock, sync, refVars, state, session,
                   done, hfi_error, prev_error, creates>>

-----------------------------------------------------------------------------
Try(t) ==
    \/ TryState(t) \/ HandlerCheck(t) \/ InitCore(t) \/ CheckCoreInit(t)
    \/ CoreInitDone(t) \/ CoreInitTimeout(t) \/ SessionInit(t)
    \/ SessionInitWrite(t) \/ SessionInitDone(t) \/ SessionClose(t)
    \/ SessionCloseDone(t) \/ CloseClean(t) \/ Uninit(t) \/ TryUnlock(t)
    \/ ResultCheck(t)

SysError(t) ==
    \/ SysErrorBegin(t)
    \/ \E i \in Insts : SysErrorInvalidate(t, i)
    \/ SysErrorRelease(t)

Destroy(t) == DestroyUnlink(t) \/ DestroyFree(t)

CloseStep(i) ==
    \/ CloseRaw(i) \/ CleanupGet(i) \/ CleanupPut(i) \/ CloseDeinit(i)
    \/ CloseUninit(i) \/ CloseDeinitCore(i) \/ FinalClean(i) \/ FinalPut(i)

OwnerStep(i) ==
    \/ OpenAdd(i) \/ Try(i) \/ SysError(i) \/ CloseStep(i) \/ Destroy(i)

Owner(i) == OpenCount(i) \/ CloseStart(i) \/ OwnerStep(i)

UserStep(u) == UserArp(u) \/ UserValidate(u) \/ UserPut(u) \/ Try(u)
               \/ Destroy(u)

User(u) == UserStep(u) \/ \E i \in Insts : UserCreate(u, i) \/ UserGet(u, i)

IrqStep == IrqGet \/ IrqSkip \/ IrqSignal \/ IrqPut \/ Destroy("irq")

Irq == \/ IrqSysInitDone
       \/ \E i \in Insts, cmd \in {"init", "end"}, status \in {"ok", "err"} :
            IrqTake(i, cmd, status)
       \/ IrqStep

Wdog == WdogFire \/ SysError("wdog")

Next == \/ \E i \in Insts : Owner(i)
        \/ \E u \in Users : User(u)
        \/ Irq
        \/ Wdog

Spec == Init /\ [][Next]_vars

(* Every thread that has begun an operation goes on with it: the waits in  *)
(* it time out, and the holders of the locks are such threads themselves.  *)
(* A mutex that is released again and again is obtained in the end (strong *)
(* fairness).  Nobody is obliged to open, to issue ioctls, to report an    *)
(* error or to close, and the firmware is not obliged to answer.           *)
FairSpec ==
    /\ Spec
    /\ \A i \in Insts : SF_vars(OwnerStep(i))
    /\ \A u \in Users : SF_vars(UserStep(u))
    /\ SF_vars(IrqStep)
    /\ SF_vars(SysError("wdog"))

-----------------------------------------------------------------------------
(* Properties. *)

TypeOK ==
    /\ core_state \in {"UNINIT", "INIT", "INIT_DONE"}
    /\ core_lock \in Threads \cup {"none"}
    /\ dev_lock \in Threads \cup {"none"}
    /\ dev_up \in BOOLEAN /\ sys_msg \in BOOLEAN /\ sys_done \in Nat
    /\ todo \subseteq Insts /\ saved \in {"UNINIT", "INIT", "INIT_DONE"}
    /\ errors \in 0 .. MaxSsr /\ fooled \in BOOLEAN
    /\ instances \subseteq Insts
    /\ mem \in [Insts -> {"none", "live", "freed"}]
    /\ kref \in [Insts -> Nat] /\ lost \in [Insts -> Nat]
    /\ state \in [Insts -> UNINIT_DONE .. INVALID]
    /\ sync \in [Insts -> Threads \cup {"none"}]
    /\ session \in [Insts -> BOOLEAN]
    /\ obj \in [Insts -> [mem : {"none", "live", "freed"}, device : BOOLEAN,
                          listed : BOOLEAN, idr : BOOLEAN]]
    /\ done \in [Insts -> [{"init", "end"} -> Nat]]
    /\ replies \in [Insts -> SUBSET {"init", "end"}]
    /\ hfi_error \in [Insts -> BOOLEAN] /\ prev_error \in [Insts -> BOOLEAN]
    /\ creates \in 0 .. MaxCreate

(* Thread t has a reference on i besides the one of the owner. *)
Holds(t, i) ==
    /\ job[t].inst = i
    /\ pc[t] \in IF t \in Insts THEN {"flush"}
                ELSE {"validate", "use", "signal", "put"}

(* The reference msm_cvp_open created has not been dropped. *)
OwnerHolds(i) ==
    mem[i] = "live" /\ pc[i] \notin {"destroy", "free", "closed"}

(* The reference count is the number of those who will still drop a        *)
(* reference, plus the references cvp_get_inst_validate forgot: no path    *)
(* through open, close, ioctls, responses and restart drops one twice.     *)
KrefExact ==
    \A i \in Insts :
        kref[i] = (IF OwnerHolds(i) THEN 1 ELSE 0)
                  + Cardinality({t \in Threads : Holds(t, i)}) + lost[i]

(* Nobody works on an instance that has been freed: neither a thread that  *)
(* holds a reference, nor an ioctl that relies on the file being open, nor *)
(* handle_sys_error, which walks the list without references.  The         *)
(* interrupt handler may keep the pointer of a freed instance only until   *)
(* cvp_get_inst has looked it up.                                          *)
NoUseAfterFree ==
    /\ \A t \in Threads \ {"wdog"} :
         pc[t] \notin {"idle", "none", "rejected", "closed", "get"}
             => mem[job[t].inst] = "live"
    /\ \A i \in instances \cup todo : mem[i] = "live"

(* The session handle of a live instance is never dangling, and            *)
(* __get_session, which follows every session of the device list to its    *)
(* instance, never meets a freed session or a freed instance.              *)
SessionsLive ==
    \A i \in Insts :
        /\ mem[i] = "live" /\ session[i] => obj[i].mem = "live"
        /\ obj[i].listed => obj[i].mem = "live" /\ mem[i] = "live"

(* Nothing freed is used: no instance by whoever works on it, no session   *)
(* by its instance or by a walk over the device list.                      *)
MemorySafe == NoUseAfterFree /\ SessionsLive

(* handle_sys_error is between its walk and the end of core_release. *)
Restarting == \E t \in Threads : pc[t] = "invalidate"

(* Until it is closed, an instance that is OPEN, OPEN_DONE or CLOSE has a  *)
(* session the device knows: a restart that runs while another thread      *)
(* creates the session leaves no instance that believes in a session that  *)
(* is gone.                                                                *)
OpenHasSession ==
    \A i \in Insts :
        /\ state[i] \in {OPEN, OPEN_DONE, CLOSE}
        /\ pc[i] = "opened" /\ ~Restarting
        => session[i] /\ obj[i].listed

(* When core->state says that the core is initialised the device is up.    *)
(* There are two exceptions, both marked by fooled: core_release reported  *)
(* a failure, and a SYS_INIT_DONE from before a restart was still          *)
(* unconsumed when check_core_init waited for it.                          *)
CoreStateHonest ==
    core_state # "UNINIT" /\ ~fooled => dev_up

(* A restart is not undone: INVALID is left only by the store of           *)
(* msm_cvp_close, which does not look at the state again.                  *)
InvalidSticky ==
    [][\A i \in Insts : state[i] = INVALID /\ state'[i] # INVALID
                          => pc[i] = "raw"]_vars

(* A close that has begun comes to an end, and then the instance is freed  *)
(* unless close gave up on it or a reference was forgotten.                *)
CloseEnds ==
    \A i \in Insts :
        /\ pc[i] \in {"raw", "cleanup", "call_uninit"}
              ~> pc[i] \in {"closed", "stuck"}
        /\ pc[i] = "closed" ~> (mem[i] = "freed" \/ lost[i] > 0)

(* "session might have been removed from the device list in core_release,  *)
(* so check and remove if it is in the list" and "Remove the IDR id        *)
(* assigned to this session" (__session_clean): closing an instance frees  *)
(* its session, whether or not a restart unlinked it.  Does not hold.      *)
SessionCleaned == \A i \in Insts : mem[i] = "freed" => obj[i].mem # "live"
=============================================================================
