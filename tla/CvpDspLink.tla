----------------------------- MODULE CvpDspLink -----------------------------
(***************************************************************************)
(* The link to the DSP (src/msm/eva/msm_cvp_dsp.c): the state of the DSP   *)
(* as the driver sees it, the commands to the DSP and their answers, the   *)
(* commands from the DSP and the thread that serves them, the appearance   *)
(* and loss of the channel, and the locks that all of these share with the *)
(* power management of the core (device->lock).                            *)
(*                                                                         *)
(* A step is what runs between taking one lock, or waiting for an answer,  *)
(* and the next.  The processes are pm, whoever holds device->lock to      *)
(* collapse, release or initialise the core; dsp, cvp_dsp_thread; and rp,  *)
(* the rpmsg bus.                                                          *)
(***************************************************************************)
EXTENDS Naturals, Sequences, FiniteSets

CONSTANTS
    MaxCalls,    \* bound: calls that collapse, release or initialise the core
    MaxCmds,     \* bound: commands of the DSP
    MaxProbes,   \* bound: times the DSP comes up
    MaxLate      \* bound: types of commands that are answered after their time-out

ASSUME LinkAssumption ==
    {MaxCalls, MaxCmds, MaxProbes, MaxLate} \subseteq Nat

Procs == {"pm", "dsp", "rp"}
Locks == {"dev", "tx", "rx"}
Types == {"queue", "suspend", "shutdown"}
Commands == {"poweron", "poweroff", "create", "delete"}

VARIABLES
    state,       \* me->state
    chan,        \* me->chan is set
    core,        \* the core is initialised
    qtable,      \* the queues shared with the DSP are allocated
    hyp,         \* me->hyp_assigned
    lock,        \* the holder of each lock
    pend,        \* pending_dsp2cpu_rsp; own: it answers the last command sent
    done,        \* completions[type]
    wire,        \* commands the DSP has yet to answer; own: the last one sent
    cmd,         \* pending_dsp2cpu_cmd_header.type
    wake,        \* completions[CPU2DSP_MAX_CMD]
    sess,        \* a DSP session exists
    proc,        \* the processes
    seen         \* what happened so far: counts for the bounds, and causes

vars == <<state, chan, core, qtable, hyp, lock, pend, done, wire, cmd, wake, sess, proc, seen>>

(***************************************************************************)
(* at is where a process is, op what it was called for and in where inside *)
(* that call a command to the DSP was sent: "main", or one of the two      *)
(* commands of cvp_reinit_dsp.  ok is the result of the last part, tried   *)
(* and old are the locals of cvp_dsp_suspend and of a POWERON.             *)
(***************************************************************************)
Idle == [at |-> "idle", op |-> "none", in |-> "main", ok |-> TRUE, tried |-> FALSE,
         old |-> "none"]

Init ==
    /\ state = "UNINIT"
    /\ chan = FALSE
    /\ core \in BOOLEAN
    /\ qtable = core
    /\ hyp = FALSE
    /\ lock = [l \in Locks |-> "free"]
    /\ pend = [type |-> "none", own |-> TRUE, ret |-> "ok"]
    /\ done = [t \in Types |-> 0]
    /\ wire = <<>>
    /\ cmd = "none"
    /\ wake = 0
    /\ sess = FALSE
    /\ proc = [p \in Procs |-> Idle]
    /\ seen = [calls |-> 0, cmds |-> 0, probes |-> 0, late |-> {}, mixed |-> FALSE]

-----------------------------------------------------------------------------
Free(l) == lock[l] = "free"
With(p, S) == [l \in Locks |-> IF l \in S THEN p ELSE lock[l]]
Without(S) == With("free", S)
Held(p) == {l \in Locks : lock[l] = p}

Go(p, at) == proc' = [proc EXCEPT ![p].at = at]

\* The call returns: every lock of p is released.
Return(p) ==
    /\ lock' = Without(Held(p))
    /\ proc' = [proc EXCEPT ![p] = Idle]

\* The command that p sent.
TypeOf(p) ==
    CASE proc[p].in = "shutdown"                           -> "shutdown"
      [] proc[p].in = "main" /\ proc[p].op = "collapse" -> "suspend"
      [] OTHER                                             -> "queue"

\* cvp_dsp_send_cmd_sync up to the wait: fails at once without a channel.
SendSync(p, type, in) ==
    /\ pend' = [pend EXCEPT !.type = type]
    /\ wire' = IF chan
               THEN Append([i \in DOMAIN wire |-> [wire[i] EXCEPT !.own = FALSE]],
                           [type |-> type, own |-> TRUE])
               ELSE wire
    /\ proc' = [proc EXCEPT ![p].at = IF chan THEN "wait" ELSE "unsent", ![p].in = in]

\* wait_for_completion_timeout.
Completed(p) ==
    /\ proc[p].at = "wait"
    /\ done[TypeOf(p)] > 0
    /\ done' = [done EXCEPT ![TypeOf(p)] = @ - 1]
    /\ Go(p, "got")
    /\ UNCHANGED <<state, chan, core, qtable, hyp, lock, pend, wire, cmd, wake, sess, seen>>

\* The DSP answers a command that timed out late, or never.
TimedOut(p) ==
    /\ proc[p].at = "wait"
    /\ done[TypeOf(p)] = 0
    /\ Go(p, "expired")
    /\ \/ /\ wire' = IF wire # <<>> /\ wire[Len(wire)].own
                     THEN SubSeq(wire, 1, Len(wire) - 1)
                     ELSE wire
          /\ UNCHANGED seen
       \/ /\ Cardinality(seen.late \cup {TypeOf(p)}) <= MaxLate
          /\ seen' = [seen EXCEPT !.late = @ \cup {TypeOf(p)}]
          /\ UNCHANGED wire
    /\ UNCHANGED <<state, chan, core, qtable, hyp, lock, pend, done, cmd, wake, sess>>

\* The end of cvp_dsp_send_cmd_sync: reads the answer and gives up the slot.  What
\* the slot holds matters only as long as a completion was left behind.
Returned(p, in, types) ==
    /\ proc[p].at \in {"got", "expired", "unsent"}
    /\ proc[p].in = in
    /\ TypeOf(p) \in types
    /\ pend' = IF \A t \in Types : done[t] = 0
               THEN [type |-> "none", own |-> TRUE, ret |-> "ok"]
               ELSE [pend EXCEPT !.type = "none"]
    /\ seen' = [seen EXCEPT !.mixed = @ \/ (proc[p].at = "got" /\ ~pend.own
                                              /\ TypeOf(p) \notin seen.late)]
    /\ UNCHANGED <<chan, core, qtable, done, wire, cmd, wake, sess>>

\* Whether the call succeeded, and with which answer.
Answer(p) == IF proc[p].at = "got" THEN pend.ret ELSE "failed"

-----------------------------------------------------------------------------
\* The calls made with device->lock held.

Called ==
    /\ proc["pm"].at = "idle"
    /\ seen.calls < MaxCalls
    /\ seen' = [seen EXCEPT !.calls = @ + 1]

\* __power_collapse and cvp_dsp_suspend, before tx_lock.
Collapse(force) ==
    /\ Called
    /\ core
    /\ Free("dev")
    /\ force \/ ~sess \/ state = "SUSPEND"
    /\ lock' = With("pm", {"dev"})
    /\ proc' = [proc EXCEPT !["pm"] = [Idle EXCEPT !.op = "collapse", !.at = "suspend"]]
    /\ UNCHANGED <<state, chan, core, qtable, hyp, pend, done, wire, cmd, wake, sess>>

\* iris_hfi_core_release, for a core that was initialised.
Release ==
    /\ Called
    /\ core
    /\ Free("dev")
    /\ core' = FALSE
    /\ lock' = With("pm", {"dev"})
    /\ proc' = [proc EXCEPT !["pm"] = [Idle EXCEPT !.op = "release", !.at = "shutdown"]]
    /\ UNCHANGED <<state, chan, qtable, hyp, pend, done, wire, cmd, wake, sess>>

\* The end of iris_hfi_core_init: cvp_dsp_send_hfi_queue.
CoreInit ==
    /\ Called
    /\ ~core
    /\ Free("dev")
    /\ lock' = With("pm", {"dev"})
    /\ core' = TRUE
    /\ qtable' = TRUE
    /\ proc' = [proc EXCEPT !["pm"] = [Idle EXCEPT !.op = "queue", !.at = "hfi_queue"]]
    /\ UNCHANGED <<state, chan, hyp, pend, done, wire, cmd, wake, sess>>

\* cvp_dsp_suspend.
Suspend(p) ==
    /\ proc[p].at = "suspend"
    /\ Free("tx")
    /\ \/ /\ state # "READY"
          /\ Return(p)
          /\ UNCHANGED <<pend, wire>>
       \/ /\ state = "READY"
          /\ lock' = With(p, {"tx"})
          /\ SendSync(p, "suspend", "main")
    /\ UNCHANGED <<state, chan, core, qtable, hyp, done, cmd, wake, sess, seen>>

\* fatal_exit: the DSP is given up.
GiveUp == state' = "INVALID" /\ hyp' = FALSE

\* Mutant: cvp_reinit_dsp is called with tx_lock held.
MutSuspended(p) ==
    /\ Returned(p, "main", {"suspend"})
    /\ LET ret == Answer(p)
       IN  \/ /\ ret = "failed"
              /\ Return(p)
              /\ UNCHANGED <<state, hyp>>
           \/ /\ ret = "eunavail" \/ (ret = "efatal" /\ proc[p].tried)
              /\ GiveUp
              /\ Return(p)
           \/ /\ ret = "efatal" /\ ~proc[p].tried
              /\ proc' = [proc EXCEPT ![p].at = "shutdown", ![p].in = "shutdown", ![p].tried = TRUE]
              /\ UNCHANGED <<state, hyp, lock>>
           \/ /\ ret = "ok"
              /\ state' = "SUSPEND"
              /\ Return(p)
              /\ UNCHANGED hyp

Suspended(p) ==
    /\ Returned(p, "main", {"suspend"})
    /\ LET ret == Answer(p)
       IN  \/ /\ ret = "failed"
              /\ Return(p)
              /\ UNCHANGED <<state, hyp>>
           \/ /\ ret = "eunavail" \/ (ret = "efatal" /\ proc[p].tried)
              /\ GiveUp
              /\ Return(p)
           \/ /\ ret = "efatal" /\ ~proc[p].tried
              /\ lock' = Without({"tx"})
              /\ proc' = [proc EXCEPT ![p].at = "shutdown", ![p].in = "shutdown", ![p].tried = TRUE]
              /\ UNCHANGED <<state, hyp>>
           \/ /\ ret = "ok"
              /\ state' = "SUSPEND"
              /\ Return(p)
              /\ UNCHANGED hyp

\* cvp_dsp_send_hfi_queue with device->lock; the memory may not be assignable.
SendHfiQueue(p) ==
    /\ proc[p].at = "hfi_queue"
    /\ Free("tx")
    /\ \/ /\ Return(p)
          /\ UNCHANGED <<hyp, pend, wire>>
       \/ /\ qtable /\ state \in {"PROBED", "INACTIVE"}
          /\ hyp' = TRUE
          /\ lock' = With(p, {"tx"})
          /\ SendSync(p, "queue", "main")
    /\ UNCHANGED <<state, chan, core, qtable, done, cmd, wake, sess, seen>>

HfiQueueSent(p) ==
    /\ Returned(p, "main", {"queue"})
    /\ LET ret == Answer(p)
       IN  \/ /\ ret \in {"failed", "eunsup"}
              /\ Return(p)
              /\ UNCHANGED <<state, hyp>>
           \/ /\ ret = "efatal"
              /\ GiveUp
              /\ Return(p)
           \/ /\ ret = "einvalstate"
              /\ lock' = Without({"tx"})
              /\ proc' = [proc EXCEPT ![p].at = "shutdown", ![p].in = "shutdown"]
              /\ UNCHANGED <<state, hyp>>
           \/ /\ ret = "ok"
              /\ state' = "READY"
              /\ Return(p)
              /\ UNCHANGED hyp

-----------------------------------------------------------------------------
\* cvp_dsp_shutdown, and cvp_reinit_dsp around it.

\* A DSP that was given up is not told, and that counts as success.
Shutdown(p) ==
    /\ proc[p].at = "shutdown"
    /\ Free("tx")
    /\ \/ /\ state = "INVALID"
          /\ IF proc[p].op = "release" THEN Return(p) ELSE Go(p, "remove") /\ UNCHANGED lock
          /\ UNCHANGED <<state, pend, wire>>
       \/ /\ state # "INVALID"
          /\ state' = "INACTIVE"
          /\ lock' = With(p, {"tx"})
          /\ SendSync(p, "shutdown", "shutdown")
    /\ UNCHANGED <<chan, core, qtable, hyp, done, cmd, wake, sess, seen>>

\* The memory is taken back whether or not the DSP answered.
ShutdownSent(p) ==
    /\ Returned(p, "shutdown", {"shutdown"})
    /\ hyp' = FALSE
    /\ IF proc[p].op = "release"
       THEN Return(p)
       ELSE /\ lock' = Without({"tx"})
            /\ Go(p, IF proc[p].at = "got" THEN "remove" ELSE "invalidate")
    /\ UNCHANGED state

\* The thread is in a command that holds a reference on a fastrpc node.
NodeBusy == proc["dsp"].at = "work"

\* cvp_remove_dsp_sessions: msm_cvp_close of a session takes device->lock.  A
\* node that stays busy is given up after some retries, with its sessions.
RemoveSessions(p) ==
    /\ proc[p].at = "remove"
    /\ \/ ~sess /\ UNCHANGED sess
       \/ sess /\ NodeBusy /\ UNCHANGED sess
       \/ sess /\ ~NodeBusy /\ Free("dev") /\ sess' = FALSE
    /\ Go(p, IF p = "rp" THEN "idle" ELSE "resend")
    /\ UNCHANGED <<state, chan, core, qtable, hyp, lock, pend, done, wire, cmd, wake, seen>>

\* __reinit_dsp sends the queue again.
Resend(p) ==
    /\ proc[p].at = "resend"
    /\ Free("tx")
    /\ \/ /\ Go(p, "invalidate")
          /\ UNCHANGED <<hyp, lock, pend, wire>>
       \/ /\ qtable
          /\ hyp' = TRUE
          /\ lock' = With(p, {"tx"})
          /\ SendSync(p, "queue", "resend")
    /\ UNCHANGED <<state, chan, core, qtable, done, cmd, wake, sess, seen>>

Resent(p) ==
    /\ Returned(p, "resend", {"queue"})
    /\ lock' = Without({"tx"})
    /\ Go(p, IF Answer(p) = "ok" THEN "back" ELSE "invalidate")
    /\ UNCHANGED <<state, hyp>>

\* Mutant: the memory is not assigned back.
MutInvalidate(p) ==
    /\ proc[p].at = "invalidate"
    /\ Free("tx")
    /\ state' = "INVALID"
    /\ UNCHANGED hyp
    /\ IF proc[p].op = "queue"
       THEN Return(p)
       ELSE proc' = [proc EXCEPT ![p].at = "back", ![p].ok = FALSE] /\ UNCHANGED lock
    /\ UNCHANGED <<chan, core, qtable, pend, done, wire, cmd, wake, sess, seen>>

\* cvp_reinit_dsp after a failure, which ends cvp_dsp_send_hfi_queue.
Invalidate(p) ==
    /\ proc[p].at = "invalidate"
    /\ Free("tx")
    /\ GiveUp
    /\ IF proc[p].op = "queue"
       THEN Return(p)
       ELSE proc' = [proc EXCEPT ![p].at = "back", ![p].ok = FALSE] /\ UNCHANGED lock
    /\ UNCHANGED <<chan, core, qtable, pend, done, wire, cmd, wake, sess, seen>>

\* Back from cvp_reinit_dsp: the queue is sent, and a suspend is tried again.
Reinitialised(p) ==
    /\ proc[p].at = "back"
    /\ Free("tx")
    /\ \/ /\ proc[p].op = "queue"
          /\ state' = "READY"
          /\ Return(p)
          /\ UNCHANGED <<hyp, pend, wire>>
       \/ /\ proc[p].op = "collapse" /\ ~proc[p].ok
          /\ GiveUp
          /\ Return(p)
          /\ UNCHANGED <<pend, wire>>
       \/ /\ proc[p].op = "collapse" /\ proc[p].ok
          /\ lock' = With(p, {"tx"})
          /\ SendSync(p, "suspend", "main")
          /\ UNCHANGED <<state, hyp>>
    /\ UNCHANGED <<chan, core, qtable, done, cmd, wake, sess, seen>>

-----------------------------------------------------------------------------
\* The DSP and its channel.

Answers(type) ==
    CASE type = "queue"   -> {"ok", "eunsup", "efatal", "einvalstate"}
      [] type = "suspend" -> {"ok", "efatal", "eunavail"}
      [] OTHER            -> {"ok"}

\* Mutant: an answer is taken whatever command is waited for.
MutCallbackAnswer ==
    /\ wire # <<>>
    /\ LET m == Head(wire)
       IN  \E ret \in Answers(m.type) :
             /\ pend' = [type |-> m.type, own |-> m.own, ret |-> ret]
             /\ done' = IF pend.type # "none" THEN [done EXCEPT ![pend.type] = @ + 1] ELSE done
    /\ wire' = Tail(wire)
    /\ UNCHANGED <<state, chan, core, qtable, hyp, lock, cmd, wake, sess, proc, seen>>

\* cvp_dsp_rpmsg_callback with an answer: taken if its type is waited for.
CallbackAnswer ==
    /\ wire # <<>>
    /\ LET m == Head(wire)
       IN  IF pend.type = m.type
           THEN /\ \E ret \in Answers(m.type) : pend' = [type |-> m.type, own |-> m.own, ret |-> ret]
                /\ done' = [done EXCEPT ![m.type] = @ + 1]
           ELSE UNCHANGED <<pend, done>>
    /\ wire' = Tail(wire)
    /\ UNCHANGED <<state, chan, core, qtable, hyp, lock, cmd, wake, sess, proc, seen>>

\* cvp_dsp_rpmsg_callback with a command: taken if none is pending.
CallbackCommand(c) ==
    /\ chan
    /\ seen.cmds < MaxCmds
    /\ seen' = [seen EXCEPT !.cmds = @ + 1]
    /\ cmd = "none"
    /\ cmd' = c
    /\ wake' = wake + 1
    /\ UNCHANGED <<state, chan, core, qtable, hyp, lock, pend, done, wire, sess, proc>>

\* cvp_dsp_rpmsg_probe.
RpmsgProbe ==
    /\ proc["rp"].at = "idle"
    /\ ~chan
    /\ Free("tx")
    /\ seen.probes < MaxProbes
    /\ seen' = [seen EXCEPT !.probes = @ + 1]
    /\ chan' = TRUE
    /\ state' = "PROBED"
    /\ wake' = wake + 1
    /\ UNCHANGED <<core, qtable, hyp, lock, pend, done, wire, cmd, sess, proc>>

\* The DSP is gone, and with it what it had not answered.
DspDown ==
    /\ proc["rp"].at = "idle"
    /\ chan
    /\ wire' = <<>>
    /\ Go("rp", "rx")
    /\ UNCHANGED <<state, chan, core, qtable, hyp, lock, pend, done, cmd, wake, sess, seen>>

\* cvp_dsp_rpmsg_remove: a pending command is waited for, up to a bound.
RpmsgRemove ==
    /\ proc["rp"].at = "rx"
    /\ Free("rx")
    /\ lock' = With("rp", {"rx"})
    /\ Go("rp", "tx")
    /\ UNCHANGED <<state, chan, core, qtable, hyp, pend, done, wire, cmd, wake, sess, seen>>

RpmsgRemoved ==
    /\ proc["rp"].at = "tx"
    /\ Free("tx")
    /\ hyp' = FALSE
    /\ chan' = FALSE
    /\ state' = "UNINIT"
    /\ lock' = Without({"rx"})
    /\ Go("rp", "remove")
    /\ UNCHANGED <<core, qtable, pend, done, wire, cmd, wake, sess, seen>>

-----------------------------------------------------------------------------
\* cvp_dsp_thread.

ThreadWakes ==
    /\ proc["dsp"].at = "idle"
    /\ wake > 0
    /\ wake' = wake - 1
    /\ proc' = [proc EXCEPT !["dsp"] =
                  CASE state = "INVALID" -> [Idle EXCEPT !.at = "exited"]
                    [] state = "UNINIT"  -> Idle
                    [] state = "PROBED"  -> [Idle EXCEPT !.at = "dev", !.op = "queue"]
                    [] OTHER             -> [Idle EXCEPT !.at = "rx"]]
    /\ UNCHANGED <<state, chan, core, qtable, hyp, lock, pend, done, wire, cmd, sess, seen>>

ThreadSendsQueue ==
    /\ proc["dsp"].at = "dev"
    /\ Free("dev")
    /\ lock' = With("dsp", {"dev"})
    /\ Go("dsp", "hfi_queue")
    /\ UNCHANGED <<state, chan, core, qtable, hyp, pend, done, wire, cmd, wake, sess, seen>>

\* The command is looked at under rx_lock, if the DSP did not go meanwhile.
ThreadServes ==
    /\ proc["dsp"].at = "rx"
    /\ Free("rx")
    /\ \/ /\ state = "UNINIT"
          /\ Go("dsp", "idle")
          /\ UNCHANGED <<state, lock>>
       \/ /\ state # "UNINIT"
          /\ lock' = With("dsp", {"rx"})
          /\ Go("dsp", CASE cmd = "poweron"              -> "power"
                         [] cmd \in {"create", "delete"} -> "work"
                         [] OTHER                        -> "clear")
          /\ state' = IF cmd = "poweroff" THEN "SUSPEND" ELSE state
    /\ UNCHANGED <<chan, core, qtable, hyp, pend, done, wire, cmd, wake, sess, seen>>

\* Mutant: the state before is not remembered.
MutPowerOn ==
    /\ proc["dsp"].at = "power"
    /\ Free("tx")
    /\ \/ /\ state = "READY"
          /\ Go("dsp", "clear")
          /\ UNCHANGED <<state, lock>>
       \/ /\ state # "READY"
          /\ lock' = With("dsp", {"tx"})
          /\ Go("dsp", "resume")
          /\ state' = "READY"
    /\ UNCHANGED <<chan, core, qtable, hyp, pend, done, wire, cmd, wake, sess, seen>>

\* DSP2CPU_POWERON.
PowerOn ==
    /\ proc["dsp"].at = "power"
    /\ Free("tx")
    /\ \/ /\ state = "READY"
          /\ Go("dsp", "clear")
          /\ UNCHANGED <<state, lock>>
       \/ /\ state # "READY"
          /\ lock' = With("dsp", {"tx"})
          /\ proc' = [proc EXCEPT !["dsp"].at = "resume", !["dsp"].old = state]
          /\ state' = "READY"
    /\ UNCHANGED <<chan, core, qtable, hyp, pend, done, wire, cmd, wake, sess, seen>>

\* iris_hfi_resume, with tx_lock and rx_lock held.
PowerOnResume ==
    /\ proc["dsp"].at = "resume"
    /\ Free("dev")
    /\ state' \in {state, proc["dsp"].old}
    /\ lock' = Without({"tx"})
    /\ Go("dsp", "clear")
    /\ UNCHANGED <<chan, core, qtable, hyp, pend, done, wire, cmd, wake, sess, seen>>

\* DSP2CPU_CREATE_SESSION and DSP2CPU_DETELE_SESSION: commands to the firmware.
SessionCommand ==
    /\ proc["dsp"].at = "work"
    /\ Free("dev")
    /\ sess' \in (IF cmd = "create" THEN {sess, TRUE} ELSE {FALSE})
    /\ Go("dsp", "clear")
    /\ UNCHANGED <<state, chan, core, qtable, hyp, lock, pend, done, wire, cmd, wake, seen>>

\* Mutant: the slot of the command is not freed.
MutThreadAnswers ==
    /\ proc["dsp"].at = "clear"
    /\ Return("dsp")
    /\ UNCHANGED <<state, chan, core, qtable, hyp, pend, done, wire, cmd, wake, sess, seen>>

\* The slot is free again; the answer is sent if there is a channel.
ThreadAnswers ==
    /\ proc["dsp"].at = "clear"
    /\ cmd' = "none"
    /\ Return("dsp")
    /\ UNCHANGED <<state, chan, core, qtable, hyp, pend, done, wire, wake, sess, seen>>

-----------------------------------------------------------------------------
\* What a caller does by itself once it was called.
CallerStep(p) ==
    \/ Completed(p) \/ TimedOut(p)
    \/ Suspend(p) \/ Suspended(p) \/ SendHfiQueue(p) \/ HfiQueueSent(p)
    \/ Shutdown(p) \/ ShutdownSent(p) \/ RemoveSessions(p)
    \/ Resend(p) \/ Resent(p) \/ Invalidate(p) \/ Reinitialised(p)

ThreadStep ==
    \/ ThreadWakes \/ ThreadSendsQueue \/ ThreadServes
    \/ PowerOn \/ PowerOnResume \/ SessionCommand \/ ThreadAnswers

Next ==
    \/ (\E force \in BOOLEAN : Collapse(force)) \/ Release \/ CoreInit
    \/ \E p \in Procs : CallerStep(p)
    \/ CallbackAnswer \/ \E c \in Commands : CallbackCommand(c)
    \/ RpmsgProbe \/ DspDown \/ RpmsgRemove \/ RpmsgRemoved
    \/ ThreadStep

Spec == Init /\ [][Next]_vars

(***************************************************************************)
(* Threads that can run do, and the kernel's timers fire.  Nothing is      *)
(* assumed of the DSP, which may never answer, nor of who calls.           *)
(***************************************************************************)
FairSpec ==
    /\ Spec
    /\ \A p \in Procs : WF_vars(CallerStep(p))
    /\ WF_vars(ThreadStep)
    /\ WF_vars(RpmsgRemove \/ RpmsgRemoved)

-----------------------------------------------------------------------------
States == {"INVALID", "UNINIT", "PROBED", "READY", "SUSPEND", "INACTIVE"}

\* The types of the variables.
TypeOK ==
    /\ state \in States
    /\ {chan, core, qtable, hyp, sess} \subseteq BOOLEAN
    /\ lock \in [Locks -> Procs \cup {"free"}]
    /\ pend.type \in Types \cup {"none"}
    /\ done \in [Types -> Nat]
    /\ \A i \in DOMAIN wire : wire[i].type \in Types
    /\ cmd \in Commands \cup {"none"}
    /\ wake \in 0..(MaxCmds + MaxProbes)
    /\ \A p \in Procs : proc[p].old \in States \cup {"none"}

\* The lock that p is about to take.
Wanted(p) ==
    LET at == proc[p].at
    IN  CASE at \in {"suspend", "shutdown", "hfi_queue", "resend", "invalidate", "back",
                      "power", "tx"} -> "tx"
          [] at \in {"dev", "work", "resume"} \/ (at = "remove" /\ sess /\ ~NodeBusy) -> "dev"
          [] at = "rx" -> "rx"
          [] OTHER -> "none"

\* The processes of S wait for each other.
Cycle(S) ==
    /\ S # {}
    /\ \A p \in S : Wanted(p) # "none" /\ lock[Wanted(p)] \in S

Deadlocked == \E S \in SUBSET Procs : Cycle(S)

\* No set of processes waits for each other's locks, as the removal of the locks
\* from cvp_dsp_resume was to ensure.
NoLockCycle == ~Deadlocked

\* The two cycles the code has are the only ones: POWERON takes device->lock under
\* tx_lock, and a reinitialisation, which is called under device->lock, closes
\* sessions.  rx_lock, the retries and the removal of the channel add none.
OnlyKnownCycles ==
    \A S \in SUBSET Procs : Cycle(S) =>
        \/ "dsp" \in S /\ proc["dsp"].at = "resume"
        \/ \E p \in S : proc[p].at = "remove" /\ lock["dev"] = p

\* A caller whose command was answered reads the answer to this command, however
\* other answers arrive and the channel comes and goes.  The exception is an
\* earlier command of the type that timed out, whose answer comes late.
OwnAnswer == ~seen.mixed

\* Memory is not left with a DSP that is gone or was given up: whatever the order
\* of shutdown, removal and reinitialisation, once no reinitialisation is under
\* way it was assigned back.
MemoryBack ==
    state \in {"INVALID", "UNINIT"} /\ Free("tx") /\ (\A p \in Procs : proc[p].at # "invalidate")
        => ~hyp

\* A command for which the thread was woken is served, and its slot becomes free
\* for the next, unless the DSP is lost, or the thread has exited or is
\* deadlocked.
Served ==
    (cmd # "none" /\ wake > 0 /\ state = "READY")
        ~> (cmd = "none" \/ state # "READY" \/ proc["dsp"].at = "exited" \/ Deadlocked)
=============================================================================
