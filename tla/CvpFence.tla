------------------------------ MODULE CvpFence ------------------------------
(***************************************************************************)
(* The queues of one session (msm_cvp.c): frames that user threads send,   *)
(* the fence command queue and the fence threads that work it off, the two *)
(* message queues the firmware's answers go to, and session start, stop,   *)
(* flush, close and restart, all of which run against each other.          *)
(*                                                                         *)
(* A frame is fenced by the kernel (its command waits for an input synx    *)
(* and an output synx is signalled when it is done), fenced by the SoC     *)
(* (the hardware handles the synx, the command is sent at once and a fence *)
(* thread only collects the answer), or plain.  Threads: every frame has   *)
(* the thread that sends it; Fthreads are the fence threads; Ctls issue    *)
(* the other ioctls; "wdog" reports a system error.                        *)
(***************************************************************************)
EXTENDS Integers, Sequences, FiniteSets

CONSTANTS KernelFrames, SocFrames, PlainFrames,
          Fthreads,   \* fence threads that can be created
          FthreadNr,  \* inst->prop.fthread_nr
          Ctls,       \* threads that issue control ioctls
          Ops,        \* the control ioctls they issue
          MaxOps,     \* bound on their number
          MaxMsgs,    \* MAX_NUM_MSGS_PER_SESSION
          Restarts    \* whether a system error may happen

Frames == KernelFrames \cup SocFrames \cup PlainFrames
Fenced == KernelFrames \cup SocFrames
Workers == Fthreads \cup Ctls \cup {"wdog"}

ASSUME FramesAssumption == /\ KernelFrames \cap SocFrames = {}
                           /\ KernelFrames \cap PlainFrames = {}
                           /\ SocFrames \cap PlainFrames = {}
ASSUME WorkersAssumption == /\ Fthreads \cap Ctls = {}
                            /\ {"wdog", "none"} \cap (Fthreads \cup Ctls) = {}
                            /\ Frames \cap (Workers \cup {"none"}) = {}
ASSUME FenceBounds == /\ FthreadNr \in Nat \ {0} /\ MaxOps \in Nat
                      /\ MaxMsgs \in Nat \ {0} /\ Restarts \in BOOLEAN
                      /\ Ops \subseteq {"start", "stop", "flush", "recv",
                                        "close"}

VARIABLES
    q_state, q_mode, wait_list, sched_list, send_count, \* fence_cmd_queue
    sq_state, msgs,  \* session_queue "sq" and session_queue_fence "sqf"
    mapped,      \* inst->frames
    fw,          \* frames the firmware has not answered
    stray,       \* frames nobody will unmap before the session is closed
    input,       \* state of the input synx of a frame
    signals,     \* how often its output synx was signalled
    fence,       \* its cvp_fence_command: "none", "live", "freed"
    fwcmd, done, \* control commands under way, and their completions
    invalid,     \* inst->state is MSM_CVP_CORE_INVALID
    valid,       \* the device knows the session
    core_lock,   \* owner of core->lock, or "none"
    restarted,   \* core->state is CVP_CORE_UNINIT
    ops,         \* control ioctls so far
    closing,     \* the file is being released
    sender,      \* control of the thread that sends a frame
    pc, stack, rc, job \* control, calls, result, locals of the others

queueVars == <<q_state, q_mode, wait_list, sched_list, send_count>>
sqVars == <<sq_state, msgs>>
frameVars == <<mapped, fw, stray>>
synxVars == <<input, signals, fence>>
cmdVars == <<fwcmd, done>>
instVars == <<invalid, valid, core_lock, restarted>>
workVars == <<ops, closing, pc, stack, rc, job>>
vars == <<queueVars, sqVars, frameVars, synxVars, cmdVars, instVars, sender,
          workVars>>

Commands == {"start", "stop", "flush"}
NoJob == [frame |-> "none", old |-> "ACTIVE", count |-> 0, seen |-> {}]

(* __init_session_queue and __init_fence_queue; the session is open. *)
Init ==
    /\ q_state = "ACTIVE" /\ q_mode = "NORMAL"
    /\ wait_list = <<>> /\ sched_list = {} /\ send_count = 0
    /\ sq_state = [q \in {"sq", "sqf"} |-> "ACTIVE"]
    /\ msgs = [q \in {"sq", "sqf"} |-> <<>>]
    /\ mapped = {} /\ fw = {} /\ stray = {}
    /\ input = [k \in Frames |-> "active"]
    /\ signals = [k \in Frames |-> 0]
    /\ fence = [k \in Frames |-> "none"]
    /\ fwcmd = {} /\ done = [c \in Commands |-> 0]
    /\ invalid = FALSE /\ valid = TRUE
    /\ core_lock = "none" /\ restarted = FALSE
    /\ ops = 0 /\ closing = FALSE
    /\ sender = [k \in Frames |-> "new"]
    /\ pc = [t \in Workers |-> IF t \in Fthreads THEN "off" ELSE "idle"]
    /\ stack = [t \in Workers |-> <<>>]
    /\ rc = [t \in Workers |-> "ok"]
    /\ job = [t \in Workers |-> NoJob]

-----------------------------------------------------------------------------
Goto(t, label) == pc' = [pc EXCEPT ![t] = label]
SetRc(t, r) == rc' = [rc EXCEPT ![t] = r]
CoreFree == core_lock = "none"

(* A call; what the caller has in rc afterwards is the result, or keeps,   *)
(* for a function without one, the value saved.                            *)
Call(t, f, ret, saved) ==
    /\ Goto(t, f)
    /\ stack' = [stack EXCEPT ![t] = <<[at |-> ret, rc |-> saved]>> \o @]

Return(t, r) ==
    LET caller == Head(stack[t])
    IN  /\ Goto(t, caller.at)
        /\ stack' = [stack EXCEPT ![t] = Tail(@)]
        /\ SetRc(t, IF caller.rc = "result" THEN r ELSE caller.rc)

(* session_send of the device: only a session it knows can send. *)
CanSend == valid

-----------------------------------------------------------------------------
(* Sending a frame: msm_cvp_session_process_hfi and cvp_enqueue_pkt. *)

Step(k, label) == sender' = [sender EXCEPT ![k] = label]

SendBegin(k) ==
    /\ sender[k] = "new" /\ CoreFree /\ ~closing
    /\ Step(k, IF valid /\ ~invalid /\ sq_state["sq"] = "START"
               THEN "enqueue" ELSE "rejected")
    /\ UNCHANGED <<queueVars, sqVars, frameVars, synxVars, cmdVars, instVars,
                   workVars>>

(* Mutant: a frame that is turned away takes the exit that decrements. *)
MutEnqueue(k) ==
    /\ sender[k] = "enqueue"
    /\ IF q_mode = "DRAINING"
       THEN Step(k, "failed") /\ UNCHANGED send_count
       ELSE Step(k, "map") /\ send_count' = send_count + 1
    /\ UNCHANGED <<q_state, q_mode, wait_list, sched_list, sqVars, frameVars,
                   synxVars, cmdVars, instVars, workVars>>

(* Under q->lock: not while a flush is in progress. *)
Enqueue(k) ==
    /\ sender[k] = "enqueue"
    /\ IF q_mode = "DRAINING"
       THEN Step(k, "rejected") /\ UNCHANGED send_count
       ELSE Step(k, "map") /\ send_count' = send_count + 1
    /\ UNCHANGED <<q_state, q_mode, wait_list, sched_list, sqVars, frameVars,
                   synxVars, cmdVars, instVars, workVars>>

(* msm_cvp_map_frame and, in cvp_populate_fences, the import of kernel     *)
(* fences.  When the import fails the frame is unmapped again.             *)
MapFrame(k) ==
    /\ sender[k] = "map"
    /\ \/ /\ mapped' = mapped \cup {k}
          /\ fence' = IF k \in KernelFrames
                      THEN [fence EXCEPT ![k] = "live"] ELSE fence
          /\ Step(k, IF k \in KernelFrames THEN "queue" ELSE "send")
       \/ Step(k, "failed") /\ UNCHANGED <<mapped, fence>>
    /\ UNCHANGED <<queueVars, sqVars, fw, stray, input, signals, cmdVars,
                   instVars, workVars>>

(* Plain frames, and SoC fences in cvp_populate_fences, are sent right     *)
(* away; a frame that cannot be sent is unmapped.                          *)
SendFrame(k) ==
    /\ sender[k] = "send"
    /\ \/ /\ CanSend
          /\ fw' = fw \cup {k}
          /\ fence' = IF k \in SocFrames
                      THEN [fence EXCEPT ![k] = "live"] ELSE fence
          /\ Step(k, IF k \in SocFrames THEN "queue" ELSE "dec")
          /\ UNCHANGED mapped
       \/ /\ mapped' = mapped \ {k}
          /\ Step(k, "failed")
          /\ UNCHANGED <<fw, fence>>
    /\ UNCHANGED <<queueVars, sqVars, stray, input, signals, cmdVars,
                   instVars, workVars>>

(* fence_cmd_queue: the command is queued for the fence threads. *)
QueueFence(k) ==
    /\ sender[k] = "queue"
    /\ wait_list' = Append(wait_list, k)
    /\ Step(k, "dec")
    /\ UNCHANGED <<q_state, q_mode, sched_list, send_count, sqVars, frameVars,
                   synxVars, cmdVars, instVars, workVars>>

SendEnd(k) ==
    /\ sender[k] \in {"dec", "failed"}
    /\ send_count' = send_count - 1
    /\ Step(k, IF sender[k] = "dec" THEN "sent" ELSE "rejected")
    /\ UNCHANGED <<q_state, q_mode, wait_list, sched_list, sqVars, frameVars,
                   synxVars, cmdVars, instVars, workVars>>

-----------------------------------------------------------------------------
(* The fence threads: cvp_fence_thread and cvp_fence_proc. *)

(* Mutant: a waiting thread only looks for commands. *)
MutFenceWait(t) ==
    /\ pc[t] = "wait" /\ wait_list # <<>>
    /\ wait_list' = Tail(wait_list)
    /\ sched_list' = sched_list \cup {Head(wait_list)}
    /\ job' = [job EXCEPT ![t].frame = Head(wait_list)]
    /\ Goto(t, IF Head(wait_list) \in SocFrames THEN "answer" ELSE "input")
    /\ UNCHANGED <<q_state, q_mode, send_count, sqVars, frameVars, synxVars,
                   cmdVars, instVars, sender, ops, closing, stack, rc>>

(* cvp_fence_wait: exit if the queue is not started, else take the first   *)
(* command.                                                                *)
FenceWait(t) ==
    /\ pc[t] = "wait"
    /\ \/ /\ q_state # "START"
          /\ Goto(t, "off")
          /\ UNCHANGED <<wait_list, sched_list, job>>
       \/ /\ q_state = "START" /\ wait_list # <<>>
          /\ wait_list' = Tail(wait_list)
          /\ sched_list' = sched_list \cup {Head(wait_list)}
          /\ job' = [job EXCEPT ![t].frame = Head(wait_list)]
          /\ Goto(t, IF Head(wait_list) \in SocFrames THEN "answer"
                                                      ELSE "input")
    /\ UNCHANGED <<q_state, q_mode, send_count, sqVars, frameVars, synxVars,
                   cmdVars, instVars, sender, ops, closing, stack, rc>>

(* Mutant: a command whose input failed is sent nevertheless. *)
MutFenceInput(t) ==
    LET k == job[t].frame
    IN  /\ pc[t] = "input"
        /\ \/ input[k] = "ok" /\ Goto(t, "send") /\ UNCHANGED <<mapped, rc>>
           \/ /\ input[k] # "ok"
              /\ mapped' = mapped \ {k}
              /\ SetRc(t, "err") /\ Goto(t, "send")
        /\ UNCHANGED <<queueVars, sqVars, fw, stray, synxVars, cmdVars,
                       instVars, sender, ops, closing, stack, job>>

(* The input synx is waited for; it is signalled, cancelled, or the wait   *)
(* times out.                                                              *)
FenceInput(t) ==
    LET k == job[t].frame
    IN  /\ pc[t] = "input"
        /\ \/ input[k] = "ok" /\ Goto(t, "send") /\ UNCHANGED <<mapped, rc>>
           \/ /\ input[k] # "ok"
              /\ mapped' = mapped \ {k}
              /\ SetRc(t, "err") /\ Goto(t, "output")
        /\ UNCHANGED <<queueVars, sqVars, fw, stray, synxVars, cmdVars,
                       instVars, sender, ops, closing, stack, job>>

(* Mutant: a command that cannot be sent is freed without a signal. *)
MutFenceSend(t) ==
    LET k == job[t].frame
    IN  /\ pc[t] = "send"
        /\ \/ /\ CanSend
              /\ fw' = fw \cup {k}
              /\ Goto(t, "answer") /\ UNCHANGED <<stray, rc>>
           \/ /\ SetRc(t, "err") /\ Goto(t, "release")
              /\ stray' = stray \cup {k}
              /\ UNCHANGED fw
        /\ UNCHANGED <<queueVars, sqVars, mapped, synxVars, cmdVars, instVars,
                       sender, ops, closing, stack, job>>

(* The command is sent; when that fails the frame stays mapped. *)
FenceSend(t) ==
    LET k == job[t].frame
    IN  /\ pc[t] = "send"
        /\ \/ /\ CanSend
              /\ fw' = fw \cup {k}
              /\ Goto(t, "answer") /\ UNCHANGED <<stray, rc>>
           \/ /\ SetRc(t, "err") /\ Goto(t, "output")
              /\ stray' = stray \cup {k}
              /\ UNCHANGED fw
        /\ UNCHANGED <<queueVars, sqVars, mapped, synxVars, cmdVars, instVars,
                       sender, ops, closing, stack, job>>

(* cvp_msg_pending and cvp_wait_process_message: the message at place n is *)
(* taken from queue q and its frame unmapped ...                           *)
TakeMessage(t, q, n, next) ==
    /\ n \in 1 .. Len(msgs[q])
    /\ msgs' = [msgs EXCEPT ![q] = SubSeq(@, 1, n - 1)
                                     \o SubSeq(@, n + 1, Len(@))]
    /\ mapped' = mapped \ {msgs[q][n]}
    /\ Goto(t, next)

(* ... or none comes in time. *)
MessageTimeout(t, next) == Call(t, "timeout_stop", next, "err")

FenceAnswer(t) ==
    /\ pc[t] = "answer"
    /\ \/ /\ \E n \in 1 .. Len(msgs["sqf"]) :
               /\ msgs["sqf"][n] = job[t].frame
               /\ TakeMessage(t, "sqf", n, "output")
          /\ UNCHANGED stack
       \/ /\ \A n \in 1 .. Len(msgs["sqf"]) :
               msgs["sqf"][n] # job[t].frame
          /\ MessageTimeout(t, "output")
          /\ UNCHANGED <<msgs, mapped>>
    /\ UNCHANGED <<queueVars, sq_state, fw, stray, synxVars, cmdVars, instVars,
                   sender, ops, closing, rc, job>>

(* The output synx of a kernel fence is signalled. *)
FenceOutput(t) ==
    LET k == job[t].frame
    IN  /\ pc[t] = "output"
        /\ IF k \in KernelFrames
           THEN /\ signals' = [signals EXCEPT ![k] = @ + 1]
                /\ SetRc(t, "ok")
           ELSE UNCHANGED <<signals, rc>>
        /\ Goto(t, "release")
        /\ UNCHANGED <<queueVars, sqVars, frameVars, input, fence, cmdVars,
                       instVars, sender, ops, closing, stack, job>>

(* Mutant: the command is freed but stays on sched_list. *)
MutFenceRelease(t) ==
    LET k == job[t].frame
    IN  /\ pc[t] = "release"
        /\ fence' = [fence EXCEPT ![k] = "freed"]
        /\ job' = [job EXCEPT ![t] = NoJob]
        /\ SetRc(t, "ok")
        /\ Goto(t, IF rc[t] = "err" /\ q_state # "START" THEN "off" ELSE "wait")
        /\ UNCHANGED <<queueVars, sqVars, frameVars, input, signals, cmdVars,
                       instVars, sender, ops, closing, stack>>

(* The command leaves sched_list and is freed. *)
FenceRelease(t) ==
    LET k == job[t].frame
    IN  /\ pc[t] = "release"
        /\ sched_list' = sched_list \ {k}
        /\ fence' = [fence EXCEPT ![k] = "freed"]
        /\ job' = [job EXCEPT ![t] = NoJob]
        /\ SetRc(t, "ok")
        /\ Goto(t, IF rc[t] = "err" /\ q_state # "START" THEN "off" ELSE "wait")
        /\ UNCHANGED <<q_state, q_mode, wait_list, send_count, sqVars,
                       frameVars, input, signals, cmdVars, instVars,
                       sender, ops, closing, stack>>

-----------------------------------------------------------------------------
(* cvp_fence_thread_stop. *)

StopThreads ==
    /\ q_state' = "STOP"
    /\ sq_state' = [sq_state EXCEPT !["sqf"] = "STOP"]

ThreadStop(t) ==
    /\ pc[t] = "thread_stop"
    /\ StopThreads
    /\ Return(t, rc[t])
    /\ UNCHANGED <<q_mode, wait_list, sched_list, send_count, msgs, frameVars,
                   synxVars, cmdVars, instVars, sender, ops, closing, job>>

-----------------------------------------------------------------------------
(* cvp_clean_fence_queue. *)

CleanMode(t) ==
    /\ pc[t] = "clean"
    /\ q_mode' = "DRAINING"
    /\ Goto(t, "clean_wait")
    /\ UNCHANGED <<q_state, wait_list, sched_list, send_count, sqVars,
                   frameVars, synxVars, cmdVars, instVars, sender, ops, closing, stack,
                   rc, job>>

(* Wait until all the sending is finished, or give up. *)
CleanWait(t) ==
    /\ pc[t] = "clean_wait"
    /\ \/ send_count = 0 /\ Goto(t, "clean_lists") /\ UNCHANGED <<stack, rc>>
       \/ send_count > 0 /\ Return(t, "err")
    /\ UNCHANGED <<queueVars, sqVars, frameVars, synxVars, cmdVars, instVars,
                   sender, ops, closing, job>>

Waiting == {wait_list[n] : n \in 1 .. Len(wait_list)}

(* The commands of s whose fences the SoC handles, in their order. *)
SocOnly(s) ==
    LET kept[n \in 0 .. Len(s)] ==
          IF n = 0 THEN <<>>
          ELSE IF s[n] \in SocFrames THEN Append(kept[n - 1], s[n])
                                     ELSE kept[n - 1]
    IN  kept[Len(s)]

(* Under q->lock: the waiting commands with kernel fences are cancelled,   *)
(* and the input synx of those a thread works on.                          *)
CleanLists(t) ==
    LET gone == Waiting \cap KernelFrames
    IN  /\ pc[t] = "clean_lists"
        /\ wait_list' = SocOnly(wait_list)
        /\ mapped' = mapped \ gone
        /\ fence' = [k \in Frames |-> IF k \in gone THEN "freed" ELSE fence[k]]
        /\ signals' = [k \in Frames |-> IF k \in gone
                                        THEN signals[k] + 1 ELSE signals[k]]
        /\ input' = [k \in Frames |->
                        IF k \in sched_list \cap KernelFrames
                           /\ input[k] = "active"
                        THEN "cancel" ELSE input[k]]
        /\ job' = [job EXCEPT ![t].seen = KernelFrames
                                            \cap (Waiting \cup sched_list)]
        /\ Return(t, "ok")
        /\ UNCHANGED <<q_state, q_mode, sched_list, send_count, sqVars, fw,
                       stray, cmdVars, instVars, sender, ops, closing>>

-----------------------------------------------------------------------------
(* Control commands and wait_for_sess_signal_receipt. *)

(* Command c is sent, or cannot be. *)
SendCommand(t, c, next, failed) ==
    \/ /\ CanSend
       /\ fwcmd' = fwcmd \cup {c}
       /\ Goto(t, next) /\ UNCHANGED rc
    \/ /\ SetRc(t, "err") /\ Goto(t, failed)
       /\ UNCHANGED fwcmd

(* A completion is taken; the firmware may have reported an error.  When   *)
(* none comes in time the session timeout is handled, without a stop.      *)
WaitSignal(t, c, next) ==
    \/ /\ done[c] > 0
       /\ done' = [done EXCEPT ![c] = @ - 1]
       /\ \/ ~invalid /\ SetRc(t, "ok")
          \/ SetRc(t, "err")
       /\ Goto(t, next) /\ UNCHANGED stack
    \/ /\ done[c] = 0
       /\ Call(t, "timeout", next, "err")
       /\ UNCHANGED <<done, rc>>

(* handle_session_timeout: a session that is gone is left alone; a hung    *)
(* firmware is restarted; otherwise the session is stopped if required.    *)
SessionTimeout(t) ==
    /\ pc[t] \in {"timeout", "timeout_stop"} /\ CoreFree
    /\ \/ ~valid /\ Return(t, "ok")
       \/ valid /\ Restarts /\ Goto(t, "sys_error") /\ UNCHANGED <<stack, rc>>
       \/ /\ valid
          /\ IF pc[t] = "timeout_stop"
             THEN Goto(t, "flush_stop") /\ UNCHANGED <<stack, rc>>
             ELSE Return(t, "ok")
    /\ UNCHANGED <<queueVars, sqVars, frameVars, synxVars, cmdVars, instVars,
                   sender, ops, closing, job>>

-----------------------------------------------------------------------------
(* cvp_session_flush_all. *)

FlushAll(t) ==
    /\ pc[t] = "flush" /\ CoreFree
    /\ IF valid THEN Call(t, "clean", "flush_cleaned", "result") /\ UNCHANGED rc
                ELSE Return(t, "err")
    /\ UNCHANGED <<queueVars, sqVars, frameVars, synxVars, cmdVars, instVars,
                   sender, ops, closing, job>>

(* The queue is clean, or is not and the rest is skipped. *)
FlushSend(t) ==
    /\ pc[t] = "flush_cleaned"
    /\ IF rc[t] = "ok" THEN SendCommand(t, "flush", "flush_wait", "flush_exit")
                       ELSE Goto(t, "flush_exit") /\ UNCHANGED <<fwcmd, rc>>
    /\ UNCHANGED <<queueVars, sqVars, frameVars, synxVars, done, instVars,
                   sender, ops, closing, stack, job>>

FlushWait(t) ==
    /\ pc[t] = "flush_wait"
    /\ WaitSignal(t, "flush", "flush_exit")
    /\ UNCHANGED <<queueVars, sqVars, frameVars, synxVars, fwcmd, instVars,
                   sender, ops, closing, job>>

(* Mutant: the commands the threads work on are not waited for. *)
MutFlushDrain(t) ==
    /\ pc[t] = "flush_exit"
    /\ Goto(t, "flush_end") /\ UNCHANGED rc
    /\ UNCHANGED <<queueVars, sqVars, frameVars, synxVars, cmdVars, instVars,
                   sender, ops, closing, stack, job>>

(* cvp_drain_fence_sched_list, after a flush that went well so far. *)
FlushDrain(t) ==
    /\ pc[t] = "flush_exit"
    /\ \/ rc[t] = "ok" /\ sched_list # {} /\ SetRc(t, "err")
       \/ (rc[t] = "ok" => sched_list = {}) /\ UNCHANGED rc
    /\ Goto(t, "flush_end")
    /\ UNCHANGED <<queueVars, sqVars, frameVars, synxVars, cmdVars, instVars,
                   sender, ops, closing, stack, job>>

FlushEnd(t) ==
    /\ pc[t] = "flush_end"
    /\ q_mode' = "NORMAL"
    /\ job' = [job EXCEPT ![t].seen = {}]
    /\ Return(t, rc[t])
    /\ UNCHANGED <<q_state, wait_list, sched_list, send_count, sqVars,
                   frameVars, synxVars, cmdVars, instVars, sender, ops, closing>>

-----------------------------------------------------------------------------
(* msm_cvp_session_flush_stop. *)

FlushStop(t) ==
    /\ pc[t] = "flush_stop" /\ CoreFree
    /\ CASE ~valid -> Return(t, "err")
         [] valid /\ sq_state["sq"] = "STOP" -> Return(t, "ok")
         [] valid /\ sq_state["sq"] = "ACTIVE" ->
              Goto(t, "stop_queue") /\ SetRc(t, "ok") /\ UNCHANGED stack
         [] OTHER -> Call(t, "flush", "flush_stop_send", "result")
                     /\ UNCHANGED rc
    /\ UNCHANGED <<queueVars, sqVars, frameVars, synxVars, cmdVars, instVars,
                   sender, ops, closing, job>>

FlushStopSend(t) ==
    /\ pc[t] = "flush_stop_send"
    /\ IF rc[t] = "ok"
       THEN SendCommand(t, "stop", "flush_stop_wait", "stop_queue")
       ELSE Goto(t, "stop_queue") /\ UNCHANGED <<fwcmd, rc>>
    /\ UNCHANGED <<queueVars, sqVars, frameVars, synxVars, done, instVars,
                   sender, ops, closing, stack, job>>

FlushStopWait(t) ==
    /\ pc[t] = "flush_stop_wait"
    /\ WaitSignal(t, "stop", "stop_queue")
    /\ UNCHANGED <<queueVars, sqVars, frameVars, synxVars, fwcmd, instVars,
                   sender, ops, closing, job>>

(* stop_thread, of flush_stop and of session_stop. *)
StopQueue(t) ==
    /\ pc[t] = "stop_queue"
    /\ sq_state' = [sq_state EXCEPT !["sq"] =
                        IF rc[t] = "ok" THEN "STOP" ELSE "INVALID"]
    /\ Goto(t, "thread_stop")
    /\ UNCHANGED <<queueVars, msgs, frameVars, synxVars, cmdVars, instVars,
                   sender, ops, closing, stack, rc, job>>

-----------------------------------------------------------------------------
(* handle_sys_error, as far as this session is concerned. *)

SysErrorBegin(t) ==
    /\ pc[t] = "sys_error" /\ CoreFree
    /\ IF restarted
       THEN Return(t, "ok") /\ UNCHANGED <<core_lock, restarted, invalid>>
       ELSE /\ core_lock' = t /\ restarted' = TRUE
            /\ invalid' = TRUE
            /\ Goto(t, IF invalid THEN "core_release" ELSE "clean_queues")
            /\ UNCHANGED <<stack, rc>>
    /\ UNCHANGED <<queueVars, sqVars, frameVars, synxVars, cmdVars, valid,
                   sender, ops, closing, job>>

(* cvp_clean_session_queues: the result of the cleaning is not looked at.  *)
CleanQueues(t) ==
    /\ pc[t] = "clean_queues"
    /\ IF q_state \in {"START", "ACTIVE"}
       THEN Call(t, "clean", "queues_stop", "ok")
       ELSE Goto(t, "queues_stop") /\ UNCHANGED stack
    /\ UNCHANGED <<queueVars, sqVars, frameVars, synxVars, cmdVars, instVars,
                   sender, ops, closing, rc, job>>

QueuesStop(t) ==
    /\ pc[t] = "queues_stop"
    /\ StopThreads
    /\ Goto(t, "queues_wait")
    /\ UNCHANGED <<q_mode, wait_list, sched_list, send_count, msgs, frameVars,
                   synxVars, cmdVars, instVars, sender, ops, closing, stack,
                   rc, job>>

(* "Waiting for all output synx sent", but not for ever. *)
QueuesWait(t) ==
    /\ pc[t] = "queues_wait"
    /\ SetRc(t, IF sched_list = {} THEN "ok" ELSE "err")
    /\ Goto(t, "complete")
    /\ UNCHANGED <<queueVars, sqVars, frameVars, synxVars, cmdVars, instVars,
                   sender, ops, closing, stack, job>>

Complete(t) ==
    /\ pc[t] = "complete"
    /\ done' = [c \in Commands |-> done[c] + 1]
    /\ Goto(t, "core_release")
    /\ UNCHANGED <<queueVars, sqVars, frameVars, synxVars, fwcmd, instVars,
                   sender, ops, closing, stack, rc, job>>

(* The device is down: the session is unlinked and the firmware touches no *)
(* frame any more; completions it already sent may still arrive.           *)
CoreRelease(t) ==
    /\ pc[t] = "core_release"
    /\ valid' = FALSE /\ fw' = {}
    /\ core_lock' = "none"
    /\ job' = [job EXCEPT ![t].seen = {}]
    /\ Return(t, "ok")
    /\ UNCHANGED <<queueVars, sqVars, mapped, stray, synxVars, cmdVars, invalid,
                   restarted, sender, ops, closing>>

-----------------------------------------------------------------------------
(* The control ioctls. *)

(* SESSION_START and SESSION_STOP are tried in any state; the others fail  *)
(* in session_state_check_init when the instance is INVALID.  A close      *)
(* comes after all ioctls on the file and is the last operation.           *)
Begin(t, op) ==
    /\ pc[t] = "idle" /\ ops < MaxOps /\ ~closing
    /\ op \in {"flush", "recv"} => ~invalid
    /\ op = "close" => /\ \A c \in Ctls : pc[c] = "idle"
                       /\ \A k \in Frames :
                            sender[k] \in {"new", "sent", "rejected"}
    /\ ops' = ops + 1
    /\ closing' = (op = "close")
    /\ IF op = "close" THEN Call(t, "flush_stop", "close_wait", "result")
                       ELSE Call(t, op, "idle", "ok")
    /\ UNCHANGED <<queueVars, sqVars, frameVars, synxVars, cmdVars, instVars,
                   sender, rc, job>>

(* msm_cvp_session_start. *)
Start(t) ==
    /\ pc[t] = "start"
    /\ IF msgs["sq"] # <<>>
       THEN Return(t, "err") /\ UNCHANGED <<sq_state, job>>
       ELSE /\ job' = [job EXCEPT ![t].old = sq_state["sq"]]
            /\ sq_state' = [sq_state EXCEPT !["sq"] = "START"]
            /\ Goto(t, "start_threads") /\ UNCHANGED <<stack, rc>>
    /\ UNCHANGED <<queueVars, msgs, frameVars, synxVars, cmdVars, instVars,
                   sender, ops, closing>>

(* cvp_fence_thread_start ... *)
StartThreads(t) ==
    /\ pc[t] = "start_threads" /\ CoreFree
    /\ IF valid
       THEN /\ q_state' = "START"
            /\ job' = [job EXCEPT ![t].count = 0]
            /\ Goto(t, "spawn")
       ELSE Goto(t, "start_restore") /\ UNCHANGED <<q_state, job>>
    /\ UNCHANGED <<q_mode, wait_list, sched_list, send_count, sqVars,
                   frameVars, synxVars, cmdVars, instVars, sender, ops,
                   closing, stack, rc>>

(* ... a thread and its reference at a time ... *)
Spawn(t) ==
    /\ pc[t] = "spawn" /\ CoreFree /\ valid
    /\ \E f \in Fthreads :
         /\ pc[f] = "off"
         /\ pc' = [pc EXCEPT ![f] = "wait",
                            ![t] = IF job[t].count + 1 = FthreadNr
                                   THEN "start_send" ELSE "spawn"]
    /\ sq_state' = IF job[t].count + 1 = FthreadNr
                   THEN [sq_state EXCEPT !["sqf"] = "START"] ELSE sq_state
    /\ job' = [job EXCEPT ![t].count = @ + 1]
    /\ UNCHANGED <<queueVars, msgs, frameVars, synxVars, cmdVars, instVars,
                   sender, ops, closing, stack, rc>>

(* ... until the session turns out to be gone. *)
SpawnFail(t) ==
    /\ pc[t] = "spawn" /\ CoreFree /\ ~valid
    /\ q_state' = "STOP"
    /\ Goto(t, "start_restore")
    /\ UNCHANGED <<q_mode, wait_list, sched_list, send_count, sqVars,
                   frameVars, synxVars, cmdVars, instVars, sender, ops,
                   closing, stack, rc, job>>

StartSend(t) ==
    /\ pc[t] = "start_send"
    /\ SendCommand(t, "start", "start_wait", "start_undo")
    /\ UNCHANGED <<queueVars, sqVars, frameVars, synxVars, done, instVars,
                   sender, ops, closing, stack, job>>

StartWait(t) ==
    /\ pc[t] = "start_wait"
    /\ WaitSignal(t, "start", "start_check")
    /\ UNCHANGED <<queueVars, sqVars, frameVars, synxVars, fwcmd, instVars,
                   sender, ops, closing, job>>

StartCheck(t) ==
    /\ pc[t] \in {"start_check", "start_undo"}
    /\ IF pc[t] = "start_check" /\ rc[t] = "ok"
       THEN Return(t, "ok") /\ job' = [job EXCEPT ![t] = NoJob]
       ELSE /\ Call(t, "thread_stop", "start_restore", "err")
            /\ UNCHANGED <<rc, job>>
    /\ UNCHANGED <<queueVars, sqVars, frameVars, synxVars, cmdVars, instVars,
                   sender, ops, closing>>

StartRestore(t) ==
    /\ pc[t] = "start_restore"
    /\ sq_state' = [sq_state EXCEPT !["sq"] = job[t].old]
    /\ job' = [job EXCEPT ![t] = NoJob]
    /\ Return(t, "err")
    /\ UNCHANGED <<queueVars, msgs, frameVars, synxVars, cmdVars, instVars,
                   sender, ops, closing>>

(* msm_cvp_session_stop. *)
Stop(t) ==
    /\ pc[t] = "stop" /\ CoreFree
    /\ IF \/ ~valid
          \/ sq_state["sq"] = "STOP"
          \/ sq_state["sq"] # "INVALID" /\ msgs["sq"] # <<>>
       THEN Return(t, IF valid /\ sq_state["sq"] = "STOP" THEN "ok" ELSE "err")
       ELSE Goto(t, "stop_send") /\ UNCHANGED <<stack, rc>>
    /\ UNCHANGED <<queueVars, sqVars, frameVars, synxVars, cmdVars, instVars,
                   sender, ops, closing, job>>

StopSend(t) ==
    /\ pc[t] = "stop_send"
    /\ SendCommand(t, "stop", "stop_wait", "stop_queue")
    /\ UNCHANGED <<queueVars, sqVars, frameVars, synxVars, done, instVars,
                   sender, ops, closing, stack, job>>

StopWait(t) ==
    /\ pc[t] = "stop_wait"
    /\ WaitSignal(t, "stop", "stop_check")
    /\ UNCHANGED <<queueVars, sqVars, frameVars, synxVars, fwcmd, instVars,
                   sender, ops, closing, job>>

StopCheck(t) ==
    /\ pc[t] = "stop_check"
    /\ Goto(t, IF rc[t] = "ok" THEN "stop_queue" ELSE "flush_stop")
    /\ UNCHANGED <<queueVars, sqVars, frameVars, synxVars, cmdVars, instVars,
                   sender, ops, closing, stack, rc, job>>

(* msm_cvp_session_receive_hfi. *)
Recv(t) ==
    /\ pc[t] = "recv" /\ CoreFree
    /\ IF valid THEN Goto(t, "recv_wait") /\ UNCHANGED <<stack, rc>>
                ELSE Return(t, "err")
    /\ UNCHANGED <<queueVars, sqVars, frameVars, synxVars, cmdVars, instVars,
                   sender, ops, closing, job>>

RecvWait(t) ==
    /\ pc[t] = "recv_wait"
    /\ \/ /\ sq_state["sq"] = "INVALID"
          /\ Goto(t, "recv_null") /\ UNCHANGED <<msgs, mapped>>
       \/ /\ sq_state["sq"] # "INVALID"
          /\ TakeMessage(t, "sq", 1, "recv_end")
       \/ /\ sq_state["sq"] # "INVALID" /\ msgs["sq"] = <<>>
          /\ Goto(t, "timeout_stop") /\ UNCHANGED <<msgs, mapped>>
    /\ UNCHANGED <<queueVars, sq_state, fw, stray, synxVars, cmdVars,
                   instVars, sender, ops, closing, stack, rc, job>>

(* No message because the queue was INVALID: if it is not any more, the    *)
(* session is killed.                                                      *)
RecvNull(t) ==
    /\ pc[t] = "recv_null"
    /\ invalid' = (invalid \/ sq_state["sq"] \in {"ACTIVE", "START"})
    /\ Return(t, "ok")
    /\ UNCHANGED <<queueVars, sqVars, frameVars, synxVars, cmdVars, valid,
                   core_lock, restarted, sender, ops, closing, job>>

RecvEnd(t) ==
    /\ pc[t] = "recv_end"
    /\ Return(t, "ok")
    /\ UNCHANGED <<queueVars, sqVars, frameVars, synxVars, cmdVars, instVars,
                   sender, ops, closing, job>>

(* Mutant: the frames left are unmapped when the wait is over. *)
MutCloseWait(t) ==
    /\ pc[t] = "close_wait"
    /\ mapped' = IF rc[t] = "ok" THEN {} ELSE mapped
    /\ Goto(t, "closed")
    /\ UNCHANGED <<queueVars, sqVars, fw, stray, synxVars, cmdVars,
                   instVars, sender, ops, closing, stack, rc, job>>

(* msm_cvp_cleanup_instance after its flush_stop: the frames are waited    *)
(* for, and what is in the message queues is thrown away meanwhile.        *)
CloseWait(t) ==
    LET swept == {q \in {"sq", "sqf"} : sq_state[q] # "ACTIVE"}
        frames == {k \in mapped : \E q \in swept :
                      \E n \in 1 .. Len(msgs[q]) : msgs[q][n] = k}
    IN  /\ pc[t] = "close_wait"
        /\ \/ /\ rc[t] = "ok" /\ mapped # {}
              /\ msgs' = [q \in {"sq", "sqf"} |->
                            IF q \in swept THEN <<>> ELSE msgs[q]]
              /\ mapped' = mapped \ frames
              /\ UNCHANGED pc
           \/ Goto(t, "closed") /\ UNCHANGED <<msgs, mapped>>
        /\ UNCHANGED <<queueVars, sq_state, fw, stray, synxVars, cmdVars,
                       instVars, sender, ops, closing, stack, rc, job>>

-----------------------------------------------------------------------------
(* The firmware, the owners of the input synx, and the watchdog. *)

Queue(k) == IF k \in Fenced THEN "sqf" ELSE "sq"

(* hfi_process_session_cvp_msg: the answer is queued, or lost because the  *)
(* queue is full or a restart holds core->lock.                            *)
FwAnswer(k) ==
    /\ k \in fw
    /\ fw' = fw \ {k}
    /\ IF CoreFree /\ Len(msgs[Queue(k)]) < MaxMsgs
       THEN /\ msgs' = [msgs EXCEPT ![Queue(k)] = Append(@, k)]
            /\ UNCHANGED stray
       ELSE stray' = stray \cup {k} /\ UNCHANGED msgs
    /\ UNCHANGED <<queueVars, sq_state, mapped, synxVars, cmdVars, instVars,
                   sender, workVars>>

(* handle_session_ctrl. *)
FwDone(c) ==
    /\ c \in fwcmd /\ CoreFree
    /\ fwcmd' = fwcmd \ {c}
    /\ done' = [done EXCEPT ![c] = @ + 1]
    /\ UNCHANGED <<queueVars, sqVars, frameVars, synxVars, instVars, sender,
                   workVars>>

SignalInput(k) ==
    /\ input[k] = "active"
    /\ input' = [input EXCEPT ![k] = "ok"]
    /\ UNCHANGED <<queueVars, sqVars, frameVars, signals, fence,
                   cmdVars, instVars, sender, workVars>>

WdogFire ==
    /\ Restarts /\ pc["wdog"] = "idle" /\ ~restarted
    /\ Call("wdog", "sys_error", "idle", "ok")
    /\ UNCHANGED <<queueVars, sqVars, frameVars, synxVars, cmdVars, instVars,
                   sender, ops, closing, rc, job>>

-----------------------------------------------------------------------------
SendStep(k) ==
    \/ Enqueue(k) \/ MapFrame(k) \/ SendFrame(k) \/ QueueFence(k)
    \/ SendEnd(k)

(* What any thread may find itself doing: timeouts lead into all of it. *)
Shared(t) ==
    \/ ThreadStop(t) \/ CleanMode(t) \/ CleanWait(t) \/ CleanLists(t)
    \/ SessionTimeout(t)
    \/ FlushAll(t) \/ FlushSend(t) \/ FlushWait(t) \/ FlushDrain(t)
    \/ FlushEnd(t)
    \/ FlushStop(t) \/ FlushStopSend(t) \/ FlushStopWait(t) \/ StopQueue(t)
    \/ SysErrorBegin(t) \/ CleanQueues(t) \/ QueuesStop(t) \/ QueuesWait(t)
    \/ Complete(t) \/ CoreRelease(t)

FenceStep(t) ==
    \/ FenceWait(t) \/ FenceInput(t) \/ FenceSend(t) \/ FenceAnswer(t)
    \/ FenceOutput(t) \/ FenceRelease(t) \/ Shared(t)

CtlStep(t) ==
    \/ Start(t) \/ StartThreads(t) \/ Spawn(t) \/ SpawnFail(t)
    \/ StartSend(t) \/ StartWait(t) \/ StartCheck(t) \/ StartRestore(t)
    \/ Stop(t) \/ StopSend(t) \/ StopWait(t) \/ StopCheck(t)
    \/ Recv(t) \/ RecvWait(t) \/ RecvNull(t) \/ RecvEnd(t)
    \/ CloseWait(t) \/ Shared(t)

Environment ==
    \/ \E k \in Frames : SendBegin(k)
    \/ \E t \in Ctls, op \in Ops : Begin(t, op)
    \/ \E k \in Frames : FwAnswer(k)
    \/ \E c \in Commands : FwDone(c)
    \/ \E k \in KernelFrames : SignalInput(k)
    \/ WdogFire

Next ==
    \/ \E k \in Frames : SendStep(k)
    \/ \E t \in Fthreads : FenceStep(t)
    \/ \E t \in Ctls : CtlStep(t)
    \/ Shared("wdog")
    \/ Environment

Spec == Init /\ [][Next]_vars

(* Every thread goes on with what it does: all its waits time out.  Nobody *)
(* is obliged to send or to issue ioctls, nor the firmware to answer, nor  *)
(* anybody to signal an input synx.                                        *)
FairSpec ==
    /\ Spec
    /\ \A k \in Frames : WF_vars(SendStep(k))
    /\ \A t \in Fthreads : SF_vars(FenceStep(t))
    /\ \A t \in Ctls : SF_vars(CtlStep(t))
    /\ SF_vars(Shared("wdog"))

-----------------------------------------------------------------------------
(* Properties. *)

TypeOK ==
    /\ q_state \in {"ACTIVE", "START", "STOP"}
    /\ q_mode \in {"NORMAL", "DRAINING"}
    /\ wait_list \in Seq(Fenced) /\ sched_list \subseteq Fenced
    /\ send_count \in Nat
    /\ sq_state \in [{"sq", "sqf"} -> {"ACTIVE", "START", "STOP", "INVALID"}]
    /\ msgs \in [{"sq", "sqf"} -> Seq(Frames)]
    /\ mapped \subseteq Frames /\ fw \subseteq Frames /\ stray \subseteq Frames
    /\ input \in [Frames -> {"active", "ok", "cancel"}]
    /\ signals \in [Frames -> Nat]
    /\ fence \in [Frames -> {"none", "live", "freed"}]
    /\ fwcmd \subseteq Commands /\ done \in [Commands -> Nat]
    /\ invalid \in BOOLEAN /\ valid \in BOOLEAN /\ restarted \in BOOLEAN
    /\ core_lock \in Workers \cup {"none"}
    /\ ops \in 0 .. MaxOps /\ closing \in BOOLEAN
    /\ rc \in [Workers -> {"ok", "err"}]

(* A frame the firmware may still read or write is mapped: whoever unmaps  *)
(* it - a sender that failed, a fence thread, a reader, a flush - does so  *)
(* before it is sent or after it was answered.                             *)
DmaMapped == fw \subseteq mapped

(* The output synx of a frame is signalled at most once, and before its    *)
(* command is freed, whether a fence thread finishes the command or a      *)
(* flush or restart cancels it.                                            *)
SignalledOnce ==
    \A k \in KernelFrames :
        /\ signals[k] <= 1
        /\ fence[k] = "freed" => signals[k] = 1

(* The places a queued fence command is in. *)
Owners(k) == {f \in Fthreads : job[f].frame = k}
Places(k) == {n \in 1 .. Len(wait_list) : wait_list[n] = k}

(* A queued command is on wait_list once, or on sched_list with one fence  *)
(* thread working on it; a command that was freed is in neither.           *)
FenceOwned ==
    \A k \in Fenced :
        /\ k \in sched_list <=> Owners(k) # {}
        /\ Cardinality(Owners(k)) + Cardinality(Places(k)) =
             IF fence[k] = "live" /\ sender[k] # "queue" THEN 1 ELSE 0

(* The answer to frame k is in its queue. *)
Answered(k) == \E n \in 1 .. Len(msgs[Queue(k)]) : msgs[Queue(k)][n] = k

(* A mapped frame has somebody who will unmap it, until a restart takes    *)
(* the session away.  There are two exceptions, which stay mapped till the *)
(* session is closed: the fence thread could not send the frame, or its    *)
(* answer was dropped.                                                     *)
FrameOwned ==
    \A k \in mapped \ stray :
        valid => \/ sender[k] \in {"send", "queue"}
                 \/ fence[k] = "live"
                 \/ k \in fw
                 \/ Answered(k)

(* send_count is the number of frames on their way through                 *)
(* cvp_enqueue_pkt, on which the cleaning of the fence queue relies.       *)
SendCountExact ==
    send_count = Cardinality({k \in Frames : sender[k] \in
                                {"map", "send", "queue", "dec", "failed"}})

(* A frame and its fences are handled once, by one owner: counted while it *)
(* is sent, mapped while the firmware has it, signalled once, on one list  *)
(* or with one thread, and unmapped by somebody.                           *)
FramesSafe ==
    DmaMapped /\ SignalledOnce /\ FenceOwned /\ FrameOwned /\ SendCountExact

(* When a flush reports success, every kernel-fenced command that was in   *)
(* the queue when the flush cleaned it has been signalled and freed.       *)
FlushedAll ==
    \A t \in Workers :
        pc[t] = "flush_end" /\ rc[t] = "ok" =>
            \A k \in job[t].seen : fence[k] = "freed" /\ signals[k] = 1

(* A queued command with kernel fences is signalled in the end, as long as *)
(* the queue stays started, although neither the firmware nor the owner of *)
(* the input synx need answer.                                             *)
EveryFenceSignalled ==
    \A k \in KernelFrames :
        (fence[k] = "live" /\ sender[k] = "sent")
            ~> (signals[k] = 1 \/ q_state # "START")

(* Once the queue is stopped all fence threads exit, unless it is started  *)
(* again.                                                                  *)
ThreadsExit ==
    q_state = "STOP" ~> (q_state = "START" \/ \A f \in Fthreads : pc[f] = "off")
=============================================================================
