-------------------------- MODULE CvpFence_proofs --------------------------
(***************************************************************************)
(* Proofs about CvpFence, for any number of frames of each kind, fence     *)
(* threads, control threads and messages, with and without restarts: the   *)
(* types, that a frame and its fence command are handled once by one       *)
(* owner, and that a flush that succeeds leaves nothing behind.            *)
(*                                                                         *)
(* A fence thread that times out runs the code of the ioctls, so that the  *)
(* calls a thread is in decide what it is going to do with its frame.      *)
(* ControlInv says where a thread can be and return to; with it a step of  *)
(* the shared code is seen to keep what each fence thread works on         *)
(* (PhasesKept).  QueueInv says who has a fence command, SentInv where a   *)
(* frame is between its mapping and its answer, SignalInv how often it was *)
(* signalled, CountInv who is counted, and FlushInv what a flush has seen. *)
(***************************************************************************)
EXTENDS CvpFence, FiniteSetTheorems, SequenceTheorems, WellFoundedInduction, TLAPS

-----------------------------------------------------------------------------
\* Where threads can be.

FenceLabels == {"off", "wait", "input", "send", "answer", "output", "release"}
CtlLabels == {"idle", "close_wait", "closed"}

\* The labels inside calls, and the ones calls inside calls return to.
Callees ==
    {"thread_stop", "clean", "clean_wait", "clean_lists", "timeout", "timeout_stop", "flush",
     "flush_cleaned", "flush_wait", "flush_exit", "flush_end", "flush_stop", "flush_stop_send",
     "flush_stop_wait", "stop_queue", "sys_error", "clean_queues", "queues_stop", "queues_wait",
     "complete", "core_release", "start", "start_threads", "spawn", "start_send", "start_wait",
     "start_check", "start_undo", "start_restore", "stop", "stop_send", "stop_wait", "stop_check",
     "recv", "recv_wait", "recv_null", "recv_end"}
Inner == {"flush_cleaned", "flush_exit", "flush_stop_send", "stop_queue", "queues_stop",
          "start_check", "start_restore", "stop_check"}

Own(t) == IF t \in Fthreads THEN FenceLabels ELSE CtlLabels
Bottom(t) == IF t \in Fthreads THEN {"output"} ELSE {"idle", "close_wait"}

Call0 == [at : Inner \cup {"output", "idle", "close_wait"}, rc : {"ok", "err", "result"}]

\* A thread outside all calls is in its own code; inside, the first call returns there.
Placed(t) ==
    \/ pc[t] \in Own(t) /\ stack[t] = <<>>
    \/ /\ pc[t] \in Callees /\ stack[t] # <<>>
       /\ stack[t][Len(stack[t])].at \in Bottom(t)
       /\ \A i \in 1..Len(stack[t]) - 1 : stack[t][i].at \in Inner

ControlInv ==
    /\ pc \in [Workers -> FenceLabels \cup CtlLabels \cup Callees]
    /\ stack \in [Workers -> Seq(Call0)]
    /\ rc \in [Workers -> {"ok", "err"}]
    /\ \A t \in Workers : Placed(t)

-----------------------------------------------------------------------------
\* Types.

Labels == {"new", "enqueue", "map", "send", "queue", "dec", "failed", "sent", "rejected"}
SqStates == {"ACTIVE", "START", "STOP", "INVALID"}
Job == [frame : Frames \cup {"none"}, old : SqStates, count : Nat, seen : SUBSET KernelFrames]

FrameTypes ==
    /\ wait_list \in Seq(Fenced) /\ sched_list \subseteq Fenced
    /\ msgs \in [{"sq", "sqf"} -> Seq(Frames)]
    /\ mapped \subseteq Frames /\ fw \subseteq Frames /\ stray \subseteq Frames
    /\ signals \in [Frames -> Nat]
    /\ fence \in [Frames -> {"none", "live", "freed"}]
    /\ sender \in [Frames -> Labels]
    /\ job \in [Workers -> Job]

OtherTypes ==
    /\ q_state \in {"ACTIVE", "START", "STOP"}
    /\ q_mode \in {"NORMAL", "DRAINING"}
    /\ sq_state \in [{"sq", "sqf"} -> SqStates]
    /\ input \in [Frames -> {"active", "ok", "cancel"}]
    /\ fwcmd \subseteq Commands /\ done \in [Commands -> Nat]
    /\ invalid \in BOOLEAN /\ valid \in BOOLEAN /\ restarted \in BOOLEAN
    /\ core_lock \in Workers \cup {"none"}
    /\ ops \in 0 .. MaxOps /\ closing \in BOOLEAN

-----------------------------------------------------------------------------
\* The fence commands.

Early(k) == sender[k] \in {"new", "enqueue", "map", "failed", "rejected"}

\* A fence thread has a command from FenceWait to FenceRelease.
ThreadInv ==
    \A f \in Fthreads :
        /\ pc[f] \in {"off", "wait"} => job[f].frame = "none"
        /\ pc[f] \notin {"off", "wait"} => job[f].frame \in sched_list
        /\ pc[f] \in {"input", "send"} => job[f].frame \in KernelFrames

NoDuplicates(s) == \A m, n \in 1..Len(s) : s[m] = s[n] => m = n

\* A command is in one place, and only if it is alive.
PlaceInv ==
    /\ NoDuplicates(wait_list)
    /\ \A f, g \in Fthreads :
         job[f].frame = job[g].frame /\ job[f].frame # "none" => f = g
    /\ \A k \in sched_list : \E f \in Fthreads : job[f].frame = k
    /\ \A k \in sched_list : k \notin Waiting
    /\ \A k \in Fenced :
         k \in sched_list \/ k \in Waiting <=> fence[k] = "live" /\ sender[k] # "queue"

\* What the sender of a frame has done with its command.
TagInv ==
    \A k \in Frames :
        /\ fence[k] = "none" <=> Early(k) \/ sender[k] = "send" \/ k \in PlainFrames
        /\ sender[k] = "queue" => k \in Fenced /\ fence[k] = "live"
        /\ sender[k] = "send" => k \notin KernelFrames

QueueInv == ThreadInv /\ PlaceInv /\ TagInv

-----------------------------------------------------------------------------
\* The frames.

Unsent(k) == k \notin fw /\ ~Answered(k)
Busy(k) == \E f \in Fthreads : job[f].frame = k /\ pc[f] \in {"input", "send"}

\* The frame is mapped and not yet sent.
Held(k) ==
    \/ sender[k] = "send"
    \/ k \in KernelFrames /\ (sender[k] = "queue" \/ k \in Waiting \/ Busy(k))

\* Nothing is left to be done for the frame but to collect its answer.
Settled(k) == k \in mapped /\ k \notin stray /\ valid => k \in fw \/ Answered(k)

\* A message is in the queue of its frame.
MsgInv == \A q \in {"sq", "sqf"} : \A n \in 1..Len(msgs[q]) : Queue(msgs[q][n]) = q

FrameSent(k) ==
    /\ Early(k) => k \notin mapped /\ Unsent(k)
    /\ Held(k) => k \in mapped /\ Unsent(k)
    /\ ~Held(k) => Settled(k)
    /\ k \in fw => k \in mapped /\ ~Answered(k)

SentInv == MsgInv /\ \A k \in Frames : FrameSent(k)

\* The output synx is signalled between FenceOutput and FenceRelease, or with the freeing.
SignalInv ==
    /\ \A k \in KernelFrames :
         /\ fence[k] = "freed" => signals[k] = 1
         /\ fence[k] # "freed" /\ (\A f \in Fthreads : job[f].frame = k => pc[f] # "release")
              => signals[k] = 0
    /\ \A f \in Fthreads :
         pc[f] = "release" /\ job[f].frame \in KernelFrames => signals[job[f].frame] = 1

FrameInv == FrameTypes /\ QueueInv /\ SentInv /\ SignalInv

-----------------------------------------------------------------------------
\* The senders, and what a flush has seen.

Sending == {k \in Frames : sender[k] \in {"map", "send", "queue", "dec", "failed"}}
CountInv == IsFiniteSet(Sending) /\ send_count = Cardinality(Sending)

FlushInv ==
    \A t \in Workers : \A k \in job[t].seen :
        /\ fence[k] = "freed" \/ k \in sched_list
        /\ pc[t] = "flush_end" /\ rc[t] = "ok" => fence[k] = "freed"

FenceInv == ControlInv /\ FrameInv /\ OtherTypes /\ CountInv /\ FlushInv

-----------------------------------------------------------------------------
\* Control: a thread goes on, calls and returns.

\* At most the result of t changes.
RcOK(t) ==
    /\ rc' \in [Workers -> {"ok", "err"}]
    /\ \A u \in Workers : u # t => rc'[u] = rc[u]

LEMMA LabelsApart ==
    ASSUME NEW t \in Workers
    PROVE  /\ Own(t) \cap Callees = {} /\ Bottom(t) \subseteq Own(t)
           /\ Inner \subseteq Callees
           /\ Own(t) \subseteq FenceLabels \cup CtlLabels
           /\ Bottom(t) \subseteq {"output", "idle", "close_wait"}
  BY DEF Own, Bottom, Callees, Inner, FenceLabels, CtlLabels

LEMMA InCall ==
    ASSUME ControlInv, NEW t \in Workers, pc[t] \in Callees
    PROVE  /\ stack[t] \in Seq(Call0) /\ stack[t] # <<>>
           /\ stack[t][Len(stack[t])].at \in Bottom(t)
           /\ \A i \in 1..Len(stack[t]) - 1 : stack[t][i].at \in Inner
<1>1. Placed(t) /\ stack[t] \in Seq(Call0)
  BY DEF ControlInv
<1>2. pc[t] \notin Own(t)
  BY LabelsApart
<1> QED BY <1>1, <1>2 DEF Placed

LEMMA NotInCall ==
    ASSUME ControlInv, NEW t \in Workers, pc[t] \in Own(t) PROVE stack[t] = <<>>
  BY LabelsApart DEF ControlInv, Placed

LEMMA GotoControl ==
    ASSUME ControlInv, NEW t \in Workers, NEW l, Goto(t, l), UNCHANGED stack, RcOK(t),
           \/ pc[t] \in Callees /\ l \in Callees
           \/ pc[t] \in Own(t) /\ l \in Own(t)
    PROVE  ControlInv'
<1>1. pc' \in [Workers -> FenceLabels \cup CtlLabels \cup Callees]
  BY LabelsApart DEF ControlInv, Goto
<1>2. ASSUME NEW u \in Workers, u # t PROVE Placed(u)'
  BY <1>2 DEF ControlInv, Goto, Placed, Own, Bottom
<1>3. Placed(t)'
  <2>1. Placed(t) /\ pc'[t] = l
    BY DEF ControlInv, Goto
  <2>2. Own(t) \cap Callees = {}
    BY LabelsApart
  <2>3. Own(t)' = Own(t) /\ Bottom(t)' = Bottom(t) /\ stack'[t] = stack[t]
    BY DEF Own, Bottom
  <2> QED BY <2>1, <2>2, <2>3 DEF Placed
<1> QED BY <1>1, <1>2, <1>3 DEF ControlInv, RcOK

LEMMA CallControl ==
    ASSUME ControlInv, NEW t \in Workers, NEW f \in Callees, NEW ret,
           NEW saved \in {"ok", "err", "result"}, Call(t, f, ret, saved), RcOK(t),
           \/ pc[t] \in Callees /\ ret \in Inner
           \/ pc[t] \in Own(t) /\ ret \in Bottom(t)
    PROVE  ControlInv'
<1> DEFINE c == [at |-> ret, rc |-> saved]
           s == stack[t]
           u == <<c>> \o s
<1>1. c \in Call0
  BY LabelsApart DEF Call0
<1>2. s \in Seq(Call0) /\ stack' = [stack EXCEPT ![t] = u]
      /\ pc' = [pc EXCEPT ![t] = f]
  BY DEF ControlInv, Call, Goto
<1>3. u \in Seq(Call0) /\ u # <<>> /\ Len(u) = Len(s) + 1 /\ u[1] = c
      /\ \A i \in 1..Len(s) : u[i + 1] = s[i]
  <2> HIDE DEF s, c
  <2> QED BY <1>1, <1>2
<1>4. u[Len(u)].at \in Bottom(t) /\ \A i \in 1..Len(u) - 1 : u[i].at \in Inner
  <2>1. CASE pc[t] \in Callees /\ ret \in Inner
    <3>1. s # <<>> /\ s[Len(s)].at \in Bottom(t)
          /\ \A i \in 1..Len(s) - 1 : s[i].at \in Inner
      BY <2>1, InCall
    <3>2. Len(s) \in Nat /\ Len(s) >= 1
      <4> HIDE DEF s
      <4> QED BY <1>2, <3>1
    <3>3. u[Len(u)] = s[Len(s)]
      <4> HIDE DEF s, u
      <4> QED BY <1>3, <3>2
    <3>4. ASSUME NEW i \in 1..Len(u) - 1 PROVE u[i].at \in Inner
      <4>1. CASE i = 1
        <5> HIDE DEF u
        <5> QED BY <4>1, <1>3, <2>1
      <4>2. CASE i # 1
        <5> HIDE DEF u, s
        <5>0. Len(u) = Len(s) + 1
          BY <1>3
        <5>3. i - 1 \in 1..Len(s) - 1 /\ i - 1 \in 1..Len(s)
          BY <4>2, <5>0, <3>2
        <5>1. i - 1 \in 1..Len(s) - 1 /\ u[(i - 1) + 1] = s[i - 1]
          BY <5>3, <1>3
        <5>2. (i - 1) + 1 = i
          OBVIOUS
        <5> QED BY <5>1, <5>2, <3>1
      <4> QED BY <4>1, <4>2
    <3> QED BY <3>1, <3>3, <3>4
  <2>2. CASE pc[t] \in Own(t) /\ ret \in Bottom(t)
    <3>1. s = <<>>
      BY <2>2, NotInCall
    <3>2. Len(u) = 1
      <4> HIDE DEF u
      <4> QED BY <3>1, <1>3
    <3> HIDE DEF u
    <3> QED BY <3>2, <1>3, <2>2
  <2> QED BY <2>1, <2>2
<1> HIDE DEF u, s
<1>5. pc' \in [Workers -> FenceLabels \cup CtlLabels \cup Callees]
      /\ stack' \in [Workers -> Seq(Call0)]
  BY <1>2, <1>3 DEF ControlInv
<1>6. ASSUME NEW w \in Workers PROVE Placed(w)'
  <2>1. CASE w = t
    <3>1. pc'[t] = f /\ stack'[t] = u
      BY <1>2 DEF ControlInv
    <3>2. Bottom(t)' = Bottom(t)
      BY DEF Bottom
    <3> QED BY <1>3, <1>4, <2>1, <3>1, <3>2 DEF Placed
  <2>2. CASE w # t
    BY <1>2, <2>2 DEF ControlInv, Placed, Own, Bottom
  <2> QED BY <2>1, <2>2
<1> QED BY <1>5, <1>6 DEF ControlInv, RcOK

LEMMA ReturnControl ==
    ASSUME ControlInv, NEW t \in Workers, NEW r \in {"ok", "err"}, Return(t, r),
           pc[t] \in Callees
    PROVE  /\ ControlInv' /\ RcOK(t)
           /\ pc' = [pc EXCEPT ![t] = pc'[t]] /\ pc'[t] \in Inner \cup Bottom(t)
<1> DEFINE s == stack[t]
           u == Tail(s)
           c == Head(s)
<1>1. s \in Seq(Call0) /\ s # <<>> /\ s[Len(s)].at \in Bottom(t)
      /\ \A i \in 1..Len(s) - 1 : s[i].at \in Inner
  BY InCall
<1> HIDE DEF s
<1>2. u \in Seq(Call0) /\ Len(u) = Len(s) - 1 /\ c = s[1] /\ c \in Call0 /\ Len(s) \in Nat
      /\ Len(s) >= 1 /\ \A i \in 1..Len(u) : u[i] = s[i + 1]
  BY <1>1
<1>3. pc' = [pc EXCEPT ![t] = c.at] /\ stack' = [stack EXCEPT ![t] = u]
      /\ rc' = [rc EXCEPT ![t] = IF c.rc = "result" THEN r ELSE c.rc]
  BY DEF Return, Goto, SetRc, s
<1> HIDE DEF u, c
<1>4. RcOK(t)
  BY <1>2, <1>3 DEF ControlInv, Call0, RcOK
<1>5. \/ c.at \in Bottom(t) /\ u = <<>>
      \/ /\ c.at \in Inner /\ u # <<>>
         /\ u[Len(u)].at \in Bottom(t)
         /\ \A i \in 1..Len(u) - 1 : u[i].at \in Inner
  <2>1. CASE Len(s) = 1
    BY <2>1, <1>1, <1>2
  <2>2. CASE Len(s) > 1
    <3>1. c.at \in Inner
      BY <2>2, <1>1, <1>2
    <3>2. Len(u) >= 1 /\ Len(u) \in 1..Len(u) /\ u # <<>> /\ Len(u) + 1 = Len(s)
      BY <2>2, <1>2
    <3>3. u[Len(u)] = s[Len(s)]
      BY <3>2, <1>2
    <3>4. ASSUME NEW i \in 1..Len(u) - 1 PROVE u[i].at \in Inner
      <4>1. i \in 1..Len(u) /\ i + 1 \in 1..Len(s) - 1
        BY <1>2
      <4> QED BY <4>1, <1>1, <1>2
    <3> QED BY <3>1, <3>2, <3>3, <3>4, <1>1
  <2> QED BY <2>1, <2>2, <1>2
<1>6. c.at \in Inner \cup Bottom(t) /\ pc'[t] = c.at /\ stack'[t] = u
  BY <1>3, <1>5 DEF ControlInv
<1>7. pc' \in [Workers -> FenceLabels \cup CtlLabels \cup Callees]
      /\ stack' \in [Workers -> Seq(Call0)]
  BY <1>2, <1>3, <1>6, LabelsApart DEF ControlInv
<1>8. ASSUME NEW w \in Workers PROVE Placed(w)'
  <2>1. CASE w = t
    <3>1. Bottom(t)' = Bottom(t) /\ Own(t)' = Own(t)
      BY DEF Bottom, Own
    <3> QED BY <1>5, <1>6, <2>1, <3>1, LabelsApart DEF Placed
  <2>2. CASE w # t
    BY <1>3, <2>2 DEF ControlInv, Placed, Own, Bottom
  <2> QED BY <2>1, <2>2
<1> QED BY <1>3, <1>4, <1>6, <1>7, <1>8 DEF ControlInv, RcOK

\* What a step leaves to the fence threads: the command each has, and how far it is with it.
PhasesKept ==
    \A f \in Fthreads :
        /\ job'[f].frame = job[f].frame
        /\ pc'[f] \in {"off", "wait"} <=> pc[f] \in {"off", "wait"}
        /\ pc'[f] \in {"input", "send"} <=> pc[f] \in {"input", "send"}
        /\ pc'[f] = "release" <=> pc[f] = "release"

\* Thread t is in a call and stays in it, or returns from it; a flush ends with FlushDrain.
Onward == Callees \ {"flush_end"}
Inside(t) ==
    /\ pc[t] \in Callees /\ pc' = [pc EXCEPT ![t] = pc'[t]]
    /\ pc'[t] \in Callees \cup Bottom(t)
    /\ pc'[t] = "flush_end" => FlushDrain(t)

LEMMA InsidePhases ==
    ASSUME ControlInv, NEW t \in Workers, Inside(t),
           \A f \in Fthreads : job'[f].frame = job[f].frame
    PROVE  PhasesKept
<1> SUFFICES ASSUME NEW f \in Fthreads
             PROVE  /\ pc'[f] \in {"off", "wait"} <=> pc[f] \in {"off", "wait"}
                    /\ pc'[f] \in {"input", "send"} <=> pc[f] \in {"input", "send"}
                    /\ pc'[f] = "release" <=> pc[f] = "release"
  BY DEF PhasesKept
<1>1. CASE f = t
  <2>1. Bottom(t) = {"output"}
    BY <1>1 DEF Bottom
  <2> QED BY <1>1, <2>1 DEF Inside, Callees
<1>2. CASE f # t
  <2>1. pc'[f] = pc[f]
    BY <1>2 DEF Inside, ControlInv, Workers
  <2> QED BY <2>1
<1> QED BY <1>1, <1>2

LEMMA GotoInside ==
    ASSUME ControlInv, NEW t \in Workers, pc[t] \in Callees, NEW l \in Onward, Goto(t, l),
           UNCHANGED stack, RcOK(t)
    PROVE  ControlInv' /\ RcOK(t) /\ Inside(t)
<1>1. ControlInv'
  BY GotoControl DEF Onward
<1>2. pc' = [pc EXCEPT ![t] = l] /\ pc'[t] = l
  BY DEF Goto, ControlInv
<1> QED BY <1>1, <1>2 DEF Inside, Onward

LEMMA CallInside ==
    ASSUME ControlInv, NEW t \in Workers, pc[t] \in Callees, NEW f \in Onward,
           NEW ret \in Inner, NEW saved \in {"ok", "err", "result"}, Call(t, f, ret, saved),
           RcOK(t)
    PROVE  ControlInv' /\ RcOK(t) /\ Inside(t)
<1>1. ControlInv'
  BY CallControl DEF Onward
<1>2. pc' = [pc EXCEPT ![t] = f] /\ pc'[t] = f
  BY DEF Goto, Call, ControlInv
<1> QED BY <1>1, <1>2 DEF Inside, Onward

LEMMA ReturnInside ==
    ASSUME ControlInv, NEW t \in Workers, pc[t] \in Callees, NEW r \in {"ok", "err"},
           Return(t, r)
    PROVE  ControlInv' /\ RcOK(t) /\ Inside(t)
<1>1. ControlInv' /\ RcOK(t) /\ pc' = [pc EXCEPT ![t] = pc'[t]]
      /\ pc'[t] \in Inner \cup Bottom(t)
  BY ReturnControl
<1>2. Inner \subseteq Callees /\ "flush_end" \notin Inner \cup Bottom(t)
  BY LabelsApart DEF Inner, Bottom
<1> QED BY <1>1, <1>2 DEF Inside

LEMMA RcKept ==
    ASSUME ControlInv, NEW t \in Workers
    PROVE  /\ UNCHANGED rc => RcOK(t)
           /\ SetRc(t, "ok") \/ SetRc(t, "err") => RcOK(t)
           /\ rc[t] \in {"ok", "err"}
  BY DEF ControlInv, SetRc, RcOK

LEMMA SendCommandInside ==
    ASSUME ControlInv, NEW t \in Workers, pc[t] \in Callees, NEW c, NEW next \in Onward,
           NEW failed \in Onward, SendCommand(t, c, next, failed), UNCHANGED stack
    PROVE  ControlInv' /\ RcOK(t) /\ Inside(t)
<1>1. RcOK(t)
  BY RcKept DEF SendCommand
<1>2. Goto(t, next) \/ Goto(t, failed)
  BY DEF SendCommand
<1> QED BY <1>1, <1>2, GotoInside

LEMMA WaitSignalInside ==
    ASSUME ControlInv, NEW t \in Workers, pc[t] \in Callees, NEW c, NEW next \in Inner,
           WaitSignal(t, c, next)
    PROVE  ControlInv' /\ RcOK(t) /\ Inside(t)
<1>0. next \in Onward /\ "timeout" \in Onward
  BY DEF Callees, Onward, Inner
<1>1. RcOK(t)
  BY RcKept DEF WaitSignal
<1>2. CASE Goto(t, next) /\ UNCHANGED stack
  BY <1>0, <1>1, <1>2, GotoInside
<1>3. CASE Call(t, "timeout", next, "err")
  <2>1. "err" \in {"ok", "err", "result"}
    OBVIOUS
  <2> QED BY <2>1, <1>0, <1>1, <1>3, CallInside
<1> QED BY <1>2, <1>3 DEF WaitSignal

\* Every step of the code that threads share is one of these.
LEMMA SharedInside ==
    ASSUME ControlInv, NEW t \in Workers, Shared(t)
    PROVE  ControlInv' /\ RcOK(t) /\ Inside(t)
<1> USE RcKept
<1>1. CASE ThreadStop(t)
  <2>1. pc[t] \in Callees /\ Return(t, rc[t])
    BY <1>1 DEF ThreadStop, Callees, Onward
  <2> QED BY <2>1, ReturnInside
<1>2. CASE CleanMode(t)
  <2>1. pc[t] \in Callees /\ "clean_wait" \in Onward /\ Goto(t, "clean_wait")
        /\ UNCHANGED <<stack, rc>>
    BY <1>2 DEF CleanMode, Callees, Onward
  <2> QED BY <2>1, GotoInside
<1>3. CASE CleanWait(t)
  <2>1. pc[t] \in Callees /\ "clean_lists" \in Onward
    BY <1>3 DEF CleanWait, Callees, Onward
  <2>2. (Goto(t, "clean_lists") /\ UNCHANGED <<stack, rc>>) \/ Return(t, "err")
    BY <1>3 DEF CleanWait
  <2> QED BY <2>1, <2>2, GotoInside, ReturnInside
<1>4. CASE CleanLists(t)
  <2>1. pc[t] \in Callees /\ Return(t, "ok")
    BY <1>4 DEF CleanLists, Callees, Onward
  <2> QED BY <2>1, ReturnInside
<1>5. CASE SessionTimeout(t)
  <2>1. pc[t] \in Callees /\ "sys_error" \in Onward /\ "flush_stop" \in Onward
    BY <1>5 DEF SessionTimeout, Callees, Onward
  <2>2. \/ Goto(t, "sys_error") /\ UNCHANGED <<stack, rc>>
        \/ Goto(t, "flush_stop") /\ UNCHANGED <<stack, rc>>
        \/ Return(t, "ok")
    BY <1>5 DEF SessionTimeout
  <2> QED BY <2>1, <2>2, GotoInside, ReturnInside
<1>6. CASE FlushAll(t)
  <2>1. pc[t] \in Callees /\ "clean" \in Onward /\ "flush_cleaned" \in Inner
    BY <1>6 DEF FlushAll, Callees, Onward, Inner
  <2>2. (Call(t, "clean", "flush_cleaned", "result") /\ UNCHANGED rc) \/ Return(t, "err")
    BY <1>6 DEF FlushAll
  <2> QED BY <2>1, <2>2, CallInside, ReturnInside
<1>7. CASE FlushSend(t)
  <2>1. pc[t] \in Callees /\ "flush_wait" \in Onward /\ "flush_exit" \in Onward
    BY <1>7 DEF FlushSend, Callees, Onward
  <2>2. /\ UNCHANGED stack
        /\ \/ SendCommand(t, "flush", "flush_wait", "flush_exit")
           \/ Goto(t, "flush_exit") /\ UNCHANGED rc
    BY <1>7 DEF FlushSend
  <2> QED BY <2>1, <2>2, SendCommandInside, GotoInside
<1>8. CASE FlushWait(t)
  <2>1. pc[t] \in Callees /\ "flush_exit" \in Inner /\ WaitSignal(t, "flush", "flush_exit")
    BY <1>8 DEF FlushWait, Callees, Onward, Inner
  <2> QED BY <2>1, WaitSignalInside
<1>9. CASE FlushDrain(t)
  <2>1. pc[t] \in Callees /\ "flush_end" \in Callees
    BY <1>9 DEF FlushDrain, Callees
  <2>2. Goto(t, "flush_end") /\ UNCHANGED stack /\ (SetRc(t, "err") \/ UNCHANGED rc)
    BY <1>9 DEF FlushDrain
  <2>3. ControlInv' /\ RcOK(t)
    BY <2>1, <2>2, GotoControl
  <2>4. pc' = [pc EXCEPT ![t] = "flush_end"] /\ pc'[t] = "flush_end"
    BY <2>2 DEF Goto, ControlInv
  <2> QED BY <2>1, <2>3, <2>4, <1>9 DEF Inside
<1>10. CASE FlushEnd(t)
  <2>1. pc[t] \in Callees /\ Return(t, rc[t])
    BY <1>10 DEF FlushEnd, Callees, Onward
  <2> QED BY <2>1, ReturnInside
<1>11. CASE FlushStop(t)
  <2>1. pc[t] \in Callees /\ "stop_queue" \in Onward /\ "flush" \in Onward
        /\ "flush_stop_send" \in Inner
    BY <1>11 DEF FlushStop, Callees, Onward, Inner
  <2>2. \/ Return(t, "err") \/ Return(t, "ok")
        \/ Goto(t, "stop_queue") /\ SetRc(t, "ok") /\ UNCHANGED stack
        \/ Call(t, "flush", "flush_stop_send", "result") /\ UNCHANGED rc
    BY <1>11 DEF FlushStop
  <2> QED BY <2>1, <2>2, GotoInside, CallInside, ReturnInside
<1>12. CASE FlushStopSend(t)
  <2>1. pc[t] \in Callees /\ "flush_stop_wait" \in Onward /\ "stop_queue" \in Onward
    BY <1>12 DEF FlushStopSend, Callees, Onward
  <2>2. /\ UNCHANGED stack
        /\ \/ SendCommand(t, "stop", "flush_stop_wait", "stop_queue")
           \/ Goto(t, "stop_queue") /\ UNCHANGED rc
    BY <1>12 DEF FlushStopSend
  <2> QED BY <2>1, <2>2, SendCommandInside, GotoInside
<1>13. CASE FlushStopWait(t)
  <2>1. pc[t] \in Callees /\ "stop_queue" \in Inner /\ WaitSignal(t, "stop", "stop_queue")
    BY <1>13 DEF FlushStopWait, Callees, Onward, Inner
  <2> QED BY <2>1, WaitSignalInside
<1>14. CASE StopQueue(t)
  <2>1. pc[t] \in Callees /\ "thread_stop" \in Onward /\ Goto(t, "thread_stop")
        /\ UNCHANGED <<stack, rc>>
    BY <1>14 DEF StopQueue, Callees, Onward
  <2> QED BY <2>1, GotoInside
<1>15. CASE SysErrorBegin(t)
  <2>1. pc[t] \in Callees /\ "core_release" \in Onward /\ "clean_queues" \in Onward
    BY <1>15 DEF SysErrorBegin, Callees, Onward
  <2>2. \/ Return(t, "ok")
        \/ Goto(t, "core_release") /\ UNCHANGED <<stack, rc>>
        \/ Goto(t, "clean_queues") /\ UNCHANGED <<stack, rc>>
    BY <1>15 DEF SysErrorBegin
  <2> QED BY <2>1, <2>2, GotoInside, ReturnInside
<1>16. CASE CleanQueues(t)
  <2>1. pc[t] \in Callees /\ "clean" \in Onward /\ "queues_stop" \in Inner
        /\ "queues_stop" \in Onward
    BY <1>16 DEF CleanQueues, Callees, Onward, Inner
  <2>2. /\ UNCHANGED rc
        /\ \/ Call(t, "clean", "queues_stop", "ok")
           \/ Goto(t, "queues_stop") /\ UNCHANGED stack
    BY <1>16 DEF CleanQueues
  <2> QED BY <2>1, <2>2, GotoInside, CallInside
<1>17. CASE QueuesStop(t)
  <2>1. pc[t] \in Callees /\ "queues_wait" \in Onward /\ Goto(t, "queues_wait")
        /\ UNCHANGED <<stack, rc>>
    BY <1>17 DEF QueuesStop, Callees, Onward
  <2> QED BY <2>1, GotoInside
<1>18. CASE QueuesWait(t)
  <2>1. pc[t] \in Callees /\ "complete" \in Onward /\ Goto(t, "complete")
        /\ UNCHANGED stack /\ (SetRc(t, "ok") \/ SetRc(t, "err"))
    BY <1>18 DEF QueuesWait, Callees, Onward
  <2> QED BY <2>1, GotoInside
<1>19. CASE Complete(t)
  <2>1. pc[t] \in Callees /\ "core_release" \in Onward /\ Goto(t, "core_release")
        /\ UNCHANGED <<stack, rc>>
    BY <1>19 DEF Complete, Callees, Onward
  <2> QED BY <2>1, GotoInside
<1>20. CASE CoreRelease(t)
  <2>1. pc[t] \in Callees /\ Return(t, "ok")
    BY <1>20 DEF CoreRelease, Callees, Onward
  <2> QED BY <2>1, ReturnInside
<1> QED BY <1>1, <1>2, <1>3, <1>4, <1>5, <1>6, <1>7, <1>8, <1>9, <1>10, <1>11, <1>12, <1>13,
           <1>14, <1>15, <1>16, <1>17, <1>18, <1>19, <1>20 DEF Shared

-----------------------------------------------------------------------------
\* The control ioctls.

LEMMA CtlKind ==
    ASSUME NEW t \in Ctls \cup {"wdog"}
    PROVE  /\ t \in Workers /\ t \notin Fthreads
           /\ Own(t) = CtlLabels /\ Bottom(t) = {"idle", "close_wait"}
  BY WorkersAssumption DEF Workers, Own, Bottom

LEMMA FenceKind ==
    ASSUME NEW t \in Fthreads
    PROVE  t \in Workers /\ Own(t) = FenceLabels /\ Bottom(t) = {"output"}
  BY DEF Workers, Own, Bottom

\* The steps of an ioctl that are all its own, but for the ones of SpawnInv and CloseWaitInv.
CtlInner(t) ==
    \/ Start(t) \/ StartThreads(t) \/ SpawnFail(t)
    \/ StartSend(t) \/ StartWait(t) \/ StartCheck(t) \/ StartRestore(t)
    \/ Stop(t) \/ StopSend(t) \/ StopWait(t) \/ StopCheck(t)
    \/ Recv(t) \/ RecvWait(t) \/ RecvNull(t) \/ RecvEnd(t)

LEMMA CtlInside ==
    ASSUME ControlInv, NEW t \in Ctls, CtlInner(t)
    PROVE  ControlInv' /\ RcOK(t) /\ Inside(t)
<1>0. t \in Workers
  BY CtlKind
<1> USE RcKept, <1>0
<1>1. CASE Start(t)
  <2>1. pc[t] \in Callees /\ "start_threads" \in Onward
    BY <1>1 DEF Start, Callees, Onward
  <2>2. Return(t, "err") \/ (Goto(t, "start_threads") /\ UNCHANGED <<stack, rc>>)
    BY <1>1 DEF Start
  <2> QED BY <2>1, <2>2, GotoInside, ReturnInside
<1>2. CASE StartThreads(t)
  <2>1. pc[t] \in Callees /\ "spawn" \in Onward /\ "start_restore" \in Onward
    BY <1>2 DEF StartThreads, Callees, Onward
  <2>2. UNCHANGED <<stack, rc>> /\ (Goto(t, "spawn") \/ Goto(t, "start_restore"))
    BY <1>2 DEF StartThreads
  <2> QED BY <2>1, <2>2, GotoInside
<1>3. CASE SpawnFail(t)
  <2>1. pc[t] \in Callees /\ "start_restore" \in Onward
    BY <1>3 DEF SpawnFail, Callees, Onward
  <2>2. UNCHANGED <<stack, rc>> /\ Goto(t, "start_restore")
    BY <1>3 DEF SpawnFail
  <2> QED BY <2>1, <2>2, GotoInside
<1>4. CASE StartSend(t)
  <2>1. pc[t] \in Callees /\ "start_wait" \in Onward /\ "start_undo" \in Onward
    BY <1>4 DEF StartSend, Callees, Onward
  <2>2. UNCHANGED stack /\ SendCommand(t, "start", "start_wait", "start_undo")
    BY <1>4 DEF StartSend
  <2> QED BY <2>1, <2>2, SendCommandInside
<1>5. CASE StartWait(t)
  <2>1. pc[t] \in Callees /\ "start_check" \in Inner /\ WaitSignal(t, "start", "start_check")
    BY <1>5 DEF StartWait, Callees, Inner
  <2> QED BY <2>1, WaitSignalInside
<1>6. CASE StartCheck(t)
  <2>1. pc[t] \in Callees /\ "thread_stop" \in Onward /\ "start_restore" \in Inner
    BY <1>6 DEF StartCheck, Callees, Onward, Inner
  <2>2. \/ Return(t, "ok")
        \/ Call(t, "thread_stop", "start_restore", "err") /\ UNCHANGED rc
    BY <1>6 DEF StartCheck
  <2> QED BY <2>1, <2>2, CallInside, ReturnInside
<1>7. CASE StartRestore(t)
  <2>1. pc[t] \in Callees /\ Return(t, "err")
    BY <1>7 DEF StartRestore, Callees
  <2> QED BY <2>1, ReturnInside
<1>8. CASE Stop(t)
  <2>1. pc[t] \in Callees /\ "stop_send" \in Onward
    BY <1>8 DEF Stop, Callees, Onward
  <2>2. Return(t, "ok") \/ Return(t, "err") \/ (Goto(t, "stop_send") /\ UNCHANGED <<stack, rc>>)
    BY <1>8 DEF Stop
  <2> QED BY <2>1, <2>2, GotoInside, ReturnInside
<1>9. CASE StopSend(t)
  <2>1. pc[t] \in Callees /\ "stop_wait" \in Onward /\ "stop_queue" \in Onward
    BY <1>9 DEF StopSend, Callees, Onward
  <2>2. UNCHANGED stack /\ SendCommand(t, "stop", "stop_wait", "stop_queue")
    BY <1>9 DEF StopSend
  <2> QED BY <2>1, <2>2, SendCommandInside
<1>10. CASE StopWait(t)
  <2>1. pc[t] \in Callees /\ "stop_check" \in Inner /\ WaitSignal(t, "stop", "stop_check")
    BY <1>10 DEF StopWait, Callees, Inner
  <2> QED BY <2>1, WaitSignalInside
<1>11. CASE StopCheck(t)
  <2>1. pc[t] \in Callees /\ "stop_queue" \in Onward /\ "flush_stop" \in Onward
    BY <1>11 DEF StopCheck, Callees, Onward
  <2>2. UNCHANGED <<stack, rc>> /\ (Goto(t, "stop_queue") \/ Goto(t, "flush_stop"))
    BY <1>11 DEF StopCheck
  <2> QED BY <2>1, <2>2, GotoInside
<1>12. CASE Recv(t)
  <2>1. pc[t] \in Callees /\ "recv_wait" \in Onward
    BY <1>12 DEF Recv, Callees, Onward
  <2>2. (Goto(t, "recv_wait") /\ UNCHANGED <<stack, rc>>) \/ Return(t, "err")
    BY <1>12 DEF Recv
  <2> QED BY <2>1, <2>2, GotoInside, ReturnInside
<1>13. CASE RecvWait(t)
  <2>1. pc[t] \in Callees /\ "recv_null" \in Onward /\ "recv_end" \in Onward
        /\ "timeout_stop" \in Onward
    BY <1>13 DEF RecvWait, Callees, Onward
  <2>2. UNCHANGED <<stack, rc>>
        /\ (Goto(t, "recv_null") \/ Goto(t, "recv_end") \/ Goto(t, "timeout_stop"))
    BY <1>13 DEF RecvWait, TakeMessage
  <2> QED BY <2>1, <2>2, GotoInside
<1>14. CASE RecvNull(t)
  <2>1. pc[t] \in Callees /\ Return(t, "ok")
    BY <1>14 DEF RecvNull, Callees
  <2> QED BY <2>1, ReturnInside
<1>15. CASE RecvEnd(t)
  <2>1. pc[t] \in Callees /\ Return(t, "ok")
    BY <1>15 DEF RecvEnd, Callees
  <2> QED BY <2>1, ReturnInside
<1> QED BY <1>1, <1>2, <1>3, <1>4, <1>5, <1>6, <1>7, <1>8, <1>9, <1>10, <1>11, <1>12, <1>13,
           <1>14, <1>15 DEF CtlInner

\* A step of another thread than the fence threads.
LEMMA OutsidePhases ==
    ASSUME ControlInv, NEW t \in Ctls \cup {"wdog"}, pc' = [pc EXCEPT ![t] = pc'[t]],
           \A f \in Fthreads : job'[f].frame = job[f].frame
    PROVE  PhasesKept
<1>1. ASSUME NEW f \in Fthreads PROVE pc'[f] = pc[f]
  BY CtlKind, FenceKind DEF ControlInv
<1> QED BY <1>1 DEF PhasesKept

LEMMA SpawnControl ==
    ASSUME ControlInv, NEW t \in Ctls, Spawn(t),
           \A f \in Fthreads : job'[f].frame = job[f].frame
    PROVE  /\ ControlInv' /\ RcOK(t) /\ PhasesKept
           /\ \A u \in Workers : pc'[u] # "flush_end" \/ pc'[u] = pc[u]
<1>0. t \in Workers /\ t \notin Fthreads /\ Own(t) = CtlLabels
  BY CtlKind
<1>1. PICK f \in Fthreads : pc[f] = "off"
        /\ pc' = [pc EXCEPT ![f] = "wait",
                            ![t] = IF job[t].count + 1 = FthreadNr
                                   THEN "start_send" ELSE "spawn"]
  BY DEF Spawn
<1>2. f \in Workers /\ f # t /\ Own(f) = FenceLabels
  BY <1>0, FenceKind
<1>3. PICK l \in {"start_send", "spawn"} : pc'[t] = l
  BY <1>0, <1>1, <1>2 DEF ControlInv
<1>4. pc'[f] = "wait" /\ pc' \in [Workers -> FenceLabels \cup CtlLabels \cup Callees]
      /\ \A u \in Workers : u # f /\ u # t => pc'[u] = pc[u]
  BY <1>0, <1>1, <1>2 DEF ControlInv, Callees, FenceLabels
<1>5. UNCHANGED <<stack, rc>> /\ pc[t] = "spawn"
  BY DEF Spawn
<1>6. ASSUME NEW u \in Workers PROVE Placed(u)'
  <2>1. CASE u = f
    <3>1. stack[f] = <<>>
      BY <1>1, <1>2, NotInCall DEF FenceLabels
    <3>2. pc'[f] \in Own(f)' /\ stack'[f] = <<>>
      BY <1>4, <1>5, <3>1 DEF FenceLabels, Own
    <3> QED BY <2>1, <3>2 DEF Placed
  <2>2. CASE u = t
    <3>1. pc[t] \in Callees /\ pc'[t] \in Callees
      BY <1>3, <1>5 DEF Callees
    <3>2. /\ stack[t] \in Seq(Call0) /\ stack[t] # <<>>
          /\ stack[t][Len(stack[t])].at \in Bottom(t)
          /\ \A i \in 1..Len(stack[t]) - 1 : stack[t][i].at \in Inner
      BY <3>1, <1>0, InCall
    <3>3. stack'[t] = stack[t] /\ Bottom(t)' = Bottom(t)
      BY <1>5 DEF Bottom
    <3> QED BY <2>2, <3>1, <3>2, <3>3 DEF Placed
  <2>3. CASE u # f /\ u # t
    BY <2>3, <1>4, <1>5 DEF ControlInv, Placed, Own, Bottom
  <2> QED BY <2>1, <2>2, <2>3
<1>7. ControlInv' /\ RcOK(t)
  BY <1>4, <1>5, <1>6 DEF ControlInv, RcOK
<1>8. PhasesKept
  BY <1>0, <1>1, <1>2, <1>4, FenceKind DEF PhasesKept
<1> QED BY <1>2, <1>3, <1>4, <1>7, <1>8

LEMMA CloseWaitControl ==
    ASSUME ControlInv, NEW t \in Ctls, CloseWait(t)
    PROVE  /\ ControlInv' /\ RcOK(t) /\ pc' = [pc EXCEPT ![t] = pc'[t]]
           /\ pc'[t] # "flush_end"
<1>1. t \in Workers /\ Own(t) = CtlLabels
  BY CtlKind
<1>2. UNCHANGED <<stack, rc>> /\ pc[t] = "close_wait" /\ (UNCHANGED pc \/ Goto(t, "closed"))
  BY DEF CloseWait
<1>3. RcOK(t)
  BY <1>1, <1>2, RcKept
<1>4. CASE UNCHANGED pc
  <2>1. \A u \in Workers : Placed(u)' <=> Placed(u)
    BY <1>2, <1>4 DEF Placed, Own, Bottom
  <2> QED BY <1>1, <1>2, <1>3, <1>4, <2>1 DEF ControlInv
<1>5. CASE Goto(t, "closed")
  <2>1. pc[t] \in Own(t) /\ "closed" \in Own(t)
    BY <1>1, <1>2 DEF CtlLabels
  <2>2. ControlInv'
    BY <1>1, <1>2, <1>3, <1>5, <2>1, GotoControl
  <2> QED BY <1>1, <1>3, <1>5, <2>2 DEF Goto, ControlInv
<1> QED BY <1>2, <1>4, <1>5

LEMMA BeginControl ==
    ASSUME ControlInv, NEW t \in Ctls, NEW op \in Ops, Begin(t, op)
    PROVE  /\ ControlInv' /\ RcOK(t) /\ pc' = [pc EXCEPT ![t] = pc'[t]]
           /\ pc'[t] # "flush_end"
<1>1. t \in Workers /\ Own(t) = CtlLabels /\ Bottom(t) = {"idle", "close_wait"}
  BY CtlKind
<1>2. op # "close" => op \in Onward
  BY FenceBounds DEF Onward, Callees
<1>3. "flush_stop" \in Onward
  BY DEF Onward, Callees
<1>4. RcOK(t) /\ pc[t] \in Own(t)
  BY <1>1, RcKept DEF Begin, CtlLabels
<1>5. PICK f \in Onward, ret \in Bottom(t), saved \in {"ok", "result"} : Call(t, f, ret, saved)
  <2>1. CASE op = "close"
    <3>1. Call(t, "flush_stop", "close_wait", "result")
      BY <2>1 DEF Begin
    <3> QED BY <3>1, <1>1, <1>3
  <2>2. CASE op # "close"
    <3>1. Call(t, op, "idle", "ok")
      BY <2>2 DEF Begin
    <3> QED BY <3>1, <2>2, <1>1, <1>2
  <2> QED BY <2>1, <2>2
<1>6. ControlInv'
  BY <1>1, <1>4, <1>5, CallControl DEF Onward
<1>7. pc' = [pc EXCEPT ![t] = f] /\ pc'[t] = f
  BY <1>1, <1>5 DEF Call, Goto, ControlInv
<1> QED BY <1>4, <1>6, <1>7 DEF Onward

LEMMA WdogControl ==
    ASSUME ControlInv, WdogFire
    PROVE  /\ ControlInv' /\ RcOK("wdog") /\ pc' = [pc EXCEPT !["wdog"] = pc'["wdog"]]
           /\ pc'["wdog"] # "flush_end"
<1> DEFINE t == "wdog"
<1>1. t \in Workers /\ Own(t) = CtlLabels /\ Bottom(t) = {"idle", "close_wait"}
  BY CtlKind
<1>2. Call(t, "sys_error", "idle", "ok") /\ pc[t] \in Own(t) /\ UNCHANGED rc
  BY <1>1 DEF WdogFire, CtlLabels
<1>3. "sys_error" \in Callees /\ "idle" \in Bottom(t)
  BY <1>1 DEF Callees
<1>4. RcOK(t)
  BY <1>1, <1>2, RcKept
<1>5. ControlInv'
  <2> HIDE DEF t
  <2> QED BY <1>1, <1>2, <1>3, <1>4, CallControl
<1>6. pc' = [pc EXCEPT ![t] = "sys_error"] /\ pc'[t] = "sys_error"
  BY <1>1, <1>2 DEF Call, Goto, ControlInv
<1> QED BY <1>4, <1>5, <1>6

-----------------------------------------------------------------------------
\* Sequences.

Elems(s) == {s[n] : n \in 1..Len(s)}

LEMMA AppendElems ==
    ASSUME NEW S, NEW s \in Seq(S), NEW x
    PROVE  /\ Elems(Append(s, x)) = Elems(s) \cup {x}
           /\ x \in S => Append(s, x) \in Seq(S)
           /\ NoDuplicates(s) /\ x \notin Elems(s) => NoDuplicates(Append(s, x))
<1>1. Len(s) \in Nat /\ Len(Append(s, x)) = Len(s) + 1 /\ Append(s, x)[Len(s) + 1] = x
      /\ \A i \in 1..Len(s) : Append(s, x)[i] = s[i]
  BY AppendProperties
<1> DEFINE u == Append(s, x)
<1> HIDE DEF u
<1>2. Len(u) = Len(s) + 1 /\ u[Len(s) + 1] = x /\ \A i \in 1..Len(s) : u[i] = s[i]
  BY <1>1 DEF u
<1>3. Elems(u) \subseteq Elems(s) \cup {x}
  <2> SUFFICES ASSUME NEW i \in 1..Len(u) PROVE u[i] \in Elems(s) \cup {x}
    BY DEF Elems
  <2>1. i \in 1..Len(s) \/ i = Len(s) + 1
    BY <1>1, <1>2
  <2> QED BY <2>1, <1>2 DEF Elems
<1>4. x \in Elems(u)
  <2>1. Len(s) + 1 \in 1..Len(u)
    BY <1>1, <1>2
  <2> QED BY <2>1, <1>2 DEF Elems
<1>5. Elems(s) \subseteq Elems(u)
  <2> SUFFICES ASSUME NEW i \in 1..Len(s) PROVE s[i] \in Elems(u)
    BY DEF Elems
  <2>1. i \in 1..Len(u) /\ u[i] = s[i]
    BY <1>1, <1>2
  <2> QED BY <2>1 DEF Elems
<1>6. ASSUME NoDuplicates(s), x \notin Elems(s) PROVE NoDuplicates(u)
  <2> SUFFICES ASSUME NEW m \in 1..Len(u), NEW n \in 1..Len(u), u[m] = u[n] PROVE m = n
    BY DEF NoDuplicates
  <2>1. (m \in 1..Len(s) \/ m = Len(s) + 1) /\ (n \in 1..Len(s) \/ n = Len(s) + 1)
    BY <1>1, <1>2
  <2>2. \A i \in 1..Len(s) : u[i] # x
    BY <1>2, <1>6 DEF Elems
  <2> QED BY <1>2, <1>6, <2>1, <2>2 DEF NoDuplicates
<1>7. x \in S => Append(s, x) \in Seq(S)
  BY AppendProperties
<1> QED BY <1>3, <1>4, <1>5, <1>6, <1>7 DEF u

LEMMA TailElems ==
    ASSUME NEW S, NEW s \in Seq(S), s # <<>>
    PROVE  /\ Head(s) \in Elems(s) /\ Head(s) \in S /\ Tail(s) \in Seq(S)
           /\ NoDuplicates(s) => /\ Elems(Tail(s)) = Elems(s) \ {Head(s)}
                                 /\ NoDuplicates(Tail(s))
<1>1. Len(s) \in Nat /\ Len(s) >= 1 /\ Head(s) = s[1] /\ s[1] \in S /\ Tail(s) \in Seq(S)
      /\ Len(Tail(s)) = Len(s) - 1 /\ \A i \in 1..Len(s) - 1 : Tail(s)[i] = s[i + 1]
  OBVIOUS
<1> DEFINE u == Tail(s)
<1> HIDE DEF u
<1>2. Len(u) = Len(s) - 1 /\ \A i \in 1..Len(u) : u[i] = s[i + 1] /\ i + 1 \in 1..Len(s)
  BY <1>1 DEF u
<1>3. Head(s) \in Elems(s)
  <2>1. 1 \in 1..Len(s)
    BY <1>1
  <2> QED BY <1>1, <2>1 DEF Elems
<1>4. ASSUME NoDuplicates(s) PROVE Elems(u) = Elems(s) \ {Head(s)} /\ NoDuplicates(u)
  <2>1. ASSUME NEW i \in 1..Len(u) PROVE u[i] \in Elems(s) /\ u[i] # s[1]
    <3>1. u[i] = s[i + 1] /\ i + 1 \in 1..Len(s) /\ 1 \in 1..Len(s) /\ i + 1 # 1
      BY <1>1, <1>2
    <3> QED BY <3>1, <1>4 DEF Elems, NoDuplicates
  <2>2. ASSUME NEW i \in 1..Len(s), s[i] # s[1] PROVE s[i] \in Elems(u)
    <3>1. i # 1
      BY <2>2
    <3>2. i - 1 \in 1..Len(u) /\ (i - 1) + 1 = i
      BY <1>1, <1>2, <3>1
    <3>3. u[i - 1] = s[i]
      BY <1>2, <3>2
    <3> QED BY <3>2, <3>3 DEF Elems
  <2>3. NoDuplicates(u)
    <3> SUFFICES ASSUME NEW m \in 1..Len(u), NEW n \in 1..Len(u), u[m] = u[n] PROVE m = n
      BY DEF NoDuplicates
    <3>1. s[m + 1] = s[n + 1] /\ m + 1 \in 1..Len(s) /\ n + 1 \in 1..Len(s)
      BY <1>2
    <3>2. m + 1 = n + 1
      BY <3>1, <1>4 DEF NoDuplicates
    <3> QED BY <3>2, <1>1, <1>2
  <2>4. Elems(u) = Elems(s) \ {s[1]}
    BY <2>1, <2>2 DEF Elems
  <2> QED BY <2>3, <2>4, <1>1
<1> QED BY <1>1, <1>3, <1>4 DEF u

LEMMA RemoveElems ==
    ASSUME NEW S, NEW s \in Seq(S), NEW n \in 1..Len(s)
    PROVE  LET u == SubSeq(s, 1, n - 1) \o SubSeq(s, n + 1, Len(s))
           IN  /\ u \in Seq(S) /\ Elems(u) \subseteq Elems(s)
               /\ Elems(s) \subseteq Elems(u) \cup {s[n]}
<1> DEFINE v == SubSeq(s, 1, n - 1)
           w == SubSeq(s, n + 1, Len(s))
           u == v \o w
<1>1. Len(s) \in Nat /\ n \in Nat /\ n >= 1 /\ n <= Len(s)
  OBVIOUS
<1>2. v \in Seq(S) /\ Len(v) = n - 1 /\ \A i \in 1..n - 1 : v[i] = s[i]
  BY <1>1
<1>3. w \in Seq(S) /\ Len(w) = Len(s) - n /\ \A i \in 1..Len(s) - n : w[i] = s[n + i]
  BY <1>1
<1> HIDE DEF v, w
<1>4. u \in Seq(S) /\ Len(u) = Len(v) + Len(w)
      /\ \A i \in 1..Len(u) : u[i] = IF i <= Len(v) THEN v[i] ELSE w[i - Len(v)]
  <2>1. v \in Seq(S) /\ w \in Seq(S)
    BY <1>2, <1>3
  <2>2. /\ u \in Seq(S) /\ Len(u) = Len(v) + Len(w)
        /\ \A i \in 1..Len(v) + Len(w) : u[i] = IF i <= Len(v) THEN v[i] ELSE w[i - Len(v)]
    BY <2>1, ConcatProperties
  <2> QED BY <2>2
<1> HIDE DEF u
<1>5. ASSUME NEW i \in 1..Len(u) PROVE u[i] \in Elems(s)
  <2>1. CASE i <= n - 1
    <3>1. i \in 1..n - 1 /\ i \in 1..Len(s)
      BY <2>1, <1>1
    <3> QED BY <3>1, <2>1, <1>2, <1>4 DEF Elems
  <2>2. CASE ~(i <= n - 1)
    <3>1. i - (n - 1) \in 1..Len(s) - n /\ n + (i - (n - 1)) \in 1..Len(s)
      BY <2>2, <1>1, <1>2, <1>3, <1>4
    <3>2. u[i] = w[i - (n - 1)]
      BY <2>2, <1>2, <1>4
    <3>3. u[i] = s[n + (i - (n - 1))]
      BY <3>1, <3>2, <1>3
    <3> QED BY <3>1, <3>3 DEF Elems
  <2> QED BY <2>1, <2>2
<1>6. ASSUME NEW i \in 1..Len(s), i # n PROVE s[i] \in Elems(u)
  <2>1. CASE i < n
    <3>1. i \in 1..Len(u) /\ i \in 1..n - 1 /\ i <= Len(v)
      BY <2>1, <1>1, <1>2, <1>3, <1>4
    <3> QED BY <3>1, <1>2, <1>4 DEF Elems
  <2>2. CASE i > n
    <3>1. i - 1 \in 1..Len(u) /\ ~(i - 1 <= Len(v)) /\ (i - 1) - Len(v) = i - n
          /\ i - n \in 1..Len(s) - n /\ n + (i - n) = i
      BY <2>2, <1>1, <1>2, <1>3, <1>4
    <3>2. u[i - 1] = w[i - n] /\ w[i - n] = s[i]
      BY <3>1, <1>3, <1>4
    <3> QED BY <3>1, <3>2 DEF Elems
  <2> QED BY <1>6, <2>1, <2>2, <1>1
<1> QED BY <1>4, <1>5, <1>6 DEF Elems, u, v, w

\* Induction over the naturals, for a set instead of a predicate.
LEMMA SetInduction ==
    ASSUME NEW S, 0 \in S, \A n \in Nat : n \in S => n + 1 \in S
    PROVE  Nat \subseteq S
<1> DEFINE R == OpToRel(<, Nat)
           T == Nat \ S
<1>1. IsWellFoundedOn(R, Nat)
  BY NatLessThanWellFounded
<1> SUFFICES ASSUME T # {} PROVE FALSE
  OBVIOUS
<1>2. T \subseteq Nat
  OBVIOUS
<1>3. PICK x \in T : \A y \in T : ~(<<y, x>> \in R)
  <2> HIDE DEF R, T
  <2> QED BY <1>1, <1>2, WFMin
<1>4. \A x1, y1 \in Nat : x1 < y1 => <<x1, y1>> \in R
  BY DEF OpToRel
<1>5. x \in Nat /\ x \notin S /\ x # 0
  OBVIOUS
<1>6. x - 1 \in Nat /\ x - 1 < x /\ (x - 1) + 1 = x
  BY <1>5
<1>7. x - 1 \notin T
  <2> HIDE DEF R
  <2> QED BY <1>3, <1>4, <1>5, <1>6
<1> QED BY <1>5, <1>6, <1>7

\* What is left of the wait list when the commands with kernel fences are taken out.
LEMMA SocOnlyElems ==
    ASSUME NEW s \in Seq(Fenced), NoDuplicates(s)
    PROVE  /\ SocOnly(s) \in Seq(Fenced) /\ NoDuplicates(SocOnly(s))
           /\ Elems(SocOnly(s)) = Elems(s) \cap SocFrames
<1> DEFINE K(u, x) == IF x \in SocFrames THEN Append(u, x) ELSE u
           Eq(f, n) == f = [i \in 0..n |-> IF i = 0 THEN <<>> ELSE K(f[i - 1], s[i])]
           N == Len(s)
<1>0. N \in Nat
  OBVIOUS
<1> DEFINE S == {n \in Nat : \E f : Eq(f, n)}
<1>1. 0 \in S
  <2>1. Eq([i \in 0..0 |-> <<>>], 0)
    OBVIOUS
  <2> HIDE DEF Eq
  <2> QED BY <2>1
<1>2. ASSUME NEW n \in Nat, n \in S PROVE n + 1 \in S
  <2>1. PICK f : Eq(f, n)
    BY <1>2
  <2> DEFINE g == [i \in 0..n+1 |-> IF i = n + 1 THEN K(f[n], s[n + 1]) ELSE f[i]]
  <2> HIDE DEF K
  <2>2. Eq(g, n + 1)
    BY <2>1
  <2> HIDE DEF Eq, g
  <2> QED BY <2>2
<1>3. N \in S
  <2> HIDE DEF S, N
  <2> QED BY <1>0, <1>1, <1>2, SetInduction
<1> DEFINE F == CHOOSE f : Eq(f, N)
<1>4. Eq(F, N)
  BY <1>3
<1>5. SocOnly(s) = F[N]
  BY DEF SocOnly
<1> DEFINE E(n) == {s[i] : i \in 1..n}
           Good(n) == /\ F[n] \in Seq(Fenced) /\ NoDuplicates(F[n])
                      /\ Elems(F[n]) = E(n) \cap SocFrames
           T == {n \in Nat : n <= N => Good(n)}
<1>6. F[0] = <<>> /\ \A i \in 0..N : i > 0 => F[i] = K(F[i - 1], s[i])
  <2> HIDE DEF F, N, K
  <2> QED BY <1>0, <1>4
<1> HIDE DEF F, Eq
<1>7. Good(0)
  <2>1. F[0] = <<>>
    BY <1>6
  <2>2. <<>> \in Seq(Fenced) /\ Len(<<>>) = 0
    OBVIOUS
  <2> QED BY <2>1, <2>2 DEF NoDuplicates, Elems
<1>8. ASSUME NEW n \in Nat, n \in T PROVE n + 1 \in T
  <2> SUFFICES ASSUME n + 1 <= N PROVE Good(n + 1)
    OBVIOUS
  <2>0. Good(n) /\ n + 1 \in 0..N /\ n + 1 \in 1..N /\ n + 1 > 0 /\ (n + 1) - 1 = n
    BY <1>0, <1>8
  <2>1. F[n + 1] = K(F[n], s[n + 1])
    <3> HIDE DEF K
    <3> QED BY <1>6, <2>0
  <2>2. s[n + 1] \in Fenced /\ s[n + 1] \notin E(n)
    <3>1. s[n + 1] \in Fenced
      BY <2>0
    <3>2. ASSUME NEW i \in 1..n PROVE s[i] # s[n + 1]
      <4>1. i \in 1..N /\ i # n + 1
        BY <2>0, <1>0
      <4> QED BY <4>1, <2>0 DEF NoDuplicates
    <3> QED BY <3>1, <3>2
  <2>3. E(n + 1) = E(n) \cup {s[n + 1]}
    <3>1. 1..n + 1 = (1..n) \cup {n + 1}
      OBVIOUS
    <3> QED BY <3>1
  <2> DEFINE y == s[n + 1]
             G == F[n]
             H == F[n + 1]
             D == E(n)
             D1 == E(n + 1)
  <2>4. /\ G \in Seq(Fenced) /\ NoDuplicates(G) /\ Elems(G) = D \cap SocFrames
        /\ H = (IF y \in SocFrames THEN Append(G, y) ELSE G)
        /\ y \in Fenced /\ y \notin D /\ D1 = D \cup {y}
    BY <2>0, <2>1, <2>2, <2>3
  <2>5. H \in Seq(Fenced) /\ NoDuplicates(H) /\ Elems(H) = D1 \cap SocFrames
    <3> HIDE DEF y, G, H, D, D1
    <3>1. Elems(Append(G, y)) = Elems(G) \cup {y} /\ Append(G, y) \in Seq(Fenced)
          /\ (y \notin Elems(G) => NoDuplicates(Append(G, y)))
      BY <2>4, AppendElems
    <3> QED BY <2>4, <3>1
  <2> QED BY <2>5
<1>9. N \in T
  <2> HIDE DEF T
  <2>1. 0 \in T
    BY <1>7 DEF T
  <2> QED BY <1>0, <1>8, <2>1, SetInduction
<1>10. Good(N)
  BY <1>9, <1>0
<1>11. E(N) = Elems(s)
  BY DEF Elems
<1> QED BY <1>5, <1>10, <1>11

-----------------------------------------------------------------------------
\* Steps that leave the frames and commands alone, or only collect answers.

LEMMA FrameKinds ==
    /\ KernelFrames \subseteq Fenced /\ SocFrames \subseteq Fenced /\ Fenced \subseteq Frames
    /\ PlainFrames \subseteq Frames /\ "none" \notin Frames
    /\ \A k \in Frames : \/ k \in KernelFrames /\ k \notin SocFrames /\ k \notin PlainFrames
                         \/ k \in SocFrames /\ k \notin KernelFrames /\ k \notin PlainFrames
                         \/ k \in PlainFrames /\ k \notin Fenced
    /\ \A k \in Fenced : k \notin PlainFrames
  BY FramesAssumption, WorkersAssumption DEF Fenced, Frames

SenderSame ==
    \A k \in Frames :
        /\ Early(k)' <=> Early(k)
        /\ sender'[k] = "send" <=> sender[k] = "send"
        /\ sender'[k] = "queue" <=> sender[k] = "queue"

LEMMA SenderUnchanged == UNCHANGED sender => SenderSame
  BY DEF SenderSame, Early

LEMMA QueueKept ==
    ASSUME QueueInv, PhasesKept, SenderSame, UNCHANGED <<wait_list, sched_list, fence>>
    PROVE  QueueInv'
<1>1. ThreadInv'
  BY DEF QueueInv, ThreadInv, PhasesKept
<1>2. PlaceInv'
  <2>1. /\ \A f, g \in Fthreads :
             job'[f].frame = job'[g].frame /\ job'[f].frame # "none" => f = g
        /\ \A k \in sched_list : \E f \in Fthreads : job'[f].frame = k
    BY DEF QueueInv, PlaceInv, PhasesKept
  <2>2. Waiting' = Waiting
    BY DEF Waiting
  <2>3. NoDuplicates(wait_list)' <=> NoDuplicates(wait_list)
    BY DEF NoDuplicates
  <2> QED BY <2>1, <2>2, <2>3, FrameKinds DEF QueueInv, PlaceInv, SenderSame
<1>3. TagInv'
  BY DEF QueueInv, TagInv, SenderSame
<1> QED BY <1>1, <1>2, <1>3 DEF QueueInv

LEMMA SignalKept ==
    ASSUME SignalInv, PhasesKept, UNCHANGED signals,
           \A k \in KernelFrames : fence'[k] = "freed" <=> fence[k] = "freed"
    PROVE  SignalInv'
  BY DEF SignalInv, PhasesKept

LEMMA BusyKept == ASSUME PhasesKept, NEW k PROVE Busy(k)' <=> Busy(k)
  BY DEF PhasesKept, Busy

LEMMA HeldKept ==
    ASSUME PhasesKept, SenderSame, UNCHANGED wait_list, NEW k \in Frames
    PROVE  Held(k)' <=> Held(k)
<1>1. Waiting' = Waiting
  BY DEF Waiting
<1> QED BY <1>1, BusyKept DEF Held, SenderSame

LEMMA MsgsKept ==
    ASSUME UNCHANGED msgs PROVE (MsgInv' <=> MsgInv) /\ \A k : Answered(k)' <=> Answered(k)
  BY DEF MsgInv, Answered, Queue

\* Nothing has happened to frame k.
SameFrame(k) ==
    /\ Early(k)' <=> Early(k)
    /\ Held(k)' <=> Held(k)
    /\ k \in mapped' <=> k \in mapped
    /\ k \in fw' <=> k \in fw
    /\ Answered(k)' <=> Answered(k)
    /\ k \in stray => k \in stray'
    /\ valid' => valid

LEMMA SentSame == ASSUME NEW k, FrameSent(k), SameFrame(k) PROVE FrameSent(k)'
  BY DEF FrameSent, SameFrame, Unsent, Settled

LEMMA FrameKept ==
    ASSUME FrameInv, FrameTypes', PhasesKept, SenderSame,
           UNCHANGED <<wait_list, sched_list, fence, signals, msgs, mapped, fw, stray, valid>>
    PROVE  FrameInv'
<1>1. QueueInv' /\ SignalInv'
  BY QueueKept, SignalKept DEF FrameInv
<1>2. ASSUME NEW k \in Frames PROVE FrameSent(k)'
  <2>1. SameFrame(k)
    BY HeldKept, MsgsKept DEF SameFrame, SenderSame
  <2> QED BY <2>1, SentSame DEF FrameInv, SentInv
<1>3. MsgInv'
  BY MsgsKept DEF FrameInv, SentInv
<1> QED BY <1>1, <1>2, <1>3 DEF FrameInv, SentInv

LEMMA Collected ==
    ASSUME FrameInv, FrameTypes', PhasesKept, MsgInv',
           UNCHANGED <<wait_list, sched_list, fence, signals, fw, stray, valid, sender>>,
           \A k \in Frames :
               /\ Answered(k)' => Answered(k)
               /\ Answered(k) => Answered(k)' \/ k \notin mapped'
               /\ k \in mapped' => k \in mapped
               /\ k \in mapped => k \in mapped' \/ Answered(k)
    PROVE  FrameInv'
<1>0. SenderSame
  BY SenderUnchanged
<1>1. QueueInv' /\ SignalInv'
  BY <1>0, QueueKept, SignalKept DEF FrameInv
<1>2. ASSUME NEW k \in Frames PROVE FrameSent(k)'
  <2>1. (Held(k)' <=> Held(k)) /\ (Early(k)' <=> Early(k))
    BY <1>0, HeldKept DEF SenderSame
  <2>2. FrameSent(k)
    BY DEF FrameInv, SentInv
  <2> QED BY <2>1, <2>2 DEF FrameSent, Unsent, Settled
<1> QED BY <1>1, <1>2 DEF FrameInv, SentInv

LEMMA QueueOf == ASSUME NEW k PROVE Queue(k) \in {"sq", "sqf"}
  BY DEF Queue

LEMMA AnsweredElems == ASSUME NEW k PROVE Answered(k) <=> k \in Elems(msgs[Queue(k)])
  BY DEF Answered, Elems

LEMMA MsgElems ==
    MsgInv <=> \A q \in {"sq", "sqf"} : \A k \in Elems(msgs[q]) : Queue(k) = q
  BY DEF MsgInv, Elems

LEMMA TakeCollected ==
    ASSUME FrameInv, NEW t, NEW q \in {"sq", "sqf"}, NEW n, NEW next,
           TakeMessage(t, q, n, next), PhasesKept,
           UNCHANGED <<wait_list, sched_list, fence, signals, fw, stray, valid, sender, job>>
    PROVE  FrameInv'
<1> DEFINE s == msgs[q]
           u == SubSeq(s, 1, n - 1) \o SubSeq(s, n + 1, Len(s))
           x == s[n]
<1>1. n \in 1..Len(s) /\ s \in Seq(Frames) /\ msgs' = [msgs EXCEPT ![q] = u]
      /\ mapped' = mapped \ {x}
  BY DEF TakeMessage, FrameInv, FrameTypes
<1> HIDE DEF s
<1>2. u \in Seq(Frames) /\ Elems(u) \subseteq Elems(s) /\ Elems(s) \subseteq Elems(u) \cup {x}
      /\ x \in Elems(s)
  BY <1>1, RemoveElems DEF Elems
<1> HIDE DEF u, x
<1>3. msgs'[q] = u /\ \A p \in {"sq", "sqf"} : p # q => msgs'[p] = msgs[p]
  BY <1>1 DEF FrameInv, FrameTypes
<1>4. FrameTypes'
  BY <1>1, <1>2 DEF FrameInv, FrameTypes
<1>5. \A p \in {"sq", "sqf"} : \A k \in Elems(msgs[p]) : Queue(k) = p
  BY MsgElems DEF FrameInv, SentInv
<1>6. MsgInv'
  <2>1. \A p \in {"sq", "sqf"} : \A k \in Elems(msgs'[p]) : Queue(k) = p
    BY <1>2, <1>3, <1>5 DEF s
  <2>2. \A k : Queue(k)' = Queue(k)
    BY DEF Queue
  <2> QED BY <2>1, <2>2 DEF MsgInv, Elems
<1>7. ASSUME NEW k \in Frames
      PROVE  /\ Answered(k)' => Answered(k)
             /\ Answered(k) => Answered(k)' \/ k \notin mapped'
             /\ k \in mapped' => k \in mapped
             /\ k \in mapped => k \in mapped' \/ Answered(k)
  <2>1. Answered(k) <=> k \in Elems(msgs[Queue(k)])
    BY AnsweredElems
  <2>2. Answered(k)' <=> k \in Elems(msgs'[Queue(k)])
    BY DEF Answered, Elems, Queue
  <2>3. Queue(k) \in {"sq", "sqf"} /\ Queue(x) = q
    BY <1>2, <1>5, QueueOf DEF s
  <2> QED BY <1>1, <1>2, <1>3, <2>1, <2>2, <2>3 DEF s
<1> QED BY <1>4, <1>6, <1>7, Collected

-----------------------------------------------------------------------------
\* The senders and the firmware.

LEMMA PhasesUnchanged == UNCHANGED <<pc, job>> => PhasesKept
  BY DEF PhasesKept

\* A frame whose command has not been made is in no list.
LEMMA NotQueued ==
    ASSUME FrameInv, NEW k \in Frames, fence[k] = "none" \/ sender[k] = "queue"
    PROVE  k \notin sched_list /\ k \notin Waiting
<1>1. sched_list \subseteq Fenced /\ Waiting \subseteq Fenced
  BY DEF FrameInv, FrameTypes, Waiting
<1> QED BY <1>1 DEF FrameInv, QueueInv, PlaceInv

\* Frame k is the only one a step changes.
Others(k) ==
    \A j \in Frames : j # k =>
        /\ sender'[j] = sender[j] /\ fence'[j] = fence[j]
        /\ j \in mapped' <=> j \in mapped
        /\ j \in fw' <=> j \in fw
        /\ j \in stray => j \in stray'

LEMMA OthersSent ==
    ASSUME FrameInv, NEW k \in Frames, Others(k), PhasesKept, UNCHANGED <<wait_list, valid>>,
           NEW j \in Frames, j # k, Answered(j)' <=> Answered(j)
    PROVE  FrameSent(j)'
<1>1. Waiting' = Waiting
  BY DEF Waiting
<1>2. SameFrame(j)
  BY <1>1, BusyKept DEF SameFrame, Others, Held, Early
<1> QED BY <1>2, SentSame DEF FrameInv, SentInv

LEMMA OthersQueue ==
    ASSUME FrameInv, NEW k \in Frames, Others(k), PhasesKept, UNCHANGED <<wait_list, sched_list>>,
           k \notin sched_list, k \notin Waiting,
           ~(fence'[k] = "live" /\ sender'[k] # "queue"),
           /\ fence'[k] = "none" <=> Early(k)' \/ sender'[k] = "send" \/ k \in PlainFrames
           /\ sender'[k] = "queue" => k \in Fenced /\ fence'[k] = "live"
           /\ sender'[k] = "send" => k \notin KernelFrames
    PROVE  QueueInv'
<1>1. ThreadInv'
  BY DEF FrameInv, QueueInv, ThreadInv, PhasesKept
<1>2. PlaceInv'
  <2>1. /\ \A f, g \in Fthreads :
             job'[f].frame = job'[g].frame /\ job'[f].frame # "none" => f = g
        /\ \A j \in sched_list : \E f \in Fthreads : job'[f].frame = j
    BY DEF FrameInv, QueueInv, PlaceInv, PhasesKept
  <2>2. Waiting' = Waiting
    BY DEF Waiting
  <2>3. NoDuplicates(wait_list)' <=> NoDuplicates(wait_list)
    BY DEF NoDuplicates
  <2> QED BY <2>1, <2>2, <2>3, FrameKinds DEF FrameInv, QueueInv, PlaceInv, Others
<1>3. TagInv'
  BY DEF FrameInv, QueueInv, TagInv, Others, Early
<1> QED BY <1>1, <1>2, <1>3 DEF QueueInv

LEMMA MapFrameFrames == ASSUME FrameInv, NEW k \in Frames, MapFrame(k) PROVE FrameInv'
<1>1. PhasesKept /\ UNCHANGED <<wait_list, sched_list, msgs, fw, stray, signals, valid, job>>
      /\ sender[k] = "map"
  BY PhasesUnchanged DEF MapFrame, workVars, queueVars, sqVars, instVars
<1>2. CASE Step(k, "failed") /\ UNCHANGED <<mapped, fence>>
  <2>1. SenderSame
    BY <1>1, <1>2 DEF Step, SenderSame, Early, FrameInv, FrameTypes
  <2>2. FrameTypes'
    BY <1>1, <1>2 DEF Step, Labels, FrameInv, FrameTypes
  <2> QED BY <1>1, <1>2, <2>1, <2>2, FrameKept
<1>3. CASE /\ mapped' = mapped \cup {k}
           /\ fence' = IF k \in KernelFrames THEN [fence EXCEPT ![k] = "live"] ELSE fence
           /\ Step(k, IF k \in KernelFrames THEN "queue" ELSE "send")
  <2>1. FrameTypes'
    BY <1>1, <1>3 DEF Step, Labels, FrameInv, FrameTypes
  <2>2. /\ sender'[k] = (IF k \in KernelFrames THEN "queue" ELSE "send")
        /\ fence'[k] = (IF k \in KernelFrames THEN "live" ELSE fence[k])
    BY <1>3 DEF Step, FrameInv, FrameTypes
  <2>3. Others(k)
    BY <1>1, <1>3 DEF Step, FrameInv, FrameTypes, Others
  <2>4. Early(k) /\ fence[k] = "none"
    BY <1>1 DEF Early, FrameInv, QueueInv, TagInv
  <2>5. k \notin sched_list /\ k \notin Waiting
    BY <2>4, NotQueued
  <2>6. QueueInv'
    <3>1. fence'[k] = "none" <=> Early(k)' \/ sender'[k] = "send" \/ k \in PlainFrames
      BY <2>2, <2>4, FrameKinds DEF Early
    <3> QED BY <1>1, <2>2, <2>3, <2>4, <2>5, <3>1, OthersQueue, FrameKinds
  <2>7. SignalInv'
    <3>1. \A j \in KernelFrames : fence'[j] = "freed" <=> fence[j] = "freed"
      BY <2>2, <2>3, <2>4, FrameKinds DEF Others
    <3> QED BY <3>1, <1>1, SignalKept DEF FrameInv
  <2>8. FrameSent(k)'
    <3>1. FrameSent(k) /\ Unsent(k)
      BY <2>4 DEF FrameInv, SentInv, FrameSent
    <3>2. Answered(k)' <=> Answered(k)
      BY <1>1, MsgsKept
    <3>3. Held(k)' /\ ~Early(k)' /\ k \in mapped'
      BY <1>3, <2>2 DEF Held, Early
    <3> QED BY <1>1, <3>1, <3>2, <3>3 DEF FrameSent, Unsent
  <2>9. MsgInv' /\ \A j \in Frames : j # k => FrameSent(j)'
    BY <1>1, <2>3, OthersSent, MsgsKept DEF FrameInv, SentInv
  <2> QED BY <2>1, <2>6, <2>7, <2>8, <2>9 DEF FrameInv, SentInv
<1> QED BY <1>2, <1>3 DEF MapFrame

LEMMA SendFrameFrames == ASSUME FrameInv, NEW k \in Frames, SendFrame(k) PROVE FrameInv'
<1>1. PhasesKept /\ UNCHANGED <<wait_list, sched_list, msgs, stray, signals, valid, job>>
      /\ sender[k] = "send"
  BY PhasesUnchanged DEF SendFrame, workVars, queueVars, sqVars, instVars
<1>2. fence[k] = "none" /\ k \notin KernelFrames
  BY <1>1 DEF FrameInv, QueueInv, TagInv
<1>3. k \notin sched_list /\ k \notin Waiting
  BY <1>2, NotQueued
<1>4. k \in mapped /\ Unsent(k)
  BY <1>1 DEF FrameInv, SentInv, FrameSent, Held
<1>5. Answered(k)' <=> Answered(k)
  BY <1>1, MsgsKept
<1>6. CASE /\ fw' = fw \cup {k}
           /\ fence' = IF k \in SocFrames THEN [fence EXCEPT ![k] = "live"] ELSE fence
           /\ Step(k, IF k \in SocFrames THEN "queue" ELSE "dec")
           /\ UNCHANGED mapped
  <2>1. FrameTypes'
    BY <1>1, <1>6 DEF Step, Labels, FrameInv, FrameTypes
  <2>2. /\ sender'[k] = (IF k \in SocFrames THEN "queue" ELSE "dec")
        /\ fence'[k] = (IF k \in SocFrames THEN "live" ELSE fence[k])
    BY <1>6 DEF Step, FrameInv, FrameTypes
  <2>3. Others(k)
    BY <1>1, <1>6 DEF Step, FrameInv, FrameTypes, Others
  <2>4. QueueInv'
    <3>1. fence'[k] = "none" <=> Early(k)' \/ sender'[k] = "send" \/ k \in PlainFrames
      BY <1>2, <2>2, FrameKinds DEF Early
    <3> QED BY <1>1, <1>2, <1>3, <2>2, <2>3, <3>1, OthersQueue, FrameKinds
  <2>5. SignalInv'
    <3>1. \A j \in KernelFrames : fence'[j] = "freed" <=> fence[j] = "freed"
      BY <1>2, <2>3, FrameKinds DEF Others
    <3> QED BY <3>1, <1>1, SignalKept DEF FrameInv
  <2>6. FrameSent(k)'
    <3>1. ~Held(k)' /\ ~Early(k)' /\ k \in mapped' /\ k \in fw' /\ ~Answered(k)'
      BY <1>2, <1>4, <1>5, <1>6, <2>2 DEF Held, Early, Unsent
    <3> QED BY <3>1 DEF FrameSent, Settled
  <2>7. MsgInv' /\ \A j \in Frames : j # k => FrameSent(j)'
    BY <1>1, <2>3, OthersSent, MsgsKept DEF FrameInv, SentInv
  <2> QED BY <2>1, <2>4, <2>5, <2>6, <2>7 DEF FrameInv, SentInv
<1>7. CASE /\ mapped' = mapped \ {k}
           /\ Step(k, "failed")
           /\ UNCHANGED <<fw, fence>>
  <2>1. FrameTypes'
    BY <1>1, <1>7 DEF Step, Labels, FrameInv, FrameTypes
  <2>2. sender'[k] = "failed"
    BY <1>7 DEF Step, FrameInv, FrameTypes
  <2>3. Others(k)
    BY <1>1, <1>7 DEF Step, FrameInv, FrameTypes, Others
  <2>4. QueueInv'
    BY <1>1, <1>2, <1>3, <1>7, <2>2, <2>3, OthersQueue DEF Early
  <2>5. SignalInv'
    BY <1>1, <1>7, SignalKept DEF FrameInv
  <2>6. FrameSent(k)'
    <3>1. ~Held(k)' /\ k \notin mapped' /\ k \notin fw' /\ ~Answered(k)'
      BY <1>2, <1>4, <1>5, <1>7, <2>2 DEF Held, Unsent
    <3> QED BY <3>1 DEF FrameSent, Settled, Unsent
  <2>7. MsgInv' /\ \A j \in Frames : j # k => FrameSent(j)'
    BY <1>1, <2>3, OthersSent, MsgsKept DEF FrameInv, SentInv
  <2> QED BY <2>1, <2>4, <2>5, <2>6, <2>7 DEF FrameInv, SentInv
<1> QED BY <1>6, <1>7 DEF SendFrame

LEMMA QueueFenceFrames == ASSUME FrameInv, NEW k \in Frames, QueueFence(k) PROVE FrameInv'
<1>1. /\ UNCHANGED <<sched_list, msgs, mapped, fw, stray, signals, fence, valid, job, pc>>
      /\ sender[k] = "queue" /\ wait_list' = Append(wait_list, k)
      /\ sender' = [sender EXCEPT ![k] = "dec"]
  BY DEF QueueFence, workVars, queueVars, sqVars, instVars, frameVars, synxVars, Step
<1>2. PhasesKept
  BY <1>1, PhasesUnchanged
<1>3. k \in Fenced /\ fence[k] = "live"
  BY <1>1 DEF FrameInv, QueueInv, TagInv
<1>4. k \notin sched_list /\ k \notin Waiting
  BY <1>1, NotQueued
<1>5. Waiting' = Waiting \cup {k} /\ NoDuplicates(wait_list') /\ wait_list' \in Seq(Fenced)
  <2>1. Waiting = Elems(wait_list) /\ Waiting' = Elems(wait_list')
        /\ wait_list \in Seq(Fenced) /\ NoDuplicates(wait_list)
    BY DEF Waiting, Elems, FrameInv, FrameTypes, QueueInv, PlaceInv
  <2> QED BY <1>1, <1>3, <1>4, <2>1, AppendElems
<1>6. sender'[k] = "dec" /\ \A j \in Frames : j # k => sender'[j] = sender[j]
  BY <1>1 DEF FrameInv, FrameTypes
<1>7. FrameTypes'
  BY <1>1, <1>5 DEF FrameInv, FrameTypes, Labels
<1>8. QueueInv'
  <2>1. ThreadInv'
    BY <1>1 DEF FrameInv, QueueInv, ThreadInv
  <2>2. PlaceInv'
    <3>1. \A j \in Fenced : j \in sched_list' \/ j \in Waiting' <=>
                            fence'[j] = "live" /\ sender'[j] # "queue"
      BY <1>1, <1>3, <1>5, <1>6, FrameKinds DEF FrameInv, QueueInv, PlaceInv
    <3> QED BY <1>1, <1>4, <1>5, <3>1 DEF FrameInv, QueueInv, PlaceInv
  <2>3. TagInv'
    BY <1>1, <1>3, <1>6, FrameKinds DEF FrameInv, QueueInv, TagInv, Early
  <2> QED BY <2>1, <2>2, <2>3 DEF QueueInv
<1>9. SignalInv'
  BY <1>1, <1>2, SignalKept DEF FrameInv
<1>10. ASSUME NEW j \in Frames PROVE FrameSent(j)'
  <2>1. (Held(j)' <=> Held(j)) /\ (Early(j)' <=> Early(j))
    BY <1>1, <1>2, <1>5, <1>6, BusyKept DEF Held, Early
  <2>2. SameFrame(j)
    BY <1>1, <2>1, MsgsKept DEF SameFrame
  <2> QED BY <2>2, SentSame DEF FrameInv, SentInv
<1> QED BY <1>1, <1>7, <1>8, <1>9, <1>10, MsgsKept DEF FrameInv, SentInv

LEMMA FwAnswerFrames == ASSUME FrameInv, NEW k \in Frames, FwAnswer(k) PROVE FrameInv'
<1>1. /\ UNCHANGED <<wait_list, sched_list, mapped, signals, fence, sender, valid, job, pc>>
      /\ k \in fw /\ fw' = fw \ {k}
      /\ \/ msgs' = [msgs EXCEPT ![Queue(k)] = Append(@, k)] /\ UNCHANGED stray
         \/ stray' = stray \cup {k} /\ UNCHANGED msgs
  BY DEF FwAnswer, workVars, queueVars, instVars, synxVars
<1>2. PhasesKept /\ SenderSame
  BY <1>1, PhasesUnchanged, SenderUnchanged
<1>3. QueueInv' /\ SignalInv'
  BY <1>1, <1>2, QueueKept, SignalKept DEF FrameInv
<1>4. k \in mapped /\ ~Answered(k) /\ ~Held(k) /\ ~Early(k)
  BY <1>1 DEF FrameInv, SentInv, FrameSent, Unsent
<1>5. Others(k)
  BY <1>1 DEF Others
<1>6. FrameTypes' /\ MsgInv' /\ (\A j \in Frames : j # k => (Answered(j)' <=> Answered(j)))
      /\ (k \in stray' \/ Answered(k)')
  <2>1. CASE stray' = stray \cup {k} /\ UNCHANGED msgs
    BY <1>1, <2>1, MsgsKept DEF FrameInv, FrameTypes, SentInv
  <2>2. CASE msgs' = [msgs EXCEPT ![Queue(k)] = Append(@, k)] /\ UNCHANGED stray
    <3> DEFINE q == Queue(k)
               u == Append(msgs[q], k)
    <3>1. q \in {"sq", "sqf"} /\ msgs[q] \in Seq(Frames)
      BY QueueOf DEF FrameInv, FrameTypes
    <3>2. Elems(u) = Elems(msgs[q]) \cup {k} /\ u \in Seq(Frames)
      <4> HIDE DEF q
      <4> QED BY <3>1, AppendElems
    <3> HIDE DEF u, q
    <3>3. msgs' = [msgs EXCEPT ![q] = u]
      BY <2>2 DEF q, u
    <3>4. msgs'[q] = u /\ \A p \in {"sq", "sqf"} : p # q => msgs'[p] = msgs[p]
      BY <3>1, <3>3 DEF FrameInv, FrameTypes
    <3>5. FrameTypes'
      BY <1>1, <2>2, <3>2, <3>3 DEF FrameInv, FrameTypes
    <3>6. MsgInv'
      <4>1. \A p \in {"sq", "sqf"} : \A j \in Elems(msgs[p]) : Queue(j) = p
        BY MsgElems DEF FrameInv, SentInv
      <4>2. \A p \in {"sq", "sqf"} : \A j \in Elems(msgs'[p]) : Queue(j) = p
        BY <3>2, <3>4, <4>1 DEF q
      <4>3. \A j : Queue(j)' = Queue(j)
        BY DEF Queue
      <4> QED BY <4>2, <4>3 DEF MsgInv, Elems
    <3>7. ASSUME NEW j \in Frames
          PROVE  /\ j # k => (Answered(j)' <=> Answered(j))
                 /\ Answered(k)'
      <4>1. Answered(j) <=> j \in Elems(msgs[Queue(j)])
        BY AnsweredElems
      <4>2. (Answered(j)' <=> j \in Elems(msgs'[Queue(j)]))
            /\ (Answered(k)' <=> k \in Elems(msgs'[q]))
        BY DEF Answered, Elems, Queue, q
      <4> QED BY <4>1, <4>2, <3>2, <3>4, QueueOf
    <3> QED BY <3>5, <3>6, <3>7
  <2> QED BY <1>1, <2>1, <2>2
<1>7. FrameSent(k)'
  <2>1. ~Held(k)' /\ ~Early(k)'
    BY <1>1, <1>2, <1>4, HeldKept DEF SenderSame
  <2> QED BY <1>1, <1>6, <2>1 DEF FrameSent, Settled
<1>8. ASSUME NEW j \in Frames, j # k PROVE FrameSent(j)'
  BY <1>1, <1>2, <1>5, <1>6, <1>8, OthersSent
<1> QED BY <1>3, <1>6, <1>7, <1>8 DEF FrameInv, SentInv

-----------------------------------------------------------------------------
\* The fence threads.

LEMMA OwnerFacts ==
    ASSUME FrameInv, NEW t \in Fthreads, pc[t] \notin {"off", "wait"}
    PROVE  LET k == job[t].frame
           IN  /\ k \in sched_list /\ k \in Fenced /\ k \in Frames /\ k # "none"
               /\ k \notin Waiting /\ k \notin PlainFrames
               /\ fence[k] = "live" /\ sender[k] \in {"dec", "sent"} /\ ~Early(k)
               /\ \A g \in Fthreads : job[g].frame = k => g = t
<1> DEFINE k == job[t].frame
<1>1. k \in sched_list
  BY DEF FrameInv, QueueInv, ThreadInv
<1>2. k \in Fenced /\ k \in Frames /\ k # "none" /\ k \notin PlainFrames
  BY <1>1, FrameKinds DEF FrameInv, FrameTypes
<1>3. k \notin Waiting /\ fence[k] = "live" /\ sender[k] # "queue"
      /\ \A g \in Fthreads : job[g].frame = k => g = t
  BY <1>1, <1>2 DEF FrameInv, QueueInv, PlaceInv
<1>4. sender[k] \in {"dec", "sent"} /\ ~Early(k)
  BY <1>2, <1>3 DEF FrameInv, QueueInv, TagInv, Early, FrameTypes, Labels
<1> QED BY <1>1, <1>2, <1>3, <1>4

LEMMA FenceWaitFrames ==
    ASSUME ControlInv, FrameInv, NEW t \in Fthreads, FenceWait(t) PROVE FrameInv'
<1>0. t \in Workers
  BY FenceKind
<1>1. UNCHANGED <<msgs, mapped, fw, stray, signals, fence, sender, valid>> /\ pc[t] = "wait"
  BY DEF FenceWait, sqVars, frameVars, synxVars, instVars
<1>2. SenderSame
  BY <1>1, SenderUnchanged
<1>3. CASE Goto(t, "off") /\ UNCHANGED <<wait_list, sched_list, job>>
  <2>1. PhasesKept
    BY <1>0, <1>1, <1>3, FenceKind DEF PhasesKept, Goto, ControlInv
  <2>2. FrameTypes'
    BY <1>1, <1>3 DEF FrameInv, FrameTypes
  <2> QED BY <1>1, <1>2, <1>3, <2>1, <2>2, FrameKept
<1>4. CASE wait_list # <<>>
           /\ wait_list' = Tail(wait_list)
           /\ sched_list' = sched_list \cup {Head(wait_list)}
           /\ job' = [job EXCEPT ![t].frame = Head(wait_list)]
           /\ Goto(t, IF Head(wait_list) \in SocFrames THEN "answer" ELSE "input")
  <2> DEFINE k == Head(wait_list)
  <2>1. k \in Waiting /\ k \in Fenced /\ wait_list' \in Seq(Fenced)
        /\ Waiting' = Waiting \ {k} /\ NoDuplicates(wait_list')
    <3>1. Waiting = Elems(wait_list) /\ Waiting' = Elems(wait_list')
          /\ wait_list \in Seq(Fenced) /\ NoDuplicates(wait_list)
      BY DEF Waiting, Elems, FrameInv, FrameTypes, QueueInv, PlaceInv
    <3> QED BY <1>4, <3>1, TailElems
  <2> HIDE DEF k
  <2>2. sched_list' = sched_list \cup {k} /\ job' = [job EXCEPT ![t].frame = k]
        /\ pc' = [pc EXCEPT ![t] = IF k \in SocFrames THEN "answer" ELSE "input"]
    BY <1>4 DEF Goto, k
  <2>3. k \in Frames /\ k # "none" /\ (k \in KernelFrames <=> k \notin SocFrames)
    BY <2>1, FrameKinds
  <2>4. /\ pc'[t] = (IF k \in SocFrames THEN "answer" ELSE "input")
        /\ job'[t].frame = k
        /\ \A f \in Fthreads : f # t => pc'[f] = pc[f] /\ job'[f] = job[f]
        /\ job' \in [Workers -> Job]
    <3>1. job[t] \in Job
      BY <1>0 DEF FrameInv, FrameTypes
    <3>2. [job[t] EXCEPT !.frame = k] \in Job /\ [job[t] EXCEPT !.frame = k].frame = k
      BY <2>3, <3>1 DEF Job
    <3> QED BY <1>0, <2>2, <3>2, FenceKind DEF FrameInv, FrameTypes, ControlInv
  <2>5. job[t].frame = "none"
    BY <1>1 DEF FrameInv, QueueInv, ThreadInv
  <2>6. FrameTypes'
    BY <1>1, <2>1, <2>2, <2>4 DEF FrameInv, FrameTypes
  <2>7. fence[k] = "live" /\ sender[k] # "queue" /\ k \notin sched_list
    BY <2>1 DEF FrameInv, QueueInv, PlaceInv
  <2>8. ThreadInv'
    BY <2>2, <2>3, <2>4 DEF FrameInv, QueueInv, ThreadInv
  <2>9. \A f \in Fthreads : job[f].frame # k
    <3>1. \A f \in Fthreads : job[f].frame = "none" \/ job[f].frame \in sched_list
      BY DEF FrameInv, QueueInv, ThreadInv
    <3> QED BY <3>1, <2>3, <2>7
  <2>10. PlaceInv'
    <3>1. \A f, g \in Fthreads : job'[f].frame = job'[g].frame /\ job'[f].frame # "none" => f = g
      BY <2>4, <2>9 DEF FrameInv, QueueInv, PlaceInv
    <3>2. \A j \in sched_list' : \E f \in Fthreads : job'[f].frame = j
      <4> SUFFICES ASSUME NEW j \in sched_list' PROVE \E f \in Fthreads : job'[f].frame = j
        OBVIOUS
      <4>1. CASE j = k
        BY <2>4, <4>1
      <4>2. CASE j # k
        <5>1. j \in sched_list /\ j # "none"
          BY <2>2, <4>2, FrameKinds DEF FrameInv, FrameTypes
        <5>2. PICK f \in Fthreads : job[f].frame = j
          BY <5>1 DEF FrameInv, QueueInv, PlaceInv
        <5>3. f # t
          BY <5>1, <5>2, <2>5
        <5> QED BY <5>2, <5>3, <2>4
      <4> QED BY <4>1, <4>2
    <3>3. \A j \in sched_list' : j \notin Waiting'
      BY <2>1, <2>2 DEF FrameInv, QueueInv, PlaceInv
    <3>4. \A j \in Fenced : j \in sched_list' \/ j \in Waiting' <=>
                            fence'[j] = "live" /\ sender'[j] # "queue"
      BY <1>1, <2>1, <2>2 DEF FrameInv, QueueInv, PlaceInv
    <3> QED BY <2>1, <3>1, <3>2, <3>3, <3>4 DEF PlaceInv
  <2>11. TagInv'
    BY <1>1 DEF FrameInv, QueueInv, TagInv, Early
  <2>12. SignalInv'
    <3>1. \A f \in Fthreads : /\ pc'[f] = "release" <=> pc[f] = "release"
                              /\ pc'[f] = "release" => job'[f].frame = job[f].frame
                              /\ job[f].frame # "none" => job'[f].frame = job[f].frame
      BY <1>1, <2>4, <2>5
    <3>2. ASSUME NEW j \in KernelFrames, fence[j] # "freed",
                 \A f \in Fthreads : job'[f].frame = j => pc'[f] # "release"
          PROVE  signals[j] = 0
      <4>1. j # "none"
        BY FrameKinds
      <4>2. \A f \in Fthreads : job[f].frame = j => pc[f] # "release"
        BY <3>1, <3>2, <4>1
      <4> QED BY <3>2, <4>2 DEF FrameInv, SignalInv
    <3> QED BY <1>1, <3>1, <3>2 DEF FrameInv, SignalInv
  <2>13. ASSUME NEW j \in Frames PROVE FrameSent(j)'
    <3>1. CASE j = k
      <4>1. Busy(j)' <=> j \in KernelFrames
        BY <2>3, <2>4, <2>9, <3>1 DEF Busy
      <4>2. (Held(j)' <=> Held(j)) /\ (Early(j)' <=> Early(j))
        BY <1>1, <2>1, <3>1, <4>1 DEF Held, Early
      <4>3. SameFrame(j)
        BY <1>1, <4>2, MsgsKept DEF SameFrame
      <4> QED BY <3>1, <4>3, SentSame DEF FrameInv, SentInv
    <3>2. CASE j # k
      <4>1. j # "none"
        BY FrameKinds
      <4>2. Busy(j)' <=> Busy(j)
        BY <2>4, <2>5, <3>2, <4>1 DEF Busy
      <4>3. (Held(j)' <=> Held(j)) /\ (Early(j)' <=> Early(j))
        BY <1>1, <2>1, <3>2, <4>2 DEF Held, Early
      <4>4. SameFrame(j)
        BY <1>1, <4>3, MsgsKept DEF SameFrame
      <4> QED BY <4>4, SentSame DEF FrameInv, SentInv
    <3> QED BY <3>1, <3>2
  <2> QED BY <1>1, <2>6, <2>8, <2>10, <2>11, <2>12, <2>13, MsgsKept
          DEF FrameInv, QueueInv, SentInv
<1> QED BY <1>3, <1>4 DEF FenceWait

\* A thread that is done with holding its frame leaves the queue as it is.
LEMMA LetGo ==
    ASSUME ControlInv, FrameInv, NEW t \in Fthreads, pc[t] \in {"input", "send"}, NEW l,
           l \in {"answer", "output"}, Goto(t, l), FrameTypes',
           UNCHANGED <<wait_list, sched_list, msgs, signals, fence, sender, valid, job>>,
           \A j \in Frames : j # job[t].frame =>
               /\ j \in mapped' <=> j \in mapped
               /\ j \in fw' <=> j \in fw
               /\ j \in stray => j \in stray',
           LET k == job[t].frame
           IN  /\ Settled(k)'
               /\ k \in fw' => k \in mapped' /\ ~Answered(k)'
    PROVE  FrameInv'
<1> DEFINE k == job[t].frame
<1>0. t \in Workers
  BY FenceKind
<1>1. pc[t] \notin {"off", "wait"}
  OBVIOUS
<1>2. /\ k \in sched_list /\ k \in Fenced /\ k \in Frames /\ k # "none"
      /\ k \notin Waiting
      /\ fence[k] = "live" /\ sender[k] \in {"dec", "sent"} /\ ~Early(k)
      /\ \A g \in Fthreads : job[g].frame = k => g = t
  BY <1>1, OwnerFacts
<1>3. pc'[t] = l /\ \A f \in Fthreads : f # t => pc'[f] = pc[f]
  BY <1>0, FenceKind DEF Goto, ControlInv
<1>4. QueueInv'
  <2>1. ThreadInv'
    BY <1>3 DEF FrameInv, QueueInv, ThreadInv
  <2>2. PlaceInv'
    BY DEF FrameInv, QueueInv, PlaceInv, Waiting, NoDuplicates
  <2>3. TagInv'
    BY DEF FrameInv, QueueInv, TagInv, Early
  <2> QED BY <2>1, <2>2, <2>3 DEF QueueInv
<1>5. SignalInv'
  BY <1>3 DEF FrameInv, SignalInv
<1>6. \A j \in Frames : Answered(j)' <=> Answered(j)
  BY MsgsKept
<1>7. ASSUME NEW j \in Frames PROVE FrameSent(j)'
  <2>1. CASE j = k
    <3>1. ~Busy(k)'
      BY <1>2, <1>3 DEF Busy
    <3>2. ~Held(k)' /\ ~Early(k)'
      BY <1>2, <3>1 DEF Held, Early, Waiting
    <3> QED BY <2>1, <3>2 DEF FrameSent
  <2>2. CASE j # k
    <3>1. Busy(j)' <=> Busy(j)
      BY <1>3, <2>2 DEF Busy
    <3>2. SameFrame(j)
      BY <1>6, <2>2, <3>1 DEF SameFrame, Held, Early, Waiting
    <3> QED BY <3>2, SentSame DEF FrameInv, SentInv
  <2> QED BY <2>1, <2>2
<1> QED BY <1>4, <1>5, <1>7, MsgsKept DEF FrameInv, SentInv

\* The frame of a thread that waits for its input or is about to send it.
LEMMA HolderFacts ==
    ASSUME FrameInv, NEW t \in Fthreads, pc[t] \in {"input", "send"}
    PROVE  LET k == job[t].frame
           IN  k \in Frames /\ k \in mapped /\ k \notin fw /\ ~Answered(k)
<1> DEFINE k == job[t].frame
<1>1. k \in KernelFrames /\ k \in Frames
  BY FrameKinds DEF FrameInv, QueueInv, ThreadInv
<1>2. Held(k)
  BY <1>1 DEF Held, Busy
<1> QED BY <1>1, <1>2 DEF FrameInv, SentInv, FrameSent, Unsent

LEMMA FenceInputFrames ==
    ASSUME ControlInv, FrameInv, NEW t \in Fthreads, FenceInput(t) PROVE FrameInv'
<1> DEFINE k == job[t].frame
<1>1. /\ UNCHANGED <<wait_list, sched_list, msgs, signals, fence, sender, valid, job, fw, stray>>
      /\ pc[t] = "input"
  BY DEF FenceInput, queueVars, sqVars, frameVars, synxVars, instVars
<1>2. k \in Frames /\ k \in mapped /\ k \notin fw
  BY <1>1, HolderFacts
<1>3. CASE Goto(t, "send") /\ UNCHANGED mapped
  <2>1. PhasesKept
    BY <1>1, <1>3, FenceKind DEF PhasesKept, Goto, ControlInv
  <2>2. FrameTypes'
    BY <1>1, <1>3 DEF FrameInv, FrameTypes
  <2> QED BY <1>1, <1>3, <2>1, <2>2, FrameKept, SenderUnchanged
<1>4. CASE mapped' = mapped \ {k} /\ Goto(t, "output")
  <2>1. FrameTypes'
    BY <1>1, <1>4 DEF FrameInv, FrameTypes
  <2>2. Settled(k)' /\ k \notin fw'
    BY <1>1, <1>2, <1>4 DEF Settled
  <2> QED BY <1>1, <1>4, <2>1, <2>2, LetGo
<1> QED BY <1>3, <1>4 DEF FenceInput

LEMMA FenceSendFrames ==
    ASSUME ControlInv, FrameInv, NEW t \in Fthreads, FenceSend(t) PROVE FrameInv'
<1> DEFINE k == job[t].frame
<1>1. /\ UNCHANGED <<wait_list, sched_list, msgs, signals, fence, sender, valid, job, mapped>>
      /\ pc[t] = "send"
  BY DEF FenceSend, queueVars, sqVars, synxVars, instVars
<1>2. k \in Frames /\ k \in mapped /\ k \notin fw /\ ~Answered(k)
  BY <1>1, HolderFacts
<1>3. Answered(k)' <=> Answered(k)
  BY <1>1, MsgsKept
<1>4. CASE fw' = fw \cup {k} /\ Goto(t, "answer") /\ UNCHANGED stray
  <2>1. FrameTypes'
    BY <1>1, <1>2, <1>4 DEF FrameInv, FrameTypes
  <2>2. Settled(k)' /\ k \in mapped' /\ ~Answered(k)'
    BY <1>1, <1>2, <1>3, <1>4 DEF Settled
  <2> QED BY <1>1, <1>4, <2>1, <2>2, LetGo
<1>5. CASE Goto(t, "output") /\ stray' = stray \cup {k} /\ UNCHANGED fw
  <2>1. FrameTypes'
    BY <1>1, <1>2, <1>5 DEF FrameInv, FrameTypes
  <2>2. Settled(k)' /\ k \notin fw'
    BY <1>1, <1>2, <1>5 DEF Settled
  <2> QED BY <1>1, <1>5, <2>1, <2>2, LetGo
<1> QED BY <1>4, <1>5 DEF FenceSend

LEMMA FenceAnswerFrames ==
    ASSUME ControlInv, FrameInv, NEW t \in Fthreads, FenceAnswer(t) PROVE FrameInv'
<1>1. /\ UNCHANGED <<wait_list, sched_list, signals, fence, sender, valid, job, fw, stray>>
      /\ pc[t] = "answer"
  BY DEF FenceAnswer, queueVars, synxVars, instVars
<1>2. ASSUME NEW l \in {"output", "timeout_stop"}, Goto(t, l) PROVE PhasesKept
  <2>1. pc'[t] = l /\ \A f \in Fthreads : f # t => pc'[f] = pc[f]
    BY <1>2, FenceKind DEF Goto, ControlInv
  <2> QED BY <1>1, <2>1 DEF PhasesKept
<1>3. CASE \E n \in 1 .. Len(msgs["sqf"]) : TakeMessage(t, "sqf", n, "output")
  <2>1. PICK n : TakeMessage(t, "sqf", n, "output")
    BY <1>3
  <2>2. PhasesKept
    BY <1>2, <2>1 DEF TakeMessage
  <2> QED BY <1>1, <2>1, <2>2, TakeCollected
<1>4. CASE MessageTimeout(t, "output") /\ UNCHANGED <<msgs, mapped>>
  <2>1. PhasesKept
    BY <1>2, <1>4 DEF MessageTimeout, Call
  <2>2. FrameTypes'
    BY <1>1, <1>4 DEF FrameInv, FrameTypes
  <2> QED BY <1>1, <1>4, <2>1, <2>2, FrameKept, SenderUnchanged
<1> QED BY <1>3, <1>4 DEF FenceAnswer

LEMMA FenceOutputFrames ==
    ASSUME ControlInv, FrameInv, NEW t \in Fthreads, FenceOutput(t) PROVE FrameInv'
<1> DEFINE k == job[t].frame
<1>1. /\ UNCHANGED <<wait_list, sched_list, msgs, mapped, fw, stray, fence, sender, valid, job>>
      /\ pc[t] = "output" /\ Goto(t, "release")
      /\ IF k \in KernelFrames THEN signals' = [signals EXCEPT ![k] = @ + 1]
                               ELSE UNCHANGED signals
  BY DEF FenceOutput, queueVars, sqVars, frameVars, instVars
<1>2. /\ k \in Frames /\ k # "none" /\ fence[k] = "live"
      /\ \A g \in Fthreads : job[g].frame = k => g = t
  BY <1>1, OwnerFacts
<1>3. pc'[t] = "release" /\ \A f \in Fthreads : f # t => pc'[f] = pc[f]
  BY <1>1, FenceKind DEF Goto, ControlInv
<1>4. FrameTypes'
  BY <1>1, <1>2 DEF FrameInv, FrameTypes
<1>5. QueueInv'
  <2>1. ThreadInv'
    BY <1>1, <1>3 DEF FrameInv, QueueInv, ThreadInv
  <2>2. PlaceInv'
    BY <1>1 DEF FrameInv, QueueInv, PlaceInv, Waiting, NoDuplicates
  <2>3. TagInv'
    BY <1>1 DEF FrameInv, QueueInv, TagInv, Early
  <2> QED BY <2>1, <2>2, <2>3 DEF QueueInv
<1>6. SignalInv'
  <2>1. ASSUME k \in KernelFrames PROVE signals'[k] = 1
    <3>1. signals[k] = 0
      BY <1>1, <1>2, <2>1 DEF FrameInv, SignalInv
    <3> QED BY <1>1, <1>2, <2>1, <3>1 DEF FrameInv, FrameTypes
  <2>2. \A j \in Frames : j # k => signals'[j] = signals[j]
    BY <1>1 DEF FrameInv, FrameTypes
  <2>3. ASSUME NEW j \in KernelFrames
        PROVE  /\ fence[j] = "freed" => signals'[j] = 1
               /\ fence[j] # "freed" /\ (\A f \in Fthreads : job[f].frame = j => pc'[f] # "release")
                   => signals'[j] = 0
    <3>1. CASE j = k
      BY <1>2, <1>3, <3>1
    <3>2. CASE j # k
      <4>1. signals'[j] = signals[j] /\ \A f \in Fthreads : job[f].frame = j => pc'[f] = pc[f]
        BY <1>3, <2>2, <3>2, FrameKinds
      <4> QED BY <4>1 DEF FrameInv, SignalInv
    <3> QED BY <3>1, <3>2
  <2>4. ASSUME NEW f \in Fthreads, pc'[f] = "release", job[f].frame \in KernelFrames
        PROVE  signals'[job[f].frame] = 1
    <3>1. CASE f = t
      BY <2>1, <2>4, <3>1
    <3>2. CASE f # t
      <4>1. job[f].frame # k /\ job[f].frame \in Frames
        BY <1>2, <2>4, <3>2, FrameKinds
      <4>2. signals[job[f].frame] = 1
        BY <1>3, <2>4, <3>2 DEF FrameInv, SignalInv
      <4> QED BY <2>2, <4>1, <4>2
    <3> QED BY <3>1, <3>2
  <2> QED BY <1>1, <2>3, <2>4 DEF SignalInv
<1>7. ASSUME NEW j \in Frames PROVE FrameSent(j)'
  <2>1. Busy(j)' <=> Busy(j)
    BY <1>1, <1>3 DEF Busy
  <2>2. SameFrame(j)
    BY <1>1, <2>1, MsgsKept DEF SameFrame, Held, Early, Waiting
  <2> QED BY <2>2, SentSame DEF FrameInv, SentInv
<1> QED BY <1>1, <1>4, <1>5, <1>6, <1>7, MsgsKept DEF FrameInv, SentInv

LEMMA FenceReleaseFrames ==
    ASSUME ControlInv, FrameInv, NEW t \in Fthreads, FenceRelease(t) PROVE FrameInv'
<1> DEFINE k == job[t].frame
<1>0. t \in Workers
  BY FenceKind
<1>1. /\ UNCHANGED <<wait_list, msgs, mapped, fw, stray, signals, sender, valid>>
      /\ pc[t] = "release"
      /\ sched_list' = sched_list \ {k}
      /\ fence' = [fence EXCEPT ![k] = "freed"]
      /\ job' = [job EXCEPT ![t] = NoJob]
      /\ Goto(t, IF rc[t] = "err" /\ q_state # "START" THEN "off" ELSE "wait")
  BY DEF FenceRelease, sqVars, frameVars, instVars
<1>2. /\ k \in sched_list /\ k \in Fenced /\ k \in Frames /\ k # "none"
      /\ k \notin Waiting /\ k \notin PlainFrames
      /\ fence[k] = "live" /\ sender[k] \in {"dec", "sent"} /\ ~Early(k)
      /\ \A g \in Fthreads : job[g].frame = k => g = t
  BY <1>1, OwnerFacts
<1>3. pc'[t] \in {"off", "wait"} /\ job'[t].frame = "none"
      /\ \A f \in Fthreads : f # t => pc'[f] = pc[f] /\ job'[f] = job[f]
  BY <1>0, <1>1, FenceKind DEF Goto, ControlInv, FrameInv, FrameTypes, NoJob
<1>4. FrameTypes'
  <2>1. NoJob \in Job
    BY DEF NoJob, Job, SqStates
  <2> QED BY <1>1, <2>1 DEF FrameInv, FrameTypes
<1>5. fence'[k] = "freed" /\ \A j \in Frames : j # k => fence'[j] = fence[j]
  BY <1>1, <1>2 DEF FrameInv, FrameTypes
<1>6. Waiting' = Waiting
  BY <1>1 DEF Waiting
<1>7. ThreadInv'
  BY <1>1, <1>2, <1>3 DEF FrameInv, QueueInv, ThreadInv
<1>8. PlaceInv'
  <2>1. \A f, g \in Fthreads : job'[f].frame = job'[g].frame /\ job'[f].frame # "none" => f = g
    BY <1>3 DEF FrameInv, QueueInv, PlaceInv
  <2>2. \A j \in sched_list' : \E f \in Fthreads : job'[f].frame = j
    <3> SUFFICES ASSUME NEW j \in sched_list' PROVE \E f \in Fthreads : job'[f].frame = j
      OBVIOUS
    <3>1. j \in sched_list /\ j # k
      BY <1>1
    <3>2. PICK f \in Fthreads : job[f].frame = j
      BY <3>1 DEF FrameInv, QueueInv, PlaceInv
    <3>3. f # t
      BY <3>1, <3>2
    <3> QED BY <1>3, <3>2, <3>3
  <2>3. \A j \in Fenced : j \in sched_list' \/ j \in Waiting' <=>
                          fence'[j] = "live" /\ sender'[j] # "queue"
    <3> SUFFICES ASSUME NEW j \in Fenced
                 PROVE  j \in sched_list' \/ j \in Waiting' <=>
                        fence'[j] = "live" /\ sender'[j] # "queue"
      OBVIOUS
    <3>1. CASE j = k
      BY <1>1, <1>2, <1>5, <1>6, <3>1
    <3>2. CASE j # k
      BY <1>1, <1>5, <1>6, <3>2, FrameKinds DEF FrameInv, QueueInv, PlaceInv
    <3> QED BY <3>1, <3>2
  <2> QED BY <1>1, <1>6, <2>1, <2>2, <2>3 DEF FrameInv, QueueInv, PlaceInv, NoDuplicates
<1>9. TagInv'
  BY <1>1, <1>2, <1>5 DEF FrameInv, QueueInv, TagInv, Early
<1>10. SignalInv'
  <2>1. k \in KernelFrames => signals[k] = 1
    BY <1>1 DEF FrameInv, SignalInv
  <2>2. ASSUME NEW j \in KernelFrames
        PROVE  /\ fence'[j] = "freed" => signals[j] = 1
               /\ fence'[j] # "freed"
                    /\ (\A f \in Fthreads : job'[f].frame = j => pc'[f] # "release")
                  => signals[j] = 0
    <3>1. CASE j = k
      BY <1>5, <2>1, <3>1
    <3>2. CASE j # k
      <4>1. j \in Frames
        BY FrameKinds
      <4>2. ASSUME \A f \in Fthreads : job'[f].frame = j => pc'[f] # "release"
            PROVE  \A f \in Fthreads : job[f].frame = j => pc[f] # "release"
        BY <1>3, <3>2, <4>2
      <4> QED BY <1>5, <3>2, <4>1, <4>2 DEF FrameInv, SignalInv
    <3> QED BY <3>1, <3>2
  <2>3. ASSUME NEW f \in Fthreads, pc'[f] = "release", job'[f].frame \in KernelFrames
        PROVE  signals[job'[f].frame] = 1
    <3>1. f # t
      BY <1>3, <2>3
    <3> QED BY <1>3, <2>3, <3>1 DEF FrameInv, SignalInv
  <2> QED BY <1>1, <2>2, <2>3 DEF SignalInv
<1>11. ASSUME NEW j \in Frames PROVE FrameSent(j)'
  <2>1. Busy(j)' <=> Busy(j)
    BY <1>1, <1>3 DEF Busy
  <2>2. SameFrame(j)
    BY <1>1, <1>6, <2>1, MsgsKept DEF SameFrame, Held, Early
  <2> QED BY <2>2, SentSame DEF FrameInv, SentInv
<1> QED BY <1>1, <1>4, <1>7, <1>8, <1>9, <1>10, <1>11, MsgsKept
        DEF FrameInv, QueueInv, SentInv

-----------------------------------------------------------------------------
\* Cleaning, release and close.

LEMMA CleanListsFrames ==
    ASSUME FrameInv, NEW t \in Workers, CleanLists(t), PhasesKept, job' \in [Workers -> Job]
    PROVE  FrameInv'
<1> DEFINE gone == Waiting \cap KernelFrames
<1>1. /\ UNCHANGED <<sched_list, msgs, fw, stray, sender, valid>>
      /\ wait_list' = SocOnly(wait_list)
      /\ mapped' = mapped \ gone
      /\ fence' = [k \in Frames |-> IF k \in gone THEN "freed" ELSE fence[k]]
      /\ signals' = [k \in Frames |-> IF k \in gone THEN signals[k] + 1 ELSE signals[k]]
  BY DEF CleanLists, sqVars, instVars
<1>2. wait_list' \in Seq(Fenced) /\ NoDuplicates(wait_list') /\ Waiting' = Waiting \cap SocFrames
  <2>1. Waiting = Elems(wait_list) /\ Waiting' = Elems(wait_list')
        /\ wait_list \in Seq(Fenced) /\ NoDuplicates(wait_list)
    BY DEF Waiting, Elems, FrameInv, FrameTypes, QueueInv, PlaceInv
  <2> QED BY <1>1, <2>1, SocOnlyElems
<1>3. ASSUME NEW k \in gone
      PROVE  /\ k \in Frames /\ k \in Fenced /\ k \in KernelFrames /\ k \in Waiting
             /\ k \notin sched_list /\ fence[k] = "live" /\ sender[k] \in {"dec", "sent"}
             /\ k \notin fw /\ signals[k] = 0
             /\ \A f \in Fthreads : job[f].frame # k
  <2>1. k \in KernelFrames /\ k \in Waiting /\ k \in Fenced /\ k \in Frames
        /\ k \notin PlainFrames /\ k # "none"
    BY FrameKinds
  <2>2. fence[k] = "live" /\ sender[k] # "queue" /\ k \notin sched_list
    BY <2>1 DEF FrameInv, QueueInv, PlaceInv
  <2>3. sender[k] \in {"dec", "sent"}
    BY <2>1, <2>2 DEF FrameInv, QueueInv, TagInv, Early, FrameTypes, Labels
  <2>4. \A f \in Fthreads : job[f].frame # k
    BY <2>1, <2>2 DEF FrameInv, QueueInv, ThreadInv
  <2>5. signals[k] = 0
    BY <2>1, <2>2, <2>4 DEF FrameInv, SignalInv
  <2>6. k \notin fw
    BY <2>1 DEF FrameInv, SentInv, FrameSent, Held, Unsent
  <2> QED BY <2>1, <2>2, <2>3, <2>4, <2>5, <2>6
<1>4. ASSUME NEW k \in Frames
      PROVE  /\ k \in gone => fence'[k] = "freed" /\ signals'[k] = 1
             /\ k \notin gone => fence'[k] = fence[k] /\ signals'[k] = signals[k]
             /\ fence'[k] \in {"none", "live", "freed"} /\ signals'[k] \in Nat
  <2>1. signals[k] \in Nat /\ fence[k] \in {"none", "live", "freed"}
    BY DEF FrameInv, FrameTypes
  <2>2. k \in gone => signals[k] = 0
    BY <1>3
  <2> HIDE DEF gone
  <2> QED BY <1>1, <2>1, <2>2
<1>5. FrameTypes'
  <2>1. fence' \in [Frames -> {"none", "live", "freed"}] /\ signals' \in [Frames -> Nat]
    <3> HIDE DEF gone
    <3> QED BY <1>1, <1>4
  <2> QED BY <1>1, <1>2, <2>1 DEF FrameInv, FrameTypes
<1>6. ThreadInv'
  BY <1>1 DEF FrameInv, QueueInv, ThreadInv, PhasesKept
<1>7. PlaceInv'
  <2>1. /\ \A f, g \in Fthreads :
             job'[f].frame = job'[g].frame /\ job'[f].frame # "none" => f = g
        /\ \A j \in sched_list' : \E f \in Fthreads : job'[f].frame = j
    BY <1>1 DEF FrameInv, QueueInv, PlaceInv, PhasesKept
  <2>2. \A j \in sched_list' : j \notin Waiting'
    BY <1>1, <1>2 DEF FrameInv, QueueInv, PlaceInv
  <2>3. ASSUME NEW j \in Fenced
        PROVE  j \in sched_list' \/ j \in Waiting' <=> fence'[j] = "live" /\ sender'[j] # "queue"
    <3>1. j \in Frames /\ (j \in KernelFrames <=> j \notin SocFrames)
      BY FrameKinds
    <3>2. CASE j \in gone
      BY <1>1, <1>2, <1>3, <1>4, <3>1, <3>2
    <3>3. CASE j \notin gone
      <4>1. j \in Waiting' <=> j \in Waiting
        BY <1>2, <3>1, <3>3
      <4>2. fence'[j] = fence[j]
        BY <1>4, <3>1, <3>3
      <4> QED BY <1>1, <4>1, <4>2 DEF FrameInv, QueueInv, PlaceInv
    <3> QED BY <3>2, <3>3
  <2> QED BY <1>2, <2>1, <2>2, <2>3 DEF PlaceInv
<1>8. TagInv'
  <2> SUFFICES ASSUME NEW k \in Frames
               PROVE /\ fence'[k] = "none" <=> Early(k)' \/ sender'[k] = "send" \/ k \in PlainFrames
                     /\ sender'[k] = "queue" => k \in Fenced /\ fence'[k] = "live"
                     /\ sender'[k] = "send" => k \notin KernelFrames
    BY DEF TagInv
  <2>1. CASE k \in gone
    BY <1>1, <1>3, <1>4, <2>1, FrameKinds DEF Early
  <2>2. CASE k \notin gone
    <3>1. fence'[k] = fence[k]
      BY <1>4, <2>2
    <3> QED BY <1>1, <3>1 DEF FrameInv, QueueInv, TagInv, Early
  <2> QED BY <2>1, <2>2
<1>9. SignalInv'
  <2>1. ASSUME NEW k \in KernelFrames
        PROVE  /\ fence'[k] = "freed" => signals'[k] = 1
               /\ fence'[k] # "freed"
                    /\ (\A f \in Fthreads : job'[f].frame = k => pc'[f] # "release")
                  => signals'[k] = 0
    <3>1. k \in Frames
      BY FrameKinds
    <3>2. CASE k \in gone
      BY <1>4, <3>1, <3>2
    <3>3. CASE k \notin gone
      <4>1. fence'[k] = fence[k] /\ signals'[k] = signals[k]
        BY <1>4, <3>1, <3>3
      <4> QED BY <4>1 DEF FrameInv, SignalInv, PhasesKept
    <3> QED BY <3>2, <3>3
  <2>2. ASSUME NEW f \in Fthreads, pc'[f] = "release", job'[f].frame \in KernelFrames
        PROVE  signals'[job'[f].frame] = 1
    <3>1. pc[f] = "release" /\ job'[f].frame = job[f].frame /\ job[f].frame \in KernelFrames
      BY <2>2 DEF PhasesKept
    <3>2. job[f].frame \notin gone /\ job[f].frame \in Frames
      BY <1>3, <3>1, FrameKinds
    <3>3. signals[job[f].frame] = 1
      BY <3>1 DEF FrameInv, SignalInv
    <3> HIDE DEF gone
    <3> QED BY <1>4, <3>1, <3>2, <3>3
  <2> QED BY <2>1, <2>2 DEF SignalInv
<1>10. ASSUME NEW k \in Frames PROVE FrameSent(k)'
  <2>1. Answered(k)' <=> Answered(k)
    BY <1>1, MsgsKept
  <2>2. Busy(k)' <=> Busy(k)
    BY BusyKept
  <2>3. CASE k \in gone
    <3>1. ~Busy(k)
      BY <1>3, <2>3 DEF Busy
    <3>2. k \notin Waiting'
      BY <1>2, <2>3, FrameKinds
    <3>3. ~Held(k)' /\ ~Early(k)' /\ k \notin mapped' /\ k \notin fw'
      BY <1>1, <1>3, <2>2, <2>3, <3>1, <3>2 DEF Held, Early
    <3> QED BY <3>3 DEF FrameSent, Settled
  <2>4. CASE k \notin gone
    <3>1. k \in KernelFrames => (k \in Waiting' <=> k \in Waiting)
      BY <1>2, <2>4, FrameKinds
    <3>2. SameFrame(k)
      BY <1>1, <2>1, <2>2, <2>4, <3>1 DEF SameFrame, Held, Early
    <3> QED BY <3>2, SentSame DEF FrameInv, SentInv
  <2> QED BY <2>3, <2>4
<1> QED BY <1>1, <1>2, <1>5, <1>6, <1>7, <1>8, <1>9, <1>10, MsgsKept
        DEF FrameInv, QueueInv, SentInv

LEMMA CoreReleaseFrames ==
    ASSUME FrameInv, NEW t \in Workers, CoreRelease(t), PhasesKept, job' \in [Workers -> Job]
    PROVE  FrameInv'
<1>1. /\ UNCHANGED <<wait_list, sched_list, fence, signals, msgs, mapped, stray, sender>>
      /\ valid' = FALSE /\ fw' = {}
  BY DEF CoreRelease, queueVars, sqVars, synxVars
<1>2. SenderSame
  BY <1>1, SenderUnchanged
<1>3. QueueInv' /\ SignalInv' /\ MsgInv' /\ FrameTypes'
  BY <1>1, <1>2, QueueKept, SignalKept, MsgsKept DEF FrameInv, SentInv, FrameTypes
<1>4. ASSUME NEW k \in Frames PROVE FrameSent(k)'
  <2>1. (Held(k)' <=> Held(k)) /\ (Early(k)' <=> Early(k)) /\ (Answered(k)' <=> Answered(k))
    BY <1>1, <1>2, HeldKept, MsgsKept DEF SenderSame
  <2> QED BY <1>1, <2>1 DEF FrameInv, SentInv, FrameSent, Settled, Unsent
<1> QED BY <1>3, <1>4 DEF FrameInv, SentInv

LEMMA CloseWaitFrames ==
    ASSUME FrameInv, NEW t \in Ctls, CloseWait(t), PhasesKept PROVE FrameInv'
<1> DEFINE swept == {q \in {"sq", "sqf"} : sq_state[q] # "ACTIVE"}
           frames == {k \in mapped : \E q \in swept :
                         \E n \in 1 .. Len(msgs[q]) : msgs[q][n] = k}
<1>1. UNCHANGED <<wait_list, sched_list, fence, signals, fw, stray, valid, sender, job>>
  BY DEF CloseWait, queueVars, synxVars, instVars
<1>2. CASE UNCHANGED <<msgs, mapped>>
  <2>1. FrameTypes'
    BY <1>1, <1>2 DEF FrameInv, FrameTypes
  <2> QED BY <1>1, <1>2, <2>1, SenderUnchanged, FrameKept
<1>3. CASE /\ msgs' = [q \in {"sq", "sqf"} |-> IF q \in swept THEN <<>> ELSE msgs[q]]
           /\ mapped' = mapped \ frames
  <2>1. /\ \A q \in {"sq", "sqf"} : \/ q \in swept /\ msgs'[q] = <<>>
                                    \/ q \notin swept /\ msgs'[q] = msgs[q]
        /\ msgs' \in [{"sq", "sqf"} -> Seq(Frames)]
    <3>1. <<>> \in Seq(Frames) /\ \A q \in {"sq", "sqf"} : msgs[q] \in Seq(Frames)
      BY DEF FrameInv, FrameTypes
    <3> HIDE DEF swept
    <3> QED BY <1>3, <3>1
  <2>2. FrameTypes'
    <3> HIDE DEF frames, swept
    <3> QED BY <1>1, <1>3, <2>1 DEF FrameInv, FrameTypes
  <2>3. \A k \in frames : Answered(k) /\ Queue(k) \in swept
    <3> SUFFICES ASSUME NEW k \in mapped, NEW q \in swept, NEW n \in 1..Len(msgs[q]),
                        msgs[q][n] = k
                 PROVE  Answered(k) /\ Queue(k) \in swept
      OBVIOUS
    <3>1. Queue(k) = q
      BY DEF FrameInv, SentInv, MsgInv
    <3> QED BY <3>1 DEF Answered
  <2>4. \A k : Answered(k)' <=> \E n \in 1..Len(msgs'[Queue(k)]) : msgs'[Queue(k)][n] = k
    BY DEF Answered, Queue
  <2>5. MsgInv'
    <3>1. \A k : Queue(k)' = Queue(k)
      BY DEF Queue
    <3>2. ASSUME NEW q \in {"sq", "sqf"}, NEW n \in 1..Len(msgs'[q]) PROVE Queue(msgs'[q][n]) = q
      <4>1. CASE msgs'[q] = <<>>
        BY <4>1
      <4>2. CASE msgs'[q] = msgs[q]
        BY <4>2 DEF FrameInv, SentInv, MsgInv
      <4> QED BY <2>1, <4>1, <4>2
    <3> QED BY <3>1, <3>2 DEF MsgInv
  <2>6. ASSUME NEW k \in Frames
        PROVE  /\ Answered(k)' => Answered(k)
               /\ Answered(k) => Answered(k)' \/ k \notin mapped'
               /\ k \in mapped' => k \in mapped
               /\ k \in mapped => k \in mapped' \/ Answered(k)
    <3> DEFINE q == Queue(k)
    <3>1. q \in {"sq", "sqf"}
      BY QueueOf
    <3>2. CASE q \notin swept
      <4>1. msgs'[q] = msgs[q]
        BY <2>1, <3>1, <3>2
      <4>2. Answered(k)' <=> Answered(k)
        BY <2>4, <4>1 DEF Answered
      <4>3. k \notin frames
        BY <2>3, <3>2
      <4> HIDE DEF frames
      <4> QED BY <1>3, <4>2, <4>3
    <3>3. CASE q \in swept
      <4>1. msgs'[q] = <<>>
        BY <2>1, <3>1, <3>3
      <4>2. ~Answered(k)'
        BY <2>4, <4>1
      <4>3. Answered(k) /\ k \in mapped => k \in frames
        BY <3>3 DEF Answered
      <4>4. k \in frames => Answered(k)
        BY <2>3
      <4> HIDE DEF frames
      <4> QED BY <1>3, <4>2, <4>3, <4>4
    <3> QED BY <3>2, <3>3
  <2> QED BY <1>1, <2>2, <2>5, <2>6, Collected
<1> QED BY <1>2, <1>3 DEF CloseWait

-----------------------------------------------------------------------------
\* Steps that change no frame.

\* The commands of the fence threads stay, and no flush sees more than it did.
JobKept ==
    /\ job' \in [Workers -> Job]
    /\ \A f \in Fthreads : job'[f].frame = job[f].frame
    /\ \A u \in Workers : job'[u].seen \subseteq job[u].seen

Quiet ==
    /\ UNCHANGED <<wait_list, sched_list, fence, signals, msgs, mapped, fw, stray, valid, sender,
                   send_count>>
    /\ JobKept

LEMMA JobSteps ==
    ASSUME FrameTypes, NEW t \in Workers
    PROVE  /\ UNCHANGED job => JobKept
           /\ job' = [job EXCEPT ![t].seen = {}] => JobKept
           /\ \A s \in SqStates : job' = [job EXCEPT ![t].old = s] => JobKept
           /\ \A n \in Nat : job' = [job EXCEPT ![t].count = n] => JobKept
           /\ t \notin Fthreads /\ job' = [job EXCEPT ![t] = NoJob] => JobKept
<1>1. job \in [Workers -> Job] /\ job[t] \in Job
  BY DEF FrameTypes
<1>2. ASSUME NEW r \in Job, r.frame = job[t].frame \/ t \notin Fthreads,
             r.seen \subseteq job[t].seen, job' = [job EXCEPT ![t] = r]
      PROVE  JobKept
  BY <1>1, <1>2, FenceKind DEF JobKept
<1>3. UNCHANGED job => JobKept
  BY <1>1 DEF JobKept
<1>4. LET r == [job[t] EXCEPT !.seen = {}]
      IN  r \in Job /\ r.frame = job[t].frame /\ r.seen = {}
  BY <1>1 DEF Job
<1>5. ASSUME NEW s \in SqStates
      PROVE  LET r == [job[t] EXCEPT !.old = s]
             IN  r \in Job /\ r.frame = job[t].frame /\ r.seen = job[t].seen
  BY <1>1 DEF Job
<1>6. ASSUME NEW n \in Nat
      PROVE  LET r == [job[t] EXCEPT !.count = n]
             IN  r \in Job /\ r.frame = job[t].frame /\ r.seen = job[t].seen
  BY <1>1 DEF Job
<1>7. NoJob \in Job /\ NoJob.seen = {}
  BY DEF NoJob, Job, SqStates
<1>8. job' = [job EXCEPT ![t].seen = {}] => JobKept
  BY <1>2, <1>4
<1>9. \A s \in SqStates : job' = [job EXCEPT ![t].old = s] => JobKept
  BY <1>2, <1>5
<1>10. \A n \in Nat : job' = [job EXCEPT ![t].count = n] => JobKept
  BY <1>2, <1>6
<1>11. t \notin Fthreads /\ job' = [job EXCEPT ![t] = NoJob] => JobKept
  BY <1>2, <1>7
<1> QED BY <1>3, <1>8, <1>9, <1>10, <1>11

LEMMA QuietFrames ==
    ASSUME FrameInv, CountInv, PhasesKept, Quiet PROVE FrameInv' /\ CountInv'
<1>1. FrameTypes'
  BY DEF Quiet, JobKept, FrameInv, FrameTypes
<1>2. FrameInv'
  BY <1>1, FrameKept, SenderUnchanged DEF Quiet
<1>3. CountInv'
  BY DEF Quiet, CountInv, Sending
<1> QED BY <1>2, <1>3

LEMMA SharedQuiet ==
    ASSUME FrameInv, NEW t \in Workers, Shared(t), ~CleanLists(t), ~CoreRelease(t) PROVE Quiet
<1>0. UNCHANGED job \/ job' = [job EXCEPT ![t].seen = {}] => JobKept
  BY JobSteps DEF FrameInv
<1> DEFINE Vars == UNCHANGED <<wait_list, sched_list, fence, signals, msgs, mapped, fw, stray,
                               valid, sender, send_count>>
<1> USE DEF queueVars, sqVars, frameVars, synxVars, instVars
<1>1. ThreadStop(t) => Vars /\ UNCHANGED job
  BY DEF ThreadStop
<1>2. CleanMode(t) => Vars /\ UNCHANGED job
  BY DEF CleanMode
<1>3. CleanWait(t) => Vars /\ UNCHANGED job
  BY DEF CleanWait
<1>5. SessionTimeout(t) => Vars /\ UNCHANGED job
  BY DEF SessionTimeout
<1>6. FlushAll(t) => Vars /\ UNCHANGED job
  BY DEF FlushAll
<1>7. FlushSend(t) => Vars /\ UNCHANGED job
  BY DEF FlushSend
<1>8. FlushWait(t) => Vars /\ UNCHANGED job
  BY DEF FlushWait
<1>9. FlushDrain(t) => Vars /\ UNCHANGED job
  BY DEF FlushDrain
<1>10. FlushEnd(t) => Vars /\ job' = [job EXCEPT ![t].seen = {}]
  BY DEF FlushEnd
<1>11. FlushStop(t) => Vars /\ UNCHANGED job
  BY DEF FlushStop
<1>12. FlushStopSend(t) => Vars /\ UNCHANGED job
  BY DEF FlushStopSend
<1>13. FlushStopWait(t) => Vars /\ UNCHANGED job
  BY DEF FlushStopWait
<1>14. StopQueue(t) => Vars /\ UNCHANGED job
  BY DEF StopQueue
<1>15. SysErrorBegin(t) => Vars /\ UNCHANGED job
  BY DEF SysErrorBegin
<1>16. CleanQueues(t) => Vars /\ UNCHANGED job
  BY DEF CleanQueues
<1>17. QueuesStop(t) => Vars /\ UNCHANGED job
  BY DEF QueuesStop
<1>18. QueuesWait(t) => Vars /\ UNCHANGED job
  BY DEF QueuesWait
<1>19. Complete(t) => Vars /\ UNCHANGED job
  BY DEF Complete
<1> HIDE DEF Vars
<1>20. Vars /\ JobKept
  BY <1>0, <1>1, <1>2, <1>3, <1>5, <1>6, <1>7, <1>8, <1>9, <1>10, <1>11, <1>12, <1>13, <1>14,
     <1>15, <1>16, <1>17, <1>18, <1>19 DEF Shared
<1> QED BY <1>20 DEF Quiet, Vars

LEMMA CtlQuiet ==
    ASSUME FrameInv, OtherTypes, NEW t \in Ctls, CtlInner(t) \/ Spawn(t), ~RecvWait(t)
    PROVE  Quiet
<1>0. t \in Workers /\ t \notin Fthreads
  BY CtlKind
<1>00. \/ UNCHANGED job
       \/ \E s \in SqStates : job' = [job EXCEPT ![t].old = s]
       \/ \E n \in Nat : job' = [job EXCEPT ![t].count = n]
       \/ job' = [job EXCEPT ![t] = NoJob]
       => JobKept
  BY <1>0, JobSteps DEF FrameInv
<1> DEFINE Vars == UNCHANGED <<wait_list, sched_list, fence, signals, msgs, mapped, fw, stray,
                               valid, sender, send_count>>
           Jobs == \/ UNCHANGED job
                   \/ \E s \in SqStates : job' = [job EXCEPT ![t].old = s]
                   \/ \E n \in Nat : job' = [job EXCEPT ![t].count = n]
                   \/ job' = [job EXCEPT ![t] = NoJob]
<1> USE DEF queueVars, sqVars, frameVars, synxVars, instVars
<1>1. Start(t) => Vars /\ Jobs
  <2>1. sq_state["sq"] \in SqStates
    BY DEF OtherTypes
  <2> QED BY <2>1 DEF Start
<1>2. StartThreads(t) => Vars /\ Jobs
  BY DEF StartThreads
<1>3. SpawnFail(t) => Vars /\ Jobs
  BY DEF SpawnFail
<1>4. StartSend(t) => Vars /\ Jobs
  BY DEF StartSend
<1>5. StartWait(t) => Vars /\ Jobs
  BY DEF StartWait
<1>6. StartCheck(t) => Vars /\ Jobs
  BY DEF StartCheck
<1>7. StartRestore(t) => Vars /\ Jobs
  BY DEF StartRestore
<1>8. Stop(t) => Vars /\ Jobs
  BY DEF Stop
<1>9. StopSend(t) => Vars /\ Jobs
  BY DEF StopSend
<1>10. StopWait(t) => Vars /\ Jobs
  BY DEF StopWait
<1>11. StopCheck(t) => Vars /\ Jobs
  BY DEF StopCheck
<1>12. Recv(t) => Vars /\ Jobs
  BY DEF Recv
<1>14. RecvNull(t) => Vars /\ Jobs
  BY DEF RecvNull
<1>15. RecvEnd(t) => Vars /\ Jobs
  BY DEF RecvEnd
<1>16. Spawn(t) => Vars /\ Jobs
  <2>1. job[t] \in Job /\ job[t].count + 1 \in Nat
    BY <1>0 DEF FrameInv, FrameTypes, Job
  <2> QED BY <2>1 DEF Spawn
<1> HIDE DEF Vars, Jobs
<1>17. Vars /\ Jobs
  BY <1>1, <1>2, <1>3, <1>4, <1>5, <1>6, <1>7, <1>8, <1>9, <1>10, <1>11, <1>12, <1>14,
     <1>15, <1>16 DEF CtlInner
<1> QED BY <1>00, <1>17 DEF Quiet, Vars, Jobs

-----------------------------------------------------------------------------
\* Flushes.

\* What a flush has seen gets on, and no thread comes to the end of a flush.
FlushSame ==
    /\ \A u \in Workers : job'[u].seen \subseteq job[u].seen
    /\ \A k \in Frames : fence[k] = "freed" => fence'[k] = "freed"
    /\ \A k \in sched_list : k \in sched_list' \/ fence'[k] = "freed"

LEMMA FlushKept ==
    ASSUME FrameInv, FlushInv, FlushSame,
           \A u \in Workers : pc'[u] = "flush_end" => pc[u] = "flush_end" /\ rc'[u] = rc[u]
    PROVE  FlushInv'
<1> SUFFICES ASSUME NEW t \in Workers, NEW k \in job'[t].seen
             PROVE  /\ fence'[k] = "freed" \/ k \in sched_list'
                    /\ pc'[t] = "flush_end" /\ rc'[t] = "ok" => fence'[k] = "freed"
  BY DEF FlushInv
<1>1. k \in job[t].seen
  BY DEF FlushSame
<1>2. k \in Frames
  BY <1>1, FrameKinds DEF FrameInv, FrameTypes, Job
<1> QED BY <1>1, <1>2 DEF FlushInv, FlushSame

\* Only thread t moves, and not to the end of a flush.
LEMMA OneMoves ==
    ASSUME ControlInv, NEW t \in Workers, pc' = [pc EXCEPT ![t] = pc'[t]],
           pc'[t] # "flush_end", RcOK(t)
    PROVE  \A u \in Workers : pc'[u] = "flush_end" => pc[u] = "flush_end" /\ rc'[u] = rc[u]
<1> SUFFICES ASSUME NEW u \in Workers, pc'[u] = "flush_end"
             PROVE  pc[u] = "flush_end" /\ rc'[u] = rc[u]
  OBVIOUS
<1>1. u # t
  OBVIOUS
<1>2. pc'[u] = pc[u]
  BY <1>1 DEF ControlInv
<1> QED BY <1>1, <1>2 DEF RcOK

LEMMA QuietFlush == Quiet => FlushSame
  BY DEF Quiet, JobKept, FlushSame

LEMMA FlushDrainFlush ==
    ASSUME ControlInv, FrameInv, FlushInv, NEW t \in Workers, FlushDrain(t), Quiet
    PROVE  FlushInv'
<1>1. pc' = [pc EXCEPT ![t] = "flush_end"] /\ UNCHANGED job
      /\ \/ rc' = [rc EXCEPT ![t] = "err"]
         \/ (rc[t] = "ok" => sched_list = {}) /\ UNCHANGED rc
  BY DEF FlushDrain, Goto, SetRc
<1> SUFFICES ASSUME NEW u \in Workers, NEW k \in job[u].seen
             PROVE  /\ fence'[k] = "freed" \/ k \in sched_list'
                    /\ pc'[u] = "flush_end" /\ rc'[u] = "ok" => fence'[k] = "freed"
  BY <1>1 DEF FlushInv
<1>2. UNCHANGED <<fence, sched_list>>
  BY DEF Quiet
<1>3. fence[k] = "freed" \/ k \in sched_list
  BY DEF FlushInv
<1>4. CASE u = t
  <2>1. rc'[t] = "ok" => sched_list = {}
    BY <1>1 DEF ControlInv
  <2> QED BY <1>2, <1>3, <1>4, <2>1
<1>5. CASE u # t
  <2>1. pc'[u] = pc[u] /\ rc'[u] = rc[u]
    BY <1>1, <1>5 DEF ControlInv
  <2> QED BY <1>2, <1>3, <2>1 DEF FlushInv
<1> QED BY <1>4, <1>5

-----------------------------------------------------------------------------
\* The remaining types.

LEMMA SharedTypes ==
    ASSUME OtherTypes, NEW t \in Workers, rc[t] \in {"ok", "err"}, Shared(t) PROVE OtherTypes'
<1> USE DEF OtherTypes, queueVars, sqVars, frameVars, synxVars, cmdVars, instVars
<1>1. ThreadStop(t) => OtherTypes'
  BY DEF ThreadStop, StopThreads, SqStates
<1>2. CleanMode(t) => OtherTypes'
  BY DEF CleanMode
<1>3. CleanWait(t) => OtherTypes'
  BY DEF CleanWait
<1>4. CleanLists(t) => OtherTypes'
  BY DEF CleanLists
<1>5. SessionTimeout(t) => OtherTypes'
  BY DEF SessionTimeout
<1>6. FlushAll(t) => OtherTypes'
  BY DEF FlushAll
<1>7. FlushSend(t) => OtherTypes'
  BY DEF FlushSend, SendCommand, Commands
<1>8. FlushWait(t) => OtherTypes'
  BY DEF FlushWait, WaitSignal, Commands
<1>9. FlushDrain(t) => OtherTypes'
  BY DEF FlushDrain
<1>10. FlushEnd(t) => OtherTypes'
  BY DEF FlushEnd
<1>11. FlushStop(t) => OtherTypes'
  BY DEF FlushStop
<1>12. FlushStopSend(t) => OtherTypes'
  BY DEF FlushStopSend, SendCommand, Commands
<1>13. FlushStopWait(t) => OtherTypes'
  BY DEF FlushStopWait, WaitSignal, Commands
<1>14. StopQueue(t) => OtherTypes'
  BY DEF StopQueue, SqStates
<1>15. SysErrorBegin(t) => OtherTypes'
  BY DEF SysErrorBegin
<1>16. CleanQueues(t) => OtherTypes'
  BY DEF CleanQueues
<1>17. QueuesStop(t) => OtherTypes'
  BY DEF QueuesStop, StopThreads, SqStates
<1>18. QueuesWait(t) => OtherTypes'
  BY DEF QueuesWait
<1>19. Complete(t) => OtherTypes'
  BY DEF Complete
<1>20. CoreRelease(t) => OtherTypes'
  BY DEF CoreRelease
<1> QED BY <1>1, <1>2, <1>3, <1>4, <1>5, <1>6, <1>7, <1>8, <1>9, <1>10, <1>11, <1>12, <1>13,
           <1>14, <1>15, <1>16, <1>17, <1>18, <1>19, <1>20 DEF Shared

LEMMA CtlTypes ==
    ASSUME OtherTypes, FrameTypes, NEW t \in Ctls, CtlInner(t) \/ Spawn(t) \/ CloseWait(t)
    PROVE  OtherTypes'
<1>0. job[t].old \in SqStates
  BY CtlKind DEF FrameTypes, Job
<1> USE DEF OtherTypes, queueVars, sqVars, frameVars, synxVars, cmdVars, instVars
<1>1. Start(t) => OtherTypes'
  BY DEF Start, SqStates
<1>2. StartThreads(t) => OtherTypes'
  BY DEF StartThreads
<1>3. SpawnFail(t) => OtherTypes'
  BY DEF SpawnFail
<1>4. StartSend(t) => OtherTypes'
  BY DEF StartSend, SendCommand, Commands
<1>5. StartWait(t) => OtherTypes'
  BY DEF StartWait, WaitSignal, Commands
<1>6. StartCheck(t) => OtherTypes'
  BY DEF StartCheck
<1>7. StartRestore(t) => OtherTypes'
  BY <1>0 DEF StartRestore
<1>8. Stop(t) => OtherTypes'
  BY DEF Stop
<1>9. StopSend(t) => OtherTypes'
  BY DEF StopSend, SendCommand, Commands
<1>10. StopWait(t) => OtherTypes'
  BY DEF StopWait, WaitSignal, Commands
<1>11. StopCheck(t) => OtherTypes'
  BY DEF StopCheck
<1>12. Recv(t) => OtherTypes'
  BY DEF Recv
<1>13. RecvWait(t) => OtherTypes'
  BY DEF RecvWait
<1>14. RecvNull(t) => OtherTypes'
  BY DEF RecvNull
<1>15. RecvEnd(t) => OtherTypes'
  BY DEF RecvEnd
<1>16. Spawn(t) => OtherTypes'
  BY DEF Spawn, SqStates
<1>17. CloseWait(t) => OtherTypes'
  BY DEF CloseWait
<1> QED BY <1>1, <1>2, <1>3, <1>4, <1>5, <1>6, <1>7, <1>8, <1>9, <1>10, <1>11, <1>12, <1>13,
           <1>14, <1>15, <1>16, <1>17 DEF CtlInner

LEMMA FenceTypes ==
    ASSUME OtherTypes, NEW t \in Fthreads,
           \/ FenceWait(t) \/ FenceInput(t) \/ FenceSend(t) \/ FenceAnswer(t)
           \/ FenceOutput(t) \/ FenceRelease(t)
    PROVE  OtherTypes'
<1> USE DEF OtherTypes, queueVars, sqVars, frameVars, synxVars, cmdVars, instVars
<1>1. FenceWait(t) => OtherTypes'
  BY DEF FenceWait
<1>2. FenceInput(t) => OtherTypes'
  BY DEF FenceInput
<1>3. FenceSend(t) => OtherTypes'
  BY DEF FenceSend
<1>4. FenceAnswer(t) => OtherTypes'
  BY DEF FenceAnswer
<1>5. FenceOutput(t) => OtherTypes'
  BY DEF FenceOutput
<1>6. FenceRelease(t) => OtherTypes'
  BY DEF FenceRelease
<1> QED BY <1>1, <1>2, <1>3, <1>4, <1>5, <1>6

-----------------------------------------------------------------------------
\* The invariant, thread by thread.

LEMMA SharedStep == ASSUME FenceInv, NEW t \in Workers, Shared(t) PROVE FenceInv'
<1>1. ControlInv' /\ RcOK(t) /\ Inside(t)
  BY SharedInside DEF FenceInv
<1>2. OtherTypes'
  BY SharedTypes, RcKept DEF FenceInv
<1>3. ~FlushDrain(t) => \A u \in Workers : pc'[u] = "flush_end"
                                           => pc[u] = "flush_end" /\ rc'[u] = rc[u]
  BY <1>1, OneMoves DEF FenceInv, Inside
<1>4. job \in [Workers -> Job]
  BY DEF FenceInv, FrameInv, FrameTypes
<1>5. CASE CleanLists(t)
  <2> DEFINE S == KernelFrames \cap (Waiting \cup sched_list)
             r == [job[t] EXCEPT !.seen = S]
  <2>1. job' = [job EXCEPT ![t] = r] /\ UNCHANGED <<sched_list, sender, send_count>>
        /\ fence' = [k \in Frames |-> IF k \in Waiting \cap KernelFrames THEN "freed"
                                                                         ELSE fence[k]]
    BY <1>5 DEF CleanLists
  <2>2. r \in Job /\ r.frame = job[t].frame /\ r.seen = S
    <3>1. job[t] \in Job /\ S \in SUBSET KernelFrames
      BY <1>4
    <3> HIDE DEF S
    <3> QED BY <3>1 DEF Job
  <2> HIDE DEF r, S
  <2>3. job' \in [Workers -> Job] /\ \A u \in Workers : job'[u].frame = job[u].frame
        /\ (u # t => job'[u].seen = job[u].seen) /\ (u = t => job'[u].seen = S)
    BY <1>4, <2>1, <2>2
  <2>4. PhasesKept
    BY <1>1, <2>3, InsidePhases, FenceKind DEF FenceInv
  <2>5. FrameInv'
    BY <1>5, <2>3, <2>4, CleanListsFrames DEF FenceInv
  <2>6. CountInv'
    BY <2>1 DEF FenceInv, CountInv, Sending
  <2>7. FlushInv'
    <3> SUFFICES ASSUME NEW u \in Workers, NEW k \in job'[u].seen
                 PROVE  /\ fence'[k] = "freed" \/ k \in sched_list'
                        /\ pc'[u] = "flush_end" /\ rc'[u] = "ok" => fence'[k] = "freed"
      BY DEF FlushInv
    <3>1. k \in Frames
      BY <2>3, FrameKinds DEF Job
    <3>2. CASE u = t
      <4>1. k \in KernelFrames /\ (k \in Waiting \/ k \in sched_list)
        BY <2>3, <3>2 DEF S
      <4>2. pc'[t] # "flush_end"
        <5>1. ~FlushDrain(t)
          BY <1>5 DEF CleanLists, FlushDrain
        <5> QED BY <1>1, <5>1 DEF Inside
      <4> QED BY <2>1, <3>1, <3>2, <4>1, <4>2
    <3>3. CASE u # t
      <4>1. k \in job[u].seen
        BY <2>3, <3>3
      <4>2. fence[k] = "freed" => fence'[k] = "freed"
        BY <2>1, <3>1
      <4>3. ~FlushDrain(t)
        BY <1>5 DEF CleanLists, FlushDrain
      <4> QED BY <1>3, <2>1, <4>1, <4>2, <4>3 DEF FenceInv, FlushInv
    <3> QED BY <3>2, <3>3
  <2> QED BY <1>1, <1>2, <2>5, <2>6, <2>7 DEF FenceInv
<1>6. CASE CoreRelease(t)
  <2>1. job' = [job EXCEPT ![t].seen = {}]
        /\ UNCHANGED <<sched_list, fence, sender, send_count>>
    BY <1>6 DEF CoreRelease, queueVars, synxVars
  <2>2. JobKept
    BY <2>1, JobSteps DEF FenceInv, FrameInv
  <2>3. PhasesKept
    BY <1>1, <2>2, InsidePhases DEF FenceInv, JobKept
  <2>4. FrameInv'
    BY <1>6, <2>2, <2>3, CoreReleaseFrames DEF FenceInv, JobKept
  <2>5. CountInv'
    BY <2>1 DEF FenceInv, CountInv, Sending
  <2>6. FlushSame /\ ~FlushDrain(t)
    BY <1>6, <2>1, <2>2 DEF FlushSame, JobKept, CoreRelease, FlushDrain
  <2>7. FlushInv'
    BY <1>3, <2>6, FlushKept DEF FenceInv
  <2> QED BY <1>1, <1>2, <2>4, <2>5, <2>7 DEF FenceInv
<1>7. CASE ~CleanLists(t) /\ ~CoreRelease(t)
  <2>1. Quiet
    BY <1>7, SharedQuiet DEF FenceInv
  <2>2. PhasesKept
    BY <1>1, <2>1, InsidePhases DEF FenceInv, Quiet, JobKept
  <2>3. FrameInv' /\ CountInv'
    BY <2>1, <2>2, QuietFrames DEF FenceInv
  <2>4. FlushInv'
    BY <1>3, <2>1, QuietFlush, FlushKept, FlushDrainFlush DEF FenceInv
  <2> QED BY <1>1, <1>2, <2>3, <2>4 DEF FenceInv
<1> QED BY <1>5, <1>6, <1>7

LEMMA CtlStepInv == ASSUME FenceInv, NEW t \in Ctls, CtlStep(t) PROVE FenceInv'
<1>0. t \in Workers /\ t \notin Fthreads /\ t \in Ctls \cup {"wdog"}
  BY CtlKind
<1>1. CASE Shared(t)
  BY <1>0, <1>1, SharedStep
<1>2. CASE CtlInner(t) /\ ~RecvWait(t)
  <2>1. ControlInv' /\ RcOK(t) /\ Inside(t) /\ OtherTypes' /\ Quiet
    BY <1>2, CtlInside, CtlTypes, CtlQuiet DEF FenceInv, FrameInv
  <2>2. PhasesKept
    BY <1>0, <2>1, InsidePhases DEF FenceInv, Quiet, JobKept
  <2>3. FrameInv' /\ CountInv'
    BY <2>1, <2>2, QuietFrames DEF FenceInv
  <2>4. CASE ~FlushDrain(t)
    <3>1. FlushInv'
      BY <1>0, <2>1, <2>4, OneMoves, QuietFlush, FlushKept DEF FenceInv, Inside
    <3> QED BY <2>1, <2>3, <3>1 DEF FenceInv
  <2>5. CASE FlushDrain(t)
    BY <1>0, <2>5, SharedStep DEF Shared
  <2> QED BY <2>4, <2>5
<1>3. CASE RecvWait(t)
  <2>1. ControlInv' /\ RcOK(t) /\ Inside(t) /\ OtherTypes'
    BY <1>3, CtlInside, CtlTypes DEF FenceInv, FrameInv, CtlInner
  <2>2. UNCHANGED <<wait_list, sched_list, fence, signals, fw, stray, valid, sender, job,
                    send_count>> /\ pc[t] = "recv_wait"
    BY <1>3 DEF RecvWait, queueVars, synxVars, instVars
  <2>3. PhasesKept
    BY <1>0, <2>1, <2>2, InsidePhases DEF FenceInv
  <2>4. FrameInv'
    <3>1. CASE UNCHANGED <<msgs, mapped>>
      <4>1. FrameTypes'
        BY <2>2, <3>1 DEF FenceInv, FrameInv, FrameTypes
      <4> QED BY <2>2, <2>3, <3>1, <4>1, FrameKept, SenderUnchanged DEF FenceInv
    <3>2. CASE TakeMessage(t, "sq", 1, "recv_end")
      BY <2>2, <2>3, <3>2, TakeCollected DEF FenceInv
    <3> QED BY <1>3, <3>1, <3>2 DEF RecvWait
  <2>5. CountInv' /\ FlushSame
    BY <2>2 DEF FenceInv, CountInv, Sending, FlushSame
  <2>6. ~FlushDrain(t)
    BY <2>2 DEF FlushDrain
  <2>7. FlushInv'
    BY <1>0, <2>1, <2>5, <2>6, OneMoves, FlushKept DEF FenceInv, Inside
  <2> QED BY <2>1, <2>4, <2>5, <2>7 DEF FenceInv
<1>4. CASE Spawn(t)
  <2>1. Quiet /\ OtherTypes'
    BY <1>4, CtlQuiet, CtlTypes DEF FenceInv, FrameInv, RecvWait, Spawn
  <2>2. /\ ControlInv' /\ RcOK(t) /\ PhasesKept
        /\ \A u \in Workers : pc'[u] # "flush_end" \/ pc'[u] = pc[u]
    BY <1>4, <2>1, SpawnControl DEF FenceInv, Quiet, JobKept
  <2>3. FrameInv' /\ CountInv'
    BY <2>1, <2>2, QuietFrames DEF FenceInv
  <2>4. UNCHANGED rc
    BY <1>4 DEF Spawn
  <2>5. FlushInv'
    BY <2>1, <2>2, <2>4, QuietFlush, FlushKept DEF FenceInv
  <2> QED BY <2>1, <2>2, <2>3, <2>5 DEF FenceInv
<1>5. CASE CloseWait(t)
  <2>1. /\ ControlInv' /\ RcOK(t) /\ pc' = [pc EXCEPT ![t] = pc'[t]]
        /\ pc'[t] # "flush_end" /\ OtherTypes'
    BY <1>5, CloseWaitControl, CtlTypes DEF FenceInv, FrameInv
  <2>2. UNCHANGED <<sched_list, fence, sender, job, send_count>>
    BY <1>5 DEF CloseWait, queueVars, synxVars
  <2>3. PhasesKept
    BY <1>0, <2>1, <2>2, OutsidePhases DEF FenceInv
  <2>4. FrameInv'
    BY <1>5, <2>3, CloseWaitFrames DEF FenceInv
  <2>5. CountInv' /\ FlushSame
    BY <2>2 DEF FenceInv, CountInv, Sending, FlushSame
  <2>6. FlushInv'
    BY <1>0, <2>1, <2>5, OneMoves, FlushKept DEF FenceInv
  <2> QED BY <2>1, <2>4, <2>5, <2>6 DEF FenceInv
<1> QED BY <1>1, <1>2, <1>3, <1>4, <1>5 DEF CtlStep, CtlInner

LEMMA FenceStepInv == ASSUME FenceInv, NEW t \in Fthreads, FenceStep(t) PROVE FenceInv'
<1>0. t \in Workers /\ Own(t) = FenceLabels /\ Bottom(t) = {"output"}
  BY FenceKind
<1>1. CASE Shared(t)
  BY <1>0, <1>1, SharedStep
<1> DEFINE A == \/ FenceWait(t) \/ FenceInput(t) \/ FenceSend(t) \/ FenceAnswer(t)
                \/ FenceOutput(t) \/ FenceRelease(t)
<1>2. CASE A
  <2>1. OtherTypes'
    BY <1>2, FenceTypes DEF FenceInv
  <2>2. /\ \/ \E l \in FenceLabels : Goto(t, l) /\ UNCHANGED stack
           \/ Call(t, "timeout_stop", "output", "err") /\ UNCHANGED rc
        /\ UNCHANGED rc \/ SetRc(t, "ok") \/ SetRc(t, "err")
        /\ pc[t] \in FenceLabels
        /\ UNCHANGED <<sender, send_count>>
    <3> USE DEF FenceLabels, queueVars
    <3>1. CASE FenceWait(t)
      BY <3>1 DEF FenceWait
    <3>2. CASE FenceInput(t)
      BY <3>2 DEF FenceInput
    <3>3. CASE FenceSend(t)
      BY <3>3 DEF FenceSend
    <3>4. CASE FenceAnswer(t)
      BY <3>4 DEF FenceAnswer, MessageTimeout, TakeMessage
    <3>5. CASE FenceOutput(t)
      BY <3>5 DEF FenceOutput
    <3>6. CASE FenceRelease(t)
      BY <3>6 DEF FenceRelease
    <3> QED BY <1>2, <3>1, <3>2, <3>3, <3>4, <3>5, <3>6
  <2>3. RcOK(t)
    BY <1>0, <2>2, RcKept DEF FenceInv
  <2>4. ControlInv' /\ pc' = [pc EXCEPT ![t] = pc'[t]] /\ pc'[t] # "flush_end"
    <3>1. CASE \E l \in FenceLabels : Goto(t, l) /\ UNCHANGED stack
      <4>1. PICK l \in FenceLabels : Goto(t, l) /\ UNCHANGED stack
        BY <3>1
      <4>2. ControlInv'
        BY <1>0, <2>2, <2>3, <4>1, GotoControl DEF FenceInv
      <4>3. pc' = [pc EXCEPT ![t] = l] /\ pc'[t] = l
        BY <1>0, <4>1 DEF Goto, FenceInv, ControlInv
      <4> QED BY <4>2, <4>3 DEF FenceLabels
    <3>2. CASE Call(t, "timeout_stop", "output", "err")
      <4>1. "timeout_stop" \in Callees /\ "output" \in Bottom(t)
        BY <1>0 DEF Callees
      <4>2. ControlInv'
        BY <1>0, <2>2, <2>3, <3>2, <4>1, CallControl DEF FenceInv
      <4>3. pc' = [pc EXCEPT ![t] = "timeout_stop"] /\ pc'[t] = "timeout_stop"
        BY <1>0, <3>2 DEF Call, Goto, FenceInv, ControlInv
      <4> QED BY <4>2, <4>3
    <3> QED BY <2>2, <3>1, <3>2
  <2>5. FrameInv'
    BY <1>2, FenceWaitFrames, FenceInputFrames, FenceSendFrames, FenceAnswerFrames,
       FenceOutputFrames, FenceReleaseFrames DEF FenceInv
  <2>6. CountInv'
    BY <2>2 DEF FenceInv, CountInv, Sending
  <2>7. FlushSame
    <3>1. CASE FenceWait(t)
      <4>1. /\ \/ UNCHANGED <<sched_list, job>>
               \/ /\ sched_list' = sched_list \cup {Head(wait_list)}
                  /\ job' = [job EXCEPT ![t].frame = Head(wait_list)]
            /\ UNCHANGED fence
        BY <3>1 DEF FenceWait, synxVars
      <4>2. job \in [Workers -> Job] /\ job[t] \in Job
        BY <1>0 DEF FenceInv, FrameInv, FrameTypes
      <4>3. [job[t] EXCEPT !.frame = Head(wait_list)].seen = job[t].seen
        BY <4>2 DEF Job
      <4>4. \A u \in Workers : job'[u].seen = job[u].seen
        BY <4>1, <4>2, <4>3
      <4>5. sched_list \subseteq sched_list'
        BY <4>1
      <4> QED BY <4>1, <4>4, <4>5 DEF FlushSame
    <3>2. CASE FenceRelease(t)
      <4> DEFINE k == job[t].frame
      <4>1. k \in Frames
        BY <3>2, OwnerFacts DEF FenceRelease, FenceInv
      <4>2. /\ \A u \in Workers : job'[u].seen \subseteq job[u].seen
        BY <1>0, <3>2 DEF FenceRelease, NoJob, FenceInv, FrameInv, FrameTypes
      <4>3. sched_list' = sched_list \ {k} /\ fence' = [fence EXCEPT ![k] = "freed"]
        BY <3>2 DEF FenceRelease
      <4> QED BY <4>1, <4>2, <4>3 DEF FlushSame, FenceInv, FrameInv, FrameTypes
    <3>3. CASE FenceInput(t) \/ FenceSend(t) \/ FenceAnswer(t) \/ FenceOutput(t)
      <4>1. UNCHANGED <<job, fence, sched_list>>
        BY <3>3 DEF FenceInput, FenceSend, FenceAnswer, FenceOutput, queueVars, synxVars
      <4> QED BY <4>1 DEF FlushSame
    <3> QED BY <1>2, <3>1, <3>2, <3>3
  <2>8. FlushInv'
    BY <1>0, <2>3, <2>4, <2>7, OneMoves, FlushKept DEF FenceInv
  <2> QED BY <2>1, <2>4, <2>5, <2>6, <2>8 DEF FenceInv
<1> QED BY <1>1, <1>2 DEF FenceStep

-----------------------------------------------------------------------------
\* The senders, the firmware and the beginnings.

\* The threads stand still.
LEMMA StandStill ==
    ASSUME FenceInv, UNCHANGED <<pc, stack, rc, job>>,
           \A k \in Frames : fence[k] = "freed" => fence'[k] = "freed",
           sched_list \subseteq sched_list'
    PROVE  ControlInv' /\ PhasesKept /\ FlushInv'
<1>1. ControlInv'
  BY DEF FenceInv, ControlInv, Placed
<1>2. PhasesKept
  BY PhasesUnchanged
<1>3. FlushSame
  BY DEF FlushSame
<1>4. FlushInv'
  BY <1>3, FlushKept DEF FenceInv
<1> QED BY <1>1, <1>2, <1>4

\* A frame that is not alive yet becomes so.
LEMMA SendStepInv ==
    ASSUME FenceInv, NEW k \in Frames, SendStep(k) \/ SendBegin(k) PROVE FenceInv'
<1> USE DEF queueVars, sqVars, frameVars, synxVars, cmdVars, instVars, workVars
<1>1. UNCHANGED <<pc, stack, rc, job, sched_list>>
  BY DEF SendStep, SendBegin, Enqueue, MapFrame, SendFrame, QueueFence, SendEnd
<1>2. OtherTypes'
  BY DEF SendStep, SendBegin, Enqueue, MapFrame, SendFrame, QueueFence, SendEnd, FenceInv,
         OtherTypes
<1>3. /\ sender \in [Frames -> Labels] /\ fence \in [Frames -> {"none", "live", "freed"}]
      /\ sender[k] \in {"map", "send"} => fence[k] = "none"
      /\ IsFiniteSet(Sending) /\ send_count = Cardinality(Sending)
  BY DEF FenceInv, FrameInv, FrameTypes, QueueInv, TagInv, Early, CountInv
<1>4. \A j \in Frames : fence[j] = "freed" => fence'[j] = "freed"
  BY <1>3 DEF SendStep, SendBegin, Enqueue, MapFrame, SendFrame, QueueFence, SendEnd
<1>5. ControlInv' /\ PhasesKept /\ FlushInv'
  BY <1>1, <1>4, StandStill
<1>6. FrameInv'
  <2>1. CASE MapFrame(k) \/ SendFrame(k) \/ QueueFence(k)
    BY <2>1, MapFrameFrames, SendFrameFrames, QueueFenceFrames DEF FenceInv
  <2>2. CASE SendBegin(k) \/ Enqueue(k) \/ SendEnd(k)
    <3>1. /\ UNCHANGED <<wait_list, sched_list, fence, signals, msgs, mapped, fw, stray, valid>>
          /\ \/ sender[k] = "new" /\ \E l \in {"enqueue", "rejected"} : Step(k, l)
             \/ sender[k] = "enqueue" /\ \E l \in {"map", "rejected"} : Step(k, l)
             \/ sender[k] = "dec" /\ Step(k, "sent")
             \/ sender[k] = "failed" /\ Step(k, "rejected")
      BY <2>2 DEF SendBegin, Enqueue, SendEnd
    <3>2. SenderSame /\ sender' \in [Frames -> Labels]
      BY <1>3, <3>1 DEF SenderSame, Early, Step, Labels
    <3>3. FrameTypes'
      BY <1>1, <3>1, <3>2 DEF FenceInv, FrameInv, FrameTypes
    <3> QED BY <1>5, <3>1, <3>2, <3>3, FrameKept DEF FenceInv
  <2> QED BY <2>1, <2>2 DEF SendStep
<1>7. CountInv'
  <2>1. CASE Sending' = Sending /\ UNCHANGED send_count
    BY <1>3, <2>1 DEF CountInv
  <2>2. CASE Sending' = Sending \cup {k} /\ k \notin Sending /\ send_count' = send_count + 1
    BY <1>3, <2>2, FS_AddElement DEF CountInv
  <2>3. CASE Sending' = Sending \ {k} /\ k \in Sending /\ send_count' = send_count - 1
    BY <1>3, <2>3, FS_RemoveElement DEF CountInv
  <2> DEFINE Way(l) == l \in {"map", "send", "queue", "dec", "failed"}
  <2>4. ASSUME NEW l, sender' = [sender EXCEPT ![k] = l]
        PROVE  /\ Way(sender[k]) <=> k \in Sending
               /\ Way(l) /\ ~Way(sender[k]) => Sending' = Sending \cup {k}
               /\ ~Way(l) /\ Way(sender[k]) => Sending' = Sending \ {k}
               /\ (Way(l) <=> Way(sender[k])) => Sending' = Sending
    <3>1. \A j \in Frames : sender'[j] = IF j = k THEN l ELSE sender[j]
      BY <1>3, <2>4
    <3> QED BY <3>1 DEF Sending
  <2>5. CASE SendBegin(k)
    <3>1. PICK l \in {"enqueue", "rejected"} : sender' = [sender EXCEPT ![k] = l]
      BY <2>5 DEF SendBegin, Step
    <3>2. sender[k] = "new" /\ UNCHANGED send_count
      BY <2>5 DEF SendBegin
    <3> QED BY <2>1, <2>4, <3>1, <3>2
  <2>6. CASE Enqueue(k)
    <3>1. /\ sender[k] = "enqueue"
          /\ \/ sender' = [sender EXCEPT ![k] = "rejected"] /\ UNCHANGED send_count
             \/ sender' = [sender EXCEPT ![k] = "map"] /\ send_count' = send_count + 1
      BY <2>6 DEF Enqueue, Step
    <3> QED BY <2>1, <2>2, <2>4, <3>1
  <2>7. CASE MapFrame(k) \/ SendFrame(k) \/ QueueFence(k)
    <3>1. /\ sender[k] \in {"map", "send", "queue"} /\ UNCHANGED send_count
          /\ \E l \in {"send", "queue", "dec", "failed"} : sender' = [sender EXCEPT ![k] = l]
      BY <2>7 DEF MapFrame, SendFrame, QueueFence, Step
    <3> QED BY <2>1, <2>4, <3>1
  <2>8. CASE SendEnd(k)
    <3>1. /\ sender[k] \in {"dec", "failed"} /\ send_count' = send_count - 1
          /\ \E l \in {"sent", "rejected"} : sender' = [sender EXCEPT ![k] = l]
      BY <2>8 DEF SendEnd, Step
    <3> QED BY <2>3, <2>4, <3>1
  <2> QED BY <2>5, <2>6, <2>7, <2>8 DEF SendStep
<1> QED BY <1>2, <1>5, <1>6, <1>7 DEF FenceInv

LEMMA EnvironmentInv == ASSUME FenceInv, Environment PROVE FenceInv'
<1> USE DEF queueVars, sqVars, frameVars, synxVars, cmdVars, instVars, workVars
<1>1. ASSUME NEW k \in Frames, SendBegin(k) PROVE FenceInv'
  BY <1>1, SendStepInv
<1>2. ASSUME NEW k \in Frames, FwAnswer(k) PROVE FenceInv'
  <2>1. UNCHANGED <<pc, stack, rc, job, sched_list, fence, sender, send_count>> /\ OtherTypes'
    BY <1>2 DEF FwAnswer, FenceInv, OtherTypes
  <2>2. ControlInv' /\ FlushInv'
    BY <2>1, StandStill
  <2>3. FrameInv' /\ CountInv'
    BY <1>2, <2>1, FwAnswerFrames DEF FenceInv, CountInv, Sending
  <2> QED BY <2>1, <2>2, <2>3 DEF FenceInv
<1>3. ASSUME \/ \E c \in Commands : FwDone(c)
             \/ \E k \in KernelFrames : SignalInput(k)
      PROVE  FenceInv'
  <2>1. /\ UNCHANGED <<pc, stack, rc, job, wait_list, sched_list, fence, signals, msgs, mapped, fw,
                       stray, valid, sender, send_count>>
        /\ UNCHANGED <<q_state, q_mode, sq_state, invalid, restarted, core_lock, ops, closing>>
    BY <1>3 DEF FwDone, SignalInput
  <2>2. /\ fwcmd' \subseteq Commands /\ done' \in [Commands -> Nat]
        /\ input' \in [Frames -> {"active", "ok", "cancel"}]
    BY <1>3 DEF FwDone, SignalInput, FenceInv, OtherTypes
  <2>3. OtherTypes'
    BY <2>1, <2>2 DEF FenceInv, OtherTypes
  <2>4. ControlInv' /\ FlushInv' /\ PhasesKept
    BY <2>1, StandStill
  <2>5. FrameTypes'
    BY <2>1 DEF FenceInv, FrameInv, FrameTypes
  <2>6. FrameInv' /\ CountInv'
    BY <2>1, <2>4, <2>5, FrameKept, SenderUnchanged DEF FenceInv, CountInv, Sending
  <2> QED BY <2>3, <2>4, <2>6 DEF FenceInv
<1>4. ASSUME NEW t \in Ctls \cup {"wdog"}, ControlInv', RcOK(t), pc' = [pc EXCEPT ![t] = pc'[t]],
             pc'[t] # "flush_end", OtherTypes',
             UNCHANGED <<job, wait_list, sched_list, fence, signals, msgs, mapped, fw, stray,
                         valid, sender, send_count>>
      PROVE  FenceInv'
  <2>1. PhasesKept
    BY <1>4, OutsidePhases DEF FenceInv
  <2>2. Quiet
    BY <1>4 DEF Quiet, JobKept, FenceInv, FrameInv, FrameTypes
  <2>3. FrameInv' /\ CountInv'
    BY <2>1, <2>2, QuietFrames DEF FenceInv
  <2>4. FlushInv'
    BY <1>4, <2>2, CtlKind, OneMoves, QuietFlush, FlushKept DEF FenceInv
  <2> QED BY <1>4, <2>3, <2>4 DEF FenceInv
<1>5. ASSUME NEW t \in Ctls, NEW op \in Ops, Begin(t, op) PROVE FenceInv'
  <2>1. /\ UNCHANGED <<job, wait_list, sched_list, fence, signals, msgs, mapped, fw, stray,
                       valid, sender, send_count>>
    BY <1>5 DEF Begin
  <2>2. /\ UNCHANGED <<q_state, q_mode, sq_state, input, fwcmd, done, invalid, valid, restarted,
                       core_lock>>
        /\ ops < MaxOps /\ ops' = ops + 1 /\ closing' \in BOOLEAN
    BY <1>5 DEF Begin
  <2>3. OtherTypes'
    BY <2>2, FenceBounds DEF FenceInv, OtherTypes
  <2> QED BY <1>4, <1>5, <2>1, <2>3, BeginControl DEF FenceInv
<1>6. ASSUME WdogFire PROVE FenceInv'
  <2>1. /\ UNCHANGED <<job, wait_list, sched_list, fence, signals, msgs, mapped, fw, stray,
                       valid, sender, send_count>>
    BY <1>6 DEF WdogFire
  <2>2. OtherTypes'
    BY <1>6 DEF WdogFire, FenceInv, OtherTypes
  <2> QED BY <1>4, <1>6, <2>1, <2>2, WdogControl DEF FenceInv
<1> QED BY <1>1, <1>2, <1>3, <1>5, <1>6 DEF Environment

-----------------------------------------------------------------------------
\* The invariant.

LEMMA FenceInit == Init => FenceInv
<1> SUFFICES ASSUME Init PROVE FenceInv
  OBVIOUS
<1>1. ControlInv
  <2>1. \A t \in Workers : pc[t] \in Own(t) /\ stack[t] = <<>>
    BY DEF Init, Own, FenceLabels, CtlLabels
  <2>2. pc \in [Workers -> FenceLabels \cup CtlLabels \cup Callees]
    BY DEF Init, FenceLabels, CtlLabels
  <2>3. stack \in [Workers -> Seq(Call0)] /\ rc \in [Workers -> {"ok", "err"}]
    BY DEF Init
  <2> QED BY <2>1, <2>2, <2>3 DEF ControlInv, Placed
<1>2. OtherTypes
  <2>1. sq_state \in [{"sq", "sqf"} -> SqStates]
    BY DEF Init, SqStates
  <2>2. input \in [Frames -> {"active", "ok", "cancel"}] /\ done \in [Commands -> Nat]
    BY DEF Init
  <2>3. invalid \in BOOLEAN /\ valid \in BOOLEAN /\ restarted \in BOOLEAN /\ closing \in BOOLEAN
    BY Zenon DEF Init
  <2>4. /\ q_state \in {"ACTIVE", "START", "STOP"} /\ q_mode \in {"NORMAL", "DRAINING"}
        /\ fwcmd \subseteq Commands /\ core_lock \in Workers \cup {"none"} /\ ops \in 0 .. MaxOps
    BY FenceBounds DEF Init
  <2> QED BY <2>1, <2>2, <2>3, <2>4 DEF OtherTypes
<1>3. NoJob \in Job /\ NoJob.frame = "none" /\ NoJob.seen = {}
  BY DEF NoJob, Job, SqStates
<1>4. job \in [Workers -> Job] /\ \A t \in Workers : job[t].frame = "none" /\ job[t].seen = {}
  BY <1>3 DEF Init
<1>5. FrameTypes
  BY <1>4 DEF Init, FrameTypes, Labels
<1>6. /\ \A k : k \notin Waiting
      /\ \A f \in Fthreads : pc[f] = "off"
      /\ \A k \in Frames : sender[k] = "new" /\ fence[k] = "none" /\ signals[k] = 0
      /\ sched_list = {} /\ mapped = {} /\ fw = {} /\ stray = {}
      /\ \A q \in {"sq", "sqf"} : Len(msgs[q]) = 0
      /\ Len(wait_list) = 0
  BY DEF Init, Waiting, Workers
<1>7. QueueInv
  <2>1. ThreadInv
    BY <1>4, <1>6, FenceKind DEF ThreadInv
  <2>2. PlaceInv
    BY <1>4, <1>6, FenceKind, FrameKinds DEF PlaceInv, NoDuplicates
  <2>3. TagInv
    BY <1>6 DEF TagInv, Early
  <2> QED BY <2>1, <2>2, <2>3 DEF QueueInv
<1>8. SentInv
  <2>1. \A k : ~Answered(k)
    BY <1>6, QueueOf DEF Answered
  <2>2. \A k \in Frames : ~Held(k)
    BY <1>6 DEF Held, Busy
  <2> QED BY <1>6, <2>1, <2>2 DEF SentInv, MsgInv, FrameSent, Unsent, Settled
<1>9. SignalInv
  BY <1>6, FrameKinds DEF SignalInv
<1>10. CountInv
  <2>1. Sending = {}
    BY <1>6 DEF Sending
  <2> QED BY <2>1, FS_EmptySet DEF CountInv, Init
<1>11. FlushInv
  BY <1>4 DEF FlushInv
<1> QED BY <1>1, <1>2, <1>5, <1>7, <1>8, <1>9, <1>10, <1>11 DEF FenceInv, FrameInv

LEMMA FenceStutter == FenceInv /\ UNCHANGED vars => FenceInv'
<1> SUFFICES ASSUME FenceInv, UNCHANGED vars PROVE FenceInv'
  OBVIOUS
<1> USE DEF vars, queueVars, sqVars, frameVars, synxVars, cmdVars, instVars, workVars
<1>1. UNCHANGED <<pc, stack, rc, job, wait_list, sched_list, fence, signals, msgs, mapped, fw,
                  stray, valid, sender, send_count>>
  OBVIOUS
<1>2. OtherTypes' /\ FrameTypes'
  BY DEF FenceInv, FrameInv, FrameTypes, OtherTypes
<1>3. ControlInv' /\ FlushInv' /\ PhasesKept
  BY <1>1, StandStill
<1>4. FrameInv' /\ CountInv'
  BY <1>1, <1>2, <1>3, FrameKept, SenderUnchanged DEF FenceInv, CountInv, Sending
<1> QED BY <1>2, <1>3, <1>4 DEF FenceInv

LEMMA FenceNext == FenceInv /\ [Next]_vars => FenceInv'
<1> SUFFICES ASSUME FenceInv, [Next]_vars PROVE FenceInv'
  OBVIOUS
<1>1. ASSUME NEW k \in Frames, SendStep(k) PROVE FenceInv'
  BY <1>1, SendStepInv
<1>2. ASSUME NEW t \in Fthreads, FenceStep(t) PROVE FenceInv'
  BY <1>2, FenceStepInv
<1>3. ASSUME NEW t \in Ctls, CtlStep(t) PROVE FenceInv'
  BY <1>3, CtlStepInv
<1>4. CASE Shared("wdog")
  BY <1>4, SharedStep DEF Workers
<1>5. CASE Environment
  BY <1>5, EnvironmentInv
<1>6. CASE UNCHANGED vars
  BY <1>6, FenceStutter
<1> QED BY <1>1, <1>2, <1>3, <1>4, <1>5, <1>6 DEF Next

LEMMA OwnedOnce == FenceInv => FenceOwned
<1> SUFFICES ASSUME FenceInv, NEW k \in Fenced
             PROVE  /\ k \in sched_list <=> Owners(k) # {}
                    /\ Cardinality(Owners(k)) + Cardinality(Places(k)) =
                         IF fence[k] = "live" /\ sender[k] # "queue" THEN 1 ELSE 0
  BY DEF FenceOwned
<1>0. ThreadInv /\ PlaceInv /\ k # "none" /\ wait_list \in Seq(Fenced)
  BY FrameKinds DEF FenceInv, FrameInv, QueueInv, FrameTypes
<1>1. k \in sched_list <=> Owners(k) # {}
  BY <1>0 DEF ThreadInv, PlaceInv, Owners
<1>2. Owners(k) = {} \/ \E f \in Fthreads : Owners(k) = {f}
  BY <1>0 DEF PlaceInv, Owners
<1>3. Places(k) = {} \/ \E n \in 1 .. Len(wait_list) : Places(k) = {n}
  BY <1>0 DEF PlaceInv, NoDuplicates, Places
<1>4. k \in Waiting <=> Places(k) # {}
  BY DEF Waiting, Places
<1>5. Cardinality(Owners(k)) = IF k \in sched_list THEN 1 ELSE 0
  BY <1>1, <1>2, FS_EmptySet, FS_Singleton
<1>6. Cardinality(Places(k)) = IF k \in Waiting THEN 1 ELSE 0
  BY <1>3, <1>4, FS_EmptySet, FS_Singleton
<1>7. /\ k \in sched_list => k \notin Waiting
      /\ k \in sched_list \/ k \in Waiting <=> fence[k] = "live" /\ sender[k] # "queue"
  BY <1>0 DEF PlaceInv
<1> QED BY <1>1, <1>5, <1>6, <1>7

LEMMA FenceImplies == FenceInv => TypeOK /\ FramesSafe /\ FlushedAll
<1> SUFFICES ASSUME FenceInv PROVE TypeOK /\ FramesSafe /\ FlushedAll
  OBVIOUS
<1>1. TypeOK
  <2>1. send_count \in Nat
    BY FS_CardinalityType DEF FenceInv, CountInv
  <2> QED BY <2>1 DEF FenceInv, TypeOK, FrameInv, FrameTypes, OtherTypes, ControlInv, SqStates
<1>2. DmaMapped
  BY DEF FenceInv, FrameInv, FrameTypes, SentInv, FrameSent, DmaMapped
<1>3. SignalledOnce
  <2> SUFFICES ASSUME NEW k \in KernelFrames
               PROVE  signals[k] <= 1 /\ (fence[k] = "freed" => signals[k] = 1)
    BY DEF SignalledOnce
  <2>1. signals[k] \in {0, 1}
    BY DEF FenceInv, FrameInv, SignalInv
  <2> QED BY <2>1 DEF FenceInv, FrameInv, SignalInv
<1>4. FrameOwned
  <2> SUFFICES ASSUME NEW k \in mapped \ stray, valid
               PROVE  \/ sender[k] \in {"send", "queue"} \/ fence[k] = "live"
                      \/ k \in fw \/ Answered(k)
    BY DEF FrameOwned
  <2>1. k \in Frames /\ FrameSent(k) /\ ThreadInv /\ PlaceInv
    BY DEF FenceInv, FrameInv, FrameTypes, SentInv, QueueInv
  <2>2. CASE ~Held(k)
    BY <2>1, <2>2 DEF FrameSent, Settled
  <2>3. CASE Held(k)
    <3>1. k \in KernelFrames /\ (k \in Waiting \/ k \in sched_list) => fence[k] = "live"
      BY <2>1, FrameKinds DEF PlaceInv
    <3>2. Busy(k) => k \in sched_list
      BY <2>1 DEF Busy, ThreadInv
    <3> QED BY <2>3, <3>1, <3>2 DEF Held
  <2> QED BY <2>2, <2>3
<1>5. SendCountExact
  BY DEF FenceInv, CountInv, Sending, SendCountExact
<1>6. FlushedAll
  <2> SUFFICES ASSUME NEW t \in Workers, pc[t] = "flush_end", rc[t] = "ok", NEW k \in job[t].seen
               PROVE  fence[k] = "freed" /\ signals[k] = 1
    BY DEF FlushedAll
  <2>1. k \in KernelFrames /\ fence[k] = "freed"
    BY DEF FenceInv, FrameInv, FrameTypes, Job, FlushInv
  <2> QED BY <2>1 DEF FenceInv, FrameInv, SignalInv
<1> QED BY <1>1, <1>2, <1>3, <1>4, <1>5, <1>6, OwnedOnce DEF FramesSafe

\* The invariant holds of every behaviour.
THEOREM FenceInvariant == Spec => []FenceInv
<1> QED BY FenceInit, FenceNext, PTL DEF Spec

\* The queues, the message queues, the synx states and the control of all threads have their
\* types; in particular send_count is never negative.
THEOREM FenceTypesCorrect == Spec => []TypeOK
<1> QED BY FenceInvariant, FenceImplies, PTL

\* Whatever flushes, stops, timeouts, restarts and closes do to a session while frames are
\* sent and worked off, the firmware only ever has mapped frames, the output synx of a frame is
\* signalled once, its command has one owner, and somebody is left to unmap the frame.
THEOREM FramesAreSafe == Spec => []FramesSafe
<1> QED BY FenceInvariant, FenceImplies, PTL

\* A flush that succeeds leaves no kernel-fenced command it saw behind.
THEOREM FlushLeavesNothing == Spec => []FlushedAll
<1> QED BY FenceInvariant, FenceImplies, PTL
=============================================================================
