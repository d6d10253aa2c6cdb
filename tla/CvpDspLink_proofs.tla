------------------------- MODULE CvpDspLink_proofs -------------------------
(***************************************************************************)
(* Proofs about CvpDspLink, for any number of calls, commands and losses   *)
(* of the channel: the types, that the only lock cycles are the two known  *)
(* ones, that memory is not left with a DSP that is gone, and that a       *)
(* caller reads the answer to its own command.                             *)
(*                                                                         *)
(* The inductive invariant says where a process may be and which locks it  *)
(* holds there (ControlInv), how the state of the DSP, the channel and the *)
(* memory assigned to it agree with that (MemoryInv), and which answers    *)
(* can still arrive (AnswerInv).                                           *)
(***************************************************************************)
EXTENDS CvpDspLink, SequenceTheorems, TLAPS

Ats == {"idle", "suspend", "shutdown", "hfi_queue", "wait", "got", "expired", "unsent", "remove",
        "resend", "invalidate", "back", "exited", "dev", "rx", "power", "resume", "work", "clear",
        "tx"}
Ops == {"none", "collapse", "release", "queue"}
Ins == {"main", "shutdown", "resend"}
Rets == {"ok", "eunsup", "efatal", "einvalstate", "eunavail"}
Olds == States \cup {"none"}

\* In cvp_dsp_send_cmd_sync, which is entered and left with tx_lock held.
Sending == {"wait", "got", "expired", "unsent"}
CallAts == Sending \cup {"shutdown", "remove", "resend", "invalidate", "back"}

ProcRec == [at : Ats, op : Ops, in : Ins, ok : BOOLEAN, tried : BOOLEAN, old : Olds]

\* The types of the variables, each with all of its parts.
ProcsOK == proc \in [Procs -> ProcRec]
PendOK == pend \in [type : Types \cup {"none"}, own : BOOLEAN, ret : Rets]
Msg == [type : Types, own : BOOLEAN]
WireOK == wire \in Seq(Msg)
SeenOK ==
    /\ seen \in [calls : Nat, cmds : 0..MaxCmds, probes : 0..MaxProbes, late : SUBSET Types,
                 mixed : BOOLEAN]
    /\ wake \in Nat
    /\ wake <= seen.cmds + seen.probes
FlagsOK == chan \in BOOLEAN /\ core \in BOOLEAN /\ qtable \in BOOLEAN /\ hyp \in BOOLEAN
           /\ sess \in BOOLEAN
PlainOK ==
    /\ state \in States
    /\ lock \in [Locks -> Procs \cup {"free"}]
    /\ done \in [Types -> Nat]
    /\ cmd \in Commands \cup {"none"}

Typed == ProcsOK /\ PendOK /\ WireOK /\ SeenOK /\ FlagsOK /\ PlainOK

\* Where the processes can be, and for which call.
WhereInv ==
    /\ proc["pm"].at \in CallAts \cup {"idle", "suspend", "hfi_queue"}
    /\ proc["pm"].at = "idle" <=> proc["pm"].op = "none"
    /\ proc["dsp"].op \in {"none", "queue"}
    /\ proc["dsp"].op = "none"
          => proc["dsp"].at \in {"idle", "exited", "rx", "power", "resume", "work", "clear"}
    /\ proc["dsp"].op = "queue" => proc["dsp"].at \in CallAts \cup {"dev", "hfi_queue"}
    /\ proc["dsp"].at = "resume" => proc["dsp"].old # "none"
    /\ proc["rp"].op = "none"
    /\ proc["rp"].at \in {"idle", "rx", "tx", "remove"}

CallInv(p) ==
    /\ proc[p].at = "suspend" => proc[p].op = "collapse"
    /\ proc[p].at = "hfi_queue" => proc[p].op = "queue"
    /\ proc[p].op = "release" => proc[p].at \in Sending \cup {"shutdown"}
    /\ proc[p].op = "release" /\ proc[p].at \in Sending => proc[p].in = "shutdown"

HoldsDev(p) ==
    \/ p = "pm" /\ proc[p].at # "idle"
    \/ p = "dsp" /\ proc[p].op = "queue" /\ proc[p].at # "dev"
HoldsTx(p) == proc[p].at \in Sending \cup {"resume"}
HoldsRx(p) == proc[p].at \in {"power", "resume", "work", "clear", "tx"}

\* The locks a process holds follow from where it is.
LocksInv ==
    \A p \in Procs :
        /\ lock["dev"] = p <=> HoldsDev(p)
        /\ lock["tx"] = p <=> HoldsTx(p)
        /\ lock["rx"] = p <=> HoldsRx(p)

ControlInv == WhereInv /\ (\A p \in Procs : CallInv(p)) /\ LocksInv

-----------------------------------------------------------------------------
\* Types.

LEMMA WireElements ==
    ASSUME WireOK
    PROVE  /\ Len(wire) \in Nat
           /\ DOMAIN wire = 1..Len(wire)
           /\ \A i \in DOMAIN wire : wire[i] \in Msg
  BY DEF WireOK

LEMMA TypedTypeOK ==
    ASSUME Typed PROVE TypeOK
<1>1. {chan, core, qtable, hyp, sess} \subseteq BOOLEAN
  BY Zenon DEF Typed, FlagsOK
<1>2. wake \in 0..(MaxCmds + MaxProbes)
  BY LinkAssumption DEF Typed, SeenOK
<1>3. \A i \in DOMAIN wire : wire[i].type \in Types
  BY WireElements DEF Typed, Msg
<1>4. \A p \in Procs : proc[p].old \in States \cup {"none"}
  BY DEF Typed, ProcsOK, ProcRec, Olds
<1>5. pend.type \in Types \cup {"none"}
  BY DEF Typed, PendOK
<1> QED
  BY <1>1, <1>2, <1>3, <1>4, <1>5 DEF Typed, PlainOK, TypeOK

LEMMA InitTyped == Init => Typed
<1> SUFFICES ASSUME Init PROVE Typed
  OBVIOUS
<1>1. ProcsOK
  BY DEF Init, ProcsOK, ProcRec, Idle, Ats, Ops, Ins, Olds
<1>2. PendOK /\ WireOK
  BY DEF Init, PendOK, WireOK, Rets
<1>3. SeenOK
  BY LinkAssumption DEF Init, SeenOK
<1>4. FlagsOK
  BY Zenon DEF Init, FlagsOK
<1>5. PlainOK
  BY DEF Init, PlainOK, States
<1> QED
  BY <1>1, <1>2, <1>3, <1>4, <1>5 DEF Typed

LEMMA IdleType == Idle \in ProcRec
  BY DEF Idle, ProcRec, Ats, Ops, Ins, Olds

LEMMA GoType ==
    ASSUME ProcsOK, NEW p \in Procs, NEW at \in Ats, Go(p, at)
    PROVE  ProcsOK'
  BY DEF ProcsOK, ProcRec, Go

LEMMA WithType ==
    ASSUME PlainOK, NEW p \in Procs \cup {"free"}, NEW S
    PROVE  With(p, S) \in [Locks -> Procs \cup {"free"}]
  BY DEF PlainOK, With

LEMMA ReturnType ==
    ASSUME ProcsOK, PlainOK, NEW p \in Procs, Return(p)
    PROVE  ProcsOK' /\ lock' \in [Locks -> Procs \cup {"free"}]
<1>1. ProcsOK'
  BY IdleType DEF ProcsOK, Return
<1>2. lock' \in [Locks -> Procs \cup {"free"}]
  BY WithType DEF Return, Without
<1> QED BY <1>1, <1>2

LEMMA SendSyncType ==
    ASSUME ProcsOK, PendOK, WireOK, NEW p \in Procs, NEW type \in Types, NEW in \in Ins,
           SendSync(p, type, in)
    PROVE  ProcsOK' /\ PendOK' /\ WireOK'
<1>1. PendOK'
  BY DEF SendSync, PendOK
<1>2. WireOK'
  <2> DEFINE old == [i \in DOMAIN wire |-> [wire[i] EXCEPT !.own = FALSE]]
             new == [type |-> type, own |-> TRUE]
  <2>1. \A i \in DOMAIN wire : old[i] \in Msg
    BY WireElements DEF Msg
  <2>2. old \in Seq(Msg)
    <3> HIDE DEF old
    <3>1. old = [i \in 1..Len(wire) |-> old[i]]
      BY WireElements DEF old
    <3> QED BY <2>1, <3>1, WireElements
  <2>3. new \in Msg
    BY DEF Msg
  <2>4. wire' = IF chan THEN Append(old, new) ELSE wire
    BY DEF SendSync
  <2> HIDE DEF old, new
  <2> QED BY <2>2, <2>3, <2>4 DEF WireOK
<1>3. ProcsOK'
  <2>1. "wait" \in Ats /\ "unsent" \in Ats
    BY DEF Ats
  <2> QED BY <2>1 DEF SendSync, ProcsOK, ProcRec
<1> QED BY <1>1, <1>2, <1>3

LEMMA ReturnedType ==
    ASSUME Typed, NEW p \in Procs, NEW in, NEW types, Returned(p, in, types)
    PROVE  /\ PendOK' /\ WireOK' /\ SeenOK'
           /\ UNCHANGED <<chan, core, qtable, done, wire, cmd, wake, sess>>
<1>1. PendOK'
  BY DEF Typed, PendOK, Returned, Rets
<1>2. SeenOK'
  <2>1. seen' \in [calls : Nat, cmds : 0..MaxCmds, probes : 0..MaxProbes, late : SUBSET Types,
                   mixed : BOOLEAN]
    <3>1. (seen.mixed \/ (proc[p].at = "got" /\ ~pend.own /\ TypeOf(p) \notin seen.late)) \in BOOLEAN
      OBVIOUS
    <3> QED BY <3>1 DEF Typed, SeenOK, Returned
  <2>2. seen'.cmds = seen.cmds /\ seen'.probes = seen.probes /\ wake' = wake
    BY DEF Typed, SeenOK, Returned
  <2> QED BY <2>1, <2>2 DEF Typed, SeenOK
<1>3. WireOK'
  BY DEF Typed, WireOK, Returned
<1> QED BY <1>1, <1>2, <1>3 DEF Returned

LEMMA TypeOfType ==
    ASSUME NEW p \in Procs PROVE TypeOf(p) \in Types
  BY DEF TypeOf, Types

\* The type of the locks.
LockOK == lock \in [Locks -> Procs \cup {"free"}]

\* What no step of a caller changes the type of.
LEMMA TypedAgain ==
    ASSUME Typed, ProcsOK', PendOK', WireOK', SeenOK', LockOK', state' \in States,
           chan' \in BOOLEAN, core' \in BOOLEAN, qtable' \in BOOLEAN, hyp' \in BOOLEAN,
           sess' \in BOOLEAN, done' \in [Types -> Nat], cmd' \in Commands \cup {"none"}
    PROVE  Typed'
<1>1. FlagsOK'
  BY Zenon DEF FlagsOK
<1>2. PlainOK'
  BY DEF PlainOK, LockOK
<1> QED BY <1>1, <1>2 DEF Typed

LEMMA SeenSame ==
    ASSUME SeenOK, UNCHANGED <<seen, wake>> PROVE SeenOK'
  BY DEF SeenOK

LEMMA CallerTyped ==
    ASSUME Typed, NEW p \in Procs, CallerStep(p) PROVE Typed'
<1> USE TypedAgain, SeenSame
<1>0. /\ ProcsOK /\ PendOK /\ WireOK /\ SeenOK /\ FlagsOK /\ PlainOK /\ LockOK
      /\ state \in States /\ done \in [Types -> Nat] /\ cmd \in Commands \cup {"none"}
  BY DEF Typed, PlainOK, LockOK
<1>1. chan \in BOOLEAN /\ core \in BOOLEAN /\ qtable \in BOOLEAN /\ hyp \in BOOLEAN /\ sess \in BOOLEAN
  BY <1>0, Zenon DEF FlagsOK
<1>2. /\ {"INVALID", "SUSPEND", "READY", "INACTIVE"} \subseteq States
      /\ {"got", "expired", "shutdown", "remove", "invalidate", "back", "idle", "resend"} \subseteq Ats
      /\ {"main", "shutdown", "resend"} \subseteq Ins
      /\ {"suspend", "queue", "shutdown"} \subseteq Types
      /\ TRUE \in BOOLEAN /\ FALSE \in BOOLEAN
  BY DEF States, Ats, Ins, Types
<1>3. \A S : Without(S) \in [Locks -> Procs \cup {"free"}]
  BY <1>0, WithType DEF Without
<1>4. \A S : With(p, S) \in [Locks -> Procs \cup {"free"}]
  BY <1>0, WithType
<1>5. ASSUME GiveUp PROVE state' \in States /\ hyp' \in BOOLEAN
  BY <1>2, <1>5 DEF GiveUp
<1>10. CASE Completed(p)
  <2>1. ProcsOK'
    BY <1>0, <1>2, <1>10, GoType DEF Completed
  <2>2. done' \in [Types -> Nat]
    BY <1>0, <1>10, TypeOfType DEF Completed
  <2>3. PendOK' /\ WireOK' /\ LockOK'
    BY <1>0, <1>10 DEF Completed, PendOK, WireOK, LockOK
  <2> QED BY <1>0, <1>1, <1>10, <2>1, <2>2, <2>3 DEF Completed
<1>11. CASE TimedOut(p)
  <2>1. ProcsOK'
    BY <1>0, <1>2, <1>11, GoType DEF TimedOut
  <2>2. WireOK'
    BY <1>0, <1>11, WireElements DEF TimedOut, WireOK
  <2>3. SeenOK'
    BY <1>0, <1>11, TypeOfType DEF TimedOut, SeenOK
  <2>4. PendOK' /\ LockOK'
    BY <1>0, <1>11 DEF TimedOut, PendOK, LockOK
  <2> QED BY <1>0, <1>1, <1>11, <2>1, <2>2, <2>3, <2>4 DEF TimedOut
<1>12. CASE Suspend(p)
  <2>1. ProcsOK' /\ PendOK' /\ WireOK'
    BY <1>0, <1>2, <1>12, ReturnType, SendSyncType, GoType DEF Suspend, PendOK, WireOK
  <2>2. LockOK'
    BY <1>0, <1>4, <1>12, ReturnType DEF Suspend, LockOK
  <2>3. state' \in States /\ hyp' \in BOOLEAN
    BY <1>0, <1>1, <1>2, <1>5, <1>12 DEF Suspend
  <2> QED BY <1>0, <1>1, <1>12, <2>1, <2>2, <2>3 DEF Suspend
<1>13. CASE Suspended(p)
  <2>1. /\ PendOK' /\ WireOK' /\ SeenOK'
        /\ UNCHANGED <<chan, core, qtable, done, wire, cmd, wake, sess>>
    BY <1>13, ReturnedType DEF Suspended
  <2>2. ProcsOK'
    BY <1>0, <1>2, <1>13, ReturnType, GoType DEF Suspended, ProcsOK, ProcRec
  <2>3. LockOK'
    BY <1>0, <1>3, <1>13, ReturnType DEF Suspended, LockOK
  <2>4. state' \in States /\ hyp' \in BOOLEAN
    BY <1>0, <1>1, <1>2, <1>5, <1>13 DEF Suspended
  <2> QED BY <1>0, <1>1, <1>13, <2>1, <2>2, <2>3, <2>4
<1>14. CASE SendHfiQueue(p)
  <2>1. ProcsOK' /\ PendOK' /\ WireOK'
    BY <1>0, <1>2, <1>14, ReturnType, SendSyncType, GoType DEF SendHfiQueue, PendOK, WireOK
  <2>2. LockOK'
    BY <1>0, <1>4, <1>14, ReturnType DEF SendHfiQueue, LockOK
  <2>3. state' \in States /\ hyp' \in BOOLEAN
    BY <1>0, <1>1, <1>2, <1>5, <1>14 DEF SendHfiQueue
  <2> QED BY <1>0, <1>1, <1>14, <2>1, <2>2, <2>3 DEF SendHfiQueue
<1>15. CASE HfiQueueSent(p)
  <2>1. /\ PendOK' /\ WireOK' /\ SeenOK'
        /\ UNCHANGED <<chan, core, qtable, done, wire, cmd, wake, sess>>
    BY <1>15, ReturnedType DEF HfiQueueSent
  <2>2. ProcsOK'
    BY <1>0, <1>2, <1>15, ReturnType, GoType DEF HfiQueueSent, ProcsOK, ProcRec
  <2>3. LockOK'
    BY <1>0, <1>3, <1>15, ReturnType DEF HfiQueueSent, LockOK
  <2>4. state' \in States /\ hyp' \in BOOLEAN
    BY <1>0, <1>1, <1>2, <1>5, <1>15 DEF HfiQueueSent
  <2> QED BY <1>0, <1>1, <1>15, <2>1, <2>2, <2>3, <2>4
<1>16. CASE Shutdown(p)
  <2>1. ProcsOK' /\ PendOK' /\ WireOK'
    BY <1>0, <1>2, <1>16, ReturnType, SendSyncType, GoType DEF Shutdown, PendOK, WireOK
  <2>2. LockOK'
    BY <1>0, <1>4, <1>16, ReturnType DEF Shutdown, LockOK
  <2>3. state' \in States /\ hyp' \in BOOLEAN
    BY <1>0, <1>1, <1>2, <1>5, <1>16 DEF Shutdown
  <2> QED BY <1>0, <1>1, <1>16, <2>1, <2>2, <2>3 DEF Shutdown
<1>17. CASE ShutdownSent(p)
  <2>1. /\ PendOK' /\ WireOK' /\ SeenOK'
        /\ UNCHANGED <<chan, core, qtable, done, wire, cmd, wake, sess>>
    BY <1>17, ReturnedType DEF ShutdownSent
  <2>2. ProcsOK'
    BY <1>0, <1>2, <1>17, ReturnType, GoType DEF ShutdownSent
  <2>3. LockOK'
    BY <1>0, <1>3, <1>17, ReturnType DEF ShutdownSent, LockOK
  <2>4. state' \in States /\ hyp' \in BOOLEAN
    BY <1>0, <1>1, <1>2, <1>5, <1>17 DEF ShutdownSent
  <2> QED BY <1>0, <1>1, <1>17, <2>1, <2>2, <2>3, <2>4
<1>18. CASE RemoveSessions(p)
  <2>1. ProcsOK'
    BY <1>0, <1>2, <1>18, GoType DEF RemoveSessions
  <2>2. PendOK' /\ WireOK' /\ LockOK'
    BY <1>0, <1>18 DEF RemoveSessions, PendOK, WireOK, LockOK
  <2>3. sess' \in BOOLEAN
    BY <1>1, <1>2, <1>18 DEF RemoveSessions
  <2> QED BY <1>0, <1>1, <1>18, <2>1, <2>2, <2>3 DEF RemoveSessions
<1>19. CASE Resend(p)
  <2>1. ProcsOK' /\ PendOK' /\ WireOK'
    BY <1>0, <1>2, <1>19, ReturnType, SendSyncType, GoType DEF Resend, PendOK, WireOK
  <2>2. LockOK'
    BY <1>0, <1>4, <1>19, ReturnType DEF Resend, LockOK
  <2>3. state' \in States /\ hyp' \in BOOLEAN
    BY <1>0, <1>1, <1>2, <1>5, <1>19 DEF Resend
  <2> QED BY <1>0, <1>1, <1>19, <2>1, <2>2, <2>3 DEF Resend
<1>20. CASE Resent(p)
  <2>1. /\ PendOK' /\ WireOK' /\ SeenOK'
        /\ UNCHANGED <<chan, core, qtable, done, wire, cmd, wake, sess>>
    BY <1>20, ReturnedType DEF Resent
  <2>2. ProcsOK'
    BY <1>0, <1>2, <1>20, ReturnType, GoType DEF Resent
  <2>3. LockOK'
    BY <1>0, <1>3, <1>20, ReturnType DEF Resent, LockOK
  <2>4. state' \in States /\ hyp' \in BOOLEAN
    BY <1>0, <1>1, <1>2, <1>5, <1>20 DEF Resent
  <2> QED BY <1>0, <1>1, <1>20, <2>1, <2>2, <2>3, <2>4
<1>21. CASE Invalidate(p)
  <2>1. ProcsOK'
    BY <1>0, <1>2, <1>21, ReturnType DEF Invalidate, ProcsOK, ProcRec
  <2>2. PendOK' /\ WireOK'
    BY <1>0, <1>21 DEF Invalidate, PendOK, WireOK
  <2>3. LockOK'
    BY <1>0, <1>21, ReturnType DEF Invalidate, LockOK
  <2>4. state' \in States /\ hyp' \in BOOLEAN
    BY <1>5, <1>21 DEF Invalidate
  <2> QED BY <1>0, <1>1, <1>21, <2>1, <2>2, <2>3, <2>4 DEF Invalidate
<1>22. CASE Reinitialised(p)
  <2>1. ProcsOK' /\ PendOK' /\ WireOK'
    BY <1>0, <1>2, <1>22, ReturnType, SendSyncType, GoType DEF Reinitialised, PendOK, WireOK
  <2>2. LockOK'
    BY <1>0, <1>4, <1>22, ReturnType DEF Reinitialised, LockOK
  <2>3. state' \in States /\ hyp' \in BOOLEAN
    BY <1>0, <1>1, <1>2, <1>5, <1>22 DEF Reinitialised
  <2> QED BY <1>0, <1>1, <1>22, <2>1, <2>2, <2>3 DEF Reinitialised
<1> QED
  BY <1>10, <1>11, <1>12, <1>13, <1>14, <1>15, <1>16, <1>17, <1>18, <1>19, <1>20, <1>21, <1>22 DEF CallerStep

LEMMA NextTyped ==
    ASSUME Typed, ControlInv, [Next]_vars PROVE Typed'
<1> USE TypedAgain, SeenSame
<1>0. /\ ProcsOK /\ PendOK /\ WireOK /\ SeenOK /\ FlagsOK /\ PlainOK /\ LockOK
      /\ state \in States /\ done \in [Types -> Nat] /\ cmd \in Commands \cup {"none"}
  BY DEF Typed, PlainOK, LockOK
<1>1. chan \in BOOLEAN /\ core \in BOOLEAN /\ qtable \in BOOLEAN /\ hyp \in BOOLEAN /\ sess \in BOOLEAN
  BY <1>0, Zenon DEF FlagsOK
<1>2. /\ {"PROBED", "UNINIT", "SUSPEND", "READY"} \subseteq States
      /\ {"idle", "hfi_queue", "rx", "tx", "remove", "power", "work", "clear", "resume"} \subseteq Ats
      /\ {"pm", "dsp", "rp"} \subseteq Procs
      /\ TRUE \in BOOLEAN /\ FALSE \in BOOLEAN
  BY DEF States, Ats, Procs
<1>3. \A S : Without(S) \in [Locks -> Procs \cup {"free"}]
  BY <1>0, WithType DEF Without
<1>4. \A p \in Procs : \A S : With(p, S) \in [Locks -> Procs \cup {"free"}]
  BY <1>0, WithType
<1>6. ASSUME Called, UNCHANGED wake PROVE SeenOK'
  BY <1>0, <1>6 DEF Called, SeenOK
<1>7. ASSUME NEW a \in {"suspend", "shutdown", "hfi_queue"}, NEW o \in {"collapse", "release", "queue"},
             proc' = [proc EXCEPT !["pm"] = [Idle EXCEPT !.op = o, !.at = a]]
      PROVE  ProcsOK'
  <2>1. [Idle EXCEPT !.op = o, !.at = a] \in ProcRec
    BY DEF Idle, ProcRec, Ats, Ops, Ins, Olds
  <2> QED BY <1>0, <1>7, <2>1 DEF ProcsOK
<1>10. CASE \E force \in BOOLEAN : Collapse(force)
  <2>1. SeenOK'
    BY <1>6, <1>10 DEF Collapse
  <2>2. ProcsOK'
    BY <1>7, <1>10 DEF Collapse
  <2>3. PendOK' /\ WireOK'
    BY <1>0, <1>10 DEF Collapse, PendOK, WireOK
  <2>4. LockOK'
    BY <1>0, <1>2, <1>3, <1>4, <1>10 DEF Collapse, LockOK
  <2> QED BY <1>0, <1>1, <1>2, <1>10, <2>1, <2>2, <2>3, <2>4 DEF Collapse
<1>11. CASE Release
  <2>1. SeenOK'
    BY <1>6, <1>11 DEF Release
  <2>2. ProcsOK'
    BY <1>7, <1>11 DEF Release
  <2>3. PendOK' /\ WireOK'
    BY <1>0, <1>11 DEF Release, PendOK, WireOK
  <2>4. LockOK'
    BY <1>0, <1>2, <1>3, <1>4, <1>11 DEF Release, LockOK
  <2> QED BY <1>0, <1>1, <1>2, <1>11, <2>1, <2>2, <2>3, <2>4 DEF Release
<1>12. CASE CoreInit
  <2>1. SeenOK'
    BY <1>6, <1>12 DEF CoreInit
  <2>2. ProcsOK'
    BY <1>7, <1>12 DEF CoreInit
  <2>3. PendOK' /\ WireOK'
    BY <1>0, <1>12 DEF CoreInit, PendOK, WireOK
  <2>4. LockOK'
    BY <1>0, <1>2, <1>3, <1>4, <1>12 DEF CoreInit, LockOK
  <2> QED BY <1>0, <1>1, <1>2, <1>12, <2>1, <2>2, <2>3, <2>4 DEF CoreInit
<1>13. CASE \E p \in Procs : CallerStep(p)
  BY <1>13, CallerTyped
<1>14. CASE CallbackAnswer
  <2> DEFINE m == Head(wire)
  <2>1. wire # <<>> /\ wire' = Tail(wire)
    BY <1>14 DEF CallbackAnswer
  <2>2. m \in Msg /\ Tail(wire) \in Seq(Msg)
    BY <1>0, <2>1 DEF WireOK
  <2>3. WireOK'
    BY <2>1, <2>2 DEF WireOK
  <2>4. m.type \in Types /\ m.own \in BOOLEAN
    BY <2>2 DEF Msg
  <2>5. \A ret \in Answers(m.type) : ret \in Rets
    BY <2>4 DEF Answers, Rets, Types
  <2>6. \/ UNCHANGED <<pend, done>>
        \/ /\ \E ret \in Answers(m.type) : pend' = [type |-> m.type, own |-> m.own, ret |-> ret]
           /\ done' = [done EXCEPT ![m.type] = @ + 1]
    BY <1>14 DEF CallbackAnswer
  <2> HIDE DEF m
  <2>7. PendOK'
    BY <1>0, <2>4, <2>5, <2>6 DEF PendOK
  <2>8. done' \in [Types -> Nat]
    BY <1>0, <2>4, <2>6
  <2>9. ProcsOK' /\ LockOK'
    BY <1>0, <1>14 DEF CallbackAnswer, ProcsOK, LockOK
  <2> QED BY <1>0, <1>1, <1>14, <2>3, <2>7, <2>8, <2>9 DEF CallbackAnswer
<1>15. CASE \E c \in Commands : CallbackCommand(c)
  <2>1. SeenOK'
    BY <1>0, LinkAssumption, <1>15 DEF CallbackCommand, SeenOK
  <2>2. ProcsOK'
    BY <1>0, <1>15 DEF CallbackCommand, ProcsOK
  <2>3. PendOK' /\ WireOK' /\ LockOK'
    BY <1>0, <1>15 DEF CallbackCommand, PendOK, WireOK, LockOK
  <2> QED BY <1>0, <1>1, <1>2, <1>15, <2>1, <2>2, <2>3 DEF CallbackCommand
<1>16. CASE RpmsgProbe
  <2>1. SeenOK'
    BY <1>0, LinkAssumption, <1>16 DEF RpmsgProbe, SeenOK
  <2>2. ProcsOK'
    BY <1>0, <1>16 DEF RpmsgProbe, ProcsOK
  <2>3. PendOK' /\ WireOK' /\ LockOK'
    BY <1>0, <1>16 DEF RpmsgProbe, PendOK, WireOK, LockOK
  <2> QED BY <1>0, <1>1, <1>2, <1>16, <2>1, <2>2, <2>3 DEF RpmsgProbe
<1>17. CASE DspDown
  <2>1. ProcsOK'
    BY <1>0, <1>2, <1>17, GoType DEF DspDown
  <2>2. PendOK' /\ WireOK' /\ LockOK'
    BY <1>0, <1>17 DEF DspDown, PendOK, WireOK, LockOK
  <2> QED BY <1>0, <1>1, <1>2, <1>17, <2>1, <2>2 DEF DspDown
<1>18. CASE RpmsgRemove
  <2>1. ProcsOK'
    BY <1>0, <1>2, <1>18, GoType DEF RpmsgRemove
  <2>2. PendOK' /\ WireOK'
    BY <1>0, <1>18 DEF RpmsgRemove, PendOK, WireOK
  <2>3. LockOK'
    BY <1>0, <1>2, <1>3, <1>4, <1>18 DEF RpmsgRemove, LockOK
  <2> QED BY <1>0, <1>1, <1>2, <1>18, <2>1, <2>2, <2>3 DEF RpmsgRemove
<1>19. CASE RpmsgRemoved
  <2>1. ProcsOK'
    BY <1>0, <1>2, <1>19, GoType DEF RpmsgRemoved
  <2>2. PendOK' /\ WireOK'
    BY <1>0, <1>19 DEF RpmsgRemoved, PendOK, WireOK
  <2>3. LockOK'
    BY <1>0, <1>2, <1>3, <1>4, <1>19 DEF RpmsgRemoved, LockOK
  <2> QED BY <1>0, <1>1, <1>2, <1>19, <2>1, <2>2, <2>3 DEF RpmsgRemoved
<1>20. CASE ThreadWakes
  <2>1. SeenOK'
    BY <1>0, LinkAssumption, <1>20 DEF ThreadWakes, SeenOK
  <2>2. ProcsOK'
    BY <1>0, <1>20 DEF ThreadWakes, ProcsOK, ProcRec, Idle, Ats, Ops, Ins, Olds
  <2>3. PendOK' /\ WireOK' /\ LockOK'
    BY <1>0, <1>20 DEF ThreadWakes, PendOK, WireOK, LockOK
  <2> QED BY <1>0, <1>1, <1>2, <1>20, <2>1, <2>2, <2>3 DEF ThreadWakes
<1>21. CASE ThreadSendsQueue
  <2>1. ProcsOK'
    BY <1>0, <1>2, <1>21, GoType DEF ThreadSendsQueue
  <2>2. PendOK' /\ WireOK'
    BY <1>0, <1>21 DEF ThreadSendsQueue, PendOK, WireOK
  <2>3. LockOK'
    BY <1>0, <1>2, <1>3, <1>4, <1>21 DEF ThreadSendsQueue, LockOK
  <2> QED BY <1>0, <1>1, <1>2, <1>21, <2>1, <2>2, <2>3 DEF ThreadSendsQueue
<1>22. CASE ThreadServes
  <2>1. ProcsOK'
    BY <1>0, <1>2, <1>22, GoType DEF ThreadServes
  <2>2. PendOK' /\ WireOK'
    BY <1>0, <1>22 DEF ThreadServes, PendOK, WireOK
  <2>3. LockOK'
    BY <1>0, <1>2, <1>3, <1>4, <1>22 DEF ThreadServes, LockOK
  <2> QED BY <1>0, <1>1, <1>2, <1>22, <2>1, <2>2, <2>3 DEF ThreadServes
<1>23. CASE PowerOn
  <2>1. ProcsOK'
    BY <1>0, <1>2, <1>23, GoType DEF PowerOn, ProcsOK, ProcRec, Olds
  <2>2. PendOK' /\ WireOK'
    BY <1>0, <1>23 DEF PowerOn, PendOK, WireOK
  <2>3. LockOK'
    BY <1>0, <1>2, <1>3, <1>4, <1>23 DEF PowerOn, LockOK
  <2> QED BY <1>0, <1>1, <1>2, <1>23, <2>1, <2>2, <2>3 DEF PowerOn
<1>24. CASE PowerOnResume
  <2>1. ProcsOK'
    BY <1>0, <1>2, <1>24, GoType DEF PowerOnResume
  <2>2. PendOK' /\ WireOK'
    BY <1>0, <1>24 DEF PowerOnResume, PendOK, WireOK
  <2>3. LockOK'
    BY <1>0, <1>2, <1>3, <1>4, <1>24 DEF PowerOnResume, LockOK
  <2>4. state' \in States
    BY <1>0, <1>2, <1>24 DEF PowerOnResume, ProcsOK, ProcRec, Olds, ControlInv, WhereInv
  <2> QED BY <1>0, <1>1, <1>2, <1>24, <2>1, <2>2, <2>3, <2>4 DEF PowerOnResume
<1>25. CASE SessionCommand
  <2>1. ProcsOK'
    BY <1>0, <1>2, <1>25, GoType DEF SessionCommand
  <2>2. PendOK' /\ WireOK' /\ LockOK'
    BY <1>0, <1>25 DEF SessionCommand, PendOK, WireOK, LockOK
  <2>3. sess' \in BOOLEAN
    BY <1>1, <1>2, <1>25 DEF SessionCommand
  <2> QED BY <1>0, <1>1, <1>2, <1>25, <2>1, <2>2, <2>3 DEF SessionCommand
<1>26. CASE ThreadAnswers
  <2>1. ProcsOK' /\ LockOK'
    BY <1>0, <1>2, <1>26, ReturnType DEF ThreadAnswers, LockOK
  <2>2. PendOK' /\ WireOK'
    BY <1>0, <1>26 DEF ThreadAnswers, PendOK, WireOK
  <2> QED BY <1>0, <1>1, <1>2, <1>26, <2>1, <2>2 DEF ThreadAnswers
<1>27. CASE UNCHANGED vars
  <2>1. ProcsOK' /\ PendOK' /\ WireOK' /\ LockOK'
    BY <1>0, <1>27 DEF vars, ProcsOK, PendOK, WireOK, LockOK
  <2> QED BY <1>0, <1>1, <1>27, <2>1 DEF vars
<1> QED
  BY <1>10, <1>11, <1>12, <1>13, <1>14, <1>15, <1>16, <1>17, <1>18, <1>19, <1>20, <1>21, <1>22, <1>23, <1>24, <1>25, <1>26, <1>27 DEF Next, ThreadStep

-----------------------------------------------------------------------------
\* Where the processes are, and the locks they hold.

LEMMA InitControl == Init => ControlInv
  BY DEF Init, ControlInv, WhereInv, CallInv, LocksInv, HoldsDev, HoldsTx, HoldsRx, Idle, Procs,
         Locks, CallAts, Sending

LEMMA CallerControl ==
    ASSUME Typed, ControlInv, NEW p \in Procs, CallerStep(p) PROVE ControlInv'
<1> USE DEF ControlInv, WhereInv, CallInv, LocksInv, HoldsDev, HoldsTx, HoldsRx,
             CallAts, Sending, Procs, Locks, Free, With, Without, Held, Go, Return, SendSync, Idle
<1>0. proc \in [Procs -> ProcRec] /\ lock \in [Locks -> Procs \cup {"free"}]
  BY DEF Typed, ProcsOK, PlainOK
<1>1. CASE Completed(p)
  BY <1>0, <1>1 DEF Completed, ProcRec
<1>2. CASE TimedOut(p)
  BY <1>0, <1>2 DEF TimedOut, ProcRec
<1>3. CASE Suspend(p)
  BY <1>0, <1>3 DEF Suspend, ProcRec
<1>4. CASE Suspended(p)
  BY <1>0, <1>4 DEF Suspended, Returned, TypeOf, ProcRec
<1>5. CASE SendHfiQueue(p)
  BY <1>0, <1>5 DEF SendHfiQueue, ProcRec
<1>6. CASE HfiQueueSent(p)
  BY <1>0, <1>6 DEF HfiQueueSent, Returned, TypeOf, ProcRec
<1>7. CASE Shutdown(p)
  BY <1>0, <1>7 DEF Shutdown, ProcRec
<1>8. CASE ShutdownSent(p)
  BY <1>0, <1>8 DEF ShutdownSent, Returned, TypeOf, ProcRec
<1>9. CASE RemoveSessions(p)
  BY <1>0, <1>9 DEF RemoveSessions, ProcRec
<1>10. CASE Resend(p)
  BY <1>0, <1>10 DEF Resend, ProcRec
<1>11. CASE Resent(p)
  BY <1>0, <1>11 DEF Resent, Returned, TypeOf, ProcRec
<1>12. CASE Invalidate(p)
  BY <1>0, <1>12 DEF Invalidate, ProcRec
<1>13. CASE Reinitialised(p)
  BY <1>0, <1>13 DEF Reinitialised, ProcRec
<1> QED
  BY <1>1, <1>2, <1>3, <1>4, <1>5, <1>6, <1>7, <1>8, <1>9, <1>10, <1>11, <1>12, <1>13 DEF CallerStep

LEMMA NextControl ==
    ASSUME Typed, ControlInv, [Next]_vars PROVE ControlInv'
<1> USE DEF ControlInv, WhereInv, CallInv, LocksInv, HoldsDev, HoldsTx, HoldsRx,
             CallAts, Sending, Procs, Locks, Free, With, Without, Held, Go, Return, SendSync, Idle
<1>0. proc \in [Procs -> ProcRec] /\ lock \in [Locks -> Procs \cup {"free"}] /\ state \in States
  BY DEF Typed, ProcsOK, PlainOK
<1>1. CASE \E force \in BOOLEAN : Collapse(force)
  BY <1>0, <1>1 DEF Collapse, Called, ProcRec
<1>2. CASE Release
  BY <1>0, <1>2 DEF Release, Called, ProcRec
<1>3. CASE CoreInit
  BY <1>0, <1>3 DEF CoreInit, Called, ProcRec
<1>4. CASE CallbackAnswer
  BY <1>0, <1>4 DEF CallbackAnswer, ProcRec
<1>5. CASE \E c \in Commands : CallbackCommand(c)
  BY <1>0, <1>5 DEF CallbackCommand, ProcRec
<1>6. CASE RpmsgProbe
  BY <1>0, <1>6 DEF RpmsgProbe, ProcRec
<1>7. CASE DspDown
  BY <1>0, <1>7 DEF DspDown, ProcRec
<1>8. CASE RpmsgRemove
  BY <1>0, <1>8 DEF RpmsgRemove, ProcRec
<1>9. CASE RpmsgRemoved
  BY <1>0, <1>9 DEF RpmsgRemoved, ProcRec
<1>10. CASE ThreadWakes
  BY <1>0, <1>10 DEF ThreadWakes, ProcRec
<1>11. CASE ThreadSendsQueue
  BY <1>0, <1>11 DEF ThreadSendsQueue, ProcRec
<1>12. CASE ThreadServes
  BY <1>0, <1>12 DEF ThreadServes, ProcRec
<1>13. CASE PowerOn
  BY <1>0, <1>13 DEF PowerOn, States, ProcRec
<1>14. CASE PowerOnResume
  BY <1>0, <1>14 DEF PowerOnResume, ProcRec
<1>15. CASE SessionCommand
  BY <1>0, <1>15 DEF SessionCommand, ProcRec
<1>16. CASE ThreadAnswers
  BY <1>0, <1>16 DEF ThreadAnswers, ProcRec
<1>17. CASE \E p \in Procs : CallerStep(p)
  BY <1>17, CallerControl
<1>18. CASE UNCHANGED vars
  BY <1>18 DEF vars
<1> QED
  BY <1>1, <1>2, <1>3, <1>4, <1>5, <1>6, <1>7, <1>8, <1>9, <1>10, <1>11, <1>12, <1>13, <1>14, <1>15, <1>16, <1>17, <1>18 DEF Next, ThreadStep

-----------------------------------------------------------------------------
\* A cycle needs a process that holds tx_lock and wants a lock, or one that holds
\* device->lock and wants it again: every other holder of tx_lock waits for the
\* DSP, every other holder of device->lock wants tx_lock, and every holder of
\* rx_lock wants one of these two or none.
LEMMA ControlCycles ==
    ASSUME Typed, ControlInv PROVE OnlyKnownCycles
<1> SUFFICES ASSUME NEW S \in SUBSET Procs, Cycle(S),
                    ~("dsp" \in S /\ proc["dsp"].at = "resume"),
                    ~ \E p \in S : proc[p].at = "remove" /\ lock["dev"] = p
             PROVE  FALSE
  BY DEF OnlyKnownCycles
<1>0. \A p \in S : Wanted(p) # "none" /\ lock[Wanted(p)] \in S
  BY DEF Cycle
<1>1. \A p \in S : Wanted(p) \in {"dev", "tx", "rx"}
  BY <1>0 DEF Wanted
<1>2. \A p \in S : Wanted(p) # "tx"
  <2> SUFFICES ASSUME NEW p \in S, Wanted(p) = "tx" PROVE FALSE
    OBVIOUS
  <2> PICK q \in S : q = lock["tx"]
    BY <1>0
  <2>1. proc[q].at \in Sending
    BY DEF ControlInv, LocksInv, HoldsTx, WhereInv, Procs, CallAts, Sending
  <2>2. Wanted(q) = "none"
    BY <2>1 DEF Wanted, Sending
  <2> QED BY <1>0, <2>2
<1>3. \A p \in S : Wanted(p) # "dev"
  <2> SUFFICES ASSUME NEW p \in S, Wanted(p) = "dev" PROVE FALSE
    OBVIOUS
  <2> PICK q \in S : q = lock["dev"]
    BY <1>0
  <2>1. HoldsDev(q) /\ proc[q].at # "remove"
    BY DEF ControlInv, LocksInv
  <2>2. Wanted(q) \in {"tx", "none"}
    BY <2>1 DEF Wanted, HoldsDev, ControlInv, WhereInv, CallAts, Sending
  <2> QED BY <1>0, <1>2, <2>2
<1>4. \A p \in S : Wanted(p) # "rx"
  <2> SUFFICES ASSUME NEW p \in S, Wanted(p) = "rx" PROVE FALSE
    OBVIOUS
  <2> PICK q \in S : q = lock["rx"]
    BY <1>0
  <2>1. HoldsRx(q)
    BY DEF ControlInv, LocksInv
  <2>2. Wanted(q) # "rx"
    BY <2>1 DEF Wanted, HoldsRx
  <2> QED BY <1>0, <1>1, <1>2, <1>3, <2>2
<1> QED BY <1>1, <1>2, <1>3, <1>4, <1>0 DEF Cycle

-----------------------------------------------------------------------------
\* The memory assigned to the DSP.

Gone == state \in {"INVALID", "UNINIT"}

\* In a call that sends commands, and not yet told that it failed.
InCall(p) ==
    \/ proc[p].at \in Sending \cup {"shutdown", "remove", "resend"}
    \/ proc[p].at = "back" /\ proc[p].ok

\* While a reinitialisation runs the DSP is not given up by anyone else, and the
\* channel stays as long as an answer is waited for; so memory that was assigned
\* again to a DSP that is gone belongs to a call that has yet to give it up.
MemoryInv ==
    /\ state = "UNINIT" => ~chan
    /\ proc["dsp"].at \in {"power", "resume", "work", "clear"} => state # "UNINIT"
    /\ proc["dsp"].old # "UNINIT"
    /\ \A p \in Procs : proc[p].op \in {"collapse", "queue"} /\ InCall(p) => state # "INVALID"
    /\ \A p \in Procs : proc[p].at \in {"wait", "got", "expired"} => chan
    /\ \A p \in Procs : proc[p].at # "back" => proc[p].ok
    /\ (proc["dsp"].at = "resume" /\ proc["dsp"].old = "INVALID" /\ hyp)
          => \E p \in Procs : proc[p].at = "invalidate"
    /\ (Gone /\ hyp)
          => \E p \in Procs : \/ proc[p].at = "invalidate"
                              \/ proc[p].at = "unsent" /\ proc[p].in = "resend"

LEMMA InitMemory == Init => MemoryInv
  BY DEF Init, MemoryInv, InCall, Idle, Procs, Sending

\* Nothing is left with a DSP that is gone once nobody is in such a call.
LEMMA MemoryIsBack ==
    ASSUME Typed, ControlInv, MemoryInv PROVE MemoryBack
  BY DEF MemoryBack, MemoryInv, Gone, ControlInv, LocksInv, HoldsTx, Sending, Free, Procs

LEMMA CallerMemory ==
    ASSUME Typed, ControlInv, MemoryInv, NEW p \in Procs, CallerStep(p) PROVE MemoryInv'
<1> USE DEF ControlInv, WhereInv, CallInv, LocksInv, HoldsDev, HoldsTx, HoldsRx,
             CallAts, Sending, Procs, Free, Go, Return, SendSync, Idle, MemoryInv, InCall, Gone
<1>0. proc \in [Procs -> ProcRec] /\ state \in States
  BY DEF Typed, ProcsOK, PlainOK
<1>1. CASE Completed(p)
  BY <1>0, <1>1 DEF Completed, ProcRec
<1>2. CASE TimedOut(p)
  BY <1>0, <1>2 DEF TimedOut, ProcRec
<1>3. CASE Suspend(p)
  BY <1>0, <1>3 DEF Suspend, ProcRec
<1>4. CASE Suspended(p)
  BY <1>0, <1>4 DEF Suspended, Returned, TypeOf, Answer, GiveUp, ProcRec
<1>5. CASE SendHfiQueue(p)
  BY <1>0, <1>5 DEF SendHfiQueue, ProcRec
<1>6. CASE HfiQueueSent(p)
  BY <1>0, <1>6 DEF HfiQueueSent, Returned, TypeOf, Answer, GiveUp, ProcRec
<1>7. CASE Shutdown(p)
  BY <1>0, <1>7 DEF Shutdown, ProcRec
<1>8. CASE ShutdownSent(p)
  BY <1>0, <1>8 DEF ShutdownSent, Returned, TypeOf, Answer, ProcRec
<1>9. CASE RemoveSessions(p)
  BY <1>0, <1>9 DEF RemoveSessions, ProcRec
<1>10. CASE Resend(p)
  <2>1. CASE Go(p, "invalidate") /\ UNCHANGED hyp
    BY <1>0, <1>10, <2>1 DEF Resend, ProcRec
  <2>2. CASE chan /\ SendSync(p, "queue", "resend")
    <3>1. state \notin {"INVALID", "UNINIT"}
      <4>1. proc[p].at = "resend" /\ proc[p].op \in Ops
        BY <1>0, <1>10 DEF Resend, ProcRec
      <4>2. proc[p].op \in {"collapse", "queue"}
        BY <4>1 DEF Ops
      <4> QED BY <2>2, <4>1, <4>2
    <3>2. /\ proc'[p].at = "wait" /\ proc'[p].in = "resend"
          /\ proc'[p].ok = proc[p].ok /\ proc'[p].op = proc[p].op /\ proc'[p].old = proc[p].old
          /\ \A q \in Procs : q # p => proc'[q] = proc[q]
      BY <1>0, <2>2 DEF ProcRec
    <3>3. proc["dsp"].at # "resume"
      BY <1>10 DEF Resend
    <3> QED BY <1>0, <1>10, <2>2, <3>1, <3>2, <3>3 DEF Resend
  <2>3. CASE ~chan /\ SendSync(p, "queue", "resend")
    <3>2. /\ proc'[p].at = "unsent" /\ proc'[p].in = "resend"
          /\ proc'[p].ok = proc[p].ok /\ proc'[p].op = proc[p].op /\ proc'[p].old = proc[p].old
          /\ \A q \in Procs : q # p => proc'[q] = proc[q]
      BY <1>0, <2>3 DEF ProcRec
    <3>3. proc["dsp"].at # "resume"
      BY <1>10 DEF Resend
    <3> QED BY <1>0, <1>10, <2>3, <3>2, <3>3 DEF Resend
  <2> QED BY <1>10, <2>1, <2>2, <2>3 DEF Resend
<1>11. CASE Resent(p)
  BY <1>0, <1>11 DEF Resent, Returned, TypeOf, Answer, ProcRec
<1>12. CASE Invalidate(p)
  BY <1>0, <1>12 DEF Invalidate, GiveUp, ProcRec
<1>13. CASE Reinitialised(p)
  BY <1>0, <1>13 DEF Reinitialised, GiveUp, ProcRec
<1> QED
  BY <1>1, <1>2, <1>3, <1>4, <1>5, <1>6, <1>7, <1>8, <1>9, <1>10, <1>11, <1>12, <1>13 DEF CallerStep

LEMMA NextMemory ==
    ASSUME Typed, ControlInv, MemoryInv, [Next]_vars PROVE MemoryInv'
<1> USE DEF ControlInv, WhereInv, CallInv, LocksInv, HoldsDev, HoldsTx, HoldsRx,
             CallAts, Sending, Procs, Free, Go, Return, SendSync, Idle, MemoryInv, InCall, Gone
<1>0. proc \in [Procs -> ProcRec] /\ lock \in [Locks -> Procs \cup {"free"}] /\ state \in States
  BY DEF Typed, ProcsOK, PlainOK
<1>1. CASE \E force \in BOOLEAN : Collapse(force)
  BY <1>0, <1>1 DEF Collapse, Called, ProcRec
<1>2. CASE Release
  BY <1>0, <1>2 DEF Release, Called, ProcRec
<1>3. CASE CoreInit
  BY <1>0, <1>3 DEF CoreInit, Called, ProcRec
<1>4. CASE CallbackAnswer
  BY <1>0, <1>4 DEF CallbackAnswer, ProcRec
<1>5. CASE \E c \in Commands : CallbackCommand(c)
  BY <1>0, <1>5 DEF CallbackCommand, ProcRec
<1>6. CASE RpmsgProbe
  BY <1>0, <1>6 DEF RpmsgProbe, ProcRec
<1>7. CASE DspDown
  BY <1>0, <1>7 DEF DspDown, ProcRec
<1>8. CASE RpmsgRemove
  BY <1>0, <1>8 DEF RpmsgRemove, ProcRec
<1>9. CASE RpmsgRemoved
  BY <1>0, <1>9 DEF RpmsgRemoved, ProcRec
<1>10. CASE ThreadWakes
  BY <1>0, <1>10 DEF ThreadWakes, ProcRec
<1>11. CASE ThreadSendsQueue
  BY <1>0, <1>11 DEF ThreadSendsQueue, ProcRec
<1>12. CASE ThreadServes
  BY <1>0, <1>12 DEF ThreadServes, ProcRec
<1>13. CASE PowerOn
  BY <1>0, <1>13 DEF PowerOn, States, ProcRec
<1>14. CASE PowerOnResume
  BY <1>0, <1>14 DEF PowerOnResume, ProcRec
<1>15. CASE SessionCommand
  BY <1>0, <1>15 DEF SessionCommand, ProcRec
<1>16. CASE ThreadAnswers
  BY <1>0, <1>16 DEF ThreadAnswers, ProcRec
<1>17. CASE \E p \in Procs : CallerStep(p)
  BY <1>17, CallerMemory
<1>18. CASE UNCHANGED vars
  BY <1>18 DEF vars
<1> QED
  BY <1>1, <1>2, <1>3, <1>4, <1>5, <1>6, <1>7, <1>8, <1>9, <1>10, <1>11, <1>12, <1>13, <1>14, <1>15, <1>16, <1>17, <1>18 DEF Next, ThreadStep

-----------------------------------------------------------------------------
\* The answers that can still arrive.

Waits(t) == \E p \in Procs : proc[p].at = "wait" /\ TypeOf(p) = t

\* Only the last command sent can be the current one, and a command of a type that
\* was never late is on the wire, or completed, only while its caller waits.
AnswerInv ==
    /\ \A i \in DOMAIN wire : wire[i].own => i = Len(wire)
    /\ \A i \in DOMAIN wire : wire[i].type \notin seen.late =>
          /\ wire[i].own
          /\ Waits(wire[i].type)
          /\ done[wire[i].type] = 0
    /\ \A t \in Types \ seen.late : done[t] > 0 => done[t] = 1 /\ pend.own /\ Waits(t)
    /\ \A p \in Procs : proc[p].at = "got" /\ TypeOf(p) \notin seen.late => pend.own
    /\ \A p \in Procs : proc[p].at \in Sending => pend.type = TypeOf(p)
    /\ ~seen.mixed

LEMMA InitAnswer == Init => AnswerInv
  BY DEF Init, AnswerInv, Idle, Procs, Sending

\* There is one tx_lock, so at most one process is sending.
LEMMA OneSends ==
    ASSUME ControlInv
    PROVE  /\ \A p, q \in Procs : proc[p].at \in Sending /\ proc[q].at \in Sending => p = q
           /\ Free("tx") => \A p \in Procs : proc[p].at \notin Sending
  BY DEF ControlInv, LocksInv, HoldsTx, Free, Procs

\* With nobody sending, only answers to late types are outstanding.
LEMMA AllLate ==
    ASSUME AnswerInv, WireOK, \A p \in Procs : proc[p].at # "wait", done \in [Types -> Nat]
    PROVE  /\ \A i \in DOMAIN wire : wire[i].type \in seen.late
           /\ \A t \in Types \ seen.late : done[t] = 0
<1>1. \A t : ~Waits(t)
  BY DEF Waits
<1> QED BY <1>1 DEF AnswerInv

\* A step that neither begins nor ends a command.
LEMMA AnswerSame ==
    ASSUME AnswerInv, UNCHANGED <<pend, done>>, wire' = wire \/ wire' = <<>>,
           seen'.late = seen.late, seen'.mixed = seen.mixed,
           \A q \in Procs : \/ proc'[q] = proc[q]
                            \/ proc[q].at \notin Sending /\ proc'[q].at \notin Sending
    PROVE  AnswerInv'
<1>1. \A q \in Procs : proc[q].at \in Sending \/ proc'[q].at \in Sending
        => proc'[q].at = proc[q].at /\ TypeOf(q)' = TypeOf(q)
  BY DEF TypeOf
<1>2. \A t : Waits(t) => Waits(t)'
  BY <1>1 DEF Waits, Sending
<1>3. \A q \in Procs : proc'[q].at = "got" => proc[q].at = "got" /\ TypeOf(q)' = TypeOf(q)
  BY <1>1 DEF Sending
<1>4. \A i \in DOMAIN wire' : i \in DOMAIN wire /\ wire'[i] = wire[i] /\ wire' = wire
  OBVIOUS
<1> QED BY <1>1, <1>2, <1>3, <1>4 DEF AnswerInv

\* A command is sent.
LEMMA AnswerSend ==
    ASSUME Typed, ControlInv, AnswerInv, Free("tx"), NEW p \in Procs, NEW type \in Types, NEW in,
           SendSync(p, type, in), TypeOf(p)' = type, UNCHANGED <<done, seen>>
    PROVE  AnswerInv'
<1> DEFINE old == [i \in DOMAIN wire |-> [wire[i] EXCEPT !.own = FALSE]]
           new == [type |-> type, own |-> TRUE]
<1>0. WireOK /\ done \in [Types -> Nat] /\ proc \in [Procs -> ProcRec] /\ PendOK
  BY DEF Typed, PlainOK, ProcsOK
<1>1. \A q \in Procs : proc[q].at \notin Sending
  BY OneSends
<1>2. /\ \A i \in DOMAIN wire : wire[i].type \in seen.late
      /\ \A t \in Types \ seen.late : done[t] = 0
  BY <1>0, <1>1, AllLate DEF Sending
<1>3. \A q \in Procs : q # p => proc'[q] = proc[q]
  BY <1>0 DEF SendSync
<1>4. proc'[p].at = IF chan THEN "wait" ELSE "unsent"
  BY <1>0 DEF SendSync, ProcRec
<1>5. \A q \in Procs : proc'[q].at \in Sending => q = p
  BY <1>1, <1>3
<1>6. pend'.type = type
  BY <1>0 DEF SendSync, PendOK
<1>7. \A q \in Procs : proc'[q].at # "got"
  BY <1>4, <1>5 DEF Sending
<1>8. CASE ~chan
  <2>1. wire' = wire
    BY <1>8 DEF SendSync
  <2> QED BY <1>2, <1>5, <1>6, <1>7, <2>1 DEF AnswerInv
<1>9. CASE chan
  <2>1. wire' = Append(old, new)
    BY <1>9 DEF SendSync
  <2>2. /\ Len(wire) \in Nat
        /\ DOMAIN wire = 1..Len(wire)
        /\ \A i \in DOMAIN wire : wire[i] \in Msg
    BY <1>0, WireElements
  <2>3. \A i \in DOMAIN wire : old[i].type = wire[i].type /\ old[i].own = FALSE /\ old[i] \in Msg
    BY <2>2 DEF Msg
  <2>4. old \in Seq(Msg) /\ Len(old) = Len(wire)
    <3> HIDE DEF old
    <3>1. old = [i \in 1..Len(wire) |-> old[i]]
      BY <2>2 DEF old
    <3> QED BY <2>2, <2>3, <3>1
  <2>5. new.type = type /\ new.own = TRUE /\ new \in Msg
    BY DEF Msg
  <2> HIDE DEF old, new
  <2>6. /\ Len(wire') = Len(wire) + 1
        /\ DOMAIN wire' = 1..(Len(wire) + 1)
        /\ wire'[Len(wire) + 1] = new
        /\ \A i \in DOMAIN wire : wire'[i] = old[i]
    BY <2>1, <2>2, <2>4, <2>5
  <2>7. \A i \in DOMAIN wire' : \/ i = Len(wire') /\ wire'[i].type = type /\ wire'[i].own
                                \/ wire'[i].own = FALSE /\ wire'[i].type \in seen.late
    BY <1>2, <2>2, <2>3, <2>5, <2>6
  <2>8. Waits(type)'
    BY <1>4, <1>9 DEF Waits
  <2> QED BY <1>2, <1>5, <1>6, <1>7, <2>7, <2>8 DEF AnswerInv
<1> QED BY <1>8, <1>9

\* A command ends: the answer that was read is its own.
LEMMA AnswerReturned ==
    ASSUME Typed, ControlInv, AnswerInv, NEW p \in Procs, NEW in, NEW types, Returned(p, in, types),
           proc'[p].at \notin Sending, \A q \in Procs \ {p} : proc'[q] = proc[q]
    PROVE  AnswerInv'
<1>0. WireOK /\ done \in [Types -> Nat] /\ SeenOK
  BY DEF Typed, PlainOK
<1>1. proc[p].at \in {"got", "expired", "unsent"}
  BY DEF Returned
<1>2. \A q \in Procs : q # p => proc[q].at \notin Sending
  BY <1>1, OneSends DEF Sending
<1>3. /\ \A i \in DOMAIN wire : wire[i].type \in seen.late
      /\ \A t \in Types \ seen.late : done[t] = 0
  <2>1. \A q \in Procs : proc[q].at # "wait"
    BY <1>1, <1>2 DEF Sending
  <2> QED BY <1>0, <2>1, AllLate
<1>4. \A q \in Procs : proc'[q].at \notin Sending
  BY <1>2
<1>5. \A q \in Procs : proc'[q].at # "got"
  BY <1>4 DEF Sending
<1>6. ~seen.mixed /\ (proc[p].at = "got" /\ TypeOf(p) \notin seen.late => pend.own)
  BY DEF AnswerInv
<1>7. seen'.late = seen.late /\ ~seen'.mixed
  <2>1. ~(seen.mixed \/ (proc[p].at = "got" /\ ~pend.own /\ TypeOf(p) \notin seen.late))
    BY <1>6
  <2> QED BY <1>0, <2>1 DEF Returned, SeenOK
<1>8. wire' = wire /\ done' = done
  BY DEF Returned
<1> QED BY <1>3, <1>4, <1>5, <1>7, <1>8 DEF AnswerInv

LEMMA AnswerCompleted ==
    ASSUME Typed, ControlInv, AnswerInv, NEW p \in Procs, Completed(p)
    PROVE  AnswerInv'
<1> DEFINE t0 == TypeOf(p)
<1>0. WireOK /\ done \in [Types -> Nat] /\ proc \in [Procs -> ProcRec] /\ t0 \in Types
  BY TypeOfType DEF Typed, PlainOK, ProcsOK
<1>1. /\ proc[p].at = "wait" /\ done[t0] > 0
      /\ UNCHANGED <<pend, wire, seen>>
      /\ done' = [done EXCEPT ![t0] = @ - 1]
      /\ proc' = [proc EXCEPT ![p].at = "got"]
  BY DEF Completed, Go
<1>2. \A q \in Procs : q # p => proc[q].at \notin Sending
  BY <1>1, OneSends DEF Sending
<1>3. \A t : Waits(t) => t = t0
  BY <1>2 DEF Waits, Sending
<1>4. /\ \A i \in DOMAIN wire : wire[i].type \in seen.late
      /\ \A t \in Types \ seen.late : done'[t] = 0
  <2>1. \A i \in DOMAIN wire : wire[i].type \in seen.late
    BY <1>1, <1>3 DEF AnswerInv
  <2>2. \A t \in Types \ seen.late : done'[t] = 0
    <3> SUFFICES ASSUME NEW t \in Types \ seen.late PROVE done'[t] = 0
      OBVIOUS
    <3>1. done[t] > 0 => t = t0 /\ done[t] = 1
      BY <1>3 DEF AnswerInv
    <3>2. done'[t] = IF t = t0 THEN done[t] - 1 ELSE done[t]
      BY <1>0, <1>1
    <3>3. done[t] \in Nat /\ done[t0] \in Nat
      BY <1>0
    <3> QED BY <1>1, <3>1, <3>2, <3>3
  <2> QED BY <2>1, <2>2
<1>5. t0 \notin seen.late => pend.own
  BY <1>0, <1>1 DEF AnswerInv
<1>6. /\ TypeOf(p)' = t0 /\ proc'[p].at = "got"
      /\ \A q \in Procs : q # p => proc'[q] = proc[q]
  BY <1>0, <1>1 DEF TypeOf, ProcRec
<1>7. pend.type = t0
  BY <1>1 DEF AnswerInv, Sending
<1>8. \A q \in Procs : proc'[q].at \in Sending => q = p
  BY <1>2, <1>6
<1>9. \A q \in Procs : proc'[q].at = "got" => q = p
  BY <1>8 DEF Sending
<1> HIDE DEF t0
<1>10. \A i \in DOMAIN wire : wire[i].own => i = Len(wire)
  BY DEF AnswerInv
<1>11. ~seen.mixed
  BY DEF AnswerInv
<1> QED BY <1>1, <1>4, <1>5, <1>6, <1>7, <1>8, <1>9, <1>10, <1>11 DEF AnswerInv

LEMMA ButLast ==
    ASSUME NEW S, NEW s \in Seq(S), s # <<>>
    PROVE  LET r == SubSeq(s, 1, Len(s) - 1)
           IN  /\ Len(r) = Len(s) - 1 /\ DOMAIN r = 1..(Len(s) - 1)
               /\ \A i \in DOMAIN r : r[i] = s[i]
<1> DEFINE n == Len(s) - 1
           r == SubSeq(s, 1, n)
<1>1. n \in Nat /\ n \in Int /\ \A i \in 1..n : s[i] \in S
  BY EmptySeq, ElementOfSeq
<1>2. r = SubSeq(s, 1, Len(s) - 1) /\ n = Len(s) - 1
  OBVIOUS
<1> HIDE DEF n
<1>3. /\ r \in Seq(S)
      /\ Len(r) = IF 1 <= n THEN n - 1 + 1 ELSE 0
      /\ \A i \in 1 .. n - 1 + 1 : r[i] = s[1 + i - 1]
  BY <1>1, SubSeqProperties
<1> HIDE DEF r
<1>4. Len(r) = n
  BY <1>1, <1>3
<1>5. DOMAIN r = 1..n
  BY <1>3, <1>4, LenProperties
<1>6. \A i \in 1..n : r[i] = s[i]
  BY <1>1, <1>3
<1> QED BY <1>2, <1>4, <1>5, <1>6

LEMMA AnswerTimedOut ==
    ASSUME Typed, ControlInv, AnswerInv, NEW p \in Procs, TimedOut(p)
    PROVE  AnswerInv'
<1> DEFINE t0 == TypeOf(p)
<1>0. WireOK /\ done \in [Types -> Nat] /\ proc \in [Procs -> ProcRec] /\ t0 \in Types /\ SeenOK
  BY TypeOfType DEF Typed, PlainOK, ProcsOK
<1>1. /\ proc[p].at = "wait" /\ done[t0] = 0
      /\ UNCHANGED <<pend, done>>
      /\ proc' = [proc EXCEPT ![p].at = "expired"]
  BY DEF TimedOut, Go
<1>2. \A q \in Procs : q # p => proc[q].at \notin Sending
  BY <1>1, OneSends DEF Sending
<1>3. \A t : Waits(t) => t = t0
  BY <1>2 DEF Waits, Sending
<1>4. \A t \in Types \ seen.late : done[t] = 0
  BY <1>0, <1>1, <1>3 DEF AnswerInv
<1>5. \A i \in DOMAIN wire : wire[i].type \notin seen.late => i = Len(wire) /\ wire[i].own /\ wire[i].type = t0
  BY <1>3 DEF AnswerInv
<1>6. /\ TypeOf(p)' = t0 /\ proc'[p].at = "expired"
      /\ \A q \in Procs : q # p => proc'[q] = proc[q]
  BY <1>0, <1>1 DEF TypeOf, ProcRec
<1>7. pend.type = t0
  BY <1>1 DEF AnswerInv, Sending
<1>8. \A q \in Procs : proc'[q].at \in Sending => q = p
  BY <1>2, <1>6
<1>9. \A q \in Procs : proc'[q].at # "got"
  BY <1>6, <1>8 DEF Sending
<1>10. /\ Len(wire) \in Nat
       /\ DOMAIN wire = 1..Len(wire)
       /\ \A i \in DOMAIN wire : wire[i] \in Msg
  BY <1>0, WireElements
<1>11. (\A i \in DOMAIN wire : wire[i].own => i = Len(wire)) /\ ~seen.mixed
  BY DEF AnswerInv
<1>12. /\ \A i \in DOMAIN wire' : wire'[i].own => i = Len(wire')
       /\ \A i \in DOMAIN wire' : wire'[i].type \in seen'.late
       /\ \A t \in Types \ seen'.late : done[t] = 0
       /\ ~seen'.mixed
  <2>1. CASE wire' = (IF wire # <<>> /\ wire[Len(wire)].own THEN SubSeq(wire, 1, Len(wire) - 1) ELSE wire)
             /\ UNCHANGED seen
    <3>1. CASE wire # <<>> /\ wire[Len(wire)].own
      <4>1. /\ Len(wire') = Len(wire) - 1 /\ DOMAIN wire' = 1..(Len(wire) - 1)
            /\ \A i \in DOMAIN wire' : wire'[i] = wire[i]
        <5>1. wire' = SubSeq(wire, 1, Len(wire) - 1)
          BY <2>1, <3>1
        <5> QED BY <1>0, <3>1, <5>1, ButLast DEF WireOK
      <4>2. \A i \in DOMAIN wire' : i \in DOMAIN wire /\ i # Len(wire)
        BY <1>10, <4>1
      <4> QED BY <1>4, <1>5, <1>11, <2>1, <4>1, <4>2
    <3>2. CASE ~(wire # <<>> /\ wire[Len(wire)].own)
      <4>1. wire' = wire
        BY <2>1, <3>2
      <4>2. \A i \in DOMAIN wire : ~wire[i].own
        BY <1>10, <1>11, <3>2
      <4> QED BY <1>4, <1>5, <1>11, <2>1, <4>1, <4>2
    <3> QED BY <3>1, <3>2
  <2>2. CASE seen' = [seen EXCEPT !.late = @ \cup {t0}] /\ UNCHANGED wire
    <3>1. seen'.late = seen.late \cup {t0} /\ seen'.mixed = seen.mixed
      BY <1>0, <2>2 DEF SeenOK
    <3> HIDE DEF t0
    <3> QED BY <1>4, <1>5, <1>11, <2>2, <3>1
  <2> QED BY <2>1, <2>2 DEF TimedOut
<1> HIDE DEF t0
<1> QED BY <1>1, <1>6, <1>7, <1>8, <1>9, <1>12 DEF AnswerInv

LEMMA AnswerArrives ==
    ASSUME Typed, ControlInv, AnswerInv, CallbackAnswer
    PROVE  AnswerInv'
<1> DEFINE m == Head(wire)
<1>0. WireOK /\ done \in [Types -> Nat] /\ SeenOK
  BY DEF Typed, PlainOK
<1>1. wire # <<>> /\ wire' = Tail(wire) /\ UNCHANGED <<proc, seen>>
  BY DEF CallbackAnswer
<1>2. /\ Len(wire) \in Nat
      /\ DOMAIN wire = 1..Len(wire)
      /\ \A i \in DOMAIN wire : wire[i] \in Msg
  BY <1>0, WireElements
<1>3. /\ 1 \in DOMAIN wire /\ m = wire[1] /\ m.type \in Types
      /\ Len(wire') = Len(wire) - 1 /\ DOMAIN wire' = 1..(Len(wire) - 1)
      /\ \A i \in DOMAIN wire' : i + 1 \in DOMAIN wire /\ wire'[i] = wire[i + 1]
  <2>1. 1 \in DOMAIN wire /\ m = wire[1]
    BY <1>0, <1>1, <1>2 DEF WireOK
  <2>2. Len(wire') = Len(wire) - 1 /\ DOMAIN wire' = 1..(Len(wire) - 1)
    BY <1>0, <1>1, <1>2 DEF WireOK
  <2>3. \A i \in DOMAIN wire' : i + 1 \in DOMAIN wire /\ wire'[i] = wire[i + 1]
    BY <1>0, <1>1, <1>2, <2>2 DEF WireOK
  <2>4. m.type \in Types
    BY <1>2, <2>1 DEF Msg
  <2> QED BY <2>1, <2>2, <2>3, <2>4
<1>4. \/ pend.type # m.type /\ UNCHANGED <<pend, done>>
      \/ /\ pend.type = m.type
         /\ \E ret \in Answers(m.type) : pend' = [type |-> m.type, own |-> m.own, ret |-> ret]
         /\ done' = [done EXCEPT ![m.type] = @ + 1]
  BY DEF CallbackAnswer
<1> HIDE DEF m
<1>5. \A t : Waits(t)' <=> Waits(t)
  BY <1>1 DEF Waits, TypeOf
<1>6. \A q \in Procs : TypeOf(q)' = TypeOf(q)
  BY <1>1 DEF TypeOf
<1>7. \A i \in DOMAIN wire' : wire'[i].own => i = Len(wire')
  BY <1>2, <1>3 DEF AnswerInv
<1>8. \A i \in DOMAIN wire' : wire'[i].type \notin seen.late =>
          wire'[i].own /\ Waits(wire'[i].type) /\ done[wire'[i].type] = 0
  BY <1>3 DEF AnswerInv
<1>9. CASE UNCHANGED <<pend, done>>
  BY <1>1, <1>5, <1>6, <1>7, <1>8, <1>9 DEF AnswerInv
<1>10. CASE /\ pend.type = m.type /\ pend'.type = m.type /\ pend'.own = m.own
            /\ done' = [done EXCEPT ![m.type] = @ + 1]
  <2>1. /\ \A t \in Types : t # m.type => done'[t] = done[t]
        /\ done'[m.type] = done[m.type] + 1
    BY <1>0, <1>3, <1>10
  <2>2. \A p \in Procs : proc[p].at \in Sending => TypeOf(p) = m.type
    BY <1>10 DEF AnswerInv
  <2>3. \A t : Waits(t) => t = m.type
    BY <2>2 DEF Waits, Sending
  <2>4. CASE m.type \in seen.late
    <3>1. \A i \in DOMAIN wire' : wire'[i].type \in seen.late
      BY <1>8, <2>3, <2>4
    <3>2. \A t \in Types \ seen.late : ~(done'[t] > 0)
      BY <2>1, <2>3, <2>4 DEF AnswerInv
    <3>3. \A p \in Procs : proc[p].at = "got" => TypeOf(p) \in seen.late
      BY <2>2, <2>4 DEF Sending
    <3>4. \A p \in Procs : proc[p].at \in Sending => pend'.type = TypeOf(p)
      BY <1>10, <2>2
    <3> QED BY <1>1, <1>6, <1>7, <3>1, <3>2, <3>3, <3>4 DEF AnswerInv
  <2>5. CASE m.type \notin seen.late
    <3>1. m.own /\ Waits(m.type) /\ done[m.type] = 0 /\ Len(wire) = 1
      BY <1>2, <1>3, <2>5 DEF AnswerInv
    <3>2. DOMAIN wire' = {}
      BY <1>3, <3>1
    <3>3. pend'.own
      BY <1>10, <3>1
    <3>4. \A t \in Types \ seen.late : done'[t] > 0 => done'[t] = 1 /\ Waits(t)
      <4> SUFFICES ASSUME NEW t \in Types \ seen.late, done'[t] > 0 PROVE done'[t] = 1 /\ Waits(t)
        OBVIOUS
      <4>1. CASE t = m.type
        <5>1. done'[t] = 0 + 1
          BY <2>1, <3>1, <4>1
        <5>2. Waits(t)
          BY <3>1, <4>1
        <5> QED BY <5>1, <5>2
      <4>2. CASE t # m.type
        BY <2>1, <4>2 DEF AnswerInv
      <4> QED BY <4>1, <4>2
    <3>5. \A p \in Procs : proc[p].at \in Sending => pend'.type = TypeOf(p)
      BY <1>10, <2>2
    <3>6. ~seen.mixed
      BY DEF AnswerInv
    <3> QED BY <1>1, <1>5, <1>6, <3>2, <3>3, <3>4, <3>5, <3>6 DEF AnswerInv
  <2> QED BY <2>4, <2>5
<1> QED BY <1>4, <1>9, <1>10

LEMMA CallerAnswer ==
    ASSUME Typed, ControlInv, AnswerInv, NEW p \in Procs, CallerStep(p) PROVE AnswerInv'
<1> USE DEF Sending
<1>0. proc \in [Procs -> ProcRec]
  BY DEF Typed, ProcsOK
<1>1. ASSUME Return(p) PROVE proc'[p].at \notin Sending /\ \A q \in Procs \ {p} : proc'[q] = proc[q]
  BY <1>0, <1>1 DEF Return, Idle
<1>2. ASSUME NEW at, Go(p, at), at \notin Sending
      PROVE  proc'[p].at \notin Sending /\ \A q \in Procs \ {p} : proc'[q] = proc[q]
  BY <1>0, <1>2 DEF Go, ProcRec
<1>3. ASSUME NEW type, NEW in, SendSync(p, type, in)
      PROVE  proc'[p].in = in /\ proc'[p].op = proc[p].op
  BY <1>0, <1>3 DEF SendSync, ProcRec
<1>4. CASE Completed(p)
  BY <1>4, AnswerCompleted
<1>5. CASE TimedOut(p)
  BY <1>5, AnswerTimedOut
<1>6. CASE Suspend(p)
  <2>1. CASE SendSync(p, "suspend", "main")
    <3>1. TypeOf(p)' = "suspend"
      BY <1>0, <1>3, <1>6, <2>1 DEF Suspend, TypeOf, ControlInv, CallInv
    <3>2. Free("tx") /\ UNCHANGED <<done, seen>>
      BY <1>6 DEF Suspend
    <3> QED BY <2>1, <3>1, <3>2, AnswerSend DEF Types
  <2>2. CASE ~SendSync(p, "suspend", "main")
    <3>1. proc[p].at \notin Sending
      BY <1>6 DEF Suspend
    <3>2. proc'[p].at \notin Sending /\ \A q \in Procs \ {p} : proc'[q] = proc[q]
      BY <1>0, <1>1, <1>2, <1>6, <2>2 DEF Suspend, ProcRec
    <3>3. UNCHANGED <<pend, done, wire, seen>>
      BY <1>6, <2>2 DEF Suspend
    <3> QED BY <3>1, <3>2, <3>3, AnswerSame
  <2> QED BY <2>1, <2>2
<1>7. CASE Suspended(p)
  <2>1. Returned(p, "main", {"suspend"})
    BY <1>7 DEF Suspended
  <2>2. proc'[p].at \notin Sending /\ \A q \in Procs \ {p} : proc'[q] = proc[q]
    BY <1>0, <1>1, <1>2, <1>7 DEF Suspended, ProcRec
  <2> QED BY <2>1, <2>2, AnswerReturned
<1>8. CASE SendHfiQueue(p)
  <2>1. CASE SendSync(p, "queue", "main")
    <3>1. TypeOf(p)' = "queue"
      BY <1>0, <1>3, <1>8, <2>1 DEF SendHfiQueue, TypeOf, ControlInv, CallInv
    <3>2. Free("tx") /\ UNCHANGED <<done, seen>>
      BY <1>8 DEF SendHfiQueue
    <3> QED BY <2>1, <3>1, <3>2, AnswerSend DEF Types
  <2>2. CASE ~SendSync(p, "queue", "main")
    <3>1. proc[p].at \notin Sending
      BY <1>8 DEF SendHfiQueue
    <3>2. proc'[p].at \notin Sending /\ \A q \in Procs \ {p} : proc'[q] = proc[q]
      BY <1>0, <1>1, <1>2, <1>8, <2>2 DEF SendHfiQueue, ProcRec
    <3>3. UNCHANGED <<pend, done, wire, seen>>
      BY <1>8, <2>2 DEF SendHfiQueue
    <3> QED BY <3>1, <3>2, <3>3, AnswerSame
  <2> QED BY <2>1, <2>2
<1>9. CASE HfiQueueSent(p)
  <2>1. Returned(p, "main", {"queue"})
    BY <1>9 DEF HfiQueueSent
  <2>2. proc'[p].at \notin Sending /\ \A q \in Procs \ {p} : proc'[q] = proc[q]
    BY <1>0, <1>1, <1>2, <1>9 DEF HfiQueueSent, ProcRec
  <2> QED BY <2>1, <2>2, AnswerReturned
<1>10. CASE Shutdown(p)
  <2>1. CASE SendSync(p, "shutdown", "shutdown")
    <3>1. TypeOf(p)' = "shutdown"
      BY <1>0, <1>3, <1>10, <2>1 DEF Shutdown, TypeOf, ControlInv, CallInv
    <3>2. Free("tx") /\ UNCHANGED <<done, seen>>
      BY <1>10 DEF Shutdown
    <3> QED BY <2>1, <3>1, <3>2, AnswerSend DEF Types
  <2>2. CASE ~SendSync(p, "shutdown", "shutdown")
    <3>1. proc[p].at \notin Sending
      BY <1>10 DEF Shutdown
    <3>2. proc'[p].at \notin Sending /\ \A q \in Procs \ {p} : proc'[q] = proc[q]
      BY <1>0, <1>1, <1>2, <1>10, <2>2 DEF Shutdown, ProcRec
    <3>3. UNCHANGED <<pend, done, wire, seen>>
      BY <1>10, <2>2 DEF Shutdown
    <3> QED BY <3>1, <3>2, <3>3, AnswerSame
  <2> QED BY <2>1, <2>2
<1>11. CASE ShutdownSent(p)
  <2>1. Returned(p, "shutdown", {"shutdown"})
    BY <1>11 DEF ShutdownSent
  <2>2. proc'[p].at \notin Sending /\ \A q \in Procs \ {p} : proc'[q] = proc[q]
    BY <1>0, <1>1, <1>2, <1>11 DEF ShutdownSent, ProcRec
  <2> QED BY <2>1, <2>2, AnswerReturned
<1>12. CASE RemoveSessions(p)
  <2>1. proc[p].at \notin Sending
    BY <1>12 DEF RemoveSessions
  <2>2. proc'[p].at \notin Sending /\ \A q \in Procs \ {p} : proc'[q] = proc[q]
    BY <1>0, <1>1, <1>2, <1>12 DEF RemoveSessions, ProcRec
  <2> QED BY <1>12, <2>1, <2>2, AnswerSame DEF RemoveSessions
<1>13. CASE Resend(p)
  <2>1. CASE SendSync(p, "queue", "resend")
    <3>1. TypeOf(p)' = "queue"
      BY <1>0, <1>3, <1>13, <2>1 DEF Resend, TypeOf, ControlInv, CallInv
    <3>2. Free("tx") /\ UNCHANGED <<done, seen>>
      BY <1>13 DEF Resend
    <3> QED BY <2>1, <3>1, <3>2, AnswerSend DEF Types
  <2>2. CASE ~SendSync(p, "queue", "resend")
    <3>1. proc[p].at \notin Sending
      BY <1>13 DEF Resend
    <3>2. proc'[p].at \notin Sending /\ \A q \in Procs \ {p} : proc'[q] = proc[q]
      BY <1>0, <1>1, <1>2, <1>13, <2>2 DEF Resend, ProcRec
    <3>3. UNCHANGED <<pend, done, wire, seen>>
      BY <1>13, <2>2 DEF Resend
    <3> QED BY <3>1, <3>2, <3>3, AnswerSame
  <2> QED BY <2>1, <2>2
<1>14. CASE Resent(p)
  <2>1. Returned(p, "resend", {"queue"})
    BY <1>14 DEF Resent
  <2>2. proc'[p].at \notin Sending /\ \A q \in Procs \ {p} : proc'[q] = proc[q]
    BY <1>0, <1>1, <1>2, <1>14 DEF Resent, ProcRec
  <2> QED BY <2>1, <2>2, AnswerReturned
<1>15. CASE Invalidate(p)
  <2>1. proc[p].at \notin Sending
    BY <1>15 DEF Invalidate
  <2>2. proc'[p].at \notin Sending /\ \A q \in Procs \ {p} : proc'[q] = proc[q]
    BY <1>0, <1>1, <1>2, <1>15 DEF Invalidate, ProcRec
  <2> QED BY <1>15, <2>1, <2>2, AnswerSame DEF Invalidate
<1>16. CASE Reinitialised(p)
  <2>1. CASE SendSync(p, "suspend", "main")
    <3>0. proc[p].op = "collapse"
      <4>1. ~Return(p)
        BY <1>0, <2>1 DEF Return, Idle, SendSync, ProcRec
      <4> QED BY <1>16, <4>1 DEF Reinitialised
    <3>1. TypeOf(p)' = "suspend"
      BY <1>0, <1>3, <1>16, <2>1, <3>0 DEF Reinitialised, TypeOf, ControlInv, CallInv
    <3>2. Free("tx") /\ UNCHANGED <<done, seen>>
      BY <1>16 DEF Reinitialised
    <3> QED BY <2>1, <3>1, <3>2, AnswerSend DEF Types
  <2>2. CASE ~SendSync(p, "suspend", "main")
    <3>1. proc[p].at \notin Sending
      BY <1>16 DEF Reinitialised
    <3>2. proc'[p].at \notin Sending /\ \A q \in Procs \ {p} : proc'[q] = proc[q]
      BY <1>0, <1>1, <1>2, <1>16, <2>2 DEF Reinitialised, ProcRec
    <3>3. UNCHANGED <<pend, done, wire, seen>>
      BY <1>16, <2>2 DEF Reinitialised
    <3> QED BY <3>1, <3>2, <3>3, AnswerSame
  <2> QED BY <2>1, <2>2
<1> QED
  BY <1>4, <1>5, <1>6, <1>7, <1>8, <1>9, <1>10, <1>11, <1>12, <1>13, <1>14, <1>15, <1>16 DEF CallerStep

LEMMA NextAnswer ==
    ASSUME Typed, ControlInv, AnswerInv, [Next]_vars PROVE AnswerInv'
<1> USE DEF Sending
<1>0. proc \in [Procs -> ProcRec] /\ SeenOK
  BY DEF Typed, ProcsOK
<1>1. CASE \E force \in BOOLEAN : Collapse(force)
  <2>1. \A q \in Procs : \/ proc'[q] = proc[q]
                         \/ proc[q].at \notin Sending /\ proc'[q].at \notin Sending
    BY <1>0, <1>1 DEF Collapse, Called, Go, Return, Idle, ProcRec
  <2>2. seen'.late = seen.late /\ seen'.mixed = seen.mixed
    BY <1>0, <1>1 DEF Collapse, Called, SeenOK
  <2> QED BY <1>1, <2>1, <2>2, AnswerSame DEF Collapse
<1>2. CASE Release
  <2>1. \A q \in Procs : \/ proc'[q] = proc[q]
                         \/ proc[q].at \notin Sending /\ proc'[q].at \notin Sending
    BY <1>0, <1>2 DEF Release, Called, Go, Return, Idle, ProcRec
  <2>2. seen'.late = seen.late /\ seen'.mixed = seen.mixed
    BY <1>0, <1>2 DEF Release, Called, SeenOK
  <2> QED BY <1>2, <2>1, <2>2, AnswerSame DEF Release
<1>3. CASE CoreInit
  <2>1. \A q \in Procs : \/ proc'[q] = proc[q]
                         \/ proc[q].at \notin Sending /\ proc'[q].at \notin Sending
    BY <1>0, <1>3 DEF CoreInit, Called, Go, Return, Idle, ProcRec
  <2>2. seen'.late = seen.late /\ seen'.mixed = seen.mixed
    BY <1>0, <1>3 DEF CoreInit, Called, SeenOK
  <2> QED BY <1>3, <2>1, <2>2, AnswerSame DEF CoreInit
<1>4. CASE \E c \in Commands : CallbackCommand(c)
  <2>1. \A q \in Procs : \/ proc'[q] = proc[q]
                         \/ proc[q].at \notin Sending /\ proc'[q].at \notin Sending
    BY <1>0, <1>4 DEF CallbackCommand, Go, Return, Idle, ProcRec
  <2>2. seen'.late = seen.late /\ seen'.mixed = seen.mixed
    BY <1>0, <1>4 DEF CallbackCommand, SeenOK
  <2> QED BY <1>4, <2>1, <2>2, AnswerSame DEF CallbackCommand
<1>5. CASE RpmsgProbe
  <2>1. \A q \in Procs : \/ proc'[q] = proc[q]
                         \/ proc[q].at \notin Sending /\ proc'[q].at \notin Sending
    BY <1>0, <1>5 DEF RpmsgProbe, Go, Return, Idle, ProcRec
  <2>2. seen'.late = seen.late /\ seen'.mixed = seen.mixed
    BY <1>0, <1>5 DEF RpmsgProbe, SeenOK
  <2> QED BY <1>5, <2>1, <2>2, AnswerSame DEF RpmsgProbe
<1>6. CASE DspDown
  <2>1. \A q \in Procs : \/ proc'[q] = proc[q]
                         \/ proc[q].at \notin Sending /\ proc'[q].at \notin Sending
    BY <1>0, <1>6 DEF DspDown, Go, Return, Idle, ProcRec
  <2>2. seen'.late = seen.late /\ seen'.mixed = seen.mixed
    BY <1>0, <1>6 DEF DspDown, SeenOK
  <2> QED BY <1>6, <2>1, <2>2, AnswerSame DEF DspDown
<1>7. CASE RpmsgRemove
  <2>1. \A q \in Procs : \/ proc'[q] = proc[q]
                         \/ proc[q].at \notin Sending /\ proc'[q].at \notin Sending
    BY <1>0, <1>7 DEF RpmsgRemove, Go, Return, Idle, ProcRec
  <2>2. seen'.late = seen.late /\ seen'.mixed = seen.mixed
    BY <1>0, <1>7 DEF RpmsgRemove, SeenOK
  <2> QED BY <1>7, <2>1, <2>2, AnswerSame DEF RpmsgRemove
<1>8. CASE RpmsgRemoved
  <2>1. \A q \in Procs : \/ proc'[q] = proc[q]
                         \/ proc[q].at \notin Sending /\ proc'[q].at \notin Sending
    BY <1>0, <1>8 DEF RpmsgRemoved, Go, Return, Idle, ProcRec
  <2>2. seen'.late = seen.late /\ seen'.mixed = seen.mixed
    BY <1>0, <1>8 DEF RpmsgRemoved, SeenOK
  <2> QED BY <1>8, <2>1, <2>2, AnswerSame DEF RpmsgRemoved
<1>9. CASE ThreadWakes
  <2>1. \A q \in Procs : \/ proc'[q] = proc[q]
                         \/ proc[q].at \notin Sending /\ proc'[q].at \notin Sending
    BY <1>0, <1>9 DEF ThreadWakes, Go, Return, Idle, ProcRec
  <2>2. seen'.late = seen.late /\ seen'.mixed = seen.mixed
    BY <1>0, <1>9 DEF ThreadWakes, SeenOK
  <2> QED BY <1>9, <2>1, <2>2, AnswerSame DEF ThreadWakes
<1>10. CASE ThreadSendsQueue
  <2>1. \A q \in Procs : \/ proc'[q] = proc[q]
                         \/ proc[q].at \notin Sending /\ proc'[q].at \notin Sending
    BY <1>0, <1>10 DEF ThreadSendsQueue, Go, Return, Idle, ProcRec
  <2>2. seen'.late = seen.late /\ seen'.mixed = seen.mixed
    BY <1>0, <1>10 DEF ThreadSendsQueue, SeenOK
  <2> QED BY <1>10, <2>1, <2>2, AnswerSame DEF ThreadSendsQueue
<1>11. CASE ThreadServes
  <2>1. \A q \in Procs : \/ proc'[q] = proc[q]
                         \/ proc[q].at \notin Sending /\ proc'[q].at \notin Sending
    BY <1>0, <1>11 DEF ThreadServes, Go, Return, Idle, ProcRec
  <2>2. seen'.late = seen.late /\ seen'.mixed = seen.mixed
    BY <1>0, <1>11 DEF ThreadServes, SeenOK
  <2> QED BY <1>11, <2>1, <2>2, AnswerSame DEF ThreadServes
<1>12. CASE PowerOn
  <2>1. \A q \in Procs : \/ proc'[q] = proc[q]
                         \/ proc[q].at \notin Sending /\ proc'[q].at \notin Sending
    BY <1>0, <1>12 DEF PowerOn, Go, Return, Idle, ProcRec
  <2>2. seen'.late = seen.late /\ seen'.mixed = seen.mixed
    BY <1>0, <1>12 DEF PowerOn, SeenOK
  <2> QED BY <1>12, <2>1, <2>2, AnswerSame DEF PowerOn
<1>13. CASE PowerOnResume
  <2>1. \A q \in Procs : \/ proc'[q] = proc[q]
                         \/ proc[q].at \notin Sending /\ proc'[q].at \notin Sending
    BY <1>0, <1>13 DEF PowerOnResume, Go, Return, Idle, ProcRec
  <2>2. seen'.late = seen.late /\ seen'.mixed = seen.mixed
    BY <1>0, <1>13 DEF PowerOnResume, SeenOK
  <2> QED BY <1>13, <2>1, <2>2, AnswerSame DEF PowerOnResume
<1>14. CASE SessionCommand
  <2>1. \A q \in Procs : \/ proc'[q] = proc[q]
                         \/ proc[q].at \notin Sending /\ proc'[q].at \notin Sending
    BY <1>0, <1>14 DEF SessionCommand, Go, Return, Idle, ProcRec
  <2>2. seen'.late = seen.late /\ seen'.mixed = seen.mixed
    BY <1>0, <1>14 DEF SessionCommand, SeenOK
  <2> QED BY <1>14, <2>1, <2>2, AnswerSame DEF SessionCommand
<1>15. CASE ThreadAnswers
  <2>1. \A q \in Procs : \/ proc'[q] = proc[q]
                         \/ proc[q].at \notin Sending /\ proc'[q].at \notin Sending
    BY <1>0, <1>15 DEF ThreadAnswers, Go, Return, Idle, ProcRec
  <2>2. seen'.late = seen.late /\ seen'.mixed = seen.mixed
    BY <1>0, <1>15 DEF ThreadAnswers, SeenOK
  <2> QED BY <1>15, <2>1, <2>2, AnswerSame DEF ThreadAnswers
<1>16. CASE CallbackAnswer
  BY <1>16, AnswerArrives
<1>17. CASE \E p \in Procs : CallerStep(p)
  BY <1>17, CallerAnswer
<1>18. CASE UNCHANGED vars
  BY <1>18, AnswerSame DEF vars
<1> QED
  BY <1>1, <1>2, <1>3, <1>4, <1>5, <1>6, <1>7, <1>8, <1>9, <1>10, <1>11, <1>12, <1>13, <1>14, <1>15, <1>16, <1>17, <1>18 DEF Next, ThreadStep

-----------------------------------------------------------------------------
\* Everything an induction needs.
LinkInv == Typed /\ ControlInv /\ MemoryInv /\ AnswerInv

\* The link to the DSP keeps its inductive invariant, whatever the calls, commands,
\* answers and losses of the channel, and whatever their number.
THEOREM LinkInvariant == Spec => []LinkInv
<1>1. Init => LinkInv
  BY InitTyped, InitControl, InitMemory, InitAnswer DEF LinkInv
<1>2. LinkInv /\ [Next]_vars => LinkInv'
  BY NextTyped, NextControl, NextMemory, NextAnswer DEF LinkInv
<1> QED
  BY <1>1, <1>2, PTL DEF Spec

\* The variables keep their types, the completion of the thread its bound included.
THEOREM LinkTypes == Spec => []TypeOK
<1>1. LinkInv => TypeOK
  BY TypedTypeOK DEF LinkInv
<1> QED
  BY <1>1, LinkInvariant, PTL

\* The locks of msm_cvp_dsp.c and device->lock are waited for in a cycle only with
\* POWERON under tx_lock, or with a session closed by a reinitialisation under
\* device->lock.
THEOREM KnownCyclesOnly == Spec => []OnlyKnownCycles
<1>1. LinkInv => OnlyKnownCycles
  BY ControlCycles DEF LinkInv
<1> QED
  BY <1>1, LinkInvariant, PTL

\* Memory assigned to a DSP that is gone or was given up is taken back.
THEOREM MemoryTakenBack == Spec => []MemoryBack
<1>1. LinkInv => MemoryBack
  BY MemoryIsBack DEF LinkInv
<1> QED
  BY <1>1, LinkInvariant, PTL

\* cvp_dsp_send_cmd_sync returns the answer to its own command, unless an earlier
\* command of the type was answered late.
THEOREM AnswersOwn == Spec => []OwnAnswer
<1>1. LinkInv => OwnAnswer
  BY DEF LinkInv, AnswerInv, OwnAnswer
<1> QED
  BY <1>1, LinkInvariant, PTL
=============================================================================
