------------------------- MODULE CvpInstMem_proofs -------------------------
(***************************************************************************)
(* More proofs about CvpInst, for any number of instances and threads: the *)
(* reference count of an instance is exact, neither an instance nor a      *)
(* session is used after it was freed, and an instance that is open has a  *)
(* session the device knows.                                               *)
(***************************************************************************)
EXTENDS CvpInst_proofs, FiniteSetTheorems

(* The threads that have a reference on i besides the one of the owner. *)
Holders(i) == {t \in Threads : Holds(t, i)}

(* KrefExact for one instance, with what makes Cardinality meaningful. *)
KrefInv(i) ==
    /\ IsFiniteSet(Holders(i))
    /\ lost[i] \in Nat
    /\ kref[i] = (IF OwnerHolds(i) THEN 1 ELSE 0)
                 + Cardinality(Holders(i)) + lost[i]

(* The owner of an instance: the instance exists from its allocation to    *)
(* the kfree at the end of close, and while it is destroyed there are no   *)
(* references.                                                             *)
OwnerInv(i) ==
    /\ job[i].inst = i
    /\ mem[i] \in {"none", "live", "freed"}
    /\ mem[i] = "none" <=> pc[i] \in {"none", "rejected"}
    /\ mem[i] = "freed" => pc[i] = "closed"
    /\ mem[i] # "live" => kref[i] = 0
    /\ pc[i] \in {"destroy", "free"} => kref[i] = 0
    /\ pc[i] = "free" => i \notin instances

(* An ioctl keeps the file of its instance open, so that it never is the   *)
(* one to drop the last reference.                                         *)
UserInv(u) ==
    IF pc[u] = "idle" THEN job[u].inst = u
    ELSE /\ pc[job[u].inst] = "opened"
         /\ pc[u] \notin {"signal", "put", "destroy", "free"}

(* The interrupt handler drops the last reference only if close is over.   *)
IrqInv ==
    LET i == job["irq"].inst
    IN  /\ pc["irq"] \in {"idle", "get", "signal", "put", "destroy", "free"}
        /\ pc["irq"] # "idle" => mem[i] # "none"
        /\ pc["irq"] \in {"destroy", "free"}
             => mem[i] = "live" /\ pc[i] = "closed" /\ kref[i] = 0
        /\ pc["irq"] = "free" => i \notin instances
        /\ pc["irq"] \in {"get", "signal"} => job["irq"].why \in {"init", "end"}

(* The list of instances, and the walk of handle_sys_error over it. *)
ListInv ==
    /\ instances \subseteq Insts
    /\ \A i \in instances : mem[i] = "live"
    /\ todo \subseteq instances
    /\ todo = {} \/ Restarting

(* The labels at which the owner has no session: it has not created one,   *)
(* or close has cleaned it.                                                *)
NoSession == {"none", "rejected", "add", "put", "destroy", "free", "closed"}

SessionInv(i) ==
    /\ session[i] => obj[i].mem = "live" /\ pc[i] \notin NoSession
    /\ obj[i].listed => session[i] /\ obj[i].device

(* At the end of a handler the state machine knows which one comes next. *)
NextInv == \A t \in Threads : pc[t] = "check" => job[t].next # "none"

MInv == /\ NextInv
        /\ \A i \in Insts : KrefInv(i)
        /\ \A i \in Insts : OwnerInv(i)
        /\ \A u \in Users : UserInv(u)
        /\ IrqInv
        /\ ListInv
        /\ \A i \in Insts : SessionInv(i)

-----------------------------------------------------------------------------
(* What a step does to the control of its thread t: it goes to label, and  *)
(* works on k from then on.  At the end of a handler it knows which one    *)
(* comes next.                                                             *)
Moves(t, label, k) ==
    /\ pc' = [pc EXCEPT ![t] = label]
    /\ job'[t].inst = k
    /\ label = "check" => job'[t].next # "none"
    /\ \A u \in Threads \ {t} : job'[u] = job[u]

(* A move: a step that goes on with the same arguments. *)
LEMMA GotoMoves ==
    ASSUME NEW t \in Threads, NEW label, Goto(t, label), label # "check",
           UNCHANGED job
    PROVE  Moves(t, label, job[t].inst)
BY DEF Goto, Moves

(* A move: the end of a handler. *)
LEMMA ThenMoves ==
    ASSUME Control, NEW t \in Threads, NEW rc, NEW next, Then(t, rc, next),
           next # "none"
    PROVE  Moves(t, "check", job[t].inst)
<1>1. job'[t].inst = job[t].inst /\ job'[t].next = next
  BY DEF Then, Control, Job
<1>2. \A u \in Threads \ {t} : job'[u] = job[u]
  BY DEF Then, Control
<1> QED BY <1>1, <1>2 DEF Then, Goto, Moves

(* A move: the return of a call. *)
LEMMA ReturnMoves ==
    ASSUME Control, NEW t \in Threads, NEW i, NEW label, label # "check",
           Return(t, i, label)
    PROVE  Moves(t, label, IF label = "idle" THEN t ELSE i)
<1>1. job'[t].inst = IF label = "idle" THEN t ELSE i
  BY DEF Return, Control, NoJob
<1>2. \A u \in Threads \ {t} : job'[u] = job[u]
  BY DEF Return, Control
<1> QED BY <1>1, <1>2 DEF Return, Goto, Moves

(* A move: the call of msm_cvp_comm_try_state. *)
LEMMA CallTryMoves ==
    ASSUME Control, NEW t \in Threads, NEW i, NEW why, CallTry(t, i, why)
    PROVE  Moves(t, "try", i)
<1>1. job'[t].inst = i
  BY DEF CallTry, Control, NoJob
<1>2. \A u \in Threads \ {t} : job'[u] = job[u]
  BY DEF CallTry, Control
<1> QED BY <1>1, <1>2 DEF CallTry, Goto, Moves

(* A move: the return of handle_sys_error. *)
LEMMA SysErrorReturnMoves ==
    ASSUME Control, NEW t \in Threads, SysErrorReturn(t)
    PROVE  \E label \in {"idle", "unlock"} :
             /\ label = "idle" <=> t = "wdog"
             /\ Moves(t, label, job[t].inst)
<1>1. job'[t].inst = job[t].inst
  BY DEF SysErrorReturn, Control, Job
<1>2. \A u \in Threads \ {t} : job'[u] = job[u]
  BY DEF SysErrorReturn, Control
<1> QED BY <1>1, <1>2 DEF SysErrorReturn, Goto, Moves

(* A move in terms of the labels and the instances of the threads. *)
LEMMA MovesPc ==
    ASSUME Control, NEW t \in Threads, NEW label, NEW k, Moves(t, label, k)
    PROVE  \A u \in Threads :
             /\ pc'[u] = IF u = t THEN label ELSE pc[u]
             /\ job'[u].inst = IF u = t THEN k ELSE job[u].inst
             /\ u # t => job'[u] = job[u]
BY DEF Control, Moves

(* It keeps NextInv. *)
LEMMA MovesNext ==
    ASSUME Control, NextInv, NEW t \in Threads, NEW label, NEW k,
           Moves(t, label, k)
    PROVE  NextInv'
<1> SUFFICES \A u \in Threads : pc'[u] = "check" => job'[u].next # "none"
  BY DEF NextInv
<1> TAKE u \in Threads
<1>1. CASE u = t
  <2>1. pc'[t] = label
    BY MovesPc
  <2>2. label = "check" => job'[t].next # "none"
    BY DEF Moves
  <2> QED BY <1>1, <2>1, <2>2
<1>2. CASE u # t
  BY <1>2, MovesPc DEF NextInv
<1> QED BY <1>1, <1>2

(* It changes the holders of an instance by its thread at most. *)
LEMMA MovesHolders ==
    ASSUME Control, NEW t \in Threads, NEW label, NEW k, Moves(t, label, k)
    PROVE  \A i : Holders(i)' \ {t} = Holders(i) \ {t}
BY MovesPc DEF Holders, Holds

(* Holding a reference, as a label of the thread. *)
HolderLabels(t) == IF t \in Insts THEN {"flush"}
                   ELSE {"validate", "use", "signal", "put"}

(* A thread that holds no reference before and after leaves the holders of *)
(* all instances alone.                                                    *)
LEMMA HoldersKept ==
    ASSUME Control, NEW t \in Threads, NEW label, NEW k, Moves(t, label, k),
           pc[t] \notin HolderLabels(t), label \notin HolderLabels(t)
    PROVE  \A i : Holders(i)' = Holders(i)
<1> TAKE i
<1>1. t \notin Holders(i)
  BY DEF Holders, Holds, HolderLabels
<1>2. t \notin Holders(i)'
  BY MovesPc DEF Holders, Holds, HolderLabels
<1> QED BY <1>1, <1>2, MovesHolders

-----------------------------------------------------------------------------
(* The labels that say something about references, or about the existence  *)
(* of the instance.                                                        *)
Marked(t) ==
    IF t \in Insts
    THEN {"none", "rejected", "closed", "destroy", "free", "flush"}
    ELSE {"destroy", "free", "validate", "use", "signal", "put"}

(* An owner or an ioctl goes on with the state machine, or any thread with *)
(* handle_sys_error.  The owner leaves "opened" when no ioctl is under way.*)
Working(t, label, k) ==
    /\ Moves(t, label, k)
    /\ pc[t] \notin Marked(t) /\ label \notin Marked(t)
    /\ \/ t = "wdog"
       \/ /\ pc[t] # "idle"
          /\ pc[t] = "opened" => \A u \in Users : job[u].inst # t
          /\ k = IF label = "idle" THEN t ELSE job[t].inst

(* A step that leaves the list alone keeps ListInv, if its thread is not   *)
(* in handle_sys_error.                                                    *)
LEMMA ListKept ==
    ASSUME Control, ListInv, UNCHANGED <<instances, mem, todo>>,
           NEW t \in Threads, NEW label, NEW k, Moves(t, label, k),
           pc[t] # "invalidate" \/ label = "invalidate"
    PROVE  ListInv'
<1>1. Restarting => Restarting'
  BY MovesPc DEF Restarting
<1> QED BY <1>1 DEF ListInv

(* A step that leaves the sessions alone keeps SessionInv. *)
LEMMA SessionKept ==
    ASSUME Control, \A i \in Insts : SessionInv(i), UNCHANGED <<session, obj>>,
           NEW t \in Threads, NEW label, NEW k, Moves(t, label, k),
           t \notin Insts \/ label \notin NoSession \/ pc[t] \in NoSession
    PROVE  \A i \in Insts : SessionInv(i)'
<1> TAKE i \in Insts
<1>1. i \in Threads
  BY DEF Threads
<1>2. pc[i] \notin NoSession \/ pc'[i] = pc[i] \/ pc[t] \in NoSession \/ label \notin NoSession
  BY <1>1, MovesPc
<1>3. session[i] => pc[i] \notin NoSession /\ pc'[i] \notin NoSession
  BY <1>1, MovesPc DEF SessionInv
<1> QED BY <1>3 DEF SessionInv

(* A step of the state machine that leaves the references alone. *)
LEMMA WorkingKeeps ==
    ASSUME IInv, MInv, UNCHANGED <<mem, kref, lost>>,
           ListInv', \A i \in Insts : SessionInv(i)',
           NEW t \in Threads \ {"irq"}, NEW label, NEW k,
           Working(t, label, k),
           instances' = instances \/ (t \in Insts /\ instances' = instances \cup {t})
    PROVE  MInv'
<1>0. t \in Threads /\ t # "irq" /\ Control /\ Moves(t, label, k)
  BY DEF IInv, Working
<1>a. "wdog" \notin Insts \cup Users /\ Insts \cap Users = {}
  BY ThreadsAssumption
<1>1. \A u \in Threads :
        /\ pc'[u] = IF u = t THEN label ELSE pc[u]
        /\ job'[u].inst = IF u = t THEN k ELSE job[u].inst
        /\ u # t => job'[u] = job[u]
  BY <1>0, MovesPc
<1>2. Insts \subseteq Threads /\ Users \subseteq Threads /\ "irq" \in Threads
  BY DEF Threads
<1>3. ASSUME NEW i \in Insts
      PROVE  OwnerInv(i)'
  BY <1>a, <1>1, <1>2, <1>3 DEF MInv, OwnerInv, Working, Marked
<1>4. ASSUME NEW i \in Insts
      PROVE  KrefInv(i)'
  <2>1. Holders(i)' = Holders(i)
    BY <1>0, HoldersKept DEF Working, Marked, HolderLabels
  <2>2. OwnerHolds(i)' <=> OwnerHolds(i)
    BY <1>1, <1>2 DEF OwnerHolds, Working, Marked
  <2> QED BY <2>1, <2>2 DEF MInv, KrefInv
<1>5. ASSUME NEW u \in Users
      PROVE  UserInv(u)'
  <2>1. pc[u] # "idle" => job[u].inst \in Insts
    BY <1>2, JobType, ThreadsAssumption
  <2>2. CASE u = t
    BY <1>a, <1>1, <1>2, <2>1, <2>2 DEF MInv, UserInv, Working, Marked
  <2>3. CASE u # t
    BY <1>a, <1>1, <1>2, <2>1, <2>3 DEF MInv, UserInv, Working, Marked
  <2> QED BY <2>2, <2>3
<1>6. IrqInv'
  BY <1>a, <1>0, <1>1, <1>2, JobType DEF MInv, IrqInv, Working, Marked
<1>7. NextInv'
  BY <1>0, MovesNext DEF MInv
<1> QED BY <1>3, <1>4, <1>5, <1>6, <1>7 DEF MInv

-----------------------------------------------------------------------------
(* msm_cvp_comm_try_state. *)

(* Every step of it is one of the state machine, and leaves references and *)
(* lists alone.                                                            *)
LEMMA TryWorks ==
    ASSUME IInv, NextInv, NEW t \in Insts \cup Users, Try(t)
    PROVE  /\ \E label, k : Working(t, label, k) /\ label \notin NoSession
           /\ pc[t] # "invalidate"
           /\ UNCHANGED <<instances, mem, kref, lost, todo>>
<1>0. t \in Threads /\ t # "wdog" /\ Control
  BY ThreadsAssumption DEF Threads, IInv
<1>1. /\ pc[t] \notin Marked(t) \cup {"opened", "idle", "invalidate"}
      /\ UNCHANGED <<instances, mem, kref, lost, todo>>
  BY DEF Try, TryState, HandlerCheck, InitCore, CheckCoreInit, CoreInitDone,
         CoreInitTimeout, SessionInit, SessionInitWrite, SessionInitDone,
         SessionClose, SessionCloseDone, CloseClean, Uninit, TryUnlock,
         ResultCheck, Marked, refVars, ssrVars
<1> DEFINE Works ==
      \E label :
        /\ Moves(t, label, IF label = "idle" THEN t ELSE job[t].inst)
        /\ label \notin Marked(t) \cup NoSession
<1>2. SUFFICES Works
  BY <1>1 DEF Working
<1>3. ASSUME NEW label, Goto(t, label), UNCHANGED job,
             label \notin Marked(t) \cup NoSession \cup {"idle", "check"}
      PROVE  Works
  BY <1>0, <1>3, GotoMoves
<1>4. ASSUME NEW rc, NEW next, Then(t, rc, next), next # "none"
      PROVE  Works
  BY <1>0, <1>4, ThenMoves DEF Marked, NoSession
<1>5. ASSUME NEW why, NEW ok, Return(t, job[t].inst, AfterTry(why, ok))
      PROVE  Works
  <2>1. AfterTry(why, ok) \notin Marked(t) \cup NoSession \cup {"check"}
    BY DEF AfterTry, Marked, NoSession
  <2> QED BY <1>0, <1>5, <2>1, ReturnMoves
<1>6. CASE TryState(t)
  <2>1. CASE state[job[t].inst] = INVALID /\ core_state = "UNINIT"
    BY <1>5, <1>6, <2>1 DEF TryState
  <2>2. CASE ~(state[job[t].inst] = INVALID /\ core_state = "UNINIT")
    <3>1. PICK flip : /\ job' = [job EXCEPT ![t].flip = flip]
                      /\ Goto(t, Handler(flip))
      BY <1>6, <2>2 DEF TryState
    <3>2. /\ job'[t].inst = job[t].inst
          /\ \A u \in Threads \ {t} : job'[u] = job[u]
      BY <1>0, <3>1 DEF Control, Job
    <3>3. Handler(flip) \notin Marked(t) \cup NoSession \cup {"idle", "check"}
      BY DEF Handler, Marked, NoSession
    <3> QED BY <3>1, <3>2, <3>3 DEF Goto, Moves
  <2> QED BY <2>1, <2>2
<1>7. CASE HandlerCheck(t)
  <2>1. /\ job'[t].inst = job[t].inst
        /\ \A u \in Threads \ {t} : job'[u] = job[u]
    BY <1>0, <1>7 DEF HandlerCheck, Control, Job
  <2>2. job[t].next \in Nexts \ {"none"}
    BY <1>0, <1>7, JobType DEF Job, HandlerCheck, NextInv
  <2>3. PICK label : /\ Goto(t, label)
                     /\ \/ label = "unlock"
                        \/ label = job[t].next /\ label # "fail"
    BY <1>7 DEF HandlerCheck
  <2>4. label \notin Marked(t) \cup NoSession \cup {"idle", "check"}
    BY <2>2, <2>3 DEF Nexts, Marked, NoSession
  <2> QED BY <2>1, <2>3, <2>4 DEF Goto, Moves
<1>8. CASE InitCore(t)
  BY <1>4, <1>8 DEF InitCore
<1>9. CASE CheckCoreInit(t)
  BY <1>3, <1>4, <1>9 DEF CheckCoreInit, Marked, NoSession
<1>10. CASE CoreInitDone(t)
  BY <1>4, <1>10 DEF CoreInitDone
<1>11. CASE \/ CoreInitTimeout(t) \/ SessionInit(t) \/ CloseClean(t)
            \/ TryUnlock(t)
  BY <1>3, <1>11 DEF CoreInitTimeout, SessionInit, CloseClean, TryUnlock,
     Marked, NoSession
<1>12. CASE SessionInitWrite(t) \/ SessionClose(t) \/ Uninit(t)
  BY <1>4, <1>12 DEF SessionInitWrite, SessionClose, Uninit
<1>13. CASE SessionInitDone(t) \/ SessionCloseDone(t)
  BY <1>4, <1>13 DEF SessionInitDone, SessionCloseDone, WaitForState
<1>14. CASE ResultCheck(t)
  BY <1>5, <1>14 DEF ResultCheck
<1> QED BY <1>6, <1>7, <1>8, <1>9, <1>10, <1>11, <1>12, <1>13, <1>14 DEF Try

(* The session of i is gone, and nothing else has changed.                 *)
LEMMA SessionCleanKeeps ==
    ASSUME TypeOK, Control, \A i \in Insts : SessionInv(i),
           NEW i \in Insts, SessionClean(i),
           NEW t \in Threads, NEW label, NEW k, Moves(t, label, k),
           t = i \/ label \notin NoSession
    PROVE  \A j \in Insts : SessionInv(j)'
<1> TAKE j \in Insts
<1>a. j \in Threads
  BY DEF Threads
<1>b. pc'[j] = IF j = t THEN label ELSE pc[j]
  BY <1>a, MovesPc
<1>0. pc[j] \notin NoSession /\ j # i => pc'[j] \notin NoSession
  BY <1>b
<1>1. CASE j # i
  <2>1. session'[j] = session[j] /\ obj'[j] = obj[j]
    BY <1>1 DEF SessionClean, TypeOK
  <2> QED BY <1>0, <1>1, <2>1 DEF SessionInv
<1>2. CASE j = i
  <2>1. ~session'[i]
    BY DEF SessionClean, TypeOK
  <2>2. CASE session[i] /\ obj[i].device
    <3>1. obj' = [obj EXCEPT ![i] = [NoObj EXCEPT !.mem = "freed"]]
      BY <2>2 DEF SessionClean
    <3>2. ~obj'[i].listed
      BY <3>1 DEF TypeOK, NoObj
    <3> QED BY <1>2, <2>1, <3>2 DEF SessionInv
  <2>3. CASE ~(session[i] /\ obj[i].device)
    <3>1. obj' = obj
      BY <2>3 DEF SessionClean
    <3>2. ~obj[i].listed
      BY <2>3 DEF SessionInv
    <3> QED BY <1>2, <2>1, <3>1, <3>2 DEF SessionInv
  <2> QED BY <2>2, <2>3
<1> QED BY <1>1, <1>2

(* iris_hfi_session_init: the session and its entry in the device list     *)
(* come and go together.                                                   *)
LEMMA SessionInitKeeps ==
    ASSUME IInv, TypeOK, MInv, NEW t \in Insts \cup Users,
           SessionInit(t) \/ SessionInitWrite(t)
    PROVE  \A j \in Insts : SessionInv(j)'
<1>0. /\ t \in Threads /\ t # "wdog" /\ Control
      /\ pc[t] \in {"open_session", "open_write"}
  BY ThreadsAssumption
     DEF Threads, IInv, SessionInit, SessionInitWrite
<1>1. job[t].inst \in Insts
  BY <1>0, JobType
<1>2. PICK label \in {"open_write", "check"} :
         Goto(t, label)
  BY DEF SessionInit, SessionInitWrite, Then
<1>3. \A u \in Threads : pc'[u] = IF u = t THEN label ELSE pc[u]
  BY <1>0, <1>2 DEF Goto, Control
<1>4. \A j \in Insts : pc[j] \notin NoSession => pc'[j] \notin NoSession
  BY <1>3 DEF Threads, NoSession
<1>5. pc'[job[t].inst] \notin NoSession
  <2>1. CASE t \in Users
    BY <1>0, <1>1, <1>3, <2>1 DEF MInv, UserInv, NoSession, Threads
  <2>2. CASE t \in Insts
    BY <1>0, <1>3, <2>2 DEF MInv, OwnerInv, NoSession
  <2> QED BY <2>1, <2>2
<1>6. CASE SessionInit(t)
  <2>1. \A j \in Insts : j # job[t].inst =>
           session'[j] = session[j] /\ obj'[j] = obj[j]
    BY <1>6 DEF SessionInit, TypeOK
  <2>2. obj'[job[t].inst] = [mem |-> "live", device |-> TRUE,
                             listed |-> TRUE, idr |-> TRUE]
    BY <1>1, <1>6 DEF SessionInit, TypeOK
  <2>3. session'[job[t].inst] = TRUE
    BY <1>1, <1>6 DEF SessionInit, TypeOK
  <2> QED BY <1>4, <1>5, <2>1, <2>2, <2>3 DEF MInv, SessionInv
<1>7. CASE SessionInitWrite(t) /\ UNCHANGED <<session, obj>>
  BY <1>4, <1>7 DEF MInv, SessionInv
<1>8. CASE SessionInitWrite(t) /\ ~UNCHANGED <<session, obj>>
  <2>0. /\ obj' = [obj EXCEPT ![job[t].inst] = [NoObj EXCEPT !.mem = "freed"]]
        /\ session' = [session EXCEPT ![job[t].inst] = FALSE]
    BY <1>8 DEF SessionInitWrite
  <2>1. \A j \in Insts : j # job[t].inst =>
           session'[j] = session[j] /\ obj'[j] = obj[j]
    BY <2>0 DEF TypeOK
  <2>2. ~obj'[job[t].inst].listed /\ ~session'[job[t].inst]
    BY <1>1, <2>0 DEF TypeOK, NoObj
  <2> QED BY <1>4, <1>5, <2>1, <2>2 DEF MInv, SessionInv
<1> QED BY <1>6, <1>7, <1>8

(* msm_cvp_comm_try_state keeps the invariant. *)
LEMMA TryKeepsMem ==
    ASSUME IInv, TypeOK, MInv, NEW t \in Insts \cup Users, Try(t)
    PROVE  MInv'
<1>0. t \in Threads /\ t # "irq" /\ Control
  BY ThreadsAssumption DEF Threads, IInv
<1>1. PICK label, k : Working(t, label, k) /\ label \notin NoSession
  BY TryWorks DEF MInv
<1>2. pc[t] # "invalidate" /\ UNCHANGED <<instances, mem, kref, lost, todo>>
  BY TryWorks DEF MInv
<1>3. Moves(t, label, k)
  BY <1>1 DEF Working
<1>4. ListInv'
  BY <1>0, <1>2, <1>3, ListKept DEF MInv
<1>5. CASE SessionInit(t) \/ SessionInitWrite(t)
  BY <1>0, <1>1, <1>2, <1>4, <1>5, SessionInitKeeps, WorkingKeeps
<1>6. CASE CloseClean(t)
  <2>1. job[t].inst \in Insts /\ SessionClean(job[t].inst)
    BY <1>0, <1>6, JobType, ThreadsAssumption DEF CloseClean
  <2>2. \A j \in Insts : SessionInv(j)'
    BY <1>0, <1>1, <1>3, <2>1, SessionCleanKeeps DEF MInv
  <2> QED BY <1>0, <1>1, <1>2, <1>4, <2>2, WorkingKeeps
<1>7. CASE ~(SessionInit(t) \/ SessionInitWrite(t) \/ CloseClean(t))
  <2>1. UNCHANGED <<session, obj>>
    BY <1>7 DEF Try, TryState, HandlerCheck, InitCore, CheckCoreInit,
       CoreInitDone, CoreInitTimeout, SessionInitDone, SessionClose,
       SessionCloseDone, Uninit, TryUnlock, ResultCheck
  <2>2. \A j \in Insts : SessionInv(j)'
    BY <1>0, <1>1, <1>3, <2>1, SessionKept DEF MInv
  <2> QED BY <1>0, <1>1, <1>2, <1>4, <2>2, WorkingKeeps
<1> QED BY <1>5, <1>6, <1>7

-----------------------------------------------------------------------------
(* handle_sys_error, by the owner of an instance or the watchdog: the list *)
(* of instances it walks without references cannot change, for core->lock  *)
(* is held.                                                                *)
LEMMA SysErrorKeepsMem ==
    ASSUME IInv, TypeOK, MInv, NEW t \in Insts \cup {"wdog"}, SysError(t)
    PROVE  MInv'
<1>0. t \in Threads /\ t # "irq" /\ Control
  BY ThreadsAssumption DEF Threads, IInv
<1>1. UNCHANGED <<instances, mem, kref, lost>>
  BY DEF SysError, SysErrorBegin, SysErrorInvalidate, SysErrorRelease, refVars
<1>2. ASSUME SysErrorReturn(t), pc[t] \in {"sys_error", "invalidate"}
      PROVE  \E label, k : Working(t, label, k) /\ label \in {"idle", "unlock"}
  <2>1. PICK label \in {"idle", "unlock"} :
           /\ label = "idle" <=> t = "wdog"
           /\ Moves(t, label, job[t].inst)
    BY <1>0, <1>2, SysErrorReturnMoves
  <2> QED BY <1>2, <2>1 DEF Working, Marked
<1>3. CASE SysErrorBegin(t) /\ core_state = "UNINIT"
  <2>1. PICK label, k : Working(t, label, k) /\ label \in {"idle", "unlock"}
    BY <1>2, <1>3 DEF SysErrorBegin
  <2>2. Moves(t, label, k) /\ UNCHANGED <<todo, session, obj>>
    BY <1>3, <2>1 DEF Working, SysErrorBegin
  <2>3. label \notin NoSession /\ pc[t] # "invalidate"
    BY <1>3, <2>1 DEF NoSession, SysErrorBegin
  <2>4. ListInv'
    BY <1>0, <1>1, <2>2, <2>3, ListKept DEF MInv
  <2>5. \A i \in Insts : SessionInv(i)'
    BY <1>0, <2>2, <2>3, SessionKept DEF MInv
  <2> QED BY <1>0, <1>1, <2>1, <2>4, <2>5, WorkingKeeps
<1>4. CASE SysErrorBegin(t) /\ core_state # "UNINIT"
  <2>1. /\ Goto(t, "invalidate") /\ UNCHANGED <<job, session, obj>>
        /\ pc[t] = "sys_error" /\ todo' = instances
    BY <1>4 DEF SysErrorBegin
  <2>2. Moves(t, "invalidate", job[t].inst)
    BY <1>0, <2>1, GotoMoves
  <2>3. Working(t, "invalidate", job[t].inst)
    BY <2>1, <2>2 DEF Working, Marked
  <2>4. Restarting'
    BY <1>0, <2>2, MovesPc DEF Restarting
  <2>5. ListInv'
    BY <1>1, <2>1, <2>4 DEF MInv, ListInv
  <2>6. \A i \in Insts : SessionInv(i)'
    BY <1>0, <2>1, <2>2, SessionKept DEF MInv, NoSession
  <2> QED BY <1>0, <1>1, <2>3, <2>5, <2>6, WorkingKeeps
<1>5. ASSUME NEW i \in Insts, SysErrorInvalidate(t, i)
      PROVE  MInv'
  <2>1. UNCHANGED <<session, obj, pc, job>> /\ todo' = todo \ {i}
    BY <1>5 DEF SysErrorInvalidate
  <2>2. ListInv'
    BY <1>1, <2>1 DEF MInv, ListInv, Restarting
  <2>3. \A j \in Insts : /\ KrefInv(j)' <=> KrefInv(j)
                         /\ OwnerInv(j)' <=> OwnerInv(j)
                         /\ SessionInv(j)' <=> SessionInv(j)
    BY <1>1, <2>1 DEF KrefInv, OwnerInv, SessionInv, Holders, Holds, OwnerHolds
  <2>4. IrqInv' /\ NextInv' /\ \A u \in Users : UserInv(u)'
    BY <1>1, <2>1 DEF MInv, IrqInv, NextInv, UserInv
  <2> QED BY <2>2, <2>3, <2>4 DEF MInv
<1>6. CASE SysErrorRelease(t)
  <2>1. PICK label, k : Working(t, label, k) /\ label \in {"idle", "unlock"}
    BY <1>2, <1>6 DEF SysErrorRelease
  <2>2. Moves(t, label, k) /\ UNCHANGED <<todo, session>> /\ todo = {}
    BY <1>6, <2>1 DEF Working, SysErrorRelease, ssrVars
  <2>3. ListInv'
    BY <1>1, <2>2 DEF MInv, ListInv
  <2>4. \A i \in Insts : pc[i] \notin NoSession => pc'[i] \notin NoSession
    BY <1>0, <2>1, <2>2, MovesPc DEF NoSession, Threads
  <2>5. \A i \in Insts : obj'[i].mem = obj[i].mem /\ ~obj'[i].listed
    BY <1>6 DEF SysErrorRelease, TypeOK
  <2>6. \A i \in Insts : SessionInv(i)'
    BY <2>2, <2>4, <2>5 DEF MInv, SessionInv
  <2> QED BY <1>0, <1>1, <2>1, <2>3, <2>6, WorkingKeeps
<1> QED BY <1>3, <1>4, <1>5, <1>6 DEF SysError

-----------------------------------------------------------------------------
(* References. *)

(* A thread that takes a reference becomes one more holder. *)
LEMMA HoldersAdd ==
    ASSUME Control, NEW t \in Threads, NEW label, NEW i, Moves(t, label, i),
           pc[t] \notin HolderLabels(t), label \in HolderLabels(t),
           IsFiniteSet(Holders(i))
    PROVE  /\ IsFiniteSet(Holders(i)')
           /\ Cardinality(Holders(i)) \in Nat
           /\ Cardinality(Holders(i)') = Cardinality(Holders(i)) + 1
<1>1. t \notin Holders(i)
  BY DEF Holders, Holds, HolderLabels
<1>2. t \in Holders(i)'
  BY MovesPc DEF Holders, Holds, HolderLabels
<1>3. Holders(i)' \ {t} = Holders(i) \ {t}
  BY MovesHolders
<1>4. Holders(i)' = Holders(i) \cup {t}
  BY <1>1, <1>2, <1>3
<1> QED BY <1>1, <1>4, FS_AddElement, FS_CardinalityType

(* A thread that drops its reference, or forgets it, is no holder any more.*)
LEMMA HoldersDrop ==
    ASSUME Control, NEW t \in Threads, NEW label, NEW k, Moves(t, label, k),
           NEW i, pc[t] \in HolderLabels(t), job[t].inst = i,
           label \notin HolderLabels(t), IsFiniteSet(Holders(i))
    PROVE  /\ IsFiniteSet(Holders(i)')
           /\ Cardinality(Holders(i)') \in Nat
           /\ Cardinality(Holders(i)) = Cardinality(Holders(i)') + 1
<1>1. t \in Holders(i)
  BY DEF Holders, Holds, HolderLabels
<1>2. t \notin Holders(i)'
  BY MovesPc DEF Holders, Holds, HolderLabels
<1>3. Holders(i)' \ {t} = Holders(i) \ {t}
  BY MovesHolders
<1>4. Holders(i)' = Holders(i) \ {t}
  BY <1>2, <1>3
<1>5. /\ IsFiniteSet(Holders(i) \ {t})
      /\ Cardinality(Holders(i) \ {t}) = Cardinality(Holders(i)) - 1
  BY <1>1, FS_RemoveElement
<1> QED BY <1>4, <1>5, FS_CardinalityType

(* A step of t on i leaves the references of the other instances alone. *)
LEMMA KrefElsewhere ==
    ASSUME Control, NEW i, NEW t \in Threads, NEW label, NEW k,
           Moves(t, label, k), t \in Insts => t = i,
           pc[t] \in HolderLabels(t) => job[t].inst = i,
           label \in HolderLabels(t) => k = i,
           NEW j \in Insts, j # i, KrefInv(j),
           kref'[j] = kref[j], lost'[j] = lost[j], mem'[j] = mem[j]
    PROVE  KrefInv(j)'
<1>1. t \notin Holders(j)
  BY DEF Holders, Holds, HolderLabels
<1>2. t \notin Holders(j)'
  BY MovesPc DEF Holders, Holds, HolderLabels
<1>3. Holders(j)' = Holders(j)
  BY <1>1, <1>2, MovesHolders
<1>4. j \in Threads /\ j # t
  BY DEF Threads
<1>5. OwnerHolds(j)' <=> OwnerHolds(j)
  BY <1>4, MovesPc DEF OwnerHolds
<1> QED BY <1>3, <1>5 DEF KrefInv

(* cvp_put_inst, in terms of moves. *)
LEMMA PutMoves ==
    ASSUME Control, TypeOK, NEW t \in Threads, NEW i \in Insts, NEW label,
           label # "check", PutInst(t, i, label)
    PROVE  /\ \A j \in Insts \ {i} : kref'[j] = kref[j]
           /\ kref'[i] = kref[i] - 1
           /\ kref[i] = 1 => Moves(t, "destroy", i)
           /\ kref[i] # 1 => Moves(t, label, IF label = "idle" THEN t ELSE i)
BY ReturnMoves DEF PutInst, TypeOK

(* A step of the owner of i that changes its reference. *)
LEMMA OwnerRefKeeps ==
    ASSUME IInv, MInv, NEW i \in Insts, NEW label, Moves(i, label, i),
           UNCHANGED <<instances, lost, session, obj, todo>>,
           \A j \in Insts \ {i} : mem'[j] = mem[j] /\ kref'[j] = kref[j],
           mem'[i] = mem[i] \/ (mem[i] = "none" /\ mem'[i] = "live"),
           pc[i] \in {"none", "cleanup", "flush", "put"},
           label \notin NoSession \/ pc[i] \in NoSession,
           KrefInv(i)', OwnerInv(i)'
    PROVE  MInv'
<1>0. i \in Threads /\ Control
  BY DEF Threads, IInv
<1>1. \A u \in Threads :
        /\ pc'[u] = IF u = i THEN label ELSE pc[u]
        /\ job'[u].inst = IF u = i THEN i ELSE job[u].inst
        /\ u # i => job'[u] = job[u]
  BY <1>0, MovesPc
<1>2. /\ Insts \subseteq Threads /\ Users \subseteq Threads
      /\ "irq" \in Threads /\ i # "irq" /\ Insts \cap Users = {}
  BY ThreadsAssumption DEF Threads
<1>3. ASSUME NEW j \in Insts PROVE KrefInv(j)'
  <2>1. job[i].inst = i
    BY DEF MInv, OwnerInv
  <2> QED BY <1>0, <1>3, <2>1, KrefElsewhere DEF MInv
<1>4. ASSUME NEW j \in Insts PROVE OwnerInv(j)'
  <2>1. CASE j = i
    BY <2>1
  <2>2. CASE j # i
    BY <1>1, <1>2, <2>2 DEF MInv, OwnerInv
  <2> QED BY <2>1, <2>2
<1>5. ASSUME NEW u \in Users PROVE UserInv(u)'
  <2>1. u # i /\ u \in Threads
    BY <1>2
  <2>2. pc[u] # "idle" => job[u].inst \in Threads
    BY <2>1, JobType
  <2> QED BY <1>1, <2>1, <2>2 DEF MInv, UserInv
<1>6. IrqInv'
  <2>1. pc'["irq"] = pc["irq"] /\ job'["irq"] = job["irq"]
    BY <1>1, <1>2
  <2>2. pc["irq"] # "idle" => job["irq"].inst \in Insts
    BY <1>2, JobType
  <2>3. CASE pc["irq"] = "idle"
    BY <2>1, <2>3 DEF MInv, IrqInv
  <2>4. CASE pc["irq"] # "idle" /\ job["irq"].inst = i
    BY <2>1, <2>4 DEF MInv, IrqInv
  <2>5. CASE pc["irq"] # "idle" /\ job["irq"].inst # i
    BY <1>1, <1>2, <2>1, <2>2, <2>5 DEF MInv, IrqInv
  <2> QED BY <2>3, <2>4, <2>5
<1>7. ListInv'
  <2>1. \A j \in instances : mem'[j] = "live"
    BY DEF MInv, ListInv
  <2>2. Restarting => Restarting'
    BY <1>1 DEF Restarting
  <2> QED BY <2>1, <2>2 DEF MInv, ListInv
<1>8. NextInv' /\ \A j \in Insts : SessionInv(j)'
  BY <1>0, MovesNext, SessionKept DEF MInv
<1> QED BY <1>3, <1>4, <1>5, <1>6, <1>7, <1>8 DEF MInv

(* msm_cvp_open and msm_cvp_close, but for the calls of try_state. *)
LEMMA OwnerKeepsMem ==
    ASSUME IInv, TypeOK, MInv, NEW i \in Insts,
           OpenCount(i) \/ OpenAdd(i) \/ CloseStart(i) \/ CloseStep(i)
    PROVE  MInv'
<1>0. /\ i \in Threads /\ i # "irq" /\ Control /\ job[i].inst = i
      /\ i \notin Users
  BY ThreadsAssumption DEF Threads, IInv, MInv, OwnerInv
<1>1. ASSUME NEW label, Moves(i, label, i), pc[i] \notin Marked(i) \cup {"idle"},
             label \notin Marked(i) \cup NoSession \/ SessionClean(i),
             label \notin Marked(i), pc[i] # "invalidate",
             pc[i] = "opened" => \A u \in Users : job[u].inst # i,
             UNCHANGED <<instances, mem, kref, lost, todo>>,
             UNCHANGED <<session, obj>> \/ SessionClean(i)
      PROVE  MInv'
  <2>1. Working(i, label, i)
    BY <1>0, <1>1 DEF Working
  <2>2. ListInv'
    BY <1>0, <1>1, ListKept DEF MInv
  <2>3. \A j \in Insts : SessionInv(j)'
    <3>1. CASE SessionClean(i)
      BY <1>0, <1>1, <3>1, SessionCleanKeeps DEF MInv
    <3>2. CASE ~SessionClean(i)
      BY <1>0, <1>1, <3>2, SessionKept DEF MInv
    <3> QED BY <3>1, <3>2
  <2> QED BY <1>0, <1>1, <2>1, <2>2, <2>3, WorkingKeeps
<1>2. ASSUME NEW label, Goto(i, label), UNCHANGED job, label # "check"
      PROVE  Moves(i, label, i)
  BY <1>0, <1>2, GotoMoves
<1>3. ASSUME NEW why, CallTry(i, i, why)
      PROVE  Moves(i, "try", i)
  BY <1>0, <1>3, CallTryMoves
<1>4. CASE OpenAdd(i)
  <2>1. /\ pc[i] = "add" /\ instances' = instances \cup {i}
        /\ UNCHANGED <<mem, kref, lost, todo, session, obj>>
    BY <1>4 DEF OpenAdd, ssrVars
  <2>2. Moves(i, "try", i)
    BY <1>3, <1>4 DEF OpenAdd
  <2>3. Working(i, "try", i)
    BY <1>0, <2>1, <2>2 DEF Working, Marked
  <2>4. mem[i] = "live"
    BY <2>1 DEF MInv, OwnerInv
  <2>5. Restarting => Restarting'
    BY <1>0, <2>1, <2>2, MovesPc DEF Restarting
  <2>6. ListInv'
    BY <2>1, <2>4, <2>5 DEF MInv, ListInv
  <2>7. \A j \in Insts : SessionInv(j)'
    BY <1>0, <2>1, <2>2, SessionKept DEF MInv, NoSession
  <2> QED BY <1>0, <2>1, <2>3, <2>6, <2>7, WorkingKeeps
<1>5. CASE CloseStart(i)
  <2>1. PICK label \in {"raw", "stuck", "call_uninit", "cleanup"} :
           Goto(i, label)
    BY <1>5 DEF CloseStart
  <2>2. Moves(i, label, i)
    BY <1>2, <1>5, <2>1 DEF CloseStart
  <2> QED BY <1>1, <1>5, <2>1, <2>2 DEF CloseStart, Marked, NoSession, refVars,
             ssrVars
<1>6. CASE CloseRaw(i) \/ CloseDeinitCore(i)
  <2>1. Moves(i, "clean", i)
    BY <1>2, <1>6 DEF CloseRaw, CloseDeinitCore
  <2> QED BY <1>1, <1>6, <2>1 DEF CloseRaw, CloseDeinitCore, Marked,
             NoSession, refVars, ssrVars
<1>7. CASE CloseDeinit(i) \/ CloseUninit(i)
  <2>1. PICK label \in {"try", "call_uninit"} : Moves(i, label, i)
    BY <1>2, <1>3, <1>7 DEF CloseDeinit, CloseUninit
  <2> QED BY <1>1, <1>7, <2>1 DEF CloseDeinit, CloseUninit, Marked,
             NoSession, refVars, ssrVars
<1>8. CASE FinalClean(i)
  <2>1. Moves(i, "put", i)
    BY <1>2, <1>8 DEF FinalClean
  <2> QED BY <1>1, <1>8, <2>1 DEF FinalClean, Marked, refVars, ssrVars
<1>9. CASE OpenCount(i)
  <2>0. /\ pc[i] = "none" /\ UNCHANGED <<instances, lost, session, obj, todo>>
        /\ mem[i] = "none" /\ kref[i] = 0 /\ KrefInv(i)
    BY <1>9 DEF OpenCount, ssrVars, MInv, OwnerInv
  <2>1. CASE Cardinality(instances) >= MaxInst
    <3>1. /\ Moves(i, "rejected", i) /\ UNCHANGED <<mem, kref>>
      BY <1>2, <1>9, <2>1 DEF OpenCount
    <3>2. /\ pc'[i] = "rejected" /\ job'[i].inst = i
      BY <1>0, <3>1, MovesPc
    <3>3. Holders(i)' = Holders(i)
      BY <1>0, <2>0, <3>1, HoldersKept DEF HolderLabels
    <3>4. KrefInv(i)'
      BY <2>0, <3>1, <3>3 DEF KrefInv, OwnerHolds
    <3>5. OwnerInv(i)'
      BY <2>0, <3>1, <3>2 DEF OwnerInv
    <3> QED BY <2>0, <3>1, <3>4, <3>5, OwnerRefKeeps DEF NoSession
  <2>2. CASE ~(Cardinality(instances) >= MaxInst)
    <3>1. /\ Moves(i, "add", i)
          /\ mem' = [mem EXCEPT ![i] = "live"] /\ kref' = [kref EXCEPT ![i] = 1]
      BY <1>2, <1>9, <2>2 DEF OpenCount
    <3>2. /\ pc'[i] = "add" /\ job'[i].inst = i
      BY <1>0, <3>1, MovesPc
    <3>3. Holders(i)' = Holders(i)
      BY <1>0, <2>0, <3>1, HoldersKept DEF HolderLabels
    <3>a. /\ mem'[i] = "live" /\ kref'[i] = 1
          /\ \A j \in Insts \ {i} : mem'[j] = mem[j] /\ kref'[j] = kref[j]
      BY <3>1 DEF TypeOK
    <3>b. Cardinality(Holders(i)) \in Nat
      BY <2>0, FS_CardinalityType DEF KrefInv
    <3>4. KrefInv(i)'
      BY <2>0, <3>2, <3>3, <3>a, <3>b DEF KrefInv, OwnerHolds
    <3>5. OwnerInv(i)'
      BY <3>2, <3>a DEF OwnerInv
    <3> QED BY <2>0, <3>1, <3>a, <3>4, <3>5, OwnerRefKeeps DEF NoSession
  <2> QED BY <2>1, <2>2
<1>10. CASE CleanupGet(i)
  <2>0. /\ pc[i] = "cleanup" /\ mem[i] = "live" /\ KrefInv(i)
        /\ UNCHANGED <<instances, mem, lost, session, obj, todo>>
    BY <1>10 DEF CleanupGet, ssrVars, MInv, OwnerInv
  <2>1. CASE CanGet(i)
    <3>1. Moves(i, "flush", i) /\ kref' = [kref EXCEPT ![i] = @ + 1]
      BY <1>2, <1>10, <2>1 DEF CleanupGet
    <3>2. /\ pc'[i] = "flush" /\ job'[i].inst = i
      BY <1>0, <3>1, MovesPc
    <3>3. /\ kref'[i] = kref[i] + 1 /\ mem'[i] = "live"
          /\ \A j \in Insts \ {i} : mem'[j] = mem[j] /\ kref'[j] = kref[j]
      BY <2>0, <3>1 DEF TypeOK
    <3>4. KrefInv(i)'
      BY <1>0, <2>0, <3>1, <3>2, <3>3, HoldersAdd
         DEF KrefInv, OwnerHolds, HolderLabels
    <3>5. OwnerInv(i)'
      BY <3>2, <3>3 DEF OwnerInv
    <3> QED BY <2>0, <3>1, <3>3, <3>4, <3>5, OwnerRefKeeps DEF NoSession
  <2>2. CASE ~CanGet(i)
    <3>1. Moves(i, "deinit", i) /\ UNCHANGED kref
      BY <1>2, <1>10, <2>2 DEF CleanupGet
    <3> QED BY <1>1, <2>0, <3>1 DEF Marked, NoSession
  <2> QED BY <2>1, <2>2
<1>11. CASE CleanupPut(i)
  <2>0. /\ pc[i] = "flush" /\ mem[i] = "live" /\ KrefInv(i)
        /\ UNCHANGED <<instances, mem, lost, session, obj, todo>>
    BY <1>11 DEF CleanupPut, ssrVars, MInv, OwnerInv
  <2>1. PICK label \in {"deinit", "stuck"} : PutInst(i, i, label)
    BY <1>11 DEF CleanupPut
  <2>2. i \in Holders(i)
    BY <1>0, <2>0 DEF Holders, Holds
  <2>3. Cardinality(Holders(i)) \in Nat \ {0}
    BY <2>0, <2>2, FS_CardinalityType, FS_EmptySet DEF KrefInv
  <2>4. kref[i] > 1
    BY <2>0, <2>3 DEF KrefInv, OwnerHolds
  <2>5. /\ Moves(i, label, i) /\ kref'[i] = kref[i] - 1
        /\ \A j \in Insts \ {i} : kref'[j] = kref[j]
    BY <1>0, <2>1, <2>4, PutMoves
  <2>6. pc'[i] = label /\ job'[i].inst = i
    BY <1>0, <2>5, MovesPc
  <2>7. KrefInv(i)'
    BY <1>0, <2>0, <2>5, <2>6, HoldersDrop
       DEF KrefInv, OwnerHolds, HolderLabels
  <2>8. OwnerInv(i)'
    BY <2>0, <2>6 DEF OwnerInv
  <2> QED BY <2>0, <2>5, <2>7, <2>8, OwnerRefKeeps DEF NoSession
<1>12. CASE FinalPut(i)
  <2>0. /\ pc[i] = "put" /\ mem[i] = "live" /\ KrefInv(i) /\ kref[i] \in Nat
        /\ UNCHANGED <<instances, mem, lost, session, obj, todo>>
    BY <1>12 DEF FinalPut, ssrVars, MInv, OwnerInv, TypeOK
  <2>1. PICK label \in {"destroy", "closed"} :
           /\ Moves(i, label, i)
           /\ label = "destroy" => kref[i] = 1
    BY <1>0, <1>12, PutMoves DEF FinalPut
  <2>2. /\ kref'[i] = kref[i] - 1
        /\ \A j \in Insts \ {i} : kref'[j] = kref[j]
    BY <1>0, <1>12, PutMoves DEF FinalPut
  <2>3. pc'[i] = label /\ job'[i].inst = i
    BY <1>0, <2>1, MovesPc
  <2>4. Holders(i)' = Holders(i) /\ Cardinality(Holders(i)) \in Nat
    BY <1>0, <2>0, <2>1, HoldersKept, FS_CardinalityType
       DEF HolderLabels, KrefInv
  <2>5. KrefInv(i)'
    BY <2>0, <2>2, <2>3, <2>4 DEF KrefInv, OwnerHolds
  <2>6. OwnerInv(i)'
    BY <2>0, <2>1, <2>2, <2>3 DEF OwnerInv
  <2> QED BY <2>0, <2>1, <2>2, <2>5, <2>6, OwnerRefKeeps DEF NoSession
<1> QED BY <1>4, <1>5, <1>6, <1>7, <1>8, <1>9, <1>10, <1>11, <1>12 DEF CloseStep

(* A step of an ioctl on the open instance i. *)
LEMMA UserRefKeeps ==
    ASSUME IInv, MInv, NEW u \in Users, NEW i \in Insts, pc[i] = "opened",
           NEW label, NEW k, Moves(u, label, k),
           UNCHANGED <<instances, mem, session, obj, todo>>,
           \A j \in Insts \ {i} : kref'[j] = kref[j] /\ lost'[j] = lost[j],
           pc[u] # "invalidate", pc[u] \in HolderLabels(u) => job[u].inst = i,
           \/ label = "idle" /\ k = u
           \/ label \notin {"idle", "signal", "put", "destroy", "free"} /\ k = i,
           KrefInv(i)'
    PROVE  MInv'
<1>0. /\ u \in Threads /\ u # "irq" /\ u \notin Insts /\ Control
      /\ Insts \subseteq Threads /\ Users \subseteq Threads
      /\ "irq" \in Threads
  BY ThreadsAssumption DEF Threads, IInv
<1>1. \A t \in Threads :
        /\ pc'[t] = IF t = u THEN label ELSE pc[t]
        /\ job'[t].inst = IF t = u THEN k ELSE job[t].inst
        /\ t # u => job'[t] = job[t]
  BY <1>0, MovesPc
<1>2. ASSUME NEW j \in Insts PROVE KrefInv(j)'
  BY <1>0, <1>2, KrefElsewhere DEF MInv, HolderLabels
<1>3. ASSUME NEW j \in Insts PROVE OwnerInv(j)'
  <2>1. j \in Threads /\ j # u
    BY <1>0
  <2>2. CASE j = i
    BY <1>1, <2>1, <2>2 DEF MInv, OwnerInv
  <2>3. CASE j # i
    BY <1>1, <2>1, <2>3 DEF MInv, OwnerInv
  <2> QED BY <2>2, <2>3
<1>4. ASSUME NEW v \in Users PROVE UserInv(v)'
  <2>1. v \in Threads
    BY <1>0
  <2>2. pc[v] # "idle" => job[v].inst \in Insts
    BY <2>1, JobType, ThreadsAssumption
  <2>3. CASE v = u
    BY <1>0, <1>1, <2>3 DEF UserInv
  <2>4. CASE v # u
    BY <1>0, <1>1, <2>1, <2>2, <2>4 DEF MInv, UserInv
  <2> QED BY <2>3, <2>4
<1>5. IrqInv'
  <2>1. pc'["irq"] = pc["irq"] /\ job'["irq"] = job["irq"]
    BY <1>0, <1>1
  <2>2. pc["irq"] # "idle" => job["irq"].inst \in Insts
    BY <1>0, JobType
  <2>3. CASE pc["irq"] = "idle"
    BY <2>1, <2>3 DEF MInv, IrqInv
  <2>4. CASE pc["irq"] # "idle" /\ job["irq"].inst = i
    BY <2>1, <2>4 DEF MInv, IrqInv
  <2>5. CASE pc["irq"] # "idle" /\ job["irq"].inst # i
    BY <1>0, <1>1, <2>1, <2>2, <2>5 DEF MInv, IrqInv
  <2> QED BY <2>3, <2>4, <2>5
<1>6. ListInv'
  BY <1>0, ListKept DEF MInv
<1>7. NextInv' /\ \A j \in Insts : SessionInv(j)'
  BY <1>0, MovesNext, SessionKept DEF MInv
<1> QED BY <1>2, <1>3, <1>4, <1>5, <1>6, <1>7 DEF MInv

(* The ioctls, but for the calls of try_state. *)
LEMMA UserKeepsMem ==
    ASSUME IInv, TypeOK, MInv, NEW u \in Users,
           \/ \E i \in Insts : UserCreate(u, i) \/ UserGet(u, i)
           \/ UserArp(u) \/ UserValidate(u) \/ UserPut(u)
    PROVE  MInv'
<1>0. u \in Threads /\ u \notin Insts /\ u # "wdog" /\ Control
  BY ThreadsAssumption DEF Threads, IInv
<1>1. ASSUME pc[u] # "idle"
      PROVE  /\ job[u].inst \in Insts /\ pc[job[u].inst] = "opened"
             /\ OwnerHolds(job[u].inst)
  <2>1. job[u].inst \in Insts /\ pc[job[u].inst] = "opened"
    BY <1>0, <1>1, JobType DEF MInv, UserInv
  <2> QED BY <2>1 DEF MInv, OwnerInv, OwnerHolds
(* Nothing happens to the references. *)
<1>2. ASSUME NEW i \in Insts, NEW label, NEW k, Moves(u, label, k),
             pc[u] \notin HolderLabels(u), label \notin HolderLabels(u),
             UNCHANGED <<mem, kref, lost>>, pc[i] = "opened"
      PROVE  KrefInv(i)'
  <2>1. Holders(i)' = Holders(i)
    BY <1>0, <1>2, HoldersKept
  <2>2. OwnerHolds(i)' <=> OwnerHolds(i)
    BY <1>0, <1>2, MovesPc DEF OwnerHolds, Threads
  <2> QED BY <1>2, <2>1, <2>2 DEF MInv, KrefInv
<1>3. ASSUME NEW i \in Insts, UserCreate(u, i)
      PROVE  MInv'
  <2>1. /\ pc[u] = "idle" /\ pc[i] = "opened"
        /\ UNCHANGED <<instances, mem, kref, lost, session, obj, todo>>
    BY <1>3 DEF UserCreate, refVars, ssrVars
  <2>2. Moves(u, "try", i)
    BY <1>0, <1>3, CallTryMoves DEF UserCreate
  <2>3. KrefInv(i)'
    BY <1>0, <1>2, <2>1, <2>2 DEF HolderLabels
  <2> QED BY <1>0, <2>1, <2>2, <2>3, UserRefKeeps DEF HolderLabels
<1>4. CASE UserArp(u)
  <2>1. /\ pc[u] = "arp"
        /\ UNCHANGED <<instances, mem, kref, lost, session, obj, todo>>
    BY <1>4 DEF UserArp, refVars, ssrVars
  <2>2. PICK label, k : /\ Moves(u, label, k)
                        /\ \/ label = "idle" /\ k = u
                           \/ label = "try" /\ k = job[u].inst
    BY <1>0, <1>4, CallTryMoves, ReturnMoves DEF UserArp
  <2>a. PICK i \in Insts : i = job[u].inst /\ pc[i] = "opened"
    BY <1>1, <2>1
  <2>3. KrefInv(i)'
    BY <1>0, <1>2, <2>a, <2>1, <2>2 DEF HolderLabels
  <2> QED BY <1>0, <2>a, <2>1, <2>2, <2>3, UserRefKeeps DEF HolderLabels
<1>5. ASSUME NEW i \in Insts, UserGet(u, i)
      PROVE  MInv'
  <2>1. /\ pc[u] = "idle" /\ pc[i] = "opened"
        /\ UNCHANGED <<instances, mem, lost, session, obj, todo>>
        /\ kref' = [kref EXCEPT ![i] = @ + 1]
    BY <1>5 DEF UserGet, ssrVars
  <2>2. Return(u, i, "validate")
    BY <1>5 DEF UserGet, Return
  <2>3. Moves(u, "validate", i)
    BY <1>0, <2>2, ReturnMoves
  <2>4. /\ kref'[i] = kref[i] + 1
        /\ \A j \in Insts \ {i} : kref'[j] = kref[j]
    BY <2>1 DEF TypeOK
  <2>5. OwnerHolds(i)' <=> OwnerHolds(i)
    BY <1>0, <2>1, <2>3, MovesPc DEF OwnerHolds, Threads
  <2>6. /\ IsFiniteSet(Holders(i)') /\ Cardinality(Holders(i)) \in Nat
        /\ Cardinality(Holders(i)') = Cardinality(Holders(i)) + 1
    BY <1>0, <2>1, <2>3, HoldersAdd DEF MInv, KrefInv, HolderLabels
  <2>7. KrefInv(i)'
    BY <2>1, <2>4, <2>5, <2>6 DEF MInv, KrefInv
  <2> QED BY <1>0, <2>1, <2>3, <2>4, <2>7, UserRefKeeps DEF HolderLabels
<1>6. ASSUME pc[u] \in {"validate", "use"},
             UNCHANGED <<instances, mem, session, obj, todo>>,
             \/ PutInst(u, job[u].inst, "idle") /\ UNCHANGED lost
             \/ /\ lost' = [lost EXCEPT ![job[u].inst] = @ + 1]
                /\ Return(u, job[u].inst, "idle") /\ UNCHANGED kref
      PROVE  MInv'
  <2>1. PICK i \in Insts : /\ i = job[u].inst /\ pc[i] = "opened"
                            /\ OwnerHolds(i) /\ KrefInv(i)
    BY <1>1, <1>6 DEF MInv
  <2>2. u \in Holders(i)
    BY <1>0, <1>6, <2>1 DEF Holders, Holds
  <2>3. Cardinality(Holders(i)) \in Nat \ {0}
    BY <2>1, <2>2, FS_CardinalityType, FS_EmptySet DEF KrefInv
  <2>4. kref[i] > 1
    BY <2>1, <2>3 DEF KrefInv
  <2>5. /\ Moves(u, "idle", u)
        /\ \A j \in Insts \ {i} : kref'[j] = kref[j] /\ lost'[j] = lost[j]
        /\ \/ kref'[i] = kref[i] - 1 /\ lost'[i] = lost[i]
           \/ kref'[i] = kref[i] /\ lost'[i] = lost[i] + 1
    <3>1. CASE PutInst(u, i, "idle") /\ UNCHANGED lost
      BY <1>0, <2>1, <2>4, <3>1, PutMoves
    <3>2. CASE /\ lost' = [lost EXCEPT ![i] = @ + 1]
               /\ Return(u, i, "idle") /\ UNCHANGED kref
      BY <1>0, <2>1, <3>2, ReturnMoves DEF TypeOK
    <3> QED BY <1>6, <2>1, <3>1, <3>2
  <2>6. OwnerHolds(i)' <=> OwnerHolds(i)
    BY <1>0, <1>6, <2>1, <2>5, MovesPc DEF OwnerHolds, Threads
  <2>7. /\ IsFiniteSet(Holders(i)') /\ Cardinality(Holders(i)') \in Nat
        /\ Cardinality(Holders(i)) = Cardinality(Holders(i)') + 1
    BY <1>0, <1>6, <2>1, <2>5, HoldersDrop DEF KrefInv, HolderLabels
  <2>8. KrefInv(i)'
    BY <2>1, <2>5, <2>6, <2>7 DEF KrefInv
  <2> QED BY <1>0, <1>6, <2>1, <2>5, <2>8, UserRefKeeps DEF HolderLabels
<1>7. CASE UserPut(u)
  BY <1>6, <1>7 DEF UserPut, ssrVars
<1>8. CASE UserValidate(u)
  <2>1. /\ pc[u] = "validate"
        /\ UNCHANGED <<instances, mem, session, obj, todo>>
    BY <1>8 DEF UserValidate, ssrVars
  <2>2. CASE Return(u, job[u].inst, "use") /\ UNCHANGED <<kref, lost>>
    <3>2. PICK i \in Insts : i = job[u].inst /\ pc[i] = "opened"
      BY <1>1, <2>1
    <3>1. Moves(u, "use", i)
      BY <1>0, <2>2, <3>2, ReturnMoves
    <3>3. Holders(i)' = Holders(i)
      <4>1. u \in Holders(i)
        BY <1>0, <2>1, <3>2 DEF Holders, Holds
      <4>2. u \in Holders(i)'
        BY <1>0, <3>1, MovesPc DEF Holders, Holds
      <4> QED BY <1>0, <3>1, <4>1, <4>2, MovesHolders
    <3>4. OwnerHolds(i)' <=> OwnerHolds(i)
      BY <1>0, <2>1, <3>1, <3>2, MovesPc DEF OwnerHolds, Threads
    <3>5. KrefInv(i)'
      BY <2>2, <3>2, <3>3, <3>4 DEF MInv, KrefInv
    <3> QED BY <1>0, <2>1, <2>2, <3>1, <3>2, <3>5, UserRefKeeps
  <2>3. CASE ~(Return(u, job[u].inst, "use") /\ UNCHANGED <<kref, lost>>)
    <3>1. \/ PutInst(u, job[u].inst, "idle") /\ UNCHANGED lost
          \/ /\ lost' = [lost EXCEPT ![job[u].inst] = @ + 1]
             /\ Return(u, job[u].inst, "idle") /\ UNCHANGED kref
      BY <1>8, <2>3 DEF UserValidate
    <3> QED BY <1>6, <2>1, <3>1
  <2> QED BY <2>2, <2>3
<1> QED BY <1>3, <1>4, <1>5, <1>7, <1>8

(* A step that changes none of the variables the invariant is about. *)
LEMMA OtherKeeps ==
    ASSUME MInv,
           UNCHANGED <<instances, mem, kref, lost, session, obj, todo, pc, job>>
    PROVE  MInv'
<1>1. \A j \in Insts : /\ KrefInv(j)' <=> KrefInv(j)
                       /\ OwnerInv(j)' <=> OwnerInv(j)
                       /\ SessionInv(j)' <=> SessionInv(j)
  BY DEF KrefInv, OwnerInv, SessionInv, Holders, Holds, OwnerHolds
<1>2. IrqInv' /\ NextInv' /\ ListInv' /\ \A u \in Users : UserInv(u)'
  BY DEF MInv, IrqInv, NextInv, UserInv, ListInv, Restarting
<1> QED BY <1>1, <1>2 DEF MInv

(* A step of the interrupt handler on the instance i. *)
LEMMA IrqRefKeeps ==
    ASSUME IInv, MInv, NEW i \in Insts, NEW label, NEW k,
           Moves("irq", label, k),
           UNCHANGED <<instances, mem, lost, session, obj, todo>>,
           \A j \in Insts \ {i} : kref'[j] = kref[j],
           pc["irq"] \in HolderLabels("irq") => job["irq"].inst = i,
           label \in HolderLabels("irq") => k = i,
           mem[i] = "live" \/ kref'[i] = 0,
           pc[i] \notin {"destroy", "free"} \/ kref'[i] = 0,
           KrefInv(i)', IrqInv'
    PROVE  MInv'
<1>0. /\ "irq" \in Threads /\ "irq" \notin Insts \cup Users /\ Control
      /\ Insts \subseteq Threads /\ Users \subseteq Threads
  BY ThreadsAssumption DEF Threads, IInv
<1>1. \A t \in Threads :
        /\ pc'[t] = IF t = "irq" THEN label ELSE pc[t]
        /\ t # "irq" => job'[t] = job[t]
  BY <1>0, MovesPc
<1>2. ASSUME NEW j \in Insts PROVE KrefInv(j)'
  BY <1>0, <1>2, KrefElsewhere DEF MInv
<1>3. ASSUME NEW j \in Insts PROVE OwnerInv(j)'
  <2>1. j \in Threads /\ j # "irq"
    BY <1>0
  <2>2. CASE j = i
    BY <1>1, <2>1, <2>2 DEF MInv, OwnerInv
  <2>3. CASE j # i
    BY <1>1, <2>1, <2>3 DEF MInv, OwnerInv
  <2> QED BY <2>2, <2>3
<1>4. ASSUME NEW u \in Users PROVE UserInv(u)'
  <2>1. u \in Threads /\ u # "irq" /\ u # "wdog"
    BY <1>0, ThreadsAssumption
  <2>2. pc[u] # "idle" => job[u].inst \in Insts
    BY <2>1, JobType
  <2> QED BY <1>0, <1>1, <2>1, <2>2 DEF MInv, UserInv
<1>a. pc["irq"] # "invalidate"
  BY DEF MInv, IrqInv
<1>5. ListInv'
  BY <1>0, <1>a, ListKept DEF MInv
<1>6. NextInv' /\ \A j \in Insts : SessionInv(j)'
  BY <1>0, MovesNext, SessionKept DEF MInv
<1> QED BY <1>2, <1>3, <1>4, <1>5, <1>6 DEF MInv

(* The interrupt handler, but for freeing an instance. *)
LEMMA IrqKeepsMem ==
    ASSUME IInv, TypeOK, MInv,
           \/ IrqSysInitDone \/ IrqGet \/ IrqSkip \/ IrqSignal \/ IrqPut
           \/ \E i \in Insts, cmd \in {"init", "end"}, status \in {"ok", "err"} :
                IrqTake(i, cmd, status)
    PROVE  MInv'
<1>0. /\ "irq" \in Threads /\ "irq" \notin Insts /\ Control
      /\ Insts \subseteq Threads
  BY ThreadsAssumption DEF Threads, IInv
<1>1. CASE IrqSysInitDone
  BY <1>1, OtherKeeps DEF IrqSysInitDone, refVars, ssrVars
(* A move of the interrupt handler that leaves the references alone. *)
<1>2. ASSUME NEW i \in Insts, NEW label, NEW k, Moves("irq", label, k),
             pc["irq"] \notin HolderLabels("irq"),
             label \notin HolderLabels("irq"),
             UNCHANGED <<instances, mem, kref, lost, session, obj, todo>>,
             IrqInv'
      PROVE  MInv'
  <2>1. Holders(i)' = Holders(i)
    BY <1>0, <1>2, HoldersKept
  <2>2. OwnerHolds(i)' <=> OwnerHolds(i)
    BY <1>0, <1>2, MovesPc DEF OwnerHolds
  <2>3. KrefInv(i)'
    BY <1>2, <2>1, <2>2 DEF MInv, KrefInv
  <2> QED BY <1>2, <2>3, IrqRefKeeps DEF MInv, OwnerInv
<1>3. ASSUME NEW i \in Insts, NEW cmd \in {"init", "end"},
             NEW status \in {"ok", "err"}, IrqTake(i, cmd, status)
      PROVE  MInv'
  <2>1. /\ pc["irq"] = "idle"
        /\ UNCHANGED <<instances, mem, kref, lost, session, obj, todo>>
    BY <1>3 DEF IrqTake, refVars, ssrVars
  <2>2. CASE obj[i].listed
    <3>1. /\ job' = [job EXCEPT !["irq"] = [NoJob(i) EXCEPT !.why = cmd,
                                                            !.rc = status]]
          /\ Goto("irq", "get")
      BY <1>3, <2>2 DEF IrqTake
    <3>2. job'["irq"].inst = i /\ job'["irq"].why = cmd
      BY <1>0, <3>1 DEF Control, NoJob
    <3>3. \A u \in Threads \ {"irq"} : job'[u] = job[u]
      BY <3>1 DEF Control
    <3>4. Moves("irq", "get", i)
      BY <3>1, <3>2, <3>3 DEF Moves, Goto
    <3>5. mem[i] = "live"
      BY <2>2 DEF MInv, SessionInv, OwnerInv, NoSession
    <3>6. pc'["irq"] = "get"
      BY <1>0, <3>4, MovesPc
    <3>7. IrqInv'
      BY <2>1, <3>2, <3>5, <3>6 DEF IrqInv
    <3> QED BY <1>2, <2>1, <3>4, <3>7 DEF HolderLabels
  <2>3. CASE ~obj[i].listed
    BY <1>3, <2>1, <2>3, OtherKeeps DEF IrqTake
  <2> QED BY <2>2, <2>3
<1>4. ASSUME pc["irq"] # "idle"
      PROVE  job["irq"].inst \in Insts /\ mem[job["irq"].inst] # "none"
  BY <1>0, <1>4, JobType DEF MInv, IrqInv
<1>5. CASE IrqSkip \/ (IrqGet /\ ~CanGet(job["irq"].inst))
  <2>1. /\ pc["irq"] = "get" /\ Return("irq", job["irq"].inst, "idle")
        /\ UNCHANGED <<instances, mem, kref, lost, session, obj, todo>>
    BY <1>5 DEF IrqSkip, IrqGet, refVars, ssrVars
  <2>2. Moves("irq", "idle", "irq")
    BY <1>0, <2>1, ReturnMoves
  <2>3. pc'["irq"] = "idle"
    BY <1>0, <2>2, MovesPc
  <2>4. IrqInv'
    BY <2>3 DEF IrqInv
  <2> QED BY <1>2, <1>4, <2>1, <2>2, <2>4 DEF HolderLabels
<1>6. CASE IrqGet /\ CanGet(job["irq"].inst)
  <2>1. PICK i \in Insts : i = job["irq"].inst /\ mem[i] # "none"
    BY <1>4, <1>6 DEF IrqGet
  <2>2. /\ pc["irq"] = "get" /\ UNCHANGED job /\ Goto("irq", "signal")
        /\ UNCHANGED <<instances, mem, lost, session, obj, todo>>
        /\ kref' = [kref EXCEPT ![i] = @ + 1] /\ CanGet(i)
    BY <1>6, <2>1 DEF IrqGet, ssrVars
  <2>3. Moves("irq", "signal", i)
    BY <1>0, <2>1, <2>2, GotoMoves
  <2>4. /\ kref'[i] = kref[i] + 1
        /\ \A j \in Insts \ {i} : kref'[j] = kref[j]
    BY <2>2 DEF TypeOK
  <2>5. mem[i] = "live" /\ pc[i] \notin {"destroy", "free"}
    BY <2>2 DEF CanGet, MInv, ListInv, SessionInv, NoSession
  <2>6. OwnerHolds(i)' <=> OwnerHolds(i)
    BY <1>0, <2>2, <2>3, MovesPc DEF OwnerHolds
  <2>7. /\ IsFiniteSet(Holders(i)') /\ Cardinality(Holders(i)) \in Nat
        /\ Cardinality(Holders(i)') = Cardinality(Holders(i)) + 1
    BY <1>0, <2>2, <2>3, HoldersAdd DEF MInv, KrefInv, HolderLabels
  <2>8. KrefInv(i)'
    BY <2>2, <2>4, <2>6, <2>7 DEF MInv, KrefInv
  <2>9. pc'["irq"] = "signal"
    BY <1>0, <2>3, MovesPc
  <2>10. IrqInv'
    BY <2>1, <2>2, <2>9 DEF MInv, IrqInv
  <2> QED BY <2>2, <2>3, <2>4, <2>5, <2>8, <2>10, IrqRefKeeps DEF HolderLabels
<1>7. ASSUME pc["irq"] \in {"signal", "put"}
      PROVE  \E i \in Insts :
               /\ i = job["irq"].inst /\ "irq" \in Holders(i)
               /\ KrefInv(i) /\ Cardinality(Holders(i)) \in Nat \ {0}
               /\ kref[i] \in Nat \ {0} /\ (kref[i] = 1 => ~OwnerHolds(i))
               /\ mem[i] = "live" /\ pc[i] \notin {"destroy", "free"}
  <2>1. PICK i \in Insts : i = job["irq"].inst
    BY <1>4, <1>7
  <2>2. "irq" \in Holders(i) /\ KrefInv(i)
    BY <1>0, <1>7, <2>1 DEF Holders, Holds, MInv
  <2>3. Cardinality(Holders(i)) \in Nat \ {0}
    BY <2>2, FS_CardinalityType, FS_EmptySet DEF KrefInv
  <2>4. kref[i] \in Nat \ {0} /\ (kref[i] = 1 => ~OwnerHolds(i))
    BY <2>2, <2>3 DEF KrefInv
  <2> QED BY <2>1, <2>2, <2>3, <2>4 DEF MInv, OwnerInv
<1>8. CASE IrqSignal
  <2>1. PICK i \in Insts : /\ i = job["irq"].inst /\ "irq" \in Holders(i)
                           /\ KrefInv(i) /\ mem[i] = "live"
                           /\ pc[i] \notin {"destroy", "free"}
    BY <1>7, <1>8 DEF IrqSignal
  <2>2. /\ pc["irq"] = "signal" /\ Return("irq", i, "put")
        /\ UNCHANGED <<instances, mem, kref, lost, session, obj, todo>>
    BY <1>8, <2>1 DEF IrqSignal, refVars, ssrVars
  <2>3. Moves("irq", "put", i)
    BY <1>0, <2>2, ReturnMoves
  <2>4. pc'["irq"] = "put" /\ job'["irq"].inst = i
    BY <1>0, <2>3, MovesPc
  <2>5. Holders(i)' = Holders(i)
    <3>1. "irq" \in Holders(i)'
      BY <1>0, <2>4 DEF Holders, Holds
    <3> QED BY <1>0, <2>1, <2>3, <3>1, MovesHolders
  <2>6. OwnerHolds(i)' <=> OwnerHolds(i)
    BY <1>0, <2>2, <2>3, MovesPc DEF OwnerHolds
  <2>7. KrefInv(i)'
    BY <2>1, <2>2, <2>5, <2>6 DEF KrefInv
  <2>8. IrqInv'
    BY <2>1, <2>2, <2>4 DEF IrqInv
  <2> QED BY <2>1, <2>2, <2>3, <2>7, <2>8, IrqRefKeeps
<1>9. CASE IrqPut
  <2>1. PICK i \in Insts :
           /\ i = job["irq"].inst
           /\ KrefInv(i) /\ kref[i] \in Nat \ {0}
           /\ kref[i] = 1 => ~OwnerHolds(i)
           /\ mem[i] = "live" /\ pc[i] \notin {"destroy", "free"}
    BY <1>7, <1>9 DEF IrqPut
  <2>2. /\ pc["irq"] = "put" /\ PutInst("irq", i, "idle")
        /\ UNCHANGED <<instances, mem, lost, session, obj, todo>>
    BY <1>9, <2>1 DEF IrqPut, ssrVars
  <2>3. PICK label, k :
           /\ Moves("irq", label, k)
           /\ \/ label = "destroy" /\ k = i /\ kref[i] = 1
              \/ label = "idle" /\ k = "irq"
    BY <1>0, <2>2, PutMoves
  <2>4. /\ kref'[i] = kref[i] - 1
        /\ \A j \in Insts \ {i} : kref'[j] = kref[j]
    BY <1>0, <2>2, PutMoves
  <2>5. /\ pc'["irq"] = label /\ job'["irq"].inst = k /\ pc'[i] = pc[i]
    BY <1>0, <2>3, MovesPc
  <2>6. OwnerHolds(i)' <=> OwnerHolds(i)
    BY <2>2, <2>5 DEF OwnerHolds
  <2>7. /\ IsFiniteSet(Holders(i)') /\ Cardinality(Holders(i)') \in Nat
        /\ Cardinality(Holders(i)) = Cardinality(Holders(i)') + 1
    BY <1>0, <2>1, <2>2, <2>3, HoldersDrop DEF KrefInv, HolderLabels
  <2>8. KrefInv(i)'
    BY <2>1, <2>2, <2>4, <2>6, <2>7 DEF KrefInv
  <2>9. label = "destroy" => pc[i] = "closed"
    BY <2>1, <2>3 DEF OwnerHolds
  <2>10. IrqInv'
    BY <2>1, <2>2, <2>3, <2>4, <2>5, <2>9 DEF IrqInv
  <2> QED BY <2>1, <2>2, <2>3, <2>4, <2>8, <2>10, IrqRefKeeps DEF HolderLabels
<1> QED BY <1>1, <1>3, <1>5, <1>6, <1>8, <1>9

-----------------------------------------------------------------------------
(* msm_cvp_destroy: by the owner, at the end of close, or by the interrupt *)
(* handler, after close; never by an ioctl.                                *)
LEMMA DestroyKeepsMem ==
    ASSUME IInv, TypeOK, MInv, NEW t \in Insts \cup Users \cup {"irq"},
           Destroy(t)
    PROVE  MInv'
<1>0. /\ t \in Threads /\ t # "wdog" /\ Control /\ "irq" \in Threads
      /\ Insts \subseteq Threads /\ Users \subseteq Threads
      /\ "irq" \notin Insts \cup Users /\ Insts \cap Users = {}
  BY ThreadsAssumption DEF Threads, IInv
<1>1. pc[t] \in {"destroy", "free"}
  BY DEF Destroy, DestroyUnlink, DestroyFree
<1>2. t \notin Users
  BY <1>1 DEF MInv, UserInv
<1>3. PICK i \in Insts : i = job[t].inst
  BY <1>0, <1>1, JobType
<1>4. /\ t = i \/ (t = "irq" /\ pc[i] = "closed")
      /\ mem[i] = "live" /\ kref[i] = 0 /\ ~session[i]
      /\ pc[i] \in {"destroy", "free", "closed"}
  <2>1. CASE t \in Insts
    BY <1>1, <1>3, <2>1 DEF MInv, OwnerInv, SessionInv, NoSession
  <2>2. CASE t = "irq"
    BY <1>1, <1>3, <2>2 DEF MInv, IrqInv, SessionInv, NoSession
  <2> QED BY <1>2, <2>1, <2>2
<1>5. ASSUME NEW label, NEW k, Moves(t, label, k),
             label \in {"free", Home(t)},
             UNCHANGED <<kref, lost, session, obj>>,
             \A j \in Insts \ {i} : mem'[j] = mem[j]
      PROVE  /\ \A j \in Insts : KrefInv(j)' /\ SessionInv(j)'
             /\ NextInv'
             /\ \A u \in Threads :
                  /\ pc'[u] = IF u = t THEN label ELSE pc[u]
                  /\ job'[u].inst = IF u = t THEN k ELSE job[u].inst
                  /\ u # t => job'[u] = job[u]
  <2>1. \A u \in Threads :
          /\ pc'[u] = IF u = t THEN label ELSE pc[u]
          /\ job'[u].inst = IF u = t THEN k ELSE job[u].inst
          /\ u # t => job'[u] = job[u]
    BY <1>0, <1>5, MovesPc
  <2>2. /\ pc[t] \notin HolderLabels(t) /\ label \notin HolderLabels(t)
        /\ t \notin Insts \/ pc[t] \in NoSession
        /\ label = "free" \/ label = "closed" \/ t \notin Insts
    BY <1>1, <1>5 DEF HolderLabels, NoSession, Home
  <2>3. ASSUME NEW j \in Insts PROVE KrefInv(j)'
    <3>1. Holders(j)' = Holders(j)
      BY <1>0, <1>5, <2>2, HoldersKept
    <3>2. OwnerHolds(j)' <=> OwnerHolds(j)
      BY <1>0, <1>1, <1>4, <1>5, <2>1, <2>2 DEF OwnerHolds
    <3> QED BY <1>5, <3>1, <3>2 DEF MInv, KrefInv
  <2>4. \A j \in Insts : SessionInv(j)'
    BY <1>0, <1>5, <2>2, SessionKept DEF MInv
  <2>5. NextInv'
    BY <1>0, <1>5, MovesNext DEF MInv
  <2> QED BY <2>1, <2>3, <2>4, <2>5
<1>6. ASSUME NEW u \in Users, NEW label, NEW k,
             \A v \in Threads :
               /\ pc'[v] = IF v = t THEN label ELSE pc[v]
               /\ v # t => job'[v] = job[v]
      PROVE  UserInv(u)'
  <2>1. u \in Threads /\ u # t /\ u # "wdog"
    BY <1>0, <1>2, ThreadsAssumption
  <2>2. pc[u] # "idle" => job[u].inst \in Insts /\ job[u].inst # t
    BY <1>1, <2>1, JobType DEF MInv, UserInv
  <2> QED BY <1>0, <1>6, <2>1, <2>2 DEF MInv, UserInv
<1>7. CASE DestroyUnlink(t)
  <2>1. /\ pc[t] = "destroy" /\ core_lock = "none"
        /\ instances' = instances \ {i}
        /\ UNCHANGED <<mem, kref, lost, session, obj, todo>>
        /\ Moves(t, "free", i)
    BY <1>0, <1>3, <1>7, GotoMoves DEF DestroyUnlink, CoreFree, ssrVars
  <2>2. /\ \A j \in Insts : KrefInv(j)' /\ SessionInv(j)'
        /\ NextInv'
        /\ \A u \in Threads :
             /\ pc'[u] = IF u = t THEN "free" ELSE pc[u]
             /\ job'[u].inst = IF u = t THEN i ELSE job[u].inst
             /\ u # t => job'[u] = job[u]
    BY <1>5, <2>1
  <2>3. ~Restarting
    BY <2>1, ThreadsAssumption DEF Restarting, IInv, LockInv, CoreLockOwned,
       HoldsCore, Threads
  <2>4. ListInv'
    BY <2>1, <2>3 DEF MInv, ListInv
  <2>5. ASSUME NEW j \in Insts PROVE OwnerInv(j)'
    <3>1. CASE j = t
      BY <1>0, <1>4, <2>1, <2>2, <3>1 DEF OwnerInv
    <3>2. CASE j # t
      BY <1>0, <1>4, <2>1, <2>2, <3>2 DEF MInv, OwnerInv
    <3> QED BY <3>1, <3>2
  <2>6. \A u \in Users : UserInv(u)'
    BY <1>6, <2>2
  <2>7. IrqInv'
    <3>1. CASE t = "irq"
      BY <1>0, <1>4, <2>1, <2>2, <3>1 DEF IrqInv
    <3>2. CASE t # "irq"
      <4>1. pc'["irq"] = pc["irq"] /\ job'["irq"] = job["irq"]
        BY <1>0, <2>2, <3>2
      <4>2. pc["irq"] # "idle" => job["irq"].inst \in Insts
        BY <1>0, JobType
      <4> QED BY <1>0, <1>1, <1>4, <2>1, <2>2, <3>2, <4>1, <4>2
              DEF MInv, IrqInv
    <3> QED BY <3>1, <3>2
  <2> QED BY <2>2, <2>4, <2>5, <2>6, <2>7 DEF MInv
<1>8. CASE DestroyFree(t)
  <2>1. PICK k : Moves(t, Home(t), k) /\ k = IF Home(t) = "idle" THEN t ELSE i
    BY <1>0, <1>3, <1>8, ReturnMoves DEF DestroyFree, Home
  <2>2. /\ pc[t] = "free" /\ mem' = [mem EXCEPT ![i] = "freed"]
        /\ UNCHANGED <<instances, kref, lost, session, obj, todo>>
    BY <1>3, <1>8 DEF DestroyFree, ssrVars
  <2>3. /\ mem'[i] = "freed" /\ \A j \in Insts \ {i} : mem'[j] = mem[j]
    BY <2>2 DEF TypeOK
  <2>4. /\ \A j \in Insts : KrefInv(j)' /\ SessionInv(j)'
        /\ NextInv'
        /\ \A u \in Threads :
             /\ pc'[u] = IF u = t THEN Home(t) ELSE pc[u]
             /\ job'[u].inst = IF u = t THEN k ELSE job[u].inst
             /\ u # t => job'[u] = job[u]
    BY <1>5, <2>1, <2>2, <2>3
  <2>5. i \notin instances
    <3>1. CASE t \in Insts
      BY <1>0, <1>4, <2>2, <3>1 DEF MInv, OwnerInv
    <3>2. CASE t = "irq"
      BY <1>3, <2>2, <3>2 DEF MInv, IrqInv
    <3> QED BY <1>2, <3>1, <3>2
  <2>6. ListInv'
    <3>1. \A j \in instances : mem'[j] = "live"
      BY <2>3, <2>5 DEF MInv, ListInv
    <3>2. Restarting => Restarting'
      BY <2>2, <2>4 DEF Restarting
    <3> QED BY <2>2, <3>1, <3>2 DEF MInv, ListInv
  <2>7. ASSUME NEW j \in Insts PROVE OwnerInv(j)'
    <3>1. CASE j = i
      <4>1. pc'[i] = "closed" /\ job'[i].inst = i
        BY <1>0, <1>4, <2>1, <2>4 DEF Home, MInv, OwnerInv
      <4> QED BY <1>4, <2>2, <2>3, <3>1, <4>1 DEF OwnerInv
    <3>2. CASE j # i
      BY <1>0, <1>4, <2>2, <2>3, <2>4, <3>2 DEF MInv, OwnerInv
    <3> QED BY <3>1, <3>2
  <2>8. \A u \in Users : UserInv(u)'
    BY <1>6, <2>4
  <2>9. IrqInv'
    <3>1. CASE t = "irq"
      BY <1>0, <2>4, <3>1 DEF IrqInv, Home
    <3>2. CASE t # "irq"
      <4>1. pc'["irq"] = pc["irq"] /\ job'["irq"] = job["irq"]
        BY <1>0, <2>4, <3>2
      <4>2. pc["irq"] # "idle" => job["irq"].inst \in Insts
        BY <1>0, JobType
      <4>3. /\ pc["irq"] # "idle" => mem'[job["irq"].inst] # "none"
            /\ pc["irq"] \in {"destroy", "free"} => job["irq"].inst # i
        BY <1>1, <1>4, <2>3, <3>2, <4>2 DEF MInv, IrqInv
      <4>4. pc["irq"] \in {"destroy", "free"} =>
              pc'[job["irq"].inst] = pc[job["irq"].inst]
        BY <1>0, <1>4, <2>4, <3>2, <4>2, <4>3
      <4> QED BY <2>2, <2>3, <4>1, <4>2, <4>3, <4>4 DEF MInv, IrqInv
    <3> QED BY <3>1, <3>2
  <2> QED BY <2>4, <2>6, <2>7, <2>8, <2>9 DEF MInv
<1> QED BY <1>7, <1>8 DEF Destroy

-----------------------------------------------------------------------------
(* Types. *)

(* The types of the variables of the core and of its restart. *)
CoreType ==
    /\ core_state \in {"UNINIT", "INIT", "INIT_DONE"}
    /\ core_lock \in Threads \cup {"none"}
    /\ dev_lock \in Threads \cup {"none"}
    /\ dev_up \in BOOLEAN /\ sys_msg \in BOOLEAN /\ sys_done \in Nat
    /\ saved \in {"UNINIT", "INIT", "INIT_DONE"}
    /\ errors \in 0 .. MaxSsr /\ fooled \in BOOLEAN
    /\ creates \in 0 .. MaxCreate

(* The types of the references. *)
RefType ==
    /\ todo \subseteq Insts /\ instances \subseteq Insts
    /\ mem \in [Insts -> {"none", "live", "freed"}]
    /\ kref \in [Insts -> Nat] /\ lost \in [Insts -> Nat]

(* The types of the sessions. *)
SessionType ==
    /\ sync \in [Insts -> Threads \cup {"none"}]
    /\ session \in [Insts -> BOOLEAN]
    /\ obj \in [Insts -> [mem : {"none", "live", "freed"}, device : BOOLEAN,
                          listed : BOOLEAN, idr : BOOLEAN]]

(* The types of the answers of the firmware. *)
ReplyType ==
    /\ done \in [Insts -> [{"init", "end"} -> Nat]]
    /\ replies \in [Insts -> SUBSET {"init", "end"}]
    /\ hfi_error \in [Insts -> BOOLEAN] /\ prev_error \in [Insts -> BOOLEAN]

(* Together with the type of inst->state they are TypeOK. *)
LEMMA TypeParts ==
    TypeOK <=> /\ CoreType /\ RefType /\ SessionType /\ ReplyType
               /\ state \in [Insts -> 1 .. 9]
BY DEF TypeOK, CoreType, RefType, SessionType, ReplyType, UNINIT_DONE, INVALID

(* Only the state machine and handle_sys_error change the core. *)
LEMMA CoreTypeKept ==
    ASSUME CoreType, IInv, [Next]_vars
    PROVE  CoreType'
<1>1. ASSUME NEW t \in Insts \cup Users, Try(t)
      PROVE  CoreType'
  <2>0. t \in Threads
    BY DEF Threads
  <2>1. CASE InitCore(t)
    BY <2>1 DEF InitCore, CoreType, coreVars, ssrVars, lockVars
  <2>2. CASE CheckCoreInit(t)
    BY <2>0, <2>2 DEF CheckCoreInit, CoreType, coreVars, ssrVars, lockVars
  <2>3. CASE CoreInitDone(t)
    BY <2>0, <2>3 DEF CoreInitDone, CoreType, coreVars, ssrVars, lockVars
  <2>4. CASE CoreInitTimeout(t)
    BY <2>0, <2>4 DEF CoreInitTimeout, CoreType, coreVars, ssrVars, lockVars
  <2>5. CASE SessionInit(t)
    BY <2>0, <2>5 DEF SessionInit, CoreType, coreVars, ssrVars, lockVars
  <2>6. CASE SessionInitWrite(t)
    BY <2>0, <2>6 DEF SessionInitWrite, CoreType, coreVars, ssrVars, lockVars
  <2>7. CASE \/ TryState(t) \/ HandlerCheck(t) \/ SessionInitDone(t)
             \/ SessionClose(t) \/ SessionCloseDone(t) \/ CloseClean(t)
             \/ Uninit(t) \/ TryUnlock(t) \/ ResultCheck(t)
    <3>1. UNCHANGED <<coreVars, ssrVars, core_lock, dev_lock, creates>>
      BY <2>7 DEF TryState, HandlerCheck, SessionInitDone, SessionClose,
         SessionCloseDone, CloseClean, Uninit, TryUnlock, ResultCheck, lockVars
    <3> QED BY <3>1 DEF CoreType, coreVars, ssrVars
  <2> QED BY <1>1, <2>1, <2>2, <2>3, <2>4, <2>5, <2>6, <2>7 DEF Try
<1>2. ASSUME NEW t \in Threads, SysError(t)
      PROVE  CoreType'
  <2>1. CASE SysErrorBegin(t)
    BY <2>1 DEF SysErrorBegin, CoreType
  <2>2. CASE \E i \in Insts : SysErrorInvalidate(t, i)
    BY <2>2 DEF SysErrorInvalidate, CoreType, coreVars, lockVars
  <2>3. CASE SysErrorRelease(t)
    BY <2>3 DEF SysErrorRelease, CoreType, ssrVars
  <2> QED BY <1>2, <2>1, <2>2, <2>3 DEF SysError
<1>3. ASSUME UNCHANGED <<coreVars, ssrVars, core_lock, dev_lock, creates>>
      PROVE  CoreType'
  BY <1>3 DEF CoreType, coreVars, ssrVars
<1>4. ASSUME NEW t, Destroy(t)
      PROVE  CoreType'
  BY <1>3, <1>4 DEF Destroy, DestroyUnlink, DestroyFree, lockVars
<1>5. ASSUME NEW i \in Insts, Owner(i)
      PROVE  CoreType'
  <2>1. CASE OpenCount(i) \/ OpenAdd(i) \/ CloseStart(i) \/ CloseStep(i)
    BY <1>3, <2>1 DEF OpenCount, OpenAdd, CloseStart, CloseStep, CloseRaw,
       CleanupGet, CleanupPut, CloseDeinit, CloseUninit, CloseDeinitCore,
       FinalClean, FinalPut, lockVars
  <2> QED BY <1>1, <1>2, <1>4, <1>5, <2>1 DEF Owner, OwnerStep, Threads
<1>6. ASSUME NEW u \in Users, User(u)
      PROVE  CoreType'
  <2>1. ASSUME NEW i \in Insts, UserCreate(u, i)
        PROVE  CoreType'
    BY <2>1, BoundsAssumption
       DEF UserCreate, CoreType, coreVars, ssrVars, lockVars
  <2>2. CASE \/ \E i \in Insts : UserGet(u, i)
             \/ UserArp(u) \/ UserValidate(u) \/ UserPut(u)
    BY <1>3, <2>2 DEF UserGet, UserArp, UserValidate, UserPut, lockVars
  <2> QED BY <1>1, <1>4, <1>6, <2>1, <2>2 DEF User, UserStep
<1>7. CASE Irq
  <2>1. CASE IrqSysInitDone
    <3>1. /\ UNCHANGED <<core_state, dev_up, fooled, saved, errors, core_lock,
                         dev_lock, creates>>
          /\ sys_msg' \in BOOLEAN /\ sys_done' = sys_done + 1
      BY <2>1 DEF IrqSysInitDone, ssrVars, lockVars
    <3> QED BY <3>1 DEF CoreType
  <2>2. CASE \/ \E i \in Insts, cmd \in {"init", "end"}, status \in {"ok", "err"} :
                  IrqTake(i, cmd, status)
             \/ IrqGet \/ IrqSkip \/ IrqSignal \/ IrqPut
    BY <1>3, <2>2 DEF IrqTake, IrqGet, IrqSkip, IrqSignal, IrqPut, lockVars
  <2> QED BY <1>4, <1>7, <2>1, <2>2 DEF Irq, IrqStep
<1>8. CASE Wdog
  <2>1. CASE WdogFire
    BY <2>1, BoundsAssumption DEF WdogFire, CoreType, coreVars, lockVars
  <2> QED BY <1>2, <1>8, <2>1 DEF Wdog, Threads
<1>9. CASE UNCHANGED vars
  BY <1>3, <1>9 DEF vars, lockVars
<1> QED BY <1>5, <1>6, <1>7, <1>8, <1>9 DEF Next

(* The variables of the references are functions on the instances. *)
RefFuns ==
    /\ mem = [i \in Insts |-> mem[i]]
    /\ kref = [i \in Insts |-> kref[i]]
    /\ lost = [i \in Insts |-> lost[i]]

(* They stay so. *)
LEMMA RefFunsKept ==
    ASSUME RefFuns, [Next]_vars
    PROVE  RefFuns'
<1>1. ASSUME UNCHANGED refVars \/ UNCHANGED <<mem, kref, lost>>
      PROVE  RefFuns'
  BY <1>1 DEF RefFuns, refVars
<1>2. ASSUME NEW t, Try(t)
      PROVE  RefFuns'
  BY <1>1, <1>2 DEF Try, TryState, HandlerCheck, InitCore, CheckCoreInit,
     CoreInitDone, CoreInitTimeout, SessionInit, SessionInitWrite,
     SessionInitDone, SessionClose, SessionCloseDone, CloseClean, Uninit,
     TryUnlock, ResultCheck
<1>3. ASSUME NEW t, SysError(t)
      PROVE  RefFuns'
  BY <1>1, <1>3 DEF SysError, SysErrorBegin, SysErrorInvalidate,
     SysErrorRelease
<1>4. ASSUME NEW t, Destroy(t)
      PROVE  RefFuns'
  BY <1>4 DEF Destroy, DestroyUnlink, DestroyFree, RefFuns
<1>5. ASSUME NEW i \in Insts, Owner(i)
      PROVE  RefFuns'
  <2>1. CASE OpenCount(i) \/ CleanupGet(i) \/ CleanupPut(i) \/ FinalPut(i)
    BY <2>1 DEF OpenCount, CleanupGet, CleanupPut, FinalPut, PutInst, RefFuns
  <2>2. CASE \/ OpenAdd(i) \/ CloseStart(i) \/ CloseRaw(i) \/ CloseDeinit(i)
             \/ CloseUninit(i) \/ CloseDeinitCore(i) \/ FinalClean(i)
    BY <1>1, <2>2 DEF OpenAdd, CloseStart, CloseRaw, CloseDeinit, CloseUninit,
       CloseDeinitCore, FinalClean
  <2> QED BY <1>2, <1>3, <1>4, <1>5, <2>1, <2>2
          DEF Owner, OwnerStep, CloseStep
<1>6. ASSUME NEW u \in Users, User(u)
      PROVE  RefFuns'
  <2>1. CASE \/ \E i \in Insts : UserGet(u, i)
             \/ UserValidate(u) \/ UserPut(u)
    BY <2>1 DEF UserGet, UserValidate, UserPut, PutInst, RefFuns
  <2>2. CASE (\E i \in Insts : UserCreate(u, i)) \/ UserArp(u)
    BY <1>1, <2>2 DEF UserCreate, UserArp
  <2> QED BY <1>2, <1>4, <1>6, <2>1, <2>2 DEF User, UserStep
<1>7. CASE Irq
  <2>1. CASE IrqGet \/ IrqPut
    BY <2>1 DEF IrqGet, IrqPut, PutInst, RefFuns
  <2>2. CASE \/ \E i \in Insts, cmd \in {"init", "end"}, status \in {"ok", "err"} :
                  IrqTake(i, cmd, status)
             \/ IrqSysInitDone \/ IrqSkip \/ IrqSignal
    BY <1>1, <2>2 DEF IrqTake, IrqSysInitDone, IrqSkip, IrqSignal
  <2> QED BY <1>4, <1>7, <2>1, <2>2 DEF Irq, IrqStep
<1>8. CASE Wdog
  BY <1>1, <1>3, <1>8 DEF Wdog, WdogFire
<1>9. CASE UNCHANGED vars
  BY <1>1, <1>9 DEF vars
<1> QED BY <1>5, <1>6, <1>7, <1>8, <1>9 DEF Next

(* The references have their types by the invariant: in particular kref    *)
(* never falls below zero.                                                 *)
LEMMA RefTypeKept ==
    ASSUME MInv', RefFuns'
    PROVE  RefType'
<1>1. \A i \in Insts : lost'[i] \in Nat /\ mem'[i] \in {"none", "live", "freed"}
  BY DEF MInv, KrefInv, OwnerInv
<1>2. ASSUME NEW i \in Insts
      PROVE  kref'[i] \in Nat
  <2>1. Cardinality(Holders(i)') \in Nat
    BY FS_CardinalityType DEF MInv, KrefInv
  <2> QED BY <2>1 DEF MInv, KrefInv
<1>3. todo' \subseteq Insts /\ instances' \subseteq Insts
  BY DEF MInv, ListInv
<1> QED BY <1>1, <1>2, <1>3 DEF RefFuns, RefType

(* A record of the type of a session. *)
Obj == [mem : {"none", "live", "freed"}, device : BOOLEAN, listed : BOOLEAN,
        idr : BOOLEAN]

(* Only the state machine, close and core_release change the sessions. *)
LEMMA SessionTypeKept ==
    ASSUME SessionType, IInv, [Next]_vars
    PROVE  SessionType'
<1>0. [NoObj EXCEPT !.mem = "freed"] \in Obj
  BY DEF NoObj, Obj
<1>a. [mem |-> "live", device |-> TRUE, listed |-> TRUE, idr |-> TRUE] \in Obj
  BY DEF Obj
<1>1. ASSUME UNCHANGED <<sync, session, obj>>
      PROVE  SessionType'
  BY <1>1 DEF SessionType
<1>2. ASSUME NEW i, SessionClean(i), UNCHANGED sync
      PROVE  SessionType'
  <2>1. session' \in [Insts -> BOOLEAN]
    BY <1>2 DEF SessionClean, SessionType
  <2>2. obj' \in [Insts -> Obj]
    BY <1>0, <1>2 DEF SessionClean, SessionType, Obj
  <2> QED BY <1>2, <2>1, <2>2 DEF SessionType, Obj
<1>3. ASSUME NEW t \in Insts \cup Users, Try(t)
      PROVE  SessionType'
  <2>1. CASE TryState(t) \/ TryUnlock(t)
    BY <2>1 DEF TryState, TryUnlock, SessionType, Threads
  <2>2. CASE SessionInit(t)
    <3>1. obj' \in [Insts -> Obj]
      BY <1>a, <2>2 DEF SessionInit, SessionType, Obj
    <3>2. session' \in [Insts -> BOOLEAN] /\ UNCHANGED sync
      BY <2>2 DEF SessionInit, SessionType
    <3> QED BY <3>1, <3>2 DEF SessionType, Obj
  <2>3. CASE SessionInitWrite(t)
    <3>1. obj' \in [Insts -> Obj]
      BY <1>0, <2>3 DEF SessionInitWrite, SessionType, Obj
    <3>2. session' \in [Insts -> BOOLEAN] /\ UNCHANGED sync
      BY <2>3 DEF SessionInitWrite, SessionType
    <3> QED BY <3>1, <3>2 DEF SessionType, Obj
  <2>4. CASE CloseClean(t)
    BY <1>2, <2>4 DEF CloseClean, lockVars
  <2>5. CASE \/ HandlerCheck(t) \/ InitCore(t) \/ CheckCoreInit(t)
             \/ CoreInitDone(t) \/ CoreInitTimeout(t) \/ SessionInitDone(t)
             \/ SessionClose(t) \/ SessionCloseDone(t) \/ Uninit(t)
             \/ ResultCheck(t)
    BY <1>1, <2>5 DEF HandlerCheck, InitCore, CheckCoreInit, CoreInitDone,
       CoreInitTimeout, SessionInitDone, SessionClose, SessionCloseDone,
       Uninit, ResultCheck, lockVars
  <2> QED BY <1>3, <2>1, <2>2, <2>3, <2>4, <2>5 DEF Try
<1>4. ASSUME NEW t, SysError(t)
      PROVE  SessionType'
  <2>1. CASE SysErrorBegin(t) \/ \E i \in Insts : SysErrorInvalidate(t, i)
    BY <1>1, <2>1 DEF SysErrorBegin, SysErrorInvalidate, lockVars
  <2>2. CASE SysErrorRelease(t)
    <3>1. \A r \in Obj : [r EXCEPT !.device = FALSE, !.listed = FALSE] \in Obj
      BY DEF Obj
    <3>2. \A i \in Insts : obj[i] \in Obj
      BY DEF SessionType, Obj
    <3>3. obj' \in [Insts -> Obj]
      BY <2>2, <3>1, <3>2 DEF SysErrorRelease
    <3> QED BY <2>2, <3>3 DEF SysErrorRelease, SessionType, Obj
  <2> QED BY <1>4, <2>1, <2>2 DEF SysError
<1>5. ASSUME NEW t, Destroy(t)
      PROVE  SessionType'
  BY <1>1, <1>5 DEF Destroy, DestroyUnlink, DestroyFree, lockVars
<1>6. ASSUME NEW i \in Insts, Owner(i)
      PROVE  SessionType'
  <2>1. CASE FinalClean(i)
    BY <1>2, <2>1 DEF FinalClean, lockVars
  <2>2. CASE \/ OpenCount(i) \/ OpenAdd(i) \/ CloseStart(i) \/ CloseRaw(i)
             \/ CleanupGet(i) \/ CleanupPut(i) \/ CloseDeinit(i)
             \/ CloseUninit(i) \/ CloseDeinitCore(i) \/ FinalPut(i)
    BY <1>1, <2>2 DEF OpenCount, OpenAdd, CloseStart, CloseRaw, CleanupGet,
       CleanupPut, CloseDeinit, CloseUninit, CloseDeinitCore, FinalPut,
       lockVars
  <2> QED BY <1>3, <1>4, <1>5, <1>6, <2>1, <2>2 DEF Owner, OwnerStep, CloseStep
<1>7. ASSUME NEW u \in Users, User(u)
      PROVE  SessionType'
  <2>1. CASE \/ \E i \in Insts : UserCreate(u, i) \/ UserGet(u, i)
             \/ UserArp(u) \/ UserValidate(u) \/ UserPut(u)
    BY <1>1, <2>1 DEF UserCreate, UserGet, UserArp, UserValidate, UserPut,
       lockVars
  <2> QED BY <1>3, <1>5, <1>7, <2>1 DEF User, UserStep
<1>8. CASE Irq
  <2>1. CASE \/ \E i \in Insts, cmd \in {"init", "end"}, status \in {"ok", "err"} :
                  IrqTake(i, cmd, status)
             \/ IrqSysInitDone \/ IrqGet \/ IrqSkip \/ IrqSignal \/ IrqPut
    BY <1>1, <2>1 DEF IrqSysInitDone, IrqTake, IrqGet, IrqSkip, IrqSignal,
       IrqPut, lockVars
  <2> QED BY <1>5, <1>8, <2>1 DEF Irq, IrqStep
<1>9. CASE Wdog
  BY <1>1, <1>4, <1>9 DEF Wdog, WdogFire, lockVars
<1>10. CASE UNCHANGED vars
  BY <1>1, <1>10 DEF vars, lockVars
<1> QED BY <1>6, <1>7, <1>8, <1>9, <1>10 DEF Next

(* The firmware's answers, and the completions they are counted with. *)
LEMMA ReplyTypeKept ==
    ASSUME ReplyType, IInv, MInv, [Next]_vars
    PROVE  ReplyType'
<1>1. ASSUME UNCHANGED cmdVars
      PROVE  ReplyType'
  BY <1>1 DEF ReplyType, cmdVars
<1>2. ASSUME NEW t, NEW cmd \in {"init", "end"}, NEW s, NEW next,
             WaitForState(t, cmd, s, next), job[t].inst \in Insts
      PROVE  ReplyType'
  <2>1. CASE UNCHANGED cmdVars
    BY <1>1, <2>1
  <2>2. CASE ~UNCHANGED cmdVars
    <3> DEFINE i == job[t].inst
    <3>1. /\ done[i][cmd] > 0 /\ done' = [done EXCEPT ![i][cmd] = @ - 1]
          /\ UNCHANGED replies
          /\ \/ UNCHANGED <<hfi_error, prev_error>>
             \/ /\ prev_error' = [prev_error EXCEPT ![i] = hfi_error[i]]
                /\ hfi_error' = [hfi_error EXCEPT ![i] = FALSE]
      BY <1>2, <2>2 DEF WaitForState
    <3>2. done' \in [Insts -> [{"init", "end"} -> Nat]]
      <4>1. [done[i] EXCEPT ![cmd] = @ - 1] \in [{"init", "end"} -> Nat]
        BY <1>2, <3>1 DEF ReplyType
      <4>2. done' = [done EXCEPT ![i] = [done[i] EXCEPT ![cmd] = @ - 1]]
        BY <1>2, <3>1 DEF ReplyType
      <4> HIDE DEF i
      <4> QED BY <4>1, <4>2 DEF ReplyType
    <3>3. hfi_error' \in [Insts -> BOOLEAN] /\ prev_error' \in [Insts -> BOOLEAN]
      BY <1>2, <3>1 DEF ReplyType
    <3> QED BY <3>1, <3>2, <3>3 DEF ReplyType
  <2> QED BY <2>1, <2>2
<1>3. ASSUME NEW t \in Insts \cup Users, Try(t)
      PROVE  ReplyType'
  <2>0. pc[t] # "idle" => job[t].inst \in Insts
    BY JobType, ThreadsAssumption DEF Threads
  <2>1. CASE SessionInitDone(t) \/ SessionCloseDone(t)
    BY <1>2, <2>0, <2>1 DEF SessionInitDone, SessionCloseDone
  <2>2. CASE SessionInitWrite(t) \/ SessionClose(t)
    <3>1. /\ UNCHANGED <<done, hfi_error, prev_error>>
          /\ \/ UNCHANGED replies
             \/ \E cmd \in {"init", "end"} :
                  replies' = [replies EXCEPT ![job[t].inst] = @ \cup {cmd}]
      BY <2>2 DEF SessionInitWrite, SessionClose
    <3> QED BY <3>1 DEF ReplyType
  <2>3. CASE \/ TryState(t) \/ HandlerCheck(t) \/ InitCore(t)
             \/ CheckCoreInit(t) \/ CoreInitDone(t) \/ CoreInitTimeout(t)
             \/ SessionInit(t) \/ CloseClean(t) \/ Uninit(t) \/ TryUnlock(t)
             \/ ResultCheck(t)
    BY <1>1, <2>3 DEF TryState, HandlerCheck, InitCore, CheckCoreInit,
       CoreInitDone, CoreInitTimeout, SessionInit, CloseClean, Uninit,
       TryUnlock, ResultCheck
  <2> QED BY <1>3, <2>1, <2>2, <2>3 DEF Try
<1>4. ASSUME NEW t, SysError(t)
      PROVE  ReplyType'
  <2>1. CASE SysErrorBegin(t)
    BY <1>1, <2>1 DEF SysErrorBegin
  <2>2. ASSUME NEW i \in Insts, SysErrorInvalidate(t, i)
        PROVE  ReplyType'
    <3>1. /\ UNCHANGED <<replies, hfi_error, prev_error>>
          /\ \/ UNCHANGED done
             \/ done' = [done EXCEPT ![i] = [c \in {"init", "end"} |-> @[c] + 1]]
      BY <2>2 DEF SysErrorInvalidate
    <3>2. [c \in {"init", "end"} |-> done[i][c] + 1] \in [{"init", "end"} -> Nat]
      BY DEF ReplyType
    <3> QED BY <3>1, <3>2 DEF ReplyType
  <2>3. CASE SysErrorRelease(t)
    BY <2>3 DEF SysErrorRelease, ReplyType
  <2> QED BY <1>4, <2>1, <2>2, <2>3 DEF SysError
<1>5. ASSUME NEW t, Destroy(t)
      PROVE  ReplyType'
  BY <1>1, <1>5 DEF Destroy, DestroyUnlink, DestroyFree
<1>6. ASSUME NEW i \in Insts, Owner(i)
      PROVE  ReplyType'
  <2>1. CASE OpenCount(i) \/ OpenAdd(i) \/ CloseStart(i) \/ CloseStep(i)
    BY <1>1, <2>1 DEF OpenCount, OpenAdd, CloseStart, CloseStep, CloseRaw,
       CleanupGet, CleanupPut, CloseDeinit, CloseUninit, CloseDeinitCore,
       FinalClean, FinalPut
  <2> QED BY <1>3, <1>4, <1>5, <1>6, <2>1 DEF Owner, OwnerStep
<1>7. ASSUME NEW u \in Users, User(u)
      PROVE  ReplyType'
  <2>1. CASE \/ \E i \in Insts : UserCreate(u, i) \/ UserGet(u, i)
             \/ UserArp(u) \/ UserValidate(u) \/ UserPut(u)
    BY <1>1, <2>1 DEF UserCreate, UserGet, UserArp, UserValidate, UserPut
  <2> QED BY <1>3, <1>5, <1>7, <2>1 DEF User, UserStep
<1>8. CASE Irq
  <2>1. ASSUME NEW i \in Insts, NEW cmd, NEW status, IrqTake(i, cmd, status)
        PROVE  ReplyType'
    <3>1. /\ UNCHANGED <<done, hfi_error, prev_error>>
          /\ replies' = [replies EXCEPT ![i] = @ \ {cmd}]
      BY <2>1 DEF IrqTake
    <3> QED BY <3>1 DEF ReplyType
  <2>2. CASE IrqSignal
    <3>1. PICK i \in Insts : i = job["irq"].inst
      BY <2>2, JobType DEF IrqSignal, Threads
    <3>2. PICK cmd \in {"init", "end"} : cmd = job["irq"].why
      BY <2>2 DEF MInv, IrqInv, IrqSignal
    <3>3. /\ hfi_error' = [hfi_error EXCEPT ![i] = job["irq"].rc = "err"]
          /\ done' = [done EXCEPT ![i][cmd] = @ + 1]
          /\ UNCHANGED <<replies, prev_error>>
      BY <2>2, <3>1, <3>2 DEF IrqSignal
    <3>4. done' \in [Insts -> [{"init", "end"} -> Nat]]
      <4>1. [done[i] EXCEPT ![cmd] = @ + 1] \in [{"init", "end"} -> Nat]
        BY DEF ReplyType
      <4>2. done' = [done EXCEPT ![i] = [done[i] EXCEPT ![cmd] = @ + 1]]
        BY <3>3 DEF ReplyType
      <4> QED BY <4>1, <4>2 DEF ReplyType
    <3>5. hfi_error' \in [Insts -> BOOLEAN]
      <4>1. (job["irq"].rc = "err") \in BOOLEAN
        OBVIOUS
      <4> QED BY <3>3, <4>1 DEF ReplyType
    <3> QED BY <3>3, <3>4, <3>5 DEF ReplyType
  <2>3. CASE IrqSysInitDone \/ IrqGet \/ IrqSkip \/ IrqPut
    BY <1>1, <2>3 DEF IrqSysInitDone, IrqGet, IrqSkip, IrqPut
  <2> QED BY <1>5, <1>8, <2>1, <2>2, <2>3 DEF Irq, IrqStep
<1>9. CASE Wdog
  BY <1>1, <1>4, <1>9 DEF Wdog, WdogFire
<1>10. CASE UNCHANGED vars
  BY <1>1, <1>10 DEF vars
<1> QED BY <1>6, <1>7, <1>8, <1>9, <1>10 DEF Next

-----------------------------------------------------------------------------
(* Every step keeps the invariant of the references. *)
LEMMA NextKeepsMem ==
    ASSUME IInv, TypeOK, MInv, [Next]_vars
    PROVE  MInv'
<1>1. ASSUME NEW i \in Insts, Owner(i)
      PROVE  MInv'
  BY <1>1, OwnerKeepsMem, TryKeepsMem, SysErrorKeepsMem, DestroyKeepsMem
     DEF Owner, OwnerStep
<1>2. ASSUME NEW u \in Users, User(u)
      PROVE  MInv'
  BY <1>2, UserKeepsMem, TryKeepsMem, DestroyKeepsMem DEF User, UserStep
<1>3. CASE Irq
  BY <1>3, IrqKeepsMem, DestroyKeepsMem DEF Irq, IrqStep
<1>4. CASE Wdog
  <2>1. CASE WdogFire
    <3>1. /\ pc["wdog"] = "idle" /\ Goto("wdog", "sys_error") /\ UNCHANGED job
          /\ UNCHANGED <<instances, mem, kref, lost, todo, session, obj>>
      BY <2>1 DEF WdogFire, refVars
    <3>2. "wdog" \in Threads /\ "wdog" \notin Insts /\ Control
      BY ThreadsAssumption DEF Threads, IInv
    <3>3. Moves("wdog", "sys_error", job["wdog"].inst)
      BY <3>1, <3>2, GotoMoves
    <3>4. Working("wdog", "sys_error", job["wdog"].inst)
      BY <3>1, <3>2, <3>3 DEF Working, Marked
    <3>5. ListInv' /\ \A i \in Insts : SessionInv(i)'
      BY <3>1, <3>2, <3>3, ListKept, SessionKept DEF MInv
    <3> QED BY <3>1, <3>2, <3>4, <3>5, WorkingKeeps
  <2> QED BY <1>4, <2>1, SysErrorKeepsMem DEF Wdog
<1>5. CASE UNCHANGED vars
  BY <1>5, OtherKeeps DEF vars, refVars, ssrVars
<1> QED BY <1>1, <1>2, <1>3, <1>4, <1>5 DEF Next

(* The inductive invariant of this module. *)
FullInv == IInv /\ TypeOK /\ MInv

(* The initial state satisfies it. *)
LEMMA InitFullInv == Init => FullInv
<1> SUFFICES ASSUME Init PROVE FullInv
  OBVIOUS
<1>1. IInv
  BY InitIInv
<1>2. TypeOK
  <2>1. NoObj \in Obj
    BY DEF NoObj, Obj
  <2>2. CoreType
    <3>1. 0 \in 0 .. MaxSsr /\ 0 \in 0 .. MaxCreate
      BY BoundsAssumption
    <3> QED BY <3>1 DEF Init, CoreType
  <2>3. RefType /\ state \in [Insts -> 1 .. 9]
    BY DEF Init, RefType, UNINIT_DONE
  <2>4. SessionType
    BY <2>1 DEF Init, SessionType, Obj
  <2>5. ReplyType
    BY DEF Init, ReplyType
  <2> QED BY <2>2, <2>3, <2>4, <2>5, TypeParts
<1>3. \A t \in Threads : job[t].inst = t /\ (pc[t] = IF t \in Insts THEN "none" ELSE "idle")
  BY DEF Init, NoJob
<1>4. Insts \subseteq Threads /\ Users \subseteq Threads /\ "irq" \in Threads
      /\ "irq" \notin Insts /\ Insts \cap Users = {}
  BY ThreadsAssumption DEF Threads
<1>5. ASSUME NEW i \in Insts
      PROVE  KrefInv(i) /\ OwnerInv(i) /\ SessionInv(i)
  <2>1. Holders(i) = {}
    BY <1>3 DEF Holders, Holds
  <2>2. KrefInv(i)
    BY <2>1, FS_EmptySet DEF Init, KrefInv, OwnerHolds
  <2>3. OwnerInv(i)
    BY <1>3, <1>4 DEF Init, OwnerInv
  <2>4. SessionInv(i)
    BY DEF Init, SessionInv, NoObj
  <2> QED BY <2>2, <2>3, <2>4
<1>6. NextInv /\ IrqInv /\ \A u \in Users : UserInv(u)
  BY <1>3, <1>4 DEF NextInv, IrqInv, UserInv
<1>7. ListInv
  BY DEF Init, ListInv
<1> QED BY <1>1, <1>2, <1>5, <1>6, <1>7 DEF FullInv, MInv

(* It holds of every reachable state. *)
THEOREM FullInvariant == Spec => []FullInv
<1>1. ASSUME FullInv, [Next]_vars
      PROVE  FullInv'
  <2>0. CoreType /\ RefType /\ SessionType /\ ReplyType
    BY <1>1, TypeParts DEF FullInv
  <2>1. IInv'
    BY <1>1, NextKeeps DEF FullInv
  <2>2. MInv'
    BY <1>1, NextKeepsMem DEF FullInv
  <2>3. RefFuns
    BY <2>0 DEF RefType, RefFuns
  <2>4. RefFuns'
    BY <1>1, <2>3, RefFunsKept
  <2>5. RefType'
    BY <2>2, <2>4, RefTypeKept
  <2>6. CoreType' /\ SessionType' /\ ReplyType'
    BY <1>1, <2>0, CoreTypeKept, SessionTypeKept, ReplyTypeKept DEF FullInv
  <2>7. state' \in [Insts -> 1 .. 9]
    BY <2>1 DEF IInv, Control
  <2>8. TypeOK'
    BY <2>5, <2>6, <2>7 DEF TypeOK, CoreType, RefType, SessionType, ReplyType,
       UNINIT_DONE, INVALID
  <2> QED BY <2>1, <2>2, <2>8 DEF FullInv
<1> QED BY InitFullInv, <1>1, PTL DEF Spec

(* Type correctness; in particular neither a reference count nor a         *)
(* completion count falls below zero.                                      *)
THEOREM TypeCorrect == Spec => []TypeOK
<1>1. FullInv => TypeOK
  BY DEF FullInv
<1> QED BY FullInvariant, <1>1, PTL

(* The reference count of every instance is the number of those who will   *)
(* still drop a reference: however many ioctls, responses, restarts and    *)
(* closes there are, cvp_put_inst is called once for each reference.       *)
THEOREM ReferencesExact == Spec => []KrefExact
<1>1. FullInv => KrefExact
  BY DEF FullInv, MInv, KrefInv, KrefExact, Holders
<1> QED BY FullInvariant, <1>1, PTL

(* No instance and no session is used after it was freed: not by an ioctl, *)
(* the owner, the interrupt handler, the walk of handle_sys_error over     *)
(* core->instances or that of __get_session over the device list.          *)
THEOREM NothingFreedIsUsed == Spec => []MemorySafe
<1>1. ASSUME FullInv
      PROVE  NoUseAfterFree
  <2>0. /\ Insts \subseteq Threads /\ "irq" \in Threads
        /\ "irq" \notin Insts
    BY ThreadsAssumption DEF Threads
  <2>1. ASSUME NEW t \in Threads \ {"wdog"},
               pc[t] \notin {"idle", "none", "rejected", "closed", "get"}
        PROVE  mem[job[t].inst] = "live"
    <3>1. CASE t \in Insts
      BY <1>1, <2>1, <3>1 DEF FullInv, MInv, OwnerInv
    <3>2. CASE t \in Users
      <4>1. job[t].inst \in Insts
        BY <1>1, <2>1, JobType DEF FullInv
      <4> QED BY <1>1, <2>1, <3>2, <4>1 DEF FullInv, MInv, OwnerInv, UserInv
    <3>3. CASE t = "irq" /\ pc[t] \in {"destroy", "free"}
      BY <1>1, <3>3 DEF FullInv, MInv, IrqInv
    <3>4. CASE t = "irq" /\ pc[t] \in {"signal", "put"}
      <4>1. PICK i \in Insts : i = job["irq"].inst
        BY <1>1, <2>0, <3>4, JobType DEF FullInv
      <4>2. "irq" \in Holders(i)
        BY <2>0, <3>4, <4>1 DEF Holders, Holds
      <4>3. Cardinality(Holders(i)) \in Nat \ {0}
        BY <1>1, <4>2, FS_CardinalityType, FS_EmptySet
           DEF FullInv, MInv, KrefInv
      <4>4. kref[i] # 0
        BY <1>1, <4>3 DEF FullInv, MInv, KrefInv
      <4> QED BY <1>1, <3>4, <4>1, <4>4 DEF FullInv, MInv, OwnerInv
    <3> QED BY <1>1, <2>1, <3>1, <3>2, <3>3, <3>4
            DEF FullInv, MInv, IrqInv, Threads
  <2>2. \A i \in instances \cup todo : mem[i] = "live"
    BY <1>1 DEF FullInv, MInv, ListInv
  <2> QED BY <2>1, <2>2 DEF NoUseAfterFree
<1>2. ASSUME FullInv
      PROVE  SessionsLive
  BY <1>2 DEF FullInv, MInv, SessionInv, OwnerInv, NoSession, SessionsLive
<1>3. FullInv => MemorySafe
  BY <1>1, <1>2 DEF MemorySafe
<1> QED BY FullInvariant, <1>3, PTL

-----------------------------------------------------------------------------
(* An instance that is open has a session the device knows.                *)

(* The threads that drive the state machine. *)
Clients == Insts \cup Users

(* The labels inside msm_cvp_comm_try_state, where sync_lock is held. *)
InTry == {"init_core", "core_done", "core_wait", "sys_error", "invalidate",
          "open_session", "open_write", "open_done", "close_session",
          "close_done", "close_clean", "uninit", "check", "unlock"}

(* sync_lock admits one thread to the state machine of an instance. *)
SyncInv(t) == pc[t] \in InTry => sync[job[t].inst] = t

(* Thread t is at a handler, or will go on with it. *)
At(t, label) ==
    \/ pc[t] = label
    \/ pc[t] = "check" /\ job[t].rc = "ok" /\ job[t].next = label

(* What a handler knows of the state of its instance: its entry in         *)
(* cvp_state_handler, unless a restart has come between.                   *)
StateInv(t) ==
    LET s == state[job[t].inst]
    IN  /\ pc[t] = "init_core" => s \in {UNINIT_DONE, INVALID}
        /\ At(t, "core_done") \/ pc[t] = "core_wait" => s \in {INIT, INVALID}
        /\ At(t, "open_session") \/ pc[t] = "open_write"
             => s \in {INIT_DONE, INVALID}
        /\ At(t, "open_done") => s \in {OPEN, INVALID}
        /\ At(t, "close_clean") => s \in {CLOSE_DONE, INVALID}
        /\ pc[t] \in InTry /\ job[t].flip >= CLOSE_DONE
             => \/ pc[t] \in {"uninit", "unlock"}
                \/ pc[t] = "check" /\ job[t].next = "fail"

(* The handlers msm_cvp_open does not reach. *)
Beyond == {"open_session", "open_write", "open_done", "close_session",
           "close_clean", "uninit"}

(* msm_cvp_open does not get beyond INIT_DONE. *)
OpenTry(i) ==
    job[i].why = "open" /\ pc[i] \in InTry \cup {"try", "verdict"} =>
      /\ state[i] \in {UNINIT_DONE, INIT, INIT_DONE, INVALID}
      /\ pc[i] = "try" => state[i] \in {UNINIT_DONE, INVALID}
      /\ pc[i] \notin Beyond
      /\ pc[i] = "close_done" => state[i] = INVALID
      /\ pc[i] = "check" =>
           \/ job[i].next \in {"core_done", "open_session"}
           \/ job[i].next = "close_clean" /\ job[i].rc # "ok"

(* The owner of an instance: it is listed from "add" to its destruction. *)
OpenInv(i) ==
    /\ pc[i] \in {"none", "rejected", "add"}
         => i \notin instances /\ state[i] = UNINIT_DONE
    /\ pc[i] \notin {"none", "rejected", "add", "free", "closed"}
         => i \in instances
    /\ OpenTry(i)
    /\ pc[i] = "opened" => job[i].why = "none"

(* device->lock is held from the publication of a session to its command. *)
WriteInv(t) ==
    pc[t] = "open_write"
      => dev_lock = t /\ session[job[t].inst] /\ obj[job[t].inst].listed

(* What thread t knows of its instance. *)
ThreadInv(t) == SyncInv(t) /\ StateInv(t) /\ WriteInv(t)

(* The last labels of the owner. *)
Ending == {"clean", "put", "destroy", "free", "closed"}

(* The walk of handle_sys_error leaves instances behind that are INVALID   *)
(* or about to be destroyed.                                               *)
MarkInv == Restarting => \A i \in instances \ todo :
                           state[i] = INVALID \/ pc[i] \in Ending

SInv == /\ \A t \in Clients : ThreadInv(t)
        /\ \A i \in Insts : OpenInv(i)
        /\ MarkInv
        /\ OpenHasSession

(* What a step of thread t may do to what the others rely on. *)
Frame(t) == \A u \in Threads \ {t} : pc'[u] = pc[u] /\ job'[u] = job[u]

Ours(t, j) == t \in Clients /\ j = job[t].inst

Change(t) ==
    /\ Frame(t)
    /\ \A j \in Insts :
         \/ state'[j] = state[j]
         \/ state'[j] = INVALID /\ (j \in todo \/ Ours(t, j))
         \/ Ours(t, j) /\ pc[t] \in InTry
         \/ j = t /\ pc[t] \in {"raw", "deinit_core"}
    /\ \A j \in Insts :
         \/ sync'[j] = sync[j]
         \/ sync[j] = "none"
         \/ Ours(t, j) /\ pc[t] = "unlock"
    /\ \/ dev_lock' = dev_lock
       \/ dev_lock = "none"
       \/ t \in Clients /\ pc[t] = "open_write"
    /\ \A j \in Insts :
         \/ session'[j] = session[j] /\ obj'[j].listed = obj[j].listed
         \/ pc[t] = "invalidate" /\ todo = {} /\ dev_lock = "none"
         \/ /\ Ours(t, j)
            /\ pc[t] \in {"open_session", "open_write", "close_clean"}
         \/ j = t /\ pc[t] = "clean"
    /\ \A j \in Insts :
         \/ j \in instances' <=> j \in instances
         \/ j = t /\ pc[t] = "add"
         \/ t # "wdog" /\ j = job[t].inst /\ pc[t] = "destroy"

(* An ioctl works on an instance whose owner waits for the close. *)
LEMMA ClientInst ==
    ASSUME FullInv, NEW t \in Clients, pc[t] # "idle"
    PROVE  /\ t \in Threads /\ job[t].inst \in Insts
           /\ t \in Insts => job[t].inst = t
           /\ t \notin Insts => pc[job[t].inst] = "opened"
<1>1. t \in Threads /\ t # "wdog"
  BY ThreadsAssumption DEF Clients, Threads
<1>2. job[t].inst \in Insts
  BY <1>1, JobType DEF FullInv
<1> QED BY <1>1, <1>2 DEF FullInv, MInv, OwnerInv, UserInv, Clients

(* A step of another thread leaves what a thread knows alone. *)
LEMMA OthersKeep ==
    ASSUME FullInv, SInv, NEW t \in Threads, Change(t),
           NEW u \in Clients, u # t
    PROVE  ThreadInv(u)'
<1> DEFINE i == job[u].inst
<1>0. u \in Threads /\ u # "none"
  BY ThreadsAssumption DEF Clients, Threads
<1>1. pc'[u] = pc[u] /\ job'[u] = job[u]
  BY <1>0 DEF Change, Frame
<1>2. CASE pc[u] \notin InTry
  BY <1>1, <1>2 DEF ThreadInv, SyncInv, StateInv, WriteInv, At, InTry
<1>3. CASE pc[u] \in InTry
  <2>1. /\ i \in Insts /\ sync[i] = u
        /\ u \in Insts => i = u
        /\ u \notin Insts => pc[i] = "opened"
    BY <1>3, ClientInst DEF SInv, ThreadInv, SyncInv, InTry
  <2>2. /\ Ours(t, i) => pc[t] \notin InTry
        /\ i = t => pc[t] = "opened"
    BY <2>1 DEF Ours, SInv, ThreadInv, SyncInv
  <2>3. state'[i] \in {state[i], INVALID}
    BY <2>1, <2>2 DEF Change, InTry
  <2>4. sync'[i] = u
    BY <1>0, <2>1, <2>2 DEF Change, InTry
  <2>5. ASSUME pc[u] = "open_write"
        PROVE  /\ dev_lock' = u
               /\ session'[i] /\ obj'[i].listed
    <3>1. dev_lock = u /\ session[i] /\ obj[i].listed
      BY <2>5 DEF SInv, ThreadInv, WriteInv
    <3>2. t \in Clients => pc[t] # "open_write"
      BY <3>1 DEF SInv, ThreadInv, WriteInv
    <3>3. dev_lock' = u
      BY <1>0, <3>1, <3>2 DEF Change
    <3>4. session'[i] /\ obj'[i].listed
      BY <1>0, <2>1, <2>2, <3>1 DEF Change, InTry
    <3> QED BY <3>3, <3>4
  <2>6. StateInv(u)
    BY DEF SInv, ThreadInv
  <2>7. StateInv(u)'
    BY <1>1, <2>3, <2>6 DEF StateInv, At
  <2> QED BY <1>1, <2>1, <2>4, <2>5, <2>7 DEF ThreadInv, SyncInv, WriteInv
<1> QED BY <1>2, <1>3

(* A step of another thread leaves what the owner knows alone. *)
LEMMA OthersKeepOpen ==
    ASSUME FullInv, SInv, NEW t \in Threads, Change(t),
           NEW i \in Insts, i # t
    PROVE  OpenInv(i)'
<1>0. i \in Threads
  BY DEF Threads
<1>1. pc'[i] = pc[i] /\ job'[i] = job[i]
  BY <1>0 DEF Change, Frame
<1>2. OpenInv(i)
  BY DEF SInv
<1>3. pc[i] # "opened" => ~Ours(t, i) \/ pc[t] = "idle"
  BY ClientInst DEF Ours
<1>4. pc[i] # "opened" => state'[i] = state[i] \/ (state'[i] = INVALID /\ i \in instances)
  <2>1. i \in todo => i \in instances
    BY DEF FullInv, MInv, ListInv
  <2>2. ~Ours(t, i) => state'[i] = state[i] \/ (state'[i] = INVALID /\ i \in todo)
    BY DEF Change
  <2>3. CASE pc[i] # "opened" /\ Ours(t, i) /\ pc[t] = "idle"
    <3>1. t \in Users => job[t].inst = t
      BY <2>3 DEF FullInv, MInv, UserInv
    <3>2. t \in Insts => job[t].inst = t
      BY DEF FullInv, MInv, OwnerInv
    <3> QED BY <2>3, <3>1, <3>2 DEF Ours, Clients
  <2> QED BY <1>3, <2>1, <2>2, <2>3
<1>5. pc[i] # "closed" => (i \in instances' <=> i \in instances)
  <2>1. CASE job[t].inst = i /\ pc[t] = "destroy"
    <3>1. pc[i] = "closed" \/ t = "wdog"
      <4>1. t \notin Users
        BY <2>1 DEF FullInv, MInv, UserInv
      <4>2. t \in Insts => job[t].inst = t
        BY DEF FullInv, MInv, OwnerInv
      <4>3. t = "irq" => pc[i] = "closed"
        BY <2>1 DEF FullInv, MInv, IrqInv
      <4> QED BY <2>1, <4>1, <4>2, <4>3 DEF Threads
    <3> QED BY <2>1, <3>1 DEF Change
  <2> QED BY <2>1 DEF Change
<1> QED BY <1>1, <1>2, <1>4, <1>5 DEF OpenInv, OpenTry, UNINIT_DONE, INVALID

-----------------------------------------------------------------------------
(* What the ways to go on do to the control: a plain jump. *)
LEMMA GotoJob ==
    ASSUME Control, NEW t \in Threads, NEW label, Goto(t, label),
           UNCHANGED job
    PROVE  Frame(t) /\ pc'[t] = label /\ job'[t] = job[t]
BY DEF Control, Goto, Frame

(* The end of a handler. *)
LEMMA ThenJob ==
    ASSUME Control, NEW t \in Threads, NEW rc, NEW next, Then(t, rc, next)
    PROVE  /\ Frame(t) /\ pc'[t] = "check"
           /\ job'[t].inst = job[t].inst /\ job'[t].why = job[t].why
           /\ job'[t].flip = job[t].flip
           /\ job'[t].rc = rc /\ job'[t].next = next
<1>1. Frame(t) /\ pc'[t] = "check"
  BY DEF Control, Then, Goto, Frame
<1>2. job'[t] = [job[t] EXCEPT !.rc = rc, !.next = next]
  BY DEF Control, Then
<1>3. job[t] \in Job
  BY DEF Control
<1> QED BY <1>1, <1>2, <1>3 DEF Job

(* The return of a call. *)
LEMMA ReturnJob ==
    ASSUME Control, NEW t \in Threads, NEW i, NEW label, Return(t, i, label)
    PROVE  Frame(t) /\ pc'[t] = label /\ job'[t].why = "none"
BY DEF Control, Return, Goto, Frame, NoJob

(* The call of msm_cvp_comm_try_state. *)
LEMMA CallTryJob ==
    ASSUME Control, NEW t \in Threads, NEW i, NEW why, CallTry(t, i, why)
    PROVE  Frame(t) /\ pc'[t] = "try" /\ job'[t].why = why
BY DEF Control, CallTry, Goto, Frame, NoJob

(* A step that only moves its thread is a Change. *)
LEMMA QuietChange ==
    ASSUME NEW t \in Threads, Frame(t),
           UNCHANGED <<state, sync, dev_lock, session, obj, instances>>
    PROVE  Change(t)
BY DEF Change

(* The state of an instance is stored to. *)
LEMMA StateStored ==
    ASSUME Control, NEW i \in Insts, NEW s, ChangeState(i, s)
    PROVE  /\ \A j \in Insts \ {i} : state'[j] = state[j]
           /\ state'[i] = IF state[i] = INVALID THEN INVALID ELSE s
BY DEF Control, ChangeState

(* Every step of the state machine is a Change. *)
LEMMA TryChange ==
    ASSUME FullInv, NEW t \in Clients, Try(t)
    PROVE  Change(t)
<1> DEFINE i == job[t].inst
<1>0. Control /\ t \in Threads
  BY DEF FullInv, IInv, Clients, Threads
<1>1. pc[t] # "idle"
  BY DEF Try, TryState, HandlerCheck, InitCore, CheckCoreInit, CoreInitDone,
         CoreInitTimeout, SessionInit, SessionInitWrite, SessionInitDone,
         SessionClose, SessionCloseDone, CloseClean, Uninit, TryUnlock,
         ResultCheck
<1>2. i \in Insts /\ Ours(t, i)
  BY <1>1, ClientInst DEF Ours
<1> DEFINE StateOnly == \A j \in Insts : state'[j] = state[j] \/ j = i
<1>3. ASSUME NEW s, ChangeState(i, s)
      PROVE  StateOnly
  BY <1>0, <1>2, <1>3, StateStored
<1>4. ASSUME Frame(t), StateOnly, pc[t] \in InTry,
             UNCHANGED <<sync, dev_lock, session, obj, instances>>
      PROVE  Change(t)
  BY <1>2, <1>4 DEF Change
<1>5. ASSUME UNCHANGED state
      PROVE  StateOnly
  BY <1>5
<1>6. CASE TryState(t)
  <2>1. Frame(t)
    BY <1>0, <1>6 DEF TryState, Return, Goto, Frame, Control
  <2>2. UNCHANGED <<state, dev_lock, session, obj, instances>>
    BY <1>6 DEF TryState, refVars
  <2>3. \A j \in Insts : sync'[j] = sync[j] \/ sync[j] = "none"
    BY <1>6 DEF TryState, FullInv, TypeOK
  <2> QED BY <2>1, <2>2, <2>3 DEF Change
<1>7. CASE HandlerCheck(t)
  <2>1. Frame(t)
    BY <1>0, <1>7 DEF HandlerCheck, Goto, Frame, Control
  <2>2. UNCHANGED <<state, sync, dev_lock, session, obj, instances>>
    BY <1>7 DEF HandlerCheck, refVars, lockVars
  <2> QED BY <1>0, <2>1, <2>2, QuietChange
<1>8. CASE InitCore(t)
  <2>1. Frame(t)
    BY <1>0, <1>8, ThenJob DEF InitCore
  <2>2. StateOnly
    BY <1>3, <1>5, <1>8 DEF InitCore
  <2>3. UNCHANGED <<sync, dev_lock, session, obj, instances>> /\ pc[t] \in InTry
    BY <1>8 DEF InitCore, refVars, lockVars, InTry
  <2> QED BY <1>4, <2>1, <2>2, <2>3
<1>9. CASE CheckCoreInit(t)
  <2>1. Frame(t)
    BY <1>0, <1>9, ThenJob, GotoJob DEF CheckCoreInit
  <2>2. StateOnly
    BY <1>3, <1>5, <1>9 DEF CheckCoreInit
  <2>3. UNCHANGED <<sync, dev_lock, session, obj, instances>> /\ pc[t] \in InTry
    BY <1>9 DEF CheckCoreInit, refVars, InTry
  <2> QED BY <1>4, <2>1, <2>2, <2>3
<1>10. CASE CoreInitDone(t)
  <2>1. Frame(t)
    BY <1>0, <1>10, ThenJob DEF CoreInitDone
  <2>2. StateOnly
    BY <1>3, <1>10 DEF CoreInitDone
  <2>3. UNCHANGED <<sync, dev_lock, session, obj, instances>> /\ pc[t] \in InTry
    BY <1>10 DEF CoreInitDone, refVars, InTry
  <2> QED BY <1>4, <2>1, <2>2, <2>3
<1>11. CASE CoreInitTimeout(t)
  <2>1. Frame(t)
    BY <1>0, <1>11, GotoJob DEF CoreInitTimeout
  <2>2. UNCHANGED <<state, sync, dev_lock, session, obj, instances>>
    BY <1>11 DEF CoreInitTimeout, refVars
  <2> QED BY <1>0, <2>1, <2>2, QuietChange
<1>12. CASE SessionInit(t)
  <2>1. Frame(t)
    BY <1>0, <1>12, GotoJob DEF SessionInit
  <2>2. UNCHANGED <<state, sync, instances>> /\ dev_lock = "none" /\ pc[t] = "open_session"
    BY <1>12 DEF SessionInit, refVars, DevFree
  <2>3. \A j \in Insts \ {i} : session'[j] = session[j] /\ obj'[j] = obj[j]
    BY <1>12 DEF SessionInit, FullInv, TypeOK
  <2> QED BY <1>2, <2>1, <2>2, <2>3 DEF Change
<1>13. CASE SessionInitWrite(t)
  <2>1. Frame(t)
    BY <1>0, <1>13, ThenJob DEF SessionInitWrite
  <2>2. UNCHANGED <<sync, instances>> /\ pc[t] = "open_write"
    BY <1>13 DEF SessionInitWrite, refVars
  <2>3. \A j \in Insts \ {i} : session'[j] = session[j] /\ obj'[j] = obj[j]
    BY <1>13 DEF SessionInitWrite, FullInv, TypeOK
  <2>4. StateOnly
    BY <1>3, <1>5, <1>13 DEF SessionInitWrite
  <2> QED BY <1>2, <2>1, <2>2, <2>3, <2>4 DEF Change, InTry
<1>14. CASE SessionInitDone(t) \/ SessionCloseDone(t)
  <2>1. Frame(t)
    BY <1>0, <1>14, ThenJob DEF SessionInitDone, SessionCloseDone, WaitForState
  <2>2. StateOnly
    BY <1>3, <1>5, <1>14 DEF SessionInitDone, SessionCloseDone, WaitForState
  <2>3. UNCHANGED <<sync, dev_lock, session, obj, instances>> /\ pc[t] \in InTry
    BY <1>14 DEF SessionInitDone, SessionCloseDone, refVars, lockVars, InTry
  <2> QED BY <1>4, <2>1, <2>2, <2>3
<1>15. CASE SessionClose(t) \/ Uninit(t)
  <2>1. Frame(t)
    BY <1>0, <1>15, ThenJob DEF SessionClose, Uninit
  <2>2. StateOnly
    BY <1>3, <1>5, <1>15 DEF SessionClose, Uninit
  <2>3. UNCHANGED <<sync, dev_lock, session, obj, instances>> /\ pc[t] \in InTry
    BY <1>15 DEF SessionClose, Uninit, refVars, lockVars, InTry
  <2> QED BY <1>4, <2>1, <2>2, <2>3
<1>16. CASE CloseClean(t)
  <2>1. Frame(t)
    BY <1>0, <1>16, GotoJob DEF CloseClean
  <2>2. UNCHANGED <<state, sync, dev_lock, instances>> /\ pc[t] = "close_clean"
    BY <1>16 DEF CloseClean, refVars, lockVars
  <2>3. \A j \in Insts \ {i} : session'[j] = session[j] /\ obj'[j] = obj[j]
    BY <1>16 DEF CloseClean, SessionClean, FullInv, TypeOK
  <2> QED BY <1>2, <2>1, <2>2, <2>3 DEF Change
<1>17. CASE TryUnlock(t)
  <2>1. Frame(t)
    BY <1>0, <1>17, GotoJob DEF TryUnlock
  <2>2. UNCHANGED <<state, dev_lock, session, obj, instances>> /\ pc[t] = "unlock"
    BY <1>17 DEF TryUnlock, refVars
  <2>3. \A j \in Insts \ {i} : sync'[j] = sync[j]
    BY <1>17 DEF TryUnlock, FullInv, TypeOK
  <2> QED BY <1>2, <2>1, <2>2, <2>3 DEF Change
<1>18. CASE ResultCheck(t)
  <2>1. Frame(t)
    BY <1>0, <1>18, ReturnJob DEF ResultCheck
  <2>2. UNCHANGED <<sync, dev_lock, session, obj, instances>>
    BY <1>18 DEF ResultCheck, refVars, lockVars
  <2>3. \A j \in Insts : state'[j] = state[j] \/ (j = i /\ state'[j] = INVALID)
    BY <1>0, <1>18 DEF ResultCheck, Control
  <2> QED BY <1>2, <2>1, <2>2, <2>3 DEF Change
<1> QED BY <1>6, <1>7, <1>8, <1>9, <1>10, <1>11, <1>12, <1>13, <1>14, <1>15,
           <1>16, <1>17, <1>18 DEF Try

(* Every step of the state machine keeps what its thread knows. *)
LEMMA TryKeepsThread ==
    ASSUME FullInv, SInv, NEW t \in Clients, Try(t)
    PROVE  ThreadInv(t)' /\ (t \in Insts => OpenInv(t)')
<1> DEFINE i == job[t].inst
<1> USE DEF UNINIT_DONE, INIT, INIT_DONE, OPEN, OPEN_DONE, CLOSE, CLOSE_DONE,
            CORE_UNINIT, INVALID
<1>0. /\ Control /\ t \in Threads /\ ThreadInv(t)
      /\ t \in Insts => OpenInv(t)
      /\ state \in [Insts -> 1 .. 9] /\ job[t] \in Job
      /\ sync \in [Insts -> Threads \cup {"none"}]
  BY DEF FullInv, IInv, Control, TypeOK, SInv, Clients, Threads
<1>1. pc[t] \in InTry \cup {"try", "verdict"} /\ UNCHANGED instances
  BY DEF Try, TryState, HandlerCheck, InitCore, CheckCoreInit, CoreInitDone,
         CoreInitTimeout, SessionInit, SessionInitWrite, SessionInitDone,
         SessionClose, SessionCloseDone, CloseClean, Uninit, TryUnlock,
         ResultCheck, InTry, refVars
<1>2. i \in Insts /\ (t \in Insts => i = t)
  BY <1>1, ClientInst DEF InTry
<1>3. ASSUME pc'[t] \notin InTry
      PROVE  ThreadInv(t)'
  BY <1>3 DEF ThreadInv, SyncInv, StateInv, WriteInv, At, InTry
<1>4. ASSUME t \in Insts, OpenTry(t)',
             pc'[t] \notin {"none", "rejected", "add"},
             pc'[t] = "opened" => job'[t].why = "none"
      PROVE  OpenInv(t)'
  BY <1>0, <1>1, <1>4 DEF OpenInv, InTry
<1>5. ASSUME pc[t] \in InTry, UNCHANGED sync, job'[t].inst = i
      PROVE  SyncInv(t)'
  BY <1>0, <1>5 DEF ThreadInv, SyncInv
<1> DEFINE Mine == ThreadInv(t)' /\ (t \in Insts => OpenInv(t)')
<1>a. ASSUME NEW rc, NEW next, Then(t, rc, next), UNCHANGED sync,
             pc[t] \in InTry \ {"uninit", "unlock", "check"},
             rc # "ok" => state'[i] = state[i],
             rc = "ok" =>
               /\ next = "core_done" => state'[i] \in {INIT, INVALID}
               /\ next = "open_session" => state'[i] \in {INIT_DONE, INVALID}
               /\ next = "open_done" => state'[i] \in {OPEN, INVALID}
               /\ next = "close_clean" => state'[i] \in {CLOSE_DONE, INVALID},
             \/ pc[t] \in Beyond
             \/ next \in {"core_done", "open_session"}
             \/ t \in Insts /\ job[t].why = "open"
                  => rc # "ok" /\ next = "close_clean"
      PROVE  Mine
  <2>1. /\ pc'[t] = "check" /\ job'[t].inst = i /\ job'[t].why = job[t].why
        /\ job'[t].flip = job[t].flip
        /\ job'[t].rc = rc /\ job'[t].next = next
    BY <1>0, <1>a, ThenJob
  <2>2. job[t].flip \in 0 .. 6
    <3>1. StateInv(t) /\ job[t].flip \in 0 .. 9
      BY <1>0 DEF ThreadInv, Job
    <3> QED BY <1>a, <3>1 DEF StateInv
  <2>3. StateInv(t)'
    BY <1>a, <2>1, <2>2 DEF StateInv, At
  <2>4. ThreadInv(t)'
    BY <1>5, <1>a, <2>1, <2>3 DEF ThreadInv, WriteInv
  <2>5. ASSUME t \in Insts, job[t].why = "open"
        PROVE  OpenTry(t)'
    <3>1. pc[t] \notin Beyond /\ state[t] \in {UNINIT_DONE, INIT, INIT_DONE, INVALID}
      BY <1>0, <1>1, <2>5 DEF OpenInv, OpenTry
    <3> QED BY <1>2, <1>a, <2>1, <2>5, <3>1 DEF OpenTry, Beyond
  <2>6. t \in Insts => OpenTry(t)'
    BY <2>1, <2>5 DEF OpenTry
  <2> QED BY <1>4, <2>1, <2>4, <2>6
<1>6. CASE TryState(t)
  <2>1. CASE state[i] = INVALID /\ core_state = "UNINIT"
    <3>1. Return(t, i, AfterTry(job[t].why, FALSE))
      BY <1>6, <2>1 DEF TryState
    <3>2. pc'[t] = AfterTry(job[t].why, FALSE) /\ job'[t].why = "none"
      BY <1>0, <3>1, ReturnJob
    <3>3. pc'[t] \notin InTry \cup {"none", "rejected", "add"}
      BY <3>2 DEF AfterTry, InTry
    <3> QED BY <1>3, <1>4, <3>2, <3>3 DEF OpenTry
  <2>2. CASE ~(state[i] = INVALID /\ core_state = "UNINIT")
    <3> DEFINE flip == Flip(state[i], Goal(job[t].why))
    <3>1. /\ sync' = [sync EXCEPT ![i] = t]
          /\ job' = [job EXCEPT ![t].flip = flip]
          /\ Goto(t, Handler(flip)) /\ UNCHANGED state /\ pc[t] = "try"
      BY <1>6, <2>2 DEF TryState
    <3>2. /\ job'[t].inst = i /\ job'[t].why = job[t].why
          /\ job'[t].flip = flip /\ pc'[t] = Handler(flip)
      BY <1>0, <3>1 DEF Control, Job, Goto
    <3>3. /\ state[i] \in 1 .. 9
          /\ flip \in {state[i], CLOSE, CORE_UNINIT}
          /\ flip = CLOSE => state[i] \in {CLOSE, INVALID}
          /\ flip = CORE_UNINIT => state[i] \in {INIT_DONE, CORE_UNINIT}
          /\ flip # INVALID
      BY <1>0, <1>2 DEF Flip
    <3>4. /\ pc'[t] = "init_core" => flip = 1
          /\ pc'[t] = "core_done" => flip = 2
          /\ pc'[t] = "open_session" => flip = 3
          /\ pc'[t] = "open_done" => flip = 4
          /\ pc'[t] \notin {"core_wait", "open_write", "check", "close_clean"}
          /\ flip \in 7 .. 9 => pc'[t] = "uninit"
      BY <3>2, <3>3 DEF Handler
    <3>5. StateInv(t)'
      BY <3>1, <3>2, <3>3, <3>4 DEF StateInv, At
    <3>6. sync'[i] = t
      BY <1>0, <1>2, <3>1
    <3>7. ThreadInv(t)'
      BY <3>2, <3>4, <3>5, <3>6 DEF ThreadInv, SyncInv, WriteInv
    <3>8. ASSUME t \in Insts, job[t].why = "open"
          PROVE  OpenTry(t)'
      <4>1. state[i] \in {UNINIT_DONE, INVALID}
        BY <1>0, <1>2, <3>1, <3>8 DEF OpenInv, OpenTry
      <4>2. flip = IF state[i] = INVALID THEN CLOSE ELSE UNINIT_DONE
        BY <4>1 DEF Flip
      <4>3. pc'[t] = IF state[i] = INVALID THEN "close_done" ELSE "init_core"
        BY <3>2, <4>2 DEF Handler
      <4> QED BY <1>2, <3>1, <3>8, <4>1, <4>3 DEF OpenTry, Beyond
    <3>9. t \in Insts => OpenTry(t)'
      BY <3>2, <3>8 DEF OpenTry
    <3>10. pc'[t] \notin {"none", "rejected", "add", "opened"}
      BY <3>2 DEF Handler
    <3> QED BY <1>4, <3>7, <3>9, <3>10
  <2> QED BY <2>1, <2>2
<1>7. CASE HandlerCheck(t)
  <2> DEFINE stop == \/ job[t].rc # "ok"
                     \/ Goal(job[t].why) <= Flip(state[i], Goal(job[t].why))
  <2>1. /\ pc[t] = "check" /\ UNCHANGED <<state, sync>>
        /\ Goto(t, IF stop \/ job[t].next = "fail" THEN "unlock"
                                                   ELSE job[t].next)
        /\ job' = IF ~stop /\ job[t].next = "fail"
                  THEN [job EXCEPT ![t].rc = "err"] ELSE job
    BY <1>7 DEF HandlerCheck, lockVars
  <2>2. /\ pc'[t] = IF stop \/ job[t].next = "fail" THEN "unlock"
                                                    ELSE job[t].next
        /\ job'[t].inst = i /\ job'[t].why = job[t].why
        /\ job'[t].flip = job[t].flip
    <3>1. job[t] \in Job
      BY <1>0
    <3> QED BY <1>0, <2>1, <3>1 DEF Control, Job, Goto
  <2>3. job[t].next \in Nexts \ {"none"}
    BY <1>0, <2>1 DEF Job, FullInv, MInv, NextInv
  <2>4. pc'[t] \in InTry \ {"init_core", "core_wait", "open_write", "check"}
    BY <2>2, <2>3 DEF Nexts, InTry
  <2>5. StateInv(t)
    BY <1>0 DEF ThreadInv
  <2>6. StateInv(t)'
    <3>1. CASE pc'[t] = "unlock"
      BY <3>1 DEF StateInv, At
    <3>2. CASE pc'[t] # "unlock"
      <4>1. pc'[t] = job[t].next /\ job[t].rc = "ok" /\ job[t].next # "fail"
        BY <2>2, <3>2
      <4>2. At(t, pc'[t])
        BY <2>1, <4>1 DEF At
      <4>3. job[t].flip \in 0 .. 6
        BY <1>0, <2>1, <2>5, <4>1 DEF StateInv, InTry, Job
      <4> QED BY <2>1, <2>2, <2>4, <2>5, <4>2, <4>3 DEF StateInv, At
    <3> QED BY <3>1, <3>2
  <2>7. ThreadInv(t)'
    BY <1>5, <2>1, <2>2, <2>4, <2>6 DEF ThreadInv, WriteInv, InTry
  <2>8. ASSUME t \in Insts, job[t].why = "open"
        PROVE  OpenTry(t)'
    <3>1. /\ state[i] \in {UNINIT_DONE, INIT, INIT_DONE, INVALID}
          /\ \/ job[t].next \in {"core_done", "open_session"}
             \/ job[t].next = "close_clean" /\ job[t].rc # "ok"
      BY <1>0, <1>2, <2>1, <2>8 DEF OpenInv, OpenTry, InTry
    <3>2. CASE job[t].next = "open_session" /\ job[t].rc = "ok"
      <4>1. state[i] \in {INIT_DONE, INVALID}
        BY <2>1, <2>5, <3>2 DEF StateInv, At
      <4>2. Goal(job[t].why) <= Flip(state[i], Goal(job[t].why))
        BY <2>8, <4>1 DEF Goal, Flip
      <4>3. pc'[t] = "unlock"
        BY <2>2, <4>2
      <4> QED BY <1>2, <2>1, <2>8, <3>1, <4>3 DEF OpenTry, Beyond
    <3>3. CASE job[t].rc # "ok" \/ job[t].next = "core_done"
      <4>1. pc'[t] \in {"unlock", "core_done"}
        BY <2>2, <3>3
      <4> QED BY <1>2, <2>1, <2>8, <3>1, <4>1 DEF OpenTry, Beyond
    <3> QED BY <3>1, <3>2, <3>3
  <2>9. t \in Insts => OpenTry(t)'
    BY <2>2, <2>8 DEF OpenTry
  <2> QED BY <1>4, <2>4, <2>7, <2>9 DEF InTry
<1>8. CASE InitCore(t)
  <2>1. pc[t] = "init_core" /\ UNCHANGED sync
    BY <1>8 DEF InitCore, lockVars
  <2>2. CASE Then(t, "ok", "core_done") /\ ChangeState(i, INIT)
    BY <1>0, <1>2, <1>a, <2>1, <2>2, StateStored DEF InTry
  <2>3. CASE Then(t, "err", "core_done") /\ UNCHANGED state
    BY <1>0, <1>2, <1>a, <2>1, <2>3 DEF InTry
  <2> QED BY <1>8, <2>2, <2>3 DEF InitCore
<1>9. CASE CheckCoreInit(t) \/ CoreInitDone(t)
  <2>1. pc[t] \in {"core_done", "core_wait"} /\ UNCHANGED sync
    BY <1>9 DEF CheckCoreInit, CoreInitDone
  <2>2. CASE Then(t, "ok", "open_session") /\ ChangeState(i, INIT_DONE)
    BY <1>0, <1>2, <1>a, <2>1, <2>2, StateStored DEF InTry
  <2>3. CASE /\ pc[t] = "core_done" /\ Goto(t, "core_wait")
             /\ UNCHANGED <<state, job>>
    <3>1. pc'[t] = "core_wait" /\ job'[t] = job[t] /\ UNCHANGED state
      BY <1>0, <2>3, GotoJob
    <3>2. StateInv(t)'
      BY <1>0, <2>3, <3>1 DEF ThreadInv, StateInv, At, InTry
    <3>3. ThreadInv(t)'
      BY <1>5, <2>1, <3>1, <3>2 DEF ThreadInv, WriteInv, InTry
    <3>4. t \in Insts => OpenTry(t)'
      BY <1>0, <2>3, <3>1 DEF OpenInv, OpenTry, InTry, Beyond
    <3> QED BY <1>4, <3>1, <3>3, <3>4
  <2> QED BY <1>9, <2>2, <2>3 DEF CheckCoreInit, CoreInitDone
<1>11. CASE CoreInitTimeout(t)
  <2>1. /\ pc[t] = "core_wait" /\ Goto(t, "sys_error")
        /\ UNCHANGED <<state, job, sync>>
    BY <1>11 DEF CoreInitTimeout
  <2>2. pc'[t] = "sys_error" /\ job'[t] = job[t]
    BY <1>0, <2>1, GotoJob
  <2>3. StateInv(t)'
    BY <1>0, <2>1, <2>2 DEF ThreadInv, StateInv, At, InTry
  <2>4. ThreadInv(t)'
    BY <1>5, <2>1, <2>2, <2>3 DEF ThreadInv, WriteInv, InTry
  <2>5. t \in Insts => OpenTry(t)'
    BY <1>0, <2>1, <2>2 DEF OpenInv, OpenTry, InTry, Beyond
  <2> QED BY <1>4, <2>2, <2>4, <2>5
<1>12. CASE SessionInit(t)
  <2>1. /\ pc[t] = "open_session" /\ Goto(t, "open_write")
        /\ UNCHANGED <<state, job, sync>> /\ dev_lock' = t
    BY <1>12 DEF SessionInit
  <2>2. pc'[t] = "open_write" /\ job'[t] = job[t]
    BY <1>0, <2>1, GotoJob
  <2>3. session'[i] /\ obj'[i].listed
    BY <1>2, <1>12 DEF SessionInit, FullInv, TypeOK
  <2>4. StateInv(t)'
    BY <1>0, <2>1, <2>2 DEF ThreadInv, StateInv, At, InTry
  <2>5. ThreadInv(t)'
    BY <1>5, <2>1, <2>2, <2>3, <2>4 DEF ThreadInv, WriteInv, InTry
  <2>6. t \in Insts => OpenTry(t)'
    BY <1>0, <2>1, <2>2 DEF OpenInv, OpenTry, InTry, Beyond
  <2> QED BY <1>4, <2>2, <2>5, <2>6
<1>13. CASE SessionInitWrite(t)
  <2>1. pc[t] = "open_write" /\ UNCHANGED sync
    BY <1>13 DEF SessionInitWrite
  <2>2. CASE Then(t, "ok", "open_done") /\ ChangeState(i, OPEN)
    BY <1>0, <1>2, <1>a, <2>1, <2>2, StateStored DEF InTry, Beyond
  <2>3. CASE Then(t, "err", "open_done") /\ UNCHANGED state
    BY <1>0, <1>2, <1>a, <2>1, <2>3 DEF InTry, Beyond
  <2> QED BY <1>13, <2>2, <2>3 DEF SessionInitWrite
<1>14. CASE SessionInitDone(t)
  <2>1. pc[t] = "open_done" /\ UNCHANGED sync
    BY <1>14 DEF SessionInitDone, lockVars
  <2>2. ASSUME NEW rc, Then(t, rc, "close_session"), rc = "ok" \/ UNCHANGED state
        PROVE  Mine
    BY <1>0, <1>2, <1>a, <2>1, <2>2 DEF InTry, Beyond
  <2> QED BY <1>14, <2>2 DEF SessionInitDone, WaitForState
<1>15. CASE SessionClose(t)
  <2>1. pc[t] = "close_session" /\ UNCHANGED sync
    BY <1>15 DEF SessionClose, lockVars
  <2>2. ASSUME NEW rc, Then(t, rc, "close_done"), rc = "ok" \/ UNCHANGED state
        PROVE  Mine
    BY <1>0, <1>2, <1>a, <2>1, <2>2 DEF InTry, Beyond
  <2> QED BY <1>15, <2>2 DEF SessionClose
<1>16. CASE SessionCloseDone(t)
  <2>1. pc[t] = "close_done" /\ UNCHANGED sync
    BY <1>16 DEF SessionCloseDone, lockVars
  <2>2. job[t].flip \in 0 .. 6
    BY <1>0, <2>1 DEF ThreadInv, StateInv, InTry, Job
  <2>3. ASSUME NEW rc, rc # "ok", Then(t, rc, "close_clean"), UNCHANGED state
        PROVE  Mine
    BY <1>0, <1>2, <1>a, <2>1, <2>3 DEF InTry
  <2>4. CASE /\ Then(t, "ok", "close_clean") /\ ChangeState(i, CLOSE_DONE)
             /\ state[i] # INVALID
    <3>1. t \in Insts => job[t].why # "open"
      BY <1>0, <1>2, <2>1, <2>4 DEF OpenInv, OpenTry, InTry
    <3> QED BY <1>0, <1>2, <1>a, <2>1, <2>4, <3>1, StateStored DEF InTry
  <2>5. WaitForState(t, "end", CLOSE_DONE, "close_clean")
    BY <1>16 DEF SessionCloseDone
  <2>6. CASE Then(t, "timeout", "close_clean") /\ UNCHANGED state
    BY <2>3, <2>6
  <2>7. CASE Then(t, "reset", "close_clean") /\ UNCHANGED state
    BY <2>3, <2>7
  <2>8. CASE Then(t, "err", "close_clean") /\ UNCHANGED state
    BY <2>3, <2>8
  <2> QED BY <2>2, <2>4, <2>5, <2>6, <2>7, <2>8 DEF WaitForState
<1>17. CASE CloseClean(t) \/ TryUnlock(t)
  <2>1. /\ \/ pc[t] = "close_clean" /\ Goto(t, "uninit") /\ UNCHANGED sync
           \/ pc[t] = "unlock" /\ Goto(t, "verdict")
        /\ UNCHANGED <<state, job>>
    BY <1>17 DEF CloseClean, TryUnlock, lockVars
  <2>2. /\ \/ pc[t] = "close_clean" /\ pc'[t] = "uninit" /\ UNCHANGED sync
           \/ pc[t] = "unlock" /\ pc'[t] = "verdict"
        /\ job'[t] = job[t]
    BY <1>0, <2>1, GotoJob
  <2>3. StateInv(t)'
    BY <2>2 DEF StateInv, At, InTry
  <2>4. ThreadInv(t)'
    BY <1>3, <1>5, <2>1, <2>2, <2>3 DEF ThreadInv, WriteInv, InTry
  <2>5. t \in Insts => OpenTry(t)'
    BY <1>0, <2>1, <2>2 DEF OpenInv, OpenTry, InTry, Beyond
  <2> QED BY <1>4, <2>2, <2>4, <2>5
<1>19. CASE Uninit(t)
  <2>1. pc[t] = "uninit" /\ UNCHANGED sync /\ Then(t, "ok", "fail")
    BY <1>19 DEF Uninit, lockVars
  <2>2. /\ pc'[t] = "check" /\ job'[t].inst = i /\ job'[t].why = job[t].why
        /\ job'[t].next = "fail"
    BY <1>0, <2>1, ThenJob
  <2>3. StateInv(t)'
    BY <2>2 DEF StateInv, At
  <2>4. ThreadInv(t)'
    BY <1>5, <2>1, <2>2, <2>3 DEF ThreadInv, WriteInv, InTry
  <2>5. t \in Insts => OpenTry(t)'
    BY <1>0, <2>1, <2>2 DEF OpenInv, OpenTry, InTry, Beyond
  <2> QED BY <1>4, <2>2, <2>4, <2>5
<1>18. CASE ResultCheck(t)
  <2>1. PICK ok \in BOOLEAN : Return(t, i, AfterTry(job[t].why, ok))
    BY <1>18 DEF ResultCheck
  <2>2. pc'[t] = AfterTry(job[t].why, ok) /\ job'[t].why = "none"
    BY <1>0, <2>1, ReturnJob
  <2>3. pc'[t] \notin InTry \cup {"none", "rejected", "add"}
    BY <2>2 DEF AfterTry, InTry
  <2> QED BY <1>3, <1>4, <2>2, <2>3 DEF OpenTry
<1> QED BY <1>6, <1>7, <1>8, <1>9, <1>11, <1>12, <1>13, <1>14, <1>15,
           <1>16, <1>17, <1>18, <1>19 DEF Try

-----------------------------------------------------------------------------
(* An owner that is about to end ends, and one whose open succeeds has no  *)
(* session yet.                                                            *)
Owning(t) ==
    /\ pc[t] \in Ending \cup {"raw"} => pc'[t] \in Ending
    /\ pc'[t] = "opened" => state'[t] \notin {OPEN, OPEN_DONE, CLOSE}

(* A thread that brings its instance to an open state has the session. *)
Opens(t) ==
    LET i == job[t].inst
    IN  state'[i] \in {OPEN, OPEN_DONE, CLOSE} =>
          \/ session'[i] /\ obj'[i].listed
          \/ /\ state[i] \in {OPEN, OPEN_DONE, CLOSE}
             /\ session'[i] = session[i] /\ obj'[i].listed = obj[i].listed

(* A step has nothing to do with the walk of handle_sys_error. *)
Calm(t) ==
    /\ pc[t] # "invalidate" /\ pc'[t] # "invalidate"
    /\ UNCHANGED todo
    /\ instances' \subseteq instances \/ CoreFree

(* A step that keeps the invariant. *)
Step(t) ==
    /\ Change(t)
    /\ t \in Clients => ThreadInv(t)'
    /\ t \in Insts => OpenInv(t)' /\ Owning(t)
    /\ t \in Users => Opens(t)
    /\ Calm(t) \/ SysError(t)

(* A step keeps what the walk of handle_sys_error has marked. *)
LEMMA StepKeepsMark ==
    ASSUME FullInv, SInv, Next, NEW t \in Threads, Step(t)
    PROVE  MarkInv'
<1> SUFFICES ASSUME Restarting', NEW j \in instances', j \notin todo'
             PROVE  state'[j] = INVALID \/ pc'[j] \in Ending
  BY DEF MarkInv
<1>0. Control /\ Change(t) /\ Frame(t) /\ "none" \notin Threads
  BY ThreadsAssumption DEF FullInv, IInv, Step, Change, Threads
<1>1. /\ Restarting
      /\ instances' \subseteq instances
      /\ j \in todo => state'[j] = INVALID
  <2>1. CASE Calm(t)
    <3>1. Restarting
      BY <1>0, <2>1 DEF Restarting, Calm, Frame
    <3>2. core_lock # "none"
      BY <1>0, <3>1 DEF Restarting, FullInv, IInv, LockInv, CoreLockOwned, HoldsCore
    <3> QED BY <2>1, <3>1, <3>2 DEF Calm, CoreFree
  <2>2. CASE SysErrorBegin(t)
    <3>1. CoreFree /\ UNCHANGED instances
      BY <2>2 DEF SysErrorBegin, refVars
    <3>2. ~Restarting
      BY <1>0, <3>1 DEF Restarting, FullInv, IInv, LockInv, CoreLockOwned,
         HoldsCore, CoreFree
    <3>3. pc'[t] = "invalidate"
      BY <1>0, <3>2 DEF Restarting, Frame
    <3>4. core_state # "UNINIT"
      BY <1>0, <2>2, <3>3 DEF SysErrorBegin, SysErrorReturn, Goto, Control
    <3> QED BY <2>2, <3>1, <3>4 DEF SysErrorBegin
  <2>3. CASE \E i \in Insts : SysErrorInvalidate(t, i)
    BY <1>0, <2>3 DEF SysErrorInvalidate, refVars, Restarting, Control
  <2>4. CASE SysErrorRelease(t)
    <3>1. pc[t] = "invalidate" /\ todo = {} /\ UNCHANGED instances
      BY <2>4 DEF SysErrorRelease, refVars
    <3> QED BY <3>1 DEF Restarting
  <2> QED BY <2>1, <2>2, <2>3, <2>4 DEF Step, SysError
<1>2. CASE j \in todo
  BY <1>1, <1>2
<1>3. CASE j \notin todo
  <2>0. j \in Insts /\ j \in Threads
    BY <1>1 DEF FullInv, MInv, ListInv, Threads
  <2>1. state[j] = INVALID \/ pc[j] \in Ending
    BY <1>1, <1>3 DEF SInv, MarkInv
  <2>2. pc[j] \in Ending => pc'[j] \in Ending
    BY <1>0, <2>0 DEF Frame, Step, Owning
  <2>3. CASE KeepsInvalid
    BY <2>0, <2>1, <2>2, <2>3 DEF KeepsInvalid
  <2>4. ASSUME NEW k \in Insts, CloseRaw(k), state[j] = INVALID
        PROVE  state'[j] = INVALID \/ pc'[j] \in Ending
    BY <1>0, <2>0, <2>4 DEF CloseRaw, Control, Goto, Ending
  <2> QED BY <1>0, <2>1, <2>2, <2>3, <2>4, NextKeepsInvalid DEF Control
<1> QED BY <1>2, <1>3

(* A step leaves no open instance without its session. *)
LEMMA StepKeepsSession ==
    ASSUME FullInv, SInv, NEW t \in Threads, Step(t)
    PROVE  OpenHasSession'
<1> SUFFICES ASSUME NEW j \in Insts, state'[j] \in {OPEN, OPEN_DONE, CLOSE},
                    pc'[j] = "opened", ~Restarting'
             PROVE  session'[j] /\ obj'[j].listed
  BY DEF OpenHasSession
<1>0. Control /\ Change(t) /\ Frame(t) /\ j \in Threads
  BY DEF FullInv, IInv, Step, Change, Threads
<1>1. j # t /\ pc[j] = "opened" /\ j \in instances
  BY <1>0 DEF Step, Owning, Frame, SInv, OpenInv
<1>2. ~Restarting
  <2>1. ASSUME Restarting
        PROVE  FALSE
    <3>1. pc[t] = "invalidate" /\ pc'[t] # "invalidate"
      BY <1>0, <2>1 DEF Restarting, Frame
    <3>2. SysError(t)
      BY <3>1 DEF Step, Calm
    <3>3. SysErrorRelease(t)
      BY <3>1, <3>2 DEF SysError, SysErrorBegin, SysErrorInvalidate
    <3>4. todo = {} /\ UNCHANGED state
      BY <3>3 DEF SysErrorRelease
    <3>5. state[j] = INVALID
      BY <1>1, <2>1, <3>4 DEF SInv, MarkInv, Ending
    <3> QED BY <3>4, <3>5 DEF INVALID, OPEN, OPEN_DONE, CLOSE
  <2> QED BY <2>1
<1>3. state[j] \in {OPEN, OPEN_DONE, CLOSE} => session[j] /\ obj[j].listed
  BY <1>1, <1>2 DEF SInv, OpenHasSession
<1>4. pc[t] # "invalidate"
  BY <1>2 DEF Restarting
<1>5. CASE Ours(t, j)
  <2>1. t \notin Insts
    BY <1>1, <1>5 DEF Ours, FullInv, MInv, OwnerInv
  <2>2. Opens(t)
    BY <1>5, <2>1 DEF Ours, Clients, Step
  <2> QED BY <1>3, <1>5, <2>2 DEF Opens, Ours
<1>6. CASE ~Ours(t, j)
  <2>1. state'[j] = state[j]
    BY <1>0, <1>1, <1>6 DEF Change, INVALID, OPEN, OPEN_DONE, CLOSE
  <2>2. session'[j] = session[j] /\ obj'[j].listed = obj[j].listed
    BY <1>0, <1>1, <1>4, <1>6 DEF Change
  <2> QED BY <1>3, <2>1, <2>2
<1> QED BY <1>5, <1>6

(* A step of any thread keeps the invariant. *)
LEMMA StepKeeps ==
    ASSUME FullInv, SInv, Next, NEW t \in Threads, Step(t)
    PROVE  SInv'
<1>1. \A u \in Clients : ThreadInv(u)'
  BY OthersKeep DEF Step
<1>2. \A i \in Insts : OpenInv(i)'
  BY OthersKeepOpen DEF Step
<1> QED BY <1>1, <1>2, StepKeepsMark, StepKeepsSession DEF SInv

(* msm_cvp_comm_try_state. *)
LEMMA TrySteps ==
    ASSUME FullInv, SInv, NEW t \in Clients, Try(t)
    PROVE  Step(t)
<1> DEFINE i == job[t].inst
<1> USE DEF UNINIT_DONE, INIT, INIT_DONE, OPEN, OPEN_DONE, CLOSE, CLOSE_DONE,
            CORE_UNINIT, INVALID
<1>0. /\ Control /\ t \in Threads /\ ThreadInv(t)
      /\ t \in Insts => OpenInv(t)
      /\ state \in [Insts -> 1 .. 9] /\ job[t] \in Job
  BY DEF FullInv, IInv, Control, TypeOK, SInv, Clients, Threads
<1>1. /\ pc[t] \in (InTry \cup {"try", "verdict"}) \ {"invalidate"}
      /\ UNCHANGED <<instances, todo>>
  BY DEF Try, TryState, HandlerCheck, InitCore, CheckCoreInit, CoreInitDone,
         CoreInitTimeout, SessionInit, SessionInitWrite, SessionInitDone,
         SessionClose, SessionCloseDone, CloseClean, Uninit, TryUnlock,
         ResultCheck, InTry, refVars, ssrVars
<1>2. i \in Insts /\ (t \in Insts => i = t)
  BY <1>1, ClientInst DEF InTry
<1>3. pc[t] \notin Ending \cup {"raw"}
  BY <1>1 DEF InTry, Ending
<1> DEFINE Labels == (InTry \cup {"verdict"}) \ {"invalidate"}
<1>4. \/ pc'[t] \in Labels
      \/ ResultCheck(t)
      \/ TryState(t) /\ state[i] = INVALID /\ core_state = "UNINIT"
  <2>1. CASE TryState(t) /\ ~(state[i] = INVALID /\ core_state = "UNINIT")
    <3>1. PICK flip : Goto(t, Handler(flip))
      BY <2>1 DEF TryState
    <3>2. pc'[t] = Handler(flip)
      BY <1>0, <3>1 DEF Goto, Control
    <3> QED BY <3>2 DEF Handler, InTry
  <2>2. CASE HandlerCheck(t)
    <3>1. job[t].next \in Nexts \ {"none"}
      BY <1>0, <2>2 DEF Job, FullInv, MInv, NextInv, HandlerCheck
    <3>2. pc'[t] \in {"unlock", job[t].next} /\ pc'[t] # "fail"
      BY <1>0, <2>2 DEF HandlerCheck, Goto, Control
    <3> QED BY <3>1, <3>2 DEF Nexts, InTry
  <2>3. ASSUME NEW rc, NEW next, Then(t, rc, next)
        PROVE  pc'[t] \in Labels
    BY <1>0, <2>3, ThenJob DEF InTry
  <2>4. ASSUME NEW label \in {"core_wait", "sys_error", "open_write", "uninit", "verdict"},
               Goto(t, label)
        PROVE  pc'[t] \in Labels
    BY <1>0, <2>4 DEF Goto, Control, InTry
  <2>5. CASE InitCore(t) \/ CoreInitDone(t) \/ Uninit(t)
    BY <2>3, <2>5 DEF InitCore, CoreInitDone, Uninit
  <2>6. CASE CheckCoreInit(t) \/ SessionInitWrite(t) \/ SessionClose(t)
    BY <2>3, <2>4, <2>6 DEF CheckCoreInit, SessionInitWrite, SessionClose
  <2>7. CASE SessionInitDone(t) \/ SessionCloseDone(t)
    BY <2>3, <2>7 DEF SessionInitDone, SessionCloseDone, WaitForState
  <2>8. CASE CoreInitTimeout(t) \/ SessionInit(t) \/ CloseClean(t) \/ TryUnlock(t)
    BY <2>4, <2>8 DEF CoreInitTimeout, SessionInit, CloseClean, TryUnlock
  <2> QED BY <2>1, <2>2, <2>5, <2>6, <2>7, <2>8 DEF Try
<1>5. ASSUME TryState(t), state[i] = INVALID, core_state = "UNINIT"
      PROVE  pc'[t] = AfterTry(job[t].why, FALSE)
  <2>1. Return(t, i, AfterTry(job[t].why, FALSE))
    BY <1>5 DEF TryState
  <2> QED BY <1>0, <2>1, ReturnJob
<1>6. ASSUME ResultCheck(t)
      PROVE  /\ \E ok \in BOOLEAN : pc'[t] = AfterTry(job[t].why, ok)
             /\ state'[i] \in {state[i], INVALID} /\ pc[t] = "verdict"
  <2>1. PICK ok \in BOOLEAN : Return(t, i, AfterTry(job[t].why, ok))
    BY <1>6 DEF ResultCheck
  <2>2. pc'[t] = AfterTry(job[t].why, ok)
    BY <1>0, <2>1, ReturnJob
  <2>3. state'[i] \in {state[i], INVALID} /\ pc[t] = "verdict"
    BY <1>0, <1>2, <1>6 DEF ResultCheck
  <2> QED BY <2>2, <2>3
<1>7. Calm(t)
  BY <1>1, <1>4, <1>5, <1>6 DEF Calm, AfterTry, InTry
<1>8. ASSUME t \in Insts, pc'[t] = "opened"
      PROVE  state'[t] \notin {OPEN, OPEN_DONE, CLOSE}
  <2>1. ResultCheck(t) /\ job[t].why = "open"
    BY <1>4, <1>5, <1>6, <1>8 DEF AfterTry, InTry
  <2>2. state[t] \in {UNINIT_DONE, INIT, INIT_DONE, INVALID}
    BY <1>0, <1>6, <1>8, <2>1 DEF OpenInv, OpenTry
  <2> QED BY <1>2, <1>6, <1>8, <2>1, <2>2
<1>9. Opens(t)
  <2>1. ASSUME UNCHANGED <<session, obj>>,
               state'[i] = state[i] \/ state'[i] \notin {OPEN, OPEN_DONE, CLOSE}
        PROVE  Opens(t)
    BY <2>1 DEF Opens
  <2>2. ASSUME NEW s, ChangeState(i, s)
        PROVE  state'[i] = IF state[i] = INVALID THEN INVALID ELSE s
    BY <1>0, <1>2, <2>2, StateStored
  <2>3. CASE TryState(t) \/ HandlerCheck(t) \/ CoreInitTimeout(t) \/ TryUnlock(t)
    BY <2>1, <2>3 DEF TryState, HandlerCheck, CoreInitTimeout, TryUnlock
  <2>4. CASE ResultCheck(t)
    BY <1>6, <2>1, <2>4 DEF ResultCheck
  <2>5. CASE InitCore(t) \/ CheckCoreInit(t) \/ CoreInitDone(t) \/ Uninit(t)
    <3>1. UNCHANGED <<session, obj>>
      BY <2>5 DEF InitCore, CheckCoreInit, CoreInitDone, Uninit
    <3>2. UNCHANGED state \/ \E s \in {INIT, INIT_DONE, CORE_UNINIT} : ChangeState(i, s)
      BY <2>5 DEF InitCore, CheckCoreInit, CoreInitDone, Uninit
    <3> QED BY <2>1, <2>2, <3>1, <3>2
  <2>6. CASE SessionInit(t)
    <3>1. session'[i] /\ obj'[i].listed
      BY <1>2, <2>6 DEF SessionInit, FullInv, TypeOK
    <3> QED BY <3>1 DEF Opens
  <2>7. CASE SessionInitWrite(t)
    <3>1. /\ session[i] /\ obj[i].listed
          /\ state[i] \in {INIT_DONE, INVALID}
      BY <1>0, <2>7 DEF SessionInitWrite, ThreadInv, WriteInv, StateInv
    <3>2. CASE UNCHANGED <<session, obj>>
      BY <3>1, <3>2 DEF Opens
    <3>3. CASE UNCHANGED state
      BY <3>1, <3>3 DEF Opens
    <3> QED BY <2>7, <3>2, <3>3 DEF SessionInitWrite
  <2>8. CASE SessionInitDone(t)
    <3>1. /\ UNCHANGED <<session, obj>> /\ pc[t] = "open_done"
          /\ UNCHANGED state \/ ChangeState(i, OPEN_DONE)
      BY <2>8 DEF SessionInitDone, WaitForState
    <3>2. state[i] \in {OPEN, INVALID}
      BY <1>0, <3>1 DEF ThreadInv, StateInv, At
    <3> QED BY <2>1, <2>2, <3>1, <3>2 DEF Opens
  <2>9. CASE SessionClose(t)
    <3>1. CASE session[i] /\ obj[i].listed /\ UNCHANGED <<session, obj>>
      BY <3>1 DEF Opens
    <3>2. CASE UNCHANGED <<state, session, obj>>
      BY <2>1, <3>2
    <3> QED BY <2>9, <3>1, <3>2 DEF SessionClose
  <2>10. CASE SessionCloseDone(t)
    <3>1. /\ UNCHANGED <<session, obj>>
          /\ UNCHANGED state \/ ChangeState(i, CLOSE_DONE)
      BY <2>10 DEF SessionCloseDone, WaitForState
    <3> QED BY <2>1, <2>2, <3>1
  <2>11. CASE CloseClean(t)
    <3>1. state[i] \in {CLOSE_DONE, INVALID} /\ UNCHANGED state
      BY <1>0, <2>11 DEF CloseClean, ThreadInv, StateInv, At
    <3> QED BY <3>1 DEF Opens
  <2> QED BY <2>3, <2>4, <2>5, <2>6, <2>7, <2>8, <2>9, <2>10, <2>11 DEF Try
<1> QED BY <1>3, <1>7, <1>8, <1>9, TryChange, TryKeepsThread DEF Step, Owning

(* A step that leaves states, sessions, locks and the list alone. *)
LEMMA QuietSteps ==
    ASSUME FullInv, SInv, NEW t \in Threads, Frame(t),
           UNCHANGED <<state, sync, dev_lock, session, obj, instances, todo>>,
           pc[t] # "invalidate", pc'[t] \notin InTry,
           t \in Insts => OpenInv(t)' /\ Owning(t)
    PROVE  Step(t)
<1>1. ThreadInv(t)'
  BY DEF ThreadInv, SyncInv, StateInv, WriteInv, At, InTry
<1>2. Opens(t) /\ Calm(t)
  BY DEF Opens, Calm, InTry
<1> QED BY <1>1, <1>2, QuietChange DEF Step

(* msm_cvp_open and msm_cvp_close. *)
LEMMA OwnerSteps ==
    ASSUME FullInv, SInv, NEW i \in Insts,
           OpenCount(i) \/ OpenAdd(i) \/ CloseStart(i) \/ CloseStep(i)
    PROVE  Step(i)
<1>0. Control /\ i \in Threads /\ i \in Clients /\ i \notin Users /\ OpenInv(i)
      /\ job[i].inst = i
  BY ThreadsAssumption DEF FullInv, IInv, SInv, Threads, Clients, MInv, OwnerInv
<1> DEFINE
      Quiet == UNCHANGED <<state, sync, dev_lock, session, obj, instances, todo>>
      Out == {"none", "rejected", "add"}
<1>1. ASSUME Frame(i), Quiet, pc[i] \notin Out \cup {"free", "closed"} \cup InTry,
             pc'[i] \notin InTry \cup Out \cup {"opened", "try", "verdict"},
             pc[i] \in Ending \cup {"raw"} => pc'[i] \in Ending
      PROVE  Step(i)
  <2>1. OpenInv(i)' /\ Owning(i)
    BY <1>0, <1>1 DEF OpenInv, OpenTry, Owning
  <2> QED BY <1>0, <1>1, <2>1, QuietSteps DEF InTry
<1>2. ASSUME NEW why \in {"deinit", "uninit"}, CallTry(i, i, why), Quiet,
             pc[i] \in {"deinit", "call_uninit"}
      PROVE  Step(i)
  <2>1. Frame(i) /\ pc'[i] = "try" /\ job'[i].why = why
    BY <1>0, <1>2, CallTryJob
  <2>2. OpenInv(i)' /\ Owning(i)
    BY <1>0, <1>2, <2>1 DEF OpenInv, OpenTry, Owning, Ending
  <2> QED BY <1>0, <1>2, <2>1, <2>2, QuietSteps DEF InTry
<1>3. ASSUME NEW label, NEW k, PutInst(i, k, label), label \in {"deinit", "stuck", "closed"}
      PROVE  Frame(i) /\ pc'[i] \in {"destroy", label}
  <2>1. Return(i, k, IF kref[k] = 1 THEN "destroy" ELSE label)
    BY <1>3 DEF PutInst
  <2> QED BY <1>0, <2>1, ReturnJob
<1>4. CASE OpenCount(i)
  <2>1. /\ pc[i] = "none" /\ Quiet /\ UNCHANGED job
        /\ Goto(i, "rejected") \/ Goto(i, "add")
    BY <1>4 DEF OpenCount, lockVars, ssrVars
  <2>2. Frame(i) /\ pc'[i] \in {"rejected", "add"}
    BY <1>0, <2>1, GotoJob
  <2>3. OpenInv(i)' /\ Owning(i)
    BY <1>0, <2>1, <2>2 DEF OpenInv, OpenTry, Owning, Ending, InTry
  <2> QED BY <1>0, <2>1, <2>2, <2>3, QuietSteps DEF InTry
<1>5. CASE OpenAdd(i)
  <2>1. /\ pc[i] = "add" /\ CoreFree /\ instances' = instances \cup {i}
        /\ CallTry(i, i, "open")
        /\ UNCHANGED <<state, sync, dev_lock, session, obj, todo>>
    BY <1>5 DEF OpenAdd, lockVars, ssrVars
  <2>2. Frame(i) /\ pc'[i] = "try" /\ job'[i].why = "open"
    BY <1>0, <2>1, CallTryJob
  <2>3. OpenInv(i)' /\ Owning(i)
    BY <1>0, <2>1, <2>2 DEF OpenInv, OpenTry, Owning, Ending, InTry, Beyond
  <2>4. Change(i)
    BY <2>1, <2>2 DEF Change
  <2>5. ThreadInv(i)'
    BY <2>2 DEF ThreadInv, SyncInv, StateInv, WriteInv, At, InTry
  <2>6. Calm(i)
    BY <2>1, <2>2 DEF Calm
  <2> QED BY <1>0, <2>3, <2>4, <2>5, <2>6 DEF Step
<1>6. CASE CloseStart(i)
  <2>1. pc[i] = "opened" /\ Quiet /\ UNCHANGED job
    BY <1>6 DEF CloseStart, lockVars, ssrVars, refVars
  <2>2. PICK label \in {"raw", "stuck", "call_uninit", "cleanup"} : Goto(i, label)
    BY <1>6 DEF CloseStart
  <2>3. Frame(i) /\ pc'[i] = label
    BY <1>0, <2>1, <2>2, GotoJob
  <2> QED BY <1>1, <2>1, <2>3 DEF InTry, Ending
<1>7. CASE CloseRaw(i) \/ CloseDeinitCore(i)
  <2>1. /\ pc[i] \in {"raw", "deinit_core"} /\ Goto(i, "clean") /\ UNCHANGED job
        /\ UNCHANGED <<sync, dev_lock, session, obj, instances, todo>>
    BY <1>7 DEF CloseRaw, CloseDeinitCore, lockVars, ssrVars, refVars
  <2>2. Frame(i) /\ pc'[i] = "clean"
    BY <1>0, <2>1, GotoJob
  <2>3. \A j \in Insts : state'[j] = state[j] \/ j = i
    BY <1>0, <1>7 DEF CloseRaw, CloseDeinitCore, ChangeState, Control
  <2>4. Change(i)
    BY <2>1, <2>2, <2>3 DEF Change
  <2>5. OpenInv(i)' /\ Owning(i)
    BY <1>0, <2>1, <2>2 DEF OpenInv, OpenTry, Owning, Ending, InTry
  <2>6. ThreadInv(i)' /\ Calm(i)
    BY <2>1, <2>2 DEF ThreadInv, SyncInv, StateInv, WriteInv, At, InTry, Calm
  <2> QED BY <1>0, <2>4, <2>5, <2>6 DEF Step
<1>8. CASE CleanupGet(i)
  <2>1. pc[i] = "cleanup" /\ Quiet /\ UNCHANGED job /\ (Goto(i, "flush") \/ Goto(i, "deinit"))
    BY <1>8 DEF CleanupGet, lockVars, ssrVars
  <2>2. Frame(i) /\ pc'[i] \in {"flush", "deinit"}
    BY <1>0, <2>1, GotoJob
  <2> QED BY <1>1, <2>1, <2>2 DEF InTry, Ending
<1>9. CASE CleanupPut(i)
  <2>1. pc[i] = "flush" /\ Quiet /\ (PutInst(i, i, "deinit") \/ PutInst(i, i, "stuck"))
    BY <1>9 DEF CleanupPut, lockVars, ssrVars
  <2>2. Frame(i) /\ pc'[i] \in {"destroy", "deinit", "stuck"}
    BY <1>3, <2>1
  <2> QED BY <1>1, <2>1, <2>2 DEF InTry, Ending
<1>10. CASE CloseDeinit(i)
  <2>1. pc[i] = "deinit" /\ Quiet
    BY <1>10 DEF CloseDeinit, lockVars, ssrVars, refVars
  <2>2. CASE CallTry(i, i, "deinit")
    BY <1>2, <2>1, <2>2
  <2>3. CASE Goto(i, "call_uninit") /\ UNCHANGED job
    <3>1. Frame(i) /\ pc'[i] = "call_uninit"
      BY <1>0, <2>3, GotoJob
    <3> QED BY <1>1, <2>1, <3>1 DEF InTry, Ending
  <2> QED BY <1>10, <2>2, <2>3 DEF CloseDeinit
<1>11. CASE CloseUninit(i)
  <2>1. pc[i] = "call_uninit" /\ Quiet /\ CallTry(i, i, "uninit")
    BY <1>11 DEF CloseUninit, lockVars, ssrVars, refVars
  <2> QED BY <1>2, <2>1
<1>12. CASE FinalClean(i)
  <2>1. /\ pc[i] = "clean" /\ Goto(i, "put") /\ UNCHANGED job
        /\ UNCHANGED <<state, sync, dev_lock, instances, todo>>
    BY <1>12 DEF FinalClean, lockVars, ssrVars, refVars
  <2>2. Frame(i) /\ pc'[i] = "put"
    BY <1>0, <2>1, GotoJob
  <2>3. \A j \in Insts \ {i} : session'[j] = session[j] /\ obj'[j] = obj[j]
    BY <1>12 DEF FinalClean, SessionClean, FullInv, TypeOK
  <2>4. Change(i)
    BY <2>1, <2>2, <2>3 DEF Change
  <2>5. OpenInv(i)' /\ Owning(i)
    BY <1>0, <2>1, <2>2 DEF OpenInv, OpenTry, Owning, Ending, InTry
  <2>6. ThreadInv(i)' /\ Calm(i)
    BY <2>1, <2>2 DEF ThreadInv, SyncInv, StateInv, WriteInv, At, InTry, Calm
  <2> QED BY <1>0, <2>4, <2>5, <2>6 DEF Step
<1>13. CASE FinalPut(i)
  <2>1. pc[i] = "put" /\ Quiet /\ PutInst(i, i, "closed")
    BY <1>13 DEF FinalPut, lockVars, ssrVars
  <2>2. Frame(i) /\ pc'[i] \in {"destroy", "closed"}
    BY <1>3, <2>1
  <2> QED BY <1>1, <2>1, <2>2 DEF InTry, Ending
<1> QED BY <1>4, <1>5, <1>6, <1>7, <1>8, <1>9, <1>10, <1>11, <1>12, <1>13
        DEF CloseStep

(* msm_cvp_destroy. *)
LEMMA DestroySteps ==
    ASSUME FullInv, SInv, NEW t \in Threads \ {"wdog"}, Destroy(t)
    PROVE  Step(t)
<1>0. Control /\ "irq" \notin Clients /\ (t \in Insts => OpenInv(t) /\ job[t].inst = t)
  BY ThreadsAssumption DEF FullInv, IInv, SInv, Clients, MInv, OwnerInv
<1>1. CASE DestroyUnlink(t)
  <2>1. /\ pc[t] = "destroy" /\ instances' = instances \ {job[t].inst}
        /\ Goto(t, "free") /\ UNCHANGED job
        /\ UNCHANGED <<state, sync, dev_lock, session, obj, todo>>
    BY <1>1 DEF DestroyUnlink, lockVars, ssrVars
  <2>2. Frame(t) /\ pc'[t] = "free"
    BY <1>0, <2>1, GotoJob
  <2>3. Change(t)
    BY <2>1, <2>2 DEF Change
  <2>4. t \in Insts => OpenInv(t)' /\ Owning(t)
    BY <1>0, <2>1, <2>2 DEF OpenInv, OpenTry, Owning, Ending, InTry
  <2>5. ThreadInv(t)' /\ Calm(t) /\ Opens(t)
    BY <2>1, <2>2 DEF ThreadInv, SyncInv, StateInv, WriteInv, At, InTry, Calm, Opens
  <2> QED BY <2>3, <2>4, <2>5 DEF Step
<1>2. CASE DestroyFree(t)
  <2>1. /\ pc[t] = "free" /\ Return(t, job[t].inst, Home(t))
        /\ UNCHANGED <<state, sync, dev_lock, session, obj, instances, todo>>
    BY <1>2 DEF DestroyFree, lockVars, ssrVars
  <2>2. Frame(t) /\ pc'[t] = Home(t)
    BY <1>0, <2>1, ReturnJob
  <2>3. t \in Insts => OpenInv(t)' /\ Owning(t)
    BY <1>0, <2>1, <2>2 DEF OpenInv, OpenTry, Owning, Ending, InTry, Home
  <2> QED BY <2>1, <2>2, <2>3, QuietSteps DEF InTry, Home
<1> QED BY <1>1, <1>2 DEF Destroy

(* ioctls. *)
LEMMA UserSteps ==
    ASSUME FullInv, SInv, NEW u \in Users,
           \/ UserArp(u) \/ UserValidate(u) \/ UserPut(u)
           \/ \E i \in Insts : UserCreate(u, i) \/ UserGet(u, i)
    PROVE  Step(u)
<1>0. Control /\ u \in Threads /\ u \notin Insts
  BY ThreadsAssumption DEF FullInv, IInv, Threads
<1>1. /\ pc[u] # "invalidate"
      /\ UNCHANGED <<state, sync, dev_lock, session, obj, instances, todo>>
  BY DEF UserArp, UserValidate, UserPut, UserCreate, UserGet, lockVars,
         ssrVars, refVars
<1> DEFINE Moved == Frame(u) /\ pc'[u] \notin InTry
<1>2. ASSUME NEW i, NEW label \in {"idle", "use", "destroy"}, Return(u, i, label)
      PROVE  Moved
  BY <1>0, <1>2, ReturnJob DEF InTry
<1>3. ASSUME NEW i, NEW why, CallTry(u, i, why)
      PROVE  Moved
  BY <1>0, <1>3, CallTryJob DEF InTry
<1>4. ASSUME NEW i, PutInst(u, i, "idle")
      PROVE  Moved
  BY <1>2, <1>4 DEF PutInst
<1>5. UserArp(u) => Moved
  BY <1>2, <1>3 DEF UserArp
<1>6. UserValidate(u) => Moved
  BY <1>2, <1>4 DEF UserValidate
<1>7. UserPut(u) => Moved
  BY <1>4 DEF UserPut
<1>8. ASSUME NEW i \in Insts, UserCreate(u, i)
      PROVE  Moved
  BY <1>3, <1>8 DEF UserCreate
<1>9. ASSUME NEW i \in Insts, UserGet(u, i)
      PROVE  Moved
  BY <1>0, <1>9 DEF UserGet, Goto, Control, Frame, InTry
<1>10. Moved
  BY <1>5, <1>6, <1>7, <1>8, <1>9
<1> QED BY <1>0, <1>1, <1>10, QuietSteps

(* The interrupt handler. *)
LEMMA IrqSteps ==
    ASSUME FullInv, SInv, Irq
    PROVE  Step("irq")
<1>0. Control /\ "irq" \in Threads /\ "irq" \notin Clients /\ "irq" # "wdog"
  BY ThreadsAssumption DEF FullInv, IInv, Threads, Clients
<1>1. CASE Destroy("irq")
  BY <1>0, <1>1, DestroySteps
<1>2. CASE ~Destroy("irq")
  <2>1. /\ pc["irq"] # "invalidate"
        /\ UNCHANGED <<state, sync, dev_lock, session, obj, instances, todo>>
    BY <1>2 DEF Irq, IrqStep, IrqSysInitDone, IrqTake, IrqGet, IrqSkip,
       IrqSignal, IrqPut, lockVars, ssrVars, refVars
  <2> DEFINE Moved == Frame("irq") /\ pc'["irq"] \notin InTry
  <2>2. ASSUME NEW i, NEW label \in {"idle", "put", "destroy"}, Return("irq", i, label)
        PROVE  Moved
    BY <1>0, <2>2, ReturnJob DEF InTry
  <2>3. IrqSysInitDone => Moved
    BY DEF IrqSysInitDone, Frame, InTry
  <2>4. ASSUME NEW i \in Insts, NEW cmd, NEW status, IrqTake(i, cmd, status)
        PROVE  Moved
    BY <1>0, <2>4 DEF IrqTake, Goto, Control, Frame, InTry
  <2>5. ASSUME IrqGet
        PROVE  Moved
    <3>1. Goto("irq", "signal") /\ UNCHANGED job => Moved
      BY <1>0, GotoJob DEF InTry
    <3> QED BY <2>2, <2>5, <3>1 DEF IrqGet
  <2>6. IrqSkip \/ IrqSignal => Moved
    BY <2>2 DEF IrqSkip, IrqSignal
  <2>7. IrqPut => Moved
    BY <2>2 DEF IrqPut, PutInst
  <2>8. Moved
    BY <1>2, <2>3, <2>4, <2>5, <2>6, <2>7 DEF Irq, IrqStep
  <2> QED BY <1>0, <2>1, <2>8, QuietSteps DEF Clients
<1> QED BY <1>1, <1>2

(* handle_sys_error. *)
LEMMA SysErrorSteps ==
    ASSUME FullInv, SInv, NEW t \in Insts \cup {"wdog"}, SysError(t)
    PROVE  Step(t)
<1>0. /\ Control /\ t \in Threads /\ t \notin Users /\ "wdog" \notin Insts
      /\ t \in Insts => /\ t \in Clients /\ ThreadInv(t) /\ OpenInv(t)
                        /\ job[t].inst = t /\ job[t] \in Job
  BY ThreadsAssumption
     DEF FullInv, IInv, Control, Threads, Clients, SInv, MInv, OwnerInv
<1>1. /\ pc[t] \in {"sys_error", "invalidate"}
      /\ UNCHANGED <<sync, dev_lock, instances>>
  BY DEF SysError, SysErrorBegin, SysErrorInvalidate, SysErrorRelease,
         lockVars, refVars
<1>2. \A j \in Insts : state'[j] = state[j] \/ (state'[j] = INVALID /\ j \in todo)
  BY <1>0 DEF SysError, SysErrorBegin, SysErrorInvalidate, SysErrorRelease,
              Control
<1>3. \/ UNCHANGED <<session, obj>>
      \/ /\ UNCHANGED session
         /\ pc[t] = "invalidate" /\ todo = {} /\ dev_lock = "none"
  BY DEF SysError, SysErrorBegin, SysErrorInvalidate, SysErrorRelease, DevFree
<1>4. /\ Frame(t)
      /\ t \in Insts => /\ pc'[t] \in {"invalidate", "unlock"}
                        /\ job'[t].inst = t /\ job'[t].why = job[t].why
                        /\ job'[t].flip = job[t].flip
  <2>1. ASSUME SysErrorReturn(t)
        PROVE  /\ Frame(t)
               /\ t \in Insts => /\ pc'[t] = "unlock"
                                 /\ job'[t].inst = t /\ job'[t].why = job[t].why
                                 /\ job'[t].flip = job[t].flip
    <3>1. CASE t = "wdog"
      BY <1>0, <2>1, <3>1, GotoJob DEF SysErrorReturn
    <3>2. CASE t # "wdog"
      <4>1. Goto(t, "unlock") /\ job' = [job EXCEPT ![t].rc = "err"]
        BY <2>1, <3>2 DEF SysErrorReturn
      <4>2. Frame(t) /\ pc'[t] = "unlock"
        BY <1>0, <4>1 DEF Control, Goto, Frame
      <4>3. job'[t] = [job[t] EXCEPT !.rc = "err"]
        BY <1>0, <4>1 DEF Control
      <4> QED BY <1>0, <4>2, <4>3 DEF Job
    <3> QED BY <3>1, <3>2
  <2>2. ASSUME Goto(t, "invalidate"), UNCHANGED job
        PROVE  /\ Frame(t) /\ pc'[t] = "invalidate" /\ job'[t] = job[t]
    BY <1>0, <2>2, GotoJob
  <2>3. CASE SysErrorBegin(t)
    BY <1>0, <2>1, <2>2, <2>3 DEF SysErrorBegin
  <2>4. CASE \E i \in Insts : SysErrorInvalidate(t, i)
    BY <1>0, <2>4 DEF SysErrorInvalidate, Frame
  <2>5. CASE SysErrorRelease(t)
    BY <2>1, <2>5 DEF SysErrorRelease
  <2> QED BY <2>3, <2>4, <2>5 DEF SysError
<1>5. Change(t)
  BY <1>1, <1>2, <1>3, <1>4 DEF Change
<1>6. ASSUME t \in Insts
      PROVE  ThreadInv(t)'
  <2>1. SyncInv(t)'
    BY <1>0, <1>1, <1>4, <1>6 DEF ThreadInv, SyncInv, InTry
  <2>2. job[t].flip \in 0 .. 6
    BY <1>0, <1>1, <1>6 DEF ThreadInv, StateInv, InTry, Job, CLOSE_DONE
  <2>3. StateInv(t)'
    BY <1>4, <1>6, <2>2 DEF StateInv, At, CLOSE_DONE
  <2>4. WriteInv(t)'
    BY <1>4, <1>6 DEF WriteInv
  <2> QED BY <2>1, <2>3, <2>4 DEF ThreadInv
<1>7. ASSUME t \in Insts
      PROVE  OpenInv(t)' /\ Owning(t)
  <2>1. OpenTry(t)'
    BY <1>0, <1>1, <1>2, <1>4, <1>7 DEF OpenInv, OpenTry, InTry, Beyond
  <2> QED BY <1>0, <1>1, <1>4, <1>7, <2>1 DEF OpenInv, Owning, Ending
<1> QED BY <1>0, <1>5, <1>6, <1>7 DEF Step, Clients

(* The invariant is inductive, relative to FullInv. *)
LEMMA NextKeepsSession ==
    ASSUME FullInv, SInv, [Next]_vars
    PROVE  SInv'
<1>1. ASSUME NEW i \in Insts, Owner(i)
      PROVE  Step(i)
  <2>1. i \in Clients /\ i \in Threads \ {"wdog"}
    BY ThreadsAssumption DEF Clients, Threads
  <2> QED BY <1>1, <2>1, OwnerSteps, TrySteps, SysErrorSteps, DestroySteps
          DEF Owner, OwnerStep
<1>2. ASSUME NEW u \in Users, User(u)
      PROVE  Step(u)
  <2>1. u \in Clients /\ u \in Threads \ {"wdog"}
    BY ThreadsAssumption DEF Clients, Threads
  <2> QED BY <1>2, <2>1, UserSteps, TrySteps, DestroySteps DEF User, UserStep
<1>3. ASSUME Wdog
      PROVE  Step("wdog")
  <2>1. CASE WdogFire
    <3>1. "wdog" \in Threads /\ "wdog" \notin Clients /\ Control
      BY ThreadsAssumption DEF FullInv, IInv, Threads, Clients
    <3>2. /\ pc["wdog"] = "idle" /\ Goto("wdog", "sys_error") /\ UNCHANGED job
          /\ UNCHANGED <<state, sync, dev_lock, session, obj, instances, todo>>
      BY <2>1 DEF WdogFire, lockVars, refVars
    <3>3. Frame("wdog") /\ pc'["wdog"] = "sys_error"
      BY <3>1, <3>2, GotoJob
    <3>4. Change("wdog") /\ Calm("wdog")
      BY <3>1, <3>2, <3>3, QuietChange DEF Calm
    <3> QED BY <3>1, <3>4 DEF Step, Clients
  <2>2. CASE SysError("wdog")
    BY <2>2, SysErrorSteps
  <2> QED BY <1>3, <2>1, <2>2 DEF Wdog
<1>4. CASE Next
  <2>1. \E t \in Threads : Step(t)
    BY <1>1, <1>2, <1>3, <1>4, IrqSteps DEF Next, Threads
  <2> QED BY <1>4, <2>1, StepKeeps
<1>5. CASE UNCHANGED vars
  <2>1. UNCHANGED <<pc, job, state, sync, dev_lock, session, obj, instances, todo>>
    BY <1>5 DEF vars, ssrVars, lockVars, refVars
  <2>2. \A t \in Clients : ThreadInv(t)'
    BY <2>1 DEF SInv, ThreadInv, SyncInv, StateInv, WriteInv, At
  <2>3. \A i \in Insts : OpenInv(i)'
    BY <2>1 DEF SInv, OpenInv, OpenTry
  <2>4. MarkInv' /\ OpenHasSession'
    BY <2>1 DEF SInv, MarkInv, OpenHasSession, Restarting
  <2> QED BY <2>2, <2>3, <2>4 DEF SInv
<1> QED BY <1>4, <1>5

(* The initial state satisfies it. *)
LEMMA InitSInv == Init => SInv
<1> SUFFICES ASSUME Init PROVE SInv
  OBVIOUS
<1>1. \A t \in Threads : /\ pc[t] = (IF t \in Insts THEN "none" ELSE "idle")
                         /\ job[t].why = "none"
  BY DEF Init, NoJob
<1>2. Insts \subseteq Threads /\ Clients \subseteq Threads
  BY DEF Clients, Threads
<1>3. \A t \in Clients : ThreadInv(t)
  BY <1>1, <1>2 DEF ThreadInv, SyncInv, StateInv, WriteInv, At, InTry
<1>4. \A i \in Insts : OpenInv(i)
  BY <1>1, <1>2 DEF Init, OpenInv, OpenTry, InTry
<1>5. MarkInv /\ OpenHasSession
  BY <1>1, <1>2 DEF Init, MarkInv, OpenHasSession
<1> QED BY <1>3, <1>4, <1>5 DEF SInv

(* Until it is closed, an instance that is OPEN, OPEN_DONE or CLOSE has a  *)
(* session the device knows, however session_create, the timeouts, close   *)
(* and handle_sys_error interleave: sync_lock admits one thread to the     *)
(* state machine of an instance, device->lock is held from the publication *)
(* of a session to the write of its command, and the walk of               *)
(* handle_sys_error misses no instance, since core->lock keeps the list.   *)
THEOREM OpenInstancesHaveSessions == Spec => []OpenHasSession
<1>1. FullInv /\ SInv /\ [Next]_vars => SInv'
  BY NextKeepsSession
<1>2. SInv => OpenHasSession
  BY DEF SInv
<1> QED BY FullInvariant, InitSInv, <1>1, <1>2, PTL DEF Spec
=============================================================================
