----------------------------- MODULE CvpDspNode -----------------------------
(***************************************************************************)
(* What the driver keeps for the processes of the DSP                      *)
(* (src/msm/eva/msm_cvp_dsp.c): a fastrpc node for each of them, with a    *)
(* reference count, a driver name, its sessions and its buffers.           *)
(*                                                                         *)
(* cvp_dsp_thread serves one command of the DSP at a time and creates      *)
(* nodes, sessions and buffers.  The fastrpc driver probes a registered    *)
(* node and tells when a process is gone, and the loss or the              *)
(* reinitialisation of the DSP removes all nodes.  These run concurrently; *)
(* a step is what one of them does under one lock.                         *)
(*                                                                         *)
(* A node that is popped from the list belongs to who popped it.  Whoever  *)
(* looks a node up holds a reference, for which the others wait, but not   *)
(* for ever: after some retries they give up.                              *)
(***************************************************************************)
EXTENDS Naturals, FiniteSets, FiniteSetsExt

CONSTANTS
    Handles,     \* the processes of the DSP
    MaxNames,    \* MAX_FASTRPC_DRIVER_NUM: the driver names
    MaxNodes,    \* bound: nodes ever allocated
    MaxInsts,    \* bound: sessions ever opened
    MaxBufs      \* bound: buffers ever allocated or registered

ASSUME NodeAssumption ==
    /\ {MaxNames, MaxNodes, MaxInsts, MaxBufs} \subseteq Nat
    /\ Handles \cap {"dsp", "rm"} = {}

Names == 1..MaxNames
Nodes == 1..MaxNodes
Insts == 1..MaxInsts
Bufs == 1..MaxBufs

VARIABLES
    alive,       \* the processes that exist
    node,        \* the nodes, in the order of fastrpc_driver_list
    used,        \* the names that are DRIVER_NAME_USED
    inst,        \* the DSP sessions: "none", "open", "lost" (open, in no list), "closed"
    buf,         \* the buffers: "none", "mapped", "freed", "leaked"
    own,         \* ownership of a buffer: DSP or CLIENT
    thr,         \* cvp_dsp_thread and its command
    probe,       \* the node that cvp_fastrpc_probe holds, or 0
    act,         \* who removes nodes: fastrpc callbacks, the removal, the thread
    gaveUp,      \* the processes that are gone whose node could not be removed
    bad          \* what went wrong: accesses to freed memory

vars == <<alive, node, used, inst, buf, own, thr, probe, act, gaveUp, bad>>

NoNode == [st |-> "none", h |-> "none", ref |-> 0, name |-> 0, reg |-> FALSE,
           dev |-> FALSE, sess |-> {}, cnt |-> 0, bufs |-> {}, smem |-> 0]

Idle == [at |-> "idle", cmd |-> "none", h |-> "none", n |-> 0, i |-> 0, b |-> 0]
Resting == [at |-> "idle", n |-> 0, i |-> 0]
Actors == Handles \cup {"rm", "dsp"}

Init ==
    /\ alive = Handles
    /\ node = [n \in Nodes |-> NoNode]
    /\ used = {}
    /\ inst = [i \in Insts |-> "none"]
    /\ buf = [b \in Bufs |-> "none"]
    /\ own = [b \in Bufs |-> "none"]
    /\ thr = Idle
    /\ probe = 0
    /\ act = [a \in Actors |-> Resting]
    /\ gaveUp = {}
    /\ bad = {}

-----------------------------------------------------------------------------
Listed == {n \in Nodes : node[n].st = "listed"}
WithHandle(h) == {n \in Listed : node[n].h = h}
Fresh(f) == {x \in DOMAIN f : f[x] = "none"}
NewNodes == {n \in Nodes : node[n].st = "none"}

\* An access to node n, which may have been freed.
Touch(n, why) == bad' = IF node[n].st = "freed" THEN bad \cup {why} ELSE bad

\* cvp_get_fastrpc_node_with_handle and cvp_put_fastrpc_node.
GetRef(n) == [node EXCEPT ![n].ref = @ + 1]
PutRef(nd, n) == [nd EXCEPT ![n].ref = IF @ > 0 THEN @ - 1 ELSE @]

Freed(n) == [NoNode EXCEPT !.st = "freed", !.h = node[n].h]

\* cvp_dsp_thread is done with the command.
Finish == thr' = Idle

-----------------------------------------------------------------------------
\* The commands of the DSP.  A process sends commands while it exists, for its own
\* sessions and buffers; it may be gone before they are served.

\* Sessions and buffers that the process h was told of.
MySessions(h) == UNION {node[n].sess : n \in WithHandle(h)}
MyBufs(h, o) == {b \in UNION {node[n].bufs : n \in WithHandle(h)} : own[b] = o}

Command(cmd, h, i, b, at) ==
    /\ thr.at = "idle"
    /\ h \in alive
    /\ thr' = [at |-> at, cmd |-> cmd, h |-> h, n |-> 0, i |-> i, b |-> b]
    /\ UNCHANGED <<alive, gaveUp, node, used, inst, buf, own, probe, act, bad>>

\* __dsp_cvp_pd_init, and __dsp_cvp_sess_create, which registers as well with HFI 1.
PdInit(h) == NewNodes # {} /\ Command("init", h, 0, 0, "register")
SessCreate(h) ==
    \E i \in Fresh(inst) :
        \/ NewNodes # {} /\ Command("create", h, i, 0, "register")
        \/ Command("create", h, i, 0, "get")
SessDelete(h) == \E i \in MySessions(h) : Command("delete", h, i, 0, "lookup")
\* POWER_REQUEST, SET_SESSION_CONFIGS, START_SESSION, STOP_SESSION, SET_SESSION_NAME.
SessionUse(h) == \E i \in MySessions(h) : Command("use", h, i, 0, "lookup")
MemAlloc(h) == \E b \in Fresh(buf) : Command("alloc", h, 0, b, "get")
MemFree(h) == \E b \in MyBufs(h, "DSP") : Command("free", h, 0, b, "get")
BufRegister(h) == \E i \in MySessions(h), b \in Fresh(buf) : Command("map", h, i, b, "lookup")
BufDeregister(h) ==
    \E i \in MySessions(h), b \in MyBufs(h, "CLIENT") : Command("unmap", h, i, b, "lookup")

-----------------------------------------------------------------------------
\* eva_fastrpc_driver_register.

\* A node with the handle, or a new one with a name and a reference.
Register ==
    /\ thr.at = "register"
    /\ \/ /\ WithHandle(thr.h) # {}
          /\ thr' = [thr EXCEPT !.at = "get"]
          /\ UNCHANGED <<node, used>>
       \/ /\ WithHandle(thr.h) = {} /\ used = Names
          /\ Finish
          /\ UNCHANGED <<node, used>>
       \/ /\ WithHandle(thr.h) = {} /\ used # Names
          /\ LET n == Min(NewNodes)
                 name == Min(Names \ used)
             IN  /\ node' = [node EXCEPT ![n] = [NoNode EXCEPT !.st = "listed", !.h = thr.h,
                                                               !.ref = 1, !.name = name]]
                 /\ used' = used \cup {name}
                 /\ thr' = [thr EXCEPT !.at = "driver", !.n = n]
    /\ UNCHANGED <<alive, gaveUp, inst, buf, own, probe, act, bad>>

\* __fastrpc_driver_register.
RegisterDriver ==
    /\ thr.at = "driver"
    /\ \/ /\ node' = [node EXCEPT ![thr.n].reg = TRUE]
          /\ thr' = [thr EXCEPT !.at = "probe"]
       \/ /\ node' = PutRef(node, thr.n)
          /\ thr' = [thr EXCEPT !.at = "dequeue"]
    /\ UNCHANGED <<alive, gaveUp, used, inst, buf, own, probe, act, bad>>

\* The node was probed, or the wait for that timed out.
Probed ==
    /\ thr.at = "probe"
    /\ node[thr.n].dev
    /\ node' = PutRef(node, thr.n)
    /\ thr' = [thr EXCEPT !.at = "get", !.n = 0]
    /\ UNCHANGED <<alive, gaveUp, used, inst, buf, own, probe, act, bad>>

ProbeTimeout ==
    /\ thr.at = "probe"
    /\ ~node[thr.n].dev
    /\ node' = PutRef(node, thr.n)
    /\ thr' = [thr EXCEPT !.at = "dequeue"]
    /\ UNCHANGED <<alive, gaveUp, used, inst, buf, own, probe, act, bad>>

\* dequeue_frpc_node and the rest of the failure path: somebody else may have
\* removed the node, or may hold a reference for too long.
Dequeue ==
    /\ thr.at = "dequeue"
    /\ \/ /\ thr.n \in Listed => node[thr.n].ref > 0
          /\ UNCHANGED <<node, used>>
       \/ /\ thr.n \in Listed /\ node[thr.n].ref = 0
          /\ node' = [node EXCEPT ![thr.n] = Freed(thr.n)]
          /\ used' = used \ {node[thr.n].name}
    /\ Finish
    /\ UNCHANGED <<alive, gaveUp, inst, buf, own, probe, act, bad>>

\* cvp_fastrpc_probe, for a process that exists.
ProbeGet ==
    /\ probe = 0
    /\ \E n \in Listed :
         /\ node[n].reg /\ ~node[n].dev /\ node[n].h \in alive
         /\ node' = GetRef(n)
         /\ probe' = n
    /\ UNCHANGED <<alive, gaveUp, used, inst, buf, own, thr, act, bad>>

ProbeSet ==
    /\ probe # 0
    /\ Touch(probe, "probe")
    /\ node' = PutRef([node EXCEPT ![probe].dev = TRUE], probe)
    /\ probe' = 0
    /\ UNCHANGED <<alive, gaveUp, used, inst, buf, own, thr, act>>

-----------------------------------------------------------------------------
\* The commands once their node is looked up.

\* get_inst_from_dsp: the session is looked for among the open ones.
LookUp ==
    /\ thr.at = "lookup"
    /\ \/ /\ inst[thr.i] \notin {"open", "lost"}
          /\ Finish
       \/ /\ inst[thr.i] \in {"open", "lost"}
          /\ thr' = [thr EXCEPT !.at = IF thr.cmd = "use" THEN "use" ELSE "get"]
    /\ UNCHANGED <<alive, gaveUp, node, used, inst, buf, own, probe, act, bad>>

\* The commands that use the session and hold nothing that keeps it.
UseSession ==
    /\ thr.at = "use"
    /\ bad' = IF inst[thr.i] = "closed" THEN bad \cup {"inst"} ELSE bad
    /\ Finish
    /\ UNCHANGED <<alive, gaveUp, node, used, inst, buf, own, probe, act>>

\* Without a node a registration is undone, and other commands fail.
GetNode ==
    /\ thr.at = "get"
    /\ IF WithHandle(thr.h) = {}
       THEN /\ IF thr.cmd \in {"init", "create"}
               THEN thr' = [thr EXCEPT !.at = "unregister"] /\ act' = [act EXCEPT !["dsp"].at = "pop"]
               ELSE Finish /\ UNCHANGED act
            /\ UNCHANGED node
       ELSE /\ LET n == Min(WithHandle(thr.h))
               IN  node' = GetRef(n) /\ thr' = [thr EXCEPT !.at = "work", !.n = n]
            /\ UNCHANGED act
    /\ UNCHANGED <<alive, gaveUp, used, inst, buf, own, probe, bad>>

AtWork(cmd) == thr.at = "work" /\ thr.cmd = cmd /\ Touch(thr.n, "thread")

\* The rest of __dsp_cvp_pd_init: without a device, or a task, it unregisters.
InitNode ==
    /\ AtWork("init")
    /\ node' = PutRef(node, thr.n)
    /\ \/ node[thr.n].dev /\ Finish /\ UNCHANGED act
       \/ thr' = [thr EXCEPT !.at = "unregister"] /\ act' = [act EXCEPT !["dsp"].at = "pop"]
    /\ UNCHANGED <<alive, gaveUp, used, inst, buf, own, probe>>

\* Mutant: the reference on the node is kept on the failure path.
MutOpenSession ==
    /\ AtWork("create")
    /\ \/ /\ UNCHANGED node
          /\ inst' \in {inst} \cup (IF node[thr.n].dev THEN {[inst EXCEPT ![thr.i] = "lost"]} ELSE {})
          /\ Finish
       \/ /\ node[thr.n].dev
          /\ inst' = [inst EXCEPT ![thr.i] = "open"]
          /\ node' = [node EXCEPT ![thr.n].sess = @ \cup {thr.i}, ![thr.n].cnt = @ + 1]
          /\ thr' = [thr EXCEPT !.at = "created"]
    /\ UNCHANGED <<alive, gaveUp, used, buf, own, probe, act>>

\* __dsp_cvp_sess_create: the session is opened, if there is a device and a task,
\* and listed, unless its properties are refused.
OpenSession ==
    /\ AtWork("create")
    /\ \/ /\ node' = PutRef(node, thr.n)
          /\ inst' \in {inst} \cup (IF node[thr.n].dev THEN {[inst EXCEPT ![thr.i] = "lost"]} ELSE {})
          /\ Finish
       \/ /\ node[thr.n].dev
          /\ inst' = [inst EXCEPT ![thr.i] = "open"]
          /\ node' = [node EXCEPT ![thr.n].sess = @ \cup {thr.i}, ![thr.n].cnt = @ + 1]
          /\ thr' = [thr EXCEPT !.at = "created"]
    /\ UNCHANGED <<alive, gaveUp, used, buf, own, probe, act>>

\* The session is removed from the list of its node, if it is there.
Delist(n, i) ==
    IF i \in node[n].sess
    THEN [node EXCEPT ![n].sess = @ \ {i}, ![n].cnt = @ - 1]
    ELSE node

\* Mutant: a session that failed is closed and stays in the list.
MutSessionCreated ==
    /\ thr.at = "created"
    /\ Touch(thr.n, "thread")
    /\ node' = PutRef(node, thr.n)
    /\ Finish
    /\ inst' \in {inst, [inst EXCEPT ![thr.i] = "closed"]}
    /\ UNCHANGED <<alive, gaveUp, used, buf, own, probe, act>>

\* msm_cvp_session_create; a failure undoes what was done.
SessionCreated ==
    /\ thr.at = "created"
    /\ Touch(thr.n, "thread")
    /\ \/ node' = PutRef(node, thr.n) /\ Finish
       \/ node' = Delist(thr.n, thr.i) /\ thr' = [thr EXCEPT !.at = "close"]
    /\ UNCHANGED <<alive, gaveUp, used, inst, buf, own, probe, act>>

\* __dsp_cvp_sess_delete, once it has the node.
DeleteSession ==
    /\ AtWork("delete")
    /\ \/ /\ thr.i \in node[thr.n].sess
          /\ node' = Delist(thr.n, thr.i)
          /\ thr' = [thr EXCEPT !.at = "close"]
       \/ /\ thr.i \notin node[thr.n].sess
          /\ node' = PutRef(node, thr.n)
          /\ Finish
    /\ UNCHANGED <<alive, gaveUp, used, inst, buf, own, probe, act>>

\* msm_cvp_close, with cvp_dsp_del_sess.
Close(i, why) ==
    /\ inst' = [inst EXCEPT ![i] = "closed"]
    /\ bad' = IF inst[i] = "closed" THEN bad \cup {why} ELSE bad

ThreadCloses ==
    /\ thr.at = "close"
    /\ Close(thr.i, "twice")
    /\ node' = PutRef(node, thr.n)
    /\ Finish
    /\ UNCHANGED <<alive, gaveUp, used, buf, own, probe, act>>

\* __dsp_cvp_mem_alloc and __dsp_cvp_buf_register.
AddBuffer(cmd, o) ==
    /\ AtWork(cmd)
    /\ \/ /\ node' = PutRef(node, thr.n)
          /\ UNCHANGED <<buf, own>>
       \/ /\ node' = PutRef([node EXCEPT ![thr.n].bufs = @ \cup {thr.b}, ![thr.n].smem = @ + 1], thr.n)
          /\ buf' = [buf EXCEPT ![thr.b] = "mapped"]
          /\ own' = [own EXCEPT ![thr.b] = o]
    /\ Finish
    /\ UNCHANGED <<alive, gaveUp, used, inst, probe, act>>

\* Mutant: a freed buffer stays in the list.
MutKeepBuffer(cmd) ==
    /\ AtWork(cmd)
    /\ \/ /\ thr.b \in node[thr.n].bufs
          /\ node' = PutRef([node EXCEPT ![thr.n].smem = @ - 1], thr.n)
          /\ buf' = [buf EXCEPT ![thr.b] = "freed"]
       \/ /\ node' = PutRef(node, thr.n)
          /\ UNCHANGED buf
    /\ Finish
    /\ UNCHANGED <<alive, gaveUp, used, inst, own, probe, act>>

\* __dsp_cvp_mem_free and __dsp_cvp_buf_deregister.
DelBuffer(cmd) ==
    /\ AtWork(cmd)
    /\ \/ /\ thr.b \in node[thr.n].bufs
          /\ node' = PutRef([node EXCEPT ![thr.n].bufs = @ \ {thr.b}, ![thr.n].smem = @ - 1], thr.n)
          /\ buf' = [buf EXCEPT ![thr.b] = "freed"]
       \/ /\ node' = PutRef(node, thr.n)
          /\ UNCHANGED buf
    /\ Finish
    /\ UNCHANGED <<alive, gaveUp, used, inst, own, probe, act>>

-----------------------------------------------------------------------------
\* The removal of nodes.

\* The process is gone, and cvp_fastrpc_callback unregisters the node, which was
\* probed or is being probed.
ProcessGone(h) ==
    /\ h \in alive
    /\ alive' = alive \ {h}
    /\ act' = [act EXCEPT ![h].at =
                 IF \E n \in WithHandle(h) : node[n].dev \/ probe = n THEN "pop" ELSE "idle"]
    /\ UNCHANGED <<gaveUp, node, used, inst, buf, own, thr, probe, bad>>

\* cvp_remove_dsp_sessions, when the DSP is lost or reinitialised.
RemoveSessions ==
    /\ act["rm"].at = "idle"
    /\ Listed # {}
    /\ act' = [act EXCEPT !["rm"].at = "pop"]
    /\ UNCHANGED <<alive, gaveUp, node, used, inst, buf, own, thr, probe, bad>>

\* The node that a wants to pop: the one with its handle, or the first.
Sought(a) ==
    CASE a = "rm"  -> Listed
      [] a = "dsp" -> WithHandle(thr.h)
      [] OTHER     -> WithHandle(a)

\* Nothing to do, or given up.
Rest(a) ==
    /\ act' = [act EXCEPT ![a] = Resting]
    /\ IF a = "dsp" THEN Finish ELSE UNCHANGED thr

\* Mutant: a node is popped in spite of references on it.
MutPop(a) ==
    /\ act[a].at = "pop"
    /\ Sought(a) # {}
    /\ node' = [node EXCEPT ![Min(Sought(a))].st = "out"]
    /\ act' = [act EXCEPT ![a].at = "sess", ![a].n = Min(Sought(a))]
    /\ UNCHANGED <<alive, gaveUp, used, inst, buf, own, thr, probe, bad>>

\* pop_frpc_node, pop_frpc_node_with_handle: a node without references.
Pop(a) ==
    /\ act[a].at = "pop"
    /\ Sought(a) # {}
    /\ LET n == Min(Sought(a))
       IN  /\ node[n].ref = 0
           /\ node' = [node EXCEPT ![n].st = "out"]
           /\ act' = [act EXCEPT ![a].at = "sess", ![a].n = n]
    /\ UNCHANGED <<alive, gaveUp, used, inst, buf, own, thr, probe, bad>>

\* A node with references is waited for, up to a bound.  pop_frpc_node remembers it.
PopBusy(a) ==
    /\ act[a].at = "pop"
    /\ Sought(a) # {}
    /\ node[Min(Sought(a))].ref > 0
    /\ \/ /\ a = "rm"
          /\ act' = [act EXCEPT ![a].n = Min(Sought(a))]
          /\ UNCHANGED <<gaveUp, thr>>
       \/ /\ Rest(a)
          /\ gaveUp' = gaveUp \cup ({a} \cap Handles)
    /\ UNCHANGED <<alive, node, used, inst, buf, own, probe, bad>>

\* Nothing is left in the list.  pop_frpc_node then returns the node it waited
\* for, which somebody else has popped.
PopEmpty(a) ==
    /\ act[a].at = "pop"
    /\ Sought(a) = {}
    /\ IF act[a].n # 0
       THEN act' = [act EXCEPT ![a].at = "sess"] /\ bad' = bad \cup {"stale"} /\ UNCHANGED thr
       ELSE Rest(a) /\ UNCHANGED bad
    /\ UNCHANGED <<alive, gaveUp, node, used, inst, buf, own, probe>>

\* A session of the popped node is delisted, and then closed without the lock.  The
\* thread leaves a node alone that still counts sessions.
RemoveSession(a) ==
    /\ act[a].at = "sess"
    /\ Touch(act[a].n, "remove")
    /\ LET n == act[a].n
       IN  \/ /\ node[n].sess = {} /\ (node[n].cnt = 0 \/ a # "dsp")
              /\ act' = [act EXCEPT ![a].at = "bufs"]
              /\ UNCHANGED node
              /\ UNCHANGED thr
           \/ /\ node[n].sess = {} /\ node[n].cnt # 0 /\ a = "dsp"
              /\ Rest(a)
              /\ UNCHANGED node
           \/ /\ \E i \in node[n].sess :
                    /\ node' = Delist(n, i)
                    /\ act' = [act EXCEPT ![a].at = "close", ![a].i = i]
              /\ UNCHANGED thr
    /\ UNCHANGED <<alive, gaveUp, used, inst, buf, own, probe>>

RemoverCloses(a) ==
    /\ act[a].at = "close"
    /\ Close(act[a].i, "twice")
    /\ act' = [act EXCEPT ![a].at = "sess", ![a].i = 0]
    /\ UNCHANGED <<alive, gaveUp, node, used, buf, own, thr, probe>>

\* The buffers that cvp_release_dsp_buffers does not free.
Clients(n) == {b \in node[n].bufs : own[b] = "CLIENT"}

\* eva_fastrpc_remove_buffers drops those without unmapping them.
Leaks(a, n) == IF a = "rm" THEN Clients(n) ELSE {}

\* The buffers of the node; eva_fastrpc_driver_unregister counts those of clients.
RemoveBuffers(a) ==
    /\ act[a].at = "bufs"
    /\ Touch(act[a].n, "remove")
    /\ LET n == act[a].n
       IN  /\ buf' = [b \in Bufs |-> CASE b \notin node[n].bufs -> buf[b]
                                       [] b \in Leaks(a, n)     -> "leaked"
                                       [] OTHER                 -> "freed"]
           /\ node' = [node EXCEPT ![n].bufs = {},
                                   ![n].smem = IF a = "rm" THEN @ ELSE @ - Cardinality(Clients(n))]
    /\ act' = [act EXCEPT ![a].at = "free"]
    /\ UNCHANGED <<alive, gaveUp, used, inst, own, thr, probe>>

\* The driver is unregistered, the name released and the node freed.
FreeNode(a) ==
    /\ act[a].at = "free"
    /\ Touch(act[a].n, "remove")
    /\ node' = [node EXCEPT ![act[a].n] = Freed(act[a].n)]
    /\ used' = used \ {node[act[a].n].name}
    /\ IF a = "rm" THEN act' = [act EXCEPT ![a] = [Resting EXCEPT !.at = "pop"]] /\ UNCHANGED thr
                   ELSE Rest(a)
    /\ UNCHANGED <<alive, gaveUp, inst, buf, own, probe>>

-----------------------------------------------------------------------------
NewCommand ==
    \E h \in Handles :
        PdInit(h) \/ SessCreate(h) \/ SessDelete(h) \/ SessionUse(h)
        \/ MemAlloc(h) \/ MemFree(h) \/ BufRegister(h) \/ BufDeregister(h)

ThreadStep ==
    \/ Register \/ RegisterDriver \/ Probed \/ ProbeTimeout \/ Dequeue
    \/ LookUp \/ UseSession \/ GetNode \/ InitNode
    \/ OpenSession \/ SessionCreated \/ DeleteSession \/ ThreadCloses
    \/ AddBuffer("alloc", "DSP") \/ AddBuffer("map", "CLIENT")
    \/ DelBuffer("free") \/ DelBuffer("unmap")

RemoverStep(a) ==
    \/ Pop(a) \/ PopBusy(a) \/ PopEmpty(a) \/ RemoveSession(a) \/ RemoverCloses(a)
    \/ RemoveBuffers(a) \/ FreeNode(a)

Next ==
    \/ NewCommand \/ ThreadStep \/ ProbeGet \/ ProbeSet
    \/ \E h \in Handles : ProcessGone(h)
    \/ RemoveSessions \/ \E a \in Actors : RemoverStep(a)

Spec == Init /\ [][Next]_vars

-----------------------------------------------------------------------------
\* The types of the variables.
TypeOK ==
    /\ alive \subseteq Handles /\ gaveUp \subseteq Handles /\ used \subseteq Names
    /\ \A n \in Nodes :
         /\ node[n].st \in {"none", "listed", "out", "freed"}
         /\ node[n].ref \in 0..2 /\ node[n].cnt \in 0..MaxInsts /\ node[n].smem \in 0..MaxBufs
         /\ node[n].sess \subseteq Insts /\ node[n].bufs \subseteq Bufs
    /\ inst \in [Insts -> {"none", "open", "lost", "closed"}]
    /\ buf \in [Bufs -> {"none", "mapped", "freed", "leaked"}]
    /\ own \in [Bufs -> {"none", "DSP", "CLIENT"}]
    /\ probe \in 0..MaxNodes /\ thr.n \in 0..MaxNodes
    /\ bad \subseteq {"inst", "stale", "twice", "thread", "probe", "remove"}

Live == {n \in Nodes : node[n].st \in {"listed", "out"}}

\* pop_frpc_node has not returned a node that it does not own (msm_cvp_dsp.c:374).
Sane == "stale" \notin bad

\* Nobody uses a node that was freed, or closes a session twice, whatever the order
\* of commands, probes, processes that end and removals: the reference counts and
\* the retries of pop_frpc_node_with_handle and dequeue_frpc_node see to it.  Two
\* things escape: the commands that use a session without a reference, and the
\* node that pop_frpc_node returns from an empty list.
NoUseAfterFree == Sane => bad \subseteq {"inst"}

\* The references of a node are those of the thread and of the probe; every path out
\* of a command, the failures included, gives back the one it took.
RefExact ==
    Sane => \A n \in Live :
        node[n].ref = (IF thr.n = n /\ thr.at \in {"driver", "probe", "work", "created", "close"}
                       THEN 1 ELSE 0)
                      + (IF probe = n THEN 1 ELSE 0)

\* session_cnt counts the sessions of a node, which are all open, and every open
\* session is in the list of exactly one node that exists or is just being closed:
\* none outlives its node, and no list holds a session that is gone.
SessionsExact ==
    Sane => /\ \A n \in Live : /\ node[n].cnt = Cardinality(node[n].sess)
                              /\ \A i \in node[n].sess : inst[i] = "open"
            /\ \A i \in Insts : inst[i] = "open" =>
                 Cardinality({n \in Live : i \in node[n].sess})
                   + (IF thr.at = "close" /\ thr.i = i THEN 1 ELSE 0)
                   + Cardinality({a \in Actors : act[a].at = "close" /\ act[a].i = i}) = 1

\* The names in use are those of the nodes that exist, each of one node: names are
\* neither lost, after which processes could not register, nor given out twice.
NamesExact ==
    Sane => /\ used = {node[n].name : n \in Live}
            /\ \A m, n \in Live : node[m].name = node[n].name => m = n

\* A mapped buffer belongs to one node that exists: the end of a node leaves none
\* behind.  As long as the node is listed smem_count counts its buffers.
BuffersExact ==
    Sane => /\ \A b \in Bufs : buf[b] = "mapped" => Cardinality({n \in Live : b \in node[n].bufs}) = 1
            /\ \A n \in Listed : node[n].smem = Cardinality(node[n].bufs)

\* A node that was taken from the list is in the hands of one remover, which will
\* free it: eva_fastrpc_driver_unregister never aborts after the pop.
OutOwned ==
    Sane => \A n \in Nodes : node[n].st = "out" =>
        Cardinality({a \in Actors : act[a].n = n /\ act[a].at # "pop"}) = 1

\* Once everything is quiet no process that is gone has a node with a device, unless
\* the callback could not wait for the end of a command.
GoneRemoved ==
    (Sane /\ thr.at = "idle" /\ probe = 0) =>
        \A h \in Handles \ (alive \cup gaveUp) :
            act[h].at = "idle" => \A n \in WithHandle(h) : ~node[n].dev

\* A node is used, taken apart and freed by who may do so: nobody uses a freed one,
\* and one that was popped has one remover.
NodeSafe == NoUseAfterFree /\ OutOwned

\* What belongs to a process of the DSP is found through its node as long as it
\* exists, and ends with it: sessions, names, buffers, and the node itself.
OwnedExact == SessionsExact /\ NamesExact /\ BuffersExact /\ GoneRemoved
=============================================================================
