----------------------------- MODULE CvpPower -----------------------------
(***************************************************************************)
(* Power of the EVA core (src/msm/eva/cvp_hfi.c): loading and unloading,   *)
(* power collapse by the delayed work, by a system suspend or never,       *)
(* resume by whoever sends a command or handles an interrupt, and what a   *)
(* failure at any of these steps leaves switched on.                       *)
(*                                                                         *)
(* All of it runs under device->lock, so what a function does between its  *)
(* mutex_lock and its mutex_unlock is one step: an operator from a device  *)
(* record to the set of outcomes [d, ok] it can have.  The steps outside   *)
(* the lock (the end of iris_hfi_pm_handler, of iris_hfi_suspend and of    *)
(* the threaded interrupt handler) are actions of their own.               *)
(***************************************************************************)
EXTENDS CvpHal

CONSTANTS
    Platforms,   \* the targets to check
    LowPower,    \* msm_cvp_fw_low_power_mode
    MaxSkip,     \* CVP_MAX_PC_SKIP_COUNT
    MaxFaults,   \* bound: calls that fail, of all that can
    MaxBusy,     \* bound: collapses the DSP refuses with EBUSY
    MaxSend,     \* bound: commands and interrupts
    MaxInit      \* bound: firmware loads

ASSUME PowerAssumption ==
    /\ Platforms \subseteq Targets
    /\ LowPower \in BOOLEAN
    /\ MaxSkip \in Nat \ {0}
    /\ {MaxFaults, MaxBusy, MaxSend, MaxInit} \subseteq Nat

VARIABLES
    target,      \* the platform
    dev,         \* struct iris_hfi_device and the hardware under it
    pm,          \* iris_hfi_pm_handler: "idle", "check", "lock", or the rc it acts on
    isr,         \* the threaded handler: "idle", "woken", "enable" or "keep" the irq off
    susp,        \* iris_hfi_suspend: "idle" or "cancel"
    fatal        \* __process_fatal_error was called, and not yet handled

vars == <<target, dev, pm, isr, susp, fatal>>

\* What __power_collapse returns.
Codes == {"0", "EBUSY", "EAGAIN", "EINVAL", "other"}

(***************************************************************************)
(* The device.  held counts the references on a clock or a GDSC, hwctl are *)
(* the GDSCs under hardware control, jam the ones of them that will not be *)
(* taken back, asleep that the firmware has switched the core off.  bad    *)
(* are the resources released once too often, dark the register domains    *)
(* accessed without power.  depth is the disable depth of the interrupt,   *)
(* wd the watchdog bit of intr_status, queued that the pm work is pending, *)
(* res the handles acquired, told that the loaded firmware was given the   *)
(* system cache, fw that it has a cookie.  faults are the kinds of         *)
(* failures so far.                                                        *)
(***************************************************************************)
NewDevice(t) ==
    [held |-> [r \in Resources(t) |-> 0], hwctl |-> {}, jam |-> {}, asleep |-> FALSE,
     bad |-> {}, dark |-> {},
     power_enabled |-> FALSE, state |-> "DEINIT", voted |-> FALSE, data |-> FALSE,
     depth |-> 1, wd |-> FALSE, queued |-> FALSE, skip |-> 0, last |-> "other",
     res |-> {}, sub |-> FALSE, isset |-> FALSE, told |-> FALSE, fw |-> FALSE, reg_dumped |-> FALSE,
     faults |-> {}, left |-> MaxFaults, busy |-> MaxBusy, sends |-> MaxSend, inits |-> MaxInit]

Init ==
    /\ target \in Platforms
    /\ dev = NewDevice(target)
    /\ pm = "idle"
    /\ isr = "idle"
    /\ susp = "idle"
    /\ fatal = FALSE

-----------------------------------------------------------------------------
\* Outcomes, and how a function with goto labels combines them.

Ok(d) == [d |-> d, ok |-> TRUE]
Err(d) == [d |-> d, ok |-> FALSE]

Fail(d, kind) == [d EXCEPT !.left = @ - 1, !.faults = @ \cup {kind}]

\* A call that succeeds, or fails in the way kind names.
May(d, kind) == {Ok(d)} \cup (IF d.left > 0 THEN {Err(Fail(d, kind))} ELSE {})

Then(S, F(_)) == UNION {IF o.ok THEN F(o.d) ELSE {o} : o \in S}
OnError(S, F(_)) == UNION {IF o.ok THEN {o} ELSE {Err(d) : d \in F(o.d)} : o \in S}

-----------------------------------------------------------------------------
\* Clocks, GDSCs and registers.

Lit(t, d, dom) ==
    /\ \A r \in ClocksOf(t, dom) : d.held[r] > 0
    /\ dom = "core" => ~d.asleep /\ \A r \in ClocksOf(t, "ctl") : d.held[r] > 0

prepare_enable(d, r) == [d EXCEPT !.held[r] = @ + 1]

\* A GDSC is first taken back from the hardware, which switches it on; when it
\* cannot be, it is left on.
disable(t, d, r) ==
    LET e == [d EXCEPT !.hwctl = @ \ {r}, !.asleep = @ /\ r # CoreGdscs(t)[1]]
    IN  IF r \in d.jam THEN d
        ELSE IF d.held[r] = 0 THEN [e EXCEPT !.bad = @ \cup {r}]
        ELSE [e EXCEPT !.held[r] = @ - 1]

\* __write_register and __read_register refuse to access a device that is off.
access_register(t, d, dom) ==
    IF d.power_enabled /\ ~Lit(t, d, dom) THEN [d EXCEPT !.dark = @ \cup {dom}] ELSE d

Do(t, d, op) ==
    CASE op.do = "on" -> prepare_enable(d, op.arg)
      [] op.do = "off" -> disable(t, d, op.arg)
      [] OTHER -> access_register(t, d, op.arg)

Run(t, d, ops) ==
    LET after[i \in 0..Len(ops)] == IF i = 0 THEN d ELSE Do(t, after[i - 1], ops[i])
    IN  after[Len(ops)]

vote_buses(d) ==
    Then(IF d.data THEN May(d, "bus") ELSE {Ok(d)}, LAMBDA e : {Ok([e EXCEPT !.voted = TRUE])})

unvote_buses(d) == [d EXCEPT !.voted = FALSE, !.data = FALSE]

-----------------------------------------------------------------------------
\* Power on and off.

PowerController(t, d) ==
    {Ok(Run(t, d, power_on_controller(t, 0, FALSE)))} \cup
    (IF d.left = 0 THEN {}
     ELSE {Err(Run(t, Fail(d, IF StuckController(t, k) THEN "stuck" ELSE "controller"),
                   power_on_controller(t, k, StuckController(t, k)))) :
             k \in Switches(power_on_controller(t, 0, FALSE))})

PowerCore(t, d) ==
    {Ok(Run(t, d, power_on_core(t, 0, FALSE)))} \cup
    (IF d.left = 0 THEN {}
     ELSE {Err(Run(t, Fail(d, IF StuckCore(t, k) THEN "stuck" ELSE "core"),
                   power_on_core(t, k, StuckCore(t, k)))) :
             k \in Switches(power_on_core(t, 0, FALSE))})

iris_power_on(t, d) ==
    LET started(e) == {Ok(Run(t, [e EXCEPT !.power_enabled = TRUE],
                              <<Reg("ctl"), Reg("ctl")>> \o noc_lpi(t) \o set_registers(t)
                              \o check_core_power_on(t) \o check_ctl_power_on(t)))}
        checked(e) == May(e, "check")
        enabled(e) == {Ok(Run(t, [e EXCEPT !.wd = FALSE, !.depth = @ - 1],
                              interrupt_init(t) \o <<Reg("ctl")>>))}
        fail_enable_core(e) == {Run(t, e, power_off_controller(t))}
        core(e) == OnError(Then(Then(PowerCore(t, e), started), checked), fail_enable_core)
        fail_enable_controller(e) == {unvote_buses(e)}
        on(e) == OnError(Then(PowerController(t, e), core), fail_enable_controller)
        fail_vote_buses(e) == {[e EXCEPT !.power_enabled = FALSE]}
    IN  IF d.power_enabled THEN {Ok(d)}
        ELSE OnError(Then(Then(vote_buses(d), on), enabled), fail_vote_buses)

\* What power_off_core finds: a core the firmware has switched off, one that
\* is not under hardware control, or one to be idled.
CoreFound(t, d) ==
    IF CoreGdscs(t)[1] \in d.hwctl THEN {"fw_off", "idle"}
    ELSE IF LowPower THEN {"sw_ctl"} ELSE {"idle"}

\* A core whose GDSC cannot be taken back from the hardware stays on.
TakeBack(t, d) ==
    {d} \cup (IF d.left = 0 \/ d.hwctl = {} THEN {}
              ELSE {[Fail(d, "take_back") EXCEPT !.jam = {CoreGdscs(t)[1]}]})

power_off_iris2(t, d) ==
    LET quiet == [d EXCEPT !.depth = IF d.wd THEN @ ELSE @ + 1, !.wd = FALSE]
        off(how) == {Run(t, [e EXCEPT !.asleep = (how = "fw_off")],
                         power_off_core(t, how) \o power_off_controller(t)) :
                       e \in TakeBack(t, quiet)}
    IN  IF ~d.power_enabled THEN {d}
        ELSE {[unvote_buses(e) EXCEPT !.power_enabled = FALSE, !.asleep = FALSE, !.jam = {}] :
                e \in UNION {off(how) : how \in CoreFound(t, d)}}

-----------------------------------------------------------------------------
\* Handing the GDSCs of the core to the hardware.

Moved(d, dest, gs) == [d EXCEPT !.hwctl = IF dest = "HW" THEN @ \cup gs ELSE @ \ gs]

\* k = 0: all are moved.  Otherwise the k-th fails, before (late = 0) or after
\* it moved, and the ones before it go back under software control.
switch_all_core_gdsc(t, d, dest, k, late) ==
    LET g == CoreGdscs(t)
    IN  IF k = 0 THEN Moved(d, dest, Range(g))
        ELSE Moved(Moved(d, dest, Range(SubSeq(g, 1, k - 1 + late))),
                   "SW", Range(SubSeq(g, 1, k - 1)))

enable_hw_power_collapse_hawi(t, d) ==
    {switch_all_core_gdsc(t, d, "HW", 0, 0)} \cup
    (IF d.left = 0 THEN {}
     ELSE {switch_all_core_gdsc(t, switch_all_core_gdsc(t, Fail(d, "hwpc"), "HW", k, late),
                                "SW", 0, 0) :
             k \in DOMAIN CoreGdscs(t), late \in 0..1})

enable_hw_power_collapse_others(t, d) ==
    {Moved(d, "HW", {"core"})} \cup (IF d.left = 0 THEN {} ELSE {Fail(d, "hwpc")})

enable_hw_power_collapse(t, d) ==
    IF ~LowPower THEN {d}
    ELSE IF t \in {"hawi", "art"} THEN enable_hw_power_collapse_hawi(t, d)
    ELSE enable_hw_power_collapse_others(t, d)

\* cvp_dump_csr takes the core back, reads its NoC and hands it over again.
\* When it cannot be taken back the registers are read all the same.
dump_csr(t, d) ==
    LET g == Range(CoreGdscs(t))
        ops == <<Reg("ctl")>> \o check_ctl_power_on(t) \o dump_noc_regs(t)
        read(e) == [Run(t, e, ops) EXCEPT !.reg_dumped = TRUE, !.asleep = FALSE]
    IN  IF ~LowPower THEN {read(d)}
        ELSE enable_hw_power_collapse(t, read(Moved(d, "SW", g)))
             \cup (IF d.left = 0 THEN {}
                   ELSE {read([Fail(d, "dump") EXCEPT !.asleep = (d.hwctl # {})])})

\* The GDSCs are handed over whether the firmware came up or not.
boot_firmware(t, d) ==
    UNION {{[d |-> Run(t, e, <<Reg("ctl")>>), ok |-> b.ok] :
              e \in enable_hw_power_collapse(t, Run(t, b.d, <<Reg("ctl")>>))} :
           b \in May(d, "boot")}

-----------------------------------------------------------------------------
\* The system cache.

enable_subcaches(d) ==
    {[d EXCEPT !.sub = TRUE]} \cup
    (IF d.left = 0 THEN {}
     ELSE {[Fail(d, "llcc") EXCEPT !.sub = FALSE, !.isset = FALSE, !.told = FALSE]})

disable_subcaches(d) == [d EXCEPT !.sub = FALSE]

set_subcaches(d) ==
    IF d.isset \/ ~d.sub THEN {d}
    ELSE {[d EXCEPT !.isset = TRUE, !.told = TRUE]} \cup
         (IF d.left = 0 THEN {} ELSE {disable_subcaches(Fail(d, "subcache_cmd"))})

-----------------------------------------------------------------------------
\* Commands, collapse and resume.

\* A command that is in the queue (re)arms the pm work.
write_cmd(d, kind) == [d EXCEPT !.last = kind, !.queued = TRUE]

resume(t, d) ==
    LET tz(e) == OnError(May(e, "tz_resume"), LAMBDA f : power_off_iris2(t, f))
        boot(e) == OnError(boot_firmware(t, e), LAMBDA f : power_off_iris2(t, f))
        running(e) == {Ok([f EXCEPT !.skip = 0]) :
                         f \in UNION {set_subcaches(g) :
                                      g \in enable_subcaches(write_cmd(Run(t, e, <<Reg("ctl")>>), "other"))}}
        mapped(e) == {Ok(Run(t, e, setup_dsp_uc_memmap(t)))}
    IN  IF d.power_enabled
        THEN {Ok([d EXCEPT !.skip = IF d.last = "PC_PREP" THEN @ ELSE 0])}
        ELSE IF d.state # "INIT" THEN {Err(d)}
        ELSE Then(Then(Then(Then(iris_power_on(t, d), mapped), tz), boot), running)

\* force: the DSP is not asked whether it has a session.
CollapseRefused(d, force) ==
    (IF force \/ d.busy = 0 THEN {} ELSE {[d |-> [d EXCEPT !.busy = @ - 1], rc |-> "EBUSY"]})
    \cup (IF d.left = 0 THEN {}
          ELSE {[d |-> Fail(d, "dsp_einval"), rc |-> "EINVAL"],
                [d |-> Fail(d, "dsp_error"), rc |-> "EAGAIN"]})

\* The firmware is not idle, the queue is full, or it does not get ready.
CollapseSkipped(t, d) ==
    {[d |-> e, rc |-> "EAGAIN"] :
       e \in {Run(t, d, <<Reg("ctl")>>), [d EXCEPT !.last = "PC_PREP"], write_cmd(d, "PC_PREP")}}

suspend(t, d) ==
    {[d |-> e, rc |-> "0"] : e \in power_off_iris2(t, disable_subcaches(d))}
    \cup (IF d.left = 0 THEN {} ELSE {[d |-> Fail(d, "tz_suspend"), rc |-> "other"]})

power_collapse(t, d, force) ==
    IF ~d.power_enabled THEN {[d |-> d, rc |-> "0"]}
    ELSE IF d.state # "INIT" THEN {[d |-> d, rc |-> "EINVAL"]}
    ELSE CollapseRefused(d, force) \cup CollapseSkipped(t, d)
         \cup suspend(t, d) \cup suspend(t, write_cmd(d, "PC_PREP"))

-----------------------------------------------------------------------------
\* Loading and unloading.

Get(d, kind) == Then(May(d, kind), LAMBDA e : {Ok([e EXCEPT !.res = @ \cup {kind}])})
Put(d, kind) == [d EXCEPT !.res = @ \ {kind}]

init_regulators(t, d) == IF t = "pakala" THEN Get(d, "regulators") ELSE {Ok(d)}
init_clocks(d) == Get(d, "clocks")
init_bus(d) == Get(d, "bus")

deinit_bus(d) == [Put(d, "bus") EXCEPT !.data = FALSE]
deinit_resources(d) == Put(Put(deinit_bus(Put(d, "subcaches")), "clocks"), "regulators")

\* A subcache that cannot be had is only warned of, but its code is returned
\* and the caller gives up: nothing acquired before it is put.
init_subcaches(d) == Get(d, "subcaches")

init_resources(t, d) ==
    LET clocks(e) == OnError(init_clocks(e), LAMBDA f : {Put(f, "regulators")})
        bus(e) == OnError(init_bus(e), LAMBDA f : {deinit_resources(f)})
    IN  Then(Then(Then(init_regulators(t, d), clocks), bus), init_subcaches)

unload_fw(t, d) ==
    IF ~d.fw THEN {d}
    ELSE {deinit_resources(e) :
            e \in power_off_iris2(t, [d EXCEPT !.queued = FALSE, !.fw = FALSE, !.told = FALSE])}

err_core_init(t, d) == unload_fw(t, [d EXCEPT !.state = "DEINIT"])

err_init_queues(t, d) == 
    UNION {err_core_init(t, deinit_resources(e)) : e \in power_off_iris2(t, d)}

load_fw(t, d) ==
    Then(OnError(May(d, "load"), LAMBDA e : power_off_iris2(t, e)),
         LAMBDA e : {Ok([e EXCEPT !.fw = TRUE])})

power_on_init(t, d) ==
    Then(init_resources(t, d),
         LAMBDA e : OnError(iris_power_on(t, e), LAMBDA f : {deinit_resources(f)}))

iris_hfi_core_init(t, d) ==
    LET synx(e) == OnError(May(e, "synx"), LAMBDA f : err_core_init(t, f))
        queues(e) == OnError(May([e EXCEPT !.state = "INIT", !.reg_dumped = FALSE], "queues"),
                             LAMBDA f : err_init_queues(t, f))
        load(e) == OnError(Then(load_fw(t, e), LAMBDA f : boot_firmware(t, f)),
                           LAMBDA f : err_core_init(t, f))
        sys_init(e) == OnError(May(e, "sys_init"), LAMBDA f : err_core_init(t, f))
        running(e) == {Ok([f EXCEPT !.skip = 0]) :
                         f \in UNION {set_subcaches(g) : g \in enable_subcaches(write_cmd(e, "other"))}}
    IN  Then(Then(Then(Then(Then(power_on_init(t, [d EXCEPT !.data = TRUE]),
                                 synx), queues), load), sys_init), running)

iris_hfi_core_release(t, d) ==
    UNION {unload_fw(t, Run(t, disable_subcaches([o.d EXCEPT !.state = "DEINIT"]),
                            <<Reg("ctl")>>)) :
           o \in resume(t, d)}

-----------------------------------------------------------------------------
\* Actions

CoreInit ==
    /\ dev.state = "DEINIT"
    /\ dev.inits > 0
    /\ \E o \in iris_hfi_core_init(target, [dev EXCEPT !.inits = @ - 1]) : dev' = o.d
    /\ fatal' = FALSE
    /\ UNCHANGED <<target, pm, isr, susp>>

\* By a restart after a system error, or when the driver is removed.
CoreRelease ==
    /\ dev.state = "INIT"
    /\ dev' \in iris_hfi_core_release(target, dev)
    /\ fatal' = FALSE
    /\ UNCHANGED <<target, pm, isr, susp>>

\* Any sender of a command; a full queue refuses it after the resume.
SendCommand ==
    /\ dev.state = "INIT"
    /\ dev.sends > 0
    /\ \E o \in resume(target, [dev EXCEPT !.last = "other", !.sends = @ - 1]) :
         dev' \in {o.d} \cup (IF o.ok THEN {write_cmd(o.d, "other")} ELSE {})
    /\ UNCHANGED <<target, pm, isr, susp, fatal>>

\* DSP2CPU_POWERON
DspPowerOn ==
    /\ dev.sends > 0
    /\ \E o \in resume(target, [dev EXCEPT !.sends = @ - 1]) : dev' = o.d
    /\ UNCHANGED <<target, pm, isr, susp, fatal>>

PmWork ==
    /\ pm = "idle"
    /\ dev.queued
    /\ dev' = [dev EXCEPT !.queued = FALSE]
    /\ pm' = "check"
    /\ UNCHANGED <<target, isr, susp, fatal>>

\* Mutant: one skip too many.
MutPmCheck ==
    /\ pm = "check"
    /\ IF dev.skip > MaxSkip
       THEN /\ dev' = [dev EXCEPT !.skip = 0]
            /\ pm' = "idle"
            /\ fatal' = TRUE
       ELSE /\ pm' = "lock"
            /\ UNCHANGED <<dev, fatal>>
    /\ UNCHANGED <<target, isr, susp>>

\* The check of skip_pc_count is made without the lock.
PmCheck ==
    /\ pm = "check"
    /\ IF dev.skip >= MaxSkip
       THEN /\ dev' = [dev EXCEPT !.skip = 0]
            /\ pm' = "idle"
            /\ fatal' = TRUE
       ELSE /\ pm' = "lock"
            /\ UNCHANGED <<dev, fatal>>
    /\ UNCHANGED <<target, isr, susp>>

PmCollapse ==
    /\ pm = "lock"
    /\ \E force \in BOOLEAN : \E o \in power_collapse(target, dev, force) :
         /\ dev' = o.d
         /\ pm' = o.rc
    /\ UNCHANGED <<target, isr, susp, fatal>>

\* Mutant: a collapse that was skipped is not tried again.
MutPmDoneLost ==
    /\ pm \in Codes
    /\ dev' = IF pm = "EBUSY" THEN [dev EXCEPT !.skip = 0, !.queued = TRUE]
              ELSE [dev EXCEPT !.skip = 0]
    /\ pm' = "idle"
    /\ UNCHANGED <<target, isr, susp, fatal>>

\* Mutant: skips are not counted.
MutPmDoneForever ==
    /\ pm \in Codes
    /\ dev' = [dev EXCEPT !.skip = 0, !.queued = pm \in {"EBUSY", "EAGAIN"}]
    /\ pm' = "idle"
    /\ UNCHANGED <<target, isr, susp, fatal>>

\* The switch over rc, after the unlock.
PmDone ==
    /\ pm \in Codes
    /\ dev' = CASE pm = "0" ->
                     [dev EXCEPT !.skip = 0, !.queued = FALSE,
                                 !.faults = IF dev.queued /\ dev.power_enabled
                                            THEN @ \cup {"late_cancel"} ELSE @]
                [] pm = "EBUSY" -> [dev EXCEPT !.skip = 0, !.queued = TRUE]
                [] pm = "EAGAIN" -> [dev EXCEPT !.skip = @ + 1, !.queued = TRUE]
                [] OTHER -> dev
    /\ pm' = "idle"
    /\ UNCHANGED <<target, isr, susp, fatal>>

\* iris_hfi_suspend, of the system or of the last client.
Suspend ==
    /\ susp = "idle"
    /\ \E o \in power_collapse(target, dev, TRUE) :
         /\ dev' = o.d
         /\ susp' = IF o.rc = "0" THEN "cancel" ELSE "idle"
    /\ UNCHANGED <<target, pm, isr, fatal>>

SuspendCancel ==
    /\ susp = "cancel"
    /\ dev' = [dev EXCEPT !.queued = FALSE,
                          !.faults = IF dev.queued /\ dev.power_enabled
                                     THEN @ \cup {"late_cancel"} ELSE @]
    /\ susp' = "idle"
    /\ UNCHANGED <<target, pm, isr, fatal>>

\* cvp_hfi_isr: only an enabled interrupt of powered hardware gets here.
Isr ==
    /\ isr = "idle"
    /\ dev.power_enabled
    /\ dev.depth = 0
    /\ dev.sends > 0
    /\ dev' = [dev EXCEPT !.depth = 1, !.sends = @ - 1]
    /\ isr' = "woken"
    /\ UNCHANGED <<target, pm, susp, fatal>>

\* iris_hfi_core_work_handler up to the unlock: the messages are read, and
\* the pm work is armed again.
IrqWork ==
    /\ isr = "woken"
    /\ \E o \in IF dev.state = "INIT" THEN resume(target, dev) ELSE {Err(dev)} :
       \E w \in IF o.ok THEN May(o.d, "wd") ELSE {Ok(o.d)} :
         /\ dev' = IF o.ok THEN [Run(target, w.d, <<Reg("ctl")>>)
                                   EXCEPT !.wd = @ \/ ~w.ok, !.queued = TRUE]
                   ELSE o.d
         /\ isr' = IF dev'.wd THEN "keep" ELSE "enable"
    /\ UNCHANGED <<target, pm, susp, fatal>>

\* Mutant: the interrupt is enabled after a watchdog bite too.
MutIrqEnd ==
    /\ isr \in {"enable", "keep"}
    /\ dev' = [dev EXCEPT !.depth = IF @ = 0 THEN 0 ELSE @ - 1]
    /\ isr' = "idle"
    /\ UNCHANGED <<target, pm, susp, fatal>>

\* The rest of it, after the callbacks.
IrqEnd ==
    /\ isr \in {"enable", "keep"}
    /\ dev' = IF isr = "enable" THEN [dev EXCEPT !.depth = @ - 1] ELSE dev
    /\ isr' = "idle"
    /\ UNCHANGED <<target, pm, susp, fatal>>

\* iris_hfi_flush_debug_queue, after an error: the registers are dumped once.
FlushDebugQueue ==
    /\ dev.power_enabled
    /\ ~dev.reg_dumped
    /\ dev.sends > 0
    /\ dev' \in dump_csr(target, [dev EXCEPT !.sends = @ - 1])
    /\ UNCHANGED <<target, pm, isr, susp, fatal>>

Next ==
    \/ CoreInit
    \/ CoreRelease
    \/ SendCommand
    \/ DspPowerOn
    \/ PmWork
    \/ PmCheck
    \/ PmCollapse
    \/ PmDone
    \/ Suspend
    \/ SuspendCancel
    \/ Isr
    \/ IrqWork
    \/ IrqEnd
    \/ FlushDebugQueue

\* The work queue runs the pm work, interrupt threads run, and a system
\* error is handled: nobody is obliged to send, to suspend or to load.  Each
\* conjunct is the weak fairness of one action, named by the only change of
\* pm, isr, susp or fatal that it makes.
Fairness ==
    /\ WF_pm(pm = "idle" /\ dev.queued /\ pm' = "check")
    /\ WF_pm(pm = "check" /\ pm' \in {"idle", "lock"})
    /\ WF_pm(pm = "lock" /\ pm' \in Codes)
    /\ WF_pm(pm \in Codes /\ pm' = "idle")
    /\ WF_isr(isr = "woken" /\ isr' \in {"enable", "keep"})
    /\ WF_isr(isr \in {"enable", "keep"} /\ isr' = "idle")
    /\ WF_susp(susp = "cancel" /\ susp' = "idle")
    /\ WF_fatal(fatal /\ dev.state = "INIT" /\ fatal' = FALSE)

Spec == Init /\ [][Next]_vars
FairSpec == Spec /\ Fairness
-----------------------------------------------------------------------------
\* Properties

\* Every field of the device has its type, and the counts stay in range.
TypeOK ==
    /\ target \in Platforms
    /\ dev.held \in [Resources(target) -> 0..(MaxFaults + 1)]
    /\ dev.hwctl \cup dev.bad \subseteq Resources(target)
    /\ dev.dark \subseteq {"aon", "ctl", "core"}
    /\ dev.state \in {"INIT", "DEINIT"}
    /\ dev.depth \in 0..2
    /\ dev.skip \in 0..MaxSkip
    /\ dev.left \in 0..MaxFaults
    /\ pm \in {"idle", "check", "lock"} \cup Codes
    /\ fatal \in BOOLEAN
    /\ isr \in {"idle", "woken", "enable", "keep"}
    /\ susp \in {"idle", "cancel"}

\* While power_enabled is set every clock and GDSC of the target is held, the
\* buses are voted for, and what the driver reads as powered is powered:
\* through any sequence of collapses, failed resumes and restarts.
PoweredHeld ==
    dev.power_enabled => dev.voted /\ \A r \in DOMAIN dev.held : dev.held[r] > 0

\* The failures after which something stays on: a power domain whose
\* pm_runtime_get_sync failed, a core that a failed check leaves on, a GDSC
\* that did not come back, and pakala's misnamed clock.
Leaks == {"stuck", "check", "take_back"} \cup (IF target = "pakala" THEN {"controller"} ELSE {})

\* Power off gives back everything power on took, whichever of the three
\* ways power_off_core went and whatever failed before: the sequences of all
\* targets are each other's inverse, except after the failures above.
OffReleased ==
    ~dev.power_enabled /\ dev.faults \cap Leaks = {} =>
        /\ \A r \in DOMAIN dev.held : dev.held[r] = 0
        /\ ~dev.voted /\ ~dev.sub /\ dev.hwctl = {}

\* Nothing is disabled more often than it was enabled.  The exceptions are the
\* clocks of the core that power_off_controller disables too, after the core
\* did not come up, or is switched off before the hardware was given it.
Balanced ==
    /\ dev.bad \subseteq {"core_freerun", "core_freerun_clk", "eva_cc_mvs0_clk_src"}
    /\ dev.bad # {} => dev.faults \cap {"core", "stuck", "hwpc", "queues", "load", "tz_resume"} # {}

\* No register is accessed while its clocks or its GDSC are off, the idle
\* registers of a core that the firmware has switched off included.  The
\* exception is a dump that could not take the core back from the hardware.
RegistersLit == "dump" \notin dev.faults => dev.dark = {}

\* The interrupt is disabled once when the core is off or its watchdog bit is
\* pending, and once more for a handler that has still to enable it: a
\* collapse, a failed resume or a restart between the hard handler and the
\* end of its thread neither loses nor doubles an enable.
IrqBalanced ==
    dev.depth = (IF dev.power_enabled /\ ~dev.wd THEN 0 ELSE 1)
                + (IF isr \in {"woken", "enable"} THEN 1 ELSE 0)

\* The GDSCs of the core are all under hardware control or none is, and none
\* is while the core is off: a hand-over that fails half way is undone.
ModeUniform ==
    "take_back" \notin dev.faults =>
        /\ dev.hwctl \in {{}, Range(CoreGdscs(target))}
        /\ dev.hwctl # {} => dev.power_enabled

\* A loaded device that is on has its pm work pending or running, or nothing
\* would ever collapse it.  It is left on for good only after a failure of
\* TrustZone or of the DSP, after an error that starts a restart, and when a
\* command was sent between the unlock and the cancel of a collapse.
NeverStranded ==
    dev.power_enabled /\ dev.state = "INIT" /\ ~dev.queued /\ pm = "idle" =>
        fatal \/ dev.faults \cap {"tz_suspend", "dsp_einval", "late_cancel"} # {}

\* A device that is not loaded is off and has no pm work, so nothing resumes
\* it and a later load starts from a device that is off, without handles.
\* The exceptions are a load that fails in cvp_synx_recover or in __load_fw,
\* where __unload_fw returns early, and a subcache that is missing.
DeinitOff ==
    dev.state = "DEINIT" =>
        /\ dev.power_enabled => "synx" \in dev.faults
        /\ dev.res # {} => dev.faults \cap {"synx", "load", "subcaches"} # {}
        /\ ~dev.fw

\* Firmware that runs with the system cache active has been told of it, through
\* every collapse, resume and failure of the cache; after a restart it has not,
\* because sys_cache_res_set outlives the firmware it was told to.
CacheTold ==
    dev.state = "INIT" /\ dev.power_enabled /\ dev.sub =>
        dev.told \/ dev.inits < MaxInit - 1

\* Unless something fails, a device that is on is collapsed or unloaded in
\* the end, however often the firmware is not ready: the skip count turns
\* that into a restart.
Collapses ==
    [](dev.power_enabled /\ dev.faults = {} =>
         <>(~dev.power_enabled \/ dev.faults # {}))

\* What is held is what is powered, on every target and after every failure:
\* nothing is missing, left on, released twice or handed over by half.
ResourcesExact == PoweredHeld /\ OffReleased /\ Balanced /\ ModeUniform

\* What a load sets up is there as long as the firmware is, and only then: the
\* pm work, the power and the handles, the firmware's knowledge of the cache.
LoadedExact == NeverStranded /\ DeinitOff /\ CacheTold
=============================================================================
