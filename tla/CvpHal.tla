------------------------------ MODULE CvpHal ------------------------------
(***************************************************************************)
(* The target layer of the driver (src/msm/eva/target/cvp_*_hal.c): what   *)
(* each function of a target's cvp_hal_ops switches on and off, which      *)
(* registers it accesses, and in which order.                              *)
(*                                                                         *)
(* A function is the sequence of its operations: On(r) and Off(r) for a    *)
(* clock or a GDSC, Reg(d) for an access to the registers of domain d.     *)
(* The domains are "aon" (the always-on wrapper, clocked by AXI), "ctl"    *)
(* (the controller: CPU, wrapper, its NoC) and "core" (what the comments   *)
(* of the code say needs the core: its idle status and its NoC).  Values   *)
(* written and the number of times a register is polled are left out.      *)
(*                                                                         *)
(* "hawi" is a hawi with core_noc_cx_pd, "art" one without.                *)
(***************************************************************************)
EXTENDS Naturals, Sequences, SequencesExt

Targets == {"pakala", "kaanapali", "hawi", "art", "glymur"}

On(r) == [do |-> "on", arg |-> r]
Off(r) == [do |-> "off", arg |-> r]
Reg(d) == [do |-> "reg", arg |-> d]

Ons(rs) == [i \in DOMAIN rs |-> On(rs[i])]
Offs(rs) == [i \in DOMAIN rs |-> Off(rs[i])]

(***************************************************************************)
(* A sequence of resources enabled one after the other.  When the k-th     *)
(* fails (k = 0: none does), the goto labels disable the earlier ones in   *)
(* reverse, but for the last of them where missed is 1.  stuck says that   *)
(* the failed one keeps the reference taken on it.                         *)
(***************************************************************************)
Try(rs, k, stuck, missed) ==
    IF k = 0
    THEN Ons(rs)
    ELSE Ons(SubSeq(rs, 1, k - 1))
         \o (IF stuck THEN <<On(rs[k])>> ELSE <<>>)
         \o Offs(Reverse(SubSeq(rs, 1, k - 1 - missed)))

-----------------------------------------------------------------------------
(***************************************************************************)
(* pakala.  fail_enable_freerun disables "cvp", which names no clock:      *)
(* cvp_clk stays enabled.                                                  *)
(***************************************************************************)
power_on_controller_pakala(k, stuck) ==
    Try(<<"controller", "sleep_clk", "core_axi_clock", "cvp_axi_clock", "cvp_clk",
          "cvp_freerun_clk">>, k, stuck, IF k = 6 THEN 1 ELSE 0)

power_on_core_pakala(k, stuck) ==
    Try(<<"core", "eva_cc_mvs0_clk_src", "core_clk", "core_freerun_clk">>, k, stuck, 0)

print_sidebandmanager_regs_pakala == <<Reg("ctl"), Reg("aon"), Reg("ctl")>>
\* The handshake that puts a NoC to low power succeeds, or is given up with a
\* dump of the sideband manager, whose registers behind the AXI clock are
\* read only if that clock runs.
enter_core_noc_lpi_pakala == <<Reg("core"), Reg("aon")>> \o print_sidebandmanager_regs_pakala
enter_cpu_noc_lpi_pakala == <<Reg("ctl")>> \o print_sidebandmanager_regs_pakala
enter_video_ctl_noc_lpi_pakala == <<Reg("aon")>> \o print_sidebandmanager_regs_pakala

\* how: the core was switched off by the firmware, is not under hardware
\* control, or is to be idled first.
power_off_core_pakala(how) ==
    <<Reg("ctl")>> \o
    (CASE how = "fw_off" -> <<Reg("ctl")>> \o print_sidebandmanager_regs_pakala
       [] how = "sw_ctl" -> <<>>
       [] how = "idle" -> <<Reg("ctl"), Reg("core")>> \o enter_core_noc_lpi_pakala
                          \o <<Reg("ctl")>>)
    \o Offs(<<"core", "core_clk">>)
    \o (IF how = "sw_ctl" THEN <<Off("core_freerun_clk")>> ELSE <<>>)

power_off_controller_pakala ==
    <<Reg("ctl")>> \o enter_cpu_noc_lpi_pakala \o enter_video_ctl_noc_lpi_pakala
    \o <<Reg("ctl"), Reg("aon")>>
    \o Offs(<<"core_freerun_clk", "cvp_freerun_clk", "cvp_clk", "sleep_clk", "controller",
              "core_axi_clock", "cvp_axi_clock", "eva_cc_mvs0_clk_src">>)

set_registers_pakala == <<Reg("core"), Reg("aon"), Reg("ctl"), Reg("core")>>
check_core_power_on_pakala == <<Reg("ctl")>>
check_ctl_power_on_pakala == <<Reg("ctl")>>
interrupt_init_pakala == <<Reg("ctl")>>
setup_dsp_uc_memmap_pakala == <<Reg("ctl")>>
dump_noc_regs_pakala == <<Reg("ctl"), Reg("core"), Reg("ctl")>>

-----------------------------------------------------------------------------
\* kaanapali
power_on_controller_kaanapali(k, stuck) ==
    Try(<<"eva", "sleep", "core_iface", "eva_iface", "eva0", "eva_freerun">>, k, stuck, 0)

power_on_core_kaanapali(k, stuck) ==
    Try(<<"core", "core0", "core_freerun">>, k, stuck, 0)

print_sidebandmanager_regs_kaanapali == <<Reg("ctl"), Reg("aon"), Reg("ctl")>>
enter_core_noc_lpi_kaanapali == <<Reg("core"), Reg("aon")>> \o print_sidebandmanager_regs_kaanapali
enter_cpu_noc_lpi_kaanapali == <<Reg("ctl")>> \o print_sidebandmanager_regs_kaanapali
enter_video_ctl_noc_lpi_kaanapali == <<Reg("aon")>> \o print_sidebandmanager_regs_kaanapali
noc_lpi_kaanapali ==
    enter_cpu_noc_lpi_kaanapali \o enter_video_ctl_noc_lpi_kaanapali
    \o enter_core_noc_lpi_kaanapali

power_off_core_kaanapali(how) ==
    <<Reg("ctl")>> \o
    (IF how = "idle"
     THEN <<Reg("ctl"), Reg("core")>> \o enter_core_noc_lpi_kaanapali \o <<Reg("ctl")>>
     ELSE IF how = "fw_off" THEN <<Reg("ctl")>> \o print_sidebandmanager_regs_kaanapali
     ELSE <<>>)
    \o Offs(<<"core", "core0">>)

\* Mutant: the sleep clock stays on.
MutOffController ==
    <<Reg("ctl")>> \o enter_cpu_noc_lpi_kaanapali \o enter_video_ctl_noc_lpi_kaanapali
    \o Offs(<<"core_freerun", "eva_freerun", "eva0", "eva", "core_iface", "eva_iface">>)

power_off_controller_kaanapali ==
    <<Reg("ctl")>> \o enter_cpu_noc_lpi_kaanapali \o enter_video_ctl_noc_lpi_kaanapali
    \o <<Reg("ctl"), Reg("aon")>>
    \o Offs(<<"core_freerun", "eva_freerun", "eva0", "sleep", "eva">>)
    \o <<Reg("aon")>> \o Offs(<<"core_iface", "eva_iface">>)

set_registers_kaanapali == <<Reg("core"), Reg("aon"), Reg("ctl"), Reg("core")>>
check_core_power_on_kaanapali == <<Reg("ctl")>>
check_ctl_power_on_kaanapali == <<Reg("ctl")>>
interrupt_init_kaanapali == <<Reg("ctl")>>
setup_dsp_uc_memmap_kaanapali == <<Reg("ctl")>>
dump_noc_regs_kaanapali == <<Reg("ctl"), Reg("core"), Reg("ctl")>>

-----------------------------------------------------------------------------
(***************************************************************************)
(* hawi, and art, where core_noc_cx_pd_disable is set: there is no         *)
(* core_noc_cx_pd, and core_freerun_clk is the driver's.                   *)
(***************************************************************************)
CxPd(t) == IF t = "art" THEN <<>> ELSE <<"core_noc_cx_pd">>
CoreFreerun(t) == IF t = "art" THEN <<"core_freerun_clk">> ELSE <<>>

controller_fallback_mode == <<Reg("ctl")>>

power_on_controller_hawi(k, stuck) ==
    Try(<<"controller_pd", "sleep_clk", "core_axi_clock", "cvp_axi_clock", "cvp_clk",
          "cvp_freerun_clk", "cvp_ctl_freerun_clk", "cvp_debug_clk">>, k, stuck, 0)
    \o (IF k = 0 THEN controller_fallback_mode ELSE <<>>)

power_on_core_hawi(t, k, stuck) ==
    Try(CxPd(t) \o <<"core_noc_mm_pd", "core_pd", "eva_cc_mvs0_clk_src", "core_clk">>
        \o CoreFreerun(t), k, stuck, 0)

print_sidebandmanager_regs_hawi == <<Reg("ctl"), Reg("aon"), Reg("ctl")>>
enter_cpu_noc_lpi_hawi == <<Reg("ctl")>> \o print_sidebandmanager_regs_hawi
enter_video_ctl_noc_lpi_hawi == <<Reg("aon")>> \o print_sidebandmanager_regs_hawi
noc_lpi_hawi == enter_cpu_noc_lpi_hawi \o enter_video_ctl_noc_lpi_hawi
power_off_core_noc_hawi(t) == Offs(<<"core_noc_mm_pd">> \o CxPd(t))

\* Mutant: a core the firmware has switched off is idled too.
MutOffCoreHawi(t, how) ==
    <<Reg("ctl"), Reg("core"), Reg("ctl")>> \o Offs(<<"core_pd", "core_clk">>)
    \o power_off_core_noc_hawi(t)

power_off_core_hawi(t, how) ==
    <<Reg("ctl")>> \o
    (IF how = "idle"
     THEN <<Reg("ctl"), Reg("core"), Reg("ctl")>> \o Offs(<<"core_pd", "core_clk">>)
          \o power_off_core_noc_hawi(t)
     ELSE (IF how = "fw_off" THEN <<Reg("ctl")>> \o print_sidebandmanager_regs_hawi ELSE <<>>)
          \o Offs(CxPd(t) \o <<"core_noc_mm_pd", "core_pd", "core_clk">>))

power_off_controller_hawi(t) ==
    <<Reg("ctl")>> \o enter_cpu_noc_lpi_hawi \o enter_video_ctl_noc_lpi_hawi
    \o <<Reg("ctl"), Reg("aon")>>
    \o Offs(CoreFreerun(t)
            \o <<"cvp_debug_clk", "cvp_ctl_freerun_clk", "cvp_freerun_clk", "cvp_clk", "sleep_clk",
                 "controller_pd", "core_axi_clock", "cvp_axi_clock", "eva_cc_mvs0_clk_src">>)

set_registers_hawi == <<Reg("core"), Reg("aon"), Reg("ctl"), Reg("core")>>
check_ctl_power_on_hawi == <<Reg("ctl")>>
check_core_power_on_hawi == <<Reg("ctl")>>
interrupt_init_hawi == <<Reg("ctl")>>
setup_dsp_uc_memmap_hawi == <<Reg("ctl")>>
clear_pd_noc_req == <<Reg("ctl")>>
dump_noc_regs_hawi == clear_pd_noc_req \o <<Reg("ctl"), Reg("core"), Reg("ctl")>>

-----------------------------------------------------------------------------
\* glymur
power_on_controller_glymur(k, stuck) ==
    Try(<<"eva", "sleep", "core_iface", "eva_iface", "eva0", "eva_freerun">>, k, stuck, 0)

power_on_core_glymur(k, stuck) ==
    Try(<<"core", "core0", "core_freerun">>, k, stuck, 0)

print_sidebandmanager_regs_glymur == <<Reg("ctl"), Reg("aon"), Reg("ctl")>>
enter_core_noc_lpi_glymur == <<Reg("core"), Reg("aon")>> \o print_sidebandmanager_regs_glymur
enter_cpu_noc_lpi_glymur == <<Reg("ctl")>> \o print_sidebandmanager_regs_glymur
enter_video_ctl_noc_lpi_glymur == <<Reg("aon")>> \o print_sidebandmanager_regs_glymur

power_off_core_glymur(how) ==
    <<Reg("ctl")>> \o
    (IF how = "idle"
     THEN <<Reg("ctl"), Reg("core")>> \o enter_core_noc_lpi_glymur \o <<Reg("ctl")>>
     ELSE IF how = "fw_off" THEN <<Reg("ctl")>> \o print_sidebandmanager_regs_glymur
     ELSE <<>>)
    \o Offs(<<"core", "core0">>)
    \o (IF how = "sw_ctl" THEN <<Off("core_freerun")>> ELSE <<>>)

power_off_controller_glymur ==
    <<Reg("ctl")>> \o enter_cpu_noc_lpi_glymur \o enter_video_ctl_noc_lpi_glymur
    \o <<Reg("ctl"), Reg("aon")>>
    \o Offs(<<"core_freerun", "eva_freerun", "eva0", "sleep", "eva", "core_iface", "eva_iface">>)

set_registers_glymur == <<Reg("core"), Reg("aon"), Reg("ctl"), Reg("core")>>
check_core_power_on_glymur == <<Reg("ctl")>>
check_ctl_power_on_glymur == <<Reg("ctl")>>
interrupt_init_glymur == <<Reg("ctl")>>
setup_dsp_uc_memmap_glymur == <<Reg("ctl")>>
dump_noc_regs_glymur == <<Reg("ctl"), Reg("core"), Reg("ctl")>>
-----------------------------------------------------------------------------
(***************************************************************************)
(* The cvp_hal_ops of the targets, as call_iris_op dispatches to them.     *)
(***************************************************************************)
power_on_controller(t, k, stuck) ==
    CASE t = "pakala" -> power_on_controller_pakala(k, stuck)
      [] t = "kaanapali" -> power_on_controller_kaanapali(k, stuck)
      [] t \in {"hawi", "art"} -> power_on_controller_hawi(k, stuck)
      [] t = "glymur" -> power_on_controller_glymur(k, stuck)

power_on_core(t, k, stuck) ==
    CASE t = "pakala" -> power_on_core_pakala(k, stuck)
      [] t = "kaanapali" -> power_on_core_kaanapali(k, stuck)
      [] t \in {"hawi", "art"} -> power_on_core_hawi(t, k, stuck)
      [] t = "glymur" -> power_on_core_glymur(k, stuck)

power_off_core(t, how) ==
    CASE t = "pakala" -> power_off_core_pakala(how)
      [] t = "kaanapali" -> power_off_core_kaanapali(how)
      [] t \in {"hawi", "art"} -> power_off_core_hawi(t, how)
      [] t = "glymur" -> power_off_core_glymur(how)

power_off_controller(t) ==
    CASE t = "pakala" -> power_off_controller_pakala
      [] t = "kaanapali" -> power_off_controller_kaanapali
      [] t \in {"hawi", "art"} -> power_off_controller_hawi(t)
      [] t = "glymur" -> power_off_controller_glymur

noc_lpi(t) ==
    CASE t = "kaanapali" -> noc_lpi_kaanapali
      [] t \in {"hawi", "art"} -> noc_lpi_hawi
      [] OTHER -> <<>>

set_registers(t) ==
    CASE t = "pakala" -> set_registers_pakala
      [] t = "kaanapali" -> set_registers_kaanapali
      [] t \in {"hawi", "art"} -> set_registers_hawi
      [] t = "glymur" -> set_registers_glymur

check_core_power_on(t) ==
    CASE t = "pakala" -> check_core_power_on_pakala
      [] t = "kaanapali" -> check_core_power_on_kaanapali
      [] t \in {"hawi", "art"} -> check_core_power_on_hawi
      [] t = "glymur" -> check_core_power_on_glymur

check_ctl_power_on(t) ==
    CASE t = "pakala" -> check_ctl_power_on_pakala
      [] t = "kaanapali" -> check_ctl_power_on_kaanapali
      [] t \in {"hawi", "art"} -> check_ctl_power_on_hawi
      [] t = "glymur" -> check_ctl_power_on_glymur

interrupt_init(t) ==
    CASE t = "pakala" -> interrupt_init_pakala
      [] t = "kaanapali" -> interrupt_init_kaanapali
      [] t \in {"hawi", "art"} -> interrupt_init_hawi
      [] t = "glymur" -> interrupt_init_glymur

setup_dsp_uc_memmap(t) ==
    CASE t = "pakala" -> setup_dsp_uc_memmap_pakala
      [] t = "kaanapali" -> setup_dsp_uc_memmap_kaanapali
      [] t \in {"hawi", "art"} -> setup_dsp_uc_memmap_hawi
      [] t = "glymur" -> setup_dsp_uc_memmap_glymur

dump_noc_regs(t) ==
    CASE t = "pakala" -> dump_noc_regs_pakala
      [] t = "kaanapali" -> dump_noc_regs_kaanapali
      [] t \in {"hawi", "art"} -> dump_noc_regs_hawi
      [] t = "glymur" -> dump_noc_regs_glymur

\* The GDSCs of a core, in the order enable_hw_power_collapse moves them.
CoreGdscs(t) ==
    CASE t \in {"hawi", "art"} -> <<"core_pd", "core_noc_mm_pd">> \o CxPd(t)
      [] OTHER -> <<"core">>

\* Where a failure to switch the k-th of the controller's or of the core's
\* resources on leaves a reference behind: pm_runtime_get_sync takes it and
\* is not undone.  Only pakala has regulators instead of power domains.
StuckController(t, k) == t # "pakala" /\ k = 1
StuckCore(t, k) == t # "pakala" /\ k <= Len(CoreGdscs(t))

\* The steps of a sequence that switch something on: a hawi also accesses
\* registers when its controller is on.
Switches(ops) == {k \in DOMAIN ops : ops[k].do = "on"}
Switched(ops) == {ops[k].arg : k \in Switches(ops)}
Resources(t) ==
    Switched(power_on_controller(t, 0, FALSE)) \cup Switched(power_on_core(t, 0, FALSE))

ClocksOf(t, d) ==
    CASE d = "aon" -> IF t \in {"kaanapali", "glymur"} THEN {"core_iface", "eva_iface"}
                      ELSE {"core_axi_clock", "cvp_axi_clock"}
      [] d = "ctl" -> (CASE t = "pakala" -> {"controller", "cvp_clk"}
                         [] t \in {"kaanapali", "glymur"} -> {"eva", "eva0"}
                         [] OTHER -> {"controller_pd", "cvp_clk"})
      [] d = "core" -> {CoreGdscs(t)[1],
                        IF t \in {"kaanapali", "glymur"} THEN "core0" ELSE "core_clk"}
=============================================================================
