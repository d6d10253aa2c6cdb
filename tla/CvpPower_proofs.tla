-------------------------- MODULE CvpPower_proofs --------------------------
(***************************************************************************)
(* Proofs about CvpPower, for every target and any number of faults,       *)
(* commands, interrupts and loads.                                         *)
(*                                                                         *)
(* The functions that run under device->lock are operators from a device   *)
(* to the set of its outcomes.  For each of them a lemma says how an       *)
(* outcome differs from the device in the fields that the properties read: *)
(* Same and Kept for the ones that only switch something on or off, Cached,*)
(* Shut, Undone, LoadedFrom for the others.  That a register sequence      *)
(* (Run) touches none of these fields is shown by induction over it.  The  *)
(* invariant PowerInv is then preserved action by action.                  *)
(*                                                                         *)
(* The second half is about the counts.  For a sequence of operations,     *)
(* Taken, Released and Backed say which references it takes and gives      *)
(* back; for a function under the lock, Sound says what is true of a       *)
(* device before and after it.  RailInv holds this together.               *)
(***************************************************************************)
EXTENDS CvpPower, Integers, TLAPS, WellFoundedInduction

\* Induction over the naturals, for a set instead of a predicate.
LEMMA SetInduction ==
    ASSUME NEW S, 0 \in S, \A n \in Nat : n \in S => n + 1 \in S
    PROVE  Nat \subseteq S
<1> DEFINE R == OpToRel(<, Nat)
           T == Nat \ S
<1>1. IsWellFoundedOn(R, Nat)
  BY NatLessThanWellFounded
<1> SUFFICES ASSUME T # {} PROVE FALSE
  OBVIOUS
<1>2. T \subseteq Nat
  OBVIOUS
<1>3. PICK x \in T : \A y \in T : ~(<<y, x>> \in R)
  <2> HIDE DEF R, T
  <2> QED BY <1>1, <1>2, WFMin
<1>4. \A x1, y1 \in Nat : x1 < y1 => <<x1, y1>> \in R
  BY DEF OpToRel
<1>5. x \in Nat /\ x \notin S /\ x # 0
  OBVIOUS
<1>6. x - 1 \in Nat /\ x - 1 < x /\ (x - 1) + 1 = x
  BY <1>5
<1>7. x - 1 \notin T
  <2> HIDE DEF R
  <2> QED BY <1>3, <1>4, <1>5, <1>6
<1> QED BY <1>5, <1>6, <1>7

-----------------------------------------------------------------------------
\* A device record, and two that differ at most in what is switched on.

Fields == {"held", "hwctl", "jam", "asleep", "bad", "dark", "power_enabled", "state", "voted",
           "data", "depth", "wd", "queued", "skip", "last", "res", "sub", "isset", "told", "fw",
           "reg_dumped", "faults", "left", "busy", "sends", "inits"}

IsDev(d) == d = [f \in Fields |-> d[f]]

Same(d, e) ==
    /\ IsDev(e)
    /\ e.power_enabled = d.power_enabled /\ e.state = d.state
    /\ e.depth = d.depth /\ e.wd = d.wd /\ e.queued = d.queued
    /\ e.res = d.res /\ e.sub = d.sub /\ e.isset = d.isset /\ e.told = d.told
    /\ e.fw = d.fw /\ e.inits = d.inits /\ e.skip = d.skip
    /\ d.faults \subseteq e.faults

LEMMA DoSame ==
    ASSUME NEW t, NEW d, IsDev(d), NEW op PROVE Same(d, Do(t, d, op))
<1> DEFINE r == op.arg
           e == [d EXCEPT !.hwctl = @ \ {r}, !.asleep = @ /\ r # CoreGdscs(t)[1]]
<1>1. Same(d, d) /\ Same(d, prepare_enable(d, r)) /\ Same(d, access_register(t, d, r))
  BY DEF prepare_enable, access_register, IsDev, Same, Fields
<1>2. Same(d, e)
  BY DEF IsDev, Same, Fields
<1>3. disable(t, d, r) \in {d, [e EXCEPT !.bad = @ \cup {r}], [e EXCEPT !.held[r] = @ - 1]}
  BY DEF disable
<1> HIDE DEF e
<1>4. Same(d, [e EXCEPT !.bad = @ \cup {r}]) /\ Same(d, [e EXCEPT !.held[r] = @ - 1])
  BY <1>2 DEF IsDev, Same, Fields
<1> QED BY <1>1, <1>3, <1>4 DEF Do

LEMMA SameTrans ==
    ASSUME NEW d, NEW e, NEW f, Same(d, e), Same(e, f) PROVE Same(d, f)
  BY DEF Same

LEMMA FailSame ==
    ASSUME NEW d, IsDev(d), NEW k PROVE Same(d, Fail(d, k)) /\ k \in Fail(d, k).faults
  BY DEF IsDev, Same, Fields, Fail

LEMMA RunSame ==
    ASSUME NEW t, NEW d, IsDev(d), NEW ops PROVE Same(d, Run(t, d, ops))
<1> DEFINE Eq(f, n) == f = [i \in 0..n |-> IF i = 0 THEN d ELSE Do(t, f[i - 1], ops[i])]
           N == Len(ops)
<1>0. N \in Nat
  OBVIOUS
<1> DEFINE S == {n \in Nat : \E f : Eq(f, n)}
<1>1. 0 \in S
  <2>1. Eq([i \in 0..0 |-> d], 0)
    OBVIOUS
  <2> HIDE DEF Eq
  <2> QED BY <2>1
<1>2. ASSUME NEW n \in Nat, n \in S PROVE n + 1 \in S
  <2>1. PICK f : Eq(f, n)
    BY <1>2
  <2> DEFINE g == [i \in 0..n+1 |-> IF i = n + 1 THEN Do(t, f[n], ops[n + 1]) ELSE f[i]]
  <2>2. Eq(g, n + 1)
    BY <2>1
  <2> HIDE DEF Eq, g
  <2> QED BY <2>2
<1>3. N \in S
  <2> HIDE DEF S, N
  <2> QED BY <1>0, <1>1, <1>2, SetInduction
<1> DEFINE F == CHOOSE f : Eq(f, N)
<1>4. Eq(F, N)
  BY <1>3
<1>5. Run(t, d, ops) = F[N]
  BY DEF Run
<1> DEFINE T == {n \in Nat : n <= N => Same(d, F[n])}
<1>6. F[0] = d /\ \A i \in 0..N : i > 0 => F[i] = Do(t, F[i - 1], ops[i])
  <2> HIDE DEF F, N
  <2> QED BY <1>0, <1>4
<1> HIDE DEF F, N, Eq
<1>7. 0 \in T
  BY <1>6 DEF Same
<1>8. ASSUME NEW n \in Nat, n \in T PROVE n + 1 \in T
  <2> SUFFICES ASSUME n + 1 <= N PROVE Same(d, F[n + 1])
    OBVIOUS
  <2>1. Same(d, F[n])
    BY <1>0, <1>8
  <2>2. F[n + 1] = Do(t, F[n], ops[n + 1])
    BY <1>0, <1>6
  <2>3. IsDev(F[n])
    BY <2>1 DEF Same
  <2> QED BY <2>1, <2>2, <2>3, DoSame, SameTrans
<1>9. N \in T
  <2> HIDE DEF T
  <2> QED BY <1>0, <1>7, <1>8, SetInduction
<1> QED BY <1>0, <1>5, <1>9

-----------------------------------------------------------------------------
\* What the functions do to the fields that Same compares.

LEMMA Outcome ==
    ASSUME NEW e PROVE Ok(e).d = e /\ Ok(e).ok /\ Err(e).d = e /\ ~Err(e).ok
  BY DEF Ok, Err

LEMMA MaySame ==
    ASSUME NEW d, IsDev(d), NEW k, NEW o \in May(d, k)
    PROVE  Same(d, o.d) /\ (~o.ok => k \in o.d.faults)
<1>1. Same(d, d)
  BY DEF Same
<1> QED BY <1>1, FailSame DEF May, Ok, Err

LEMMA BusesSame ==
    ASSUME NEW d, IsDev(d)
    PROVE  Same(d, unvote_buses(d)) /\ \A o \in vote_buses(d) : Same(d, o.d)
<1>1. Same(d, unvote_buses(d))
  BY DEF unvote_buses, Same, IsDev, Fields
<1>2. ASSUME NEW o \in vote_buses(d) PROVE Same(d, o.d)
  <2>1. PICK x : /\ x \in (IF d.data THEN May(d, "bus") ELSE {Ok(d)})
                 /\ IF x.ok THEN o = Ok([x.d EXCEPT !.voted = TRUE]) ELSE o = x
    BY <1>2 DEF vote_buses, Then
  <2>2. Same(d, x.d)
    BY <2>1, MaySame DEF Ok, Same
  <2>3. Same(x.d, [x.d EXCEPT !.voted = TRUE])
    BY <2>2 DEF Same, IsDev, Fields
  <2>4. CASE x.ok
    BY <2>1, <2>2, <2>3, <2>4, SameTrans, Outcome
  <2>5. CASE ~x.ok
    BY <2>1, <2>2, <2>5
  <2> QED BY <2>4, <2>5
<1> QED BY <1>1, <1>2

LEMMA PowerControllerSame ==
    ASSUME NEW t, NEW d, IsDev(d), NEW o \in PowerController(t, d) PROVE Same(d, o.d)
<1>1. CASE \E ops : o = Ok(Run(t, d, ops))
  BY <1>1, RunSame, Outcome
<1>2. CASE \E k, ops : o = Err(Run(t, Fail(d, k), ops))
  <2>1. PICK k, ops : o = Err(Run(t, Fail(d, k), ops))
    BY <1>2
  <2>2. Same(d, Fail(d, k)) /\ IsDev(Fail(d, k))
    BY FailSame DEF Same
  <2>3. Same(Fail(d, k), Run(t, Fail(d, k), ops))
    BY <2>2, RunSame
  <2> QED BY <2>1, <2>2, <2>3, SameTrans, Outcome
<1> QED BY <1>1, <1>2 DEF PowerController

LEMMA PowerCoreSame ==
    ASSUME NEW t, NEW d, IsDev(d), NEW o \in PowerCore(t, d) PROVE Same(d, o.d)
<1>1. CASE \E ops : o = Ok(Run(t, d, ops))
  BY <1>1, RunSame, Outcome
<1>2. CASE \E k, ops : o = Err(Run(t, Fail(d, k), ops))
  <2>1. PICK k, ops : o = Err(Run(t, Fail(d, k), ops))
    BY <1>2
  <2>2. Same(d, Fail(d, k)) /\ IsDev(Fail(d, k))
    BY FailSame DEF Same
  <2>3. Same(Fail(d, k), Run(t, Fail(d, k), ops))
    BY <2>2, RunSame
  <2> QED BY <2>1, <2>2, <2>3, SameTrans, Outcome
<1> QED BY <1>1, <1>2 DEF PowerCore

\* A device switched on: the interrupt is enabled, its watchdog bit cleared.
Powered(d) == [d EXCEPT !.power_enabled = TRUE, !.wd = FALSE, !.depth = @ - 1]

LEMMA PowerOnSame ==
    ASSUME NEW t, NEW d, IsDev(d), d.power_enabled = FALSE, NEW o \in iris_power_on(t, d)
    PROVE  IF o.ok THEN Same(Powered(d), o.d) ELSE Same(d, o.d)
<1> DEFINE started(e) == {Ok(Run(t, [e EXCEPT !.power_enabled = TRUE],
                              <<Reg("ctl"), Reg("ctl")>> \o noc_lpi(t) \o set_registers(t)
                              \o check_core_power_on(t) \o check_ctl_power_on(t)))}
           checked(e) == May(e, "check")
           enabled(e) == {Ok(Run(t, [e EXCEPT !.wd = FALSE, !.depth = @ - 1],
                              interrupt_init(t) \o <<Reg("ctl")>>))}
           fail_enable_core(e) == {Run(t, e, power_off_controller(t))}
           core(e) == OnError(Then(Then(PowerCore(t, e), started), checked), fail_enable_core)
           fail_enable_controller(e) == {unvote_buses(e)}
           on(e) == OnError(Then(PowerController(t, e), core), fail_enable_controller)
           fail_vote_buses(e) == {[e EXCEPT !.power_enabled = FALSE]}
           Lit1(e) == [e EXCEPT !.power_enabled = TRUE]
           \* on a failure the caller resets power_enabled
           Off1(e) == [e EXCEPT !.power_enabled = FALSE]
<1>1. ASSUME NEW e, IsDev(e), NEW x \in core(e)
      PROVE  IsDev(x.d) /\ (IF x.ok THEN Same(Lit1(e), x.d) ELSE Same(Off1(e), Off1(x.d)))
  <2> DEFINE S1 == Then(PowerCore(t, e), started)
             S2 == Then(S1, checked)
  <2>1. PICK y \in S2 : IF y.ok THEN x = y
                        ELSE x = Err(Run(t, y.d, power_off_controller(t)))
    BY <1>1 DEF OnError
  <2>2. PICK z \in S1 : IF z.ok THEN y \in May(z.d, "check") ELSE y = z
    BY <2>1 DEF Then
  <2>3. PICK w \in PowerCore(t, e) : IF w.ok THEN z \in started(w.d) ELSE z = w
    BY <2>2 DEF Then
  <2> HIDE DEF S1, S2
  <2>4. Same(e, w.d)
    BY <1>1, PowerCoreSame
  <2>5. IF w.ok THEN Same(Lit1(e), z.d) /\ z.ok ELSE z = w
    <3>1. CASE w.ok
      <4>1. IsDev(Lit1(w.d)) /\ Same(Lit1(e), Lit1(w.d))
        BY <1>1, <2>4 DEF Same, IsDev, Fields
      <4> HIDE DEF Lit1
      <4>2. PICK ops : z = Ok(Run(t, Lit1(w.d), ops))
        BY <2>3, <3>1 DEF Lit1
      <4> QED BY <3>1, <4>1, <4>2, RunSame, SameTrans DEF Ok
    <3> QED BY <2>3, <3>1
  <2>6. ~z.ok => y = z /\ Same(e, y.d) /\ ~y.ok
    BY <2>2, <2>4, <2>5
  <2>7. z.ok => Same(Lit1(e), y.d)
    <3> HIDE DEF Lit1
    <3>1. CASE w.ok
      <4>1. IsDev(z.d) /\ Same(Lit1(e), z.d)
        BY <2>5, <3>1 DEF Same
      <4>2. z.ok => Same(z.d, y.d)
        BY <2>2, <4>1, MaySame
      <4> QED BY <4>1, <4>2, SameTrans
    <3>2. CASE ~w.ok
      BY <2>5, <3>2
    <3> QED BY <3>1, <3>2
  <2>8. IsDev(y.d)
    BY <2>6, <2>7 DEF Same
  <2>9. Same(y.d, Run(t, y.d, power_off_controller(t)))
    BY <2>8, RunSame
  <2>10. CASE y.ok
    BY <2>1, <2>6, <2>7, <2>10 DEF Same
  <2>11. CASE ~y.ok
    <3>1. Same(Off1(e), Off1(y.d))
      <4>1. CASE z.ok
        BY <1>1, <2>7, <4>1 DEF Same, IsDev, Fields
      <4>2. CASE ~z.ok
        BY <1>1, <2>6, <4>2 DEF Same, IsDev, Fields
      <4> QED BY <4>1, <4>2
    <3>2. x.d = Run(t, y.d, power_off_controller(t)) /\ ~x.ok
      BY <2>1, <2>11, Outcome
    <3>3. Same(Off1(y.d), Off1(x.d)) /\ IsDev(x.d)
      BY <2>8, <2>9, <3>2 DEF Same, IsDev, Fields
    <3> HIDE DEF Off1
    <3> QED BY <3>1, <3>2, <3>3, SameTrans
  <2> QED BY <2>10, <2>11
<1>2. ASSUME NEW e, IsDev(e), NEW x \in on(e)
      PROVE  IsDev(x.d) /\ (IF x.ok THEN Same(Lit1(e), x.d) ELSE Same(Off1(e), Off1(x.d)))
  <2> HIDE DEF core
  <2>1. PICK y \in Then(PowerController(t, e), core) :
             IF y.ok THEN x = y ELSE x = Err(unvote_buses(y.d))
    BY <1>2 DEF OnError, Then
  <2>2. PICK w \in PowerController(t, e) : IF w.ok THEN y \in core(w.d) ELSE y = w
    BY <2>1 DEF Then
  <2>3. Same(e, w.d)
    BY <1>2, PowerControllerSame
  <2>4. IsDev(w.d) /\ Same(Lit1(e), Lit1(w.d)) /\ Same(Off1(e), Off1(w.d))
    BY <1>2, <2>3 DEF Same, IsDev, Fields
  <2>5. IsDev(y.d) /\ (IF y.ok THEN Same(Lit1(e), y.d) ELSE Same(Off1(e), Off1(y.d)))
    <3>1. CASE w.ok
      <4>1. IsDev(y.d) /\ (IF y.ok THEN Same(Lit1(w.d), y.d) ELSE Same(Off1(w.d), Off1(y.d)))
        BY <1>1, <2>2, <2>4, <3>1
      <4> HIDE DEF Lit1, Off1
      <4> QED BY <2>4, <4>1, SameTrans
    <3>2. CASE ~w.ok
      BY <2>2, <2>4, <3>2
    <3> QED BY <3>1, <3>2
  <2>6. CASE y.ok
    BY <2>1, <2>5, <2>6
  <2>7. CASE ~y.ok
    <3>1. x.d = unvote_buses(y.d) /\ ~x.ok
      BY <2>1, <2>7, Outcome
    <3>2. Same(y.d, x.d)
      BY <2>5, <3>1, BusesSame
    <3>3. IsDev(x.d) /\ Same(Off1(y.d), Off1(x.d))
      BY <2>5, <3>2 DEF Same, IsDev, Fields
    <3> HIDE DEF Off1
    <3> QED BY <2>5, <2>7, <3>1, <3>3, SameTrans
  <2> QED BY <2>6, <2>7
<1> HIDE DEF on
<1>3. PICK y \in Then(Then(vote_buses(d), on), enabled) :
           IF y.ok THEN o = y ELSE o = Err(Off1(y.d))
  <2> USE DEF on
  <2> QED BY DEF iris_power_on, OnError, Then
<1>4. PICK z \in Then(vote_buses(d), on) : IF z.ok THEN y \in enabled(z.d) ELSE y = z
  BY <1>3 DEF Then
<1>5. PICK w \in vote_buses(d) : IF w.ok THEN z \in on(w.d) ELSE z = w
  BY <1>4 DEF Then
<1>6. Same(d, w.d)
  BY BusesSame
<1>7. IsDev(w.d) /\ Same(Lit1(d), Lit1(w.d)) /\ Same(d, Off1(w.d))
  BY <1>6 DEF Same, IsDev, Fields
<1>8. IsDev(z.d) /\ (IF z.ok THEN Same(Lit1(d), z.d) ELSE Same(d, Off1(z.d)))
  <2>1. CASE w.ok
    <3>1. IsDev(z.d) /\ (IF z.ok THEN Same(Lit1(w.d), z.d) ELSE Same(Off1(w.d), Off1(z.d)))
      BY <1>2, <1>5, <1>7, <2>1
    <3> HIDE DEF Lit1, Off1
    <3> QED BY <1>7, <3>1, SameTrans
  <2>2. CASE ~w.ok
    BY <1>5, <1>7, <2>2
  <2> QED BY <2>1, <2>2
<1>9. CASE z.ok
  <2> DEFINE q == [z.d EXCEPT !.wd = FALSE, !.depth = @ - 1]
  <2>1. PICK ops : y = Ok(Run(t, q, ops))
    BY <1>4, <1>9
  <2>2. IsDev(q) /\ Same(Powered(d), q)
    BY <1>8, <1>9 DEF Same, IsDev, Fields, Powered
  <2> HIDE DEF q
  <2>3. Same(Powered(d), y.d) /\ y.ok
    BY <2>1, <2>2, RunSame, SameTrans DEF Ok
  <2> QED BY <1>3, <2>3
<1>10. CASE ~z.ok
  <2>1. y = z /\ ~y.ok
    BY <1>4, <1>10
  <2>2. o.d = Off1(y.d) /\ ~o.ok
    BY <1>3, <2>1, Outcome
  <2> QED BY <1>8, <1>10, <2>1, <2>2
<1> QED BY <1>9, <1>10

-----------------------------------------------------------------------------
(***************************************************************************)
(* Power changes hands: Pending(d) is what the depth of the interrupt says *)
(* beside the state of the core, the handlers that have still to enable    *)
(* it.  Kept compares the fields that powering on and off leave alone, and *)
(* Pending.                                                                *)
(***************************************************************************)
Pending(d) == d.depth - (IF d.power_enabled /\ ~d.wd THEN 0 ELSE 1)

Good(d) ==
    /\ IsDev(d)
    /\ d.depth \in Int
    /\ d.power_enabled \in BOOLEAN
    /\ d.wd \in BOOLEAN
    /\ d.wd => d.power_enabled

Kept(d, e) ==
    /\ Good(e)
    /\ e.state = d.state /\ e.queued = d.queued
    /\ e.res = d.res /\ e.sub = d.sub /\ e.isset = d.isset /\ e.told = d.told
    /\ e.fw = d.fw /\ e.inits = d.inits /\ e.skip \in {d.skip, 0}
    /\ d.faults \subseteq e.faults
    /\ Pending(e) = Pending(d)
    /\ e.wd => d.wd

LEMMA KeptTrans ==
    ASSUME NEW d, NEW e, NEW f, Kept(d, e), Kept(e, f) PROVE Kept(d, f)
  BY DEF Kept

LEMMA SameKept ==
    ASSUME NEW d, NEW e, Good(d), Same(d, e)
    PROVE  Kept(d, e) /\ e.power_enabled = d.power_enabled
  BY DEF Same, Kept, Good, Pending

LEMMA PowerOnKept ==
    ASSUME NEW t, NEW d, Good(d), NEW o \in iris_power_on(t, d)
    PROVE  Kept(d, o.d) /\ (o.ok <=> o.d.power_enabled)
<1>1. CASE d.power_enabled
  <2>1. o = Ok(d)
    BY <1>1 DEF iris_power_on
  <2> QED BY <1>1, <2>1, Outcome DEF Kept
<1>2. CASE ~d.power_enabled
  <2>0. IsDev(d) /\ d.power_enabled = FALSE /\ d.wd = FALSE
    BY <1>2 DEF Good
  <2>1. IF o.ok THEN Same(Powered(d), o.d) ELSE Same(d, o.d)
    BY <2>0, PowerOnSame
  <2>2. CASE o.ok
    <3>1. /\ Kept(d, Powered(d)) /\ Powered(d).power_enabled = TRUE /\ Good(Powered(d))
      <4> DEFINE p == Powered(d)
      <4>1. /\ IsDev(p) /\ p.power_enabled = TRUE /\ p.wd = FALSE /\ p.depth = d.depth - 1
            /\ p.state = d.state /\ p.queued = d.queued
            /\ p.res = d.res /\ p.sub = d.sub /\ p.isset = d.isset /\ p.told = d.told
            /\ p.fw = d.fw /\ p.inits = d.inits /\ p.skip = d.skip /\ p.faults = d.faults
        BY <2>0 DEF Powered, IsDev, Fields
      <4> HIDE DEF p
      <4>2. Pending(p) = p.depth - 0 /\ Pending(d) = d.depth - 1 /\ d.depth \in Int
        BY <2>0, <4>1 DEF Pending, Good
      <4>3. Pending(p) = Pending(d) /\ p.depth \in Int
        BY <4>1, <4>2
      <4>4. Good(p)
        BY <4>1, <4>3 DEF Good
      <4>5. Kept(d, p)
        BY <4>1, <4>3, <4>4 DEF Kept
      <4> QED BY <4>1, <4>4, <4>5 DEF p
    <3> QED BY <2>1, <2>2, <3>1, SameKept, KeptTrans
  <2>3. CASE ~o.ok
    BY <2>0, <2>1, <2>3, SameKept
  <2> QED BY <2>2, <2>3
<1> QED BY <1>1, <1>2

LEMMA PowerOffKept ==
    ASSUME NEW t, NEW d, Good(d), NEW e \in power_off_iris2(t, d)
    PROVE  Kept(d, e) /\ e.power_enabled = FALSE
<1>1. CASE ~d.power_enabled
  <2>1. e = d
    BY <1>1 DEF power_off_iris2
  <2> QED BY <1>1, <2>1 DEF Kept, Good
<1>2. CASE d.power_enabled
  <2> DEFINE q == [d EXCEPT !.depth = IF d.wd THEN @ ELSE @ + 1, !.wd = FALSE]
  <2> DEFINE ops(how) == power_off_core(t, how) \o power_off_controller(t)
             off(how) == {Run(t, [x EXCEPT !.asleep = (how = "fw_off")], ops(how)) :
                            x \in TakeBack(t, q)}
             last(x) == [unvote_buses(x) EXCEPT !.power_enabled = FALSE, !.asleep = FALSE, !.jam = {}]
  <2>1. e \in {last(x) : x \in UNION {off(how) : how \in CoreFound(t, d)}}
    BY <1>2 DEF power_off_iris2
  <2> HIDE DEF off, last, ops
  <2>2. PICK how \in CoreFound(t, d) : \E x \in off(how) : e = last(x)
    BY <2>1
  <2>3. PICK x \in off(how) : e = last(x)
    BY <2>2
  <2>4. IsDev(q)
    BY DEF Good, IsDev, Fields
  <2> HIDE DEF q
  <2>5. PICK o \in TakeBack(t, q) : x = Run(t, [o EXCEPT !.asleep = (how = "fw_off")], ops(how))
    BY <2>3 DEF off
  <2>6. Same(q, o)
    <3> DEFINE f == Fail(q, "take_back")
    <3>1. Same(q, q) /\ Same(q, f) /\ IsDev(f)
      BY <2>4, FailSame DEF Same
    <3> HIDE DEF f
    <3>2. \A g : Same(f, [f EXCEPT !.jam = g])
      BY <3>1 DEF Same, IsDev, Fields
    <3>3. o = q \/ \E g : o = [f EXCEPT !.jam = g]
      BY <2>5 DEF TakeBack, f
    <3> QED BY <3>1, <3>2, <3>3, SameTrans
  <2> DEFINE r == [o EXCEPT !.asleep = (how = "fw_off")]
  <2>7. Same(q, r) /\ IsDev(r)
    BY <2>6 DEF Same, IsDev, Fields
  <2> HIDE DEF r
  <2>8. Same(q, x) /\ IsDev(x)
    <3>1. x = Run(t, r, ops(how))
      BY <2>5 DEF r
    <3>2. Same(r, x)
      BY <2>7, <3>1, RunSame
    <3> QED BY <2>7, <3>2, SameTrans DEF Same
  <2> DEFINE u == unvote_buses(x)
  <2>9. e = [u EXCEPT !.power_enabled = FALSE, !.asleep = FALSE, !.jam = {}] /\ Same(q, u)
    BY <2>3, <2>8, BusesSame, SameTrans DEF last
  <2> HIDE DEF u
  <2>10. /\ IsDev(e) /\ e.power_enabled = FALSE /\ e.wd = q.wd /\ e.depth = q.depth
         /\ e.state = q.state /\ e.queued = q.queued
         /\ e.res = q.res /\ e.sub = q.sub /\ e.isset = q.isset /\ e.told = q.told
         /\ e.fw = q.fw /\ e.inits = q.inits /\ e.skip = q.skip /\ q.faults \subseteq e.faults
    BY <2>9 DEF Same, IsDev, Fields
  <2>11. /\ q.wd = FALSE /\ q.depth = (IF d.wd THEN d.depth ELSE d.depth + 1)
         /\ q.state = d.state /\ q.queued = d.queued
         /\ q.res = d.res /\ q.sub = d.sub /\ q.isset = d.isset /\ q.told = d.told
         /\ q.fw = d.fw /\ q.inits = d.inits /\ q.skip = d.skip /\ q.faults = d.faults
    BY DEF q, Good, IsDev, Fields
  <2>12. d.depth \in Int /\ d.wd \in BOOLEAN
    BY DEF Good
  <2>13. Pending(e) = e.depth - 1 /\ Pending(d) = d.depth - (IF d.wd THEN 1 ELSE 0)
    BY <1>2, <2>10 DEF Pending
  <2>14. Pending(e) = Pending(d) /\ e.depth \in Int
    BY <2>10, <2>11, <2>12, <2>13
  <2>15. Good(e)
    BY <2>10, <2>11, <2>14 DEF Good
  <2> QED BY <2>10, <2>11, <2>14, <2>15 DEF Kept
<1> QED BY <1>1, <1>2

LEMMA MovedSame ==
    ASSUME NEW d, IsDev(d), NEW dest, NEW gs PROVE Same(d, Moved(d, dest, gs))
  BY DEF Moved, Same, IsDev, Fields

LEMMA SwitchSame ==
    ASSUME NEW t, NEW d, IsDev(d), NEW dest, NEW k, NEW late
    PROVE  Same(d, switch_all_core_gdsc(t, d, dest, k, late))
<1>1. \A e, gs, to : IsDev(e) => Same(e, Moved(e, to, gs)) /\ IsDev(Moved(e, to, gs))
  BY MovedSame DEF Same
<1> QED BY <1>1, SameTrans DEF switch_all_core_gdsc

LEMMA HwCollapseSame ==
    ASSUME NEW t, NEW d, IsDev(d), NEW e \in enable_hw_power_collapse(t, d) PROVE Same(d, e)
<1>0. Same(d, d)
  BY DEF Same
<1>1. Same(d, Fail(d, "hwpc")) /\ IsDev(Fail(d, "hwpc"))
  BY FailSame DEF Same
<1>2. CASE e \in enable_hw_power_collapse_hawi(t, d)
  <2> DEFINE sw(k, late) == switch_all_core_gdsc(t,
               switch_all_core_gdsc(t, Fail(d, "hwpc"), "HW", k, late), "SW", 0, 0)
             W == {sw(k, late) : k \in DOMAIN CoreGdscs(t), late \in 0..1}
             V == {switch_all_core_gdsc(t, d, "HW", 0, 0)}
  <2>1. \A x \in V : Same(d, x)
    BY SwitchSame
  <2>2. ASSUME NEW k, NEW late PROVE Same(d, sw(k, late))
    <3> DEFINE s == switch_all_core_gdsc(t, Fail(d, "hwpc"), "HW", k, late)
    <3>1. Same(d, s) /\ IsDev(s)
      BY <1>1, SwitchSame, SameTrans DEF Same
    <3> HIDE DEF s
    <3>2. Same(d, switch_all_core_gdsc(t, s, "SW", 0, 0))
      BY <3>1, SwitchSame, SameTrans
    <3> QED BY <3>2 DEF s
  <2>3. \A x \in W : Same(d, x)
    <3> HIDE DEF sw
    <3> QED BY <2>2
  <2>4. enable_hw_power_collapse_hawi(t, d) = V \cup (IF d.left = 0 THEN {} ELSE W)
    BY DEF enable_hw_power_collapse_hawi
  <2> HIDE DEF V, W
  <2> QED BY <1>2, <2>1, <2>3, <2>4
<1>3. CASE e \in enable_hw_power_collapse_others(t, d)
  BY <1>1, <1>3, MovedSame DEF enable_hw_power_collapse_others
<1> QED BY <1>0, <1>2, <1>3 DEF enable_hw_power_collapse

LEMMA DumpSame ==
    ASSUME NEW t, NEW d, IsDev(d), NEW e \in dump_csr(t, d) PROVE Same(d, e)
<1> DEFINE ops == <<Reg("ctl")>> \o check_ctl_power_on(t) \o dump_noc_regs(t)
           read(x) == [Run(t, x, ops) EXCEPT !.reg_dumped = TRUE, !.asleep = FALSE]
<1> HIDE DEF ops
<1>1. \A x : IsDev(x) => Same(x, read(x)) /\ IsDev(read(x))
  <2> SUFFICES ASSUME NEW x, IsDev(x) PROVE Same(x, read(x)) /\ IsDev(read(x))
    OBVIOUS
  <2>1. Same(x, Run(t, x, ops))
    BY RunSame
  <2> QED BY <2>1 DEF Same, IsDev, Fields
<1>2. CASE e = read(d)
  BY <1>1, <1>2
<1>3. CASE e \in enable_hw_power_collapse(t, read(Moved(d, "SW", Range(CoreGdscs(t)))))
  <2> DEFINE m == Moved(d, "SW", Range(CoreGdscs(t)))
  <2>1. Same(d, m) /\ IsDev(m)
    BY MovedSame DEF Same
  <2> HIDE DEF m
  <2>2. Same(d, read(m)) /\ IsDev(read(m))
    BY <1>1, <2>1, SameTrans
  <2>3. e \in enable_hw_power_collapse(t, read(m))
    BY <1>3 DEF m
  <2> HIDE DEF read
  <2> QED BY <2>2, <2>3, HwCollapseSame, SameTrans
<1>4. CASE e = read([Fail(d, "dump") EXCEPT !.asleep = (d.hwctl # {})])
  <2> DEFINE m == [Fail(d, "dump") EXCEPT !.asleep = (d.hwctl # {})]
  <2>1. Same(d, Fail(d, "dump"))
    BY FailSame
  <2>2. Same(d, m) /\ IsDev(m)
    BY <2>1 DEF Same, IsDev, Fields
  <2>3. e = read(m)
    BY <1>4
  <2> HIDE DEF m, read
  <2> QED BY <1>1, <2>2, <2>3, SameTrans
<1> QED BY <1>2, <1>3, <1>4 DEF dump_csr, ops

LEMMA BootSame ==
    ASSUME NEW t, NEW d, IsDev(d), NEW o \in boot_firmware(t, d) PROVE Same(d, o.d)
<1>1. PICK b \in May(d, "boot") :
        \E e \in enable_hw_power_collapse(t, Run(t, b.d, <<Reg("ctl")>>)) :
            o = [d |-> Run(t, e, <<Reg("ctl")>>), ok |-> b.ok]
  BY DEF boot_firmware
<1> DEFINE r == Run(t, b.d, <<Reg("ctl")>>)
<1>2. Same(d, b.d) /\ IsDev(b.d)
  BY MaySame DEF Same
<1>3. Same(d, r) /\ IsDev(r)
  BY <1>2, RunSame, SameTrans DEF Same
<1>0. PICK e \in enable_hw_power_collapse(t, r) :
        o = [d |-> Run(t, e, <<Reg("ctl")>>), ok |-> b.ok]
  BY <1>1
<1> HIDE DEF r
<1>4. Same(d, e) /\ IsDev(e)
  BY <1>3, HwCollapseSame, SameTrans DEF Same
<1>5. Same(d, Run(t, e, <<Reg("ctl")>>))
  BY <1>4, RunSame, SameTrans
<1>6. o.d = Run(t, e, <<Reg("ctl")>>)
  BY <1>0
<1> QED BY <1>5, <1>6

-----------------------------------------------------------------------------
\* Commands, collapse and resume.

\* A device like d, but for what was done about the system cache: if it is
\* active then the firmware knows, or sys_cache_res_set says so since before.
Cached(d, e) ==
    /\ Good(e)
    /\ e.state = d.state /\ e.queued = d.queued /\ e.res = d.res
    /\ e.fw = d.fw /\ e.inits = d.inits /\ e.skip \in {d.skip, 0}
    /\ d.faults \subseteq e.faults
    /\ Pending(e) = Pending(d)
    /\ e.wd => d.wd
    /\ e.isset => e.told \/ (d.isset /\ e.told = d.told)
    /\ e.sub => e.isset

LEMMA CacheStep ==
    ASSUME NEW d, Good(d), NEW g \in enable_subcaches(d), NEW f \in set_subcaches(g)
    PROVE  Cached(d, f) /\ f.power_enabled = d.power_enabled
<1> DEFINE P(x) == /\ Good(x) /\ x.power_enabled = d.power_enabled
                   /\ x.state = d.state /\ x.queued = d.queued /\ x.res = d.res
                   /\ x.fw = d.fw /\ x.inits = d.inits /\ x.skip = d.skip
                   /\ d.faults \subseteq x.faults
                   /\ x.depth = d.depth /\ x.wd = d.wd
<1>1. P(g) /\ \/ g.sub = TRUE /\ g.isset = d.isset /\ g.told = d.told
              \/ g.sub = FALSE /\ g.isset = FALSE /\ g.told = FALSE
  <2>1. CASE g = [d EXCEPT !.sub = TRUE]
    BY <2>1 DEF Good, IsDev, Fields
  <2>2. CASE g = [Fail(d, "llcc") EXCEPT !.sub = FALSE, !.isset = FALSE, !.told = FALSE]
    <3> DEFINE x == Fail(d, "llcc")
    <3>1. P(x)
      BY DEF Fail, Good, IsDev, Fields
    <3>2. g = [x EXCEPT !.sub = FALSE, !.isset = FALSE, !.told = FALSE]
      BY <2>2
    <3> HIDE DEF x
    <3> QED BY <3>1, <3>2 DEF Good, IsDev, Fields
  <2> QED BY <2>1, <2>2 DEF enable_subcaches
<1>2. CASE f = g /\ (g.isset \/ ~g.sub)
  <2>1. f.isset => f.told \/ (d.isset /\ f.told = d.told)
    BY <1>1, <1>2
  <2>2. f.sub => f.isset
    BY <1>1, <1>2
  <2> QED BY <1>1, <1>2, <2>1, <2>2 DEF Cached, Pending
<1>3. CASE f = [g EXCEPT !.isset = TRUE, !.told = TRUE]
  <2>1. P(f) /\ f.told = TRUE /\ f.isset = TRUE
    BY <1>1, <1>3 DEF Good, IsDev, Fields
  <2> QED BY <2>1 DEF Cached, Pending
<1>4. CASE ~g.isset /\ f = disable_subcaches(Fail(g, "subcache_cmd"))
  <2>1. P(f) /\ f.sub = FALSE /\ f.isset = g.isset
    BY <1>1, <1>4 DEF Good, IsDev, Fields, disable_subcaches, Fail
  <2> QED BY <1>4, <2>1 DEF Cached, Pending
<1> QED BY <1>2, <1>3, <1>4 DEF set_subcaches

\* A device the firmware of which answers: what the resume of d ends in.
Running(d, e) == e.power_enabled = TRUE /\ Cached([d EXCEPT !.queued = TRUE], e)

LEMMA CommandGood ==
    ASSUME NEW d, Good(d), NEW k
    PROVE  /\ Good(write_cmd(d, k)) /\ Kept([d EXCEPT !.queued = TRUE], write_cmd(d, k))
           /\ write_cmd(d, k).power_enabled = d.power_enabled
  BY DEF write_cmd, Good, Kept, Pending, IsDev, Fields

\* After a command, the system cache is set up.
LEMMA RunningStep ==
    ASSUME NEW d, Good(d), d.power_enabled = TRUE,
           NEW g \in enable_subcaches(write_cmd(d, "other")), NEW f \in set_subcaches(g)
    PROVE  Running(d, [f EXCEPT !.skip = 0])
<1> DEFINE w == write_cmd(d, "other")
           h == [f EXCEPT !.skip = 0]
<1>1. Good(w) /\ Kept([d EXCEPT !.queued = TRUE], w) /\ w.power_enabled = TRUE
  BY CommandGood
<1> HIDE DEF w
<1>2. Cached(w, f) /\ f.power_enabled = TRUE
  BY <1>1, CacheStep DEF w
<1>3. Cached(w, h) /\ h.power_enabled = TRUE
  BY <1>2 DEF Cached, Good, Pending, IsDev, Fields
<1> HIDE DEF h
<1>4. Cached([d EXCEPT !.queued = TRUE], h)
  BY <1>1, <1>3 DEF Cached, Kept
<1> QED BY <1>3, <1>4 DEF Running, h

LEMMA ResumeStep ==
    ASSUME NEW t, NEW d, Good(d), NEW o \in resume(t, d)
    PROVE  IF d.power_enabled THEN o.ok /\ Kept(d, o.d) /\ o.d.power_enabled = TRUE
           ELSE IF d.state # "INIT" THEN ~o.ok /\ o.d = d
           ELSE IF o.ok THEN Running(d, o.d)
           ELSE Kept(d, o.d) /\ o.d.power_enabled = FALSE
<1>1. CASE d.power_enabled
  <2> DEFINE e == [d EXCEPT !.skip = IF d.last = "PC_PREP" THEN @ ELSE 0]
  <2>1. o = Ok(e)
    BY <1>1 DEF resume
  <2>2. Kept(d, e) /\ e.power_enabled = TRUE
    BY <1>1 DEF Good, Kept, Pending, IsDev, Fields
  <2> HIDE DEF e
  <2> QED BY <1>1, <2>1, <2>2, Outcome
<1>2. CASE ~d.power_enabled /\ d.state # "INIT"
  <2>1. o = Err(d)
    BY <1>2 DEF resume
  <2> QED BY <1>2, <2>1, Outcome
<1>3. CASE ~d.power_enabled /\ d.state = "INIT"
  <2> DEFINE tz(e) == OnError(May(e, "tz_resume"), LAMBDA f : power_off_iris2(t, f))
             boot(e) == OnError(boot_firmware(t, e), LAMBDA f : power_off_iris2(t, f))
             running(e) == {Ok([f EXCEPT !.skip = 0]) :
                              f \in UNION {set_subcaches(g) :
                                      g \in enable_subcaches(write_cmd(Run(t, e, <<Reg("ctl")>>), "other"))}}
             mapped(e) == {Ok(Run(t, e, setup_dsp_uc_memmap(t)))}
             S1 == Then(iris_power_on(t, d), mapped)
             S2 == Then(S1, tz)
             S3 == Then(S2, boot)
             Q(x) == Kept(d, x.d) /\ (x.ok <=> x.d.power_enabled)
  <2>1. PICK x3 \in S3 : IF x3.ok THEN o \in running(x3.d) ELSE o = x3
    BY <1>3 DEF resume, Then
  <2>2. PICK x2 \in S2 : IF x2.ok THEN x3 \in boot(x2.d) ELSE x3 = x2
    BY <2>1 DEF Then
  <2>3. PICK x1 \in S1 : IF x1.ok THEN x2 \in tz(x1.d) ELSE x2 = x1
    BY <2>2 DEF Then
  <2>4. PICK x0 \in iris_power_on(t, d) : IF x0.ok THEN x1 \in mapped(x0.d) ELSE x1 = x0
    BY <2>3 DEF Then
  <2> HIDE DEF S1, S2, S3, mapped, tz, boot, running
  <2>5. Q(x0)
    BY PowerOnKept
  <2>6. Q(x1)
    <3>1. CASE x0.ok
      <4>1. x1 = Ok(Run(t, x0.d, setup_dsp_uc_memmap(t)))
        BY <2>4, <3>1 DEF mapped
      <4>2. Good(x0.d) /\ IsDev(x0.d)
        BY <2>5 DEF Kept, Good
      <4>3. Same(x0.d, Run(t, x0.d, setup_dsp_uc_memmap(t)))
        BY <4>2, RunSame
      <4>4. Kept(x0.d, x1.d) /\ x1.d.power_enabled = x0.d.power_enabled /\ x1.ok
        BY <4>1, <4>2, <4>3, SameKept, Outcome
      <4> QED BY <2>5, <3>1, <4>4, KeptTrans
    <3>2. CASE ~x0.ok
      BY <2>4, <2>5, <3>2
    <3> QED BY <3>1, <3>2
  <2>7. Q(x2)
    <3>1. CASE x1.ok
      <4>1. PICK y \in May(x1.d, "tz_resume") :
              IF y.ok THEN x2 = y ELSE \E f \in power_off_iris2(t, y.d) : x2 = Err(f)
        BY <2>3, <3>1 DEF tz, OnError
      <4>2. Good(x1.d) /\ IsDev(x1.d)
        BY <2>6 DEF Kept, Good
      <4>3. Kept(x1.d, y.d) /\ y.d.power_enabled = x1.d.power_enabled
        BY <4>2, MaySame, SameKept
      <4>4. Kept(d, y.d) /\ Good(y.d) /\ y.d.power_enabled
        BY <2>6, <3>1, <4>3, KeptTrans DEF Kept
      <4>5. CASE y.ok
        BY <4>1, <4>4, <4>5
      <4>6. CASE ~y.ok
        <5>1. PICK f \in power_off_iris2(t, y.d) : x2 = Err(f)
          BY <4>1, <4>6
        <5>2. Kept(y.d, f) /\ f.power_enabled = FALSE
          BY <4>4, PowerOffKept
        <5> QED BY <4>4, <5>1, <5>2, KeptTrans, Outcome
      <4> QED BY <4>5, <4>6
    <3>2. CASE ~x1.ok
      BY <2>3, <2>6, <3>2
    <3> QED BY <3>1, <3>2
  <2>8. Q(x3)
    <3>1. CASE x2.ok
      <4>1. PICK y \in boot_firmware(t, x2.d) :
              IF y.ok THEN x3 = y ELSE \E f \in power_off_iris2(t, y.d) : x3 = Err(f)
        BY <2>2, <3>1 DEF boot, OnError
      <4>2. Good(x2.d) /\ IsDev(x2.d)
        BY <2>7 DEF Kept, Good
      <4>3. Kept(x2.d, y.d) /\ y.d.power_enabled = x2.d.power_enabled
        BY <4>2, BootSame, SameKept
      <4>4. Kept(d, y.d) /\ Good(y.d) /\ y.d.power_enabled
        BY <2>7, <3>1, <4>3, KeptTrans DEF Kept
      <4>5. CASE y.ok
        BY <4>1, <4>4, <4>5
      <4>6. CASE ~y.ok
        <5>1. PICK f \in power_off_iris2(t, y.d) : x3 = Err(f)
          BY <4>1, <4>6
        <5>2. Kept(y.d, f) /\ f.power_enabled = FALSE
          BY <4>4, PowerOffKept
        <5> QED BY <4>4, <5>1, <5>2, KeptTrans, Outcome
      <4> QED BY <4>5, <4>6
    <3>2. CASE ~x2.ok
      BY <2>2, <2>7, <3>2
    <3> QED BY <3>1, <3>2
  <2>9. CASE x3.ok
    <3> DEFINE r == Run(t, x3.d, <<Reg("ctl")>>)
    <3>1. PICK g \in enable_subcaches(write_cmd(r, "other")) :
            \E f \in set_subcaches(g) : o = Ok([f EXCEPT !.skip = 0])
      BY <2>1, <2>9 DEF running
    <3>2. PICK f \in set_subcaches(g) : o = Ok([f EXCEPT !.skip = 0])
      BY <3>1
    <3>3. Good(x3.d) /\ IsDev(x3.d) /\ x3.d.power_enabled
      BY <2>8, <2>9 DEF Kept, Good
    <3>4. Kept(x3.d, r) /\ r.power_enabled = x3.d.power_enabled
      BY <3>3, RunSame, SameKept
    <3> HIDE DEF r
    <3>5. Kept(d, r) /\ Good(r) /\ r.power_enabled = TRUE
      BY <2>8, <3>3, <3>4, KeptTrans DEF Kept, Good
    <3>6. Running(r, [f EXCEPT !.skip = 0])
      BY <3>5, RunningStep
    <3> DEFINE h == [f EXCEPT !.skip = 0]
    <3>7. o.ok /\ o.d = h
      BY <3>2, Outcome
    <3>8. Running(r, h)
      BY <3>6
    <3> HIDE DEF h
    <3>9. Kept([d EXCEPT !.queued = TRUE], [r EXCEPT !.queued = TRUE])
      BY <3>5 DEF Kept, Good, Pending, IsDev, Fields
    <3>10. Running(d, h)
      BY <3>8, <3>9 DEF Running, Cached, Kept
    <3> QED BY <1>3, <3>7, <3>10
  <2>10. CASE ~x3.ok
    <3>1. o = x3 /\ o.d.power_enabled = FALSE
      BY <2>1, <2>8, <2>10 DEF Kept, Good
    <3> QED BY <1>3, <2>8, <2>10, <3>1
  <2> QED BY <2>9, <2>10
<1> QED BY <1>1, <1>2, <1>3

\* A device like d that may have been collapsed, or asked to.
Shut(d, e) ==
    /\ Good(e)
    /\ e.state = d.state /\ e.res = d.res /\ e.isset = d.isset /\ e.told = d.told
    /\ e.fw = d.fw /\ e.inits = d.inits /\ e.skip \in {d.skip, 0}
    /\ d.faults \subseteq e.faults
    /\ Pending(e) = Pending(d)
    /\ e.wd => d.wd
    /\ e.queued \in {d.queued, TRUE}
    /\ e.sub => d.sub
    /\ e.power_enabled => d.power_enabled

LEMMA KeptShut ==
    ASSUME NEW d, NEW e, Kept(d, e), e.power_enabled => d.power_enabled PROVE Shut(d, e)
  BY DEF Kept, Shut

LEMMA ShutTrans ==
    ASSUME NEW d, NEW e, NEW f, Shut(d, e), Shut(e, f) PROVE Shut(d, f)
  BY DEF Shut

LEMMA SuspendStep ==
    ASSUME NEW t, NEW d, Good(d), NEW o \in suspend(t, d)
    PROVE  /\ Shut(d, o.d)
           /\ \/ o.rc = "0" /\ o.d.power_enabled = FALSE
              \/ o.rc = "other" /\ "tz_suspend" \in o.d.faults
<1>1. CASE \E e \in power_off_iris2(t, disable_subcaches(d)) : o = [d |-> e, rc |-> "0"]
  <2>1. PICK e \in power_off_iris2(t, disable_subcaches(d)) : o = [d |-> e, rc |-> "0"]
    BY <1>1
  <2> DEFINE s == disable_subcaches(d)
  <2>2. Good(s) /\ Shut(d, s)
    BY DEF Good, Shut, Pending, IsDev, Fields, disable_subcaches
  <2> HIDE DEF s
  <2>3. Kept(s, e) /\ e.power_enabled = FALSE
    BY <2>1, <2>2, PowerOffKept DEF s
  <2>4. Shut(d, e)
    BY <2>2, <2>3, KeptShut, ShutTrans
  <2>5. o.d = e /\ o.rc = "0"
    BY <2>1
  <2> QED BY <2>3, <2>4, <2>5
<1>2. CASE o = [d |-> Fail(d, "tz_suspend"), rc |-> "other"]
  <2>1. o.d = Fail(d, "tz_suspend") /\ o.rc = "other"
    BY <1>2
  <2>2. IsDev(d)
    BY DEF Good
  <2>3. Kept(d, o.d) /\ o.d.power_enabled = d.power_enabled /\ "tz_suspend" \in o.d.faults
    BY <2>1, <2>2, FailSame, SameKept
  <2> QED BY <2>1, <2>3, KeptShut
<1>3. d.left = 0 \/ d.left # 0
  OBVIOUS
<1> QED BY <1>1, <1>2, <1>3 DEF suspend

LEMMA CollapseStep ==
    ASSUME NEW t, NEW d, Good(d), NEW force, NEW o \in power_collapse(t, d, force)
    PROVE  /\ Shut(d, o.d)
           /\ o.rc \in Codes
           /\ o.rc = "0" => o.d.power_enabled = FALSE
           /\ o.rc = "EINVAL" => d.state # "INIT" \/ "dsp_einval" \in o.d.faults
           /\ o.rc = "other" => "tz_suspend" \in o.d.faults
<1>0. IsDev(d) /\ Shut(d, d)
  BY DEF Good, Shut
<1>1. CASE ~d.power_enabled
  <2>1. o = [d |-> d, rc |-> "0"]
    BY <1>1 DEF power_collapse
  <2>2. o.d = d /\ o.rc = "0"
    BY <2>1
  <2> QED BY <1>0, <1>1, <2>2 DEF Codes, Good
<1>2. CASE d.power_enabled /\ d.state # "INIT"
  <2>1. o = [d |-> d, rc |-> "EINVAL"]
    BY <1>2 DEF power_collapse
  <2>2. o.d = d /\ o.rc = "EINVAL"
    BY <2>1
  <2> QED BY <1>0, <1>2, <2>2 DEF Codes
<1>3. CASE d.power_enabled /\ d.state = "INIT"
  <2> DEFINE w == write_cmd(d, "PC_PREP")
  <2>1. Good(w) /\ Shut(d, w)
    BY DEF w, Good, Shut, Pending, IsDev, Fields, write_cmd
  <2>2. \A k : Shut(d, Fail(d, k)) /\ k \in Fail(d, k).faults
    BY <1>0, FailSame, SameKept, KeptShut
  <2>3. \/ o \in CollapseRefused(d, force) \/ o \in CollapseSkipped(t, d)
        \/ o \in suspend(t, d) \/ o \in suspend(t, w)
    BY <1>3 DEF power_collapse
  <2> HIDE DEF w
  <2>4. CASE o \in CollapseRefused(d, force)
    <3>1. CASE o = [d |-> [d EXCEPT !.busy = @ - 1], rc |-> "EBUSY"]
      <4> DEFINE b == [d EXCEPT !.busy = @ - 1]
      <4>1. Shut(d, b)
        BY DEF Good, Shut, Pending, IsDev, Fields
      <4> HIDE DEF b
      <4>2. o.d = b /\ o.rc = "EBUSY"
        BY <3>1 DEF b
      <4> QED BY <4>1, <4>2 DEF Codes
    <3>2. CASE o = [d |-> Fail(d, "dsp_einval"), rc |-> "EINVAL"]
      <4>1. o.d = Fail(d, "dsp_einval") /\ o.rc = "EINVAL"
        BY <3>2
      <4> QED BY <2>2, <4>1 DEF Codes
    <3>3. CASE o = [d |-> Fail(d, "dsp_error"), rc |-> "EAGAIN"]
      <4>1. o.d = Fail(d, "dsp_error") /\ o.rc = "EAGAIN"
        BY <3>3
      <4> QED BY <2>2, <4>1 DEF Codes
    <3>4. /\ d.left = 0 \/ d.left # 0
          /\ (force \/ d.busy = 0) \/ ~(force \/ d.busy = 0)
      OBVIOUS
    <3> QED BY <2>4, <3>1, <3>2, <3>3, <3>4 DEF CollapseRefused
  <2>5. CASE o \in CollapseSkipped(t, d)
    <3>1. PICK e : /\ e \in {Run(t, d, <<Reg("ctl")>>), [d EXCEPT !.last = "PC_PREP"], w}
                   /\ o = [d |-> e, rc |-> "EAGAIN"]
      BY <2>5 DEF CollapseSkipped, w
    <3>2. Shut(d, Run(t, d, <<Reg("ctl")>>))
      BY <1>0, RunSame, SameKept, KeptShut
    <3>3. Shut(d, [d EXCEPT !.last = "PC_PREP"])
      BY DEF Good, Shut, Pending, IsDev, Fields
    <3>4. o.d = e /\ o.rc = "EAGAIN"
      BY <3>1
    <3> QED BY <2>1, <3>1, <3>2, <3>3, <3>4 DEF Codes
  <2>6. CASE o \in suspend(t, d)
    BY <2>6, SuspendStep DEF Codes
  <2>7. CASE o \in suspend(t, w)
    BY <2>1, <2>7, SuspendStep, ShutTrans DEF Codes
  <2> QED BY <2>3, <2>4, <2>5, <2>6, <2>7
<1> QED BY <1>1, <1>2, <1>3

-----------------------------------------------------------------------------
\* Loading and unloading.

Handles == {"regulators", "clocks", "bus", "subcaches"}

\* A device on the way from d to a loaded one, or back.
Loads(d, e) ==
    /\ Good(e)
    /\ e.inits = d.inits /\ e.isset = d.isset /\ e.sub = d.sub /\ e.skip \in {d.skip, 0}
    /\ d.faults \subseteq e.faults
    /\ Pending(e) = Pending(d)
    /\ e.wd => d.wd
    /\ e.res \subseteq Handles

LEMMA LoadsTrans ==
    ASSUME NEW d, NEW e, NEW f, Loads(d, e), Loads(e, f) PROVE Loads(d, f)
  BY DEF Loads

LEMMA KeptLoads ==
    ASSUME NEW d, NEW e, Kept(d, e), d.res \subseteq Handles PROVE Loads(d, e)
  BY DEF Kept, Loads

LEMMA DeinitStep ==
    ASSUME NEW d, Good(d), d.res \subseteq Handles
    PROVE  LET e == deinit_resources(d)
           IN  /\ Loads(d, e) /\ e.res = {} /\ e.power_enabled = d.power_enabled
               /\ e.state = d.state /\ e.fw = d.fw /\ e.told = d.told
<1> DEFINE e1 == Put(d, "subcaches")
           e2 == deinit_bus(e1)
           e3 == Put(e2, "clocks")
           e4 == Put(e3, "regulators")
           P(x, R) == /\ IsDev(x) /\ x.res = R /\ x.power_enabled = d.power_enabled
                      /\ x.state = d.state /\ x.fw = d.fw /\ x.told = d.told
                      /\ x.inits = d.inits /\ x.isset = d.isset /\ x.faults = d.faults
                      /\ x.sub = d.sub /\ x.skip = d.skip
                      /\ x.depth = d.depth /\ x.wd = d.wd
<1>1. P(e1, d.res \ {"subcaches"})
  BY DEF Put, Good, IsDev, Fields
<1> HIDE DEF e1
<1>2. P(e2, (d.res \ {"subcaches"}) \ {"bus"})
  BY <1>1 DEF Put, deinit_bus, IsDev, Fields
<1> HIDE DEF e2
<1>3. P(e3, ((d.res \ {"subcaches"}) \ {"bus"}) \ {"clocks"})
  BY <1>2 DEF Put, IsDev, Fields
<1> HIDE DEF e3
<1>4. P(e4, (((d.res \ {"subcaches"}) \ {"bus"}) \ {"clocks"}) \ {"regulators"})
  BY <1>3 DEF Put, IsDev, Fields
<1>5. e4 = deinit_resources(d)
  BY DEF deinit_resources, e1, e2, e3
<1> HIDE DEF e4
<1>6. e4.res = {}
  BY <1>4 DEF Handles
<1>7. Good(e4) /\ Pending(e4) = Pending(d)
  BY <1>4 DEF Good, Pending
<1>8. /\ Loads(d, e4) /\ e4.res = {} /\ e4.power_enabled = d.power_enabled
      /\ e4.state = d.state /\ e4.fw = d.fw /\ e4.told = d.told
  BY <1>4, <1>6, <1>7 DEF Loads
<1> QED BY <1>5, <1>8

LEMMA UnloadStep ==
    ASSUME NEW t, NEW d, Good(d), d.res \subseteq Handles, d.fw, NEW e \in unload_fw(t, d)
    PROVE  Loads(d, e) /\ e.res = {} /\ e.power_enabled = FALSE /\ e.state = d.state /\ e.fw = FALSE
<1> DEFINE s == [d EXCEPT !.queued = FALSE, !.fw = FALSE, !.told = FALSE]
<1>1. PICK p \in power_off_iris2(t, s) : e = deinit_resources(p)
  BY DEF unload_fw
<1>2. Good(s) /\ Loads(d, s) /\ s.state = d.state /\ s.fw = FALSE /\ s.res = d.res
  BY DEF Good, Loads, Pending, IsDev, Fields
<1> HIDE DEF s
<1>3. Kept(s, p) /\ p.power_enabled = FALSE
  BY <1>1, <1>2, PowerOffKept
<1>4. Good(p) /\ Loads(d, p) /\ p.state = d.state /\ p.fw = FALSE /\ p.res \subseteq Handles
  BY <1>2, <1>3, KeptLoads, LoadsTrans DEF Kept
<1>5. /\ Loads(p, e) /\ e.res = {} /\ e.power_enabled = FALSE
      /\ e.state = d.state /\ e.fw = FALSE
  BY <1>1, <1>3, <1>4, DeinitStep
<1> QED BY <1>4, <1>5, LoadsTrans

LEMMA ErrCoreInitStep ==
    ASSUME NEW t, NEW d, Good(d), d.res \subseteq Handles, d.fw \in BOOLEAN,
           NEW e \in err_core_init(t, d)
    PROVE  /\ Loads(d, e) /\ e.state = "DEINIT" /\ e.fw = FALSE
           /\ IF d.fw THEN e.res = {} /\ e.power_enabled = FALSE
              ELSE e.res = d.res /\ e.power_enabled = d.power_enabled
<1> DEFINE s == [d EXCEPT !.state = "DEINIT"]
<1>1. /\ Good(s) /\ Loads(d, s) /\ s.state = "DEINIT" /\ s.fw = d.fw /\ s.res = d.res
      /\ s.power_enabled = d.power_enabled
  BY DEF Good, Loads, Pending, IsDev, Fields
<1>2. e \in unload_fw(t, s)
  BY DEF err_core_init
<1> HIDE DEF s
<1>3. CASE d.fw
  <2>1. Loads(s, e) /\ e.res = {} /\ e.power_enabled = FALSE /\ e.state = s.state /\ e.fw = FALSE
    BY <1>1, <1>2, <1>3, UnloadStep
  <2> QED BY <1>1, <1>3, <2>1, LoadsTrans
<1>4. CASE ~d.fw
  <2>1. e = s
    BY <1>1, <1>2, <1>4 DEF unload_fw
  <2> QED BY <1>1, <1>4, <2>1
<1> QED BY <1>3, <1>4

\* The fields that neither handles nor power touch.
Unloaded(d, e) ==
    /\ Loads(d, e)
    /\ e.state = d.state /\ e.fw = d.fw /\ e.told = d.told /\ e.sub = d.sub /\ e.queued = d.queued

LEMMA UnloadedTrans ==
    ASSUME NEW d, NEW e, NEW f, Unloaded(d, e), Unloaded(e, f) PROVE Unloaded(d, f)
  BY LoadsTrans DEF Unloaded

LEMMA PutStep ==
    ASSUME NEW d, Good(d), d.res \subseteq Handles, NEW k
    PROVE  /\ Unloaded(d, Put(d, k)) /\ Put(d, k).res = d.res \ {k}
           /\ Put(d, k).power_enabled = d.power_enabled
  BY DEF Put, Unloaded, Loads, Good, Pending, IsDev, Fields

LEMMA GetStep ==
    ASSUME NEW d, Good(d), d.res \subseteq Handles, NEW k \in Handles, NEW o \in Get(d, k)
    PROVE  /\ Unloaded(d, o.d) /\ o.d.power_enabled = d.power_enabled
           /\ IF o.ok THEN o.d.res = d.res \cup {k} ELSE o.d.res = d.res /\ k \in o.d.faults
<1>1. PICK x \in May(d, k) : IF x.ok THEN o = Ok([x.d EXCEPT !.res = @ \cup {k}]) ELSE o = x
  BY DEF Get, Then
<1>2. IsDev(d)
  BY DEF Good
<1>3. Kept(d, x.d) /\ x.d.power_enabled = d.power_enabled /\ (~x.ok => k \in x.d.faults)
  BY <1>2, MaySame, SameKept
<1>4. CASE x.ok
  <2> DEFINE g == [x.d EXCEPT !.res = @ \cup {k}]
  <2>1. /\ IsDev(g) /\ g.res = d.res \cup {k} /\ g.power_enabled = d.power_enabled
        /\ g.depth = x.d.depth /\ g.wd = x.d.wd /\ g.faults = x.d.faults
        /\ g.state = d.state /\ g.fw = d.fw /\ g.told = d.told /\ g.sub = d.sub
        /\ g.queued = d.queued /\ g.inits = d.inits /\ g.isset = d.isset /\ g.skip = x.d.skip
    BY <1>3 DEF Kept, Good, IsDev, Fields
  <2> HIDE DEF g
  <2>2. Good(g) /\ Pending(g) = Pending(d)
    BY <1>3, <2>1 DEF Kept, Good, Pending
  <2>3. Unloaded(d, g)
    BY <1>3, <2>1, <2>2 DEF Unloaded, Loads, Kept
  <2>4. o.ok /\ o.d = g
    BY <1>1, <1>4, Outcome DEF g
  <2> QED BY <2>1, <2>3, <2>4
<1>5. CASE ~x.ok
  <2>1. o = x /\ Unloaded(d, o.d)
    BY <1>1, <1>3, <1>5 DEF Unloaded, Loads, Kept
  <2> QED BY <1>3, <1>5, <2>1 DEF Kept
<1> QED BY <1>4, <1>5

LEMMA DeinitUnloaded ==
    ASSUME NEW d, Good(d), d.res \subseteq Handles
    PROVE  LET e == deinit_resources(d)
           IN  Unloaded(d, e) /\ e.res = {} /\ e.power_enabled = d.power_enabled
<1> DEFINE e == deinit_resources(d)
<1>1. Loads(d, e) /\ e.res = {} /\ e.power_enabled = d.power_enabled
      /\ e.state = d.state /\ e.fw = d.fw /\ e.told = d.told
  BY DeinitStep
<1>2. e.sub = d.sub /\ e.queued = d.queued
  BY DEF deinit_resources, deinit_bus, Put, Good, IsDev, Fields
<1> QED BY <1>1, <1>2 DEF Unloaded

LEMMA InitResourcesStep ==
    ASSUME NEW t, NEW d, Good(d), d.res \subseteq Handles, NEW o \in init_resources(t, d)
    PROVE  /\ Unloaded(d, o.d) /\ o.d.power_enabled = d.power_enabled
           /\ ~o.ok => o.d.res \subseteq d.res \/ "subcaches" \in o.d.faults
<1> DEFINE clocks(e) == OnError(init_clocks(e), LAMBDA f : {Put(f, "regulators")})
           bus(e) == OnError(init_bus(e), LAMBDA f : {deinit_resources(f)})
           S1 == Then(init_regulators(t, d), clocks)
           S2 == Then(S1, bus)
           Q(x) == /\ Unloaded(d, x.d) /\ x.d.power_enabled = d.power_enabled
<1>1. PICK x2 \in S2 : IF x2.ok THEN o \in init_subcaches(x2.d) ELSE o = x2
  BY DEF init_resources, Then
<1>2. PICK x1 \in S1 : IF x1.ok THEN x2 \in bus(x1.d) ELSE x2 = x1
  BY <1>1 DEF Then
<1>3. PICK x0 \in init_regulators(t, d) : IF x0.ok THEN x1 \in clocks(x0.d) ELSE x1 = x0
  BY <1>2 DEF Then
<1> HIDE DEF S1, S2, clocks, bus
<1>4. Q(x0) /\ x0.d.res \subseteq d.res \cup {"regulators"} /\ (~x0.ok => x0.d.res = d.res)
  <2>1. CASE t = "pakala"
    BY <2>1, GetStep DEF init_regulators, Handles
  <2>2. CASE t # "pakala"
    <3>1. x0 = Ok(d)
      BY <2>2 DEF init_regulators
    <3> QED BY <3>1, Outcome DEF Unloaded, Loads
  <2> QED BY <2>1, <2>2
<1>5. Q(x1) /\ (~x1.ok => x1.d.res \subseteq d.res)
  <2>1. CASE x0.ok
    <3>1. PICK y \in Get(x0.d, "clocks") : IF y.ok THEN x1 = y ELSE x1 = Err(Put(y.d, "regulators"))
      BY <1>3, <2>1 DEF clocks, OnError, init_clocks
    <3>2. Good(x0.d) /\ x0.d.res \subseteq Handles /\ "clocks" \in Handles
      BY <1>4 DEF Unloaded, Loads, Handles
    <3>3. Unloaded(x0.d, y.d) /\ y.d.power_enabled = x0.d.power_enabled
          /\ (~y.ok => y.d.res = x0.d.res)
      BY <3>2, GetStep
    <3>4. Q(y) /\ Good(y.d) /\ y.d.res \subseteq Handles
      BY <1>4, <3>3, UnloadedTrans DEF Unloaded, Loads
    <3>5. CASE y.ok
      BY <3>1, <3>4, <3>5
    <3>6. CASE ~y.ok
      <4>1. x1.d = Put(y.d, "regulators") /\ ~x1.ok
        BY <3>1, <3>6, Outcome
      <4>2. /\ Unloaded(y.d, x1.d) /\ x1.d.res = y.d.res \ {"regulators"}
            /\ x1.d.power_enabled = y.d.power_enabled
        BY <3>4, <4>1, PutStep
      <4> QED BY <1>4, <3>3, <3>4, <3>6, <4>2, UnloadedTrans
    <3> QED BY <3>5, <3>6
  <2>2. CASE ~x0.ok
    BY <1>3, <1>4, <2>2
  <2> QED BY <2>1, <2>2
<1>6. Q(x2) /\ (~x2.ok => x2.d.res \subseteq d.res)
  <2>1. CASE x1.ok
    <3>1. PICK y \in Get(x1.d, "bus") : IF y.ok THEN x2 = y ELSE x2 = Err(deinit_resources(y.d))
      BY <1>2, <2>1 DEF bus, OnError, init_bus
    <3>2. Good(x1.d) /\ x1.d.res \subseteq Handles /\ "bus" \in Handles
      BY <1>5 DEF Unloaded, Loads, Handles
    <3>3. Unloaded(x1.d, y.d) /\ y.d.power_enabled = x1.d.power_enabled
      BY <3>2, GetStep
    <3>4. Q(y) /\ Good(y.d) /\ y.d.res \subseteq Handles
      BY <1>5, <3>3, UnloadedTrans DEF Unloaded, Loads
    <3>5. CASE y.ok
      BY <3>1, <3>4, <3>5
    <3>6. CASE ~y.ok
      <4>1. x2.d = deinit_resources(y.d) /\ ~x2.ok
        BY <3>1, <3>6, Outcome
      <4>2. Unloaded(y.d, x2.d) /\ x2.d.res = {} /\ x2.d.power_enabled = y.d.power_enabled
        BY <3>4, <4>1, DeinitUnloaded
      <4> QED BY <3>4, <4>2, UnloadedTrans
    <3> QED BY <3>5, <3>6
  <2>2. CASE ~x1.ok
    BY <1>2, <1>5, <2>2
  <2> QED BY <2>1, <2>2
<1>7. CASE x2.ok
  <2>1. o \in Get(x2.d, "subcaches")
    BY <1>1, <1>7 DEF init_subcaches
  <2>2. Good(x2.d) /\ x2.d.res \subseteq Handles /\ "subcaches" \in Handles
    BY <1>6 DEF Unloaded, Loads, Handles
  <2>3. /\ Unloaded(x2.d, o.d) /\ o.d.power_enabled = x2.d.power_enabled
        /\ (~o.ok => "subcaches" \in o.d.faults)
    BY <2>1, <2>2, GetStep
  <2> QED BY <1>6, <2>3, UnloadedTrans
<1>8. CASE ~x2.ok
  BY <1>1, <1>6, <1>8
<1> QED BY <1>7, <1>8

\* What a failed load may leave behind: nothing, unless the cause is one of
\* three, or it was there before.
Undone(d, e) ==
    /\ Loads(d, e) /\ e.state = "DEINIT" /\ e.fw = FALSE
    /\ e.power_enabled => d.power_enabled \/ "synx" \in e.faults
    /\ e.res # {} => d.res # {} \/ e.faults \cap {"synx", "load", "subcaches"} # {}

LEMMA PowerOnInitStep ==
    ASSUME NEW t, NEW d, Good(d), d.res \subseteq Handles, d.state = "DEINIT", d.fw = FALSE,
           NEW o \in power_on_init(t, d)
    PROVE  IF o.ok THEN Unloaded(d, o.d) /\ o.d.power_enabled ELSE Undone(d, o.d)
<1>1. PICK x \in init_resources(t, d) :
        IF x.ok THEN o \in OnError(iris_power_on(t, x.d), LAMBDA f : {deinit_resources(f)})
        ELSE o = x
  BY DEF power_on_init, Then
<1>2. /\ Unloaded(d, x.d) /\ x.d.power_enabled = d.power_enabled
      /\ ~x.ok => x.d.res \subseteq d.res \/ "subcaches" \in x.d.faults
  BY InitResourcesStep
<1>3. CASE x.ok
  <2>1. PICK y \in iris_power_on(t, x.d) : IF y.ok THEN o = y ELSE o = Err(deinit_resources(y.d))
    BY <1>1, <1>3 DEF OnError
  <2>2. Good(x.d) /\ x.d.res \subseteq Handles
    BY <1>2 DEF Unloaded, Loads
  <2>3. Kept(x.d, y.d) /\ (y.ok <=> y.d.power_enabled)
    BY <2>2, PowerOnKept
  <2>4. Unloaded(x.d, y.d)
    BY <2>2, <2>3, KeptLoads DEF Unloaded, Kept
  <2>5. Unloaded(d, y.d) /\ Good(y.d) /\ y.d.res \subseteq Handles
    BY <1>2, <2>4, UnloadedTrans DEF Unloaded, Loads
  <2>6. CASE y.ok
    BY <2>1, <2>3, <2>5, <2>6
  <2>7. CASE ~y.ok
    <3>1. o.d = deinit_resources(y.d) /\ ~o.ok
      BY <2>1, <2>7, Outcome
    <3>2. Unloaded(y.d, o.d) /\ o.d.res = {} /\ o.d.power_enabled = y.d.power_enabled
      BY <2>5, <3>1, DeinitUnloaded
    <3>3. Unloaded(d, o.d)
      BY <2>5, <3>2, UnloadedTrans
    <3> QED BY <2>3, <2>7, <3>1, <3>2, <3>3 DEF Undone, Unloaded
  <2> QED BY <2>6, <2>7
<1>4. CASE ~x.ok
  BY <1>1, <1>2, <1>4 DEF Undone, Unloaded
<1> QED BY <1>3, <1>4

\* What a load ends in: a device that is on and has its pm work queued.
LoadedFrom(d, e) ==
    /\ Good(e) /\ e.state = "INIT" /\ e.power_enabled = TRUE /\ e.queued = TRUE /\ e.fw = TRUE
    /\ e.inits = d.inits /\ d.faults \subseteq e.faults /\ e.skip \in {d.skip, 0}
    /\ Pending(e) = Pending(d) /\ (e.wd => d.wd)
    /\ e.res \subseteq Handles
    /\ e.isset => e.told \/ d.isset
    /\ e.sub => e.isset

\* The goto labels of iris_hfi_core_init.
LEMMA UndoneStep ==
    ASSUME NEW t, NEW d, NEW f, Loads(d, f), f.fw \in BOOLEAN,
           ~f.fw => /\ f.power_enabled => d.power_enabled \/ "synx" \in f.faults
                    /\ f.res # {} => d.res # {} \/ f.faults \cap {"synx", "load", "subcaches"} # {},
           NEW e \in err_core_init(t, f)
    PROVE  Undone(d, e)
<1>1. Good(f) /\ f.res \subseteq Handles
  BY DEF Loads
<1>2. /\ Loads(f, e) /\ e.state = "DEINIT" /\ e.fw = FALSE
      /\ IF f.fw THEN e.res = {} /\ e.power_enabled = FALSE
         ELSE e.res = f.res /\ e.power_enabled = f.power_enabled
  BY <1>1, ErrCoreInitStep
<1>3. Loads(d, e) /\ f.faults \subseteq e.faults
  BY <1>2, LoadsTrans DEF Loads
<1> QED BY <1>2, <1>3 DEF Undone

LEMMA ErrInitQueuesStep ==
    ASSUME NEW t, NEW d, NEW f, Loads(d, f), f.fw = FALSE, NEW e \in err_init_queues(t, f)
    PROVE  Undone(d, e)
<1>1. PICK p \in power_off_iris2(t, f) : e \in err_core_init(t, deinit_resources(p))
  BY DEF err_init_queues
<1>2. Good(f) /\ f.res \subseteq Handles
  BY DEF Loads
<1>3. Kept(f, p) /\ p.power_enabled = FALSE
  BY <1>2, PowerOffKept
<1>4. Loads(d, p) /\ Good(p) /\ p.res \subseteq Handles /\ p.fw = FALSE
  BY <1>2, <1>3, KeptLoads, LoadsTrans DEF Kept
<1> DEFINE q == deinit_resources(p)
<1>5. Loads(p, q) /\ q.res = {} /\ q.power_enabled = FALSE /\ q.fw = FALSE
  BY <1>3, <1>4, DeinitStep
<1> HIDE DEF q
<1>6. Loads(d, q)
  BY <1>4, <1>5, LoadsTrans
<1>7. e \in err_core_init(t, q)
  BY <1>1 DEF q
<1> QED BY <1>5, <1>6, <1>7, UndoneStep

LEMMA LoadFwStep ==
    ASSUME NEW t, NEW d, Good(d), d.res \subseteq Handles, d.fw = FALSE, d.power_enabled,
           NEW o \in load_fw(t, d)
    PROVE  /\ Loads(d, o.d) /\ o.d.state = d.state
           /\ IF o.ok THEN o.d.fw = TRUE /\ o.d.power_enabled
              ELSE o.d.fw = FALSE /\ o.d.power_enabled = FALSE /\ "load" \in o.d.faults
<1> DEFINE S == OnError(May(d, "load"), LAMBDA e : power_off_iris2(t, e))
<1>1. PICK x \in S : IF x.ok THEN o = Ok([x.d EXCEPT !.fw = TRUE]) ELSE o = x
  BY DEF load_fw, Then
<1>2. PICK y \in May(d, "load") : IF y.ok THEN x = y ELSE \E f \in power_off_iris2(t, y.d) : x = Err(f)
  BY <1>1 DEF OnError
<1> HIDE DEF S
<1>3. IsDev(d)
  BY DEF Good
<1>4. Kept(d, y.d) /\ y.d.power_enabled = d.power_enabled /\ (~y.ok => "load" \in y.d.faults)
  BY <1>3, MaySame, SameKept
<1>5. CASE y.ok
  <2> DEFINE g == [y.d EXCEPT !.fw = TRUE]
  <2>1. /\ IsDev(g) /\ g.fw = TRUE /\ g.power_enabled = d.power_enabled
        /\ g.depth = y.d.depth /\ g.wd = y.d.wd /\ g.faults = y.d.faults
        /\ g.state = d.state /\ g.res = d.res /\ g.inits = d.inits /\ g.isset = d.isset
        /\ g.sub = d.sub /\ g.skip = y.d.skip
    BY <1>4 DEF Kept, Good, IsDev, Fields
  <2>2. o.ok /\ o.d = g
    BY <1>1, <1>2, <1>5, Outcome
  <2> HIDE DEF g
  <2>3. Good(g) /\ Pending(g) = Pending(d)
    BY <1>4, <2>1 DEF Kept, Good, Pending
  <2>4. Loads(d, g)
    BY <1>4, <2>1, <2>3 DEF Kept, Loads
  <2> QED BY <2>1, <2>2, <2>4
<1>6. CASE ~y.ok
  <2>1. PICK f \in power_off_iris2(t, y.d) : x = Err(f)
    BY <1>2, <1>6
  <2>2. o.d = f /\ ~o.ok
    BY <1>1, <2>1, Outcome
  <2>0. Good(y.d)
    BY <1>4 DEF Kept
  <2>3. Kept(y.d, f) /\ f.power_enabled = FALSE
    BY <2>0, PowerOffKept
  <2>4. Kept(d, f) /\ "load" \in f.faults
    BY <1>4, <1>6, <2>3, KeptTrans DEF Kept
  <2> QED BY <2>2, <2>3, <2>4, KeptLoads DEF Kept
<1> QED BY <1>5, <1>6

LEMMA CoreInitStep ==
    ASSUME NEW t, NEW d, Good(d), d.res \subseteq Handles, d.state = "DEINIT", d.fw = FALSE,
           NEW o \in iris_hfi_core_init(t, d)
    PROVE  Undone(d, o.d) \/ LoadedFrom(d, o.d)
<1> DEFINE synx(e) == OnError(May(e, "synx"), LAMBDA f : err_core_init(t, f))
           queues(e) == OnError(May([e EXCEPT !.state = "INIT", !.reg_dumped = FALSE], "queues"),
                                LAMBDA f : err_init_queues(t, f))
           load(e) == OnError(Then(load_fw(t, e), LAMBDA f : boot_firmware(t, f)),
                              LAMBDA f : err_core_init(t, f))
           sys_init(e) == OnError(May(e, "sys_init"), LAMBDA f : err_core_init(t, f))
           running(e) == {Ok([f EXCEPT !.skip = 0]) :
                            f \in UNION {set_subcaches(g) : g \in enable_subcaches(write_cmd(e, "other"))}}
           s0 == [d EXCEPT !.data = TRUE]
           S0 == power_on_init(t, s0)
           S1 == Then(S0, synx)
           S2 == Then(S1, queues)
           S3 == Then(S2, load)
           S4 == Then(S3, sys_init)
           Up(x, st, loaded) == /\ Loads(d, x) /\ x.power_enabled /\ x.state = st /\ x.fw = loaded
<1>0. /\ Good(s0) /\ Loads(d, s0) /\ s0.res = d.res /\ s0.state = "DEINIT" /\ s0.fw = FALSE
      /\ s0.power_enabled = d.power_enabled /\ s0.faults = d.faults
  BY DEF Good, Loads, Pending, IsDev, Fields
<1>1. PICK x4 \in S4 : IF x4.ok THEN o \in running(x4.d) ELSE o = x4
  BY DEF iris_hfi_core_init, Then
<1>2. PICK x3 \in S3 : IF x3.ok THEN x4 \in sys_init(x3.d) ELSE x4 = x3
  BY <1>1 DEF Then
<1>3. PICK x2 \in S2 : IF x2.ok THEN x3 \in load(x2.d) ELSE x3 = x2
  BY <1>2 DEF Then
<1>4. PICK x1 \in S1 : IF x1.ok THEN x2 \in queues(x1.d) ELSE x2 = x1
  BY <1>3 DEF Then
<1>5. PICK x0 \in S0 : IF x0.ok THEN x1 \in synx(x0.d) ELSE x1 = x0
  BY <1>4 DEF Then
<1> HIDE DEF S1, S2, S3, S4, synx, queues, load, sys_init, running, s0
<1>6. IF x0.ok THEN Up(x0.d, "DEINIT", FALSE) ELSE Undone(d, x0.d)
  <2>1. IF x0.ok THEN Unloaded(s0, x0.d) /\ x0.d.power_enabled ELSE Undone(s0, x0.d)
    BY <1>0, <1>5, PowerOnInitStep
  <2>2. CASE x0.ok
    BY <1>0, <2>1, <2>2, LoadsTrans DEF Unloaded
  <2>3. CASE ~x0.ok
    BY <1>0, <2>1, <2>3, LoadsTrans DEF Undone
  <2> QED BY <2>2, <2>3
<1>7. IF x1.ok THEN Up(x1.d, "DEINIT", FALSE) ELSE Undone(d, x1.d)
  <2>1. CASE x0.ok
    <3>1. PICK y \in May(x0.d, "synx") : IF y.ok THEN x1 = y ELSE \E f \in err_core_init(t, y.d) : x1 = Err(f)
      BY <1>5, <2>1 DEF synx, OnError
    <3>2. Good(x0.d) /\ IsDev(x0.d) /\ x0.d.res \subseteq Handles
      BY <1>6, <2>1 DEF Loads, Good
    <3>3. Kept(x0.d, y.d) /\ y.d.power_enabled = x0.d.power_enabled /\ (~y.ok => "synx" \in y.d.faults)
      BY <3>2, MaySame, SameKept
    <3>4. Up(y.d, "DEINIT", FALSE)
      BY <1>6, <2>1, <3>2, <3>3, KeptLoads, LoadsTrans DEF Kept
    <3>5. CASE y.ok
      BY <3>1, <3>4, <3>5
    <3>6. CASE ~y.ok
      <4>1. PICK f \in err_core_init(t, y.d) : x1 = Err(f)
        BY <3>1, <3>6
      <4>2. "synx" \in y.d.faults \cap {"synx", "load", "subcaches"}
        BY <3>3, <3>6
      <4>3. Undone(d, f)
        BY <3>4, <4>2, UndoneStep
      <4> QED BY <4>1, <4>3, Outcome
    <3> QED BY <3>5, <3>6
  <2>2. CASE ~x0.ok
    BY <1>5, <1>6, <2>2
  <2> QED BY <2>1, <2>2
<1>8. IF x2.ok THEN Up(x2.d, "INIT", FALSE) ELSE Undone(d, x2.d)
  <2>1. CASE x1.ok
    <3> DEFINE i == [x1.d EXCEPT !.state = "INIT", !.reg_dumped = FALSE]
    <3>1. PICK y \in May(i, "queues") : IF y.ok THEN x2 = y ELSE \E f \in err_init_queues(t, y.d) : x2 = Err(f)
      BY <1>4, <2>1 DEF queues, OnError
    <3>2. Up(i, "INIT", FALSE) /\ Good(i) /\ IsDev(i) /\ i.res \subseteq Handles
      BY <1>7, <2>1 DEF Loads, Good, Pending, IsDev, Fields
    <3> HIDE DEF i
    <3>3. Kept(i, y.d) /\ y.d.power_enabled = i.power_enabled
      BY <3>2, MaySame, SameKept
    <3>4. Up(y.d, "INIT", FALSE)
      BY <3>2, <3>3, KeptLoads, LoadsTrans DEF Kept
    <3>5. CASE y.ok
      BY <3>1, <3>4, <3>5
    <3>6. CASE ~y.ok
      <4>1. PICK f \in err_init_queues(t, y.d) : x2 = Err(f)
        BY <3>1, <3>6
      <4>2. Undone(d, f)
        BY <3>4, ErrInitQueuesStep
      <4> QED BY <4>1, <4>2, Outcome
    <3> QED BY <3>5, <3>6
  <2>2. CASE ~x1.ok
    BY <1>4, <1>7, <2>2
  <2> QED BY <2>1, <2>2
<1>9. IF x3.ok THEN Up(x3.d, "INIT", TRUE) ELSE Undone(d, x3.d)
  <2>1. CASE x2.ok
    <3> DEFINE B == Then(load_fw(t, x2.d), LAMBDA f : boot_firmware(t, f))
    <3>1. PICK y \in B : IF y.ok THEN x3 = y ELSE \E f \in err_core_init(t, y.d) : x3 = Err(f)
      BY <1>3, <2>1 DEF load, OnError
    <3>2. PICK z \in load_fw(t, x2.d) : IF z.ok THEN y \in boot_firmware(t, z.d) ELSE y = z
      BY <3>1 DEF Then
    <3> HIDE DEF B
    <3>3. Good(x2.d) /\ x2.d.res \subseteq Handles /\ x2.d.fw = FALSE /\ x2.d.power_enabled
      BY <1>8, <2>1 DEF Loads
    <3>4. /\ Loads(x2.d, z.d) /\ z.d.state = x2.d.state
          /\ IF z.ok THEN z.d.fw = TRUE /\ z.d.power_enabled
             ELSE z.d.fw = FALSE /\ z.d.power_enabled = FALSE /\ "load" \in z.d.faults
      BY <3>2, <3>3, LoadFwStep
    <3>5. Loads(d, z.d) /\ z.d.state = "INIT" /\ Good(z.d) /\ IsDev(z.d) /\ z.d.res \subseteq Handles
      BY <1>8, <2>1, <3>4, LoadsTrans DEF Loads, Good
    <3>6. CASE z.ok
      <4>1. Kept(z.d, y.d) /\ y.d.power_enabled = z.d.power_enabled
        BY <3>2, <3>5, <3>6, BootSame, SameKept
      <4>2. Up(y.d, "INIT", TRUE)
        BY <3>4, <3>5, <3>6, <4>1, KeptLoads, LoadsTrans DEF Kept
      <4>3. CASE y.ok
        BY <3>1, <4>2, <4>3
      <4>4. CASE ~y.ok
        <5>1. PICK f \in err_core_init(t, y.d) : x3 = Err(f)
          BY <3>1, <4>4
        <5>2. Undone(d, f)
          BY <4>2, UndoneStep
        <5> QED BY <5>1, <5>2, Outcome
      <4> QED BY <4>3, <4>4
    <3>7. CASE ~z.ok
      <4>1. y = z
        BY <3>2, <3>7
      <4>2. PICK f \in err_core_init(t, z.d) : x3 = Err(f)
        BY <3>1, <3>7, <4>1
      <4>3. "load" \in z.d.faults \cap {"synx", "load", "subcaches"}
        BY <3>4, <3>7
      <4>4. Undone(d, f)
        BY <3>4, <3>5, <3>7, <4>3, UndoneStep
      <4> QED BY <4>2, <4>4, Outcome
    <3> QED BY <3>6, <3>7
  <2>2. CASE ~x2.ok
    BY <1>3, <1>8, <2>2
  <2> QED BY <2>1, <2>2
<1>10. IF x4.ok THEN Up(x4.d, "INIT", TRUE) ELSE Undone(d, x4.d)
  <2>1. CASE x3.ok
    <3>1. PICK y \in May(x3.d, "sys_init") : IF y.ok THEN x4 = y ELSE \E f \in err_core_init(t, y.d) : x4 = Err(f)
      BY <1>2, <2>1 DEF sys_init, OnError
    <3>2. Good(x3.d) /\ IsDev(x3.d) /\ x3.d.res \subseteq Handles
      BY <1>9, <2>1 DEF Loads, Good
    <3>3. Kept(x3.d, y.d) /\ y.d.power_enabled = x3.d.power_enabled
      BY <3>2, MaySame, SameKept
    <3>4. Up(y.d, "INIT", TRUE)
      BY <1>9, <2>1, <3>2, <3>3, KeptLoads, LoadsTrans DEF Kept
    <3>5. CASE y.ok
      BY <3>1, <3>4, <3>5
    <3>6. CASE ~y.ok
      <4>1. PICK f \in err_core_init(t, y.d) : x4 = Err(f)
        BY <3>1, <3>6
      <4>2. Undone(d, f)
        BY <3>4, UndoneStep
      <4> QED BY <4>1, <4>2, Outcome
    <3> QED BY <3>5, <3>6
  <2>2. CASE ~x3.ok
    BY <1>2, <1>9, <2>2
  <2> QED BY <2>1, <2>2
<1>11. CASE x4.ok
  <2>1. PICK g \in enable_subcaches(write_cmd(x4.d, "other")) :
          \E f \in set_subcaches(g) : o = Ok([f EXCEPT !.skip = 0])
    BY <1>1, <1>11 DEF running
  <2>2. PICK f \in set_subcaches(g) : o = Ok([f EXCEPT !.skip = 0])
    BY <2>1
  <2>3. Good(x4.d) /\ x4.d.power_enabled = TRUE
    BY <1>10, <1>11 DEF Loads, Good
  <2>4. Running(x4.d, o.d)
    <3>1. Running(x4.d, [f EXCEPT !.skip = 0])
      BY <2>3, RunningStep
    <3>2. o.d = [f EXCEPT !.skip = 0]
      BY <2>2, Outcome
    <3> QED BY <3>1, <3>2
  <2> DEFINE q == [x4.d EXCEPT !.queued = TRUE]
  <2>5. /\ q.queued = TRUE /\ q.state = x4.d.state /\ q.res = x4.d.res /\ q.fw = x4.d.fw
        /\ q.inits = x4.d.inits /\ q.faults = x4.d.faults /\ q.isset = x4.d.isset
        /\ q.skip = x4.d.skip /\ q.depth = x4.d.depth /\ q.wd = x4.d.wd /\ q.power_enabled = x4.d.power_enabled
    BY <2>3 DEF Good, IsDev, Fields
  <2>6. Cached(q, o.d) /\ o.d.power_enabled = TRUE
    BY <2>4 DEF Running
  <2> HIDE DEF q
  <2>7. Pending(q) = Pending(x4.d)
    BY <2>5 DEF Pending
  <2> QED BY <1>10, <1>11, <2>5, <2>6, <2>7 DEF Cached, LoadedFrom, Loads
<1>12. CASE ~x4.ok
  BY <1>1, <1>10, <1>12
<1> QED BY <1>11, <1>12

\* What a release ends in.
Freed(d, e) ==
    /\ Good(e) /\ e.state = "DEINIT" /\ e.power_enabled = FALSE /\ e.fw = FALSE /\ e.res = {}
    /\ e.inits = d.inits /\ d.faults \subseteq e.faults
    /\ e.sub = FALSE /\ e.skip \in {d.skip, 0}
    /\ Pending(e) = Pending(d) /\ (e.wd => d.wd)

LEMMA ReleaseStep ==
    ASSUME NEW t, NEW d, Good(d), d.res \subseteq Handles, d.state = "INIT", d.fw = TRUE,
           NEW e \in iris_hfi_core_release(t, d)
    PROVE  Freed(d, e)
<1> DEFINE off(x) == Run(t, disable_subcaches([x EXCEPT !.state = "DEINIT"]), <<Reg("ctl")>>)
           P(x) == /\ Good(x) /\ x.fw = TRUE /\ x.res \subseteq Handles
                   /\ x.inits = d.inits /\ d.faults \subseteq x.faults /\ x.skip \in {d.skip, 0}
                   /\ Pending(x) = Pending(d) /\ (x.wd => d.wd)
<1>1. PICK o \in resume(t, d) : e \in unload_fw(t, off(o.d))
  BY DEF iris_hfi_core_release
<1>2. P(o.d)
  <2>1. CASE Kept(d, o.d)
    BY <2>1 DEF Kept
  <2>2. CASE Running(d, o.d)
    <3> DEFINE q == [d EXCEPT !.queued = TRUE]
    <3>1. /\ q.res = d.res /\ q.fw = d.fw /\ q.inits = d.inits /\ q.faults = d.faults
          /\ Pending(q) = Pending(d) /\ q.wd = d.wd /\ q.skip = d.skip
      BY DEF Good, Pending, IsDev, Fields
    <3>2. Cached(q, o.d)
      BY <2>2 DEF Running
    <3> HIDE DEF q
    <3> QED BY <3>1, <3>2 DEF Cached
  <2> QED BY <2>1, <2>2, ResumeStep
<1> DEFINE s == disable_subcaches([o.d EXCEPT !.state = "DEINIT"])
<1>3. P(s) /\ s.state = "DEINIT" /\ s.sub = FALSE /\ IsDev(s)
  BY <1>2 DEF disable_subcaches, Good, Pending, IsDev, Fields
<1>4. off(o.d) = Run(t, s, <<Reg("ctl")>>)
  OBVIOUS
<1> HIDE DEF s, off
<1> DEFINE r == Run(t, s, <<Reg("ctl")>>)
<1>5. Kept(s, r)
  BY <1>3, RunSame, SameKept
<1> HIDE DEF r
<1>6. P(r) /\ r.state = "DEINIT" /\ r.sub = FALSE
  BY <1>3, <1>5 DEF Kept
<1>7. e \in unload_fw(t, r)
  BY <1>1, <1>4 DEF r
<1>8. Loads(r, e) /\ e.res = {} /\ e.power_enabled = FALSE /\ e.state = r.state /\ e.fw = FALSE
  BY <1>6, <1>7, UnloadStep
<1> QED BY <1>6, <1>8 DEF Loads, Freed

-----------------------------------------------------------------------------
(***************************************************************************)
(* The inductive invariant.  Beside the properties themselves it says that *)
(* a watchdog bit belongs to a device that is on and to no handler that is *)
(* still to read the messages; that a loaded device has firmware; that a   *)
(* collapse which came back with 0, with an error or not at all leaves a   *)
(* powered device with its pm work, and with which fault otherwise; and    *)
(* that sys_cache_res_set is older than the firmware only after a reload.  *)
(***************************************************************************)
Handlers == IF isr \in {"woken", "enable"} THEN 1 ELSE 0

IrqInv ==
    /\ Good(dev)
    /\ Pending(dev) = Handlers
    /\ isr = "woken" => ~dev.wd
    /\ isr \in {"idle", "woken", "enable", "keep"}

Excused == fatal \/ dev.faults \cap {"tz_suspend", "dsp_einval", "late_cancel"} # {}

StrandInv ==
    /\ pm \in {"idle", "check", "lock"} \cup Codes
    /\ /\ dev.power_enabled /\ dev.state = "INIT" /\ ~dev.queued
       /\ pm \in {"idle", "0", "EINVAL", "other"}
       => Excused

LoadInv ==
    /\ dev.state \in {"INIT", "DEINIT"}
    /\ dev.res \subseteq Handles
    /\ dev.fw \in BOOLEAN /\ (dev.fw <=> dev.state = "INIT")
    /\ DeinitOff

CacheInv ==
    /\ dev.inits \in Int /\ dev.inits <= MaxInit
    /\ dev.isset => dev.inits < MaxInit
    /\ dev.state = "INIT" => dev.inits < MaxInit
    /\ dev.state = "INIT" /\ (dev.sub \/ dev.isset) => dev.told \/ dev.inits < MaxInit - 1

PowerInv == IrqInv /\ StrandInv /\ LoadInv /\ CacheInv

LEMMA PowerInit == Init => PowerInv
<1> SUFFICES ASSUME Init PROVE PowerInv
  OBVIOUS
<1>1. dev = NewDevice(target) /\ pm = "idle" /\ isr = "idle" /\ fatal = FALSE
  BY DEF Init
<1>2. /\ IsDev(dev) /\ dev.power_enabled = FALSE /\ dev.wd = FALSE /\ dev.depth = 1
      /\ dev.state = "DEINIT" /\ dev.queued = FALSE /\ dev.res = {} /\ dev.fw = FALSE
      /\ dev.inits = MaxInit /\ dev.isset = FALSE /\ dev.sub = FALSE
  BY <1>1 DEF NewDevice, IsDev, Fields
<1>3. IrqInv
  <2>1. Pending(dev) = 1 - 1 /\ Handlers = 0
    BY <1>1, <1>2 DEF Pending, Handlers
  <2>2. Pending(dev) = Handlers
    BY <2>1
  <2>3. Good(dev)
    <3>1. dev.depth \in Int
      BY <1>2
    <3>2. dev.power_enabled \in BOOLEAN /\ dev.wd \in BOOLEAN /\ (dev.wd => dev.power_enabled)
      BY <1>2
    <3> QED BY <1>2, <3>1, <3>2 DEF Good
  <2> QED BY <1>1, <1>2, <2>2, <2>3 DEF IrqInv
<1>4. StrandInv
  BY <1>1, <1>2 DEF StrandInv
<1>5. LoadInv
  BY <1>2 DEF LoadInv, DeinitOff, Handles
<1>6. CacheInv
  BY <1>2, PowerAssumption DEF CacheInv
<1> QED BY <1>3, <1>4, <1>5, <1>6 DEF PowerInv

LEMMA PowerImplies == PowerInv => IrqBalanced /\ LoadedExact
<1> SUFFICES ASSUME PowerInv PROVE IrqBalanced /\ LoadedExact
  OBVIOUS
<1>1. IrqBalanced
  <2> DEFINE a == IF dev.power_enabled /\ ~dev.wd THEN 0 ELSE 1
             b == IF isr \in {"woken", "enable"} THEN 1 ELSE 0
  <2>1. dev.depth \in Int /\ dev.depth - a = b /\ a \in Int /\ b \in Int
    BY DEF PowerInv, IrqInv, Good, Pending, Handlers
  <2>2. dev.depth = a + b
    <3> HIDE DEF a, b
    <3> QED BY <2>1
  <2> QED BY <2>2 DEF IrqBalanced
<1>2. NeverStranded
  BY DEF PowerInv, StrandInv, Excused, NeverStranded
<1>3. DeinitOff /\ CacheTold
  BY DEF PowerInv, LoadInv, CacheInv, CacheTold
<1> QED BY <1>1, <1>2, <1>3 DEF LoadedExact

\* A step that leaves the load alone, and may resume the device or shut it.
LEMMA LoadFrame ==
    ASSUME PowerInv, dev'.state = dev.state, dev'.res = dev.res, dev'.fw = dev.fw,
           dev.faults \subseteq dev'.faults,
           dev'.power_enabled => dev.power_enabled \/ dev.state = "INIT"
    PROVE  LoadInv'
<1>1. LoadInv
  BY DEF PowerInv
<1>2. DeinitOff'
  BY <1>1 DEF LoadInv, DeinitOff
<1> QED BY <1>1, <1>2 DEF LoadInv

\* What the actions that take the lock do to the device: but for its interrupt.
Leaves(d, e) ==
    /\ e.state = d.state /\ e.res = d.res /\ e.fw = d.fw /\ e.inits = d.inits
    /\ d.faults \subseteq e.faults
    /\ d.queued => e.queued
    /\ e.power_enabled => d.power_enabled \/ (d.state = "INIT" /\ e.queued)
    /\ e.isset => e.told \/ (d.isset /\ e.told = d.told)
    /\ e.isset => d.isset \/ d.state = "INIT"
    /\ e.sub => (d.sub /\ e.told = d.told /\ e.isset = d.isset) \/ e.isset

Touches(d, e) ==
    /\ Good(e)
    /\ Pending(e) = Pending(d)
    /\ e.wd => d.wd
    /\ Leaves(d, e)

LEMMA CacheFrame ==
    ASSUME PowerInv, Leaves(dev, dev') PROVE CacheInv'
<1>1. /\ dev.inits \in Int /\ dev.inits <= MaxInit
      /\ dev.isset => dev.inits < MaxInit
      /\ dev.state = "INIT" => dev.inits < MaxInit
      /\ dev.state = "INIT" /\ (dev.sub \/ dev.isset) => dev.told \/ dev.inits < MaxInit - 1
  BY DEF PowerInv, CacheInv
<1>2. dev'.inits = dev.inits /\ dev'.state = dev.state
  BY DEF Leaves
<1>3. dev'.isset => dev'.inits < MaxInit
  BY <1>1, <1>2 DEF Leaves
<1>4. dev'.state = "INIT" /\ (dev'.sub \/ dev'.isset) => dev'.told \/ dev'.inits < MaxInit - 1
  BY <1>1, <1>2 DEF Leaves
<1> QED BY <1>1, <1>2, <1>3, <1>4 DEF CacheInv

LEMMA LeavesStep ==
    ASSUME PowerInv, Leaves(dev, dev'), IrqInv', UNCHANGED <<pm, fatal>> PROVE PowerInv'
<1>1. StrandInv'
  <2>1. Excused => Excused'
    BY DEF Excused, Leaves
  <2> QED BY <2>1 DEF PowerInv, StrandInv, Leaves
<1>2. LoadInv'
  BY LoadFrame DEF Leaves
<1> QED BY <1>1, <1>2, CacheFrame DEF PowerInv

LEMMA TouchesIrq ==
    ASSUME PowerInv, Touches(dev, dev'), UNCHANGED isr PROVE IrqInv' /\ Leaves(dev, dev')
  BY DEF PowerInv, IrqInv, Touches, Handlers

LEMMA TouchesStep ==
    ASSUME PowerInv, Touches(dev, dev'), UNCHANGED <<pm, isr, fatal>> PROVE PowerInv'
  BY TouchesIrq, LeavesStep

LEMMA ShutTouches ==
    ASSUME NEW d, NEW e, Shut(d, e) PROVE Touches(d, e)
  BY DEF Shut, Touches, Leaves

LEMMA KeptTouches ==
    ASSUME NEW d, NEW e, Kept(d, e), e.power_enabled => d.power_enabled
    PROVE  Touches(d, e)
  BY DEF Kept, Touches, Leaves

LEMMA RunningTouches ==
    ASSUME NEW d, NEW e, Good(d), d.state = "INIT", Running(d, e) PROVE Touches(d, e)
<1> DEFINE q == [d EXCEPT !.queued = TRUE]
<1>1. /\ q.res = d.res /\ q.fw = d.fw /\ q.inits = d.inits /\ q.faults = d.faults
      /\ Pending(q) = Pending(d) /\ q.wd = d.wd /\ q.queued = TRUE /\ q.state = d.state
      /\ q.isset = d.isset /\ q.told = d.told
  BY DEF Good, Pending, IsDev, Fields
<1>2. Cached(q, e)
  BY DEF Running
<1> HIDE DEF q
<1> QED BY <1>1, <1>2 DEF Cached, Touches, Leaves

LEMMA ResumeTouches ==
    ASSUME NEW t, NEW d, Good(d), NEW o \in resume(t, d)
    PROVE  Touches(d, o.d) /\ (o.ok => o.d.power_enabled)
<1>1. IF d.power_enabled THEN o.ok /\ Kept(d, o.d) /\ o.d.power_enabled = TRUE
      ELSE IF d.state # "INIT" THEN ~o.ok /\ o.d = d
      ELSE IF o.ok THEN Running(d, o.d)
      ELSE Kept(d, o.d) /\ o.d.power_enabled = FALSE
  BY ResumeStep
<1>2. Touches(d, d)
  BY DEF Touches, Leaves
<1>3. Running(d, o.d) => o.d.power_enabled
  BY DEF Running
<1> QED BY <1>1, <1>2, <1>3, KeptTouches, RunningTouches

LEMMA TouchesTrans ==
    ASSUME NEW d, NEW e, NEW f, Touches(d, e), Touches(e, f) PROVE Touches(d, f)
  BY DEF Touches, Leaves

LEMMA InvGood ==
    ASSUME PowerInv PROVE Good(dev) /\ Touches(dev, dev)
  BY DEF PowerInv, IrqInv, StrandInv, Touches, Leaves

-----------------------------------------------------------------------------
\* The actions.

LEMMA SendCommandStep == ASSUME PowerInv, SendCommand PROVE PowerInv'
<1> DEFINE d == [dev EXCEPT !.last = "other", !.sends = @ - 1]
<1>1. PICK o \in resume(target, d) : dev' \in {o.d} \cup (IF o.ok THEN {write_cmd(o.d, "other")} ELSE {})
  BY DEF SendCommand
<1>2. Good(d) /\ Touches(dev, d)
  BY InvGood DEF Good, Touches, Leaves, Pending, IsDev, Fields
<1> HIDE DEF d
<1>3. Touches(dev, o.d)
  BY <1>2, ResumeTouches, TouchesTrans
<1>4. Touches(o.d, write_cmd(o.d, "other"))
  BY <1>3 DEF Touches, Leaves, write_cmd, Good, Pending, IsDev, Fields
<1>5. Touches(dev, dev')
  BY <1>1, <1>3, <1>4, TouchesTrans
<1> QED BY <1>5, TouchesStep DEF SendCommand

LEMMA DspPowerOnStep == ASSUME PowerInv, DspPowerOn PROVE PowerInv'
<1> DEFINE d == [dev EXCEPT !.sends = @ - 1]
<1>1. PICK o \in resume(target, d) : dev' = o.d
  BY DEF DspPowerOn
<1>2. Good(d) /\ Touches(dev, d)
  BY InvGood DEF Good, Touches, Leaves, Pending, IsDev, Fields
<1> HIDE DEF d
<1>3. Touches(dev, dev')
  BY <1>1, <1>2, ResumeTouches, TouchesTrans
<1> QED BY <1>3, TouchesStep DEF DspPowerOn

LEMMA FlushDebugQueueStep == ASSUME PowerInv, FlushDebugQueue PROVE PowerInv'
<1> DEFINE d == [dev EXCEPT !.sends = @ - 1]
<1>1. dev' \in dump_csr(target, d)
  BY DEF FlushDebugQueue
<1>2. Good(d) /\ IsDev(d) /\ Touches(dev, d)
  BY InvGood DEF Good, Touches, Leaves, Pending, IsDev, Fields
<1> HIDE DEF d
<1>3. Kept(d, dev') /\ dev'.power_enabled = d.power_enabled
  BY <1>1, <1>2, DumpSame, SameKept
<1>4. Touches(dev, dev')
  BY <1>2, <1>3, KeptTouches, TouchesTrans
<1> QED BY <1>4, TouchesStep DEF FlushDebugQueue

\* The pm work.
LEMMA PmWorkStep == ASSUME PowerInv, PmWork PROVE PowerInv'
<1>1. /\ dev' = [dev EXCEPT !.queued = FALSE] /\ pm' = "check" /\ UNCHANGED <<isr, fatal>>
  BY DEF PmWork
<1>2. Good(dev) /\ IsDev(dev)
  BY InvGood DEF Good
<1>3. /\ IsDev(dev') /\ dev'.queued = FALSE
      /\ \A f \in Fields : f # "queued" => dev'[f] = dev[f]
  BY <1>1, <1>2 DEF IsDev, Fields
<1>4. /\ dev'.depth = dev.depth /\ dev'.power_enabled = dev.power_enabled /\ dev'.wd = dev.wd
      /\ dev'.state = dev.state /\ dev'.res = dev.res /\ dev'.fw = dev.fw
      /\ dev'.faults = dev.faults /\ dev'.inits = dev.inits /\ dev'.isset = dev.isset
      /\ dev'.sub = dev.sub /\ dev'.told = dev.told
  BY <1>3 DEF Fields
<1>5. IrqInv'
  BY <1>1, <1>2, <1>3, <1>4 DEF PowerInv, IrqInv, Good, Pending, Handlers
<1>6. StrandInv'
  BY <1>1, <1>3 DEF StrandInv
<1>7. LoadInv'
  BY <1>4, LoadFrame
<1>8. CacheInv'
  BY <1>4 DEF PowerInv, CacheInv
<1> QED BY <1>5, <1>6, <1>7, <1>8 DEF PowerInv

LEMMA PmCheckStep == ASSUME PowerInv, PmCheck PROVE PowerInv'
<1>0. Good(dev) /\ IsDev(dev)
  BY InvGood DEF Good
<1>1. CASE dev.skip >= MaxSkip
  <2>1. dev' = [dev EXCEPT !.skip = 0] /\ pm' = "idle" /\ fatal' = TRUE /\ UNCHANGED isr
    BY <1>1 DEF PmCheck
  <2>2. Touches(dev, dev')
    BY <1>0, <2>1 DEF Good, Touches, Leaves, Pending, IsDev, Fields
  <2>3. IrqInv' /\ Leaves(dev, dev')
    BY <2>1, <2>2, TouchesIrq
  <2>4. StrandInv'
    BY <2>1, <2>3 DEF StrandInv, Excused, Leaves
  <2>5. LoadInv'
    BY <2>3, LoadFrame DEF Leaves
  <2> QED BY <2>3, <2>4, <2>5, CacheFrame DEF PowerInv
<1>2. CASE ~(dev.skip >= MaxSkip)
  <2>1. UNCHANGED <<dev, fatal, isr>> /\ pm' = "lock"
    BY <1>2 DEF PmCheck
  <2> QED BY <2>1 DEF PowerInv, IrqInv, StrandInv, LoadInv, CacheInv, DeinitOff, Handlers, Pending, Good
<1> QED BY <1>1, <1>2

LEMMA PmCollapseStep == ASSUME PowerInv, PmCollapse PROVE PowerInv'
<1>0. PICK force \in BOOLEAN : \E o \in power_collapse(target, dev, force) : dev' = o.d /\ pm' = o.rc
  BY DEF PmCollapse
<1>1. PICK o \in power_collapse(target, dev, force) : dev' = o.d /\ pm' = o.rc
  BY <1>0
<1>2. Good(dev) /\ UNCHANGED <<isr, fatal>>
  BY InvGood DEF PmCollapse
<1>3. /\ Shut(dev, dev')
      /\ pm' \in Codes
      /\ pm' = "0" => dev'.power_enabled = FALSE
      /\ pm' = "EINVAL" => dev.state # "INIT" \/ "dsp_einval" \in dev'.faults
      /\ pm' = "other" => "tz_suspend" \in dev'.faults
  BY <1>1, <1>2, CollapseStep
<1>4. Touches(dev, dev')
  BY <1>2, <1>3, ShutTouches
<1>5. IrqInv' /\ Leaves(dev, dev')
  BY <1>2, <1>4, TouchesIrq
<1>6. StrandInv'
  <2>1. ASSUME dev'.power_enabled, dev'.state = "INIT", pm' \in {"idle", "0", "EINVAL", "other"}
        PROVE  Excused'
    <3>1. pm' = "EINVAL" \/ pm' = "other"
      BY <1>3, <2>1 DEF Codes
    <3>2. dev.state = "INIT"
      BY <1>5, <2>1 DEF Leaves
    <3>3. "dsp_einval" \in dev'.faults \/ "tz_suspend" \in dev'.faults
      BY <1>3, <3>1, <3>2
    <3> QED BY <3>3 DEF Excused
  <2> QED BY <1>3, <1>5, <2>1 DEF StrandInv, Leaves
<1>7. LoadInv'
  BY <1>5, LoadFrame DEF Leaves
<1> QED BY <1>5, <1>6, <1>7, CacheFrame DEF PowerInv

\* The pm work is dequeued: what that may lose is a late cancel.
LEMMA CancelStep ==
    ASSUME PowerInv, NEW k,
           \/ dev' = [dev EXCEPT !.queued = FALSE,
                                 !.faults = IF dev.queued /\ dev.power_enabled
                                            THEN @ \cup {"late_cancel"} ELSE @]
           \/ dev' = [dev EXCEPT !.skip = k, !.queued = FALSE,
                                 !.faults = IF dev.queued /\ dev.power_enabled
                                            THEN @ \cup {"late_cancel"} ELSE @],
           UNCHANGED <<isr, fatal>>, pm' = pm \/ (pm = "0" /\ pm' = "idle")
    PROVE  PowerInv'
<1>0. Good(dev) /\ IsDev(dev)
  BY InvGood DEF Good
<1>1. /\ IsDev(dev') /\ dev'.queued = FALSE
      /\ dev'.faults = IF dev.queued /\ dev.power_enabled
                       THEN dev.faults \cup {"late_cancel"} ELSE dev.faults
      /\ dev'.depth = dev.depth /\ dev'.power_enabled = dev.power_enabled /\ dev'.wd = dev.wd
      /\ dev'.state = dev.state /\ dev'.res = dev.res /\ dev'.fw = dev.fw
      /\ dev'.inits = dev.inits /\ dev'.isset = dev.isset
      /\ dev'.sub = dev.sub /\ dev'.told = dev.told
  <2> DEFINE F == IF dev.queued /\ dev.power_enabled
                  THEN dev.faults \cup {"late_cancel"} ELSE dev.faults
  <2> HIDE DEF F
  <2>1. CASE dev' = [dev EXCEPT !.queued = FALSE, !.faults = F]
    BY <1>0, <2>1 DEF IsDev, Fields, F
  <2>2. CASE dev' = [dev EXCEPT !.skip = k, !.queued = FALSE, !.faults = F]
    BY <1>0, <2>2 DEF IsDev, Fields, F
  <2> QED BY <2>1, <2>2 DEF F
<1>2. IrqInv'
  <2>1. Good(dev') /\ Pending(dev') = Pending(dev) /\ Handlers' = Handlers
    BY <1>0, <1>1 DEF Good, Pending, Handlers
  <2> QED BY <1>1, <2>1 DEF PowerInv, IrqInv
<1>3. dev.faults \subseteq dev'.faults
  BY <1>1
<1>4. StrandInv'
  <2>1. ASSUME dev'.power_enabled, dev'.state = "INIT", pm' \in {"idle", "0", "EINVAL", "other"}
        PROVE  Excused'
    <3>1. CASE dev.queued
      BY <1>1, <2>1, <3>1 DEF Excused
    <3>2. CASE ~dev.queued
      <4>1. Excused
        BY <1>1, <2>1, <3>2 DEF PowerInv, StrandInv
      <4> QED BY <1>3, <4>1 DEF Excused
    <3> QED BY <3>1, <3>2
  <2> QED BY <1>1, <2>1 DEF PowerInv, StrandInv
<1>5. LoadInv'
  BY <1>1, <1>3, LoadFrame
<1>6. CacheInv'
  BY <1>1 DEF PowerInv, CacheInv
<1> QED BY <1>2, <1>4, <1>5, <1>6 DEF PowerInv

LEMMA SuspendCancelStep == ASSUME PowerInv, SuspendCancel PROVE PowerInv'
<1>1. /\ dev' = [dev EXCEPT !.queued = FALSE,
                            !.faults = IF dev.queued /\ dev.power_enabled
                                       THEN @ \cup {"late_cancel"} ELSE @]
      /\ UNCHANGED <<isr, fatal, pm>>
  BY DEF SuspendCancel
<1> QED BY <1>1, CancelStep

LEMMA PmDoneStep == ASSUME PowerInv, PmDone PROVE PowerInv'
<1>0. /\ Good(dev) /\ IsDev(dev)
      /\ pm \in Codes /\ pm' = "idle" /\ UNCHANGED <<isr, fatal>>
  BY InvGood DEF Good, PmDone
<1>1. CASE pm = "0"
  <2>1. dev' = [dev EXCEPT !.skip = 0, !.queued = FALSE,
                           !.faults = IF dev.queued /\ dev.power_enabled
                                      THEN @ \cup {"late_cancel"} ELSE @]
    BY <1>1 DEF PmDone
  <2> QED BY <1>0, <1>1, <2>1, CancelStep
<1>2. CASE pm \in {"EBUSY", "EAGAIN"}
  <2>1. \E k : dev' = [dev EXCEPT !.skip = k, !.queued = TRUE]
    <3>1. CASE pm = "EBUSY"
      <4>1. dev' = [dev EXCEPT !.skip = 0, !.queued = TRUE]
        BY <3>1 DEF PmDone
      <4> QED BY <4>1
    <3>2. CASE pm = "EAGAIN"
      <4>1. dev' = [dev EXCEPT !.skip = dev.skip + 1, !.queued = TRUE]
        BY <3>2 DEF PmDone
      <4> QED BY <4>1
    <3> QED BY <1>2, <3>1, <3>2
  <2>2. Touches(dev, dev') /\ dev'.queued = TRUE
    BY <1>0, <2>1 DEF Good, Touches, Leaves, Pending, IsDev, Fields
  <2>3. IrqInv' /\ Leaves(dev, dev')
    BY <1>0, <2>2, TouchesIrq
  <2>4. StrandInv'
    BY <1>0, <2>2 DEF StrandInv
  <2>5. LoadInv'
    BY <2>3, LoadFrame DEF Leaves
  <2> QED BY <2>3, <2>4, <2>5, CacheFrame DEF PowerInv
<1>3. CASE pm \in {"EINVAL", "other"}
  <2>1. dev' = dev
    BY <1>3 DEF PmDone
  <2>2. Touches(dev, dev')
    BY <2>1, InvGood
  <2>3. IrqInv' /\ Leaves(dev, dev')
    BY <1>0, <2>2, TouchesIrq
  <2>4. StrandInv'
    BY <1>0, <1>3, <2>1 DEF PowerInv, StrandInv, Excused
  <2>5. LoadInv'
    BY <2>3, LoadFrame DEF Leaves
  <2> QED BY <2>3, <2>4, <2>5, CacheFrame DEF PowerInv
<1> QED BY <1>0, <1>1, <1>2, <1>3 DEF Codes

LEMMA SuspendActionStep == ASSUME PowerInv, Suspend PROVE PowerInv'
<1>1. PICK o \in power_collapse(target, dev, TRUE) : dev' = o.d
  BY DEF Suspend
<1>2. Good(dev)
  BY InvGood
<1>3. Shut(dev, dev')
  BY <1>1, <1>2, CollapseStep
<1>4. Touches(dev, dev')
  BY <1>2, <1>3, ShutTouches
<1> QED BY <1>4, TouchesStep DEF Suspend

\* The interrupt.
LEMMA IsrStep == ASSUME PowerInv, Isr PROVE PowerInv'
<1>0. /\ Good(dev) /\ IsDev(dev)
      /\ dev.power_enabled /\ dev.depth = 0 /\ isr = "idle" /\ isr' = "woken"
      /\ dev' = [dev EXCEPT !.depth = 1, !.sends = @ - 1] /\ UNCHANGED <<pm, fatal>>
  BY InvGood DEF Good, Isr
<1>1. Pending(dev) = 0
  BY <1>0 DEF PowerInv, IrqInv, Handlers
<1>2. ~dev.wd
  BY <1>0, <1>1 DEF Pending
<1>3. /\ IsDev(dev') /\ dev'.depth = 1 /\ dev'.power_enabled = dev.power_enabled /\ dev'.wd = dev.wd
      /\ Leaves(dev, dev')
  BY <1>0 DEF Leaves, IsDev, Fields
<1>4. Pending(dev') = 1 /\ Handlers' = 1
  BY <1>0, <1>2, <1>3 DEF Pending, Handlers
<1>5. IrqInv'
  <2>1. Good(dev')
    <3>1. dev'.depth \in Int
      BY <1>3
    <3>2. dev'.power_enabled \in BOOLEAN /\ dev'.wd \in BOOLEAN /\ (dev'.wd => dev'.power_enabled)
      BY <1>0, <1>3 DEF Good
    <3> QED BY <1>3, <3>1, <3>2 DEF Good
  <2> QED BY <1>0, <1>2, <1>3, <1>4, <2>1 DEF IrqInv
<1> QED BY <1>0, <1>3, <1>5, LeavesStep

LEMMA IrqEndStep == ASSUME PowerInv, IrqEnd PROVE PowerInv'
<1>0. /\ Good(dev) /\ IsDev(dev) /\ isr \in {"enable", "keep"}
      /\ isr' = "idle" /\ UNCHANGED <<pm, fatal>>
      /\ dev' = IF isr = "enable" THEN [dev EXCEPT !.depth = @ - 1] ELSE dev
  BY InvGood DEF Good, IrqEnd
<1>1. Pending(dev) = Handlers /\ dev.depth \in Int
  BY <1>0 DEF PowerInv, IrqInv, Good
<1>2. /\ IsDev(dev') /\ dev'.power_enabled = dev.power_enabled /\ dev'.wd = dev.wd
      /\ Leaves(dev, dev')
      /\ dev'.depth = IF isr = "enable" THEN dev.depth - 1 ELSE dev.depth
  <2>1. CASE isr = "enable"
    BY <1>0, <2>1 DEF Leaves, IsDev, Fields
  <2>2. CASE isr # "enable"
    BY <1>0, <2>2 DEF Leaves
  <2> QED BY <2>1, <2>2
<1>3. Pending(dev') = 0 /\ Handlers' = 0 /\ dev'.depth \in Int
  <2> DEFINE a == IF dev.power_enabled /\ ~dev.wd THEN 0 ELSE 1
  <2>1. Pending(dev) = dev.depth - a /\ Pending(dev') = dev'.depth - a /\ a \in Int
    BY <1>2 DEF Pending
  <2>2. Handlers = (IF isr = "enable" THEN 1 ELSE 0) /\ Handlers' = 0
    BY <1>0 DEF Handlers
  <2> HIDE DEF a
  <2>3. CASE isr = "enable"
    <3>1. dev.depth - a = 1 /\ dev'.depth = dev.depth - 1
      BY <1>1, <1>2, <2>1, <2>2, <2>3
    <3>2. dev'.depth - a = 0 /\ dev'.depth \in Int
      BY <1>1, <2>1, <3>1
    <3> QED BY <2>1, <2>2, <3>2
  <2>4. CASE isr # "enable"
    BY <1>1, <1>2, <2>1, <2>2, <2>4
  <2> QED BY <2>3, <2>4
<1>4. IrqInv'
  BY <1>0, <1>2, <1>3 DEF IrqInv, Good
<1> QED BY <1>0, <1>2, <1>4, LeavesStep

LEMMA IrqWorkStep == ASSUME PowerInv, IrqWork PROVE PowerInv'
<1>0. /\ Good(dev) /\ isr = "woken" /\ UNCHANGED <<pm, fatal>>
      /\ ~dev.wd /\ Pending(dev) = 1
  BY InvGood DEF IrqWork, PowerInv, IrqInv, Handlers
<1> DEFINE R == IF dev.state = "INIT" THEN resume(target, dev) ELSE {Err(dev)}
<1>1. PICK o \in R : \E w \in IF o.ok THEN May(o.d, "wd") ELSE {Ok(o.d)} :
         /\ dev' = IF o.ok THEN [Run(target, w.d, <<Reg("ctl")>>)
                                   EXCEPT !.wd = @ \/ ~w.ok, !.queued = TRUE]
                   ELSE o.d
         /\ isr' = IF dev'.wd THEN "keep" ELSE "enable"
  BY DEF IrqWork
<1>2. PICK w : /\ w \in IF o.ok THEN May(o.d, "wd") ELSE {Ok(o.d)}
               /\ dev' = IF o.ok THEN [Run(target, w.d, <<Reg("ctl")>>)
                                         EXCEPT !.wd = @ \/ ~w.ok, !.queued = TRUE]
                         ELSE o.d
               /\ isr' = IF dev'.wd THEN "keep" ELSE "enable"
  BY <1>1
<1>3. Touches(dev, o.d) /\ (o.ok => o.d.power_enabled)
  <2>1. CASE dev.state = "INIT"
    BY <1>0, <2>1, ResumeTouches
  <2>2. CASE dev.state # "INIT"
    BY <1>1, <2>2, InvGood, Outcome
  <2> QED BY <2>1, <2>2
<1> HIDE DEF R
<1>4. Good(o.d) /\ IsDev(o.d) /\ o.d.wd = FALSE /\ Pending(o.d) = 1
  BY <1>0, <1>3 DEF Touches, Good
<1>5. CASE o.ok
  <2> DEFINE r == Run(target, w.d, <<Reg("ctl")>>)
  <2>1. Same(o.d, w.d) /\ IsDev(w.d)
    BY <1>2, <1>4, <1>5, MaySame DEF Same
  <2>2. Same(o.d, r)
    BY <2>1, RunSame, SameTrans
  <2> HIDE DEF r
  <2>3. dev' = [r EXCEPT !.wd = @ \/ ~w.ok, !.queued = TRUE]
    BY <1>2, <1>5 DEF r
  <2>4. /\ IsDev(dev') /\ dev'.queued = TRUE /\ dev'.wd = (r.wd \/ ~w.ok)
        /\ dev'.depth = o.d.depth /\ dev'.power_enabled = o.d.power_enabled
        /\ dev'.state = o.d.state /\ dev'.res = o.d.res /\ dev'.fw = o.d.fw
        /\ o.d.faults \subseteq dev'.faults /\ dev'.inits = o.d.inits /\ dev'.isset = o.d.isset
        /\ dev'.sub = o.d.sub /\ dev'.told = o.d.told
    BY <2>2, <2>3 DEF Same, IsDev, Fields
  <2>5. dev'.wd \in BOOLEAN
    BY <2>4
  <2>6. Leaves(dev, dev')
    BY <1>3, <2>4 DEF Touches, Leaves
  <2>7. o.d.power_enabled = TRUE /\ o.d.depth \in Int
    BY <1>3, <1>4, <1>5 DEF Good
  <2>8. Pending(o.d) = o.d.depth - 0
    BY <1>4, <2>7 DEF Pending
  <2>9. o.d.depth = 1
    BY <1>4, <2>7, <2>8
  <2>10. Good(dev')
    BY <2>4, <2>5, <2>7 DEF Good
  <2>11. CASE dev'.wd
    <3>1. Pending(dev') = 1 - 1 /\ isr' = "keep"
      BY <1>2, <2>4, <2>9, <2>11 DEF Pending
    <3>2. Pending(dev') = 0 /\ Handlers' = 0
      BY <3>1 DEF Handlers
    <3>3. IrqInv'
      BY <2>10, <3>1, <3>2 DEF IrqInv
    <3> QED BY <1>0, <2>6, <3>3, LeavesStep
  <2>12. CASE ~dev'.wd
    <3>1. Pending(dev') = 1 - 0 /\ isr' = "enable"
      BY <1>2, <2>4, <2>7, <2>9, <2>12 DEF Pending
    <3>2. Pending(dev') = 1 /\ Handlers' = 1
      BY <3>1 DEF Handlers
    <3>3. IrqInv'
      BY <2>10, <3>1, <3>2 DEF IrqInv
    <3> QED BY <1>0, <2>6, <3>3, LeavesStep
  <2> QED BY <2>11, <2>12
<1>6. CASE ~o.ok
  <2>1. dev' = o.d /\ isr' = "enable"
    BY <1>2, <1>4, <1>6
  <2>2. IrqInv' /\ Leaves(dev, dev')
    BY <1>3, <1>4, <2>1 DEF IrqInv, Handlers, Touches
  <2> QED BY <1>0, <2>2, LeavesStep
<1> QED BY <1>5, <1>6

\* Loading and unloading.
LEMMA CoreInitActionStep == ASSUME PowerInv, CoreInit PROVE PowerInv'
<1> DEFINE d == [dev EXCEPT !.inits = @ - 1]
<1>0. /\ dev.state = "DEINIT" /\ fatal' = FALSE /\ UNCHANGED <<pm, isr>>
      /\ \E o \in iris_hfi_core_init(target, d) : dev' = o.d
  BY DEF CoreInit
<1>1. PICK o \in iris_hfi_core_init(target, d) : dev' = o.d
  BY <1>0
<1>2. /\ Good(dev) /\ IsDev(dev) /\ dev.res \subseteq Handles /\ dev.fw = FALSE /\ dev.inits \in Int
      /\ DeinitOff /\ MaxInit \in Int /\ (dev.isset => dev.inits < MaxInit) /\ dev.inits <= MaxInit
  BY <1>0, PowerAssumption DEF PowerInv, IrqInv, LoadInv, CacheInv, Good
<1>3. /\ IsDev(d) /\ d.inits = dev.inits - 1 /\ d.depth = dev.depth /\ d.wd = dev.wd
      /\ d.power_enabled = dev.power_enabled /\ d.state = dev.state /\ d.res = dev.res
      /\ d.fw = dev.fw /\ d.faults = dev.faults /\ d.isset = dev.isset
  BY <1>2 DEF IsDev, Fields
<1> HIDE DEF d
<1>4. Good(d) /\ Pending(d) = Pending(dev)
  BY <1>2, <1>3 DEF Good, Pending
<1>5. Undone(d, dev') \/ LoadedFrom(d, dev')
  BY <1>0, <1>1, <1>2, <1>3, <1>4, CoreInitStep
<1>6. /\ Good(dev') /\ Pending(dev') = Pending(d) /\ (dev'.wd => d.wd) /\ dev'.inits = d.inits
      /\ dev'.res \subseteq Handles /\ dev.faults \subseteq dev'.faults
  BY <1>3, <1>5 DEF Undone, LoadedFrom, Loads
<1>7. IrqInv'
  <2>1. Handlers' = Handlers
    BY <1>0 DEF Handlers
  <2> QED BY <1>0, <1>3, <1>4, <1>6, <2>1 DEF PowerInv, IrqInv
<1>8. CASE Undone(d, dev')
  <2>1. dev'.state = "DEINIT" /\ dev'.fw = FALSE /\ dev'.isset = d.isset
        /\ (dev'.power_enabled => d.power_enabled \/ "synx" \in dev'.faults)
        /\ (dev'.res # {} => d.res # {} \/ dev'.faults \cap {"synx", "load", "subcaches"} # {})
    BY <1>8 DEF Undone, Loads
  <2>2. StrandInv'
    BY <1>0, <2>1 DEF PowerInv, StrandInv
  <2>3. DeinitOff'
    BY <1>0, <1>2, <1>3, <1>6, <2>1 DEF DeinitOff
  <2>4. LoadInv'
    BY <1>6, <2>1, <2>3 DEF LoadInv
  <2>5. CacheInv'
    BY <1>2, <1>3, <1>6, <2>1 DEF CacheInv
  <2> QED BY <1>7, <2>2, <2>4, <2>5 DEF PowerInv
<1>9. CASE LoadedFrom(d, dev')
  <2>1. dev'.state = "INIT" /\ dev'.queued = TRUE /\ dev'.fw = TRUE
        /\ (dev'.isset => dev'.told \/ d.isset) /\ (dev'.sub => dev'.isset)
    BY <1>9 DEF LoadedFrom
  <2>2. StrandInv'
    BY <1>0, <2>1 DEF PowerInv, StrandInv
  <2>3. LoadInv'
    BY <1>6, <2>1 DEF LoadInv, DeinitOff
  <2>4. CacheInv'
    BY <1>2, <1>3, <1>6, <2>1 DEF CacheInv
  <2> QED BY <1>7, <2>2, <2>3, <2>4 DEF PowerInv
<1> QED BY <1>5, <1>8, <1>9

LEMMA CoreReleaseActionStep == ASSUME PowerInv, CoreRelease PROVE PowerInv'
<1>0. /\ dev.state = "INIT" /\ fatal' = FALSE /\ UNCHANGED <<pm, isr>>
      /\ dev' \in iris_hfi_core_release(target, dev)
  BY DEF CoreRelease
<1>1. /\ Good(dev) /\ dev.res \subseteq Handles /\ dev.fw = TRUE /\ dev.inits \in Int
      /\ dev.inits < MaxInit /\ dev.inits <= MaxInit
  BY <1>0 DEF PowerInv, IrqInv, LoadInv, CacheInv
<1>2. /\ Good(dev') /\ dev'.state = "DEINIT" /\ dev'.power_enabled = FALSE /\ dev'.fw = FALSE
      /\ dev'.res = {} /\ dev'.inits = dev.inits
      /\ Pending(dev') = Pending(dev) /\ (dev'.wd => dev.wd)
  <2>1. Freed(dev, dev')
    BY <1>0, <1>1, ReleaseStep
  <2> QED BY <2>1 DEF Freed
<1>3. IrqInv'
  <2>1. Handlers' = Handlers
    BY <1>0 DEF Handlers
  <2> QED BY <1>0, <1>2, <2>1 DEF PowerInv, IrqInv
<1>4. StrandInv'
  BY <1>0, <1>2 DEF PowerInv, StrandInv
<1>5. LoadInv'
  BY <1>2 DEF LoadInv, DeinitOff
<1>6. CacheInv'
  BY <1>1, <1>2 DEF CacheInv
<1> QED BY <1>3, <1>4, <1>5, <1>6 DEF PowerInv

LEMMA PowerNext == PowerInv /\ [Next]_vars => PowerInv'
<1> SUFFICES ASSUME PowerInv, [Next]_vars PROVE PowerInv'
  OBVIOUS
<1>1. CASE Next
  BY <1>1, CoreInitActionStep, CoreReleaseActionStep, SendCommandStep, DspPowerOnStep, PmWorkStep,
     PmCheckStep, PmCollapseStep, PmDoneStep, SuspendActionStep, SuspendCancelStep, IsrStep,
     IrqWorkStep, IrqEndStep, FlushDebugQueueStep DEF Next
<1>2. CASE UNCHANGED vars
  <2>1. UNCHANGED <<dev, pm, isr, fatal>>
    BY <1>2 DEF vars
  <2> QED BY <2>1, TouchesStep, InvGood
<1> QED BY <1>1, <1>2

-----------------------------------------------------------------------------
\* The theorems.

\* PowerInv holds through every sequence of loads, collapses, resumes,
\* interrupts, restarts and failures of them, on every target.
THEOREM PowerInvariant == Spec => []PowerInv
  BY PowerInit, PowerNext, PTL DEF Spec

\* The disable depth of the interrupt is exact: a collapse, a failed resume or
\* a restart between the hard handler and the end of its thread neither loses
\* nor doubles an enable_irq, however many of them there are.
THEOREM InterruptBalanced == Spec => []IrqBalanced
  BY PowerInvariant, PowerImplies, PTL

\* The pm work is pending for a loaded device that is on, a device that is not
\* loaded is off and holds nothing, and the firmware knows of the system cache,
\* with the exceptions that the properties name.
THEOREM LoadIsExact == Spec => []LoadedExact
  BY PowerInvariant, PowerImplies, PTL

-----------------------------------------------------------------------------
(***************************************************************************)
(* What a sequence of operations does to the counts.                       *)
(*                                                                         *)
(* A sequence is followed one operation at a time.  Switching on different *)
(* resources takes one reference on each (Taken), switching them off gives *)
(* one back on each (Released), register accesses change nothing when the  *)
(* domains they reach are lit, and a power on that fails half way gives    *)
(* back what it had taken (Backed), but for what the labels forget.        *)
(***************************************************************************)
\* Run is a fold: the devices after each of its operations.
Steps(t, d, ops, F) ==
    /\ F[0] = d
    /\ \A i \in 1..Len(ops) : F[i] = Do(t, F[i - 1], ops[i])
    /\ Run(t, d, ops) = F[Len(ops)]

LEMMA RunSteps ==
    ASSUME NEW t, NEW d, NEW ops, Len(ops) \in Nat
    PROVE  \E F : Steps(t, d, ops, F)
<1> DEFINE Eq(f, n) == f = [i \in 0..n |-> IF i = 0 THEN d ELSE Do(t, f[i - 1], ops[i])]
           N == Len(ops)
<1>0. N \in Nat
  OBVIOUS
<1> DEFINE S == {n \in Nat : \E f : Eq(f, n)}
<1>1. 0 \in S
  <2>1. Eq([i \in 0..0 |-> d], 0)
    OBVIOUS
  <2> HIDE DEF Eq
  <2> QED BY <2>1
<1>2. ASSUME NEW n \in Nat, n \in S PROVE n + 1 \in S
  <2>1. PICK f : Eq(f, n)
    BY <1>2
  <2> DEFINE g == [i \in 0..n+1 |-> IF i = n + 1 THEN Do(t, f[n], ops[n + 1]) ELSE f[i]]
  <2>2. Eq(g, n + 1)
    BY <2>1
  <2> HIDE DEF Eq, g
  <2> QED BY <2>2
<1>3. N \in S
  <2> HIDE DEF S, N
  <2> QED BY <1>0, <1>1, <1>2, SetInduction
<1> DEFINE F == CHOOSE f : Eq(f, N)
<1>4. Eq(F, N)
  BY <1>3
<1>5. Run(t, d, ops) = F[N]
  BY DEF Run
<1>6. F[0] = d /\ \A i \in 0..N : i > 0 => F[i] = Do(t, F[i - 1], ops[i])
  <2> HIDE DEF F, N
  <2> QED BY <1>0, <1>4
<1> HIDE DEF F, N, Eq
<1>7. \A i \in 1..N : F[i] = Do(t, F[i - 1], ops[i])
  BY <1>0, <1>6
<1>8. Steps(t, d, ops, F)
  BY <1>5, <1>6, <1>7 DEF N, Steps
<1> QED BY <1>8

\* What holds at the start and through every operation holds at the end.
LEMMA RunInduction ==
    ASSUME NEW t, NEW d, NEW ops, Len(ops) \in Nat, NEW Ok1, <<0, d>> \in Ok1,
           \A i \in 1..Len(ops) : \A e : <<i - 1, e>> \in Ok1 => <<i, Do(t, e, ops[i])>> \in Ok1
    PROVE  <<Len(ops), Run(t, d, ops)>> \in Ok1
<1>0. PICK F : Steps(t, d, ops, F)
  BY RunSteps
<1>1. /\ F[0] = d
      /\ \A i \in 1..Len(ops) : F[i] = Do(t, F[i - 1], ops[i])
      /\ Run(t, d, ops) = F[Len(ops)]
  BY <1>0 DEF Steps
<1> DEFINE T == {n \in Nat : n <= Len(ops) => <<n, F[n]>> \in Ok1}
<1>2. 0 \in T
  BY <1>1
<1>3. ASSUME NEW n \in Nat, n \in T PROVE n + 1 \in T
  <2> SUFFICES ASSUME n + 1 <= Len(ops) PROVE <<n + 1, F[n + 1]>> \in Ok1
    OBVIOUS
  <2>1. <<n, F[n]>> \in Ok1 /\ n + 1 \in 1..Len(ops) /\ (n + 1) - 1 = n
    BY <1>3
  <2>2. F[n + 1] = Do(t, F[n], ops[n + 1])
    BY <1>1, <2>1
  <2> QED BY <2>1, <2>2
<1>4. Len(ops) \in T
  <2> HIDE DEF T
  <2> QED BY <1>2, <1>3, SetInduction
<1> QED BY <1>1, <1>4

\* The domains of registers, and the resources of all targets with them.
Doms == {"aon", "ctl", "core"}
Names == {"controller", "controller_pd", "sleep_clk", "core_axi_clock", "cvp_axi_clock", "cvp_clk",
          "cvp_freerun_clk", "cvp_ctl_freerun_clk", "cvp_debug_clk", "eva", "sleep", "core_iface",
          "eva_iface", "eva0", "eva_freerun", "core0", "core_freerun", "core_noc_cx_pd",
          "core_noc_mm_pd", "core_pd", "eva_cc_mvs0_clk_src", "core_clk", "core_freerun_clk",
          "aon", "ctl", "core"}

Op == [do : {"on", "off", "reg"}, arg : Names]

LEMMA RunConcat ==
    ASSUME NEW t, NEW d, NEW a \in Seq(Op), NEW b \in Seq(Op)
    PROVE  Run(t, d, a \o b) = Run(t, Run(t, d, a), b)
<1> DEFINE c == a \o b
           m == Run(t, d, a)
<1>0. /\ Len(a) \in Nat /\ Len(b) \in Nat /\ Len(c) = Len(a) + Len(b)
      /\ \A i \in 1..Len(a) : c[i] = a[i]
      /\ \A i \in 1..Len(b) : c[Len(a) + i] = b[i]
  OBVIOUS
<1> HIDE DEF c, m
<1> PICK F : Steps(t, d, c, F)
  <2>1. Len(c) \in Nat
    BY <1>0
  <2> QED BY <2>1, RunSteps
<1>1. /\ F[0] = d
      /\ \A i \in 1..Len(c) : F[i] = Do(t, F[i - 1], c[i])
      /\ Run(t, d, c) = F[Len(c)]
  BY DEF Steps
<1>2. m = F[Len(a)]
  <2> DEFINE R == {<<i, F[i]>> : i \in 0..Len(a)}
  <2>1. <<0, d>> \in R
    BY <1>0, <1>1
  <2>2. ASSUME NEW i \in 1..Len(a), NEW e, <<i - 1, e>> \in R PROVE <<i, Do(t, e, a[i])>> \in R
    <3>1. e = F[i - 1]
      BY <2>2
    <3>2. F[i] = Do(t, e, a[i])
      BY <1>0, <1>1, <3>1
    <3> QED BY <1>0, <3>2
  <2> HIDE DEF R
  <2>3. <<Len(a), m>> \in R
    BY <1>0, <2>1, <2>2, RunInduction DEF m
  <2> QED BY <2>3 DEF R
<1>3. Run(t, m, b) = F[Len(c)]
  <2> DEFINE R == {<<i, F[Len(a) + i]>> : i \in 0..Len(b)}
  <2>1. <<0, m>> \in R
    BY <1>0, <1>2
  <2>2. ASSUME NEW i \in 1..Len(b), NEW e, <<i - 1, e>> \in R PROVE <<i, Do(t, e, b[i])>> \in R
    <3>1. e = F[Len(a) + (i - 1)]
      BY <2>2
    <3>2. Len(a) + i \in 1..Len(c) /\ Len(a) + (i - 1) = (Len(a) + i) - 1
      BY <1>0
    <3>3. F[Len(a) + i] = Do(t, e, b[i])
      BY <1>0, <1>1, <3>1, <3>2
    <3> QED BY <1>0, <3>3
  <2> HIDE DEF R
  <2>3. <<Len(b), Run(t, m, b)>> \in R
    BY <1>0, <2>1, <2>2, RunInduction
  <2> QED BY <1>0, <2>3 DEF R
<1> QED BY <1>1, <1>3 DEF c, m

\* e differs from d at most in the fields fs.
Only(d, e, fs) == IsDev(e) /\ \A f \in Fields \ fs : e[f] = d[f]

\* The counts of a device, for the resources rs.
Counts(d, rs) == IsDev(d) /\ d.held \in [rs -> Nat]

\* e is d with the resources X switched on.
Taken(d, e, X) ==
    /\ Only(d, e, {"held"})
    /\ e.held = [r \in DOMAIN d.held |-> IF r \in X THEN d.held[r] + 1 ELSE d.held[r]]

\* e is d with the resources X switched off, each once, but for those that jam.
Released(t, d, e, X) ==
    /\ Only(d, e, {"held", "bad", "hwctl", "asleep"})
    /\ e.held = [r \in DOMAIN d.held |->
                   IF r \in X \ d.jam /\ d.held[r] > 0 THEN d.held[r] - 1 ELSE d.held[r]]
    /\ e.bad = d.bad \cup {r \in X \ d.jam : d.held[r] = 0}
    /\ e.hwctl = d.hwctl \ (X \ d.jam)
    /\ e.asleep = (d.asleep /\ CoreGdscs(t)[1] \notin X \ d.jam)

LEMMA PrepareStep ==
    ASSUME NEW R, NEW d, Counts(d, R), NEW r \in R
    PROVE  Taken(d, prepare_enable(d, r), {r}) /\ Counts(prepare_enable(d, r), R)
<1> DEFINE e == prepare_enable(d, r)
<1>1. IsDev(d) /\ d.held \in [R -> Nat]
  BY DEF Counts
<1>2. IsDev(e) /\ e.held = [d.held EXCEPT ![r] = @ + 1] /\ \A f \in Fields \ {"held"} : e[f] = d[f]
  BY <1>1 DEF prepare_enable, IsDev, Fields
<1> HIDE DEF e
<1>3. e.held = [x \in DOMAIN d.held |-> IF x \in {r} THEN d.held[x] + 1 ELSE d.held[x]]
  BY <1>1, <1>2
<1>4. e.held \in [R -> Nat]
  BY <1>1, <1>3
<1> QED BY <1>2, <1>3, <1>4 DEF Taken, Only, Counts, e

LEMMA DisableStep ==
    ASSUME NEW t, NEW R, NEW d, Counts(d, R), d.asleep \in BOOLEAN, NEW r \in R
    PROVE  Released(t, d, disable(t, d, r), {r}) /\ Counts(disable(t, d, r), R)
<1> DEFINE e == disable(t, d, r)
           h == [d EXCEPT !.hwctl = @ \ {r}, !.asleep = @ /\ r # CoreGdscs(t)[1]]
<1>1. IsDev(d) /\ d.held \in [R -> Nat]
  BY DEF Counts
<1>2. CASE r \in d.jam
  <2>1. e = d /\ {r} \ d.jam = {}
    BY <1>2 DEF disable
  <2>2. d.held = [x \in DOMAIN d.held |-> d.held[x]]
    BY <1>1
  <2> HIDE DEF e
  <2>3. Released(t, d, d, {r})
    BY <1>1, <2>1, <2>2 DEF Released, Only
  <2> QED BY <2>1, <2>3 DEF e
<1>3. CASE r \notin d.jam
  <2>1. /\ IsDev(h) /\ \A f \in Fields \ {"hwctl", "asleep"} : h[f] = d[f]
        /\ h.hwctl = d.hwctl \ {r} /\ h.asleep = (d.asleep /\ r # CoreGdscs(t)[1])
    BY <1>1 DEF IsDev, Fields
  <2>0. h.held = d.held /\ h.bad = d.bad /\ h.jam = d.jam
    BY <2>1 DEF Fields
  <2>2. e = IF d.held[r] = 0 THEN [h EXCEPT !.bad = @ \cup {r}] ELSE [h EXCEPT !.held[r] = @ - 1]
    BY <1>3 DEF disable
  <2> HIDE DEF h, e
  <2>3. {r} \ d.jam = {r}
    BY <1>3
  <2>4. e.hwctl = h.hwctl /\ e.asleep = h.asleep /\ Only(h, e, {"held", "bad"})
    BY <2>1, <2>2 DEF IsDev, Fields, Only
  <2>5. Only(d, e, {"held", "bad", "hwctl", "asleep"})
    BY <2>1, <2>4 DEF Only
  <2>6. CASE d.held[r] = 0
    <3>1. e.bad = d.bad \cup {r} /\ e.held = d.held
      BY <2>0, <2>1, <2>2, <2>6 DEF IsDev, Fields
    <3>2. d.held = [x \in DOMAIN d.held |->
                   IF x \in {r} /\ d.held[x] > 0 THEN d.held[x] - 1 ELSE d.held[x]]
      BY <1>1, <2>6
    <3>3. {x \in {r} : d.held[x] = 0} = {r}
      BY <2>6
    <3>4. Released(t, d, e, {r})
      BY <2>1, <2>3, <2>4, <2>5, <3>1, <3>2, <3>3 DEF Released
    <3> QED BY <1>1, <2>5, <3>1, <3>4 DEF Counts, Only, e
  <2>7. CASE d.held[r] # 0
    <3>1. e.bad = d.bad /\ e.held = [d.held EXCEPT ![r] = @ - 1]
      BY <2>0, <2>1, <2>2, <2>7 DEF IsDev, Fields
    <3>2. d.held[r] \in Nat /\ d.held[r] > 0
      BY <1>1, <2>7
    <3>3. e.held = [x \in DOMAIN d.held |->
                   IF x \in {r} /\ d.held[x] > 0 THEN d.held[x] - 1 ELSE d.held[x]]
      BY <1>1, <3>1, <3>2
    <3>4. {x \in {r} : d.held[x] = 0} = {}
      BY <2>7
    <3>5. Released(t, d, e, {r})
      BY <2>1, <2>3, <2>4, <2>5, <3>1, <3>3, <3>4 DEF Released
    <3>6. e.held \in [R -> Nat]
      BY <1>1, <3>1, <3>2
    <3> QED BY <1>1, <2>5, <3>5, <3>6 DEF Counts, Only, e
  <2> QED BY <2>6, <2>7
<1> QED BY <1>2, <1>3

LEMMA TakenNone ==
    ASSUME NEW R, NEW d, Counts(d, R) PROVE Taken(d, d, {})
<1>1. d.held = [x \in DOMAIN d.held |-> d.held[x]] /\ IsDev(d)
  BY DEF Counts
<1> QED BY <1>1 DEF Taken, Only

LEMMA ReleasedNone ==
    ASSUME NEW t, NEW R, NEW d, Counts(d, R), d.asleep \in BOOLEAN PROVE Released(t, d, d, {})
<1>1. d.held = [x \in DOMAIN d.held |-> d.held[x]] /\ IsDev(d)
  BY DEF Counts
<1>2. {} \ d.jam = {}
  OBVIOUS
<1> QED BY <1>1, <1>2 DEF Released, Only

LEMMA TakenTrans ==
    ASSUME NEW R, NEW d, Counts(d, R), NEW e, NEW f, NEW X, NEW Y, X \cap Y = {},
           Taken(d, e, X), Taken(e, f, Y)
    PROVE  Taken(d, f, X \cup Y)
<1>1. Only(d, f, {"held"})
  BY DEF Taken, Only
<1>2. /\ e.held = [r \in R |-> IF r \in X THEN d.held[r] + 1 ELSE d.held[r]]
      /\ f.held = [r \in DOMAIN e.held |-> IF r \in Y THEN e.held[r] + 1 ELSE e.held[r]]
      /\ d.held \in [R -> Nat]
  BY DEF Taken, Counts
<1>3. f.held = [r \in R |-> IF r \in X \cup Y THEN d.held[r] + 1 ELSE d.held[r]]
  BY <1>2
<1> QED BY <1>1, <1>2, <1>3 DEF Taken

LEMMA ReleasedTrans ==
    ASSUME NEW t, NEW R, NEW d, Counts(d, R), NEW e, NEW f, NEW X, NEW Y, X \cap Y = {}, Y \subseteq R,
           Released(t, d, e, X), Released(t, e, f, Y)
    PROVE  Released(t, d, f, X \cup Y)
<1>1. Only(d, f, {"held", "bad", "hwctl", "asleep"})
  BY DEF Released, Only
<1>0. e.jam = d.jam
  BY DEF Released, Only, Fields
<1> DEFINE A == X \ d.jam
           B == Y \ d.jam
<1>2. /\ e.held = [r \in R |-> IF r \in A /\ d.held[r] > 0 THEN d.held[r] - 1 ELSE d.held[r]]
      /\ f.held = [r \in DOMAIN e.held |-> IF r \in B /\ e.held[r] > 0 THEN e.held[r] - 1 ELSE e.held[r]]
      /\ d.held \in [R -> Nat]
  BY <1>0 DEF Released, Counts
<1>3. /\ (X \cup Y) \ d.jam = A \cup B /\ A \cap B = {}
      /\ B \subseteq R
  OBVIOUS
<1>4. /\ e.bad = d.bad \cup {r \in A : d.held[r] = 0} /\ f.bad = e.bad \cup {r \in B : e.held[r] = 0}
      /\ e.hwctl = d.hwctl \ A /\ f.hwctl = e.hwctl \ B
      /\ e.asleep = (d.asleep /\ CoreGdscs(t)[1] \notin A)
      /\ f.asleep = (e.asleep /\ CoreGdscs(t)[1] \notin B)
  BY <1>0 DEF Released
<1> HIDE DEF A, B
<1>5. f.held = [r \in R |-> IF r \in A \cup B /\ d.held[r] > 0 THEN d.held[r] - 1 ELSE d.held[r]]
  BY <1>2, <1>3
<1>6. f.bad = d.bad \cup {r \in A \cup B : d.held[r] = 0}
  <2>1. \A r \in B : e.held[r] = d.held[r]
    BY <1>2, <1>3
  <2> QED BY <1>4, <2>1
<1>7. f.hwctl = d.hwctl \ (A \cup B) /\ f.asleep = (d.asleep /\ CoreGdscs(t)[1] \notin A \cup B)
  BY <1>4
<1>8. DOMAIN d.held = R
  BY <1>2
<1> QED BY <1>1, <1>3, <1>5, <1>6, <1>7, <1>8 DEF Released

\* A sequence of different resources.
Distinct(rs) == rs \in Seq(Names) /\ \A i, j \in 1..Len(rs) : rs[i] = rs[j] => i = j

\* A sequence of accesses to the registers of the domains D.
Regs(ops, D) == ops \in Seq(Op) /\ \A i \in 1..Len(ops) : \E dom \in D : ops[i] = Reg(dom)

LEMMA OnsSeq ==
    ASSUME NEW rs \in Seq(Names)
    PROVE  /\ Ons(rs) \in Seq(Op) /\ Len(Ons(rs)) = Len(rs)
           /\ \A i \in 1..Len(rs) : Ons(rs)[i] = On(rs[i])
<1>1. DOMAIN rs = 1..Len(rs) /\ Len(rs) \in Nat /\ \A i \in 1..Len(rs) : rs[i] \in Names
  OBVIOUS
<1>2. Ons(rs) \in [1..Len(rs) -> Op]
  BY <1>1 DEF Ons, On, Op
<1>3. Ons(rs) \in Seq(Op)
  BY <1>1, <1>2
<1>4. DOMAIN Ons(rs) = 1..Len(rs)
  BY <1>1 DEF Ons
<1> QED BY <1>1, <1>3, <1>4 DEF Ons

LEMMA OffsSeq ==
    ASSUME NEW rs \in Seq(Names)
    PROVE  /\ Offs(rs) \in Seq(Op) /\ Len(Offs(rs)) = Len(rs)
           /\ \A i \in 1..Len(rs) : Offs(rs)[i] = Off(rs[i])
<1>1. DOMAIN rs = 1..Len(rs) /\ Len(rs) \in Nat /\ \A i \in 1..Len(rs) : rs[i] \in Names
  OBVIOUS
<1>2. Offs(rs) \in [1..Len(rs) -> Op]
  BY <1>1 DEF Offs, Off, Op
<1>3. Offs(rs) \in Seq(Op)
  BY <1>1, <1>2
<1>4. DOMAIN Offs(rs) = 1..Len(rs)
  BY <1>1 DEF Offs
<1> QED BY <1>1, <1>3, <1>4 DEF Offs

LEMMA RangeSeq ==
    ASSUME NEW rs \in Seq(Names) PROVE Range(rs) = {rs[i] : i \in 1..Len(rs)}
  BY DEF Range

LEMMA DoOn ==
    ASSUME NEW t, NEW d, NEW r PROVE Do(t, d, On(r)) = prepare_enable(d, r)
  BY DEF Do, On

LEMMA DoOff ==
    ASSUME NEW t, NEW d, NEW r PROVE Do(t, d, Off(r)) = disable(t, d, r)
  BY DEF Do, Off

LEMMA DoReg ==
    ASSUME NEW t, NEW d, NEW r PROVE Do(t, d, Reg(r)) = access_register(t, d, r)
  BY DEF Do, Reg

LEMMA RunOns ==
    ASSUME NEW t, NEW R, NEW d, Counts(d, R), NEW rs, Distinct(rs), Range(rs) \subseteq R
    PROVE  Taken(d, Run(t, d, Ons(rs)), Range(rs)) /\ Counts(Run(t, d, Ons(rs)), R)
<1> DEFINE N == Len(rs)
           X(n) == {rs[i] : i \in 1..n}
<1>0. /\ N \in Nat /\ Len(Ons(rs)) = N /\ \A i \in 1..N : Ons(rs)[i] = On(rs[i])
      /\ Range(rs) = X(N)
  BY OnsSeq, RangeSeq DEF Distinct
<1> PICK F : Steps(t, d, Ons(rs), F)
  <2>1. Len(Ons(rs)) \in Nat
    BY <1>0
  <2> QED BY <2>1, RunSteps
<1>1. /\ F[0] = d
      /\ \A i \in 1..Len(Ons(rs)) : F[i] = Do(t, F[i - 1], Ons(rs)[i])
      /\ Run(t, d, Ons(rs)) = F[Len(Ons(rs))]
  BY DEF Steps
<1> DEFINE T == {n \in Nat : n <= N => Taken(d, F[n], X(n)) /\ Counts(F[n], R)}
<1>2. 0 \in T
  <2>1. X(0) = {}
    OBVIOUS
  <2> QED BY <1>1, <2>1, TakenNone
<1>3. ASSUME NEW n \in Nat, n \in T PROVE n + 1 \in T
  <2> SUFFICES ASSUME n + 1 <= N PROVE Taken(d, F[n + 1], X(n + 1)) /\ Counts(F[n + 1], R)
    OBVIOUS
  <2>1. n + 1 \in 1..N /\ (n + 1) - 1 = n /\ n <= N
    BY <1>0
  <2>2. Taken(d, F[n], X(n)) /\ Counts(F[n], R)
    BY <1>3, <2>1
  <2> DEFINE r == rs[n + 1]
  <2>3. X(n + 1) = X(n) \cup {r} /\ r \in R
    BY <1>0, <2>1
  <2>4. X(n) \cap {r} = {}
    BY <1>0, <2>1 DEF Distinct
  <2>5. F[n + 1] = prepare_enable(F[n], r)
    BY <1>0, <1>1, <2>1, DoOn
  <2> HIDE DEF X, N, r
  <2>6. Taken(F[n], F[n + 1], {r}) /\ Counts(F[n + 1], R)
    BY <2>2, <2>3, <2>5, PrepareStep
  <2> QED BY <2>2, <2>3, <2>4, <2>6, TakenTrans
<1>4. N \in T
  <2> HIDE DEF T, N
  <2> QED BY <1>0, <1>2, <1>3, SetInduction
<1> QED BY <1>0, <1>1, <1>4

LEMMA RunOffs ==
    ASSUME NEW t, NEW R, NEW d, Counts(d, R), d.asleep \in BOOLEAN,
           NEW rs, Distinct(rs), Range(rs) \subseteq R
    PROVE  Released(t, d, Run(t, d, Offs(rs)), Range(rs)) /\ Counts(Run(t, d, Offs(rs)), R)
<1> DEFINE N == Len(rs)
           X(n) == {rs[i] : i \in 1..n}
<1>0. /\ N \in Nat /\ Len(Offs(rs)) = N /\ \A i \in 1..N : Offs(rs)[i] = Off(rs[i])
      /\ Range(rs) = X(N)
  BY OffsSeq, RangeSeq DEF Distinct
<1> PICK F : Steps(t, d, Offs(rs), F)
  <2>1. Len(Offs(rs)) \in Nat
    BY <1>0
  <2> QED BY <2>1, RunSteps
<1>1. /\ F[0] = d
      /\ \A i \in 1..Len(Offs(rs)) : F[i] = Do(t, F[i - 1], Offs(rs)[i])
      /\ Run(t, d, Offs(rs)) = F[Len(Offs(rs))]
  BY DEF Steps
<1> DEFINE T == {n \in Nat : n <= N => Released(t, d, F[n], X(n)) /\ Counts(F[n], R)}
<1>2. 0 \in T
  <2>1. X(0) = {}
    OBVIOUS
  <2> QED BY <1>1, <2>1, ReleasedNone
<1>3. ASSUME NEW n \in Nat, n \in T PROVE n + 1 \in T
  <2> SUFFICES ASSUME n + 1 <= N PROVE Released(t, d, F[n + 1], X(n + 1)) /\ Counts(F[n + 1], R)
    OBVIOUS
  <2>1. n + 1 \in 1..N /\ (n + 1) - 1 = n /\ n <= N
    BY <1>0
  <2>2. Released(t, d, F[n], X(n)) /\ Counts(F[n], R)
    BY <1>3, <2>1
  <2> DEFINE r == rs[n + 1]
  <2>3. X(n + 1) = X(n) \cup {r} /\ r \in R
    BY <1>0, <2>1
  <2>4. X(n) \cap {r} = {}
    BY <1>0, <2>1 DEF Distinct
  <2>5. F[n + 1] = disable(t, F[n], r)
    BY <1>0, <1>1, <2>1, DoOff
  <2>6. F[n].asleep \in BOOLEAN
    BY <2>2 DEF Released
  <2> HIDE DEF X, N, r
  <2>7. Released(t, F[n], F[n + 1], {r}) /\ Counts(F[n + 1], R)
    BY <2>2, <2>3, <2>5, <2>6, DisableStep
  <2>8. {r} \subseteq R
    BY <2>3
  <2> QED BY <2>2, <2>3, <2>4, <2>7, <2>8, ReleasedTrans
<1>4. N \in T
  <2> HIDE DEF T, N
  <2> QED BY <1>0, <1>2, <1>3, SetInduction
<1> QED BY <1>0, <1>1, <1>4

\* A register access with power, or to a device that is off, changes nothing.
LEMMA RunRegs ==
    ASSUME NEW t, NEW d, NEW D, NEW ops, Regs(ops, D),
           d.power_enabled => \A dom \in D : Lit(t, d, dom)
    PROVE  Run(t, d, ops) = d
<1>0. Len(ops) \in Nat
  BY DEF Regs
<1> PICK F : Steps(t, d, ops, F)
  BY <1>0, RunSteps
<1>1. /\ F[0] = d
      /\ \A i \in 1..Len(ops) : F[i] = Do(t, F[i - 1], ops[i])
      /\ Run(t, d, ops) = F[Len(ops)]
  BY DEF Steps
<1> DEFINE T == {n \in Nat : n <= Len(ops) => F[n] = d}
<1>2. 0 \in T
  BY <1>1
<1>3. ASSUME NEW n \in Nat, n \in T PROVE n + 1 \in T
  <2> SUFFICES ASSUME n + 1 <= Len(ops) PROVE F[n + 1] = d
    OBVIOUS
  <2>1. n + 1 \in 1..Len(ops) /\ (n + 1) - 1 = n /\ F[n] = d
    BY <1>0, <1>3
  <2>2. PICK dom \in D : ops[n + 1] = Reg(dom)
    BY <2>1 DEF Regs
  <2>3. F[n + 1] = access_register(t, d, dom)
    BY <1>1, <2>1, <2>2, DoReg
  <2> QED BY <2>3 DEF access_register
<1>4. Len(ops) \in T
  <2> HIDE DEF T
  <2> QED BY <1>0, <1>2, <1>3, SetInduction
<1> QED BY <1>0, <1>1, <1>4

\* At worst it is recorded as dark.
LEMMA RunDark ==
    ASSUME NEW t, NEW d, IsDev(d), NEW D, NEW ops, Regs(ops, D)
    PROVE  Only(d, Run(t, d, ops), {"dark"}) /\ Run(t, d, ops).dark \subseteq d.dark \cup D
<1>0. Len(ops) \in Nat
  BY DEF Regs
<1> PICK F : Steps(t, d, ops, F)
  BY <1>0, RunSteps
<1>1. /\ F[0] = d
      /\ \A i \in 1..Len(ops) : F[i] = Do(t, F[i - 1], ops[i])
      /\ Run(t, d, ops) = F[Len(ops)]
  BY DEF Steps
<1> DEFINE T == {n \in Nat : n <= Len(ops) => Only(d, F[n], {"dark"}) /\ F[n].dark \subseteq d.dark \cup D}
<1>2. 0 \in T
  BY <1>1 DEF Only
<1>3. ASSUME NEW n \in Nat, n \in T PROVE n + 1 \in T
  <2> SUFFICES ASSUME n + 1 <= Len(ops)
               PROVE  Only(d, F[n + 1], {"dark"}) /\ F[n + 1].dark \subseteq d.dark \cup D
    OBVIOUS
  <2>1. n + 1 \in 1..Len(ops) /\ (n + 1) - 1 = n /\ Only(d, F[n], {"dark"})
        /\ F[n].dark \subseteq d.dark \cup D
    BY <1>0, <1>3
  <2>2. PICK dom \in D : ops[n + 1] = Reg(dom)
    BY <2>1 DEF Regs
  <2>3. F[n + 1] = access_register(t, F[n], dom)
    BY <1>1, <2>1, <2>2, DoReg
  <2> DEFINE e == F[n]
  <2>4. Only(e, [e EXCEPT !.dark = @ \cup {dom}], {"dark"}) /\ Only(e, e, {"dark"})
        /\ [e EXCEPT !.dark = @ \cup {dom}].dark = e.dark \cup {dom}
    BY <2>1 DEF Only, IsDev, Fields
  <2>5. F[n + 1] \in {e, [e EXCEPT !.dark = @ \cup {dom}]}
    BY <2>3 DEF access_register
  <2> HIDE DEF e
  <2>6. Only(e, F[n + 1], {"dark"}) /\ F[n + 1].dark \subseteq e.dark \cup {dom}
    BY <2>4, <2>5
  <2>7. Only(d, F[n + 1], {"dark"})
    BY <2>1, <2>6 DEF Only, e
  <2> QED BY <2>1, <2>6, <2>7 DEF e
<1>4. Len(ops) \in T
  <2> HIDE DEF T
  <2> QED BY <1>0, <1>2, <1>3, SetInduction
<1> QED BY <1>0, <1>1, <1>4

LEMMA SubDistinct ==
    ASSUME NEW rs, Distinct(rs), NEW n \in 0..Len(rs)
    PROVE  /\ Distinct(SubSeq(rs, 1, n)) /\ Len(SubSeq(rs, 1, n)) = n
           /\ Range(SubSeq(rs, 1, n)) = {rs[i] : i \in 1..n}
<1>1. rs \in Seq(Names) /\ Len(rs) \in Nat /\ n \in Nat
  BY DEF Distinct
<1> DEFINE s == SubSeq(rs, 1, n)
<1>2. s \in Seq(Names) /\ Len(s) = n /\ \A i \in 1..n : s[i] = rs[i]
  BY <1>1
<1>3. Distinct(s)
  BY <1>1, <1>2 DEF Distinct
<1>4. Range(s) = {rs[i] : i \in 1..n}
  BY <1>2, RangeSeq
<1> QED BY <1>2, <1>3, <1>4

LEMMA ReverseDistinct ==
    ASSUME NEW rs, Distinct(rs) PROVE Distinct(Reverse(rs)) /\ Range(Reverse(rs)) = Range(rs)
<1> DEFINE n == Len(rs)
           s == Reverse(rs)
<1>1. rs \in Seq(Names) /\ n \in Nat
  BY DEF Distinct
<1>2. s \in [1..n -> Names]
  BY <1>1 DEF Reverse
<1>3. s \in Seq(Names) /\ Len(s) = n
  BY <1>1, <1>2
<1>4. \A i \in 1..n : s[i] = rs[(n - i) + 1] /\ (n - i) + 1 \in 1..n
  BY <1>1 DEF Reverse
<1> HIDE DEF s, n
<1>5. Distinct(s)
  <2> SUFFICES ASSUME NEW i \in 1..n, NEW j \in 1..n, s[i] = s[j] PROVE i = j
    BY <1>3 DEF Distinct
  <2>1. rs[(n - i) + 1] = rs[(n - j) + 1] /\ (n - i) + 1 \in 1..n /\ (n - j) + 1 \in 1..n
    BY <1>4
  <2>2. (n - i) + 1 = (n - j) + 1
    BY <2>1 DEF Distinct, n
  <2> QED BY <1>1, <2>2
<1>6. {s[i] : i \in 1..n} = {rs[i] : i \in 1..n}
  <2>1. \A i \in 1..n : s[(n - i) + 1] = rs[i] /\ (n - i) + 1 \in 1..n
    <3> SUFFICES ASSUME NEW i \in 1..n PROVE s[(n - i) + 1] = rs[i] /\ (n - i) + 1 \in 1..n
      OBVIOUS
    <3>1. (n - i) + 1 \in 1..n /\ (n - ((n - i) + 1)) + 1 = i
      BY <1>1
    <3> QED BY <1>4, <3>1
  <2> QED BY <1>4, <2>1
<1> QED BY <1>1, <1>3, <1>5, <1>6, RangeSeq DEF n, s

\* What Try gives is a sequence of operations.
LEMMA TrySeq ==
    ASSUME NEW rs, Distinct(rs), NEW k \in 1..Len(rs), NEW stuck, NEW missed \in {0, 1}, missed < k
    PROVE  Try(rs, k, stuck, missed) \in Seq(Op)
<1>0. rs \in Seq(Names) /\ Len(rs) \in Nat /\ k \in Nat /\ rs[k] \in Names
  BY DEF Distinct
<1> DEFINE a == SubSeq(rs, 1, k - 1)
           b == Reverse(SubSeq(rs, 1, k - 1 - missed))
           s == IF stuck THEN <<On(rs[k])>> ELSE <<>>
<1>1. Distinct(a)
  <2>1. k - 1 \in 0..Len(rs)
    BY <1>0
  <2> QED BY <2>1, SubDistinct
<1>2. Distinct(b)
  <2>1. k - 1 - missed \in 0..Len(rs)
    BY <1>0
  <2> QED BY <2>1, SubDistinct, ReverseDistinct
<1>3. Ons(a) \in Seq(Op) /\ Offs(b) \in Seq(Op)
  BY <1>1, <1>2, OnsSeq, OffsSeq DEF Distinct
<1>4. s \in Seq(Op)
  <2>1. On(rs[k]) \in Op
    BY <1>0 DEF On, Op
  <2> QED BY <2>1
<1>5. Try(rs, k, stuck, missed) = (Ons(a) \o s) \o Offs(b)
  BY <1>0 DEF Try
<1> HIDE DEF a, b, s
<1> QED BY <1>3, <1>4, <1>5

\* What a failure leaves: the resources as they were, but for a stuck one and
\* for one that is missed, and fewer GDSCs under hardware control.
Backed(d, e, X) ==
    /\ Only(d, e, {"held", "hwctl", "asleep"})
    /\ e.hwctl \subseteq d.hwctl /\ e.asleep = FALSE
    /\ \A r \in DOMAIN d.held : e.held[r] = IF r \in X THEN d.held[r] + 1 ELSE d.held[r]

\* What stays on when the k-th of rs fails.
LeftOn(rs, k, stuck, missed) ==
    ({rs[i] : i \in 1..(k - 1)} \cup (IF stuck THEN {rs[k]} ELSE {}))
    \ {rs[i] : i \in 1..(k - 1 - missed)}

LEMMA LeftNone ==
    ASSUME NEW rs, NEW k \in Nat, NEW stuck, ~stuck PROVE LeftOn(rs, k, stuck, 0) = {}
  BY DEF LeftOn

LEMMA TryFails ==
    ASSUME NEW t, NEW R, NEW d, Counts(d, R), d.asleep = FALSE, d.jam = {},
           NEW rs, Distinct(rs), Range(rs) \subseteq R,
           NEW k \in 1..Len(rs), NEW stuck \in BOOLEAN, NEW missed \in {0, 1}, missed < k
    PROVE  /\ Counts(Run(t, d, Try(rs, k, stuck, missed)), R)
           /\ Backed(d, Run(t, d, Try(rs, k, stuck, missed)), LeftOn(rs, k, stuck, missed))
           /\ LeftOn(rs, k, stuck, missed) \subseteq Range(rs)
<1>0. rs \in Seq(Names) /\ Len(rs) \in Nat /\ k \in Nat /\ rs[k] \in R /\ rs[k] \in Names
  BY DEF Distinct, Range
<1> DEFINE a == SubSeq(rs, 1, k - 1)
           b == SubSeq(rs, 1, k - 1 - missed)
           A == {rs[i] : i \in 1..(k - 1)}
           B == {rs[i] : i \in 1..(k - 1 - missed)}
           s == IF stuck THEN <<On(rs[k])>> ELSE <<>>
           S == IF stuck THEN {rs[k]} ELSE {}
<1>1. Distinct(a) /\ Range(a) = A
  <2>1. k - 1 \in 0..Len(rs)
    BY <1>0
  <2> QED BY <2>1, SubDistinct
<1>2. Distinct(b) /\ Range(b) = B
  <2>1. k - 1 - missed \in 0..Len(rs)
    BY <1>0
  <2> QED BY <2>1, SubDistinct
<1>3. Distinct(Reverse(b)) /\ Range(Reverse(b)) = B
  BY <1>2, ReverseDistinct
<1>4. B \subseteq A /\ A \subseteq R /\ S \subseteq R /\ A \subseteq Range(rs) /\ S \subseteq Range(rs)
      /\ (missed = 0 => B = A)
  <2>1. Range(rs) = {rs[i] : i \in 1..Len(rs)}
    BY <1>0, RangeSeq
  <2>2. A \subseteq Range(rs) /\ S \subseteq Range(rs)
    BY <1>0, <2>1
  <2>3. B \subseteq A /\ (missed = 0 => B = A)
    BY <1>0
  <2> QED BY <2>2, <2>3
<1>5. A \cap S = {}
  BY <1>0 DEF Distinct
<1>6. Ons(a) \in Seq(Op) /\ s \in Seq(Op) /\ Offs(Reverse(b)) \in Seq(Op)
  <2>1. Ons(a) \in Seq(Op)
    BY <1>1, OnsSeq DEF Distinct
  <2>2. Offs(Reverse(b)) \in Seq(Op)
    BY <1>3, OffsSeq DEF Distinct
  <2>3. On(rs[k]) \in Op
    BY <1>0 DEF On, Op
  <2>4. s \in Seq(Op)
    BY <2>3
  <2> QED BY <2>1, <2>2, <2>4
<1>7. Try(rs, k, stuck, missed) = (Ons(a) \o s) \o Offs(Reverse(b))
  BY <1>0 DEF Try
<1> DEFINE d1 == Run(t, d, Ons(a))
           d2 == Run(t, d1, s)
           d3 == Run(t, d2, Offs(Reverse(b)))
           ops == Try(rs, k, stuck, missed)
<1> HIDE DEF a, b, A, B, s, S, ops
<1>8. Run(t, d, ops) = d3
  <2> DEFINE x == Ons(a) \o s
             y == Offs(Reverse(b))
  <2>1. x \in Seq(Op) /\ y \in Seq(Op)
    BY <1>6
  <2> HIDE DEF x, y
  <2>2. Run(t, d, x \o y) = Run(t, Run(t, d, x), y)
    BY <2>1, RunConcat
  <2>3. Run(t, d, x) = d2
    BY <1>6, RunConcat DEF x
  <2> QED BY <1>7, <2>2, <2>3 DEF ops, x, y
<1>9. Taken(d, d1, A) /\ Counts(d1, R)
  BY <1>1, <1>4, RunOns
<1> HIDE DEF d1
<1>10. Taken(d1, d2, S) /\ Counts(d2, R)
  <2>1. CASE stuck
    <3> DEFINE x == <<rs[k]>>
    <3>1. Distinct(x) /\ Range(x) = {rs[k]}
      BY <1>0 DEF Distinct, Range
    <3>2. Ons(x) = s /\ S = {rs[k]}
      BY <2>1 DEF Ons, s, S
    <3>3. Range(x) \subseteq R /\ d2 = Run(t, d1, Ons(x))
      BY <1>4, <3>1, <3>2
    <3> HIDE DEF x, d2
    <3>4. Taken(d1, d2, Range(x)) /\ Counts(d2, R)
      BY <1>9, <3>1, <3>3, RunOns
    <3> QED BY <3>1, <3>2, <3>4
  <2>2. CASE ~stuck
    <3>1. s = <<>> /\ S = {}
      BY <2>2 DEF s, S
    <3>2. Regs(s, {})
      BY <3>1 DEF Regs
    <3>3. d2 = d1
      BY <3>2, RunRegs
    <3> QED BY <1>9, <3>1, <3>3, TakenNone
  <2> QED BY <2>1, <2>2
<1> HIDE DEF d2
<1>11. Taken(d, d2, A \cup S)
  BY <1>5, <1>9, <1>10, TakenTrans
<1>12. Only(d, d2, {"held"}) /\ d2.jam = {} /\ d2.asleep = FALSE /\ d2.bad = d.bad /\ d2.hwctl = d.hwctl
  BY <1>11 DEF Taken, Only, Fields
<1>13. Released(t, d2, d3, B) /\ Counts(d3, R)
  BY <1>3, <1>4, <1>10, <1>12, RunOffs
<1> HIDE DEF d3
<1>14. /\ d.held \in [R -> Nat] /\ B \ {} = B
       /\ d2.held = [r \in R |-> IF r \in A \cup S THEN d.held[r] + 1 ELSE d.held[r]]
       /\ d3.held = [r \in DOMAIN d2.held |-> IF r \in B /\ d2.held[r] > 0 THEN d2.held[r] - 1
                                              ELSE d2.held[r]]
       /\ d3.bad = d.bad \cup {r \in B : d2.held[r] = 0}
       /\ d3.hwctl = d.hwctl \ B /\ d3.asleep = FALSE
  BY <1>11, <1>12, <1>13 DEF Counts, Taken, Released
<1>15. \A r \in B : d2.held[r] = d.held[r] + 1 /\ d2.held[r] > 0
  BY <1>4, <1>14
<1>16. d3.bad = d.bad
  <2>1. \A r \in B : d2.held[r] # 0
    BY <1>15
  <2>2. {r \in B : d2.held[r] = 0} = {}
    BY <2>1
  <2> QED BY <1>14, <2>2
<1>17. Only(d, d3, {"held", "hwctl", "asleep"})
  <2>1. IsDev(d3) /\ \A f \in Fields \ {"held", "bad", "hwctl", "asleep"} : d3[f] = d2[f]
    BY <1>13 DEF Released, Only
  <2>2. \A f \in Fields \ {"held"} : d2[f] = d[f]
    BY <1>12 DEF Only
  <2>3. \A f \in Fields \ {"held", "bad", "hwctl", "asleep"} : d3[f] = d[f]
    BY <2>1, <2>2
  <2> QED BY <1>16, <2>1, <2>3 DEF Only
<1> DEFINE X == (A \cup S) \ B
<1>18. Backed(d, d3, X)
  <2>1. ASSUME NEW r \in R PROVE d3.held[r] = IF r \in X THEN d.held[r] + 1 ELSE d.held[r]
    <3>1. /\ d3.held[r] = IF r \in B /\ d2.held[r] > 0 THEN d2.held[r] - 1 ELSE d2.held[r]
          /\ d2.held[r] = IF r \in A \cup S THEN d.held[r] + 1 ELSE d.held[r]
          /\ d.held[r] \in Nat
      BY <1>14
    <3>2. CASE r \in B
      <4>1. d2.held[r] = d.held[r] + 1 /\ d2.held[r] > 0 /\ r \notin X
        BY <1>15, <3>2
      <4>2. d3.held[r] = (d.held[r] + 1) - 1
        BY <3>1, <3>2, <4>1
      <4> QED BY <3>1, <4>1, <4>2
    <3>3. CASE r \notin B
      BY <3>1, <3>3
    <3> QED BY <3>2, <3>3
  <2>2. DOMAIN d.held = R
    BY <1>14
  <2> QED BY <1>14, <1>17, <2>1, <2>2 DEF Backed
<1>20. X \subseteq Range(rs)
  BY <1>4
<1>21. X = LeftOn(rs, k, stuck, missed)
  BY DEF LeftOn, A, B, S
<1> HIDE DEF X
<1> QED BY <1>8, <1>13, <1>18, <1>20, <1>21 DEF ops

LEMMA RegOp == ASSUME NEW a \in Doms PROVE Reg(a) \in Op
  BY DEF Reg, Op, Doms, Names

LEMMA Regs1 ==
    ASSUME NEW D, D \subseteq Doms, NEW a \in D PROVE Regs(<<Reg(a)>>, D)
<1> DEFINE x == Reg(a)
<1>1. x \in Op /\ x = Reg(a)
  BY RegOp
<1> HIDE DEF x
<1> QED BY <1>1 DEF Regs, x

LEMMA Regs2 ==
    ASSUME NEW D, D \subseteq Doms, NEW a \in D, NEW b \in D PROVE Regs(<<Reg(a), Reg(b)>>, D)
<1> DEFINE x == Reg(a)
           y == Reg(b)
           s == <<x, y>>
<1>1. x \in Op /\ y \in Op /\ (\E dom \in D : x = Reg(dom)) /\ (\E dom \in D : y = Reg(dom))
  BY RegOp
<1> HIDE DEF x, y
<1>2. s \in Seq(Op) /\ Len(s) = 2 /\ \A i \in 1..Len(s) : s[i] \in {x, y}
  BY <1>1
<1> HIDE DEF s
<1>3. Regs(s, D)
  BY <1>1, <1>2 DEF Regs
<1> QED BY <1>3 DEF s, x, y

LEMMA Regs3 ==
    ASSUME NEW D, D \subseteq Doms, NEW a \in D, NEW b \in D, NEW c \in D
    PROVE  Regs(<<Reg(a), Reg(b), Reg(c)>>, D)
<1> DEFINE x == Reg(a)
           y == Reg(b)
           z == Reg(c)
           s == <<x, y, z>>
<1>1. /\ x \in Op /\ y \in Op /\ z \in Op
      /\ (\E dom \in D : x = Reg(dom)) /\ (\E dom \in D : y = Reg(dom)) /\ (\E dom \in D : z = Reg(dom))
  BY RegOp
<1> HIDE DEF x, y, z
<1>2. s \in Seq(Op) /\ Len(s) = 3 /\ \A i \in 1..Len(s) : s[i] \in {x, y, z}
  BY <1>1
<1> HIDE DEF s
<1>3. Regs(s, D)
  BY <1>1, <1>2 DEF Regs
<1> QED BY <1>3 DEF s, x, y, z

LEMMA Regs4 ==
    ASSUME NEW D, D \subseteq Doms, NEW a \in D, NEW b \in D, NEW c \in D, NEW e \in D
    PROVE  Regs(<<Reg(a), Reg(b), Reg(c), Reg(e)>>, D)
<1> DEFINE x == Reg(a)
           y == Reg(b)
           z == Reg(c)
           w == Reg(e)
           s == <<x, y, z, w>>
<1>1. /\ x \in Op /\ y \in Op /\ z \in Op /\ w \in Op
      /\ (\E dom \in D : x = Reg(dom)) /\ (\E dom \in D : y = Reg(dom))
      /\ (\E dom \in D : z = Reg(dom)) /\ (\E dom \in D : w = Reg(dom))
  BY RegOp
<1> HIDE DEF x, y, z, w
<1>2. s \in Seq(Op) /\ Len(s) = 4 /\ \A i \in 1..Len(s) : s[i] \in {x, y, z, w}
  BY <1>1
<1> HIDE DEF s
<1>3. Regs(s, D)
  BY <1>1, <1>2 DEF Regs
<1> QED BY <1>3 DEF s, x, y, z, w

LEMMA RegsNone == ASSUME NEW D PROVE Regs(<<>>, D)
  BY DEF Regs

LEMMA RegsConcat ==
    ASSUME NEW D, NEW a, NEW b, Regs(a, D), Regs(b, D) PROVE Regs(a \o b, D)
<1>1. /\ a \in Seq(Op) /\ b \in Seq(Op)
      /\ \A i \in 1..Len(a) : \E dom \in D : a[i] = Reg(dom)
      /\ \A i \in 1..Len(b) : \E dom \in D : b[i] = Reg(dom)
  BY DEF Regs
<1> DEFINE c == a \o b
<1>2. /\ c \in Seq(Op) /\ Len(c) = Len(a) + Len(b) /\ Len(a) \in Nat /\ Len(b) \in Nat
      /\ \A i \in 1..Len(a) : c[i] = a[i]
      /\ \A i \in 1..Len(b) : c[Len(a) + i] = b[i]
  BY <1>1
<1> HIDE DEF c
<1>3. ASSUME NEW i \in 1..Len(c) PROVE \E dom \in D : c[i] = Reg(dom)
  <2>1. CASE i <= Len(a)
    BY <1>1, <1>2, <2>1
  <2>2. CASE i > Len(a)
    <3>1. i - Len(a) \in 1..Len(b) /\ Len(a) + (i - Len(a)) = i
      BY <1>2, <2>2
    <3>2. c[i] = b[i - Len(a)]
      BY <1>2, <3>1
    <3> QED BY <1>1, <3>1, <3>2
  <2> QED BY <1>2, <2>1, <2>2
<1> QED BY <1>2, <1>3 DEF Regs, c

LEMMA DistinctConcat ==
    ASSUME NEW a, NEW b, Distinct(a), Distinct(b), Range(a) \cap Range(b) = {}
    PROVE  Distinct(a \o b) /\ Range(a \o b) = Range(a) \cup Range(b)
<1> DEFINE c == a \o b
<1>1. a \in Seq(Names) /\ b \in Seq(Names)
  BY DEF Distinct
<1>2. /\ c \in Seq(Names) /\ Len(c) = Len(a) + Len(b) /\ Len(a) \in Nat /\ Len(b) \in Nat
      /\ \A i \in 1..Len(a) : c[i] = a[i]
      /\ \A i \in 1..Len(b) : c[Len(a) + i] = b[i]
  BY <1>1
<1> HIDE DEF c
<1>3. Range(a) = {a[i] : i \in 1..Len(a)} /\ Range(b) = {b[i] : i \in 1..Len(b)}
      /\ Range(c) = {c[i] : i \in 1..Len(c)}
  BY <1>1, <1>2, RangeSeq
<1>4. ASSUME NEW i \in 1..Len(c)
      PROVE  \/ i \in 1..Len(a) /\ c[i] = a[i] /\ c[i] \in Range(a)
             \/ i - Len(a) \in 1..Len(b) /\ c[i] = b[i - Len(a)] /\ c[i] \in Range(b)
  <2>1. CASE i <= Len(a)
    BY <1>2, <1>3, <2>1
  <2>2. CASE i > Len(a)
    <3>1. i - Len(a) \in 1..Len(b) /\ Len(a) + (i - Len(a)) = i
      BY <1>2, <2>2
    <3>2. c[i] = b[i - Len(a)]
      BY <1>2, <3>1
    <3> QED BY <1>3, <3>1, <3>2
  <2> QED BY <1>2, <2>1, <2>2
<1>5. ASSUME NEW i \in 1..Len(c), NEW j \in 1..Len(c), c[i] = c[j] PROVE i = j
  <2>1. CASE i \in 1..Len(a) /\ c[i] = a[i] /\ c[i] \in Range(a)
    <3>1. j \in 1..Len(a) /\ c[j] = a[j]
      BY <1>4, <1>5, <2>1
    <3> QED BY <1>5, <2>1, <3>1 DEF Distinct
  <2>2. CASE i - Len(a) \in 1..Len(b) /\ c[i] = b[i - Len(a)] /\ c[i] \in Range(b)
    <3>1. j - Len(a) \in 1..Len(b) /\ c[j] = b[j - Len(a)]
      BY <1>4, <1>5, <2>2
    <3>2. i - Len(a) = j - Len(a)
      BY <1>5, <2>2, <3>1 DEF Distinct
    <3> QED BY <1>2, <3>2
  <2> QED BY <1>4, <2>1, <2>2
<1>6. Range(c) = Range(a) \cup Range(b)
  <2>1. Range(c) \subseteq Range(a) \cup Range(b)
    BY <1>3, <1>4
  <2>2. Range(a) \subseteq Range(c)
    BY <1>2, <1>3
  <2>3. ASSUME NEW i \in 1..Len(b) PROVE b[i] \in Range(c)
    <3>1. Len(a) + i \in 1..Len(c) /\ c[Len(a) + i] = b[i]
      BY <1>2
    <3> QED BY <1>3, <3>1
  <2> QED BY <1>3, <2>1, <2>2, <2>3
<1> QED BY <1>2, <1>5, <1>6 DEF Distinct, c

\* Sequences written out are sequences of names.
LEMMA Tuple1 == ASSUME NEW S, NEW a \in S PROVE <<a>> \in Seq(S)
  OBVIOUS
-----------------------------------------------------------------------------
\* The lists of resources that the targets switch on and off.

CtlPakala == <<"controller", "sleep_clk", "core_axi_clock", "cvp_axi_clock", "cvp_clk",
               "cvp_freerun_clk">>
CtlEva == <<"eva", "sleep", "core_iface", "eva_iface", "eva0", "eva_freerun">>
CtlHawi == <<"controller_pd", "sleep_clk", "core_axi_clock", "cvp_axi_clock", "cvp_clk",
             "cvp_freerun_clk", "cvp_ctl_freerun_clk", "cvp_debug_clk">>
CorePakala == <<"core", "eva_cc_mvs0_clk_src", "core_clk", "core_freerun_clk">>
CoreEva == <<"core", "core0", "core_freerun">>
CoreHawi == <<"core_noc_mm_pd", "core_pd", "eva_cc_mvs0_clk_src", "core_clk">>
OffCorePakala == <<"core", "core_clk">>
OffCoreEva == <<"core", "core0">>
OffCoreHawi == <<"core_pd", "core_clk">>
OffNocHawi == <<"core_noc_mm_pd">>
OffAllHawi == <<"core_noc_mm_pd", "core_pd", "core_clk">>
OffCtlPakala == <<"core_freerun_clk", "cvp_freerun_clk", "cvp_clk", "sleep_clk",
                  "controller", "core_axi_clock", "cvp_axi_clock", "eva_cc_mvs0_clk_src">>
OffCtlKaanapali == <<"core_freerun", "eva_freerun", "eva0", "sleep", "eva">>
OffAxiKaanapali == <<"core_iface", "eva_iface">>
OffCtlHawi == <<"cvp_debug_clk", "cvp_ctl_freerun_clk", "cvp_freerun_clk", "cvp_clk",
                "sleep_clk", "controller_pd", "core_axi_clock", "cvp_axi_clock",
                "eva_cc_mvs0_clk_src">>
OffCtlGlymur == <<"core_freerun", "eva_freerun", "eva0", "sleep", "eva", "core_iface",
                  "eva_iface">>

LEMMA CtlPakalaList ==
    Distinct(CtlPakala) /\ Range(CtlPakala) = {"controller", "sleep_clk", "core_axi_clock", "cvp_axi_clock", "cvp_clk",
        "cvp_freerun_clk"}
<1>1. CtlPakala \in Seq(Names)
  BY DEF CtlPakala, Names
<1> QED BY <1>1 DEF CtlPakala, Distinct, Range

LEMMA CtlEvaList ==
    Distinct(CtlEva) /\ Range(CtlEva) = {"eva", "sleep", "core_iface", "eva_iface", "eva0", "eva_freerun"}
<1>1. CtlEva \in Seq(Names)
  BY DEF CtlEva, Names
<1> QED BY <1>1 DEF CtlEva, Distinct, Range

LEMMA CtlHawiList ==
    Distinct(CtlHawi) /\ Range(CtlHawi) = {"controller_pd", "sleep_clk", "core_axi_clock", "cvp_axi_clock", "cvp_clk",
        "cvp_freerun_clk", "cvp_ctl_freerun_clk", "cvp_debug_clk"}
<1>1. CtlHawi \in Seq(Names)
  BY DEF CtlHawi, Names
<1> QED BY <1>1 DEF CtlHawi, Distinct, Range

LEMMA CorePakalaList ==
    Distinct(CorePakala) /\ Range(CorePakala) = {"core", "eva_cc_mvs0_clk_src", "core_clk", "core_freerun_clk"}
<1>1. CorePakala \in Seq(Names)
  BY DEF CorePakala, Names
<1> QED BY <1>1 DEF CorePakala, Distinct, Range

LEMMA CoreEvaList ==
    Distinct(CoreEva) /\ Range(CoreEva) = {"core", "core0", "core_freerun"}
<1>1. CoreEva \in Seq(Names)
  BY DEF CoreEva, Names
<1> QED BY <1>1 DEF CoreEva, Distinct, Range

LEMMA CoreHawiList ==
    Distinct(CoreHawi) /\ Range(CoreHawi) = {"core_noc_mm_pd", "core_pd", "eva_cc_mvs0_clk_src", "core_clk"}
<1>1. CoreHawi \in Seq(Names)
  BY DEF CoreHawi, Names
<1> QED BY <1>1 DEF CoreHawi, Distinct, Range

LEMMA OffCorePakalaList ==
    Distinct(OffCorePakala) /\ Range(OffCorePakala) = {"core", "core_clk"}
<1>1. OffCorePakala \in Seq(Names)
  BY DEF OffCorePakala, Names
<1> QED BY <1>1 DEF OffCorePakala, Distinct, Range

LEMMA OffCoreEvaList ==
    Distinct(OffCoreEva) /\ Range(OffCoreEva) = {"core", "core0"}
<1>1. OffCoreEva \in Seq(Names)
  BY DEF OffCoreEva, Names
<1> QED BY <1>1 DEF OffCoreEva, Distinct, Range

LEMMA OffCoreHawiList ==
    Distinct(OffCoreHawi) /\ Range(OffCoreHawi) = {"core_pd", "core_clk"}
<1>1. OffCoreHawi \in Seq(Names)
  BY DEF OffCoreHawi, Names
<1> QED BY <1>1 DEF OffCoreHawi, Distinct, Range

LEMMA OffNocHawiList ==
    Distinct(OffNocHawi) /\ Range(OffNocHawi) = {"core_noc_mm_pd"}
<1>1. OffNocHawi \in Seq(Names)
  BY DEF OffNocHawi, Names
<1> QED BY <1>1 DEF OffNocHawi, Distinct, Range

LEMMA OffAllHawiList ==
    Distinct(OffAllHawi) /\ Range(OffAllHawi) = {"core_noc_mm_pd", "core_pd", "core_clk"}
<1>1. OffAllHawi \in Seq(Names)
  BY DEF OffAllHawi, Names
<1> QED BY <1>1 DEF OffAllHawi, Distinct, Range

LEMMA OffCtlPakalaList ==
    Distinct(OffCtlPakala) /\ Range(OffCtlPakala) = {"core_freerun_clk", "cvp_freerun_clk", "cvp_clk", "sleep_clk", "controller",
        "core_axi_clock", "cvp_axi_clock", "eva_cc_mvs0_clk_src"}
<1>1. OffCtlPakala \in Seq(Names)
  BY DEF OffCtlPakala, Names
<1> QED BY <1>1 DEF OffCtlPakala, Distinct, Range

LEMMA OffCtlKaanapaliList ==
    Distinct(OffCtlKaanapali) /\ Range(OffCtlKaanapali) = {"core_freerun", "eva_freerun", "eva0", "sleep", "eva"}
<1>1. OffCtlKaanapali \in Seq(Names)
  BY DEF OffCtlKaanapali, Names
<1> QED BY <1>1 DEF OffCtlKaanapali, Distinct, Range

LEMMA OffAxiKaanapaliList ==
    Distinct(OffAxiKaanapali) /\ Range(OffAxiKaanapali) = {"core_iface", "eva_iface"}
<1>1. OffAxiKaanapali \in Seq(Names)
  BY DEF OffAxiKaanapali, Names
<1> QED BY <1>1 DEF OffAxiKaanapali, Distinct, Range

LEMMA OffCtlHawiList ==
    Distinct(OffCtlHawi) /\ Range(OffCtlHawi) = {"cvp_debug_clk", "cvp_ctl_freerun_clk", "cvp_freerun_clk", "cvp_clk",
        "sleep_clk", "controller_pd", "core_axi_clock", "cvp_axi_clock",
        "eva_cc_mvs0_clk_src"}
<1>1. OffCtlHawi \in Seq(Names)
  BY DEF OffCtlHawi, Names
<1> QED BY <1>1 DEF OffCtlHawi, Distinct, Range

LEMMA OffCtlGlymurList ==
    Distinct(OffCtlGlymur) /\ Range(OffCtlGlymur) = {"core_freerun", "eva_freerun", "eva0", "sleep", "eva", "core_iface", "eva_iface"}
<1>1. OffCtlGlymur \in Seq(Names)
  BY DEF OffCtlGlymur, Names
<1> QED BY <1>1 DEF OffCtlGlymur, Distinct, Range

LEMMA NoList == Distinct(<<>>) /\ Range(<<>>) = {}
<1>1. <<>> \in Seq(Names)
  OBVIOUS
<1> QED BY <1>1 DEF Distinct, Range

LEMMA CxPdList ==
    ASSUME NEW t
    PROVE  Distinct(CxPd(t)) /\ Range(CxPd(t)) = IF t = "art" THEN {} ELSE {"core_noc_cx_pd"}
<1>1. <<"core_noc_cx_pd">> \in Seq(Names)
  BY Tuple1 DEF Names
<1>2. Distinct(<<"core_noc_cx_pd">>) /\ Range(<<"core_noc_cx_pd">>) = {"core_noc_cx_pd"}
  BY <1>1 DEF Distinct, Range
<1> QED BY <1>2, NoList DEF CxPd

LEMMA CoreFreerunList ==
    ASSUME NEW t
    PROVE  Distinct(CoreFreerun(t)) /\ Range(CoreFreerun(t)) = IF t = "art" THEN {"core_freerun_clk"} ELSE {}
<1>1. <<"core_freerun_clk">> \in Seq(Names)
  BY Tuple1 DEF Names
<1>2. Distinct(<<"core_freerun_clk">>) /\ Range(<<"core_freerun_clk">>) = {"core_freerun_clk"}
  BY <1>1 DEF Distinct, Range
<1> QED BY <1>2, NoList DEF CoreFreerun

-----------------------------------------------------------------------------
\* What a target switches on for its controller and for its core.

CtlSeq(t) ==
    CASE t = "pakala" -> CtlPakala
      [] t \in {"hawi", "art"} -> CtlHawi
      [] OTHER -> CtlEva

CoreSeq(t) ==
    CASE t = "pakala" -> CorePakala
      [] t \in {"hawi", "art"} -> CxPd(t) \o CoreHawi \o CoreFreerun(t)
      [] OTHER -> CoreEva

Ctl(t) == Range(CtlSeq(t))
Core(t) == Range(CoreSeq(t))

\* The clocks of a core that power_off_controller disables.
Doubly == {"core_freerun", "core_freerun_clk", "eva_cc_mvs0_clk_src"}
Extra(t) == Core(t) \cap Doubly

LEMMA CtlLayout ==
    ASSUME NEW t \in Targets
    PROVE  /\ Distinct(CtlSeq(t))
           /\ Ctl(t) = CASE t = "pakala" -> {"controller", "sleep_clk", "core_axi_clock",
                                             "cvp_axi_clock", "cvp_clk", "cvp_freerun_clk"}
                         [] t \in {"hawi", "art"} ->
                              {"controller_pd", "sleep_clk", "core_axi_clock", "cvp_axi_clock",
                               "cvp_clk", "cvp_freerun_clk", "cvp_ctl_freerun_clk", "cvp_debug_clk"}
                         [] OTHER -> {"eva", "sleep", "core_iface", "eva_iface", "eva0", "eva_freerun"}
<1>1. CASE t = "pakala"
  BY <1>1, CtlPakalaList DEF CtlSeq, Ctl
<1>2. CASE t \in {"hawi", "art"}
  BY <1>2, CtlHawiList DEF CtlSeq, Ctl
<1>3. CASE t \in {"kaanapali", "glymur"}
  BY <1>3, CtlEvaList DEF CtlSeq, Ctl
<1> QED BY <1>1, <1>2, <1>3 DEF Targets

LEMMA CoreLayout ==
    ASSUME NEW t \in Targets
    PROVE  /\ Distinct(CoreSeq(t))
           /\ Core(t) = CASE t = "pakala" -> {"core", "eva_cc_mvs0_clk_src", "core_clk",
                                              "core_freerun_clk"}
                          [] t = "hawi" -> {"core_noc_cx_pd", "core_noc_mm_pd", "core_pd",
                                            "eva_cc_mvs0_clk_src", "core_clk"}
                          [] t = "art" -> {"core_noc_mm_pd", "core_pd", "eva_cc_mvs0_clk_src",
                                           "core_clk", "core_freerun_clk"}
                          [] OTHER -> {"core", "core0", "core_freerun"}
<1>1. CASE t = "pakala"
  BY <1>1, CorePakalaList DEF CoreSeq, Core
<1>2. CASE t \in {"hawi", "art"}
  <2> DEFINE a == CxPd(t) \o CoreHawi
  <2>1. /\ Distinct(CxPd(t)) /\ Range(CxPd(t)) = IF t = "art" THEN {} ELSE {"core_noc_cx_pd"}
        /\ Distinct(CoreHawi)
        /\ Range(CoreHawi) = {"core_noc_mm_pd", "core_pd", "eva_cc_mvs0_clk_src", "core_clk"}
        /\ Distinct(CoreFreerun(t))
        /\ Range(CoreFreerun(t)) = IF t = "art" THEN {"core_freerun_clk"} ELSE {}
    BY CxPdList, CoreHawiList, CoreFreerunList
  <2>2. Distinct(a) /\ Range(a) = Range(CxPd(t)) \cup Range(CoreHawi)
    BY <2>1, DistinctConcat
  <2> HIDE DEF a
  <2>3. Range(a) \cap Range(CoreFreerun(t)) = {}
    BY <2>1, <2>2
  <2>4. /\ Distinct(a \o CoreFreerun(t))
        /\ Range(a \o CoreFreerun(t)) = Range(a) \cup Range(CoreFreerun(t))
    BY <2>1, <2>2, <2>3, DistinctConcat
  <2>5. CoreSeq(t) = a \o CoreFreerun(t)
    BY <1>2 DEF CoreSeq, a
  <2>6. Core(t) = Range(a) \cup Range(CoreFreerun(t))
    BY <2>4, <2>5 DEF Core
  <2>7. CASE t = "hawi"
    BY <2>1, <2>2, <2>4, <2>5, <2>6, <2>7
  <2>8. CASE t = "art"
    BY <2>1, <2>2, <2>4, <2>5, <2>6, <2>8
  <2> QED BY <1>2, <2>7, <2>8
<1>3. CASE t \in {"kaanapali", "glymur"}
  BY <1>3, CoreEvaList DEF CoreSeq, Core
<1> QED BY <1>1, <1>2, <1>3 DEF Targets

\* The controller of a hawi is switched on with an access to its registers.
Fallback(t, k) == IF t \in {"hawi", "art"} /\ k = 0 THEN <<Reg("ctl")>> ELSE <<>>
Missed(t, k) == IF t = "pakala" /\ k = 6 THEN 1 ELSE 0

LEMMA OnLayout ==
    ASSUME NEW t \in Targets, NEW k, NEW stuck
    PROVE  /\ power_on_controller(t, k, stuck) =
                IF t \in {"hawi", "art"}
                THEN Try(CtlSeq(t), k, stuck, Missed(t, k)) \o Fallback(t, k)
                ELSE Try(CtlSeq(t), k, stuck, Missed(t, k))
           /\ power_on_core(t, k, stuck) = Try(CoreSeq(t), k, stuck, 0)
<1>1. CASE t = "pakala"
  BY <1>1 DEF power_on_controller, power_on_core, power_on_controller_pakala, power_on_core_pakala,
     CtlSeq, CoreSeq, CtlPakala, CorePakala, Missed
<1>2. CASE t \in {"hawi", "art"}
  <2>1. CtlSeq(t) = CtlHawi /\ CoreSeq(t) = CxPd(t) \o CoreHawi \o CoreFreerun(t) /\ Missed(t, k) = 0
    BY <1>2 DEF CtlSeq, CoreSeq, Missed
  <2>2. power_on_core(t, k, stuck) = Try(CoreSeq(t), k, stuck, 0)
    BY <1>2, <2>1 DEF power_on_core, power_on_core_hawi, CoreHawi
  <2>3. power_on_controller(t, k, stuck) = power_on_controller_hawi(k, stuck)
    BY <1>2 DEF power_on_controller
  <2>4. (IF k = 0 THEN controller_fallback_mode ELSE <<>>) = Fallback(t, k)
    BY <1>2 DEF controller_fallback_mode, Fallback
  <2>5. power_on_controller_hawi(k, stuck) = Try(CtlHawi, k, stuck, 0) \o Fallback(t, k)
    BY <2>4 DEF power_on_controller_hawi, CtlHawi
  <2> QED BY <1>2, <2>1, <2>2, <2>3, <2>5
<1>3. CASE t \in {"kaanapali", "glymur"}
  BY <1>3 DEF power_on_controller, power_on_core, power_on_controller_kaanapali,
     power_on_core_kaanapali, power_on_controller_glymur, power_on_core_glymur,
     CtlSeq, CoreSeq, CtlEva, CoreEva, Missed
<1> QED BY <1>1, <1>2, <1>3 DEF Targets

\* The steps that switch something on, and what they switch on.
LEMMA SwitchesOns ==
    ASSUME NEW rs, Distinct(rs), NEW regs, Regs(regs, {"ctl"})
    PROVE  /\ Switches(Ons(rs)) = 1..Len(rs) /\ Switched(Ons(rs)) = Range(rs)
           /\ Switches(Ons(rs) \o regs) = 1..Len(rs) /\ Switched(Ons(rs) \o regs) = Range(rs)
<1> DEFINE a == Ons(rs)
           c == a \o regs
<1>1. /\ a \in Seq(Op) /\ Len(a) = Len(rs) /\ Len(rs) \in Nat /\ Range(rs) = {rs[i] : i \in 1..Len(rs)}
      /\ \A i \in 1..Len(rs) : a[i] = On(rs[i])
  BY OnsSeq, RangeSeq DEF Distinct
<1>2. regs \in Seq(Op) /\ Len(regs) \in Nat /\ \A i \in 1..Len(regs) : regs[i] = Reg("ctl")
  BY DEF Regs
<1> HIDE DEF a
<1>3. /\ c \in Seq(Op) /\ DOMAIN c = 1..(Len(a) + Len(regs))
      /\ \A i \in 1..Len(a) : c[i] = a[i]
      /\ \A i \in 1..Len(regs) : c[Len(a) + i] = regs[i]
  BY <1>1, <1>2
<1> HIDE DEF c
<1>4. \A x : On(x).do = "on" /\ On(x).arg = x /\ Reg(x).do # "on"
  BY DEF On, Reg
<1>5. DOMAIN a = 1..Len(rs)
  BY <1>1
<1>6. Switches(a) = 1..Len(rs)
  BY <1>1, <1>4, <1>5 DEF Switches
<1>7. Switched(a) = Range(rs)
  BY <1>1, <1>4, <1>6 DEF Switched
<1>8. Switches(c) = 1..Len(rs)
  <2>1. 1..Len(rs) \subseteq Switches(c)
    BY <1>1, <1>2, <1>3, <1>4 DEF Switches
  <2>2. ASSUME NEW i \in Switches(c) PROVE i \in 1..Len(rs)
    <3>1. i \in 1..(Len(a) + Len(regs)) /\ c[i].do = "on"
      BY <1>3, <2>2 DEF Switches
    <3> SUFFICES ASSUME i > Len(rs) PROVE FALSE
      BY <1>1, <1>2, <3>1
    <3>2. i - Len(a) \in 1..Len(regs) /\ Len(a) + (i - Len(a)) = i
      BY <1>1, <1>2, <3>1
    <3>3. c[i] = Reg("ctl")
      BY <1>2, <1>3, <3>2
    <3> QED BY <1>4, <3>1, <3>3
  <2> QED BY <2>1, <2>2
<1>9. Switched(c) = Range(rs)
  <2>1. \A i \in 1..Len(rs) : c[i].arg = rs[i]
    BY <1>1, <1>3, <1>4
  <2> QED BY <1>1, <1>8, <2>1 DEF Switched
<1> QED BY <1>6, <1>7, <1>8, <1>9 DEF a, c

LEMMA ResourcesLayout ==
    ASSUME NEW t \in Targets
    PROVE  /\ Resources(t) = Ctl(t) \cup Core(t) /\ Ctl(t) \cap Core(t) = {}
           /\ Switches(power_on_controller(t, 0, FALSE)) = 1..Len(CtlSeq(t))
           /\ Switches(power_on_core(t, 0, FALSE)) = 1..Len(CoreSeq(t))
<1> DEFINE c == power_on_controller(t, 0, FALSE)
           k == power_on_core(t, 0, FALSE)
<1>1. Distinct(CtlSeq(t)) /\ Distinct(CoreSeq(t)) /\ Regs(<<Reg("ctl")>>, {"ctl"})
  BY CtlLayout, CoreLayout, Regs1 DEF Doms
<1>2. k = Ons(CoreSeq(t))
  BY OnLayout DEF Try
<1>3. c = Ons(CtlSeq(t)) \/ c = Ons(CtlSeq(t)) \o <<Reg("ctl")>>
  BY OnLayout DEF Try, Fallback
<1> HIDE DEF c, k
<1>4. Switches(k) = 1..Len(CoreSeq(t)) /\ Switched(k) = Core(t)
  BY <1>1, <1>2, SwitchesOns DEF Core
<1>5. Switches(c) = 1..Len(CtlSeq(t)) /\ Switched(c) = Ctl(t)
  BY <1>1, <1>3, SwitchesOns DEF Ctl
<1>6. Ctl(t) \cap Core(t) = {}
  BY CtlLayout, CoreLayout DEF Targets
<1> QED BY <1>4, <1>5, <1>6 DEF c, k, Resources

LEMMA ConcatFirst ==
    ASSUME NEW S, NEW a \in Seq(S), NEW b \in Seq(S), Len(a) > 0
    PROVE  (a \o b)[1] = a[1] /\ a \o b \in Seq(S) /\ Len(a \o b) \in Nat
  OBVIOUS

LEMMA RegsSeq == ASSUME NEW D, NEW ops, Regs(ops, D) PROVE ops \in Seq(Op)
  BY DEF Regs

LEMMA DistinctSeq ==
    ASSUME NEW rs, Distinct(rs) PROVE rs \in Seq(Names) /\ Len(rs) \in Nat
  BY DEF Distinct

LEMMA RunNone ==
    ASSUME NEW t, NEW d, NEW a \in Seq(Op) PROVE Run(t, d, a \o <<>>) = Run(t, d, a)
<1> DEFINE z == <<>>
<1>1. Regs(z, {}) /\ z \in Seq(Op)
  BY RegsNone, RegsSeq
<1> HIDE DEF z
<1>2. Run(t, d, a \o z) = Run(t, Run(t, d, a), z)
  BY <1>1, RunConcat
<1>3. Run(t, Run(t, d, a), z) = Run(t, d, a)
  BY <1>1, RunRegs
<1> QED BY <1>2, <1>3 DEF z

\* Where the clocks of a register domain and the GDSCs of the core are.
LEMMA ClockLayout ==
    ASSUME NEW t \in Targets
    PROVE  /\ ClocksOf(t, "aon") \subseteq Ctl(t) /\ ClocksOf(t, "ctl") \subseteq Ctl(t)
           /\ ClocksOf(t, "core") \subseteq Core(t)
           /\ Range(CoreGdscs(t)) \subseteq Core(t) \ Doubly
           /\ CoreGdscs(t)[1] \in Range(CoreGdscs(t))
           /\ t \notin {"hawi", "art"} => Range(CoreGdscs(t)) = {"core"} /\ CoreGdscs(t)[1] = "core"
           /\ CoreGdscs(t) \in Seq(Names) /\ Len(CoreGdscs(t)) \in Nat
<1>1. CASE t \notin {"hawi", "art"}
  <2>1. CoreGdscs(t) = <<"core">>
    BY <1>1 DEF CoreGdscs
  <2>2. Range(<<"core">>) = {"core"} /\ <<"core">> \in Seq(Names)
    BY DEF Range, Names
  <2>3. CoreGdscs(t)[1] = "core" /\ Range(CoreGdscs(t)) = {"core"}
    BY <2>1, <2>2
  <2> QED BY <1>1, <2>1, <2>2, <2>3, CtlLayout, CoreLayout DEF ClocksOf, Targets, Doubly
<1>2. CASE t \in {"hawi", "art"}
  <2> DEFINE a == <<"core_pd", "core_noc_mm_pd">>
             g == a \o CxPd(t)
  <2>1. a \in Seq(Names) /\ Len(a) = 2 /\ a[1] = "core_pd"
    BY DEF Names
  <2>2. Distinct(a) /\ Range(a) = {"core_pd", "core_noc_mm_pd"}
    BY <2>1 DEF Distinct, Range
  <2>3. Distinct(CxPd(t)) /\ Range(CxPd(t)) = IF t = "art" THEN {} ELSE {"core_noc_cx_pd"}
    BY CxPdList
  <2>4. CoreGdscs(t) = g
    BY <1>2 DEF CoreGdscs
  <2>5. CxPd(t) \in Seq(Names)
    BY <2>3 DEF Distinct
  <2> HIDE DEF a
  <2>6. g[1] = "core_pd" /\ g \in Seq(Names) /\ Len(g) \in Nat
    BY <2>1, <2>5, ConcatFirst
  <2>7. Range(g) = Range(a) \cup Range(CxPd(t))
    BY <2>2, <2>3, DistinctConcat
  <2> HIDE DEF g
  <2>8. /\ CoreGdscs(t)[1] = "core_pd" /\ "core_pd" \in Range(CoreGdscs(t))
        /\ Range(CoreGdscs(t)) = {"core_pd", "core_noc_mm_pd"}
                                 \cup (IF t = "art" THEN {} ELSE {"core_noc_cx_pd"})
    BY <2>2, <2>3, <2>4, <2>6, <2>7
  <2>9. /\ ClocksOf(t, "aon") = {"core_axi_clock", "cvp_axi_clock"}
        /\ ClocksOf(t, "ctl") = {"controller_pd", "cvp_clk"}
        /\ ClocksOf(t, "core") = {"core_pd", "core_clk"}
    BY <1>2, <2>8 DEF ClocksOf
  <2>10. CASE t = "hawi"
    BY <2>4, <2>6, <2>8, <2>9, <2>10, CtlLayout, CoreLayout DEF Doubly
  <2>11. CASE t = "art"
    BY <2>4, <2>6, <2>8, <2>9, <2>11, CtlLayout, CoreLayout DEF Doubly
  <2> QED BY <1>2, <2>10, <2>11
<1> QED BY <1>1, <1>2

\* With the controller on its registers are lit, with the core on too the core's.
LEMMA LitCtl ==
    ASSUME NEW t \in Targets, NEW d, \A r \in Ctl(t) : d.held[r] > 0, NEW dom \in {"aon", "ctl"}
    PROVE  Lit(t, d, dom)
  BY ClockLayout DEF Lit

LEMMA LitCore ==
    ASSUME NEW t \in Targets, NEW d, \A r \in Resources(t) : d.held[r] > 0, d.asleep = FALSE,
           NEW dom \in Doms
    PROVE  Lit(t, d, dom)
  BY ClockLayout, ResourcesLayout DEF Lit, Doms

-----------------------------------------------------------------------------
\* Switching on.

LEMMA ControllerOn ==
    ASSUME NEW t \in Targets, NEW d, Counts(d, Resources(t)), d.power_enabled = FALSE
    PROVE  LET e == Run(t, d, power_on_controller(t, 0, FALSE))
           IN  Taken(d, e, Ctl(t)) /\ Counts(e, Resources(t))
<1> DEFINE rs == CtlSeq(t)
           ops == power_on_controller(t, 0, FALSE)
           e == Run(t, d, Ons(rs))
<1>1. Distinct(rs) /\ Range(rs) = Ctl(t) /\ Ctl(t) \subseteq Resources(t)
  BY CtlLayout, ResourcesLayout DEF Ctl
<1>2. Taken(d, e, Ctl(t)) /\ Counts(e, Resources(t))
  <2> HIDE DEF rs
  <2> QED BY <1>1, RunOns
<1>3. ops = Ons(rs) \/ ops = Ons(rs) \o <<Reg("ctl")>>
  BY OnLayout DEF Try, Fallback
<1>4. Run(t, d, Ons(rs) \o <<Reg("ctl")>>) = e
  <2>1. Regs(<<Reg("ctl")>>, {"ctl"}) /\ <<Reg("ctl")>> \in Seq(Op)
    BY Regs1, RegsSeq DEF Doms
  <2>2. Ons(rs) \in Seq(Op)
    BY <1>1, OnsSeq DEF Distinct
  <2>3. e.power_enabled = FALSE
    BY <1>2 DEF Taken, Only, Fields
  <2> HIDE DEF e
  <2>4. Run(t, e, <<Reg("ctl")>>) = e
    BY <2>1, <2>3, RunRegs
  <2> QED BY <2>1, <2>2, <2>4, RunConcat DEF e
<1> HIDE DEF ops, rs
<1> QED BY <1>2, <1>3, <1>4 DEF ops

LEMMA CoreOn ==
    ASSUME NEW t \in Targets, NEW d, Counts(d, Resources(t))
    PROVE  LET e == Run(t, d, power_on_core(t, 0, FALSE))
           IN  Taken(d, e, Core(t)) /\ Counts(e, Resources(t))
<1>1. Distinct(CoreSeq(t)) /\ Range(CoreSeq(t)) = Core(t) /\ Core(t) \subseteq Resources(t)
  BY CoreLayout, ResourcesLayout DEF Core
<1>2. power_on_core(t, 0, FALSE) = Ons(CoreSeq(t))
  BY OnLayout DEF Try
<1> QED BY <1>1, <1>2, RunOns

LEMMA ControllerFails ==
    ASSUME NEW t \in Targets, NEW d, Counts(d, Resources(t)), d.asleep = FALSE, d.jam = {},
           NEW k \in 1..Len(CtlSeq(t)), NEW stuck \in BOOLEAN,
           NEW e, e = Run(t, d, power_on_controller(t, k, stuck))
    PROVE  /\ Counts(e, Resources(t))
           /\ Backed(d, e, LeftOn(CtlSeq(t), k, stuck, Missed(t, k)))
           /\ LeftOn(CtlSeq(t), k, stuck, Missed(t, k)) \subseteq Ctl(t)
<1> DEFINE rs == CtlSeq(t)
           m == Missed(t, k)
           ops == power_on_controller(t, k, stuck)
           tr == Try(rs, k, stuck, m)
           X == LeftOn(rs, k, stuck, m)
           R == Resources(t)
<1>1. Distinct(rs) /\ Range(rs) = Ctl(t) /\ Range(rs) \subseteq R /\ rs \in Seq(Names)
      /\ Len(rs) \in Nat /\ Counts(d, R) /\ k \in 1..Len(rs)
  BY CtlLayout, ResourcesLayout, DistinctSeq DEF Ctl
<1>2. m \in {0, 1} /\ m < k
  BY <1>1 DEF Missed
<1>3. k # 0
  BY <1>1
<1>4. ops = tr \/ ops = tr \o <<>>
  BY <1>3, OnLayout DEF Fallback
<1>5. e = Run(t, d, tr)
  <2>1. tr \in Seq(Op)
    BY <1>1, <1>2, TrySeq
  <2> HIDE DEF tr, ops
  <2> QED BY <1>4, <2>1, RunNone DEF ops
<1> HIDE DEF ops, rs, m, R, X
<1>6. Counts(e, R) /\ Backed(d, e, X) /\ X \subseteq Range(rs)
  <2> DEFINE f == Run(t, d, Try(rs, k, stuck, m))
  <2>0. Distinct(rs) /\ Range(rs) \subseteq R /\ Counts(d, R) /\ k \in 1..Len(rs)
    BY <1>1
  <2>1. Counts(f, R) /\ Backed(d, f, LeftOn(rs, k, stuck, m)) /\ LeftOn(rs, k, stuck, m) \subseteq Range(rs)
    <3>1. Counts(f, R)
      BY <1>2, <2>0, TryFails
    <3>2. Backed(d, f, LeftOn(rs, k, stuck, m))
      BY <1>2, <2>0, TryFails
    <3>3. LeftOn(rs, k, stuck, m) \subseteq Range(rs)
      BY <1>2, <2>0, TryFails
    <3> QED BY <3>1, <3>2, <3>3
  <2> QED BY <1>5, <2>1 DEF X
<1> QED BY <1>1, <1>6 DEF R, X, rs, m

LEMMA CoreFails ==
    ASSUME NEW t \in Targets, NEW d, Counts(d, Resources(t)), d.asleep = FALSE, d.jam = {},
           NEW k \in 1..Len(CoreSeq(t)), NEW stuck \in BOOLEAN,
           NEW e, e = Run(t, d, power_on_core(t, k, stuck))
    PROVE  /\ Counts(e, Resources(t))
           /\ Backed(d, e, LeftOn(CoreSeq(t), k, stuck, 0))
           /\ LeftOn(CoreSeq(t), k, stuck, 0) \subseteq Core(t)
<1> DEFINE rs == CoreSeq(t)
           m == 0
           X == LeftOn(rs, k, stuck, m)
           R == Resources(t)
<1>1. Distinct(rs) /\ Range(rs) = Core(t) /\ Range(rs) \subseteq R /\ rs \in Seq(Names)
      /\ Len(rs) \in Nat /\ Counts(d, R) /\ k \in 1..Len(rs)
  BY CoreLayout, ResourcesLayout, DistinctSeq DEF Core
<1>2. m \in {0, 1} /\ m < k /\ m = 0
  BY <1>1
<1>3. e = Run(t, d, Try(rs, k, stuck, m))
  BY OnLayout
<1> HIDE DEF rs, m, R, X
<1>4. Counts(e, R) /\ Backed(d, e, X) /\ X \subseteq Range(rs)
  <2> DEFINE f == Run(t, d, Try(rs, k, stuck, m))
  <2>0. Distinct(rs) /\ Range(rs) \subseteq R /\ Counts(d, R) /\ k \in 1..Len(rs)
    BY <1>1
  <2>1. Counts(f, R) /\ Backed(d, f, LeftOn(rs, k, stuck, m)) /\ LeftOn(rs, k, stuck, m) \subseteq Range(rs)
    BY <1>2, <2>0, TryFails
  <2> QED BY <1>3, <2>1 DEF X
<1> QED BY <1>1, <1>4 DEF R, X, rs, m

-----------------------------------------------------------------------------
\* The register accesses of the power off sequences: every target's are the same.

SideRegs == <<Reg("ctl"), Reg("aon"), Reg("ctl")>>
CoreLpi == <<Reg("core"), Reg("aon")>> \o SideRegs
CpuLpi == <<Reg("ctl")>> \o SideRegs
VideoLpi == <<Reg("aon")>> \o SideRegs
OffCtlRegs == <<Reg("ctl")>> \o CpuLpi \o VideoLpi \o <<Reg("ctl"), Reg("aon")>>
IdleRegs == <<Reg("ctl"), Reg("core")>> \o CoreLpi \o <<Reg("ctl")>>
FoundRegs(how) ==
    IF how = "idle" THEN IdleRegs
    ELSE IF how = "fw_off" THEN <<Reg("ctl")>> \o SideRegs ELSE <<>>

CtlDoms == {"aon", "ctl"}
FoundDoms(how) == IF how = "idle" THEN Doms ELSE CtlDoms
LEMMA RegsMono ==
    ASSUME NEW D, NEW E, D \subseteq E, NEW ops, Regs(ops, D) PROVE Regs(ops, E)
  BY DEF Regs

LEMMA OffRegs ==
    /\ Regs(<<Reg("ctl")>>, CtlDoms) /\ Regs(<<Reg("aon")>>, CtlDoms)
    /\ Regs(SideRegs, CtlDoms) /\ Regs(CpuLpi, CtlDoms) /\ Regs(VideoLpi, CtlDoms)
    /\ Regs(OffCtlRegs, CtlDoms) /\ Regs(CoreLpi, Doms) /\ Regs(IdleRegs, Doms)
<1>1. /\ CtlDoms \subseteq Doms /\ "ctl" \in CtlDoms /\ "aon" \in CtlDoms
      /\ "ctl" \in Doms /\ "core" \in Doms /\ "aon" \in Doms /\ Doms \subseteq Doms
  BY DEF CtlDoms, Doms
<1>2. /\ Regs(<<Reg("ctl")>>, CtlDoms) /\ Regs(<<Reg("aon")>>, CtlDoms)
      /\ Regs(<<Reg("ctl"), Reg("aon")>>, CtlDoms)
  BY <1>1, Regs1, Regs2
<1>3. Regs(SideRegs, CtlDoms)
  BY <1>1, Regs3 DEF SideRegs
<1>4. Regs(CpuLpi, CtlDoms) /\ Regs(VideoLpi, CtlDoms)
  BY <1>2, <1>3, RegsConcat DEF CpuLpi, VideoLpi
<1>5. Regs(OffCtlRegs, CtlDoms)
  <2> DEFINE a == <<Reg("ctl")>> \o CpuLpi
             b == a \o VideoLpi
             c == <<Reg("ctl"), Reg("aon")>>
  <2>1. Regs(a, CtlDoms)
    BY <1>2, <1>4, RegsConcat
  <2> HIDE DEF a
  <2>2. Regs(b, CtlDoms)
    BY <1>4, <2>1, RegsConcat
  <2> HIDE DEF b
  <2>3. Regs(c, CtlDoms)
    BY <1>2
  <2> HIDE DEF c
  <2>4. Regs(b \o c, CtlDoms)
    BY <2>2, <2>3, RegsConcat
  <2> QED BY <2>4 DEF OffCtlRegs, a, b, c
<1>6. Regs(SideRegs, Doms) /\ Regs(<<Reg("ctl")>>, Doms)
  BY <1>1, <1>2, <1>3, RegsMono
<1>7. Regs(<<Reg("core"), Reg("aon")>>, Doms) /\ Regs(<<Reg("ctl"), Reg("core")>>, Doms)
  BY <1>1, Regs2
<1>8. Regs(CoreLpi, Doms)
  BY <1>6, <1>7, RegsConcat DEF CoreLpi
<1>9. Regs(IdleRegs, Doms)
  <2> DEFINE a == <<Reg("ctl"), Reg("core")>> \o CoreLpi
             c == <<Reg("ctl")>>
  <2>1. Regs(a, Doms) /\ Regs(c, Doms)
    BY <1>6, <1>7, <1>8, RegsConcat
  <2> HIDE DEF a, c
  <2>2. Regs(a \o c, Doms)
    BY <2>1, RegsConcat
  <2> QED BY <2>2 DEF IdleRegs, a, c
<1> QED BY <1>2, <1>3, <1>4, <1>5, <1>8, <1>9

LEMMA FoundIsRegs ==
    ASSUME NEW how
    PROVE  /\ Regs(FoundRegs(how), FoundDoms(how))
           /\ Regs(<<Reg("ctl")>> \o FoundRegs(how), FoundDoms(how))
<1> DEFINE D == FoundDoms(how)
           c == <<Reg("ctl")>>
           f == FoundRegs(how)
<1>1. CtlDoms \subseteq D
  BY DEF CtlDoms, Doms, FoundDoms
<1>2. Regs(c, CtlDoms) /\ Regs(c, D)
  BY <1>1, OffRegs, RegsMono
<1>3. Regs(f, D)
  <2>1. Regs(<<Reg("ctl")>> \o SideRegs, CtlDoms)
    BY OffRegs DEF CpuLpi
  <2> QED BY <2>1, OffRegs, RegsNone DEF FoundRegs, FoundDoms
<1> HIDE DEF c, f, D
<1>4. Regs(c \o f, D)
  BY <1>2, <1>3, RegsConcat
<1> QED BY <1>3, <1>4 DEF c, f, D

\* Accesses with power, and then the rest.
LEMMA SkipRegs ==
    ASSUME NEW t, NEW d, NEW D, NEW a, Regs(a, D), d.power_enabled => \A dom \in D : Lit(t, d, dom),
           NEW b \in Seq(Op)
    PROVE  Run(t, d, a \o b) = Run(t, d, b)
<1>1. a \in Seq(Op)
  BY RegsSeq
<1>2. Run(t, d, a) = d
  BY RunRegs
<1> QED BY <1>1, <1>2, RunConcat

\* The registers of a device that is on can be accessed, those of one that is
\* off are not.
CtlReady(t, d) == d.power_enabled => \A r \in Ctl(t) : d.held[r] > 0

LEMMA SkipCtlRegs ==
    ASSUME NEW t \in Targets, NEW d, CtlReady(t, d),
           NEW a, Regs(a, CtlDoms)
    PROVE  Run(t, d, a) = d /\ \A b \in Seq(Op) : Run(t, d, a \o b) = Run(t, d, b)
<1>1. d.power_enabled => \A dom \in CtlDoms : Lit(t, d, dom)
  BY LitCtl DEF CtlDoms, CtlReady
<1>2. Run(t, d, a) = d
  BY <1>1, RunRegs
<1>3. \A b \in Seq(Op) : Run(t, d, a \o b) = Run(t, d, b)
  BY <1>1, SkipRegs
<1> QED BY <1>2, <1>3

\* A device that can be switched off in this way.
Ready(t, d, how) ==
    /\ d.power_enabled => \A r \in Resources(t) : d.held[r] > 0
    /\ how = "idle" => d.asleep = FALSE

LEMMA SkipFoundRegs ==
    ASSUME NEW t \in Targets, NEW d, NEW how, Ready(t, d, how),
           NEW a, Regs(a, FoundDoms(how))
    PROVE  Run(t, d, a) = d /\ \A b \in Seq(Op) : Run(t, d, a \o b) = Run(t, d, b)
<1>1. Ctl(t) \subseteq Resources(t)
  BY ResourcesLayout
<1>2. CASE how = "idle"
  <2>1. d.power_enabled => \A dom \in Doms : Lit(t, d, dom)
    BY <1>2, LitCore DEF Ready
  <2>2. Regs(a, Doms)
    BY <1>2 DEF FoundDoms
  <2>3. Run(t, d, a) = d
    BY <2>1, <2>2, RunRegs
  <2>4. \A b \in Seq(Op) : Run(t, d, a \o b) = Run(t, d, b)
    BY <2>1, <2>2, SkipRegs
  <2> QED BY <2>3, <2>4
<1>3. CASE how # "idle"
  <2>1. Regs(a, CtlDoms)
    BY <1>3 DEF FoundDoms
  <2>2. CtlReady(t, d)
    BY <1>1 DEF Ready, CtlReady
  <2> QED BY <2>1, <2>2, SkipCtlRegs
<1> QED BY <1>2, <1>3

\* Switching off one list, or one after the other.
LEMMA OffsRelease ==
    ASSUME NEW t, NEW R, NEW d, Counts(d, R), d.asleep \in BOOLEAN,
           NEW rs, Distinct(rs), Range(rs) \subseteq R
    PROVE  /\ Offs(rs) \in Seq(Op)
           /\ Released(t, d, Run(t, d, Offs(rs)), Range(rs)) /\ Counts(Run(t, d, Offs(rs)), R)
           /\ Run(t, d, Offs(rs)).asleep \in BOOLEAN
<1>1. Offs(rs) \in Seq(Op)
  BY DistinctSeq, OffsSeq
<1>2. Released(t, d, Run(t, d, Offs(rs)), Range(rs)) /\ Counts(Run(t, d, Offs(rs)), R)
  BY RunOffs
<1> QED BY <1>1, <1>2 DEF Released

\* power_off_controller switches off the controller and the clocks of Extra.
LEMMA ControllerOff ==
    ASSUME NEW t \in Targets, NEW d, Counts(d, Resources(t)), d.asleep \in BOOLEAN,
           CtlReady(t, d),
           NEW e, e = Run(t, d, power_off_controller(t))
    PROVE  /\ power_off_controller(t) \in Seq(Op)
           /\ Released(t, d, e, Ctl(t) \cup Extra(t)) /\ Counts(e, Resources(t))
<1> DEFINE R == Resources(t)
           regs == OffCtlRegs
<1>0. Regs(regs, CtlDoms) /\ Counts(d, R) /\ R = Ctl(t) \cup Core(t) /\ regs \in Seq(Op)
  BY OffRegs, ResourcesLayout, RegsSeq
<1>1. \A b \in Seq(Op) : Run(t, d, regs \o b) = Run(t, d, b)
  BY <1>0, SkipCtlRegs
<1>2. CASE t = "pakala"
  <2> DEFINE s == OffCtlPakala
  <2>1. power_off_controller(t) = regs \o Offs(s)
    BY <1>2 DEF power_off_controller, power_off_controller_pakala, OffCtlRegs, CpuLpi, VideoLpi,
       SideRegs, enter_cpu_noc_lpi_pakala, enter_video_ctl_noc_lpi_pakala,
       print_sidebandmanager_regs_pakala, OffCtlPakala
  <2>2. Distinct(s) /\ Range(s) = Ctl(t) \cup Extra(t)
    BY <1>2, OffCtlPakalaList, CtlLayout, CoreLayout DEF Extra, Doubly
  <2>3. Range(s) \subseteq R
    BY <1>0, <2>2 DEF Extra
  <2> HIDE DEF s, regs, R
  <2>4. Offs(s) \in Seq(Op) /\ Released(t, d, Run(t, d, Offs(s)), Range(s)) /\ Counts(Run(t, d, Offs(s)), R)
    BY <1>0, <2>2, <2>3, OffsRelease
  <2>5. regs \o Offs(s) \in Seq(Op)
    BY <1>0, <2>4
  <2> QED BY <1>1, <2>1, <2>2, <2>4, <2>5 DEF R
<1>3. CASE t = "glymur"
  <2> DEFINE s == OffCtlGlymur
  <2>1. power_off_controller(t) = regs \o Offs(s)
    BY <1>3 DEF power_off_controller, power_off_controller_glymur, OffCtlRegs, CpuLpi, VideoLpi,
       SideRegs, enter_cpu_noc_lpi_glymur, enter_video_ctl_noc_lpi_glymur,
       print_sidebandmanager_regs_glymur, OffCtlGlymur
  <2>2. Distinct(s) /\ Range(s) = Ctl(t) \cup Extra(t)
    BY <1>3, OffCtlGlymurList, CtlLayout, CoreLayout DEF Extra, Doubly
  <2>3. Range(s) \subseteq R
    BY <1>0, <2>2 DEF Extra
  <2> HIDE DEF s, regs, R
  <2>4. Offs(s) \in Seq(Op) /\ Released(t, d, Run(t, d, Offs(s)), Range(s)) /\ Counts(Run(t, d, Offs(s)), R)
    BY <1>0, <2>2, <2>3, OffsRelease
  <2>5. regs \o Offs(s) \in Seq(Op)
    BY <1>0, <2>4
  <2> QED BY <1>1, <2>1, <2>2, <2>4, <2>5 DEF R
<1>4. CASE t \in {"hawi", "art"}
  <2> DEFINE s == CoreFreerun(t) \o OffCtlHawi
  <2>1. power_off_controller(t) = regs \o Offs(s)
    <3>1. power_off_controller(t) = power_off_controller_hawi(t)
      BY <1>4 DEF power_off_controller
    <3> QED BY <3>1 DEF power_off_controller_hawi, OffCtlRegs, CpuLpi, VideoLpi,
       SideRegs, enter_cpu_noc_lpi_hawi, enter_video_ctl_noc_lpi_hawi,
       print_sidebandmanager_regs_hawi, OffCtlHawi
  <2>2. Distinct(s) /\ Range(s) = Ctl(t) \cup Extra(t)
    <3>1. /\ Distinct(CoreFreerun(t))
          /\ Range(CoreFreerun(t)) = IF t = "art" THEN {"core_freerun_clk"} ELSE {}
      BY CoreFreerunList
    <3>2. Range(CoreFreerun(t)) \cap Range(OffCtlHawi) = {}
      BY <3>1, OffCtlHawiList
    <3>3. Distinct(s) /\ Range(s) = Range(CoreFreerun(t)) \cup Range(OffCtlHawi)
      BY <3>1, <3>2, OffCtlHawiList, DistinctConcat
    <3> HIDE DEF s
    <3>4. CASE t = "hawi"
      BY <3>1, <3>3, <3>4, OffCtlHawiList, CtlLayout, CoreLayout DEF Extra, Doubly
    <3>5. CASE t = "art"
      BY <3>1, <3>3, <3>5, OffCtlHawiList, CtlLayout, CoreLayout DEF Extra, Doubly
    <3> QED BY <1>4, <3>4, <3>5
  <2>3. Range(s) \subseteq R
    BY <1>0, <2>2 DEF Extra
  <2> HIDE DEF s, regs, R
  <2>4. Offs(s) \in Seq(Op) /\ Released(t, d, Run(t, d, Offs(s)), Range(s)) /\ Counts(Run(t, d, Offs(s)), R)
    BY <1>0, <2>2, <2>3, OffsRelease
  <2>5. regs \o Offs(s) \in Seq(Op)
    BY <1>0, <2>4
  <2> QED BY <1>1, <2>1, <2>2, <2>4, <2>5 DEF R
<1>5. CASE t = "kaanapali"
  <2> DEFINE s == OffCtlKaanapali
             a == <<Reg("aon")>>
             u == OffAxiKaanapali
             m == Run(t, d, Offs(s))
             f == Run(t, m, Offs(u))
  <2>1. power_off_controller(t) = ((regs \o Offs(s)) \o a) \o Offs(u)
    BY <1>5 DEF power_off_controller, power_off_controller_kaanapali, OffCtlRegs, CpuLpi, VideoLpi,
       SideRegs, enter_cpu_noc_lpi_kaanapali, enter_video_ctl_noc_lpi_kaanapali,
       print_sidebandmanager_regs_kaanapali, OffCtlKaanapali, OffAxiKaanapali
  <2>2. /\ Distinct(s) /\ Range(s) = {"core_freerun", "eva_freerun", "eva0", "sleep", "eva"}
        /\ Distinct(u) /\ Range(u) = {"core_iface", "eva_iface"}
    BY OffCtlKaanapaliList, OffAxiKaanapaliList
  <2>3. /\ Range(s) \cup Range(u) = Ctl(t) \cup Extra(t) /\ Range(s) \cap Range(u) = {}
        /\ ClocksOf(t, "aon") = Range(u)
    BY <1>5, <2>2, CtlLayout, CoreLayout DEF Extra, Doubly, ClocksOf
  <2>4. Range(s) \subseteq R /\ Range(u) \subseteq R
    BY <1>0, <2>3 DEF Extra
  <2>5. a \in Seq(Op) /\ Regs(a, {"aon"})
    BY Regs1, RegsSeq DEF Doms
  <2> HIDE DEF s, regs, R, a, u, m
  <2>6. Offs(s) \in Seq(Op) /\ Released(t, d, m, Range(s)) /\ Counts(m, R) /\ m.asleep \in BOOLEAN
    BY <1>0, <2>2, <2>4, OffsRelease DEF m
  <2>7. Offs(u) \in Seq(Op) /\ Released(t, m, f, Range(u)) /\ Counts(f, R)
    BY <2>2, <2>4, <2>6, OffsRelease
  <2>8. Run(t, m, a) = m
    <3>1. m.power_enabled = d.power_enabled
      BY <2>6 DEF Released, Only, Fields
    <3>2. ASSUME NEW r \in Range(u), d.held[r] > 0 PROVE m.held[r] > 0
      BY <2>3, <2>4, <2>6, <3>2 DEF Released, Counts
    <3>3. Range(u) \subseteq Ctl(t)
      BY <2>3, ClockLayout
    <3>4. m.power_enabled => Lit(t, m, "aon")
      BY <2>3, <3>1, <3>2, <3>3 DEF Lit, CtlReady
    <3> QED BY <2>5, <3>4, RunRegs
  <2>9. e = f /\ power_off_controller(t) \in Seq(Op)
    <3> DEFINE x == regs \o Offs(s)
               y == x \o a
    <3>1. x \in Seq(Op) /\ Run(t, d, x) = m
      BY <1>0, <1>1, <2>6 DEF m
    <3> HIDE DEF x
    <3>2. y \in Seq(Op) /\ Run(t, d, y) = m
      BY <2>5, <2>8, <3>1, RunConcat
    <3> HIDE DEF y
    <3>3. Run(t, d, y \o Offs(u)) = f /\ y \o Offs(u) \in Seq(Op)
      BY <2>7, <3>2, RunConcat
    <3> QED BY <2>1, <3>3 DEF x, y
  <2> HIDE DEF f
  <2>10. Released(t, d, f, Range(s) \cup Range(u))
    BY <1>0, <2>3, <2>4, <2>6, <2>7, ReleasedTrans
  <2> QED BY <2>3, <2>7, <2>9, <2>10 DEF R
<1> QED BY <1>2, <1>3, <1>4, <1>5 DEF Targets

Ways == {"fw_off", "sw_ctl", "idle"}

\* The clock that two targets switch off with a core that the hardware never had.
SwOff(t, how) ==
    IF how # "sw_ctl" THEN {}
    ELSE IF t = "pakala" THEN {"core_freerun_clk"} ELSE IF t = "glymur" THEN {"core_freerun"} ELSE {}

\* power_off_core switches off the core but for the clocks of Extra.
CoreOffs(t, how) == (Core(t) \ Doubly) \cup SwOff(t, how)

LEMMA SwOffList ==
    ASSUME NEW r \in {"core_freerun_clk", "core_freerun"}
    PROVE  Distinct(<<r>>) /\ Range(<<r>>) = {r} /\ <<Off(r)>> = Offs(<<r>>)
<1>1. r \in Names
  BY DEF Names
<1>2. <<r>> \in Seq(Names)
  BY <1>1, Tuple1
<1>3. <<Off(r)>> = Offs(<<r>>)
  BY DEF Offs
<1> QED BY <1>2, <1>3 DEF Distinct, Range

LEMMA CoreOffSw ==
    ASSUME NEW t \in Targets, NEW d, Counts(d, Resources(t)), d.asleep \in BOOLEAN,
           NEW a, NEW s, Distinct(s), Range(s) \subseteq Resources(t),
           a \in Seq(Op), \A b \in Seq(Op) : Run(t, d, a \o b) = Run(t, d, b),
           NEW r \in {"core_freerun_clk", "core_freerun"}, r \in Resources(t), r \notin Range(s)
    PROVE  /\ LET e == Run(t, d, (a \o Offs(s)) \o <<Off(r)>>)
              IN  Released(t, d, e, Range(s) \cup {r}) /\ Counts(e, Resources(t))
           /\ LET e == Run(t, d, (a \o Offs(s)) \o <<>>)
              IN  Released(t, d, e, Range(s)) /\ Counts(e, Resources(t))
           /\ (a \o Offs(s)) \o <<Off(r)>> \in Seq(Op) /\ (a \o Offs(s)) \o <<>> \in Seq(Op)
<1> DEFINE R == Resources(t)
           m == Run(t, d, Offs(s))
           x == a \o Offs(s)
           u == <<r>>
           f == Run(t, m, Offs(u))
<1>1. Distinct(u) /\ Range(u) = {r} /\ <<Off(r)>> = Offs(u)
  BY SwOffList
<1>0. Counts(d, R) /\ Range(s) \subseteq R /\ Range(u) \subseteq R /\ Range(s) \cap Range(u) = {}
  BY <1>1
<1> HIDE DEF R, m, x, u
<1>2. Offs(s) \in Seq(Op) /\ Released(t, d, m, Range(s)) /\ Counts(m, R) /\ m.asleep \in BOOLEAN
  BY <1>0, OffsRelease DEF m
<1>3. Offs(u) \in Seq(Op) /\ Released(t, m, f, Range(u)) /\ Counts(f, R)
  BY <1>0, <1>1, <1>2, OffsRelease
<1>4. x \in Seq(Op) /\ Run(t, d, x) = m
  BY <1>2 DEF x, m
<1>5. Run(t, d, x \o Offs(u)) = f
  BY <1>3, <1>4, RunConcat
<1>6. Run(t, d, x \o <<>>) = m
  BY <1>4, RunNone
<1>7. Released(t, d, f, Range(s) \cup Range(u))
  BY <1>0, <1>2, <1>3, ReleasedTrans
<1>8. x \o Offs(u) \in Seq(Op) /\ x \o <<>> \in Seq(Op)
  BY <1>3, <1>4
<1> QED BY <1>1, <1>2, <1>3, <1>5, <1>6, <1>7, <1>8 DEF x, R

LEMMA CoreOff ==
    ASSUME NEW t \in Targets, NEW how \in Ways, NEW d, Counts(d, Resources(t)), d.asleep \in BOOLEAN,
           Ready(t, d, how),
           NEW e, e = Run(t, d, power_off_core(t, how))
    PROVE  /\ power_off_core(t, how) \in Seq(Op)
           /\ Released(t, d, e, CoreOffs(t, how)) /\ Counts(e, Resources(t))
<1> DEFINE R == Resources(t)
           c == <<Reg("ctl")>>
           a == c \o FoundRegs(how)
<1>0. /\ Regs(a, FoundDoms(how)) /\ Counts(d, R)
      /\ R = Ctl(t) \cup Core(t) /\ a \in Seq(Op)
  BY FoundIsRegs, ResourcesLayout, RegsSeq
<1>1. \A b \in Seq(Op) : Run(t, d, a \o b) = Run(t, d, b)
  <2> HIDE DEF a
  <2> QED BY <1>0, SkipFoundRegs
<1>2. CASE t = "pakala"
  <2> DEFINE s == OffCorePakala
             r == "core_freerun_clk"
  <2>1. /\ Distinct(s) /\ Range(s) = {"core", "core_clk"}
        /\ Core(t) = {"core", "eva_cc_mvs0_clk_src", "core_clk", "core_freerun_clk"}
    BY <1>2, OffCorePakalaList, CoreLayout
  <2>2. Range(s) \subseteq R /\ r \in R /\ r \notin Range(s) /\ r \in {"core_freerun_clk", "core_freerun"}
    BY <1>0, <2>1
  <2>3. CoreOffs(t, how) = IF how = "sw_ctl" THEN Range(s) \cup {r} ELSE Range(s)
    BY <1>2, <2>1 DEF CoreOffs, SwOff, Doubly
  <2>4. power_off_core(t, how) = (a \o Offs(s)) \o (IF how = "sw_ctl" THEN <<Off(r)>> ELSE <<>>)
    <3>1. power_off_core(t, how) = power_off_core_pakala(how)
      BY <1>2 DEF power_off_core
    <3>2. CASE how = "idle"
      BY <3>1, <3>2 DEF power_off_core_pakala, FoundRegs, IdleRegs, CoreLpi, SideRegs, OffCorePakala,
         enter_core_noc_lpi_pakala, print_sidebandmanager_regs_pakala
    <3>3. CASE how = "fw_off"
      BY <3>1, <3>3 DEF power_off_core_pakala, FoundRegs, SideRegs, OffCorePakala,
         print_sidebandmanager_regs_pakala
    <3>4. CASE how = "sw_ctl"
      BY <3>1, <3>4 DEF power_off_core_pakala, FoundRegs, OffCorePakala
    <3> QED BY <3>2, <3>3, <3>4 DEF Ways
  <2> HIDE DEF s, a, r
  <2>5. /\ Released(t, d, Run(t, d, (a \o Offs(s)) \o <<Off(r)>>), Range(s) \cup {r})
        /\ Counts(Run(t, d, (a \o Offs(s)) \o <<Off(r)>>), R)
        /\ Released(t, d, Run(t, d, (a \o Offs(s)) \o <<>>), Range(s))
        /\ Counts(Run(t, d, (a \o Offs(s)) \o <<>>), R)
        /\ (a \o Offs(s)) \o <<Off(r)>> \in Seq(Op) /\ (a \o Offs(s)) \o <<>> \in Seq(Op)
    BY <1>0, <1>1, <2>1, <2>2, CoreOffSw
  <2> HIDE DEF R
  <2>6. CASE how = "sw_ctl"
    BY <2>3, <2>4, <2>5, <2>6 DEF R
  <2>7. CASE how # "sw_ctl"
    BY <2>3, <2>4, <2>5, <2>7 DEF R
  <2> QED BY <2>6, <2>7
<1>3. CASE t = "glymur"
  <2> DEFINE s == OffCoreEva
             r == "core_freerun"
  <2>1. Distinct(s) /\ Range(s) = {"core", "core0"} /\ Core(t) = {"core", "core0", "core_freerun"}
    BY <1>3, OffCoreEvaList, CoreLayout
  <2>2. Range(s) \subseteq R /\ r \in R /\ r \notin Range(s) /\ r \in {"core_freerun_clk", "core_freerun"}
    BY <1>0, <2>1
  <2>3. CoreOffs(t, how) = IF how = "sw_ctl" THEN Range(s) \cup {r} ELSE Range(s)
    BY <1>3, <2>1 DEF CoreOffs, SwOff, Doubly
  <2>4. power_off_core(t, how) = (a \o Offs(s)) \o (IF how = "sw_ctl" THEN <<Off(r)>> ELSE <<>>)
    <3>1. power_off_core(t, how) = power_off_core_glymur(how)
      BY <1>3 DEF power_off_core
    <3>2. CASE how = "idle"
      BY <3>1, <3>2 DEF power_off_core_glymur, FoundRegs, IdleRegs, CoreLpi, SideRegs, OffCoreEva,
         enter_core_noc_lpi_glymur, print_sidebandmanager_regs_glymur
    <3>3. CASE how = "fw_off"
      BY <3>1, <3>3 DEF power_off_core_glymur, FoundRegs, SideRegs, OffCoreEva,
         print_sidebandmanager_regs_glymur
    <3>4. CASE how = "sw_ctl"
      BY <3>1, <3>4 DEF power_off_core_glymur, FoundRegs, OffCoreEva
    <3> QED BY <3>2, <3>3, <3>4 DEF Ways
  <2> HIDE DEF s, a, r
  <2>5. /\ Released(t, d, Run(t, d, (a \o Offs(s)) \o <<Off(r)>>), Range(s) \cup {r})
        /\ Counts(Run(t, d, (a \o Offs(s)) \o <<Off(r)>>), R)
        /\ Released(t, d, Run(t, d, (a \o Offs(s)) \o <<>>), Range(s))
        /\ Counts(Run(t, d, (a \o Offs(s)) \o <<>>), R)
        /\ (a \o Offs(s)) \o <<Off(r)>> \in Seq(Op) /\ (a \o Offs(s)) \o <<>> \in Seq(Op)
    BY <1>0, <1>1, <2>1, <2>2, CoreOffSw
  <2> HIDE DEF R
  <2>6. CASE how = "sw_ctl"
    BY <2>3, <2>4, <2>5, <2>6 DEF R
  <2>7. CASE how # "sw_ctl"
    BY <2>3, <2>4, <2>5, <2>7 DEF R
  <2> QED BY <2>6, <2>7
<1>4. CASE t = "kaanapali"
  <2> DEFINE s == OffCoreEva
  <2>1. Distinct(s) /\ Range(s) = CoreOffs(t, how)
    BY <1>4, OffCoreEvaList, CoreLayout DEF CoreOffs, SwOff, Doubly
  <2>2. Range(s) \subseteq R
    BY <1>0, <1>4, <2>1 DEF CoreOffs, SwOff
  <2>3. power_off_core(t, how) = a \o Offs(s)
    <3>1. power_off_core(t, how) = power_off_core_kaanapali(how)
      BY <1>4 DEF power_off_core
    <3> QED BY <3>1 DEF power_off_core_kaanapali, FoundRegs, IdleRegs, CoreLpi, SideRegs, OffCoreEva,
         enter_core_noc_lpi_kaanapali, print_sidebandmanager_regs_kaanapali
  <2> HIDE DEF s, a, R
  <2>4. Offs(s) \in Seq(Op) /\ Released(t, d, Run(t, d, Offs(s)), Range(s)) /\ Counts(Run(t, d, Offs(s)), R)
    BY <1>0, <2>1, <2>2, OffsRelease
  <2>5. a \o Offs(s) \in Seq(Op)
    BY <1>0, <2>4
  <2> QED BY <1>1, <2>1, <2>3, <2>4, <2>5 DEF R
<1>5. CASE t \in {"hawi", "art"}
  <2>0. power_off_core(t, how) = power_off_core_hawi(t, how)
    BY <1>5 DEF power_off_core
  <2>1. /\ Distinct(CxPd(t)) /\ Range(CxPd(t)) = IF t = "art" THEN {} ELSE {"core_noc_cx_pd"}
        /\ Distinct(OffCoreHawi) /\ Range(OffCoreHawi) = {"core_pd", "core_clk"}
        /\ Distinct(OffNocHawi) /\ Range(OffNocHawi) = {"core_noc_mm_pd"}
        /\ Distinct(OffAllHawi) /\ Range(OffAllHawi) = {"core_noc_mm_pd", "core_pd", "core_clk"}
    BY CxPdList, OffCoreHawiList, OffNocHawiList, OffAllHawiList
  <2>2. /\ CoreOffs(t, how) = {"core_noc_mm_pd", "core_pd", "core_clk"} \cup Range(CxPd(t))
        /\ CoreOffs(t, how) \subseteq R
    <3>1. CASE t = "hawi"
      BY <1>0, <2>1, <3>1, CoreLayout DEF CoreOffs, SwOff, Doubly
    <3>2. CASE t = "art"
      BY <1>0, <2>1, <3>2, CoreLayout DEF CoreOffs, SwOff, Doubly
    <3> QED BY <1>5, <3>1, <3>2
  <2>3. CASE how = "idle"
    <3> DEFINE u == <<Reg("ctl"), Reg("core"), Reg("ctl")>>
               s == OffCoreHawi
               v == OffNocHawi \o CxPd(t)
               w == (u \o Offs(s)) \o Offs(v)
    <3>1. power_off_core(t, how) = c \o w
      BY <2>0, <2>3 DEF power_off_core_hawi, power_off_core_noc_hawi, OffCoreHawi, OffNocHawi
    <3>2. Regs(u, Doms) /\ u \in Seq(Op) /\ Regs(c, Doms)
      <4>1. Doms \subseteq Doms /\ "ctl" \in Doms /\ "core" \in Doms
        BY DEF Doms
      <4>2. Regs(u, Doms)
        BY <4>1, Regs3
      <4>3. Regs(c, Doms)
        BY <4>1, Regs1
      <4> QED BY <4>2, <4>3, RegsSeq
    <3>3. Range(OffNocHawi) \cap Range(CxPd(t)) = {}
      BY <2>1
    <3>4. Distinct(v) /\ Range(v) = Range(OffNocHawi) \cup Range(CxPd(t))
      BY <2>1, <3>3, DistinctConcat
    <3>5. Distinct(s) /\ Range(s) \subseteq R /\ Range(v) \subseteq R /\ Range(s) \cap Range(v) = {}
          /\ Range(s) \cup Range(v) = CoreOffs(t, how)
      BY <2>1, <2>2, <3>4
    <3>11. Doms = FoundDoms(how)
      BY <2>3 DEF FoundDoms
    <3> HIDE DEF u, s, v, c
    <3>6. /\ \A b \in Seq(Op) : Run(t, d, u \o b) = Run(t, d, b)
          /\ \A b \in Seq(Op) : Run(t, d, c \o b) = Run(t, d, b)
      BY <3>2, <3>11, SkipFoundRegs
    <3> HIDE DEF R
    <3> DEFINE m == Run(t, d, Offs(s))
               f == Run(t, m, Offs(v))
    <3>7. Offs(s) \in Seq(Op) /\ Released(t, d, m, Range(s)) /\ Counts(m, R) /\ m.asleep \in BOOLEAN
      BY <1>0, <3>5, OffsRelease
    <3> HIDE DEF m
    <3>8. Offs(v) \in Seq(Op) /\ Released(t, m, f, Range(v)) /\ Counts(f, R)
      BY <3>4, <3>5, <3>7, OffsRelease
    <3>9. Released(t, d, f, Range(s) \cup Range(v))
      BY <1>0, <3>5, <3>7, <3>8, ReleasedTrans
    <3>10. e = f /\ power_off_core(t, how) \in Seq(Op)
      <4> DEFINE x == u \o Offs(s)
      <4>1. x \in Seq(Op) /\ Run(t, d, x) = m
        BY <3>2, <3>6, <3>7 DEF m
      <4> HIDE DEF x
      <4>2. Run(t, d, x \o Offs(v)) = f /\ x \o Offs(v) \in Seq(Op)
        BY <3>8, <4>1, RunConcat
      <4>3. w = x \o Offs(v)
        BY DEF x
      <4> HIDE DEF w
      <4>4. c \in Seq(Op)
        BY <3>2, RegsSeq
      <4>5. w \in Seq(Op)
        BY <4>2, <4>3
      <4>6. c \o w \in Seq(Op)
        BY <4>4, <4>5
      <4> QED BY <3>1, <3>6, <4>2, <4>3, <4>6
    <3> QED BY <3>5, <3>8, <3>9, <3>10 DEF R
  <2>4. CASE how # "idle"
    <3> DEFINE g == FoundRegs(how)
               v == CxPd(t) \o OffAllHawi
               w == g \o Offs(v)
    <3>1. power_off_core(t, how) = c \o w
      BY <2>0, <2>4 DEF power_off_core_hawi, FoundRegs, SideRegs, OffAllHawi,
         print_sidebandmanager_regs_hawi
    <3>10. CtlDoms = FoundDoms(how)
      BY <2>4 DEF FoundDoms
    <3>2. Regs(g, CtlDoms) /\ g \in Seq(Op) /\ Regs(c, CtlDoms)
      BY <3>10, FoundIsRegs, OffRegs, RegsSeq
    <3>3. Range(CxPd(t)) \cap Range(OffAllHawi) = {}
      BY <2>1
    <3>4. Distinct(v) /\ Range(v) = Range(CxPd(t)) \cup Range(OffAllHawi)
      BY <2>1, <3>3, DistinctConcat
    <3>5. Range(v) = CoreOffs(t, how) /\ Range(v) \subseteq R
      BY <2>1, <2>2, <3>4
    <3> HIDE DEF g, v, c
    <3>6. /\ \A b \in Seq(Op) : Run(t, d, g \o b) = Run(t, d, b)
          /\ \A b \in Seq(Op) : Run(t, d, c \o b) = Run(t, d, b)
      BY <3>2, <3>10, SkipFoundRegs
    <3> HIDE DEF R
    <3>7. Offs(v) \in Seq(Op) /\ Released(t, d, Run(t, d, Offs(v)), Range(v))
          /\ Counts(Run(t, d, Offs(v)), R)
      BY <1>0, <3>4, <3>5, OffsRelease
    <3>8. w \in Seq(Op) /\ Run(t, d, w) = Run(t, d, Offs(v))
      BY <3>2, <3>6, <3>7
    <3> HIDE DEF w
    <3>9. e = Run(t, d, Offs(v))
      BY <3>1, <3>6, <3>8
    <3>11. c \in Seq(Op)
      BY <3>2, RegsSeq
    <3>12. power_off_core(t, how) \in Seq(Op)
      BY <3>1, <3>8, <3>11
    <3> QED BY <3>5, <3>7, <3>9, <3>12 DEF R
  <2> QED BY <2>3, <2>4
<1> QED BY <1>2, <1>3, <1>4, <1>5 DEF Targets

-----------------------------------------------------------------------------
\* What is true of a device between two calls.

LeaksOf(t) == {"stuck", "check", "take_back"} \cup (IF t = "pakala" THEN {"controller"} ELSE {})
DoubleFaults == {"core", "stuck", "hwpc", "queues", "load", "tz_resume"}

\* The reference of a device that is on.
One(d) == IF d.power_enabled THEN 1 ELSE 0

\* Every resource is held once while the device is on and at most once more
\* for every call that failed; exactly so as long as nothing leaked.
HeldSound(t, d) ==
    /\ d.held \in [Resources(t) -> Nat] /\ d.left \in 0..MaxFaults
    /\ \A r \in Resources(t) : One(d) <= d.held[r] /\ d.held[r] <= (MaxFaults - d.left) + One(d)
    /\ d.faults \cap LeaksOf(t) = {} => \A r \in Resources(t) : d.held[r] = One(d)

HwSound(t, d) ==
    /\ d.hwctl \subseteq Range(CoreGdscs(t))
    /\ "take_back" \notin d.faults =>
         d.hwctl \in {{}, Range(CoreGdscs(t))} /\ (d.hwctl # {} => d.power_enabled)

BadSound(t, d) == d.bad \subseteq Extra(t) /\ (d.bad # {} => d.faults \cap DoubleFaults # {})

DarkSound(d) == d.dark \subseteq Doms /\ ("dump" \notin d.faults => d.dark = {})

Sound(t, d) ==
    /\ IsDev(d) /\ d.power_enabled \in BOOLEAN /\ d.voted = d.power_enabled
    /\ d.asleep = FALSE /\ d.jam = {}
    /\ HeldSound(t, d) /\ HwSound(t, d) /\ BadSound(t, d) /\ DarkSound(d)

\* A core that is on under the driver's control, where it should have been
\* handed over: something failed on the way.
Controlled(t, d) ==
    LowPower /\ d.power_enabled /\ CoreGdscs(t)[1] \notin d.hwctl =>
        d.faults \cap {"hwpc", "queues", "load", "tz_resume"} # {}

\* e is d but for fields that neither of these reads, and new failures.
Quiet(d, e) ==
    /\ IsDev(e) /\ d.faults \subseteq e.faults /\ e.left \in 0..d.left
    /\ \A f \in {"held", "hwctl", "jam", "asleep", "bad", "dark", "power_enabled", "voted"} : e[f] = d[f]

LEMMA QuietFields ==
    ASSUME NEW d, NEW e, Quiet(d, e)
    PROVE  /\ e.held = d.held /\ e.hwctl = d.hwctl /\ e.jam = d.jam /\ e.asleep = d.asleep
           /\ e.bad = d.bad /\ e.dark = d.dark /\ e.power_enabled = d.power_enabled
           /\ e.voted = d.voted /\ d.faults \subseteq e.faults /\ IsDev(e) /\ e.left \in 0..d.left
  BY DEF Quiet

LEMMA QuietSound ==
    ASSUME NEW t, NEW d, Sound(t, d), NEW e, Quiet(d, e)
    PROVE  Sound(t, e) /\ (Controlled(t, d) => Controlled(t, e))
<1>1. /\ e.held = d.held /\ e.hwctl = d.hwctl /\ e.jam = d.jam /\ e.asleep = d.asleep
      /\ e.bad = d.bad /\ e.dark = d.dark /\ e.power_enabled = d.power_enabled
      /\ e.voted = d.voted /\ d.faults \subseteq e.faults /\ IsDev(e) /\ e.left \in 0..d.left
  BY QuietFields
<1>0. MaxFaults \in Nat
  BY PowerAssumption
<1>2. HeldSound(t, d) /\ HwSound(t, d) /\ BadSound(t, d) /\ DarkSound(d) /\ d.power_enabled \in BOOLEAN
  BY DEF Sound
<1>3. One(e) = One(d) /\ One(d) \in 0..1
  BY <1>1 DEF One
<1>4. HeldSound(t, e)
  <2>1. /\ d.held \in [Resources(t) -> Nat] /\ d.left \in 0..MaxFaults
        /\ \A r \in Resources(t) : One(d) <= d.held[r] /\ d.held[r] <= (MaxFaults - d.left) + One(d)
    BY <1>2 DEF HeldSound
  <2>2. e.held \in [Resources(t) -> Nat] /\ e.left \in 0..MaxFaults
    BY <1>0, <1>1, <2>1
  <2>3. ASSUME NEW r \in Resources(t)
        PROVE  One(e) <= e.held[r] /\ e.held[r] <= (MaxFaults - e.left) + One(e)
    <3>1. d.held[r] \in Nat /\ One(d) <= d.held[r] /\ d.held[r] <= (MaxFaults - d.left) + One(d)
      BY <2>1
    <3> HIDE DEF One
    <3> QED BY <1>0, <1>1, <1>3, <2>1, <2>2, <3>1
  <2>4. e.faults \cap LeaksOf(t) = {} => \A r \in Resources(t) : e.held[r] = One(e)
    <3>1. e.faults \cap LeaksOf(t) = {} => d.faults \cap LeaksOf(t) = {}
      BY <1>1
    <3> QED BY <1>1, <1>2, <1>3, <3>1 DEF HeldSound
  <2> QED BY <2>2, <2>3, <2>4 DEF HeldSound
<1>5. HwSound(t, e)
  BY <1>1, <1>2 DEF HwSound
<1>6. BadSound(t, e)
  <2>1. d.faults \cap DoubleFaults # {} => e.faults \cap DoubleFaults # {}
    BY <1>1
  <2> QED BY <1>1, <1>2, <2>1 DEF BadSound
<1>7. DarkSound(e)
  BY <1>1, <1>2 DEF DarkSound
<1>8. Sound(t, e)
  BY <1>1, <1>4, <1>5, <1>6, <1>7 DEF Sound
<1>9. Controlled(t, d) => Controlled(t, e)
  BY <1>1 DEF Controlled
<1> QED BY <1>8, <1>9

\* A call that failed leaves something on, at worst.
LEMMA FailSound ==
    ASSUME NEW t, NEW d, Sound(t, d), d.power_enabled = FALSE, NEW e, IsDev(e),
           d.left > 0, e.left = d.left - 1, d.faults \subseteq e.faults,
           e.power_enabled = FALSE, e.voted = FALSE, e.asleep = FALSE, e.jam = {},
           e.held \in [Resources(t) -> Nat], \A r \in Resources(t) : e.held[r] <= d.held[r] + 1,
           e.faults \cap LeaksOf(t) = {} => \A r \in Resources(t) : e.held[r] = 0,
           e.hwctl \subseteq d.hwctl, e.dark = d.dark, e.bad \subseteq d.bad \cup Extra(t),
           e.bad # d.bad => e.faults \cap DoubleFaults # {}
    PROVE  Sound(t, e)
<1>0. MaxFaults \in Nat
  BY PowerAssumption
<1>1. /\ d.held \in [Resources(t) -> Nat] /\ d.left \in 0..MaxFaults
      /\ \A r \in Resources(t) : d.held[r] <= (MaxFaults - d.left) + 0
  BY DEF Sound, HeldSound, One
<1>2. HeldSound(t, e)
  <2>1. e.left \in 0..MaxFaults
    BY <1>0, <1>1
  <2>2. ASSUME NEW r \in Resources(t) PROVE 0 <= e.held[r] /\ e.held[r] <= (MaxFaults - e.left) + 0
    <3>1. d.held[r] \in Nat /\ e.held[r] \in Nat /\ d.held[r] <= (MaxFaults - d.left) + 0
          /\ e.held[r] <= d.held[r] + 1
      BY <1>1
    <3> QED BY <1>0, <1>1, <3>1
  <2>3. One(e) = 0
    BY DEF One
  <2> QED BY <2>1, <2>2, <2>3 DEF HeldSound
<1>3. HwSound(t, e)
  <2>1. /\ d.hwctl \subseteq Range(CoreGdscs(t))
        /\ "take_back" \notin d.faults => d.hwctl = {}
    BY DEF Sound, HwSound
  <2> QED BY <2>1 DEF HwSound
<1>4. BadSound(t, e)
  <2>1. d.bad \subseteq Extra(t) /\ (d.bad # {} => d.faults \cap DoubleFaults # {})
    BY DEF Sound, BadSound
  <2>2. d.faults \cap DoubleFaults # {} => e.faults \cap DoubleFaults # {}
    OBVIOUS
  <2> QED BY <2>1, <2>2 DEF BadSound
<1>5. DarkSound(e)
  BY DEF Sound, DarkSound
<1> QED BY <1>2, <1>3, <1>4, <1>5 DEF Sound

-----------------------------------------------------------------------------
\* Switching the controller and the core on.

LEMMA FailFields ==
    ASSUME NEW d, IsDev(d), NEW kind
    PROVE  /\ Only(d, Fail(d, kind), {"left", "faults"}) /\ Fail(d, kind).left = d.left - 1
           /\ Fail(d, kind).faults = d.faults \cup {kind} /\ IsDev(Fail(d, kind))
  BY DEF Fail, Only, IsDev, Fields

\* Ready to be switched on.
Resting(t, d) ==
    Counts(d, Resources(t)) /\ d.power_enabled = FALSE /\ d.asleep = FALSE /\ d.jam = {}

LEMMA FailResting ==
    ASSUME NEW t, NEW d, Resting(t, d), NEW kind PROVE Resting(t, Fail(d, kind))
<1>1. IsDev(d)
  BY DEF Resting, Counts
<1>2. Only(d, Fail(d, kind), {"left", "faults"}) /\ IsDev(Fail(d, kind))
  BY <1>1, FailFields
<1>3. /\ Fail(d, kind).held = d.held /\ Fail(d, kind).asleep = d.asleep
      /\ Fail(d, kind).jam = d.jam /\ Fail(d, kind).power_enabled = d.power_enabled
  BY <1>2 DEF Only, Fields
<1> QED BY <1>2, <1>3 DEF Resting, Counts

LEMMA PowerControllerStep ==
    ASSUME NEW t \in Targets, NEW d, Resting(t, d), NEW o \in PowerController(t, d)
    PROVE  /\ Counts(o.d, Resources(t))
           /\ o.ok => Taken(d, o.d, Ctl(t))
           /\ ~o.ok => /\ d.left # 0
                       /\ \E kind \in {"stuck", "controller"}, X \in SUBSET Ctl(t) :
                            Backed(Fail(d, kind), o.d, X) /\ (kind \notin LeaksOf(t) => X = {})
<1>0. Counts(d, Resources(t)) /\ d.power_enabled = FALSE /\ IsDev(d)
  BY DEF Resting, Counts
<1>1. CASE o = Ok(Run(t, d, power_on_controller(t, 0, FALSE)))
  <2>1. o.ok /\ o.d = Run(t, d, power_on_controller(t, 0, FALSE))
    BY <1>1, Outcome
  <2> QED BY <1>0, <2>1, ControllerOn
<1>2. CASE /\ d.left # 0
           /\ \E k \in Switches(power_on_controller(t, 0, FALSE)) :
                o = Err(Run(t, Fail(d, IF StuckController(t, k) THEN "stuck" ELSE "controller"),
                            power_on_controller(t, k, StuckController(t, k))))
  <2>1. PICK k \in 1..Len(CtlSeq(t)) :
                o = Err(Run(t, Fail(d, IF StuckController(t, k) THEN "stuck" ELSE "controller"),
                            power_on_controller(t, k, StuckController(t, k))))
    BY <1>2, ResourcesLayout
  <2> DEFINE s == StuckController(t, k)
             kind == IF s THEN "stuck" ELSE "controller"
             m == Missed(t, k)
             X == LeftOn(CtlSeq(t), k, s, m)
             e == Fail(d, kind)
             f == Run(t, e, power_on_controller(t, k, s))
  <2>2. o = Err(f)
    BY <2>1
  <2>3. s \in BOOLEAN
    BY DEF StuckController
  <2>4. kind \notin LeaksOf(t) => ~s /\ m = 0
    BY DEF LeaksOf, Missed
  <2>5. k \in Nat
    <3>1. Len(CtlSeq(t)) \in Nat
      BY CtlLayout, DistinctSeq
    <3> QED BY <3>1
  <2> HIDE DEF s, m
  <2>6. kind \in {"stuck", "controller"}
    OBVIOUS
  <2>7. kind \notin LeaksOf(t) => X = {}
    BY <2>4, <2>5, LeftNone
  <2> HIDE DEF kind
  <2>8. Resting(t, e)
    BY FailResting
  <2> HIDE DEF e
  <2>9. Counts(e, Resources(t)) /\ e.asleep = FALSE /\ e.jam = {}
    BY <2>8 DEF Resting
  <2> HIDE DEF f, X
  <2>10. Counts(f, Resources(t)) /\ Backed(e, f, X) /\ X \subseteq Ctl(t)
    BY <2>3, <2>9, ControllerFails DEF f, X, m
  <2>11. ~o.ok /\ o.d = f
    BY <2>2, Outcome
  <2> QED BY <1>2, <2>6, <2>7, <2>10, <2>11 DEF e
<1> QED BY <1>1, <1>2 DEF PowerController

LEMMA PowerCoreStep ==
    ASSUME NEW t \in Targets, NEW d, Resting(t, d), NEW o \in PowerCore(t, d)
    PROVE  /\ Counts(o.d, Resources(t))
           /\ o.ok => Taken(d, o.d, Core(t))
           /\ ~o.ok => /\ d.left # 0
                       /\ \E kind \in {"stuck", "core"}, X \in SUBSET Core(t) :
                            Backed(Fail(d, kind), o.d, X) /\ (kind = "core" => X = {})
<1>0. Counts(d, Resources(t)) /\ IsDev(d)
  BY DEF Resting, Counts
<1>1. CASE o = Ok(Run(t, d, power_on_core(t, 0, FALSE)))
  <2>1. o.ok /\ o.d = Run(t, d, power_on_core(t, 0, FALSE))
    BY <1>1, Outcome
  <2> QED BY <1>0, <2>1, CoreOn
<1>2. CASE /\ d.left # 0
           /\ \E k \in Switches(power_on_core(t, 0, FALSE)) :
                o = Err(Run(t, Fail(d, IF StuckCore(t, k) THEN "stuck" ELSE "core"),
                            power_on_core(t, k, StuckCore(t, k))))
  <2>1. PICK k \in 1..Len(CoreSeq(t)) :
                o = Err(Run(t, Fail(d, IF StuckCore(t, k) THEN "stuck" ELSE "core"),
                            power_on_core(t, k, StuckCore(t, k))))
    BY <1>2, ResourcesLayout
  <2> DEFINE s == StuckCore(t, k)
             kind == IF s THEN "stuck" ELSE "core"
             X == LeftOn(CoreSeq(t), k, s, 0)
             e == Fail(d, kind)
             f == Run(t, e, power_on_core(t, k, s))
  <2>2. o = Err(f)
    BY <2>1
  <2>3. s \in BOOLEAN
    BY DEF StuckCore
  <2>5. k \in Nat
    <3>1. Len(CoreSeq(t)) \in Nat
      BY CoreLayout, DistinctSeq
    <3> QED BY <3>1
  <2> HIDE DEF s
  <2>4. kind = "core" => ~s
    OBVIOUS
  <2>6. kind \in {"stuck", "core"}
    OBVIOUS
  <2>7. kind = "core" => X = {}
    BY <2>4, <2>5, LeftNone
  <2> HIDE DEF kind
  <2>8. Resting(t, e)
    BY FailResting
  <2> HIDE DEF e
  <2>9. Counts(e, Resources(t)) /\ e.asleep = FALSE /\ e.jam = {}
    BY <2>8 DEF Resting
  <2> HIDE DEF f, X
  <2>10. Counts(f, Resources(t)) /\ Backed(e, f, X) /\ X \subseteq Core(t)
    BY <2>3, <2>9, CoreFails DEF f, X
  <2>11. ~o.ok /\ o.d = f
    BY <2>2, Outcome
  <2> QED BY <1>2, <2>6, <2>7, <2>10, <2>11 DEF e
<1> QED BY <1>1, <1>2 DEF PowerCore

\* The other register accesses.
LEMMA OnRegs ==
    ASSUME NEW t \in Targets
    PROVE  /\ Regs(noc_lpi(t), Doms) /\ Regs(set_registers(t), Doms)
           /\ check_core_power_on(t) = <<Reg("ctl")>> /\ check_ctl_power_on(t) = <<Reg("ctl")>>
           /\ interrupt_init(t) = <<Reg("ctl")>> /\ setup_dsp_uc_memmap(t) = <<Reg("ctl")>>
           /\ Regs(dump_noc_regs(t), Doms)
<1>0. CtlDoms \subseteq Doms /\ Doms \subseteq Doms /\ "ctl" \in Doms /\ "core" \in Doms /\ "aon" \in Doms
  BY DEF CtlDoms, Doms
<1>1. Regs(CpuLpi, Doms) /\ Regs(VideoLpi, Doms) /\ Regs(CoreLpi, Doms)
  BY <1>0, OffRegs, RegsMono
<1>2. Regs(CpuLpi \o VideoLpi, Doms)
  BY <1>1, RegsConcat
<1>3. Regs((CpuLpi \o VideoLpi) \o CoreLpi, Doms)
  BY <1>1, <1>2, RegsConcat
<1>4. noc_lpi(t) \in {<<>>, CpuLpi \o VideoLpi, (CpuLpi \o VideoLpi) \o CoreLpi}
  <2>1. noc_lpi_kaanapali = (CpuLpi \o VideoLpi) \o CoreLpi
    BY DEF noc_lpi_kaanapali, CpuLpi, VideoLpi, CoreLpi, SideRegs, enter_cpu_noc_lpi_kaanapali,
       enter_video_ctl_noc_lpi_kaanapali, enter_core_noc_lpi_kaanapali,
       print_sidebandmanager_regs_kaanapali
  <2>2. noc_lpi_hawi = CpuLpi \o VideoLpi
    BY DEF noc_lpi_hawi, CpuLpi, VideoLpi, SideRegs, enter_cpu_noc_lpi_hawi,
       enter_video_ctl_noc_lpi_hawi, print_sidebandmanager_regs_hawi
  <2> QED BY <2>1, <2>2 DEF noc_lpi, Targets
<1>5. Regs(noc_lpi(t), Doms)
  BY <1>2, <1>3, <1>4, RegsNone
<1>6. Regs(<<Reg("core"), Reg("aon"), Reg("ctl"), Reg("core")>>, Doms)
  BY <1>0, Regs4
<1>7. Regs(set_registers(t), Doms)
  BY <1>6 DEF set_registers, set_registers_pakala, set_registers_kaanapali, set_registers_hawi,
     set_registers_glymur, Targets
<1>8. Regs(<<Reg("ctl"), Reg("core"), Reg("ctl")>>, Doms) /\ Regs(<<Reg("ctl")>>, Doms)
  BY <1>0, Regs1, Regs3
<1>9. Regs(<<Reg("ctl")>> \o <<Reg("ctl"), Reg("core"), Reg("ctl")>>, Doms)
  <2> DEFINE a == <<Reg("ctl")>>
             b == <<Reg("ctl"), Reg("core"), Reg("ctl")>>
  <2>1. Regs(a, Doms) /\ Regs(b, Doms)
    BY <1>8
  <2> HIDE DEF a, b
  <2>2. Regs(a \o b, Doms)
    BY <2>1, RegsConcat
  <2> QED BY <2>2 DEF a, b
<1>10. Regs(dump_noc_regs(t), Doms)
  BY <1>8, <1>9 DEF dump_noc_regs, dump_noc_regs_pakala, dump_noc_regs_kaanapali, dump_noc_regs_hawi,
     dump_noc_regs_glymur, clear_pd_noc_req, Targets
<1>11. check_core_power_on(t) = <<Reg("ctl")>> /\ check_ctl_power_on(t) = <<Reg("ctl")>>
  BY DEF check_core_power_on, check_ctl_power_on, check_core_power_on_pakala,
     check_core_power_on_kaanapali, check_core_power_on_hawi, check_core_power_on_glymur,
     check_ctl_power_on_pakala, check_ctl_power_on_kaanapali, check_ctl_power_on_hawi,
     check_ctl_power_on_glymur, Targets
<1>12. interrupt_init(t) = <<Reg("ctl")>> /\ setup_dsp_uc_memmap(t) = <<Reg("ctl")>>
  BY DEF interrupt_init, setup_dsp_uc_memmap, interrupt_init_pakala, interrupt_init_kaanapali,
     interrupt_init_hawi, interrupt_init_glymur, setup_dsp_uc_memmap_pakala,
     setup_dsp_uc_memmap_kaanapali, setup_dsp_uc_memmap_hawi, setup_dsp_uc_memmap_glymur, Targets
<1> QED BY <1>5, <1>7, <1>10, <1>11, <1>12

StartRegs(t) == <<Reg("ctl"), Reg("ctl")>> \o noc_lpi(t) \o set_registers(t)
                \o check_core_power_on(t) \o check_ctl_power_on(t)
DumpRegs(t) == <<Reg("ctl")>> \o check_ctl_power_on(t) \o dump_noc_regs(t)

LEMMA AccessRegs ==
    ASSUME NEW t \in Targets
    PROVE  /\ Regs(StartRegs(t), Doms) /\ Regs(DumpRegs(t), Doms)
           /\ Regs(interrupt_init(t) \o <<Reg("ctl")>>, CtlDoms)
           /\ Regs(setup_dsp_uc_memmap(t), CtlDoms) /\ Regs(<<Reg("ctl")>>, CtlDoms)
<1> DEFINE c == <<Reg("ctl")>>
           cc == <<Reg("ctl"), Reg("ctl")>>
           n == noc_lpi(t)
           s == set_registers(t)
           u == dump_noc_regs(t)
<1>0. CtlDoms \subseteq Doms /\ Doms \subseteq Doms /\ "ctl" \in Doms
  BY DEF CtlDoms, Doms
<1>1. Regs(c, CtlDoms) /\ Regs(c, Doms) /\ Regs(cc, Doms)
  BY <1>0, OffRegs, RegsMono, Regs2
<1>2. Regs(n, Doms) /\ Regs(s, Doms) /\ Regs(u, Doms)
  BY OnRegs
<1>3. /\ StartRegs(t) = (((cc \o n) \o s) \o c) \o c
      /\ DumpRegs(t) = (c \o c) \o u
      /\ interrupt_init(t) \o <<Reg("ctl")>> = c \o c
      /\ setup_dsp_uc_memmap(t) = c
  BY OnRegs DEF StartRegs, DumpRegs
<1> HIDE DEF c, cc, n, s, u
<1>4. Regs(c \o c, CtlDoms) /\ Regs(c \o c, Doms)
  BY <1>1, RegsConcat
<1>5. Regs((c \o c) \o u, Doms)
  BY <1>2, <1>4, RegsConcat
<1>6. Regs(cc \o n, Doms)
  BY <1>1, <1>2, RegsConcat
<1>7. Regs((cc \o n) \o s, Doms)
  BY <1>2, <1>6, RegsConcat
<1>8. Regs(((cc \o n) \o s) \o c, Doms)
  BY <1>1, <1>7, RegsConcat
<1>9. Regs((((cc \o n) \o s) \o c) \o c, Doms)
  BY <1>1, <1>8, RegsConcat
<1> QED BY <1>1, <1>3, <1>4, <1>5, <1>9 DEF c

\* Accesses to a device all of whose resources are held.
LEMMA AccessLit ==
    ASSUME NEW t \in Targets, NEW d, d.asleep = FALSE, \A r \in Resources(t) : d.held[r] > 0,
           NEW a, Regs(a, Doms) \/ Regs(a, CtlDoms)
    PROVE  Run(t, d, a) = d
<1>1. Regs(a, Doms)
  BY RegsMono DEF Doms, CtlDoms
<1>2. d.power_enabled => \A dom \in Doms : Lit(t, d, dom)
  BY LitCore
<1> QED BY <1>1, <1>2, RunRegs

\* and to one that is either off or all on.
LEMMA AccessSound ==
    ASSUME NEW t \in Targets, NEW d, Sound(t, d), NEW a, Regs(a, Doms) \/ Regs(a, CtlDoms)
    PROVE  Run(t, d, a) = d
<1>1. Regs(a, Doms)
  BY RegsMono DEF Doms, CtlDoms
<1>2. ASSUME d.power_enabled, NEW dom \in Doms PROVE Lit(t, d, dom)
  <2>1. /\ d.asleep = FALSE /\ d.held \in [Resources(t) -> Nat]
        /\ \A r \in Resources(t) : One(d) <= d.held[r]
    BY DEF Sound, HeldSound
  <2>2. One(d) = 1
    BY <1>2 DEF One
  <2>3. \A r \in Resources(t) : d.held[r] > 0
    BY <2>1, <2>2
  <2> QED BY <2>1, <2>3, LitCore
<1>3. d.power_enabled => \A dom \in Doms : Lit(t, d, dom)
  BY <1>2
<1> QED BY <1>1, <1>3, RunRegs

LEMMA ReleasedFields ==
    ASSUME NEW t, NEW d, NEW e, NEW X, Released(t, d, e, X)
    PROVE  /\ IsDev(e) /\ e.left = d.left /\ e.faults = d.faults /\ e.dark = d.dark /\ e.jam = d.jam
           /\ e.voted = d.voted /\ e.power_enabled = d.power_enabled
           /\ e.held = [r \in DOMAIN d.held |->
                   IF r \in X \ d.jam /\ d.held[r] > 0 THEN d.held[r] - 1 ELSE d.held[r]]
           /\ e.bad = d.bad \cup {r \in X \ d.jam : d.held[r] = 0}
           /\ e.hwctl = d.hwctl \ (X \ d.jam)
           /\ e.asleep = (d.asleep /\ CoreGdscs(t)[1] \notin X \ d.jam)
  BY DEF Released, Only, Fields

LEMMA TakenFields ==
    ASSUME NEW d, NEW e, NEW X, Taken(d, e, X)
    PROVE  /\ IsDev(e) /\ e.left = d.left /\ e.faults = d.faults /\ e.dark = d.dark /\ e.jam = d.jam
           /\ e.voted = d.voted /\ e.power_enabled = d.power_enabled /\ e.bad = d.bad
           /\ e.hwctl = d.hwctl /\ e.asleep = d.asleep
           /\ e.held = [r \in DOMAIN d.held |-> IF r \in X THEN d.held[r] + 1 ELSE d.held[r]]
  BY DEF Taken, Only, Fields

\* e is d after a failure of the given kind.
Failed(d, e, kind) ==
    /\ IsDev(e) /\ e.left = d.left - 1 /\ e.faults = d.faults \cup {kind} /\ e.dark = d.dark
    /\ e.jam = d.jam /\ e.voted = d.voted /\ e.power_enabled = d.power_enabled /\ e.bad = d.bad
    /\ e.hwctl = d.hwctl /\ e.asleep = d.asleep /\ e.held = d.held

LEMMA FailFields2 ==
    ASSUME NEW d, IsDev(d), NEW kind PROVE Failed(d, Fail(d, kind), kind)
<1> DEFINE e == Fail(d, kind)
<1>1. Only(d, e, {"left", "faults"}) /\ e.left = d.left - 1 /\ e.faults = d.faults \cup {kind} /\ IsDev(e)
  BY FailFields
<1> HIDE DEF e
<1>2. Failed(d, e, kind)
  BY <1>1 DEF Only, Fields, Failed
<1> QED BY <1>2 DEF e

\* e is d after the core could not be switched on: the controller is off again.
FellBack(t, d, e) ==
    /\ Counts(e, Resources(t)) /\ d.left # 0 /\ e.left = d.left - 1
    /\ e.voted = d.voted /\ e.asleep = FALSE /\ e.jam = {} /\ e.dark = d.dark
    /\ e.hwctl \subseteq d.hwctl /\ e.bad \subseteq d.bad \cup Extra(t)
    /\ \A r \in Ctl(t) : e.held[r] = d.held[r] - 1
    /\ \A r \in Core(t) : e.held[r] <= d.held[r] + 1
    /\ \E kind \in {"stuck", "core", "check"} :
         /\ e.faults = d.faults \cup {kind}
         /\ kind = "core" => \A r \in Core(t) : e.held[r] <= d.held[r]
         /\ e.bad # d.bad => kind \in {"stuck", "core"}

\* What power_off_controller leaves of a device whose controller is on.
CtlDown(t, d, e) ==
    /\ Counts(e, Resources(t)) /\ e.left = d.left /\ e.faults = d.faults /\ e.dark = d.dark
    /\ e.jam = {} /\ e.asleep = FALSE /\ e.voted = d.voted /\ e.power_enabled = d.power_enabled
    /\ e.hwctl \subseteq d.hwctl /\ e.bad \subseteq d.bad \cup Extra(t)
    /\ (\A r \in Extra(t) : d.held[r] > 0) => e.bad = d.bad
    /\ \A r \in Ctl(t) : e.held[r] = d.held[r] - 1
    /\ \A r \in Core(t) : e.held[r] <= d.held[r]

LEMMA ControllerOffStep ==
    ASSUME NEW t \in Targets, NEW d, Counts(d, Resources(t)), d.asleep = FALSE, d.jam = {},
           \A r \in Ctl(t) : d.held[r] > 0,
           NEW e, e = Run(t, d, power_off_controller(t))
    PROVE  CtlDown(t, d, e)
<1> DEFINE R == Resources(t)
           X == Ctl(t) \cup Extra(t)
<1>1. R = Ctl(t) \cup Core(t) /\ Ctl(t) \cap Core(t) = {} /\ Extra(t) \subseteq Core(t)
  BY ResourcesLayout DEF Extra
<1>2. CtlReady(t, d) /\ d.asleep \in BOOLEAN
  BY DEF CtlReady
<1>3. Released(t, d, e, X) /\ Counts(e, R)
  BY <1>2, ControllerOff
<1>4. /\ e.left = d.left /\ e.faults = d.faults /\ e.dark = d.dark /\ e.jam = d.jam
      /\ e.voted = d.voted /\ e.power_enabled = d.power_enabled
      /\ e.held = [r \in DOMAIN d.held |->
              IF r \in X \ d.jam /\ d.held[r] > 0 THEN d.held[r] - 1 ELSE d.held[r]]
      /\ e.bad = d.bad \cup {r \in X \ d.jam : d.held[r] = 0}
      /\ e.hwctl = d.hwctl \ (X \ d.jam)
      /\ e.asleep = (d.asleep /\ CoreGdscs(t)[1] \notin X \ d.jam)
  BY <1>3, ReleasedFields
<1>5. X \ d.jam = X /\ d.held \in [R -> Nat]
  BY DEF Counts
<1> HIDE DEF X, R
<1>6. \A r \in R : e.held[r] = IF r \in X /\ d.held[r] > 0 THEN d.held[r] - 1 ELSE d.held[r]
  BY <1>4, <1>5
<1>7. \A r \in Ctl(t) : e.held[r] = d.held[r] - 1
  BY <1>1, <1>6 DEF X
<1>8. \A r \in Core(t) : e.held[r] <= d.held[r]
  <2> SUFFICES ASSUME NEW r \in Core(t) PROVE e.held[r] <= d.held[r]
    OBVIOUS
  <2>1. r \in R /\ d.held[r] \in Nat
    BY <1>1, <1>5
  <2> QED BY <1>6, <2>1
<1>9. \A r \in X : d.held[r] = 0 => r \in Extra(t)
  BY DEF X
<1>10. e.bad \subseteq d.bad \cup Extra(t)
  BY <1>4, <1>5, <1>9
<1>11. (\A r \in Extra(t) : d.held[r] > 0) => e.bad = d.bad
  <2> SUFFICES ASSUME \A r \in Extra(t) : d.held[r] > 0 PROVE e.bad = d.bad
    OBVIOUS
  <2>1. \A r \in X : d.held[r] > 0
    BY DEF X
  <2>2. {r \in X : d.held[r] = 0} = {}
    BY <2>1
  <2> QED BY <1>4, <1>5, <2>2
<1>12. e.asleep = FALSE /\ e.jam = {} /\ e.hwctl \subseteq d.hwctl
  BY <1>4
<1> QED BY <1>3, <1>4, <1>7, <1>8, <1>10, <1>11, <1>12 DEF R, CtlDown

\* The core is switched on: all is held, and the device is on.
Risen(t, d, e) ==
    /\ Counts(e, Resources(t)) /\ e.left = d.left /\ e.faults = d.faults /\ e.dark = d.dark
    /\ e.jam = {} /\ e.asleep = FALSE /\ e.voted = d.voted /\ e.hwctl = d.hwctl /\ e.bad = d.bad
    /\ e.power_enabled = TRUE
    /\ \A r \in Ctl(t) : e.held[r] = d.held[r]
    /\ \A r \in Core(t) : e.held[r] = d.held[r] + 1

LEMMA StartStep ==
    ASSUME NEW t \in Targets, NEW d, Resting(t, d), \A r \in Ctl(t) : d.held[r] > 0,
           NEW w, Counts(w, Resources(t)), Taken(d, w, Core(t)),
           NEW e, e = Run(t, [w EXCEPT !.power_enabled = TRUE], StartRegs(t))
    PROVE  Risen(t, d, e)
<1> DEFINE R == Resources(t)
           f == [w EXCEPT !.power_enabled = TRUE]
<1>1. R = Ctl(t) \cup Core(t) /\ Ctl(t) \cap Core(t) = {}
  BY ResourcesLayout
<1>2. /\ IsDev(w) /\ w.left = d.left /\ w.faults = d.faults /\ w.dark = d.dark /\ w.jam = d.jam
      /\ w.voted = d.voted /\ w.bad = d.bad /\ w.hwctl = d.hwctl /\ w.asleep = d.asleep
      /\ w.held = [r \in DOMAIN d.held |-> IF r \in Core(t) THEN d.held[r] + 1 ELSE d.held[r]]
  BY TakenFields
<1>3. d.held \in [R -> Nat] /\ d.asleep = FALSE /\ d.jam = {}
  BY DEF Resting, Counts
<1>4. /\ IsDev(f) /\ f.left = w.left /\ f.faults = w.faults /\ f.dark = w.dark /\ f.jam = w.jam
      /\ f.voted = w.voted /\ f.bad = w.bad /\ f.hwctl = w.hwctl /\ f.asleep = w.asleep
      /\ f.held = w.held /\ f.power_enabled = TRUE
  BY <1>2 DEF IsDev, Fields
<1> HIDE DEF f, R
<1>5. \A r \in R : w.held[r] = IF r \in Core(t) THEN d.held[r] + 1 ELSE d.held[r]
  BY <1>2, <1>3
<1>6. \A r \in R : f.held[r] > 0
  <2> SUFFICES ASSUME NEW r \in R PROVE f.held[r] > 0
    OBVIOUS
  <2>1. d.held[r] \in Nat
    BY <1>3
  <2> QED BY <1>1, <1>4, <1>5, <2>1
<1>7. Regs(StartRegs(t), Doms)
  BY AccessRegs
<1>8. e = f
  BY <1>2, <1>3, <1>4, <1>6, <1>7, AccessLit DEF f, R
<1>9. Counts(f, R)
  BY <1>4 DEF Counts, R
<1>10. \A r \in Ctl(t) : f.held[r] = d.held[r]
  BY <1>1, <1>4, <1>5
<1>11. \A r \in Core(t) : f.held[r] = d.held[r] + 1
  BY <1>1, <1>4, <1>5
<1> QED BY <1>2, <1>3, <1>4, <1>8, <1>9, <1>10, <1>11 DEF Risen, R

\* The core does not come up: the controller is switched off again.
LEMMA CoreFailed ==
    ASSUME NEW t \in Targets, NEW d, Resting(t, d), \A r \in Ctl(t) : d.held[r] > 0, d.left # 0,
           NEW kind \in {"stuck", "core"}, NEW X \in SUBSET Core(t), kind = "core" => X = {},
           NEW w, Counts(w, Resources(t)), Backed(Fail(d, kind), w, X),
           NEW e, e = Run(t, w, power_off_controller(t))
    PROVE  FellBack(t, d, e)
<1> DEFINE R == Resources(t)
           f == Fail(d, kind)
<1>1. R = Ctl(t) \cup Core(t) /\ Ctl(t) \cap Core(t) = {}
  BY ResourcesLayout
<1>2. IsDev(d) /\ d.held \in [R -> Nat] /\ d.jam = {}
  BY DEF Resting, Counts
<1>3. /\ f.left = d.left - 1 /\ f.faults = d.faults \cup {kind} /\ f.dark = d.dark
      /\ f.jam = d.jam /\ f.voted = d.voted /\ f.bad = d.bad /\ f.hwctl = d.hwctl /\ f.held = d.held
  <2>1. Failed(d, f, kind)
    BY <1>2, FailFields2
  <2> HIDE DEF f
  <2> QED BY <2>1 DEF Failed
<1> HIDE DEF f, R
<1>4. /\ w.left = f.left /\ w.faults = f.faults /\ w.dark = f.dark /\ w.jam = f.jam
      /\ w.voted = f.voted /\ w.bad = f.bad /\ w.hwctl \subseteq f.hwctl /\ w.asleep = FALSE
      /\ \A r \in DOMAIN f.held : w.held[r] = IF r \in X THEN f.held[r] + 1 ELSE f.held[r]
  <2>1. Backed(f, w, X)
    BY DEF f
  <2> QED BY <2>1 DEF Backed, Only, Fields
<1>5. \A r \in R : w.held[r] = IF r \in X THEN d.held[r] + 1 ELSE d.held[r]
  BY <1>2, <1>3, <1>4
<1>6. \A r \in Ctl(t) : w.held[r] = d.held[r]
  BY <1>1, <1>5
<1>7. \A r \in Core(t) : w.held[r] <= d.held[r] + 1
  <2> SUFFICES ASSUME NEW r \in Core(t) PROVE w.held[r] <= d.held[r] + 1
    OBVIOUS
  <2>1. d.held[r] \in Nat /\ r \in R
    BY <1>1, <1>2
  <2> QED BY <1>5, <2>1
<1>8. kind = "core" => \A r \in Core(t) : w.held[r] = d.held[r]
  BY <1>1, <1>5
<1>9. w.jam = {} /\ w.asleep = FALSE /\ \A r \in Ctl(t) : w.held[r] > 0
  BY <1>2, <1>3, <1>4, <1>6
<1>10a. CtlDown(t, w, e)
  BY <1>9, ControllerOffStep
<1>10. /\ Counts(e, R) /\ e.left = w.left /\ e.faults = w.faults /\ e.dark = w.dark
       /\ e.jam = {} /\ e.asleep = FALSE /\ e.voted = w.voted
       /\ e.hwctl \subseteq w.hwctl /\ e.bad \subseteq w.bad \cup Extra(t)
       /\ \A r \in Ctl(t) : e.held[r] = w.held[r] - 1
       /\ \A r \in Core(t) : e.held[r] <= w.held[r]
  BY <1>10a DEF CtlDown, R
<1>11. e.held \in [R -> Nat] /\ w.held \in [R -> Nat]
  BY <1>10 DEF Counts, R
<1>12. \A r \in Core(t) : e.held[r] <= d.held[r] + 1 /\ (kind = "core" => e.held[r] <= d.held[r])
  <2> SUFFICES ASSUME NEW r \in Core(t)
               PROVE  e.held[r] <= d.held[r] + 1 /\ (kind = "core" => e.held[r] <= d.held[r])
    OBVIOUS
  <2>1. d.held[r] \in Nat /\ e.held[r] \in Nat /\ w.held[r] \in Nat
    BY <1>1, <1>2, <1>11
  <2> QED BY <1>7, <1>8, <1>10, <2>1
<1>13. \A r \in Ctl(t) : e.held[r] = d.held[r] - 1
  BY <1>6, <1>10
<1>14. e.left = d.left - 1 /\ e.voted = d.voted /\ e.dark = d.dark /\ e.hwctl \subseteq d.hwctl
       /\ e.bad \subseteq d.bad \cup Extra(t) /\ e.faults = d.faults \cup {kind}
  BY <1>3, <1>4, <1>10
<1> QED BY <1>10, <1>12, <1>13, <1>14 DEF FellBack, R

\* The core is up, but the check says it is not.
LEMMA CheckFailed ==
    ASSUME NEW t \in Targets, NEW d, Resting(t, d), \A r \in Ctl(t) : d.held[r] > 0, d.left # 0,
           NEW z, Risen(t, d, z),
           NEW e, e = Run(t, Fail(z, "check"), power_off_controller(t))
    PROVE  FellBack(t, d, e)
<1> DEFINE R == Resources(t)
           w == Fail(z, "check")
<1>1. R = Ctl(t) \cup Core(t) /\ Extra(t) \subseteq Core(t)
  BY ResourcesLayout DEF Extra
<1>2. d.held \in [R -> Nat]
  BY DEF Resting, Counts
<1>3. /\ IsDev(z) /\ z.held \in [R -> Nat]
      /\ z.left = d.left /\ z.faults = d.faults /\ z.dark = d.dark
      /\ z.jam = {} /\ z.asleep = FALSE /\ z.voted = d.voted /\ z.hwctl = d.hwctl /\ z.bad = d.bad
      /\ \A r \in Ctl(t) : z.held[r] = d.held[r]
      /\ \A r \in Core(t) : z.held[r] = d.held[r] + 1
  BY DEF Risen, Counts
<1>4. /\ IsDev(w) /\ w.left = z.left - 1 /\ w.faults = z.faults \cup {"check"} /\ w.dark = z.dark
      /\ w.jam = z.jam /\ w.voted = z.voted /\ w.bad = z.bad /\ w.hwctl = z.hwctl
      /\ w.asleep = z.asleep /\ w.held = z.held
  <2>1. Failed(z, w, "check")
    BY <1>3, FailFields2
  <2> HIDE DEF w
  <2> QED BY <2>1 DEF Failed
<1> HIDE DEF w, R
<1>5. /\ Counts(w, R) /\ w.jam = {} /\ w.asleep = FALSE /\ \A r \in Ctl(t) : w.held[r] > 0
  BY <1>3, <1>4 DEF Counts
<1>6. \A r \in Extra(t) : w.held[r] > 0
  <2> SUFFICES ASSUME NEW r \in Extra(t) PROVE w.held[r] > 0
    OBVIOUS
  <2>1. d.held[r] \in Nat /\ r \in Core(t)
    BY <1>1, <1>2
  <2> QED BY <1>3, <1>4, <2>1
<1>7a. CtlDown(t, w, e)
  <2>1. e = Run(t, w, power_off_controller(t))
    BY DEF w
  <2>2. Counts(w, Resources(t))
    BY <1>5 DEF R
  <2> QED BY <1>5, <2>1, <2>2, ControllerOffStep
<1>7. /\ Counts(e, R) /\ e.left = w.left /\ e.faults = w.faults /\ e.dark = w.dark
      /\ e.jam = {} /\ e.asleep = FALSE /\ e.voted = w.voted
      /\ e.hwctl \subseteq w.hwctl
      /\ (\A r \in Extra(t) : w.held[r] > 0) => e.bad = w.bad
      /\ \A r \in Ctl(t) : e.held[r] = w.held[r] - 1
      /\ \A r \in Core(t) : e.held[r] <= w.held[r]
  BY <1>7a DEF CtlDown, R
<1>8. e.bad = d.bad
  BY <1>3, <1>4, <1>6, <1>7
<1>9. \A r \in Core(t) : e.held[r] <= d.held[r] + 1
  BY <1>3, <1>4, <1>7
<1>10. \A r \in Ctl(t) : e.held[r] = d.held[r] - 1
  BY <1>3, <1>4, <1>7
<1>11. e.left = d.left - 1 /\ e.voted = d.voted /\ e.dark = d.dark /\ e.hwctl \subseteq d.hwctl
       /\ e.faults = d.faults \cup {"check"}
  BY <1>3, <1>4, <1>7
<1>12. "check" \in {"stuck", "core", "check"} /\ "check" # "core"
  OBVIOUS
<1> QED BY <1>7, <1>8, <1>9, <1>10, <1>11, <1>12 DEF FellBack, R

\* The controller does not come up.
LEMMA ControllerFailed ==
    ASSUME NEW t \in Targets, NEW d, Sound(t, d), d.power_enabled = FALSE, d.left # 0,
           NEW v, v = [d EXCEPT !.voted = TRUE],
           NEW kind, NEW X \in SUBSET Ctl(t), kind \notin LeaksOf(t) => X = {},
           NEW c, Counts(c, Resources(t)), Backed(Fail(v, kind), c, X),
           NEW e, e = [unvote_buses(c) EXCEPT !.power_enabled = FALSE]
    PROVE  Sound(t, e)
<1> DEFINE R == Resources(t)
           f == Fail(v, kind)
<1>1. R = Ctl(t) \cup Core(t)
  BY ResourcesLayout
<1>2. /\ IsDev(d) /\ d.held \in [R -> Nat] /\ d.left \in 0..MaxFaults /\ d.jam = {} /\ d.asleep = FALSE
      /\ d.faults \cap LeaksOf(t) = {} => \A r \in R : d.held[r] = 0
  BY DEF Sound, HeldSound, One
<1>3. /\ IsDev(v) /\ v.left = d.left /\ v.faults = d.faults /\ v.dark = d.dark /\ v.jam = d.jam
      /\ v.bad = d.bad /\ v.hwctl = d.hwctl /\ v.asleep = d.asleep /\ v.held = d.held
  BY <1>2 DEF IsDev, Fields
<1>4. /\ f.left = v.left - 1 /\ f.faults = v.faults \cup {kind} /\ f.dark = v.dark
      /\ f.jam = v.jam /\ f.bad = v.bad /\ f.hwctl = v.hwctl /\ f.held = v.held
  <2>1. Failed(v, f, kind)
    BY <1>3, FailFields2
  <2> HIDE DEF f
  <2> QED BY <2>1 DEF Failed
<1> HIDE DEF f, R
<1>5. /\ IsDev(c) /\ c.left = f.left /\ c.faults = f.faults /\ c.dark = f.dark /\ c.jam = f.jam
      /\ c.bad = f.bad /\ c.hwctl \subseteq f.hwctl /\ c.asleep = FALSE
      /\ \A r \in DOMAIN f.held : c.held[r] = IF r \in X THEN f.held[r] + 1 ELSE f.held[r]
  <2>1. Backed(f, c, X)
    BY DEF f
  <2> QED BY <2>1 DEF Backed, Only, Fields
<1>6. /\ IsDev(e) /\ e.left = c.left /\ e.faults = c.faults /\ e.dark = c.dark /\ e.jam = c.jam
      /\ e.bad = c.bad /\ e.hwctl = c.hwctl /\ e.asleep = c.asleep /\ e.held = c.held
      /\ e.power_enabled = FALSE /\ e.voted = FALSE
  BY <1>5 DEF unvote_buses, IsDev, Fields
<1>7. \A r \in R : e.held[r] = IF r \in X THEN d.held[r] + 1 ELSE d.held[r]
  BY <1>2, <1>3, <1>4, <1>5, <1>6
<1>8. \A r \in R : e.held[r] <= d.held[r] + 1
  <2> SUFFICES ASSUME NEW r \in R PROVE e.held[r] <= d.held[r] + 1
    OBVIOUS
  <2>1. d.held[r] \in Nat
    BY <1>2
  <2> QED BY <1>7, <2>1
<1>9. e.held \in [R -> Nat]
  BY <1>6 DEF Counts, R
<1>10. e.faults = d.faults \cup {kind} /\ e.left = d.left - 1 /\ e.dark = d.dark /\ e.jam = {}
       /\ e.bad = d.bad /\ e.hwctl \subseteq d.hwctl /\ e.asleep = FALSE
  BY <1>2, <1>3, <1>4, <1>5, <1>6
<1>11. e.faults \cap LeaksOf(t) = {} => \A r \in R : e.held[r] = 0
  <2> SUFFICES ASSUME e.faults \cap LeaksOf(t) = {} PROVE \A r \in R : e.held[r] = 0
    OBVIOUS
  <2>1. kind \notin LeaksOf(t) /\ d.faults \cap LeaksOf(t) = {}
    BY <1>10
  <2> QED BY <1>2, <1>7, <2>1
<1>12. d.left > 0 /\ d.faults \subseteq e.faults /\ e.bad \subseteq d.bad \cup Extra(t)
  BY <1>2, <1>10
<1> QED BY <1>6, <1>8, <1>9, <1>10, <1>11, <1>12, FailSound DEF R

\* The controller comes up and the core does not.
LEMMA FellBackSound ==
    ASSUME NEW t \in Targets, NEW d, Sound(t, d), d.power_enabled = FALSE,
           NEW v, v = [d EXCEPT !.voted = TRUE],
           NEW c, Taken(v, c, Ctl(t)), NEW f, FellBack(t, c, f),
           NEW e, e = [unvote_buses(f) EXCEPT !.power_enabled = FALSE]
    PROVE  Sound(t, e)
<1> DEFINE R == Resources(t)
<1>1. R = Ctl(t) \cup Core(t) /\ Ctl(t) \cap Core(t) = {}
  BY ResourcesLayout
<1>2. /\ IsDev(d) /\ d.held \in [R -> Nat] /\ d.left \in 0..MaxFaults
      /\ d.faults \cap LeaksOf(t) = {} => \A r \in R : d.held[r] = 0
  BY DEF Sound, HeldSound, One
<1>3. /\ v.left = d.left /\ v.faults = d.faults /\ v.dark = d.dark
      /\ v.bad = d.bad /\ v.hwctl = d.hwctl /\ v.held = d.held
  BY <1>2 DEF IsDev, Fields
<1> HIDE DEF R
<1>4. /\ c.left = v.left /\ c.faults = v.faults /\ c.dark = v.dark
      /\ c.bad = v.bad /\ c.hwctl = v.hwctl
      /\ c.held = [r \in DOMAIN v.held |-> IF r \in Ctl(t) THEN v.held[r] + 1 ELSE v.held[r]]
  BY DEF Taken, Only, Fields
<1>5. /\ IsDev(f) /\ f.held \in [R -> Nat] /\ c.left # 0 /\ f.left = c.left - 1
      /\ f.asleep = FALSE /\ f.jam = {} /\ f.dark = c.dark
      /\ f.hwctl \subseteq c.hwctl /\ f.bad \subseteq c.bad \cup Extra(t)
      /\ \A r \in Ctl(t) : f.held[r] = c.held[r] - 1
      /\ \A r \in Core(t) : f.held[r] <= c.held[r] + 1
  BY DEF FellBack, Counts, R
<1>6. PICK kind \in {"stuck", "core", "check"} :
         /\ f.faults = c.faults \cup {kind}
         /\ kind = "core" => \A r \in Core(t) : f.held[r] <= c.held[r]
         /\ f.bad # c.bad => kind \in {"stuck", "core"}
  BY DEF FellBack
<1>7. /\ IsDev(e) /\ e.left = f.left /\ e.faults = f.faults /\ e.dark = f.dark /\ e.jam = f.jam
      /\ e.bad = f.bad /\ e.hwctl = f.hwctl /\ e.asleep = f.asleep /\ e.held = f.held
      /\ e.power_enabled = FALSE /\ e.voted = FALSE
  BY <1>5 DEF unvote_buses, IsDev, Fields
<1>8. \A r \in R : c.held[r] = IF r \in Ctl(t) THEN d.held[r] + 1 ELSE d.held[r]
  BY <1>2, <1>3, <1>4
<1>9. \A r \in Ctl(t) : e.held[r] = d.held[r]
  <2> SUFFICES ASSUME NEW r \in Ctl(t) PROVE e.held[r] = d.held[r]
    OBVIOUS
  <2>1. d.held[r] \in Nat /\ r \in R
    BY <1>1, <1>2
  <2>2. f.held[r] = c.held[r] - 1 /\ c.held[r] = d.held[r] + 1
    BY <1>5, <1>8, <2>1
  <2> QED BY <1>7, <2>1, <2>2
<1>10. \A r \in Core(t) : e.held[r] <= d.held[r] + 1 /\ (kind = "core" => e.held[r] <= d.held[r])
  <2> SUFFICES ASSUME NEW r \in Core(t)
               PROVE  e.held[r] <= d.held[r] + 1 /\ (kind = "core" => e.held[r] <= d.held[r])
    OBVIOUS
  <2>1. r \in R /\ c.held[r] = d.held[r]
    BY <1>1, <1>8
  <2> QED BY <1>5, <1>6, <1>7, <2>1
<1>11. \A r \in R : e.held[r] <= d.held[r] + 1
  <2> SUFFICES ASSUME NEW r \in R PROVE e.held[r] <= d.held[r] + 1
    OBVIOUS
  <2>1. d.held[r] \in Nat
    BY <1>2
  <2> QED BY <1>1, <1>9, <1>10, <2>1
<1>12. /\ e.left = d.left - 1 /\ e.faults = d.faults \cup {kind} /\ e.dark = d.dark /\ e.jam = {}
       /\ e.asleep = FALSE /\ e.hwctl \subseteq d.hwctl /\ e.bad \subseteq d.bad \cup Extra(t)
       /\ d.left > 0 /\ e.held \in [R -> Nat]
  BY <1>2, <1>3, <1>4, <1>5, <1>6, <1>7
<1>13. e.bad # d.bad => e.faults \cap DoubleFaults # {}
  BY <1>3, <1>4, <1>6, <1>7, <1>12 DEF DoubleFaults
<1>14. e.faults \cap LeaksOf(t) = {} => \A r \in R : e.held[r] = 0
  <2> SUFFICES ASSUME e.faults \cap LeaksOf(t) = {}, NEW r \in R PROVE e.held[r] = 0
    OBVIOUS
  <2>1. kind \notin LeaksOf(t) /\ d.faults \cap LeaksOf(t) = {}
    BY <1>12
  <2>2. kind = "core"
    BY <1>6, <2>1 DEF LeaksOf
  <2>3. d.held[r] = 0 /\ e.held[r] \in Nat
    BY <1>2, <1>12, <2>1
  <2> QED BY <1>1, <1>9, <1>10, <2>2, <2>3
<1>15. d.faults \subseteq e.faults
  BY <1>12
<1> QED BY <1>7, <1>11, <1>12, <1>13, <1>14, <1>15, FailSound DEF R

\* Both come up.
LEMMA RisenSound ==
    ASSUME NEW t \in Targets, NEW d, Sound(t, d), d.power_enabled = FALSE,
           NEW v, v = [d EXCEPT !.voted = TRUE],
           NEW c, Taken(v, c, Ctl(t)), NEW f, Risen(t, c, f)
    PROVE  Sound(t, f) /\ f.power_enabled = TRUE
<1> DEFINE R == Resources(t)
<1>0. MaxFaults \in Nat
  BY PowerAssumption
<1>1. R = Ctl(t) \cup Core(t) /\ Ctl(t) \cap Core(t) = {}
  BY ResourcesLayout
<1>2. /\ IsDev(d) /\ d.held \in [R -> Nat] /\ d.left \in 0..MaxFaults
      /\ \A r \in R : d.held[r] <= (MaxFaults - d.left) + 0
      /\ d.faults \cap LeaksOf(t) = {} => \A r \in R : d.held[r] = 0
  BY DEF Sound, HeldSound, One
<1>3. /\ v.left = d.left /\ v.faults = d.faults /\ v.dark = d.dark /\ v.voted = TRUE
      /\ v.bad = d.bad /\ v.hwctl = d.hwctl /\ v.held = d.held
  BY <1>2 DEF IsDev, Fields
<1> HIDE DEF R
<1>4. /\ c.left = v.left /\ c.faults = v.faults /\ c.dark = v.dark /\ c.voted = v.voted
      /\ c.bad = v.bad /\ c.hwctl = v.hwctl
      /\ c.held = [r \in DOMAIN v.held |-> IF r \in Ctl(t) THEN v.held[r] + 1 ELSE v.held[r]]
  BY DEF Taken, Only, Fields
<1>5. /\ IsDev(f) /\ f.held \in [R -> Nat] /\ f.left = c.left /\ f.faults = c.faults /\ f.dark = c.dark
      /\ f.jam = {} /\ f.asleep = FALSE /\ f.voted = c.voted /\ f.hwctl = c.hwctl /\ f.bad = c.bad
      /\ f.power_enabled = TRUE
      /\ \A r \in Ctl(t) : f.held[r] = c.held[r]
      /\ \A r \in Core(t) : f.held[r] = c.held[r] + 1
  BY DEF Risen, Counts, R
<1>6. \A r \in R : f.held[r] = d.held[r] + 1
  <2>1. \A r \in R : c.held[r] = IF r \in Ctl(t) THEN d.held[r] + 1 ELSE d.held[r]
    BY <1>2, <1>3, <1>4
  <2> QED BY <1>1, <1>5, <2>1
<1>7. HeldSound(t, f)
  <2>1. One(f) = 1 /\ f.left = d.left /\ f.faults = d.faults
    BY <1>3, <1>4, <1>5 DEF One
  <2>2. \A r \in R : 1 <= f.held[r] /\ f.held[r] <= (MaxFaults - f.left) + 1
    <3> SUFFICES ASSUME NEW r \in R PROVE 1 <= f.held[r] /\ f.held[r] <= (MaxFaults - f.left) + 1
      OBVIOUS
    <3>1. d.held[r] \in Nat /\ f.held[r] = d.held[r] + 1 /\ d.held[r] <= (MaxFaults - d.left) + 0
      BY <1>2, <1>6
    <3> QED BY <1>0, <1>2, <2>1, <3>1
  <2>3. f.faults \cap LeaksOf(t) = {} => \A r \in R : f.held[r] = 1
    BY <1>2, <1>6, <2>1
  <2> QED BY <1>2, <1>5, <2>1, <2>2, <2>3 DEF HeldSound, R
<1>8. f.hwctl = d.hwctl /\ f.faults = d.faults /\ f.bad = d.bad /\ f.dark = d.dark /\ f.voted = TRUE
  BY <1>3, <1>4, <1>5
<1>9. HwSound(t, f)
  BY <1>5, <1>8 DEF Sound, HwSound
<1>10. BadSound(t, f) /\ DarkSound(f)
  BY <1>8 DEF Sound, BadSound, DarkSound
<1> QED BY <1>5, <1>7, <1>8, <1>9, <1>10 DEF Sound

\* What the callers of May see.
LEMMA MayQuiet ==
    ASSUME NEW t, NEW d, Sound(t, d), NEW k, NEW o \in May(d, k)
    PROVE  /\ Quiet(d, o.d) /\ (o.ok => o.d = d)
           /\ (~o.ok => d.left # 0 /\ o.d = Fail(d, k))
<1>0. IsDev(d) /\ d.left \in Nat
  BY DEF Sound, HeldSound
<1>1. CASE o = Ok(d)
  <2>1. o.d = d /\ o.ok
    BY <1>1, Outcome
  <2> QED BY <1>0, <2>1 DEF Quiet
<1>2. CASE d.left > 0 /\ o = Err(Fail(d, k))
  <2>1. o.d = Fail(d, k) /\ ~o.ok /\ d.left # 0
    BY <1>0, <1>2, Outcome
  <2> DEFINE e == Fail(d, k)
  <2>2. Failed(d, e, k)
    BY <1>0, FailFields2
  <2> HIDE DEF e
  <2>3. Quiet(d, e)
    BY <1>0, <1>2, <2>2 DEF Failed, Quiet
  <2> QED BY <2>1, <2>3 DEF e
<1> QED BY <1>1, <1>2 DEF May

LEMMA FailQuiet ==
    ASSUME NEW t, NEW d, Sound(t, d), d.left # 0, NEW k
    PROVE  Quiet(d, Fail(d, k)) /\ k \in Fail(d, k).faults
<1>0. IsDev(d) /\ d.left \in Nat
  BY DEF Sound, HeldSound
<1> DEFINE e == Fail(d, k)
<1>2. Failed(d, e, k)
  BY <1>0, FailFields2
<1> HIDE DEF e
<1>3. Quiet(d, e)
  BY <1>0, <1>2 DEF Failed, Quiet
<1>4. k \in e.faults
  BY <1>2 DEF Failed
<1> QED BY <1>3, <1>4 DEF e

LEMMA SoundResting ==
    ASSUME NEW t, NEW d, Sound(t, d), d.power_enabled = FALSE, NEW v, v = [d EXCEPT !.voted = TRUE]
    PROVE  Resting(t, v) /\ v.left = d.left
<1>1. IsDev(d) /\ d.held \in [Resources(t) -> Nat] /\ d.asleep = FALSE /\ d.jam = {}
  BY DEF Sound, HeldSound
<1>2. IsDev(v) /\ v.held = d.held /\ v.asleep = d.asleep /\ v.jam = d.jam /\ v.left = d.left
      /\ v.power_enabled = d.power_enabled
  BY <1>1 DEF IsDev, Fields
<1> QED BY <1>1, <1>2 DEF Resting, Counts

LEMMA TakenResting ==
    ASSUME NEW t \in Targets, NEW v, Resting(t, v), NEW c, Counts(c, Resources(t)), Taken(v, c, Ctl(t))
    PROVE  Resting(t, c) /\ \A r \in Ctl(t) : c.held[r] > 0
<1>1. Ctl(t) \subseteq Resources(t)
  BY ResourcesLayout
<1>2. v.held \in [Resources(t) -> Nat] /\ v.asleep = FALSE /\ v.jam = {} /\ v.power_enabled = FALSE
  BY DEF Resting, Counts
<1>3. /\ c.asleep = v.asleep /\ c.jam = v.jam /\ c.power_enabled = v.power_enabled
      /\ c.held = [r \in DOMAIN v.held |-> IF r \in Ctl(t) THEN v.held[r] + 1 ELSE v.held[r]]
  BY DEF Taken, Only, Fields
<1>4. \A r \in Ctl(t) : c.held[r] > 0
  <2> SUFFICES ASSUME NEW r \in Ctl(t) PROVE c.held[r] > 0
    OBVIOUS
  <2>1. v.held[r] \in Nat /\ c.held[r] = v.held[r] + 1
    BY <1>1, <1>2, <1>3
  <2> QED BY <2>1
<1> QED BY <1>2, <1>3, <1>4 DEF Resting

\* Switching the core on, with the check and the fall back.
LEMMA CoreStep ==
    ASSUME NEW t \in Targets, NEW d, Resting(t, d), d.left \in Nat, \A r \in Ctl(t) : d.held[r] > 0,
           NEW w \in PowerCore(t, d),
           NEW z, IF w.ok THEN z = Ok(Run(t, [w.d EXCEPT !.power_enabled = TRUE], StartRegs(t)))
                  ELSE z = w,
           NEW y, IF z.ok THEN y \in May(z.d, "check") ELSE y = z,
           NEW x, IF y.ok THEN x = y ELSE x = Err(Run(t, y.d, power_off_controller(t)))
    PROVE  IF x.ok THEN Risen(t, d, x.d) ELSE FellBack(t, d, x.d)
<1>1. /\ Counts(w.d, Resources(t))
      /\ w.ok => Taken(d, w.d, Core(t))
      /\ ~w.ok => /\ d.left # 0
                  /\ \E kind \in {"stuck", "core"}, X \in SUBSET Core(t) :
                       Backed(Fail(d, kind), w.d, X) /\ (kind = "core" => X = {})
  BY PowerCoreStep
<1>2. CASE ~w.ok
  <2>1. y = w /\ ~x.ok /\ x.d = Run(t, w.d, power_off_controller(t))
    BY <1>2, Outcome
  <2>2. PICK kind \in {"stuck", "core"}, X \in SUBSET Core(t) :
                       Backed(Fail(d, kind), w.d, X) /\ (kind = "core" => X = {})
    BY <1>1, <1>2
  <2>3. d.left # 0 /\ Counts(w.d, Resources(t))
    BY <1>1, <1>2
  <2>4. FellBack(t, d, x.d)
    BY <2>1, <2>2, <2>3, CoreFailed
  <2> QED BY <2>1, <2>4
<1>3. CASE w.ok
  <2>1. z.ok /\ z.d = Run(t, [w.d EXCEPT !.power_enabled = TRUE], StartRegs(t))
    BY <1>3, Outcome
  <2>2. Risen(t, d, z.d)
    BY <1>1, <1>3, <2>1, StartStep
  <2>3. z.d.left = d.left /\ d.left \in Nat
    BY <2>2 DEF Risen
  <2>4. y = Ok(z.d) \/ (z.d.left > 0 /\ y = Err(Fail(z.d, "check")))
    BY <2>1 DEF May
  <2>5. CASE y = Ok(z.d)
    <3>1. x = y /\ x.ok /\ x.d = z.d
      BY <2>5, Outcome
    <3> QED BY <2>2, <3>1
  <2>6. CASE z.d.left > 0 /\ y = Err(Fail(z.d, "check"))
    <3>1. ~x.ok /\ x.d = Run(t, Fail(z.d, "check"), power_off_controller(t))
      BY <2>6, Outcome
    <3>2. d.left # 0
      BY <2>3, <2>6
    <3>3. FellBack(t, d, x.d)
      BY <2>2, <3>1, <3>2, CheckFailed
    <3> QED BY <3>1, <3>3
  <2> QED BY <2>4, <2>5, <2>6
<1> QED BY <1>2, <1>3

LEMMA SoundDev ==
    ASSUME NEW t, NEW d, Sound(t, d) PROVE IsDev(d) /\ d.left \in Nat /\ d.left \in 0..MaxFaults
  BY DEF Sound, HeldSound

LEMMA QuietSelf ==
    ASSUME NEW t, NEW d, Sound(t, d) PROVE Quiet(d, d)
<1>1. IsDev(d) /\ d.left \in Nat
  BY SoundDev
<1> QED BY <1>1 DEF Quiet

LEMMA EnabledQuiet ==
    ASSUME NEW t, NEW d, Sound(t, d) PROVE Quiet(d, [d EXCEPT !.wd = FALSE, !.depth = @ - 1])
<1>1. IsDev(d) /\ d.left \in Nat
  BY SoundDev
<1> DEFINE e == [d EXCEPT !.wd = FALSE, !.depth = @ - 1]
<1>2. /\ IsDev(e) /\ e.left = d.left /\ e.faults = d.faults
      /\ \A f \in {"held", "hwctl", "jam", "asleep", "bad", "dark", "power_enabled", "voted"} : e[f] = d[f]
  BY <1>1 DEF IsDev, Fields
<1> HIDE DEF e
<1>3. Quiet(d, e)
  BY <1>1, <1>2 DEF Quiet
<1> QED BY <1>3 DEF e

\* iris_power_on: a device that is on holds everything once more, one that
\* could not be switched on is as before, but for what the failure leaks.
LEMMA PowerOnSound ==
    ASSUME NEW t \in Targets, NEW d, Sound(t, d), NEW o \in iris_power_on(t, d)
    PROVE  Sound(t, o.d) /\ (o.ok => o.d.power_enabled = TRUE)
<1> DEFINE started(e) == {Ok(Run(t, [e EXCEPT !.power_enabled = TRUE],
                              <<Reg("ctl"), Reg("ctl")>> \o noc_lpi(t) \o set_registers(t)
                              \o check_core_power_on(t) \o check_ctl_power_on(t)))}
           checked(e) == May(e, "check")
           enabled(e) == {Ok(Run(t, [e EXCEPT !.wd = FALSE, !.depth = @ - 1],
                              interrupt_init(t) \o <<Reg("ctl")>>))}
           fail_enable_core(e) == {Run(t, e, power_off_controller(t))}
           core(e) == OnError(Then(Then(PowerCore(t, e), started), checked), fail_enable_core)
           fail_enable_controller(e) == {unvote_buses(e)}
           on(e) == OnError(Then(PowerController(t, e), core), fail_enable_controller)
           fail_vote_buses(e) == {[e EXCEPT !.power_enabled = FALSE]}
           Off1(e) == [e EXCEPT !.power_enabled = FALSE]
<1>0. CASE d.power_enabled
  <2>1. o = Ok(d)
    BY <1>0 DEF iris_power_on
  <2> QED BY <1>0, <2>1, Outcome DEF Sound
<1> SUFFICES ASSUME ~d.power_enabled PROVE Sound(t, o.d) /\ (o.ok => o.d.power_enabled = TRUE)
  BY <1>0
<1>00. d.power_enabled = FALSE /\ IsDev(d) /\ d.left \in Nat
  BY DEF Sound, HeldSound
<1>1. ASSUME NEW e, Resting(t, e), e.left \in Nat, \A r \in Ctl(t) : e.held[r] > 0, NEW x \in core(e)
      PROVE  IF x.ok THEN Risen(t, e, x.d) ELSE FellBack(t, e, x.d)
  <2> DEFINE S1 == Then(PowerCore(t, e), started)
             S2 == Then(S1, checked)
  <2>1. PICK y \in S2 : IF y.ok THEN x = y
                        ELSE x = Err(Run(t, y.d, power_off_controller(t)))
    BY <1>1 DEF OnError
  <2>2. PICK z \in S1 : IF z.ok THEN y \in May(z.d, "check") ELSE y = z
    BY <2>1 DEF Then
  <2>3. PICK w \in PowerCore(t, e) : IF w.ok THEN z \in started(w.d) ELSE z = w
    BY <2>2 DEF Then
  <2>4. IF w.ok THEN z = Ok(Run(t, [w.d EXCEPT !.power_enabled = TRUE], StartRegs(t))) ELSE z = w
    BY <2>3 DEF StartRegs
  <2> HIDE DEF S1, S2, started, core
  <2> QED BY <1>1, <2>1, <2>2, <2>4, CoreStep
<1> HIDE DEF core
<1>2. ASSUME NEW v, v = [d EXCEPT !.voted = TRUE], NEW x \in on(v)
      PROVE  IF x.ok THEN Sound(t, x.d) /\ x.d.power_enabled = TRUE ELSE Sound(t, Off1(x.d))
  <2>1. PICK y \in Then(PowerController(t, v), core) :
             IF y.ok THEN x = y ELSE x = Err(unvote_buses(y.d))
    BY <1>2 DEF OnError, Then
  <2>2. PICK w \in PowerController(t, v) : IF w.ok THEN y \in core(w.d) ELSE y = w
    BY <2>1 DEF Then
  <2>3. Resting(t, v) /\ v.left = d.left
    BY <1>00, <1>2, SoundResting
  <2>4. /\ Counts(w.d, Resources(t))
        /\ w.ok => Taken(v, w.d, Ctl(t))
        /\ ~w.ok => /\ v.left # 0
                    /\ \E kind \in {"stuck", "controller"}, X \in SUBSET Ctl(t) :
                         Backed(Fail(v, kind), w.d, X) /\ (kind \notin LeaksOf(t) => X = {})
    BY <2>3, PowerControllerStep
  <2>5. CASE ~w.ok
    <3>1. ~x.ok /\ x.d = unvote_buses(w.d)
      BY <2>1, <2>2, <2>5, Outcome
    <3>2. PICK kind \in {"stuck", "controller"}, X \in SUBSET Ctl(t) :
                         Backed(Fail(v, kind), w.d, X) /\ (kind \notin LeaksOf(t) => X = {})
      BY <2>4, <2>5
    <3>3. d.left # 0 /\ Counts(w.d, Resources(t))
      BY <2>3, <2>4, <2>5
    <3>4. Sound(t, [unvote_buses(w.d) EXCEPT !.power_enabled = FALSE])
      BY <1>00, <1>2, <3>2, <3>3, ControllerFailed
    <3> QED BY <3>1, <3>4
  <2>6. CASE w.ok
    <3>1. Resting(t, w.d) /\ \A r \in Ctl(t) : w.d.held[r] > 0
      BY <2>3, <2>4, <2>6, TakenResting
    <3>2. w.d.left \in Nat /\ Taken(v, w.d, Ctl(t))
      BY <1>00, <2>3, <2>4, <2>6 DEF Taken, Only, Fields
    <3>3. IF y.ok THEN Risen(t, w.d, y.d) ELSE FellBack(t, w.d, y.d)
      BY <1>1, <2>2, <2>6, <3>1, <3>2
    <3>4. CASE y.ok
      <4>1. x = y /\ x.ok /\ Risen(t, w.d, x.d)
        BY <2>1, <3>3, <3>4
      <4>2. Sound(t, x.d) /\ x.d.power_enabled = TRUE
        BY <1>00, <1>2, <3>2, <4>1, RisenSound
      <4> QED BY <4>1, <4>2
    <3>5. CASE ~y.ok
      <4>1. ~x.ok /\ x.d = unvote_buses(y.d) /\ FellBack(t, w.d, y.d)
        BY <2>1, <3>3, <3>5, Outcome
      <4>2. Sound(t, [unvote_buses(y.d) EXCEPT !.power_enabled = FALSE])
        BY <1>00, <1>2, <3>2, <4>1, FellBackSound
      <4> QED BY <4>1, <4>2
    <3> QED BY <3>4, <3>5
  <2> QED BY <2>5, <2>6
<1> HIDE DEF on
<1>3. PICK y \in Then(Then(vote_buses(d), on), enabled) :
           IF y.ok THEN o = y ELSE o = Err(Off1(y.d))
  <2> USE DEF on, core
  <2> QED BY DEF iris_power_on, OnError, Then
<1>4. PICK z \in Then(vote_buses(d), on) : IF z.ok THEN y \in enabled(z.d) ELSE y = z
  BY <1>3 DEF Then
<1>5. PICK w \in vote_buses(d) : IF w.ok THEN z \in on(w.d) ELSE z = w
  BY <1>4 DEF Then
<1>6. PICK q : /\ q \in (IF d.data THEN May(d, "bus") ELSE {Ok(d)})
               /\ IF q.ok THEN w = Ok([q.d EXCEPT !.voted = TRUE]) ELSE w = q
  BY <1>5 DEF vote_buses, Then
<1>7. /\ Quiet(d, q.d) /\ (q.ok => q.d = d)
  <2>1. CASE d.data
    BY <1>6, <2>1, MayQuiet
  <2>2. CASE ~d.data
    <3>1. q = Ok(d)
      BY <1>6, <2>2
    <3>2. q.d = d
      BY <3>1, Outcome
    <3>3. Quiet(d, d)
      BY QuietSelf
    <3> QED BY <3>2, <3>3
  <2> QED BY <2>1, <2>2
<1>8. CASE ~q.ok
  <2>0. w = q /\ z = w /\ y = z
    BY <1>4, <1>5, <1>6, <1>8
  <2>1. o.d = Off1(q.d) /\ ~o.ok
    BY <1>3, <1>8, <2>0, Outcome
  <2>2. IsDev(q.d) /\ q.d.power_enabled = FALSE
    BY <1>00, <1>7, QuietFields
  <2>3. Off1(q.d) = q.d
    BY <2>2 DEF IsDev, Fields
  <2> QED BY <1>7, <2>1, <2>3, QuietSound
<1>9. CASE q.ok
  <2>1. w.ok /\ w.d = [d EXCEPT !.voted = TRUE]
    BY <1>6, <1>7, <1>9, Outcome
  <2>2. z \in on([d EXCEPT !.voted = TRUE])
    BY <1>5, <2>1
  <2>3. IF z.ok THEN Sound(t, z.d) /\ z.d.power_enabled = TRUE ELSE Sound(t, Off1(z.d))
    BY <1>2, <2>2
  <2>4. CASE ~z.ok
    <3>1. o.d = Off1(z.d) /\ ~o.ok
      BY <1>3, <1>4, <2>4, Outcome
    <3> QED BY <2>3, <2>4, <3>1
  <2>5. CASE z.ok
    <3> DEFINE g == [z.d EXCEPT !.wd = FALSE, !.depth = @ - 1]
    <3>1. y = Ok(Run(t, g, interrupt_init(t) \o <<Reg("ctl")>>))
      BY <1>4, <2>5
    <3>2. Sound(t, z.d)
      BY <2>3, <2>5
    <3>3. Quiet(z.d, g)
      BY <3>2, EnabledQuiet
    <3>4. Sound(t, g)
      BY <3>2, <3>3, QuietSound
    <3>8. g.power_enabled = TRUE
      BY <2>3, <2>5, <3>3, QuietFields
    <3> HIDE DEF g
    <3>5. Regs(interrupt_init(t) \o <<Reg("ctl")>>, CtlDoms)
      BY AccessRegs
    <3>6. Run(t, g, interrupt_init(t) \o <<Reg("ctl")>>) = g
      BY <3>4, <3>5, AccessSound
    <3>7. y.ok /\ y.d = g
      BY <3>1, <3>6, Outcome
    <3> QED BY <1>3, <3>4, <3>7, <3>8
  <2> QED BY <2>4, <2>5
<1> QED BY <1>8, <1>9

LEMMA CoreOffsLayout ==
    ASSUME NEW t \in Targets, NEW how
    PROVE  /\ CoreOffs(t, how) \subseteq Core(t)
           /\ CoreOffs(t, how) \cup (Ctl(t) \cup Extra(t)) = Resources(t)
           /\ how # "sw_ctl" => CoreOffs(t, how) \cap Extra(t) = {}
<1>1. SwOff(t, how) \subseteq Core(t)
  <2>1. t = "pakala" => "core_freerun_clk" \in Core(t)
    BY CoreLayout
  <2>2. t = "glymur" => "core_freerun" \in Core(t)
    BY CoreLayout
  <2> QED BY <2>1, <2>2 DEF SwOff
<1>2. how # "sw_ctl" => SwOff(t, how) = {}
  BY DEF SwOff
<1>3. Resources(t) = Ctl(t) \cup Core(t)
  BY ResourcesLayout
<1> QED BY <1>1, <1>2, <1>3 DEF CoreOffs, Extra

\* A device that is on, about to be switched off.
Leaving(t, d, how) ==
    /\ Counts(d, Resources(t)) /\ d.asleep \in BOOLEAN /\ Ready(t, d, how)
    /\ \A r \in Resources(t) : d.held[r] > 0
    /\ d.jam \subseteq Core(t) \ Doubly /\ d.hwctl \subseteq Core(t)

\* What power_off_core and power_off_controller leave of it.
Left(t, d, e, how) ==
    /\ Counts(e, Resources(t)) /\ e.left = d.left /\ e.faults = d.faults /\ e.dark = d.dark
    /\ \A r \in Resources(t) : e.held[r] <= d.held[r] /\ (r \notin d.jam => e.held[r] <= d.held[r] - 1)
    /\ e.hwctl \subseteq d.hwctl /\ (d.jam = {} => e.hwctl = {})
    /\ e.bad \subseteq d.bad \cup Extra(t) /\ (e.bad # d.bad => how = "sw_ctl")

LEMMA LeaveStep ==
    ASSUME NEW t \in Targets, NEW how \in Ways, NEW d, Leaving(t, d, how),
           NEW e, e = Run(t, d, power_off_core(t, how) \o power_off_controller(t))
    PROVE  Left(t, d, e, how)
<1> DEFINE R == Resources(t)
           X == CoreOffs(t, how)
           Y == Ctl(t) \cup Extra(t)
           J == d.jam
           m == Run(t, d, power_off_core(t, how))
           n == Run(t, m, power_off_controller(t))
<1>1. /\ X \subseteq Core(t) /\ X \cup Y = R /\ (how # "sw_ctl" => X \cap Extra(t) = {})
      /\ Ctl(t) \cap Core(t) = {} /\ R = Ctl(t) \cup Core(t) /\ Extra(t) \subseteq Core(t)
  BY CoreOffsLayout, ResourcesLayout DEF Extra
<1>2. /\ Counts(d, R) /\ d.asleep \in BOOLEAN /\ Ready(t, d, how) /\ d.held \in [R -> Nat]
      /\ \A r \in R : d.held[r] > 0
      /\ J \cap Ctl(t) = {} /\ J \cap Extra(t) = {} /\ d.hwctl \subseteq R
  BY <1>1 DEF Leaving, Counts, Extra
<1> HIDE DEF R, m, X, Y, J
<1>3. power_off_core(t, how) \in Seq(Op) /\ Released(t, d, m, X) /\ Counts(m, R)
  BY <1>2, CoreOff DEF R, m, X
<1>4. /\ m.left = d.left /\ m.faults = d.faults /\ m.dark = d.dark /\ m.jam = J
      /\ m.power_enabled = d.power_enabled
      /\ m.held = [r \in DOMAIN d.held |-> IF r \in X \ J /\ d.held[r] > 0 THEN d.held[r] - 1 ELSE d.held[r]]
      /\ m.bad = d.bad \cup {r \in X \ J : d.held[r] = 0}
      /\ m.hwctl = d.hwctl \ (X \ J)
      /\ m.asleep = (d.asleep /\ CoreGdscs(t)[1] \notin X \ J)
  BY <1>3, ReleasedFields DEF J
<1>5. \A r \in R : m.held[r] = IF r \in X \ J THEN d.held[r] - 1 ELSE d.held[r]
  BY <1>2, <1>4
<1>6. \A r \in Ctl(t) : m.held[r] = d.held[r]
  BY <1>1, <1>5
<1>7. m.bad = d.bad
  <2>1. X \subseteq R
    BY <1>1
  <2>2. {r \in X \ J : d.held[r] = 0} = {}
    BY <1>2, <2>1
  <2> QED BY <1>4, <2>2
<1>8. CtlReady(t, m) /\ m.asleep \in BOOLEAN
  BY <1>1, <1>2, <1>4, <1>6 DEF CtlReady
<1>9. power_off_controller(t) \in Seq(Op) /\ Released(t, m, n, Y) /\ Counts(n, R)
  BY <1>3, <1>8, ControllerOff DEF R, Y
<1>10. e = n
  BY <1>3, <1>9, RunConcat DEF m
<1> HIDE DEF n
<1>11. /\ n.left = m.left /\ n.faults = m.faults /\ n.dark = m.dark
       /\ n.held = [r \in DOMAIN m.held |-> IF r \in Y \ m.jam /\ m.held[r] > 0 THEN m.held[r] - 1 ELSE m.held[r]]
       /\ n.bad = m.bad \cup {r \in Y \ m.jam : m.held[r] = 0}
       /\ n.hwctl = m.hwctl \ (Y \ m.jam)
  BY <1>9, ReleasedFields
<1>12. m.held \in [R -> Nat] /\ n.held \in [R -> Nat]
  BY <1>3, <1>9 DEF Counts
<1>13. \A r \in R : n.held[r] = IF r \in Y \ J /\ m.held[r] > 0 THEN m.held[r] - 1 ELSE m.held[r]
  BY <1>4, <1>11, <1>12
<1>14. ASSUME NEW r \in R
       PROVE  n.held[r] <= d.held[r] /\ (r \notin J => n.held[r] <= d.held[r] - 1)
  <2>1. d.held[r] \in Nat /\ d.held[r] > 0
    BY <1>2
  <2>2. m.held[r] = (IF r \in X \ J THEN d.held[r] - 1 ELSE d.held[r])
    BY <1>5
  <2>3. n.held[r] = (IF r \in Y \ J /\ m.held[r] > 0 THEN m.held[r] - 1 ELSE m.held[r])
    BY <1>13
  <2>4. r \in X \/ r \in Y
    BY <1>1
  <2>5. CASE r \in X \ J
    BY <2>1, <2>2, <2>3, <2>5
  <2>6. CASE r \notin X \ J
    BY <2>1, <2>2, <2>3, <2>4, <2>6
  <2> QED BY <2>5, <2>6
<1>15. n.hwctl \subseteq d.hwctl /\ (J = {} => n.hwctl = {})
  BY <1>1, <1>2, <1>4, <1>11
<1>16. ASSUME NEW r \in Y, m.held[r] = 0 PROVE r \in Extra(t) /\ how = "sw_ctl"
  <2>1. r \in R /\ d.held[r] \in Nat /\ d.held[r] > 0
    BY <1>1, <1>2
  <2>2. r \notin Ctl(t)
    BY <1>6, <1>16, <2>1
  <2>3. r \in Extra(t)
    BY <2>2 DEF Y
  <2>4. r \in X
    BY <1>5, <1>16, <2>1
  <2> QED BY <1>1, <2>3, <2>4
<1>17. n.bad \subseteq d.bad \cup Extra(t) /\ (n.bad # d.bad => how = "sw_ctl")
  <2>1. n.bad = d.bad \cup {r \in Y \ m.jam : m.held[r] = 0}
    BY <1>7, <1>11
  <2>2. {r \in Y \ m.jam : m.held[r] = 0} \subseteq Extra(t)
    BY <1>16
  <2>3. how # "sw_ctl" => {r \in Y \ m.jam : m.held[r] = 0} = {}
    BY <1>16
  <2> QED BY <2>1, <2>2, <2>3
<1>18. n.left = d.left /\ n.faults = d.faults /\ n.dark = d.dark
  BY <1>4, <1>11
<1> QED BY <1>9, <1>10, <1>14, <1>15, <1>17, <1>18 DEF Left, R, J

\* f is d when it is about to be switched off: the core's GDSC was taken back, or was not.
TakenBack(t, d, f) ==
    /\ IsDev(f) /\ f.held = d.held /\ f.hwctl = d.hwctl /\ f.bad = d.bad /\ f.dark = d.dark
    /\ f.power_enabled = d.power_enabled
    /\ \/ f.left = d.left /\ f.faults = d.faults /\ f.jam = {}
       \/ /\ d.left # 0 /\ f.left = d.left - 1 /\ f.faults = d.faults \cup {"take_back"}
          /\ f.jam = {CoreGdscs(t)[1]}

LEMMA LeftSound ==
    ASSUME NEW t \in Targets, NEW d, Sound(t, d), d.power_enabled = TRUE, NEW how,
           NEW f, TakenBack(t, d, f), NEW n, Left(t, f, n, how),
           how = "sw_ctl" => d.faults \cap DoubleFaults # {},
           NEW e, e = [unvote_buses(n) EXCEPT !.power_enabled = FALSE, !.asleep = FALSE, !.jam = {}]
    PROVE  Sound(t, e)
<1> DEFINE R == Resources(t)
           g == CoreGdscs(t)[1]
<1>0. MaxFaults \in Nat
  BY PowerAssumption
<1>1. /\ d.held \in [R -> Nat] /\ d.left \in 0..MaxFaults
      /\ \A r \in R : 1 <= d.held[r] /\ d.held[r] <= (MaxFaults - d.left) + 1
      /\ d.faults \cap LeaksOf(t) = {} => \A r \in R : d.held[r] = 1
  BY DEF Sound, HeldSound, One
<1>2. /\ f.held = d.held /\ f.hwctl = d.hwctl /\ f.bad = d.bad /\ f.dark = d.dark
      /\ \/ f.left = d.left /\ f.faults = d.faults /\ f.jam = {}
         \/ /\ d.left # 0 /\ f.left = d.left - 1 /\ f.faults = d.faults \cup {"take_back"}
            /\ f.jam = {g}
  BY DEF TakenBack
<1> HIDE DEF R, g
<1>3. /\ IsDev(n) /\ n.held \in [R -> Nat] /\ n.left = f.left /\ n.faults = f.faults /\ n.dark = f.dark
      /\ \A r \in R : n.held[r] <= f.held[r] /\ (r \notin f.jam => n.held[r] <= f.held[r] - 1)
      /\ n.hwctl \subseteq f.hwctl /\ (f.jam = {} => n.hwctl = {})
      /\ n.bad \subseteq f.bad \cup Extra(t) /\ (n.bad # f.bad => how = "sw_ctl")
  BY DEF Left, Counts, R
<1>4. /\ IsDev(e) /\ e.left = n.left /\ e.faults = n.faults /\ e.dark = n.dark /\ e.jam = {}
      /\ e.bad = n.bad /\ e.hwctl = n.hwctl /\ e.asleep = FALSE /\ e.held = n.held
      /\ e.power_enabled = FALSE /\ e.voted = FALSE
  BY <1>3 DEF unvote_buses, IsDev, Fields
<1>5. d.faults \subseteq e.faults /\ e.left \in 0..MaxFaults
  <2>1. d.faults \subseteq f.faults
    BY <1>2
  <2>2. f.left \in 0..MaxFaults
    BY <1>0, <1>1, <1>2
  <2> QED BY <1>3, <1>4, <2>1, <2>2
<1>6. HeldSound(t, e)
  <2>1. One(e) = 0
    BY <1>4 DEF One
  <2>2. ASSUME NEW r \in R PROVE 0 <= e.held[r] /\ e.held[r] <= (MaxFaults - e.left) + 0
    <3>1. /\ e.held[r] \in Nat /\ d.held[r] \in Nat /\ d.held[r] <= (MaxFaults - d.left) + 1
          /\ e.held[r] <= d.held[r] /\ (r \notin f.jam => e.held[r] <= d.held[r] - 1)
      BY <1>1, <1>2, <1>3, <1>4
    <3>2. CASE f.left = d.left /\ f.faults = d.faults /\ f.jam = {}
      BY <1>0, <1>1, <1>3, <1>4, <3>1, <3>2
    <3>3. CASE f.left = d.left - 1
      <4>1. e.left = d.left - 1
        BY <1>3, <1>4, <3>3
      <4> QED BY <1>0, <1>1, <3>1, <4>1
    <3> QED BY <1>2, <3>2, <3>3
  <2>3. ASSUME e.faults \cap LeaksOf(t) = {}, NEW r \in R PROVE e.held[r] = 0
    <3>1. "take_back" \in LeaksOf(t)
      BY DEF LeaksOf
    <3>2. "take_back" \notin e.faults /\ d.faults \cap LeaksOf(t) = {}
      BY <1>5, <2>3, <3>1
    <3>3. f.jam = {}
      BY <1>2, <1>3, <1>4, <3>2
    <3>4. d.held[r] = 1 /\ e.held[r] \in Nat /\ e.held[r] <= d.held[r] - 1
      BY <1>1, <1>2, <1>3, <1>4, <3>2, <3>3
    <3> QED BY <3>4
  <2> QED BY <1>3, <1>4, <1>5, <2>1, <2>2, <2>3 DEF HeldSound, R
<1>7. HwSound(t, e)
  <2>1. d.hwctl \subseteq Range(CoreGdscs(t))
    BY DEF Sound, HwSound
  <2>2. "take_back" \notin e.faults => e.hwctl = {}
    BY <1>2, <1>3, <1>4
  <2> QED BY <1>2, <1>3, <1>4, <2>1, <2>2 DEF HwSound
<1>8. BadSound(t, e)
  <2>1. d.bad \subseteq Extra(t) /\ (d.bad # {} => d.faults \cap DoubleFaults # {})
    BY DEF Sound, BadSound
  <2>2. d.faults \cap DoubleFaults # {} => e.faults \cap DoubleFaults # {}
    BY <1>5
  <2>3. e.bad \subseteq Extra(t)
    BY <1>2, <1>3, <1>4, <2>1
  <2>4. e.bad # {} => d.faults \cap DoubleFaults # {}
    BY <1>2, <1>3, <1>4, <2>1
  <2> QED BY <2>2, <2>3, <2>4 DEF BadSound
<1>9. DarkSound(e)
  <2>1. e.dark = d.dark
    BY <1>2, <1>3, <1>4
  <2> QED BY <1>5, <2>1 DEF Sound, DarkSound
<1> QED BY <1>4, <1>6, <1>7, <1>8, <1>9 DEF Sound

LEMMA TakeBackStep ==
    ASSUME NEW t \in Targets, NEW d, Sound(t, d), d.power_enabled = TRUE, NEW how,
           NEW a \in BOOLEAN, how = "idle" => a = FALSE,
           NEW e \in TakeBack(t, d), NEW f, f = [e EXCEPT !.asleep = a]
    PROVE  TakenBack(t, d, f) /\ Leaving(t, f, how)
<1> DEFINE g == CoreGdscs(t)[1]
           k == Fail(d, "take_back")
<1>1. IsDev(d) /\ d.jam = {} /\ d.left \in Nat
  BY SoundDev DEF Sound
<1>2. ASSUME e = d PROVE TakenBack(t, d, f)
  <2>1. /\ IsDev(f) /\ f.held = d.held /\ f.hwctl = d.hwctl /\ f.bad = d.bad /\ f.dark = d.dark
        /\ f.power_enabled = d.power_enabled /\ f.left = d.left /\ f.faults = d.faults /\ f.jam = {}
    BY <1>1, <1>2 DEF IsDev, Fields
  <2> QED BY <2>1 DEF TakenBack
<1>3. ASSUME d.left # 0, e = [k EXCEPT !.jam = {g}] PROVE TakenBack(t, d, f)
  <2>1. Failed(d, k, "take_back")
    BY <1>1, FailFields2
  <2> HIDE DEF k
  <2>2. /\ IsDev(k) /\ k.left = d.left - 1 /\ k.faults = d.faults \cup {"take_back"} /\ k.dark = d.dark
        /\ k.power_enabled = d.power_enabled /\ k.bad = d.bad /\ k.hwctl = d.hwctl /\ k.held = d.held
    BY <2>1 DEF Failed
  <2>3. /\ IsDev(e) /\ e.held = k.held /\ e.hwctl = k.hwctl /\ e.bad = k.bad /\ e.dark = k.dark
        /\ e.power_enabled = k.power_enabled /\ e.left = k.left /\ e.faults = k.faults /\ e.jam = {g}
    BY <1>3, <2>2 DEF IsDev, Fields
  <2>4. /\ IsDev(f) /\ f.held = e.held /\ f.hwctl = e.hwctl /\ f.bad = e.bad /\ f.dark = e.dark
        /\ f.power_enabled = e.power_enabled /\ f.left = e.left /\ f.faults = e.faults /\ f.jam = e.jam
    BY <2>3 DEF IsDev, Fields
  <2>5. /\ f.held = d.held /\ f.hwctl = d.hwctl /\ f.bad = d.bad /\ f.dark = d.dark
        /\ f.power_enabled = d.power_enabled
    BY <2>2, <2>3, <2>4
  <2>6. d.left # 0 /\ f.left = d.left - 1 /\ f.faults = d.faults \cup {"take_back"} /\ f.jam = {g}
    BY <1>3, <2>2, <2>3, <2>4
  <2> QED BY <2>4, <2>5, <2>6 DEF TakenBack
<1>4. e = d \/ (d.left # 0 /\ e = [k EXCEPT !.jam = {g}])
  BY DEF TakeBack
<1>5. TakenBack(t, d, f)
  BY <1>2, <1>3, <1>4
<1>6. IsDev(e)
  <2>1. CASE e = d
    BY <1>1, <2>1
  <2>2. CASE e = [k EXCEPT !.jam = {g}]
    <3>1. IsDev(k)
      BY <1>1, FailFields
    <3> HIDE DEF k
    <3> QED BY <2>2, <3>1 DEF IsDev, Fields
  <2> QED BY <1>4, <2>1, <2>2
<1>7. f.asleep = a
  BY <1>6 DEF IsDev, Fields
<1>8. f.asleep \in BOOLEAN /\ (how = "idle" => f.asleep = FALSE)
  BY <1>7
<1>9. IsDev(f) /\ f.held = d.held /\ f.hwctl = d.hwctl /\ f.jam \subseteq {g}
  BY <1>5 DEF TakenBack
<1>10. d.held \in [Resources(t) -> Nat] /\ \A r \in Resources(t) : 1 <= d.held[r]
  BY DEF Sound, HeldSound, One
<1>11. Counts(f, Resources(t)) /\ \A r \in Resources(t) : f.held[r] > 0
  BY <1>9, <1>10 DEF Counts
<1>12. Ready(t, f, how)
  BY <1>8, <1>11 DEF Ready
<1>13. f.jam \subseteq Core(t) \ Doubly /\ f.hwctl \subseteq Core(t)
  <2>1. d.hwctl \subseteq Range(CoreGdscs(t))
    BY DEF Sound, HwSound
  <2> QED BY <1>9, <2>1, ClockLayout
<1>14. Leaving(t, f, how)
  BY <1>8, <1>11, <1>12, <1>13 DEF Leaving
<1> QED BY <1>5, <1>14

\* power_off_iris2
LEMMA PowerOffSound ==
    ASSUME NEW t \in Targets, NEW d, Sound(t, d), Controlled(t, d), NEW e \in power_off_iris2(t, d)
    PROVE  Sound(t, e) /\ e.power_enabled = FALSE
<1> DEFINE q == [d EXCEPT !.depth = IF d.wd THEN @ ELSE @ + 1, !.wd = FALSE]
<1>1. CASE ~d.power_enabled
  <2>1. e = d
    BY <1>1 DEF power_off_iris2
  <2> QED BY <1>1, <2>1 DEF Sound
<1>2. CASE d.power_enabled
  <2>0. d.power_enabled = TRUE /\ IsDev(d) /\ d.left \in Nat
    BY <1>2, SoundDev DEF Sound
  <2> DEFINE ops(how) == power_off_core(t, how) \o power_off_controller(t)
             off(how) == {Run(t, [x EXCEPT !.asleep = (how = "fw_off")], ops(how)) :
                            x \in TakeBack(t, q)}
             last(x) == [unvote_buses(x) EXCEPT !.power_enabled = FALSE, !.asleep = FALSE, !.jam = {}]
  <2>a. e \in {last(x) : x \in UNION {off(how) : how \in CoreFound(t, d)}}
    BY <1>2 DEF power_off_iris2
  <2> HIDE DEF off, last, ops
  <2>b. PICK how \in CoreFound(t, d) : \E x \in off(how) : e = last(x)
    BY <2>a
  <2>c. PICK x \in off(how) : e = last(x)
    BY <2>b
  <2>1. PICK b \in TakeBack(t, q) : x = Run(t, [b EXCEPT !.asleep = (how = "fw_off")], ops(how))
    BY <2>c DEF off
  <2>2. Quiet(d, q)
    <3>1. /\ IsDev(q) /\ q.left = d.left /\ q.faults = d.faults
          /\ \A f \in {"held", "hwctl", "jam", "asleep", "bad", "dark", "power_enabled", "voted"} : q[f] = d[f]
      BY <2>0 DEF IsDev, Fields
    <3> HIDE DEF q
    <3> QED BY <2>0, <3>1 DEF Quiet
  <2>3. q.faults = d.faults
    BY <2>0 DEF IsDev, Fields
  <2> HIDE DEF q
  <2>4. Sound(t, q) /\ q.power_enabled = TRUE
    BY <2>0, <2>2, QuietSound, QuietFields
  <2> DEFINE f == [b EXCEPT !.asleep = (how = "fw_off")]
             n == Run(t, f, power_off_core(t, how) \o power_off_controller(t))
  <2>5. TakenBack(t, q, f) /\ Leaving(t, f, how)
    <3> DEFINE a == (how = "fw_off")
    <3>1. a \in BOOLEAN /\ (how = "idle" => a = FALSE) /\ f = [b EXCEPT !.asleep = a]
      OBVIOUS
    <3> HIDE DEF a, f
    <3> QED BY <2>1, <2>4, <3>1, TakeBackStep
  <2>6. how \in Ways /\ (how = "sw_ctl" => LowPower /\ CoreGdscs(t)[1] \notin d.hwctl)
    BY <2>b DEF CoreFound, Ways
  <2>7. how = "sw_ctl" => q.faults \cap DoubleFaults # {}
    BY <2>0, <2>3, <2>6 DEF Controlled, DoubleFaults
  <2> HIDE DEF f
  <2>8. Left(t, f, n, how)
    BY <2>5, <2>6, LeaveStep
  <2>9. e = [unvote_buses(n) EXCEPT !.power_enabled = FALSE, !.asleep = FALSE, !.jam = {}]
    BY <2>1, <2>c DEF f, last, ops
  <2>10. IsDev(n)
    BY <2>8 DEF Left, Counts
  <2> HIDE DEF n
  <2>11. Sound(t, e)
    BY <2>4, <2>5, <2>7, <2>8, <2>9, LeftSound
  <2>12. e.power_enabled = FALSE
    BY <2>9, <2>10 DEF unvote_buses, IsDev, Fields
  <2> QED BY <2>11, <2>12
<1>3. d.power_enabled \in BOOLEAN
  BY DEF Sound
<1> QED BY <1>1, <1>2, <1>3

\* Handing the core over to the hardware, or taking it back.
LEMMA MovedFields ==
    ASSUME NEW d, IsDev(d), NEW dest, NEW gs
    PROVE  /\ Only(d, Moved(d, dest, gs), {"hwctl"})
           /\ Moved(d, dest, gs).hwctl = IF dest = "HW" THEN d.hwctl \cup gs ELSE d.hwctl \ gs
  BY DEF Moved, Only, IsDev, Fields

LEMMA MovedBack ==
    ASSUME NEW d, IsDev(d), NEW gs, NEW e, e = Moved(d, "SW", gs)
    PROVE  Only(d, e, {"hwctl"}) /\ e.hwctl = d.hwctl \ gs
  BY DEF Moved, Only, IsDev, Fields

LEMMA HandSound ==
    ASSUME NEW t, NEW d, Sound(t, d), d.power_enabled = TRUE,
           NEW e, Only(d, e, {"hwctl"}), e.hwctl \in {{}, Range(CoreGdscs(t))}
    PROVE  Sound(t, e) /\ e.power_enabled = TRUE
<1>1. /\ IsDev(e) /\ e.held = d.held /\ e.jam = d.jam /\ e.asleep = d.asleep /\ e.bad = d.bad
      /\ e.dark = d.dark /\ e.power_enabled = d.power_enabled /\ e.voted = d.voted
      /\ e.faults = d.faults /\ e.left = d.left
  BY DEF Only, Fields
<1>2. HeldSound(t, e)
  BY <1>1 DEF Sound, HeldSound, One
<1>3. HwSound(t, e)
  BY <1>1 DEF HwSound
<1>4. BadSound(t, e) /\ DarkSound(e)
  BY <1>1 DEF Sound, BadSound, DarkSound
<1> QED BY <1>1, <1>2, <1>3, <1>4 DEF Sound

LEMMA SwitchAll ==
    ASSUME NEW t, NEW d, IsDev(d), NEW dest, NEW k, NEW late
    PROVE  Only(d, switch_all_core_gdsc(t, d, dest, k, late), {"hwctl"})
<1> DEFINE a == Moved(d, dest, Range(CoreGdscs(t)))
           b == Moved(d, dest, Range(SubSeq(CoreGdscs(t), 1, k - 1 + late)))
           c == Moved(b, "SW", Range(SubSeq(CoreGdscs(t), 1, k - 1)))
<1>1. Only(d, a, {"hwctl"}) /\ Only(d, b, {"hwctl"})
  BY MovedFields
<1> HIDE DEF a, b
<1>2. IsDev(b)
  BY <1>1 DEF Only
<1>3. Only(b, c, {"hwctl"})
  BY <1>2, MovedFields
<1>4. switch_all_core_gdsc(t, d, dest, k, late) \in {a, c}
  BY DEF switch_all_core_gdsc, a, b
<1> HIDE DEF c
<1>5. Only(d, c, {"hwctl"})
  BY <1>1, <1>3 DEF Only
<1> QED BY <1>1, <1>4, <1>5

LEMMA PartRange ==
    ASSUME NEW g \in Seq(Names), NEW n \in 0..Len(g) PROVE Range(SubSeq(g, 1, n)) \subseteq Range(g)
<1>1. Len(g) \in Nat /\ n \in Nat
  OBVIOUS
<1>2. SubSeq(g, 1, n) \in Seq(Names) /\ Len(SubSeq(g, 1, n)) = n /\ \A i \in 1..n : SubSeq(g, 1, n)[i] = g[i]
  BY <1>1
<1>3. DOMAIN SubSeq(g, 1, n) = 1..n /\ DOMAIN g = 1..Len(g)
  BY <1>1, <1>2
<1> QED BY <1>1, <1>2, <1>3 DEF Range

LEMMA HwCollapseSound ==
    ASSUME NEW t \in Targets, NEW d, Sound(t, d), d.power_enabled = TRUE,
           NEW e \in enable_hw_power_collapse(t, d)
    PROVE  Sound(t, e) /\ Controlled(t, e) /\ e.power_enabled = TRUE
<1> DEFINE G == Range(CoreGdscs(t))
           k == Fail(d, "hwpc")
<1>1. IsDev(d) /\ d.left \in Nat /\ d.hwctl \subseteq G
  BY SoundDev DEF Sound, HwSound
<1>2. CoreGdscs(t)[1] \in G /\ (t \notin {"hawi", "art"} => G = {"core"})
  BY ClockLayout
<1>3. ASSUME d.left # 0 PROVE Sound(t, k) /\ IsDev(k) /\ k.power_enabled = TRUE /\ "hwpc" \in k.faults
                              /\ k.hwctl = d.hwctl
  <2>1. Quiet(d, k) /\ "hwpc" \in k.faults
    BY <1>3, FailQuiet
  <2> HIDE DEF k
  <2>2. Sound(t, k)
    BY <2>1, QuietSound
  <2>3. IsDev(k) /\ k.power_enabled = TRUE /\ k.hwctl = d.hwctl
    BY <2>1, QuietFields
  <2> QED BY <2>1, <2>2, <2>3
<1> HIDE DEF k, G
<1>4. CASE ~LowPower
  <2>1. e = d
    BY <1>4 DEF enable_hw_power_collapse
  <2> QED BY <1>4, <2>1 DEF Controlled
<1>5. CASE LowPower /\ t \notin {"hawi", "art"}
  <2>1. e = Moved(d, "HW", {"core"}) \/ (d.left # 0 /\ e = k)
    BY <1>5 DEF enable_hw_power_collapse, enable_hw_power_collapse_others, k
  <2>2. CASE e = Moved(d, "HW", {"core"})
    <3>1. Only(d, e, {"hwctl"}) /\ e.hwctl = d.hwctl \cup {"core"}
      BY <1>1, <2>2, MovedFields
    <3>2. e.hwctl = G
      BY <1>1, <1>2, <1>5, <3>1
    <3>3. e.hwctl \in {{}, Range(CoreGdscs(t))}
      BY <3>2 DEF G
    <3>4. Sound(t, e) /\ e.power_enabled = TRUE
      BY <3>1, <3>3, HandSound
    <3>5. Controlled(t, e)
      BY <1>2, <3>2 DEF Controlled
    <3> QED BY <3>4, <3>5
  <2>3. CASE d.left # 0 /\ e = k
    BY <1>3, <2>3 DEF Controlled
  <2> QED BY <2>1, <2>2, <2>3
<1>6. CASE LowPower /\ t \in {"hawi", "art"}
  <2>1. e \in enable_hw_power_collapse_hawi(t, d)
    BY <1>6 DEF enable_hw_power_collapse
  <2>2. \/ e = switch_all_core_gdsc(t, d, "HW", 0, 0)
        \/ d.left # 0 /\ \E i \in DOMAIN CoreGdscs(t), late \in 0..1 : e = switch_all_core_gdsc(t, switch_all_core_gdsc(t, k, "HW", i, late), "SW", 0, 0)
    BY <2>1 DEF enable_hw_power_collapse_hawi, k
  <2>3. CASE e = switch_all_core_gdsc(t, d, "HW", 0, 0)
    <3>1. e = Moved(d, "HW", G)
      BY <2>3 DEF switch_all_core_gdsc, G
    <3>2. Only(d, e, {"hwctl"}) /\ e.hwctl = d.hwctl \cup G
      BY <1>1, <3>1, MovedFields
    <3>3. e.hwctl = G /\ e.hwctl \in {{}, Range(CoreGdscs(t))}
      BY <1>1, <3>2 DEF G
    <3>4. Sound(t, e) /\ e.power_enabled = TRUE
      BY <3>2, <3>3, HandSound
    <3>5. Controlled(t, e)
      BY <1>2, <3>3 DEF Controlled
    <3> QED BY <3>4, <3>5
  <2>4. CASE d.left # 0 /\ \E i \in DOMAIN CoreGdscs(t), late \in 0..1 : e = switch_all_core_gdsc(t, switch_all_core_gdsc(t, k, "HW", i, late), "SW", 0, 0)
    <3>0. Sound(t, k) /\ IsDev(k) /\ k.power_enabled = TRUE /\ "hwpc" \in k.faults
      BY <1>3, <2>4
    <3>1. PICK i \in DOMAIN CoreGdscs(t), late \in 0..1 :
             e = switch_all_core_gdsc(t, switch_all_core_gdsc(t, k, "HW", i, late), "SW", 0, 0)
      BY <2>4
    <3> DEFINE s == switch_all_core_gdsc(t, k, "HW", i, late)
               g == CoreGdscs(t)
               b == Moved(k, "HW", Range(SubSeq(g, 1, i - 1 + late)))
               c == Range(SubSeq(g, 1, i - 1))
    <3>2. Only(k, s, {"hwctl"})
      BY <3>0, SwitchAll
    <3>g. g \in Seq(Names) /\ Len(g) \in Nat /\ i \in 1..Len(g)
      BY ClockLayout
    <3>s. s = Moved(b, "SW", c)
      BY <3>g DEF switch_all_core_gdsc
    <3>e. e = switch_all_core_gdsc(t, s, "SW", 0, 0)
      BY <3>1
    <3>G. G = Range(g)
      BY DEF G
    <3> HIDE DEF s, c, g
    <3>3. IsDev(s)
      BY <3>2 DEF Only
    <3>4. e = Moved(s, "SW", G)
      BY <3>e DEF switch_all_core_gdsc, G
    <3>5. Only(s, e, {"hwctl"}) /\ e.hwctl = s.hwctl \ G
      BY <3>3, <3>4, MovedBack
    <3>6. s.hwctl \subseteq G
      <4>1. k.hwctl \subseteq G
        BY <1>1, <1>3, <2>4
      <4>2. Range(SubSeq(g, 1, i - 1 + late)) \subseteq Range(g)
        <5>1. i - 1 + late \in 0..Len(g)
          BY <3>g
        <5> QED BY <5>1, <3>g, PartRange
      <4>3. Only(k, b, {"hwctl"}) /\ b.hwctl = k.hwctl \cup Range(SubSeq(g, 1, i - 1 + late))
        BY <3>0, MovedFields
      <4> HIDE DEF b
      <4>4. IsDev(b)
        BY <4>3 DEF Only
      <4>5. s.hwctl = b.hwctl \ c
        BY <4>4, <3>s, MovedBack
      <4> QED BY <4>1, <4>2, <4>3, <4>5, <3>G
    <3>7. e.hwctl = {}
      BY <3>5, <3>6
    <3>8. Only(k, e, {"hwctl"})
      BY <3>2, <3>5 DEF Only
    <3>9. Sound(t, e) /\ e.power_enabled = TRUE
      BY <3>0, <3>7, <3>8, HandSound
    <3>10. e.faults = k.faults
      BY <3>8 DEF Only, Fields
    <3>11. Controlled(t, e)
      BY <3>0, <3>10 DEF Controlled
    <3> QED BY <3>9, <3>11
  <2> QED BY <2>2, <2>3, <2>4
<1> QED BY <1>4, <1>5, <1>6

-----------------------------------------------------------------------------
(***************************************************************************)
(* The functions under device->lock: each one takes a Sound device to      *)
(* Sound outcomes.                                                         *)
(***************************************************************************)
\* The fields that power does not depend on.
Calm == {"state", "data", "depth", "wd", "queued", "skip", "last", "res", "sub", "isset", "told", "fw",
         "reg_dumped", "busy", "sends", "inits"}

LEMMA CalmQuiet ==
    ASSUME NEW t, NEW d, Sound(t, d), NEW e, Only(d, e, Calm) PROVE Quiet(d, e)
<1>1. d.left \in Nat
  BY SoundDev
<1>2. /\ IsDev(e) /\ e.left = d.left /\ e.faults = d.faults
      /\ \A f \in {"held", "hwctl", "jam", "asleep", "bad", "dark", "power_enabled", "voted"} : e[f] = d[f]
  BY DEF Only, Fields, Calm
<1> QED BY <1>1, <1>2 DEF Quiet

LEMMA CalmSound ==
    ASSUME NEW t, NEW d, Sound(t, d), NEW e, Only(d, e, Calm)
    PROVE  /\ Sound(t, e) /\ e.power_enabled = d.power_enabled /\ e.left = d.left
           /\ Controlled(t, d) => Controlled(t, e)
<1>1. Quiet(d, e)
  BY CalmQuiet
<1>2. e.left = d.left
  BY DEF Only, Fields, Calm
<1> QED BY <1>1, <1>2, QuietSound, QuietFields

LEMMA FailKeeps ==
    ASSUME NEW t, NEW d, Sound(t, d), d.left # 0, NEW k, NEW e, e = Fail(d, k)
    PROVE  /\ Sound(t, e) /\ e.power_enabled = d.power_enabled /\ k \in e.faults
           /\ Controlled(t, d) => Controlled(t, e)
<1>1. Quiet(d, e) /\ k \in e.faults
  BY FailQuiet
<1> QED BY <1>1, QuietSound, QuietFields

LEMMA MaySound ==
    ASSUME NEW t, NEW d, Sound(t, d), NEW k, NEW o \in May(d, k)
    PROVE  /\ Sound(t, o.d) /\ o.d.power_enabled = d.power_enabled /\ (~o.ok => k \in o.d.faults)
           /\ Controlled(t, d) => Controlled(t, o.d)
<1>1. Quiet(d, o.d) /\ (~o.ok => d.left # 0 /\ o.d = Fail(d, k))
  BY MayQuiet
<1>2. ~o.ok => k \in o.d.faults
  BY <1>1, FailQuiet
<1> QED BY <1>1, <1>2, QuietSound, QuietFields

LEMMA BootSound ==
    ASSUME NEW t \in Targets, NEW d, Sound(t, d), d.power_enabled = TRUE, NEW o \in boot_firmware(t, d)
    PROVE  Sound(t, o.d) /\ Controlled(t, o.d) /\ o.d.power_enabled = TRUE
<1> DEFINE c == <<Reg("ctl")>>
<1>0. Regs(c, CtlDoms)
  BY AccessRegs
<1>1. PICK b \in May(d, "boot") :
        \E e \in enable_hw_power_collapse(t, Run(t, b.d, c)) : o = [d |-> Run(t, e, c), ok |-> b.ok]
  BY DEF boot_firmware
<1> HIDE DEF c
<1>2. Sound(t, b.d) /\ b.d.power_enabled = TRUE
  BY MaySound
<1>3. Run(t, b.d, c) = b.d
  BY <1>0, <1>2, AccessSound
<1>4. PICK e \in enable_hw_power_collapse(t, b.d) : o = [d |-> Run(t, e, c), ok |-> b.ok]
  BY <1>1, <1>3
<1>5. Sound(t, e) /\ Controlled(t, e) /\ e.power_enabled = TRUE
  BY <1>2, HwCollapseSound
<1>6. Run(t, e, c) = e
  BY <1>0, <1>5, AccessSound
<1>7. o.d = e
  BY <1>4, <1>6
<1> QED BY <1>5, <1>7

LEMMA DumpSound ==
    ASSUME NEW t \in Targets, NEW d, Sound(t, d), d.power_enabled = TRUE, NEW e \in dump_csr(t, d)
    PROVE  Sound(t, e) /\ e.power_enabled = TRUE /\ (Controlled(t, d) => Controlled(t, e))
<1> DEFINE ops == DumpRegs(t)
           G == Range(CoreGdscs(t))
           read(x) == [Run(t, x, ops) EXCEPT !.reg_dumped = TRUE, !.asleep = FALSE]
           m == Moved(d, "SW", G)
           f == Fail(d, "dump")
           w == [f EXCEPT !.asleep = (d.hwctl # {})]
<1>0. IsDev(d) /\ d.left \in Nat /\ d.hwctl \subseteq G
  BY SoundDev DEF Sound, HwSound
<1>1. \/ e = read(d)
      \/ e \in enable_hw_power_collapse(t, read(m))
      \/ d.left # 0 /\ e = read(w)
  BY DEF dump_csr, DumpRegs
<1>r. Regs(ops, Doms)
  BY AccessRegs
<1> HIDE DEF ops
<1>2. ASSUME NEW x, Sound(t, x)
      PROVE  Sound(t, read(x)) /\ read(x).power_enabled = x.power_enabled
             /\ (Controlled(t, x) => Controlled(t, read(x)))
  <2>1. Run(t, x, ops) = x
    BY <1>r, <1>2, AccessSound
  <2>2. IsDev(x) /\ x.asleep = FALSE
    BY <1>2 DEF Sound
  <2> DEFINE y == [x EXCEPT !.reg_dumped = TRUE, !.asleep = FALSE]
  <2>3. Only(x, y, Calm)
    BY <2>2 DEF Only, IsDev, Fields, Calm
  <2>4. read(x) = y
    BY <2>1
  <2> HIDE DEF y, read
  <2> QED BY <1>2, <2>3, <2>4, CalmSound
<1>3. CASE e = read(d)
  BY <1>2, <1>3
<1>4. CASE e \in enable_hw_power_collapse(t, read(m))
  <2>1. Only(d, m, {"hwctl"}) /\ m.hwctl = d.hwctl \ G
    BY <1>0, MovedBack
  <2> HIDE DEF m
  <2>2. m.hwctl \in {{}, Range(CoreGdscs(t))}
    BY <1>0, <2>1
  <2>3. Sound(t, m) /\ m.power_enabled = TRUE
    BY <2>1, <2>2, HandSound
  <2>4. Sound(t, read(m)) /\ read(m).power_enabled = TRUE
    BY <1>2, <2>3
  <2> HIDE DEF read
  <2> QED BY <1>4, <2>4, HwCollapseSound
<1>5. CASE d.left # 0 /\ e = read(w)
  <2>1. Sound(t, f) /\ f.power_enabled = TRUE /\ "dump" \in f.faults
        /\ (Controlled(t, d) => Controlled(t, f))
    BY <1>5, FailKeeps
  <2>2. IsDev(f) /\ f.asleep = FALSE
    BY <2>1 DEF Sound
  <2> DEFINE a == d.hwctl # {}
  <2>3. w = [f EXCEPT !.asleep = a]
    OBVIOUS
  <2> HIDE DEF a, f
  <2>4. Only(f, w, {"asleep"})
    BY <2>2, <2>3 DEF Only, IsDev, Fields
  <2> HIDE DEF w
  <2>5. IsDev(w)
    BY <2>4 DEF Only
  <2> DEFINE z == Run(t, w, ops)
  <2>6. Only(w, z, {"dark"}) /\ z.dark \subseteq w.dark \cup Doms
    BY <1>r, <2>5, RunDark
  <2> HIDE DEF z
  <2>7. e = [z EXCEPT !.reg_dumped = TRUE, !.asleep = FALSE]
    BY <1>5 DEF z
  <2>8. IsDev(z) /\ z.dark \subseteq f.dark \cup Doms
        /\ \A g \in Fields \ {"dark", "asleep"} : z[g] = f[g]
    BY <2>4, <2>6 DEF Only, Fields
  <2>9. /\ IsDev(e) /\ e.dark = z.dark /\ e.asleep = FALSE
        /\ \A g \in Fields \ {"dark", "asleep", "reg_dumped"} : e[g] = z[g]
    BY <2>7, <2>8 DEF IsDev, Fields
  <2>10. /\ IsDev(e) /\ e.dark \subseteq f.dark \cup Doms /\ e.asleep = FALSE
         /\ e.held = f.held /\ e.hwctl = f.hwctl /\ e.jam = f.jam /\ e.bad = f.bad
         /\ e.power_enabled = f.power_enabled /\ e.voted = f.voted
         /\ e.faults = f.faults /\ e.left = f.left
    BY <2>8, <2>9 DEF Fields
  <2>11. HeldSound(t, e)
    BY <2>1, <2>10 DEF Sound, HeldSound, One
  <2>12. HwSound(t, e)
    BY <2>1, <2>10 DEF Sound, HwSound
  <2>13. BadSound(t, e)
    BY <2>1, <2>10 DEF Sound, BadSound
  <2>14. DarkSound(e)
    BY <2>1, <2>10 DEF Sound, DarkSound
  <2>15. Sound(t, e)
    BY <2>1, <2>10, <2>11, <2>12, <2>13, <2>14 DEF Sound
  <2>16. Controlled(t, f) => Controlled(t, e)
    BY <2>10 DEF Controlled
  <2> QED BY <2>1, <2>10, <2>15, <2>16
<1> QED BY <1>1, <1>3, <1>4, <1>5

\* e is a sound device like d, as far as power goes.
Still(t, d, e) ==
    Sound(t, e) /\ e.power_enabled = d.power_enabled /\ (Controlled(t, d) => Controlled(t, e))

LEMMA StillTrans ==
    ASSUME NEW t, NEW d, NEW e, NEW f, Still(t, d, e), Still(t, e, f) PROVE Still(t, d, f)
  BY DEF Still

LEMMA CalmStill ==
    ASSUME NEW t, NEW d, Sound(t, d), NEW e, Only(d, e, Calm) PROVE Still(t, d, e)
  BY CalmSound DEF Still

LEMMA FailStill ==
    ASSUME NEW t, NEW d, Sound(t, d), d.left # 0, NEW k, NEW e, e = Fail(d, k)
    PROVE  Still(t, d, e) /\ k \in e.faults
  BY FailKeeps DEF Still

LEMMA MayStill ==
    ASSUME NEW t, NEW d, Sound(t, d), NEW k, NEW o \in May(d, k)
    PROVE  Still(t, d, o.d) /\ (~o.ok => k \in o.d.faults)
  BY MaySound DEF Still

LEMMA OffControlled ==
    ASSUME NEW t, NEW d, d.power_enabled = FALSE PROVE Controlled(t, d)
  BY DEF Controlled

LEMMA CommandCalm ==
    ASSUME NEW d, IsDev(d), NEW k PROVE Only(d, write_cmd(d, k), Calm)
  BY DEF write_cmd, Only, IsDev, Fields, Calm

LEMMA EnableStill ==
    ASSUME NEW t, NEW d, Sound(t, d), NEW e \in enable_subcaches(d) PROVE Still(t, d, e)
<1>0. IsDev(d)
  BY SoundDev
<1> DEFINE a == [d EXCEPT !.sub = TRUE]
           f == Fail(d, "llcc")
           b == [f EXCEPT !.sub = FALSE, !.isset = FALSE, !.told = FALSE]
<1>1. e = a \/ (d.left # 0 /\ e = b)
  BY DEF enable_subcaches
<1>2. Only(d, a, Calm)
  BY <1>0 DEF Only, IsDev, Fields, Calm
<1> HIDE DEF a
<1>3. CASE e = a
  BY <1>2, <1>3, CalmStill
<1>4. CASE d.left # 0 /\ e = b
  <2>1. Still(t, d, f)
    BY <1>4, FailStill
  <2> HIDE DEF f
  <2>2. Sound(t, f) /\ IsDev(f)
    BY <2>1, SoundDev DEF Still
  <2>3. Only(f, b, Calm)
    BY <2>2 DEF Only, IsDev, Fields, Calm
  <2> HIDE DEF b
  <2> QED BY <1>4, <2>1, <2>2, <2>3, CalmStill, StillTrans
<1> QED BY <1>1, <1>3, <1>4

LEMMA SetStill ==
    ASSUME NEW t, NEW d, Sound(t, d), NEW e \in set_subcaches(d) PROVE Still(t, d, e)
<1>0. IsDev(d)
  BY SoundDev
<1> DEFINE a == [d EXCEPT !.isset = TRUE, !.told = TRUE]
           f == Fail(d, "subcache_cmd")
           b == [f EXCEPT !.sub = FALSE]
<1>1. e = d \/ e = a \/ (d.left # 0 /\ e = b)
  BY DEF set_subcaches, disable_subcaches
<1>2. Only(d, a, Calm) /\ Only(d, d, Calm)
  BY <1>0 DEF Only, IsDev, Fields, Calm
<1> HIDE DEF a
<1>3. CASE e = d \/ e = a
  BY <1>2, <1>3, CalmStill
<1>4. CASE d.left # 0 /\ e = b
  <2>1. Still(t, d, f)
    BY <1>4, FailStill
  <2> HIDE DEF f
  <2>2. Sound(t, f) /\ IsDev(f)
    BY <2>1, SoundDev DEF Still
  <2>3. Only(f, b, Calm)
    BY <2>2 DEF Only, IsDev, Fields, Calm
  <2> HIDE DEF b
  <2> QED BY <1>4, <2>1, <2>2, <2>3, CalmStill, StillTrans
<1> QED BY <1>1, <1>3, <1>4

\* The end of a resume and of a load.
LEMMA RunningStill ==
    ASSUME NEW t, NEW d, Sound(t, d), NEW g \in enable_subcaches(write_cmd(d, "other")),
           NEW f \in set_subcaches(g), NEW h, h = [f EXCEPT !.skip = 0]
    PROVE  Still(t, d, h)
<1> DEFINE w == write_cmd(d, "other")
<1>1. Still(t, d, w)
  BY SoundDev, CommandCalm, CalmStill
<1>2. Still(t, w, g)
  BY <1>1, EnableStill DEF Still
<1>3. Still(t, g, f)
  BY <1>2, SetStill DEF Still
<1>4. Sound(t, f) /\ IsDev(f)
  BY <1>3, SoundDev DEF Still
<1>5. Only(f, h, Calm)
  BY <1>4 DEF Only, IsDev, Fields, Calm
<1>6. Still(t, f, h)
  BY <1>4, <1>5, CalmStill
<1> HIDE DEF w
<1> QED BY <1>1, <1>2, <1>3, <1>6, StillTrans

\* The outcomes of a step of resume or of a load.
Through(t, o) == Sound(t, o.d) /\ (IF o.ok THEN o.d.power_enabled = TRUE ELSE Controlled(t, o.d))

LEMMA ResumeSound ==
    ASSUME NEW t \in Targets, NEW d, Good(d), Sound(t, d), NEW o \in resume(t, d)
    PROVE  Sound(t, o.d) /\ (Controlled(t, d) => Controlled(t, o.d))
<1>0. IsDev(d) /\ d.power_enabled \in BOOLEAN
  BY SoundDev DEF Good
<1>1. CASE d.power_enabled
  <2> DEFINE k == IF d.last = "PC_PREP" THEN d.skip ELSE 0
             e == [d EXCEPT !.skip = k]
  <2>1. o = Ok(e)
    BY <1>1 DEF resume
  <2>2. o.d = e
    BY <2>1, Outcome
  <2> HIDE DEF k
  <2>3. Only(d, e, Calm)
    BY <1>0 DEF Only, IsDev, Fields, Calm
  <2> HIDE DEF e
  <2> QED BY <2>2, <2>3, CalmStill DEF Still
<1>2. CASE ~d.power_enabled /\ d.state # "INIT"
  <2>1. o = Err(d)
    BY <1>2 DEF resume
  <2> QED BY <2>1, Outcome
<1>3. CASE ~d.power_enabled /\ d.state = "INIT"
  <2> DEFINE tz(e) == OnError(May(e, "tz_resume"), LAMBDA f : power_off_iris2(t, f))
             boot(e) == OnError(boot_firmware(t, e), LAMBDA f : power_off_iris2(t, f))
             running(e) == {Ok([f EXCEPT !.skip = 0]) :
                              f \in UNION {set_subcaches(g) :
                                      g \in enable_subcaches(write_cmd(Run(t, e, <<Reg("ctl")>>), "other"))}}
             mapped(e) == {Ok(Run(t, e, setup_dsp_uc_memmap(t)))}
             S1 == Then(iris_power_on(t, d), mapped)
             S2 == Then(S1, tz)
             S3 == Then(S2, boot)
  <2>1. PICK x3 \in S3 : IF x3.ok THEN o \in running(x3.d) ELSE o = x3
    BY <1>3 DEF resume, Then
  <2>2. PICK x2 \in S2 : IF x2.ok THEN x3 \in boot(x2.d) ELSE x3 = x2
    BY <2>1 DEF Then
  <2>3. PICK x1 \in S1 : IF x1.ok THEN x2 \in tz(x1.d) ELSE x2 = x1
    BY <2>2 DEF Then
  <2>4. PICK x0 \in iris_power_on(t, d) : IF x0.ok THEN x1 \in mapped(x0.d) ELSE x1 = x0
    BY <2>3 DEF Then
  <2> HIDE DEF S1, S2, S3, mapped, tz, boot, running
  <2>5. Through(t, x0)
    <3>1. Sound(t, x0.d) /\ (x0.ok => x0.d.power_enabled = TRUE)
      BY PowerOnSound
    <3>2. ~x0.ok => x0.d.power_enabled = FALSE
      BY PowerOnKept DEF Kept, Good
    <3> QED BY <3>1, <3>2, OffControlled DEF Through
  <2>6. Through(t, x1)
    <3>1. CASE x0.ok
      <4>1. x1 = Ok(Run(t, x0.d, setup_dsp_uc_memmap(t)))
        BY <2>4, <3>1 DEF mapped
      <4>2. Sound(t, x0.d) /\ x0.d.power_enabled = TRUE
        BY <2>5, <3>1 DEF Through
      <4>3. Run(t, x0.d, setup_dsp_uc_memmap(t)) = x0.d
        BY <4>2, AccessRegs, AccessSound
      <4>4. x1.ok /\ x1.d = x0.d
        BY <4>1, <4>3, Outcome
      <4> QED BY <4>2, <4>4 DEF Through
    <3> QED BY <2>4, <2>5, <3>1
  <2>7. Through(t, x2)
    <3>1. CASE x1.ok
      <4>1. PICK y \in May(x1.d, "tz_resume") :
              IF y.ok THEN x2 = y ELSE \E f \in power_off_iris2(t, y.d) : x2 = Err(f)
        BY <2>3, <3>1 DEF tz, OnError
      <4>2. Sound(t, x1.d) /\ x1.d.power_enabled = TRUE
        BY <2>6, <3>1 DEF Through
      <4>3. Sound(t, y.d) /\ y.d.power_enabled = TRUE /\ (~y.ok => "tz_resume" \in y.d.faults)
        BY <4>2, MayStill DEF Still
      <4>5. CASE y.ok
        BY <4>1, <4>3, <4>5 DEF Through
      <4>6. CASE ~y.ok
        <5>1. PICK f \in power_off_iris2(t, y.d) : x2 = Err(f)
          BY <4>1, <4>6
        <5>2. Controlled(t, y.d)
          BY <4>3, <4>6 DEF Controlled
        <5>3. Sound(t, f) /\ f.power_enabled = FALSE
          BY <4>3, <5>2, PowerOffSound
        <5>4. ~x2.ok /\ x2.d = f
          BY <5>1, Outcome
        <5> QED BY <5>3, <5>4, OffControlled DEF Through
      <4> QED BY <4>5, <4>6
    <3> QED BY <2>3, <2>6, <3>1
  <2>8. Through(t, x3) /\ Controlled(t, x3.d)
    <3>1. CASE x2.ok
      <4>1. PICK y \in boot_firmware(t, x2.d) :
              IF y.ok THEN x3 = y ELSE \E f \in power_off_iris2(t, y.d) : x3 = Err(f)
        BY <2>2, <3>1 DEF boot, OnError
      <4>2. Sound(t, x2.d) /\ x2.d.power_enabled = TRUE
        BY <2>7, <3>1 DEF Through
      <4>3. Sound(t, y.d) /\ Controlled(t, y.d) /\ y.d.power_enabled = TRUE
        BY <4>2, BootSound
      <4>5. CASE y.ok
        BY <4>1, <4>3, <4>5 DEF Through
      <4>6. CASE ~y.ok
        <5>1. PICK f \in power_off_iris2(t, y.d) : x3 = Err(f)
          BY <4>1, <4>6
        <5>3. Sound(t, f) /\ f.power_enabled = FALSE
          BY <4>3, PowerOffSound
        <5>4. ~x3.ok /\ x3.d = f
          BY <5>1, Outcome
        <5> QED BY <5>3, <5>4, OffControlled DEF Through
      <4> QED BY <4>5, <4>6
    <3>2. CASE ~x2.ok
      BY <2>2, <2>7, <3>2 DEF Through
    <3> QED BY <3>1, <3>2
  <2>9. CASE x3.ok
    <3> DEFINE r == Run(t, x3.d, <<Reg("ctl")>>)
    <3>1. PICK g \in enable_subcaches(write_cmd(r, "other")) :
            \E f \in set_subcaches(g) : o = Ok([f EXCEPT !.skip = 0])
      BY <2>1, <2>9 DEF running
    <3>2. PICK f \in set_subcaches(g) : o = Ok([f EXCEPT !.skip = 0])
      BY <3>1
    <3>3. Sound(t, x3.d)
      BY <2>8 DEF Through
    <3>4. r = x3.d
      BY <3>3, AccessRegs, AccessSound
    <3> HIDE DEF r
    <3> DEFINE h == [f EXCEPT !.skip = 0]
    <3>5. o.d = h
      BY <3>2, Outcome
    <3>6. Sound(t, r)
      BY <3>3, <3>4
    <3>7. Still(t, r, h)
      BY <3>6, RunningStill
    <3> HIDE DEF h
    <3> QED BY <2>8, <3>4, <3>5, <3>7 DEF Still
  <2>10. CASE ~x3.ok
    BY <2>1, <2>8, <2>10 DEF Through
  <2> QED BY <2>9, <2>10
<1> QED BY <1>1, <1>2, <1>3

LEMMA SuspendSound ==
    ASSUME NEW t \in Targets, NEW d, Sound(t, d), Controlled(t, d), NEW o \in suspend(t, d)
    PROVE  Sound(t, o.d) /\ Controlled(t, o.d)
<1>0. IsDev(d)
  BY SoundDev
<1>1. CASE \E e \in power_off_iris2(t, disable_subcaches(d)) : o = [d |-> e, rc |-> "0"]
  <2>1. PICK e \in power_off_iris2(t, disable_subcaches(d)) : o = [d |-> e, rc |-> "0"]
    BY <1>1
  <2> DEFINE s == disable_subcaches(d)
  <2>2. Only(d, s, Calm)
    BY <1>0 DEF Only, IsDev, Fields, disable_subcaches, Calm
  <2> HIDE DEF s
  <2>3. Sound(t, s) /\ Controlled(t, s)
    BY <2>2, CalmStill DEF Still
  <2>4. Sound(t, e) /\ e.power_enabled = FALSE
    BY <2>1, <2>3, PowerOffSound DEF s
  <2>5. o.d = e
    BY <2>1
  <2> QED BY <2>4, <2>5, OffControlled
<1>2. CASE d.left # 0 /\ o = [d |-> Fail(d, "tz_suspend"), rc |-> "other"]
  <2>1. o.d = Fail(d, "tz_suspend")
    BY <1>2
  <2> QED BY <1>2, <2>1, FailStill DEF Still
<1> QED BY <1>1, <1>2 DEF suspend

LEMMA CollapseSound ==
    ASSUME NEW t \in Targets, NEW d, Sound(t, d), d.state = "INIT" => Controlled(t, d),
           NEW force, NEW o \in power_collapse(t, d, force)
    PROVE  Sound(t, o.d) /\ (Controlled(t, d) => Controlled(t, o.d))
<1>0. IsDev(d)
  BY SoundDev
<1>1. CASE ~d.power_enabled
  <2>1. o = [d |-> d, rc |-> "0"]
    BY <1>1 DEF power_collapse
  <2> QED BY <2>1
<1>2. CASE d.power_enabled /\ d.state # "INIT"
  <2>1. o = [d |-> d, rc |-> "EINVAL"]
    BY <1>2 DEF power_collapse
  <2> QED BY <2>1
<1>3. CASE d.power_enabled /\ d.state = "INIT"
  <2> DEFINE w == write_cmd(d, "PC_PREP")
  <2>1. Sound(t, w) /\ Controlled(t, w)
    BY <1>0, <1>3, CommandCalm, CalmStill DEF Still
  <2>2. \/ o \in CollapseRefused(d, force) \/ o \in CollapseSkipped(t, d)
        \/ o \in suspend(t, d) \/ o \in suspend(t, w)
    BY <1>3 DEF power_collapse
  <2> HIDE DEF w
  <2>3. CASE o \in CollapseRefused(d, force)
    <3> DEFINE b == [d EXCEPT !.busy = @ - 1]
    <3>1. Only(d, b, Calm)
      BY <1>0 DEF Only, IsDev, Fields, Calm
    <3>2. \/ o = [d |-> b, rc |-> "EBUSY"]
          \/ d.left # 0 /\ \E k, c : o = [d |-> Fail(d, k), rc |-> c]
      BY <2>3 DEF CollapseRefused
    <3> HIDE DEF b
    <3>3. CASE o = [d |-> b, rc |-> "EBUSY"]
      <4>1. o.d = b
        BY <3>3
      <4> QED BY <3>1, <4>1, CalmStill DEF Still
    <3>4. CASE d.left # 0 /\ \E k, c : o = [d |-> Fail(d, k), rc |-> c]
      <4>1. PICK k : o.d = Fail(d, k)
        BY <3>4
      <4> QED BY <3>4, <4>1, FailStill DEF Still
    <3> QED BY <3>2, <3>3, <3>4
  <2>4. CASE o \in CollapseSkipped(t, d)
    <3> DEFINE r == Run(t, d, <<Reg("ctl")>>)
               p == [d EXCEPT !.last = "PC_PREP"]
    <3>1. PICK e \in {r, p, w} : o = [d |-> e, rc |-> "EAGAIN"]
      BY <2>4 DEF CollapseSkipped, w
    <3>2. r = d
      BY AccessRegs, AccessSound
    <3>3. Only(d, p, Calm)
      BY <1>0 DEF Only, IsDev, Fields, Calm
    <3> HIDE DEF r, p
    <3>4. o.d = e
      BY <3>1
    <3> QED BY <2>1, <3>1, <3>2, <3>3, <3>4, CalmStill DEF Still
  <2>5. CASE o \in suspend(t, d)
    BY <1>3, <2>5, SuspendSound
  <2>6. CASE o \in suspend(t, w)
    BY <2>1, <2>6, SuspendSound
  <2> QED BY <2>2, <2>3, <2>4, <2>5, <2>6
<1> QED BY <1>1, <1>2, <1>3

\* Loading and unloading.
Safe(t, d) == Sound(t, d) /\ (d.fw => Controlled(t, d))

LEMMA PutCalm ==
    ASSUME NEW d, IsDev(d), NEW k PROVE Only(d, Put(d, k), Calm)
  BY DEF Put, Only, IsDev, Fields, Calm

LEMMA CalmTrans ==
    ASSUME NEW d, NEW e, NEW f, Only(d, e, Calm), Only(e, f, Calm) PROVE Only(d, f, Calm)
  BY DEF Only

LEMMA DeinitCalm ==
    ASSUME NEW d, IsDev(d) PROVE Only(d, deinit_resources(d), Calm)
<1> DEFINE a == Put(d, "subcaches")
           b == Put(a, "bus")
           c == [b EXCEPT !.data = FALSE]
           f == Put(c, "clocks")
           g == Put(f, "regulators")
<1>1. deinit_resources(d) = g
  BY DEF deinit_resources, deinit_bus
<1>2. Only(d, a, Calm) /\ IsDev(a)
  BY PutCalm DEF Only
<1> HIDE DEF a
<1>3. Only(a, b, Calm) /\ IsDev(b)
  BY <1>2, PutCalm DEF Only
<1> HIDE DEF b
<1>4. Only(b, c, Calm) /\ IsDev(c)
  BY <1>3 DEF Only, IsDev, Fields, Calm
<1> HIDE DEF c
<1>5. Only(c, f, Calm) /\ IsDev(f)
  BY <1>4, PutCalm DEF Only
<1> HIDE DEF f
<1>6. Only(f, g, Calm)
  BY <1>5, PutCalm
<1> HIDE DEF g
<1> QED BY <1>1, <1>2, <1>3, <1>4, <1>5, <1>6, CalmTrans

LEMMA DeinitStill ==
    ASSUME NEW t, NEW d, Sound(t, d) PROVE Still(t, d, deinit_resources(d))
  BY SoundDev, DeinitCalm, CalmStill

LEMMA UnloadSafe ==
    ASSUME NEW t \in Targets, NEW d, Safe(t, d), NEW e \in unload_fw(t, d) PROVE Safe(t, e)
<1>0. IsDev(d) /\ Sound(t, d)
  BY SoundDev DEF Safe
<1>1. CASE ~d.fw
  BY <1>1 DEF unload_fw
<1>2. CASE d.fw
  <2> DEFINE s == [d EXCEPT !.queued = FALSE, !.fw = FALSE, !.told = FALSE]
  <2>1. PICK p \in power_off_iris2(t, s) : e = deinit_resources(p)
    BY <1>2 DEF unload_fw
  <2>2. Only(d, s, Calm)
    BY <1>0 DEF Only, IsDev, Fields, Calm
  <2> HIDE DEF s
  <2>3. Sound(t, s) /\ Controlled(t, s)
    BY <1>0, <1>2, <2>2, CalmStill DEF Still, Safe
  <2>4. Sound(t, p) /\ p.power_enabled = FALSE
    BY <2>1, <2>3, PowerOffSound
  <2>5. Sound(t, e) /\ e.power_enabled = FALSE
    BY <2>1, <2>4, DeinitStill DEF Still
  <2> QED BY <2>5, OffControlled DEF Safe
<1> QED BY <1>1, <1>2

LEMMA ErrCoreInitSafe ==
    ASSUME NEW t \in Targets, NEW d, Safe(t, d), NEW e \in err_core_init(t, d) PROVE Safe(t, e)
<1>0. IsDev(d) /\ Sound(t, d)
  BY SoundDev DEF Safe
<1> DEFINE s == [d EXCEPT !.state = "DEINIT"]
<1>1. Only(d, s, Calm) /\ s.fw = d.fw
  BY <1>0 DEF Only, IsDev, Fields, Calm
<1>2. e \in unload_fw(t, s)
  BY DEF err_core_init
<1> HIDE DEF s
<1>3. Safe(t, s)
  BY <1>0, <1>1, CalmStill DEF Still, Safe
<1> QED BY <1>2, <1>3, UnloadSafe

LEMMA ErrInitQueuesSafe ==
    ASSUME NEW t \in Targets, NEW d, Sound(t, d), Controlled(t, d), NEW e \in err_init_queues(t, d)
    PROVE  Safe(t, e)
<1>1. PICK p \in power_off_iris2(t, d) : e \in err_core_init(t, deinit_resources(p))
  BY DEF err_init_queues
<1>2. Sound(t, p) /\ p.power_enabled = FALSE
  BY PowerOffSound
<1>3. Still(t, p, deinit_resources(p))
  BY <1>2, DeinitStill
<1>4. Safe(t, deinit_resources(p))
  BY <1>2, <1>3, OffControlled DEF Safe, Still
<1> QED BY <1>1, <1>4, ErrCoreInitSafe

LEMMA GetStill ==
    ASSUME NEW t, NEW d, Sound(t, d), NEW k, NEW o \in Get(d, k) PROVE Still(t, d, o.d)
<1>1. PICK x \in May(d, k) : IF x.ok THEN o = Ok([x.d EXCEPT !.res = @ \cup {k}]) ELSE o = x
  BY DEF Get, Then
<1>2. Still(t, d, x.d) /\ Sound(t, x.d) /\ IsDev(x.d)
  BY MayStill, SoundDev DEF Still
<1>3. CASE x.ok
  <2> DEFINE g == [x.d EXCEPT !.res = @ \cup {k}]
  <2>1. Only(x.d, g, Calm)
    BY <1>2 DEF Only, IsDev, Fields, Calm
  <2>2. o.d = g
    BY <1>1, <1>3, Outcome
  <2> HIDE DEF g
  <2> QED BY <1>2, <2>1, <2>2, CalmStill, StillTrans
<1> QED BY <1>1, <1>2, <1>3

LEMMA InitResourcesStill ==
    ASSUME NEW t, NEW d, Sound(t, d), NEW o \in init_resources(t, d) PROVE Still(t, d, o.d)
<1> DEFINE clocks(e) == OnError(init_clocks(e), LAMBDA f : {Put(f, "regulators")})
           bus(e) == OnError(init_bus(e), LAMBDA f : {deinit_resources(f)})
           S1 == Then(init_regulators(t, d), clocks)
           S2 == Then(S1, bus)
<1>1. PICK x2 \in S2 : IF x2.ok THEN o \in init_subcaches(x2.d) ELSE o = x2
  BY DEF init_resources, Then
<1>2. PICK x1 \in S1 : IF x1.ok THEN x2 \in bus(x1.d) ELSE x2 = x1
  BY <1>1 DEF Then
<1>3. PICK x0 \in init_regulators(t, d) : IF x0.ok THEN x1 \in clocks(x0.d) ELSE x1 = x0
  BY <1>2 DEF Then
<1> HIDE DEF S1, S2, clocks, bus
<1>4. Still(t, d, x0.d)
  <2>0. Still(t, d, d)
    BY DEF Still
  <2>1. CASE t = "pakala"
    BY <2>1, GetStill DEF init_regulators
  <2>2. CASE t # "pakala"
    <3>1. x0 = Ok(d)
      BY <2>2 DEF init_regulators
    <3> QED BY <2>0, <3>1, Outcome
  <2> QED BY <2>1, <2>2
<1>5. Still(t, d, x1.d)
  <2>1. CASE x0.ok
    <3>1. PICK y \in Get(x0.d, "clocks") : IF y.ok THEN x1 = y ELSE x1 = Err(Put(y.d, "regulators"))
      BY <1>3, <2>1 DEF clocks, OnError, init_clocks
    <3>2. Still(t, x0.d, y.d)
      BY <1>4, GetStill DEF Still
    <3>3. Still(t, d, y.d) /\ Sound(t, y.d) /\ IsDev(y.d)
      BY <1>4, <3>2, StillTrans, SoundDev DEF Still
    <3>4. Still(t, y.d, Put(y.d, "regulators"))
      BY <3>3, PutCalm, CalmStill
    <3>5. x1.d = y.d \/ x1.d = Put(y.d, "regulators")
      BY <3>1, Outcome
    <3> QED BY <3>3, <3>4, <3>5, StillTrans
  <2> QED BY <1>3, <1>4, <2>1
<1>6. Still(t, d, x2.d)
  <2>1. CASE x1.ok
    <3>1. PICK y \in Get(x1.d, "bus") : IF y.ok THEN x2 = y ELSE x2 = Err(deinit_resources(y.d))
      BY <1>2, <2>1 DEF bus, OnError, init_bus
    <3>2. Still(t, x1.d, y.d)
      BY <1>5, GetStill DEF Still
    <3>3. Still(t, d, y.d) /\ Sound(t, y.d)
      BY <1>5, <3>2, StillTrans DEF Still
    <3>4. Still(t, y.d, deinit_resources(y.d))
      BY <3>3, DeinitStill
    <3>5. x2.d = y.d \/ x2.d = deinit_resources(y.d)
      BY <3>1, Outcome
    <3> QED BY <3>3, <3>4, <3>5, StillTrans
  <2> QED BY <1>2, <1>5, <2>1
<1>7. CASE x2.ok
  <2>1. o \in Get(x2.d, "subcaches")
    BY <1>1, <1>7 DEF init_subcaches
  <2>2. Still(t, x2.d, o.d)
    BY <1>6, <2>1, GetStill DEF Still
  <2> QED BY <1>6, <2>2, StillTrans
<1> QED BY <1>1, <1>6, <1>7

LEMMA PowerOnInitSound ==
    ASSUME NEW t \in Targets, NEW d, Sound(t, d), NEW o \in power_on_init(t, d)
    PROVE  Sound(t, o.d) /\ (o.ok => o.d.power_enabled = TRUE)
<1>1. PICK x \in init_resources(t, d) :
        IF x.ok THEN o \in OnError(iris_power_on(t, x.d), LAMBDA f : {deinit_resources(f)})
        ELSE o = x
  BY DEF power_on_init, Then
<1>2. Sound(t, x.d)
  BY InitResourcesStill DEF Still
<1>3. CASE x.ok
  <2>1. PICK y \in iris_power_on(t, x.d) : IF y.ok THEN o = y ELSE o = Err(deinit_resources(y.d))
    BY <1>1, <1>3 DEF OnError
  <2>2. Sound(t, y.d) /\ (y.ok => y.d.power_enabled = TRUE)
    BY <1>2, PowerOnSound
  <2>3. Sound(t, deinit_resources(y.d))
    BY <2>2, DeinitStill DEF Still
  <2>4. CASE y.ok
    BY <2>1, <2>2, <2>4
  <2>5. CASE ~y.ok
    <3>1. ~o.ok /\ o.d = deinit_resources(y.d)
      BY <2>1, <2>5, Outcome
    <3> QED BY <2>3, <3>1
  <2> QED BY <2>4, <2>5
<1> QED BY <1>1, <1>2, <1>3

LEMMA LoadFwSound ==
    ASSUME NEW t \in Targets, NEW d, Sound(t, d), d.power_enabled = TRUE, NEW o \in load_fw(t, d)
    PROVE  Sound(t, o.d) /\ (IF o.ok THEN o.d.power_enabled = TRUE ELSE Controlled(t, o.d))
<1> DEFINE S == OnError(May(d, "load"), LAMBDA e : power_off_iris2(t, e))
<1>1. PICK x \in S : IF x.ok THEN o = Ok([x.d EXCEPT !.fw = TRUE]) ELSE o = x
  BY DEF load_fw, Then
<1>2. PICK y \in May(d, "load") : IF y.ok THEN x = y ELSE \E f \in power_off_iris2(t, y.d) : x = Err(f)
  BY <1>1 DEF OnError
<1> HIDE DEF S
<1>3. /\ Sound(t, y.d) /\ IsDev(y.d) /\ y.d.power_enabled = TRUE
      /\ (~y.ok => "load" \in y.d.faults)
  BY MayStill, SoundDev DEF Still
<1>4. CASE y.ok
  <2> DEFINE g == [y.d EXCEPT !.fw = TRUE]
  <2>1. Only(y.d, g, Calm)
    BY <1>3 DEF Only, IsDev, Fields, Calm
  <2>2. o.ok /\ o.d = g
    BY <1>1, <1>2, <1>4, Outcome
  <2> HIDE DEF g
  <2> QED BY <1>3, <2>1, <2>2, CalmStill DEF Still
<1>5. CASE ~y.ok
  <2>1. PICK f \in power_off_iris2(t, y.d) : x = Err(f)
    BY <1>2, <1>5
  <2>2. o.d = f /\ ~o.ok
    BY <1>1, <2>1, Outcome
  <2>3. Controlled(t, y.d)
    BY <1>3, <1>5 DEF Controlled
  <2>4. Sound(t, f) /\ f.power_enabled = FALSE
    BY <1>3, <2>3, PowerOffSound
  <2> QED BY <2>2, <2>4, OffControlled
<1> QED BY <1>4, <1>5

LEMMA CoreInitSafe ==
    ASSUME NEW t \in Targets, NEW d, Good(d), Sound(t, d), d.res \subseteq Handles, d.state = "DEINIT",
           d.fw = FALSE, NEW o \in iris_hfi_core_init(t, d)
    PROVE  Safe(t, o.d)
<1> DEFINE synx(e) == OnError(May(e, "synx"), LAMBDA f : err_core_init(t, f))
           queues(e) == OnError(May([e EXCEPT !.state = "INIT", !.reg_dumped = FALSE], "queues"),
                                LAMBDA f : err_init_queues(t, f))
           load(e) == OnError(Then(load_fw(t, e), LAMBDA f : boot_firmware(t, f)),
                              LAMBDA f : err_core_init(t, f))
           sys_init(e) == OnError(May(e, "sys_init"), LAMBDA f : err_core_init(t, f))
           running(e) == {Ok([f EXCEPT !.skip = 0]) :
                            f \in UNION {set_subcaches(g) : g \in enable_subcaches(write_cmd(e, "other"))}}
           s0 == [d EXCEPT !.data = TRUE]
           S0 == power_on_init(t, s0)
           S1 == Then(S0, synx)
           S2 == Then(S1, queues)
           S3 == Then(S2, load)
           S4 == Then(S3, sys_init)
           On1(x) == Sound(t, x) /\ IsDev(x) /\ x.power_enabled = TRUE
<1>0. Good(s0) /\ s0.res = d.res /\ s0.state = "DEINIT" /\ s0.fw = FALSE /\ Only(d, s0, Calm)
  BY DEF Good, Only, IsDev, Fields, Calm
<1>1. PICK x4 \in S4 : IF x4.ok THEN o \in running(x4.d) ELSE o = x4
  BY DEF iris_hfi_core_init, Then
<1>2. PICK x3 \in S3 : IF x3.ok THEN x4 \in sys_init(x3.d) ELSE x4 = x3
  BY <1>1 DEF Then
<1>3. PICK x2 \in S2 : IF x2.ok THEN x3 \in load(x2.d) ELSE x3 = x2
  BY <1>2 DEF Then
<1>4. PICK x1 \in S1 : IF x1.ok THEN x2 \in queues(x1.d) ELSE x2 = x1
  BY <1>3 DEF Then
<1>5. PICK x0 \in S0 : IF x0.ok THEN x1 \in synx(x0.d) ELSE x1 = x0
  BY <1>4 DEF Then
<1> HIDE DEF S1, S2, S3, S4, synx, queues, load, sys_init, running, s0
<1>6. IF x0.ok THEN On1(x0.d) /\ x0.d.fw = FALSE ELSE Safe(t, x0.d)
  <2>0. Sound(t, s0)
    BY <1>0, CalmStill DEF Still
  <2>1. Sound(t, x0.d) /\ (x0.ok => x0.d.power_enabled = TRUE)
    BY <1>5, <2>0, PowerOnInitSound
  <2>2. IF x0.ok THEN Unloaded(s0, x0.d) /\ x0.d.power_enabled ELSE Undone(s0, x0.d)
    BY <1>0, <1>5, PowerOnInitStep
  <2>3. x0.d.fw = FALSE
    BY <1>0, <2>2 DEF Unloaded, Undone
  <2> QED BY <2>1, <2>3, SoundDev DEF Safe
<1>7. IF x1.ok THEN On1(x1.d) ELSE Safe(t, x1.d)
  <2>1. CASE x0.ok
    <3>1. PICK y \in May(x0.d, "synx") : IF y.ok THEN x1 = y ELSE \E f \in err_core_init(t, y.d) : x1 = Err(f)
      BY <1>5, <2>1 DEF synx, OnError
    <3>2. Sound(t, y.d) /\ IsDev(y.d) /\ y.d.power_enabled = TRUE
      BY <1>6, <2>1, MayStill, SoundDev DEF Still
    <3>3. y.d.fw = FALSE
      BY <1>6, <2>1, MaySame DEF Same
    <3>5. CASE y.ok
      BY <3>1, <3>2, <3>5
    <3>6. CASE ~y.ok
      <4>1. PICK f \in err_core_init(t, y.d) : x1 = Err(f)
        BY <3>1, <3>6
      <4>2. Safe(t, y.d)
        BY <3>2, <3>3 DEF Safe
      <4>3. Safe(t, f)
        BY <4>2, ErrCoreInitSafe
      <4> QED BY <4>1, <4>3, Outcome
    <3> QED BY <3>5, <3>6
  <2>2. CASE ~x0.ok
    BY <1>5, <1>6, <2>2
  <2> QED BY <2>1, <2>2
<1>8. IF x2.ok THEN On1(x2.d) ELSE Safe(t, x2.d)
  <2>1. CASE x1.ok
    <3> DEFINE i == [x1.d EXCEPT !.state = "INIT", !.reg_dumped = FALSE]
    <3>1. PICK y \in May(i, "queues") : IF y.ok THEN x2 = y ELSE \E f \in err_init_queues(t, y.d) : x2 = Err(f)
      BY <1>4, <2>1 DEF queues, OnError
    <3>2. Only(x1.d, i, Calm)
      BY <1>7, <2>1 DEF Only, IsDev, Fields, Calm
    <3> HIDE DEF i
    <3>3. Sound(t, i) /\ i.power_enabled = TRUE
      BY <1>7, <2>1, <3>2, CalmStill DEF Still
    <3>4. On1(y.d) /\ (~y.ok => "queues" \in y.d.faults)
      BY <3>3, MayStill, SoundDev DEF Still
    <3>5. CASE y.ok
      BY <3>1, <3>4, <3>5
    <3>6. CASE ~y.ok
      <4>1. PICK f \in err_init_queues(t, y.d) : x2 = Err(f)
        BY <3>1, <3>6
      <4>2. Controlled(t, y.d)
        BY <3>4, <3>6 DEF Controlled
      <4>3. Safe(t, f)
        BY <3>4, <4>2, ErrInitQueuesSafe
      <4> QED BY <4>1, <4>3, Outcome
    <3> QED BY <3>5, <3>6
  <2>2. CASE ~x1.ok
    BY <1>4, <1>7, <2>2
  <2> QED BY <2>1, <2>2
<1>9. IF x3.ok THEN On1(x3.d) /\ Controlled(t, x3.d) ELSE Safe(t, x3.d)
  <2>1. CASE x2.ok
    <3> DEFINE B == Then(load_fw(t, x2.d), LAMBDA f : boot_firmware(t, f))
    <3>1. PICK y \in B : IF y.ok THEN x3 = y ELSE \E f \in err_core_init(t, y.d) : x3 = Err(f)
      BY <1>3, <2>1 DEF load, OnError
    <3>2. PICK z \in load_fw(t, x2.d) : IF z.ok THEN y \in boot_firmware(t, z.d) ELSE y = z
      BY <3>1 DEF Then
    <3> HIDE DEF B
    <3>3. Sound(t, z.d) /\ (IF z.ok THEN z.d.power_enabled = TRUE ELSE Controlled(t, z.d))
      BY <1>8, <2>1, LoadFwSound
    <3>4. Sound(t, y.d) /\ Controlled(t, y.d) /\ (y.ok => y.d.power_enabled = TRUE)
      <4>1. CASE z.ok
        BY <3>2, <3>3, <4>1, BootSound
      <4>2. CASE ~z.ok
        BY <3>2, <3>3, <4>2
      <4> QED BY <4>1, <4>2
    <3>5. CASE y.ok
      BY <3>1, <3>4, <3>5, SoundDev
    <3>6. CASE ~y.ok
      <4>1. PICK f \in err_core_init(t, y.d) : x3 = Err(f)
        BY <3>1, <3>6
      <4>2. Safe(t, f)
        BY <3>4, ErrCoreInitSafe DEF Safe
      <4> QED BY <4>1, <4>2, Outcome
    <3> QED BY <3>5, <3>6
  <2>2. CASE ~x2.ok
    BY <1>3, <1>8, <2>2
  <2> QED BY <2>1, <2>2
<1>10. IF x4.ok THEN On1(x4.d) /\ Controlled(t, x4.d) ELSE Safe(t, x4.d)
  <2>1. CASE x3.ok
    <3>1. PICK y \in May(x3.d, "sys_init") : IF y.ok THEN x4 = y ELSE \E f \in err_core_init(t, y.d) : x4 = Err(f)
      BY <1>2, <2>1 DEF sys_init, OnError
    <3>2. On1(y.d) /\ Controlled(t, y.d)
      BY <1>9, <2>1, MayStill, SoundDev DEF Still
    <3>5. CASE y.ok
      BY <3>1, <3>2, <3>5
    <3>6. CASE ~y.ok
      <4>1. PICK f \in err_core_init(t, y.d) : x4 = Err(f)
        BY <3>1, <3>6
      <4>2. Safe(t, f)
        BY <3>2, ErrCoreInitSafe DEF Safe
      <4> QED BY <4>1, <4>2, Outcome
    <3> QED BY <3>5, <3>6
  <2>2. CASE ~x3.ok
    BY <1>2, <1>9, <2>2
  <2> QED BY <2>1, <2>2
<1>11. CASE x4.ok
  <2>1. PICK g \in enable_subcaches(write_cmd(x4.d, "other")) :
          \E f \in set_subcaches(g) : o = Ok([f EXCEPT !.skip = 0])
    BY <1>1, <1>11 DEF running
  <2>2. PICK f \in set_subcaches(g) : o = Ok([f EXCEPT !.skip = 0])
    BY <2>1
  <2> DEFINE h == [f EXCEPT !.skip = 0]
  <2>3. o.d = h
    BY <2>2, Outcome
  <2>4. Still(t, x4.d, h)
    BY <1>10, <1>11, RunningStill
  <2> HIDE DEF h
  <2> QED BY <1>10, <1>11, <2>3, <2>4 DEF Still, Safe
<1>12. CASE ~x4.ok
  BY <1>1, <1>10, <1>12
<1> QED BY <1>11, <1>12

LEMMA ReleaseSafe ==
    ASSUME NEW t \in Targets, NEW d, Good(d), Sound(t, d), Controlled(t, d),
           NEW e \in iris_hfi_core_release(t, d)
    PROVE  Safe(t, e)
<1> DEFINE off(x) == Run(t, disable_subcaches([x EXCEPT !.state = "DEINIT"]), <<Reg("ctl")>>)
<1>1. PICK o \in resume(t, d) : e \in unload_fw(t, off(o.d))
  BY DEF iris_hfi_core_release
<1>2. Sound(t, o.d) /\ Controlled(t, o.d) /\ IsDev(o.d)
  BY ResumeSound, SoundDev
<1> DEFINE s == disable_subcaches([o.d EXCEPT !.state = "DEINIT"])
<1>3. Only(o.d, s, Calm)
  BY <1>2 DEF disable_subcaches, Only, IsDev, Fields, Calm
<1>4. off(o.d) = Run(t, s, <<Reg("ctl")>>)
  OBVIOUS
<1> HIDE DEF s, off
<1>5. Sound(t, s) /\ Controlled(t, s)
  BY <1>2, <1>3, CalmStill DEF Still
<1>6. Run(t, s, <<Reg("ctl")>>) = s
  BY <1>5, AccessRegs, AccessSound
<1>7. e \in unload_fw(t, s)
  BY <1>1, <1>4, <1>6
<1>8. Safe(t, s)
  BY <1>5 DEF Safe
<1> QED BY <1>7, <1>8, UnloadSafe

\* The system cache is active only in a loaded device that is on.
SubIn(d) == d.sub => d.power_enabled /\ d.state = "INIT"

\* e counts no more skipped collapses than d, and keeps SubIn.
Rest(d, e) == e.skip \in {d.skip, 0} /\ (SubIn(d) => SubIn(e))

LEMMA RestTrans == ASSUME NEW d, NEW e, NEW f, Rest(d, e), Rest(e, f) PROVE Rest(d, f)
  BY DEF Rest

LEMMA SameRest == ASSUME NEW d, NEW e, Same(d, e) PROVE Rest(d, e) /\ e.fw = d.fw /\ e.state = d.state
  BY DEF Same, Rest, SubIn

LEMMA ResumeRest ==
    ASSUME NEW t, NEW d, Good(d), NEW o \in resume(t, d)
    PROVE  Rest(d, o.d) /\ o.d.fw = d.fw /\ o.d.state = d.state
<1>1. IF d.power_enabled THEN o.ok /\ Kept(d, o.d) /\ o.d.power_enabled = TRUE
      ELSE IF d.state # "INIT" THEN ~o.ok /\ o.d = d
      ELSE IF o.ok THEN Running(d, o.d)
      ELSE Kept(d, o.d) /\ o.d.power_enabled = FALSE
  BY ResumeStep
<1>2. CASE d.power_enabled
  BY <1>1, <1>2 DEF Kept, Rest, SubIn
<1>3. CASE ~d.power_enabled /\ d.state # "INIT"
  BY <1>1, <1>3 DEF Rest
<1>4. CASE ~d.power_enabled /\ d.state = "INIT" /\ o.ok
  <2> DEFINE q == [d EXCEPT !.queued = TRUE]
  <2>1. q.fw = d.fw /\ q.state = d.state /\ q.skip = d.skip
    BY DEF Good, IsDev, Fields
  <2>2. Cached(q, o.d) /\ o.d.power_enabled = TRUE
    BY <1>1, <1>4 DEF Running
  <2> HIDE DEF q
  <2> QED BY <1>4, <2>1, <2>2 DEF Cached, Rest, SubIn
<1>5. CASE ~d.power_enabled /\ d.state = "INIT" /\ ~o.ok
  BY <1>1, <1>5 DEF Kept, Rest, SubIn
<1> QED BY <1>2, <1>3, <1>4, <1>5

LEMMA SuspendRest ==
    ASSUME NEW t, NEW d, Good(d), NEW o \in suspend(t, d) PROVE Rest(d, o.d)
<1>1. Shut(d, o.d)
  BY SuspendStep
<1>2. o.d.skip \in {d.skip, 0} /\ o.d.state = d.state /\ (o.d.sub => d.sub)
  BY <1>1 DEF Shut
<1>3. CASE \E e \in power_off_iris2(t, disable_subcaches(d)) : o = [d |-> e, rc |-> "0"]
  <2>1. PICK e \in power_off_iris2(t, disable_subcaches(d)) : o = [d |-> e, rc |-> "0"]
    BY <1>3
  <2> DEFINE s == disable_subcaches(d)
  <2>2. Good(s) /\ s.sub = FALSE
    BY DEF Good, IsDev, Fields, disable_subcaches
  <2> HIDE DEF s
  <2>3. Kept(s, e)
    BY <2>1, <2>2, PowerOffKept DEF s
  <2>4. o.d = e
    BY <2>1
  <2>5. o.d.sub = FALSE
    BY <2>2, <2>3, <2>4 DEF Kept
  <2> QED BY <1>2, <2>5 DEF Rest, SubIn
<1>4. CASE o = [d |-> Fail(d, "tz_suspend"), rc |-> "other"]
  <2>1. o.d = Fail(d, "tz_suspend")
    BY <1>4
  <2>2. Same(d, o.d)
    BY <2>1, FailSame DEF Good
  <2> QED BY <2>2, SameRest
<1> QED BY <1>3, <1>4 DEF suspend

LEMMA CollapseRest ==
    ASSUME NEW t, NEW d, Good(d), NEW force, NEW o \in power_collapse(t, d, force)
    PROVE  Rest(d, o.d) /\ o.d.fw = d.fw /\ o.d.state = d.state
<1>0. IsDev(d) /\ Shut(d, o.d)
  BY CollapseStep DEF Good
<1>1. Rest(d, o.d)
  <2>1. CASE ~d.power_enabled \/ d.state # "INIT"
    <3>1. o.d = d
      BY <2>1 DEF power_collapse
    <3> QED BY <3>1 DEF Rest
  <2>2. CASE d.power_enabled /\ d.state = "INIT"
    <3> DEFINE w == write_cmd(d, "PC_PREP")
    <3>1. Good(w) /\ Rest(d, w)
      BY DEF w, Good, Rest, SubIn, IsDev, Fields, write_cmd
    <3>2. \/ o \in CollapseRefused(d, force) \/ o \in CollapseSkipped(t, d)
          \/ o \in suspend(t, d) \/ o \in suspend(t, w)
      BY <2>2 DEF power_collapse
    <3> HIDE DEF w
    <3>3. CASE o \in CollapseRefused(d, force)
      <4> DEFINE b == [d EXCEPT !.busy = @ - 1]
      <4>1. Rest(d, b)
        BY <1>0 DEF Rest, SubIn, IsDev, Fields
      <4>2. o = [d |-> b, rc |-> "EBUSY"] \/ \E k, c : o = [d |-> Fail(d, k), rc |-> c]
        BY <3>3 DEF CollapseRefused
      <4> HIDE DEF b
      <4>3. o.d = b \/ \E k : o.d = Fail(d, k)
        BY <4>2
      <4> QED BY <1>0, <4>1, <4>3, FailSame, SameRest
    <3>4. CASE o \in CollapseSkipped(t, d)
      <4> DEFINE r == Run(t, d, <<Reg("ctl")>>)
                 p == [d EXCEPT !.last = "PC_PREP"]
      <4>1. PICK e \in {r, p, w} : o = [d |-> e, rc |-> "EAGAIN"]
        BY <3>4 DEF CollapseSkipped, w
      <4>2. Rest(d, r)
        BY <1>0, RunSame, SameRest
      <4>3. Rest(d, p)
        BY <1>0 DEF Rest, SubIn, IsDev, Fields
      <4> HIDE DEF r, p
      <4>4. o.d = e
        BY <4>1
      <4> QED BY <3>1, <4>1, <4>2, <4>3, <4>4
    <3>5. CASE o \in suspend(t, d)
      BY <3>5, SuspendRest
    <3>6. CASE o \in suspend(t, w)
      BY <3>1, <3>6, SuspendRest, RestTrans
    <3> QED BY <3>2, <3>3, <3>4, <3>5, <3>6
  <2> QED BY <2>1, <2>2
<1> QED BY <1>0, <1>1 DEF Shut

-----------------------------------------------------------------------------
(***************************************************************************)
(* The inductive invariant of power.                                       *)
(*                                                                         *)
(* Safe: the device is Sound - one reference on every resource while it is *)
(* on, at most one more for every call that failed, one exactly as long as *)
(* nothing leaked, and the same for the GDSCs under hardware control, the  *)
(* double releases and the dark registers - and, once the firmware is      *)
(* loaded, Controlled.  Controlled is what makes it inductive: two targets *)
(* release a clock twice when power_off_core finds a core that the         *)
(* hardware does not control, and a core that is on is in that state only  *)
(* after a failure that the property names.  SubIn lets a device that is   *)
(* off be without the system cache; the two conjuncts on skip keep the     *)
(* count of skipped collapses within its bound, also while the pm work     *)
(* that will add one is on its way.                                        *)
(***************************************************************************)
RailInv ==
    /\ target \in Platforms
    /\ Safe(target, dev)
    /\ SubIn(dev)
    /\ dev.skip \in 0..MaxSkip
    /\ pm \in {"lock"} \cup Codes => dev.skip < MaxSkip
    /\ susp \in {"idle", "cancel"}
    /\ fatal \in BOOLEAN

LEMMA RailInit == Init => RailInv
<1> SUFFICES ASSUME Init PROVE RailInv
  OBVIOUS
<1>0. MaxFaults \in Nat /\ MaxSkip \in Nat \ {0} /\ pm = "idle" /\ susp = "idle" /\ fatal = FALSE
      /\ target \in Platforms /\ dev = NewDevice(target)
  BY PowerAssumption DEF Init
<1>1. /\ IsDev(dev) /\ dev.power_enabled = FALSE /\ dev.voted = FALSE /\ dev.asleep = FALSE
      /\ dev.jam = {} /\ dev.hwctl = {} /\ dev.bad = {} /\ dev.dark = {}
      /\ dev.fw = FALSE /\ dev.sub = FALSE /\ dev.skip = 0 /\ dev.left = MaxFaults
      /\ dev.held = [r \in Resources(target) |-> 0]
  BY <1>0 DEF NewDevice, IsDev, Fields
<1>2. HeldSound(target, dev)
  <2>1. One(dev) = 0
    BY <1>1 DEF One
  <2>2. dev.held \in [Resources(target) -> Nat] /\ \A r \in Resources(target) : dev.held[r] = 0
    BY <1>1
  <2>3. dev.left \in 0..MaxFaults /\ 0 <= (MaxFaults - dev.left) + 0
    BY <1>0, <1>1
  <2> QED BY <2>1, <2>2, <2>3 DEF HeldSound
<1>3. HwSound(target, dev) /\ BadSound(target, dev) /\ DarkSound(dev)
  BY <1>1 DEF HwSound, BadSound, DarkSound
<1>4. Safe(target, dev)
  BY <1>1, <1>2, <1>3 DEF Sound, Safe
<1>5. pm \notin {"lock"} \cup Codes
  BY <1>0 DEF Codes
<1>6. dev.skip \in 0..MaxSkip
  BY <1>0, <1>1
<1> QED BY <1>0, <1>1, <1>4, <1>5, <1>6 DEF RailInv, SubIn

LEMMA RailFacts ==
    ASSUME PowerInv, RailInv
    PROVE  /\ target \in Targets /\ Good(dev) /\ IsDev(dev) /\ Sound(target, dev)
           /\ dev.state = "INIT" => Controlled(target, dev)
           /\ dev.fw => Controlled(target, dev)
<1>1. Good(dev) /\ (dev.fw <=> dev.state = "INIT")
  BY DEF PowerInv, IrqInv, LoadInv
<1> QED BY <1>1, PowerAssumption DEF RailInv, Safe, Good

LEMMA RailFrame ==
    ASSUME RailInv, Safe(target, dev'), Rest(dev, dev'), UNCHANGED target, fatal' \in BOOLEAN,
           susp' \in {"idle", "cancel"}, pm' \in {"lock"} \cup Codes => pm \in {"lock"} \cup Codes
    PROVE  RailInv'
<1>1. MaxSkip \in Nat \ {0} /\ dev.skip \in 0..MaxSkip /\ (pm \in {"lock"} \cup Codes => dev.skip < MaxSkip)
  BY PowerAssumption DEF RailInv
<1>2. dev'.skip \in {dev.skip, 0} /\ SubIn(dev')
  BY DEF Rest, RailInv
<1>3. dev'.skip \in 0..MaxSkip /\ (dev.skip < MaxSkip => dev'.skip < MaxSkip)
  BY <1>1, <1>2
<1>4. pm' \in {"lock"} \cup Codes => dev'.skip < MaxSkip
  BY <1>1, <1>3
<1>5. target' \in Platforms /\ Safe(target', dev') 
  BY DEF RailInv
<1>6. SubIn(dev)'
  BY <1>2 DEF SubIn
<1> QED BY <1>3, <1>4, <1>5, <1>6 DEF RailInv

-----------------------------------------------------------------------------
(***************************************************************************)
(* The actions preserve RailInv.                                           *)
(***************************************************************************)
\* d with calm fields changed: what an action does before it calls a function.
LEMMA CalmSafe ==
    ASSUME NEW t, NEW d, Sound(t, d), NEW e, Only(d, e, Calm), e.fw => Controlled(t, d)
    PROVE  Safe(t, e)
  BY CalmStill DEF Still, Safe

LEMMA RailSend == ASSUME PowerInv, RailInv, SendCommand PROVE RailInv'
<1> DEFINE d == [dev EXCEPT !.last = "other", !.sends = @ - 1]
<1>0. /\ target \in Targets /\ Good(dev) /\ IsDev(dev) /\ Sound(target, dev)
      /\ dev.state = "INIT" => Controlled(target, dev)
  BY RailFacts
<1>s. dev.state = "INIT" /\ UNCHANGED <<target, pm, susp, fatal>>
  BY DEF SendCommand
<1>1. PICK o \in resume(target, d) : dev' \in {o.d} \cup (IF o.ok THEN {write_cmd(o.d, "other")} ELSE {})
  BY DEF SendCommand
<1>2. Good(d) /\ Only(dev, d, Calm) /\ Rest(dev, d)
  BY <1>0 DEF Good, Only, IsDev, Fields, Calm, Rest, SubIn
<1> HIDE DEF d
<1>3. Sound(target, d) /\ Controlled(target, d)
  BY <1>0, <1>s, <1>2, CalmStill DEF Still
<1>4. Sound(target, o.d) /\ Controlled(target, o.d) /\ IsDev(o.d)
  BY <1>0, <1>2, <1>3, ResumeSound, SoundDev
<1>5. Rest(dev, o.d)
  BY <1>2, ResumeRest, RestTrans
<1>6. Only(o.d, write_cmd(o.d, "other"), Calm) /\ Rest(o.d, write_cmd(o.d, "other"))
  BY <1>4, CommandCalm DEF Rest, SubIn, write_cmd, IsDev, Fields
<1>7. Safe(target, dev')
  BY <1>1, <1>4, <1>6, CalmSafe DEF Safe
<1>8. Rest(dev, dev')
  BY <1>1, <1>5, <1>6, RestTrans
<1> QED BY <1>s, <1>7, <1>8, RailFrame DEF RailInv

LEMMA RailDspPowerOn == ASSUME PowerInv, RailInv, DspPowerOn PROVE RailInv'
<1> DEFINE d == [dev EXCEPT !.sends = @ - 1]
<1>0. /\ target \in Targets /\ Good(dev) /\ IsDev(dev) /\ Sound(target, dev)
      /\ dev.fw => Controlled(target, dev)
  BY RailFacts
<1>s. UNCHANGED <<target, pm, susp, fatal>>
  BY DEF DspPowerOn
<1>1. PICK o \in resume(target, d) : dev' = o.d
  BY DEF DspPowerOn
<1>2. Good(d) /\ Only(dev, d, Calm) /\ Rest(dev, d) /\ d.fw = dev.fw
  BY <1>0 DEF Good, Only, IsDev, Fields, Calm, Rest, SubIn
<1> HIDE DEF d
<1>3. Sound(target, d) /\ (dev.fw => Controlled(target, d))
  BY <1>0, <1>2, CalmStill DEF Still
<1>4. Sound(target, o.d) /\ (dev.fw => Controlled(target, o.d))
  BY <1>0, <1>2, <1>3, ResumeSound
<1>5. Rest(dev, o.d) /\ o.d.fw = dev.fw
  BY <1>2, ResumeRest, RestTrans
<1>7. Safe(target, dev')
  BY <1>1, <1>4, <1>5 DEF Safe
<1> QED BY <1>s, <1>1, <1>5, <1>7, RailFrame DEF RailInv

LEMMA RailFlush == ASSUME PowerInv, RailInv, FlushDebugQueue PROVE RailInv'
<1> DEFINE d == [dev EXCEPT !.sends = @ - 1]
<1>0. /\ target \in Targets /\ Good(dev) /\ IsDev(dev) /\ Sound(target, dev)
      /\ dev.fw => Controlled(target, dev)
  BY RailFacts
<1>s. dev.power_enabled = TRUE /\ UNCHANGED <<target, pm, susp, fatal>>
  BY <1>0 DEF FlushDebugQueue, Good
<1>1. dev' \in dump_csr(target, d)
  BY DEF FlushDebugQueue
<1>2. IsDev(d) /\ Only(dev, d, Calm) /\ Rest(dev, d) /\ d.fw = dev.fw /\ d.power_enabled = TRUE
  BY <1>0, <1>s DEF Only, IsDev, Fields, Calm, Rest, SubIn
<1> HIDE DEF d
<1>3. Sound(target, d) /\ (dev.fw => Controlled(target, d))
  BY <1>0, <1>2, CalmStill DEF Still
<1>4. Sound(target, dev') /\ (dev.fw => Controlled(target, dev'))
  BY <1>0, <1>1, <1>2, <1>3, DumpSound
<1>5. Rest(dev, dev') /\ dev'.fw = dev.fw
  BY <1>1, <1>2, DumpSame, SameRest, RestTrans
<1>7. Safe(target, dev')
  BY <1>4, <1>5 DEF Safe
<1> QED BY <1>s, <1>5, <1>7, RailFrame DEF RailInv

\* Actions that only change calm fields, and not the ones of Rest.
LEMMA RailCalm ==
    ASSUME PowerInv, RailInv, Only(dev, dev', Calm \ {"skip", "sub", "state", "fw"}),
           UNCHANGED target, fatal' \in BOOLEAN, susp' \in {"idle", "cancel"},
           pm' \in {"lock"} \cup Codes => pm \in {"lock"} \cup Codes
    PROVE  RailInv'
<1>0. Sound(target, dev) /\ (dev.fw => Controlled(target, dev))
  BY RailFacts
<1>1. /\ Only(dev, dev', Calm) /\ dev'.skip = dev.skip /\ dev'.sub = dev.sub
      /\ dev'.state = dev.state /\ dev'.fw = dev.fw /\ dev'.power_enabled = dev.power_enabled
  BY DEF Only, Fields, Calm
<1>2. Safe(target, dev')
  BY <1>0, <1>1, CalmSafe
<1>3. Rest(dev, dev')
  BY <1>1 DEF Rest, SubIn
<1> QED BY <1>2, <1>3, RailFrame

LEMMA RailPmWork == ASSUME PowerInv, RailInv, PmWork PROVE RailInv'
<1>0. IsDev(dev)
  BY RailFacts
<1>1. dev' = [dev EXCEPT !.queued = FALSE] /\ pm' = "check" /\ UNCHANGED <<target, susp, fatal>>
  BY DEF PmWork
<1>2. Only(dev, dev', Calm \ {"skip", "sub", "state", "fw"})
  BY <1>0, <1>1 DEF Only, IsDev, Fields, Calm
<1>3. pm' \notin {"lock"} \cup Codes
  BY <1>1 DEF Codes
<1> QED BY <1>1, <1>2, <1>3, RailCalm DEF RailInv

LEMMA RailIsr == ASSUME PowerInv, RailInv, Isr PROVE RailInv'
<1>0. IsDev(dev)
  BY RailFacts
<1>1. dev' = [dev EXCEPT !.depth = 1, !.sends = @ - 1] /\ UNCHANGED <<target, pm, susp, fatal>>
  BY DEF Isr
<1>2. Only(dev, dev', Calm \ {"skip", "sub", "state", "fw"})
  BY <1>0, <1>1 DEF Only, IsDev, Fields, Calm
<1> QED BY <1>1, <1>2, RailCalm DEF RailInv

LEMMA RailIrqEnd == ASSUME PowerInv, RailInv, IrqEnd PROVE RailInv'
<1>0. IsDev(dev)
  BY RailFacts
<1>1. (dev' = dev \/ dev' = [dev EXCEPT !.depth = @ - 1]) /\ UNCHANGED <<target, pm, susp, fatal>>
  BY DEF IrqEnd
<1>2. Only(dev, dev', Calm \ {"skip", "sub", "state", "fw"})
  BY <1>0, <1>1 DEF Only, IsDev, Fields, Calm
<1> QED BY <1>1, <1>2, RailCalm DEF RailInv

LEMMA RailPmCheck == ASSUME PowerInv, RailInv, PmCheck PROVE RailInv'
<1>0. IsDev(dev) /\ Sound(target, dev) /\ (dev.fw => Controlled(target, dev))
  BY RailFacts
<1>1. MaxSkip \in Nat \ {0} /\ dev.skip \in 0..MaxSkip
  BY PowerAssumption DEF RailInv
<1>2. CASE dev.skip >= MaxSkip
  <2>1. dev' = [dev EXCEPT !.skip = 0] /\ pm' = "idle" /\ fatal' = TRUE /\ UNCHANGED <<target, susp>>
    BY <1>2 DEF PmCheck
  <2>2. Only(dev, dev', Calm) /\ dev'.fw = dev.fw /\ Rest(dev, dev')
    BY <1>0, <2>1 DEF Only, IsDev, Fields, Calm, Rest, SubIn
  <2>3. Safe(target, dev')
    BY <1>0, <2>2, CalmSafe
  <2>4. pm' \notin {"lock"} \cup Codes
    BY <2>1 DEF Codes
  <2> QED BY <2>1, <2>2, <2>3, <2>4, RailFrame DEF RailInv
<1>3. CASE ~(dev.skip >= MaxSkip)
  <2>1. UNCHANGED <<dev, fatal, target, susp>>
    BY <1>3 DEF PmCheck
  <2>2. dev.skip < MaxSkip
    BY <1>1, <1>3
  <2> QED BY <2>1, <2>2 DEF RailInv
<1> QED BY <1>2, <1>3

LEMMA RailPmCollapse == ASSUME PowerInv, RailInv, PmCollapse PROVE RailInv'
<1>0. /\ target \in Targets /\ Good(dev) /\ IsDev(dev) /\ Sound(target, dev)
      /\ dev.state = "INIT" => Controlled(target, dev)
      /\ dev.fw => Controlled(target, dev)
  BY RailFacts
<1>1. PICK force \in BOOLEAN : \E o \in power_collapse(target, dev, force) : dev' = o.d
  BY DEF PmCollapse
<1>2. PICK o \in power_collapse(target, dev, force) : dev' = o.d
  BY <1>1
<1>3. Rest(dev, dev') /\ dev'.fw = dev.fw
  BY <1>0, <1>2, CollapseRest
<1>4. Safe(target, dev')
  BY <1>0, <1>2, <1>3, CollapseSound DEF Safe
<1>5. pm \in {"lock"} \cup Codes /\ UNCHANGED <<target, susp, fatal>>
  BY DEF PmCollapse
<1> QED BY <1>3, <1>4, <1>5, RailFrame DEF RailInv

LEMMA RailSuspend == ASSUME PowerInv, RailInv, Suspend PROVE RailInv'
<1>0. /\ target \in Targets /\ Good(dev) /\ IsDev(dev) /\ Sound(target, dev)
      /\ dev.state = "INIT" => Controlled(target, dev)
      /\ dev.fw => Controlled(target, dev)
  BY RailFacts
<1>1. PICK force \in BOOLEAN : \E o \in power_collapse(target, dev, force) :
         dev' = o.d /\ susp' = IF o.rc = "0" THEN "cancel" ELSE "idle"
  BY DEF Suspend
<1>2. PICK o \in power_collapse(target, dev, force) :
         dev' = o.d /\ susp' = IF o.rc = "0" THEN "cancel" ELSE "idle"
  BY <1>1
<1>3. Rest(dev, dev') /\ dev'.fw = dev.fw
  BY <1>0, <1>2, CollapseRest
<1>4. Safe(target, dev')
  BY <1>0, <1>2, <1>3, CollapseSound DEF Safe
<1>5. susp' \in {"idle", "cancel"} /\ UNCHANGED <<target, pm, fatal>>
  BY <1>2 DEF Suspend
<1> QED BY <1>3, <1>4, <1>5, RailFrame DEF RailInv

\* The cancel of the pm work, which may lose one.
LEMMA RailCancel ==
    ASSUME PowerInv, RailInv, NEW k,
           dev' = [dev EXCEPT !.skip = k, !.queued = FALSE,
                              !.faults = IF dev.queued /\ dev.power_enabled
                                         THEN @ \cup {"late_cancel"} ELSE @],
           k \in {dev.skip, 0}, UNCHANGED <<target, fatal>>, susp' \in {"idle", "cancel"},
           pm' \in {"lock"} \cup Codes => pm \in {"lock"} \cup Codes
    PROVE  RailInv'
<1>0. IsDev(dev) /\ Sound(target, dev) /\ (dev.fw => Controlled(target, dev)) /\ dev.left \in Nat
  BY RailFacts, SoundDev
<1> DEFINE F == IF dev.queued /\ dev.power_enabled THEN dev.faults \cup {"late_cancel"} ELSE dev.faults
<1>1. dev.faults \subseteq F
  OBVIOUS
<1>2. dev' = [dev EXCEPT !.skip = k, !.queued = FALSE, !.faults = F]
  OBVIOUS
<1> HIDE DEF F
<1>3. /\ IsDev(dev') /\ dev'.faults = F /\ dev'.skip = k
      /\ \A f \in Fields \ {"skip", "queued", "faults"} : dev'[f] = dev[f]
  BY <1>0, <1>2 DEF IsDev, Fields
<1>4. Quiet(dev, dev')
  <2>1. dev'.left = dev.left
        /\ \A f \in {"held", "hwctl", "jam", "asleep", "bad", "dark", "power_enabled", "voted"} : dev'[f] = dev[f]
    BY <1>3 DEF Fields
  <2> QED BY <1>0, <1>1, <1>3, <2>1 DEF Quiet
<1>5. dev'.fw = dev.fw /\ dev'.sub = dev.sub /\ dev'.state = dev.state /\ dev'.power_enabled = dev.power_enabled
  BY <1>3 DEF Fields
<1>6. Safe(target, dev')
  BY <1>0, <1>4, <1>5, QuietSound DEF Safe
<1>7. Rest(dev, dev')
  BY <1>3, <1>5 DEF Rest, SubIn
<1> QED BY <1>6, <1>7, RailFrame DEF RailInv

LEMMA RailSuspendCancel == ASSUME PowerInv, RailInv, SuspendCancel PROVE RailInv'
<1>0. IsDev(dev)
  BY RailFacts
<1>1. /\ dev' = [dev EXCEPT !.queued = FALSE,
                            !.faults = IF dev.queued /\ dev.power_enabled
                                       THEN @ \cup {"late_cancel"} ELSE @]
      /\ UNCHANGED <<target, fatal, pm>> /\ susp' = "idle"
  BY DEF SuspendCancel
<1> DEFINE F == IF dev.queued /\ dev.power_enabled THEN dev.faults \cup {"late_cancel"} ELSE dev.faults
<1>2. dev' = [dev EXCEPT !.queued = FALSE, !.faults = F]
  BY <1>1
<1> HIDE DEF F
<1>3. dev' = [dev EXCEPT !.skip = dev.skip, !.queued = FALSE, !.faults = F]
  BY <1>0, <1>2 DEF IsDev, Fields
<1>4. dev' = [dev EXCEPT !.skip = dev.skip, !.queued = FALSE,
                              !.faults = IF dev.queued /\ dev.power_enabled
                                         THEN @ \cup {"late_cancel"} ELSE @]
  BY <1>3 DEF F
<1> QED BY <1>1, <1>4, RailCancel

LEMMA RailPmDone == ASSUME PowerInv, RailInv, PmDone PROVE RailInv'
<1>0. /\ IsDev(dev) /\ Sound(target, dev) /\ (dev.fw => Controlled(target, dev))
      /\ pm \in Codes /\ pm' = "idle" /\ UNCHANGED <<target, isr, susp, fatal>>
  BY RailFacts DEF PmDone
<1>1. pm' \notin {"lock"} \cup Codes
  BY <1>0 DEF Codes
<1>2. susp' \in {"idle", "cancel"} /\ fatal' \in BOOLEAN /\ UNCHANGED target
  BY <1>0 DEF RailInv
<1>3. CASE pm = "0"
  <2>1. dev' = [dev EXCEPT !.skip = 0, !.queued = FALSE,
                           !.faults = IF dev.queued /\ dev.power_enabled
                                      THEN @ \cup {"late_cancel"} ELSE @]
    BY <1>3 DEF PmDone
  <2> QED BY <1>0, <1>1, <1>2, <2>1, RailCancel
<1>4. CASE pm = "EBUSY"
  <2>1. dev' = [dev EXCEPT !.skip = 0, !.queued = TRUE]
    BY <1>4 DEF PmDone
  <2>2. Only(dev, dev', Calm) /\ dev'.fw = dev.fw /\ Rest(dev, dev')
    BY <1>0, <2>1 DEF Only, IsDev, Fields, Calm, Rest, SubIn
  <2>3. Safe(target, dev')
    BY <1>0, <2>2, CalmSafe
  <2> QED BY <1>1, <1>2, <2>2, <2>3, RailFrame
<1>5. CASE pm = "EAGAIN"
  <2>0. dev.skip \in 0..MaxSkip /\ dev.skip < MaxSkip /\ MaxSkip \in Nat \ {0}
    BY <1>5, PowerAssumption DEF RailInv, Codes
  <2>1. dev' = [dev EXCEPT !.skip = dev.skip + 1, !.queued = TRUE]
    BY <1>5 DEF PmDone
  <2>2. /\ Only(dev, dev', Calm) /\ dev'.fw = dev.fw /\ dev'.skip = dev.skip + 1
        /\ dev'.sub = dev.sub /\ dev'.state = dev.state /\ dev'.power_enabled = dev.power_enabled
    BY <1>0, <2>1 DEF Only, IsDev, Fields, Calm
  <2>3. Safe(target, dev')
    BY <1>0, <2>2, CalmSafe
  <2>4. SubIn(dev)'
    BY <2>2 DEF SubIn, RailInv
  <2>5. dev'.skip \in 0..MaxSkip
    BY <2>0, <2>2
  <2> QED BY <1>0, <1>1, <1>2, <2>3, <2>4, <2>5 DEF RailInv
<1>6. CASE pm \in {"EINVAL", "other"}
  <2>1. dev' = dev
    BY <1>6 DEF PmDone
  <2>2. Safe(target, dev') /\ Rest(dev, dev')
    BY <2>1 DEF RailInv, Rest
  <2> QED BY <1>1, <1>2, <2>2, RailFrame
<1> QED BY <1>0, <1>3, <1>4, <1>5, <1>6 DEF Codes

LEMMA RailIrqWork == ASSUME PowerInv, RailInv, IrqWork PROVE RailInv'
<1>0. /\ target \in Targets /\ Good(dev) /\ IsDev(dev) /\ Sound(target, dev)
      /\ dev.fw => Controlled(target, dev)
  BY RailFacts
<1>s. UNCHANGED <<target, pm, susp, fatal>>
  BY DEF IrqWork
<1> DEFINE R == IF dev.state = "INIT" THEN resume(target, dev) ELSE {Err(dev)}
           c == <<Reg("ctl")>>
<1>1. PICK o \in R : \E w \in IF o.ok THEN May(o.d, "wd") ELSE {Ok(o.d)} :
         dev' = IF o.ok THEN [Run(target, w.d, c) EXCEPT !.wd = @ \/ ~w.ok, !.queued = TRUE]
                ELSE o.d
  BY DEF IrqWork
<1>2. PICK w : /\ w \in IF o.ok THEN May(o.d, "wd") ELSE {Ok(o.d)}
               /\ dev' = IF o.ok THEN [Run(target, w.d, c) EXCEPT !.wd = @ \/ ~w.ok, !.queued = TRUE]
                         ELSE o.d
  BY <1>1
<1>3. Sound(target, o.d) /\ (dev.fw => Controlled(target, o.d)) /\ Rest(dev, o.d) /\ o.d.fw = dev.fw
      /\ IsDev(o.d)
  <2>1. CASE dev.state = "INIT"
    BY <1>0, <2>1, ResumeSound, ResumeRest, SoundDev
  <2>2. CASE dev.state # "INIT"
    <3>1. o.d = dev
      BY <1>1, <2>2, Outcome
    <3> QED BY <1>0, <3>1 DEF Rest
  <2> QED BY <2>1, <2>2
<1>c. Regs(c, CtlDoms)
  BY <1>0, AccessRegs
<1> HIDE DEF R, c
<1>4. CASE o.ok
  <2>1. w \in May(o.d, "wd")
    BY <1>2, <1>4
  <2>2. Still(target, o.d, w.d) /\ Sound(target, w.d) /\ IsDev(w.d)
    BY <1>3, <2>1, MayStill, SoundDev DEF Still
  <2>3. Rest(o.d, w.d) /\ w.d.fw = o.d.fw
    BY <1>3, <2>1, MaySame, SameRest
  <2>4. Run(target, w.d, c) = w.d
    BY <1>0, <1>c, <2>2, AccessSound
  <2> DEFINE b == w.d.wd \/ ~w.ok
  <2>5. dev' = [w.d EXCEPT !.wd = b, !.queued = TRUE]
    BY <1>2, <1>4, <2>4
  <2> HIDE DEF b
  <2>6. Only(w.d, dev', Calm) /\ dev'.fw = w.d.fw /\ Rest(w.d, dev')
    BY <2>2, <2>5 DEF Only, IsDev, Fields, Calm, Rest, SubIn
  <2>7. Safe(target, dev')
    BY <1>3, <2>2, <2>3, <2>6, CalmSafe DEF Still
  <2>8. Rest(dev, dev')
    BY <1>3, <2>3, <2>6, RestTrans
  <2> QED BY <1>s, <2>7, <2>8, RailFrame DEF RailInv
<1>5. CASE ~o.ok
  <2>1. dev' = o.d
    BY <1>2, <1>5
  <2>2. Safe(target, dev')
    BY <1>3, <2>1 DEF Safe
  <2> QED BY <1>s, <1>3, <2>1, <2>2, RailFrame DEF RailInv
<1> QED BY <1>4, <1>5

LEMMA RailCoreInit == ASSUME PowerInv, RailInv, CoreInit PROVE RailInv'
<1> DEFINE d == [dev EXCEPT !.inits = @ - 1]
<1>0. /\ target \in Targets /\ Good(dev) /\ IsDev(dev) /\ Sound(target, dev)
      /\ dev.res \subseteq Handles /\ dev.state = "DEINIT" /\ dev.fw = FALSE
  BY RailFacts DEF PowerInv, LoadInv, CoreInit
<1>s. fatal' = FALSE /\ UNCHANGED <<target, pm, susp>>
  BY DEF CoreInit
<1>1. PICK o \in iris_hfi_core_init(target, d) : dev' = o.d
  BY DEF CoreInit
<1>2. /\ Good(d) /\ Only(dev, d, Calm) /\ d.fw = FALSE /\ d.state = "DEINIT" /\ d.res = dev.res
      /\ d.sub = dev.sub /\ d.skip = dev.skip
  BY <1>0 DEF Good, Only, IsDev, Fields, Calm
<1> HIDE DEF d
<1>3. Sound(target, d)
  BY <1>0, <1>2, CalmStill DEF Still
<1>4. Safe(target, dev')
  BY <1>0, <1>1, <1>2, <1>3, CoreInitSafe
<1>5. Undone(d, dev') \/ LoadedFrom(d, dev')
  BY <1>0, <1>1, <1>2, CoreInitStep
<1>6. ~dev.sub
  BY <1>0 DEF RailInv, SubIn
<1>7. Rest(dev, dev')
  <2>1. CASE Undone(d, dev')
    BY <1>2, <1>6, <2>1 DEF Undone, Loads, Rest, SubIn
  <2>2. CASE LoadedFrom(d, dev')
    BY <1>2, <2>2 DEF LoadedFrom, Rest, SubIn
  <2> QED BY <1>5, <2>1, <2>2
<1>8. fatal' \in BOOLEAN
  BY <1>s
<1> QED BY <1>s, <1>4, <1>7, <1>8, RailFrame DEF RailInv

LEMMA RailCoreRelease == ASSUME PowerInv, RailInv, CoreRelease PROVE RailInv'
<1>0. /\ target \in Targets /\ Good(dev) /\ Sound(target, dev) /\ dev.res \subseteq Handles
      /\ dev.state = "INIT" /\ dev.fw = TRUE /\ Controlled(target, dev)
  BY RailFacts DEF PowerInv, LoadInv, CoreRelease
<1>s. fatal' = FALSE /\ UNCHANGED <<target, pm, susp>>
  BY DEF CoreRelease
<1>1. dev' \in iris_hfi_core_release(target, dev)
  BY DEF CoreRelease
<1>2. Safe(target, dev')
  BY <1>0, <1>1, ReleaseSafe
<1>3. Freed(dev, dev')
  BY <1>0, <1>1, ReleaseStep
<1>4. Rest(dev, dev')
  BY <1>3 DEF Freed, Rest, SubIn
<1>5. fatal' \in BOOLEAN
  BY <1>s
<1> QED BY <1>s, <1>2, <1>4, <1>5, RailFrame DEF RailInv

LEMMA RailNext == PowerInv /\ RailInv /\ [Next]_vars => RailInv'
<1> SUFFICES ASSUME PowerInv, RailInv, [Next]_vars PROVE RailInv'
  OBVIOUS
<1>1. CASE Next
  BY <1>1, RailCoreInit, RailCoreRelease, RailSend, RailDspPowerOn, RailPmWork, RailPmCheck,
     RailPmCollapse, RailPmDone, RailSuspend, RailSuspendCancel, RailIsr, RailIrqWork, RailIrqEnd,
     RailFlush DEF Next
<1>2. CASE UNCHANGED vars
  <2>1. UNCHANGED <<target, dev, pm, susp, fatal>>
    BY <1>2 DEF vars
  <2>2. Safe(target, dev') /\ Rest(dev, dev')
    BY <2>1 DEF RailInv, Rest
  <2> QED BY <2>1, <2>2, RailFrame DEF RailInv
<1> QED BY <1>1, <1>2

LEMMA RailImplies == PowerInv /\ RailInv => TypeOK /\ ResourcesExact /\ RegistersLit
<1> SUFFICES ASSUME PowerInv, RailInv PROVE TypeOK /\ ResourcesExact /\ RegistersLit
  OBVIOUS
<1>0. /\ target \in Targets /\ Good(dev) /\ IsDev(dev) /\ Sound(target, dev) /\ dev.power_enabled \in BOOLEAN
      /\ MaxFaults \in Nat
  BY RailFacts, PowerAssumption DEF Good
<1> DEFINE R == Resources(target)
<1>1. /\ dev.held \in [R -> Nat] /\ dev.left \in 0..MaxFaults
      /\ \A r \in R : One(dev) <= dev.held[r] /\ dev.held[r] <= (MaxFaults - dev.left) + One(dev)
      /\ dev.faults \cap LeaksOf(target) = {} => \A r \in R : dev.held[r] = One(dev)
      /\ dev.voted = dev.power_enabled
  BY <1>0 DEF Sound, HeldSound
<1>2. One(dev) \in 0..1 /\ (dev.power_enabled => One(dev) = 1) /\ (~dev.power_enabled => One(dev) = 0)
  BY <1>0 DEF One
<1>3. /\ dev.hwctl \subseteq Range(CoreGdscs(target))
      /\ "take_back" \notin dev.faults =>
           dev.hwctl \in {{}, Range(CoreGdscs(target))} /\ (dev.hwctl # {} => dev.power_enabled)
  BY <1>0 DEF Sound, HwSound
<1>4. dev.bad \subseteq Extra(target) /\ (dev.bad # {} => dev.faults \cap DoubleFaults # {})
  BY <1>0 DEF Sound, BadSound
<1>5. dev.dark \subseteq Doms /\ ("dump" \notin dev.faults => dev.dark = {})
  BY <1>0 DEF Sound, DarkSound
<1>6. TypeOK
  <2>1. dev.held \in [R -> 0..(MaxFaults + 1)]
    <3>1. ASSUME NEW r \in R PROVE dev.held[r] \in 0..(MaxFaults + 1)
      <4>1. dev.held[r] \in Nat /\ dev.held[r] <= (MaxFaults - dev.left) + One(dev)
        BY <1>1
      <4> QED BY <1>0, <1>1, <1>2, <4>1
    <3> QED BY <1>1, <3>1
  <2>2. dev.hwctl \cup dev.bad \subseteq R
    BY <1>0, <1>3, <1>4, ClockLayout, ResourcesLayout DEF Extra
  <2>3. dev.depth \in 0..2
    <3>1. IrqBalanced
      BY PowerImplies
    <3> DEFINE a == IF dev.power_enabled /\ ~dev.wd THEN 0 ELSE 1
               b == IF isr \in {"woken", "enable"} THEN 1 ELSE 0
    <3>2. a \in 0..1 /\ b \in 0..1 /\ dev.depth = a + b
      BY <3>1 DEF IrqBalanced
    <3> HIDE DEF a, b
    <3> QED BY <3>2
  <2>4. /\ dev.state \in {"INIT", "DEINIT"} /\ pm \in {"idle", "check", "lock"} \cup Codes
        /\ isr \in {"idle", "woken", "enable", "keep"}
    BY DEF PowerInv, IrqInv, StrandInv, LoadInv
  <2>5. /\ target \in Platforms /\ dev.skip \in 0..MaxSkip /\ fatal \in BOOLEAN
        /\ susp \in {"idle", "cancel"}
    BY DEF RailInv
  <2> QED BY <1>1, <1>5, <2>1, <2>2, <2>3, <2>4, <2>5 DEF TypeOK, Doms
<1>7. PoweredHeld
  <2>1. ASSUME dev.power_enabled, NEW r \in DOMAIN dev.held PROVE dev.held[r] > 0
    <3>1. r \in R /\ dev.held[r] \in Nat /\ One(dev) <= dev.held[r] /\ One(dev) = 1
      BY <1>1, <1>2, <2>1
    <3> QED BY <3>1
  <2> QED BY <1>1, <2>1 DEF PoweredHeld
<1>8. OffReleased
  <2> SUFFICES ASSUME ~dev.power_enabled, dev.faults \cap Leaks = {}
               PROVE  /\ \A r \in DOMAIN dev.held : dev.held[r] = 0
                      /\ ~dev.voted /\ ~dev.sub /\ dev.hwctl = {}
    BY DEF OffReleased
  <2>1. Leaks = LeaksOf(target)
    BY DEF Leaks, LeaksOf
  <2>2. "take_back" \notin dev.faults
    BY DEF Leaks
  <2>3. \A r \in DOMAIN dev.held : dev.held[r] = 0
    BY <1>1, <1>2, <2>1
  <2>4. dev.hwctl = {}
    BY <1>3, <2>2
  <2>5. ~dev.voted /\ ~dev.sub
    BY <1>1 DEF RailInv, SubIn
  <2> QED BY <2>3, <2>4, <2>5
<1>9. Balanced
  BY <1>4 DEF Balanced, Extra, Doubly, DoubleFaults
<1>10. ModeUniform
  BY <1>3 DEF ModeUniform
<1>11. RegistersLit
  BY <1>5 DEF RegistersLit
<1> QED BY <1>6, <1>7, <1>8, <1>9, <1>10, <1>11 DEF ResourcesExact

\* RailInv holds in every reachable state: no function that runs under
\* device->lock (iris_hfi_core_init, __resume, __power_collapse, the release,
\* the response handler) leaves the references it took unaccounted for,
\* whichever of its calls fail.
THEOREM RailInvariant == Spec => []RailInv
<1>1. PowerInv /\ RailInv /\ [Next]_vars => RailInv'
  BY RailNext
<1> QED BY <1>1, RailInit, PowerInvariant, PTL DEF Spec

\* Every variable keeps its type.  For held this says that no resource is ever
\* referenced more than once for the device and once for every failed call.
THEOREM PowerTypes == Spec => []TypeOK
  BY PowerInvariant, RailInvariant, RailImplies, PTL

\* On every target, after any history of collapses, resumes, loads and failures:
\* a device that is on holds every clock and GDSC, one that is off holds none
\* of them, no bus vote and no cache unless a call that leaks has failed, a clock
\* is released twice only after the failures that lead to it, and the
\* GDSCs of the core are handed over all or none.
THEOREM PowerExact == Spec => []ResourcesExact
  BY PowerInvariant, RailInvariant, RailImplies, PTL

\* No register sequence of any target reaches a register whose clocks or GDSC
\* are off, but for a NoC dump that could not take the core back.
THEOREM RegistersAreLit == Spec => []RegistersLit
  BY PowerInvariant, RailInvariant, RailImplies, PTL
=============================================================================
