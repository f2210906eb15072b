------------------------------ MODULE Threads ------------------------------
(***************************************************************************)
(* The kernel thread package of thread.c and the spinlocks of             *)
(* concurrency.c on the single CPU, driven by the timer interrupt          *)
(* (idt.c handleInterrupt calls thrYeild on IV_TIMER).                     *)
(*                                                                         *)
(* Structs: the thread table thrqueue[0..NSLOTS-1] and the struct that     *)
(* thr_scheduler points at.  thr_scheduler and thr_current are globals     *)
(* that no code assigns, so both are NULL: the model names that struct     *)
(* NULLThread, and it is both the scheduler's struct and the first         *)
(* "current" thread.                                                       *)
(*                                                                         *)
(* Stacks: every struct's kstack, plus the boot stack kernelMain runs on.  *)
(* A stack hosts at most one stream of execution; pc[s] is where it is.    *)
(* ctxSwitch(old, new) (switch.s is not in the repository; the model       *)
(* takes the usual meaning of its declaration in thread.h: save the        *)
(* running stack's registers into *old, load new) is SwitchCtx below.      *)
(* A saved context is either a suspension of some stack (a pointer into    *)
(* it) or the fresh frame thrCreate/thrInit build at the top of a stack.   *)
(* holder[s] is the struct whose ctx field holds stack s's current         *)
(* suspension; a suspension is stale once its stack has run again, and     *)
(* loading a stale one is undefined behaviour, recorded as a fault.        *)
(*                                                                         *)
(* The code the threads run is a table from labels to steps, built from    *)
(* one fragment per C function; the actions interpret it.  A timer tick    *)
(* may come between any two steps while IF (intr) is set.                  *)
(***************************************************************************)
EXTENDS Integers, Sequences, FiniteSets, TLC

CONSTANTS
    NSLOTS,          \* THRQUESIZE (256 in thread.h)
    DEFAULT_COUNTER, \* the time slice thrCreate gives (100 in thread.h)
    NITER,           \* the loop bound of mfunc, producer, consumer (100)
    NBUF,            \* the producer/consumer buffer and s_emp's start (5)
    Tests,           \* the test functions kernelMain may call after thrInit
    NULLThread,      \* the struct at address 0 (thr_scheduler, thr_current)
    Boot,            \* the boot stack kernelMain runs on
    NoThread         \* an unset thread pointer: holder, thrSched's local t

Slots   == 0 .. NSLOTS - 1
Structs == Slots \cup {NULLThread}
Stacks  == Structs \cup {Boot}

\* thread.h status codes
THR_UNUSED == 0
THR_READY == 1
THR_RUNNING == 2
THR_SLEEPING == 3
THR_ZOMBIE == 4
THR_STOP == 5

Locks == {"thrque", "mlk", "gt"}     \* thrque_lock, gm.lk, gtLock
Sems  == {"s_emp", "s_full"}
CVs   == {"none", "gm", "g", "s_emp", "s_full"}  \* cv pointers

VARIABLES
    status, counter, cv,   \* the fields of every struct
    cur,                   \* thr_current
    ctx,                   \* the ctx field of every struct
    holder,                \* which struct's ctx holds a stack's suspension
    cpu,                   \* the stack the CPU is executing on
    pc, ret,               \* per stack: label, and label an iret returns to
    tsel,                  \* per stack: thrSched's local t
    tl,                    \* per stack: thrCondWait's local t
    iv, local,             \* per stack: a loop index and a local int
    intr,                  \* EFLAGS.IF
    lk,                    \* spinlock words
    mlock,                 \* gm.lock
    g,                     \* globalTestVar
    count, idx, slot,      \* semaphores, producer/consumer buffer
    fault                  \* "none", or the undefined behaviour reached

vars == <<status, counter, cv, cur, ctx, holder, cpu, pc, ret, tsel, tl,
          iv, local, intr, lk, mlock, g, count, idx, slot, fault>>

(***************************************************************************)
(* Saved contexts.                                                         *)
(***************************************************************************)
Susp(s)     == [kind |-> "susp", stk |-> s, entry |-> ""]
Fresh(s, l) == [kind |-> "fresh", stk |-> s, entry |-> l]
NoCtx       == [kind |-> "none", stk |-> Boot, entry |-> ""]

(***************************************************************************)
(* The code, as labelled steps.  I(op, arg, next, alt).                    *)
(***************************************************************************)
I(o, a, n, l) == [op |-> o, arg |-> a, next |-> n, alt |-> l]

\* spinlockLock: cli(); while(xchg(&lock, 1) != 0);
SpinLockAt(at, l, next) ==
    (at \o "_cli") :> I("cli", l, at \o "_x", "")
    @@ (at \o "_x") :> I("xchg", l, next, "")

\* spinlockUnlock: lock = 0; sti();
SpinUnlockAt(at, l, next) == at :> I("unlock", l, next, "")

\* thrCondWait(cv, spl) with spl != &thrque_lock.  thrSched() never
\* returns, so the code after it is unreachable and has no label.
CondWaitAt(at, c, spl) ==
    SpinLockAt(at, "thrque", at \o "_u")
    @@ SpinUnlockAt(at \o "_u", spl, at \o "_cv")
    @@ (at \o "_cv") :> I("cwcv", c, at \o "_sl", "")
    @@ (at \o "_sl") :> I("cwsleep", c, "sched", "")

\* thrMutexLock(&gm)
MutexLockAt(at, next) ==
    SpinLockAt(at, "mlk", at \o "_t")
    @@ (at \o "_t") :> I("mtest", "gm", at \o "_u", at \o "_w_cli")
    @@ CondWaitAt(at \o "_w", "gm", "mlk")
    @@ SpinUnlockAt(at \o "_u", "mlk", next)

\* thrMutexUnlock(&gm): m->lock = 0 and thrCondBroadcast(m) run with the
\* lock held and IF clear, so they are one step.
MutexUnlockAt(at, next) ==
    SpinLockAt(at, "mlk", at \o "_c")
    @@ (at \o "_c") :> I("mclear", "gm", at \o "_u", "")
    @@ SpinUnlockAt(at \o "_u", "mlk", next)

\* thrSemDown: while(count <= 0) { status = SLEEPING; cv = s; } count--;
\* count-- and count++ take no lock; the build may compile them to a load
\* and a store, so they are two steps (which covers the single instruction).
SemDownAt(at, s, next) ==
    at :> I("semtest", s, at \o "_d", at \o "_sl")
    @@ (at \o "_sl") :> I("semsleep", s, at \o "_cv", "")
    @@ (at \o "_cv") :> I("semcv", s, at, "")
    @@ (at \o "_d") :> I("semget", s, at \o "_d2", "")
    @@ (at \o "_d2") :> I("semdec", s, next, "")

\* thrSemUp: count++; then wake every sleeper on s from slot 0
SemUpAt(at, s, next) ==
    at :> I("semget", s, at \o "_i", "")
    @@ (at \o "_i") :> I("seminc", s, at \o "_w", "")
    @@ (at \o "_w") :> I("semwake", s, next, "")

\* mfunc: for(i < NITER) { lock; local = g; local++; g = local; printf;
\* unlock }
\* then returns into kernStub, which calls thrExit.
MfuncCode ==
    "mf" :> I("loop", "", "mf_L_cli", "exit")
    @@ MutexLockAt("mf_L", "mf_r")
    @@ "mf_r" :> I("read", "", "mf_w", "")
    @@ "mf_w" :> I("write", "", "mf_p", "")
    @@ "mf_p" :> I("print", "", "mf_U_cli", "")
    @@ MutexUnlockAt("mf_U", "mf_i")
    @@ "mf_i" :> I("inc", "", "mf", "")

\* gfunc0: lock gtLock; g += 10 (IF clear); unlock; signal(&g); thrExit
Gfunc0Code ==
    SpinLockAt("g0", "gt", "g0_a")
    @@ "g0_a" :> I("add10", "", "g0_u", "")
    @@ SpinUnlockAt("g0_u", "gt", "g0_s")
    @@ "g0_s" :> I("signal", "g", "exit", "")

\* gfunc1: lock gtLock; while(g == 23) wait(&g, &gtLock); printf; unlock;
\* thrExit
Gfunc1Code ==
    SpinLockAt("g1", "gt", "g1_t")
    @@ "g1_t" :> I("gtest", "", "g1_p", "g1_w_cli")
    @@ "g1_p" :> I("print", "", "g1_u", "")
    @@ CondWaitAt("g1_w", "g", "gt")
    @@ SpinUnlockAt("g1_u", "gt", "exit")

\* producer: for(i < NITER) { down(s_emp); slot[idx] = 1; printf(.., idx++);
\* up(s_full) }
ProducerCode ==
    "pr" :> I("loop", "", "pr_D", "exit")
    @@ SemDownAt("pr_D", "s_emp", "pr_s")
    @@ "pr_s" :> I("fill", "", "pr_ir", "")
    @@ "pr_ir" :> I("idxget", "", "pr_iw", "")
    @@ "pr_iw" :> I("idxinc", "", "pr_p", "")
    @@ "pr_p" :> I("print", "", "pr_U", "")
    @@ SemUpAt("pr_U", "s_full", "pr_n")
    @@ "pr_n" :> I("inc", "", "pr", "")

\* consumer: for(i < NITER) { down(s_full); slot[--idx] = 0; printf;
\* up(s_emp) }
ConsumerCode ==
    "co" :> I("loop", "", "co_D", "exit")
    @@ SemDownAt("co_D", "s_full", "co_r")
    @@ "co_r" :> I("idxget", "", "co_w", "")
    @@ "co_w" :> I("empty", "", "co_p", "")
    @@ "co_p" :> I("print", "", "co_U", "")
    @@ SemUpAt("co_U", "s_emp", "co_n")
    @@ "co_n" :> I("inc", "", "co", "")

\* kernStub's thrExit, and the boot stack after kernelMain's last call
TailCode == "exit" :> I("exit", "", "", "") @@ "idle" :> I("idle", "", "", "")

\* the test functions kernel.c lists after thrInit (all commented out there;
\* "none" is the kernel as shipped)
MtxTestCode ==
    "mt" :> I("init", "mtx", "mt_c0", "")
    @@ "mt_c0" :> I("create", "mf", "mt_c1", "")
    @@ "mt_c1" :> I("create", "mf", "idle", "")
CvTestCode ==
    "ct" :> I("init", "cv", "ct_c0", "")
    @@ "ct_c0" :> I("create", "g0_cli", "ct_c1", "")
    @@ "ct_c1" :> I("create", "g1_cli", "idle", "")
SemTestCode ==
    "st" :> I("init", "sem", "st_c0", "")
    @@ "st_c0" :> I("create", "pr", "st_c1", "")
    @@ "st_c1" :> I("create", "co", "idle", "")

Code == MfuncCode @@ Gfunc0Code @@ Gfunc1Code @@ ProducerCode
        @@ ConsumerCode @@ TailCode @@ MtxTestCode @@ CvTestCode
        @@ SemTestCode

MainEntry == [none |-> "idle", mtx |-> "mt", cv |-> "ct", sem |-> "st"]

(***************************************************************************)
(* State.                                                                  *)
(***************************************************************************)
thrVars    == <<status, counter, cv, cur>>
switchVars == <<ctx, holder, cpu>>
frameVars  == <<ret, tsel, tl, iv, local>>
dataVars   == <<lk, mlock, g, count, idx, slot>>

\* thrInit has run: every slot UNUSED, thrque_lock free, the scheduler's
\* ctx a fresh frame whose eip is thrSched on the NULL struct's kstack, and
\* IF set by its sti.  kernelMain then calls one of the tests (or none).
Init ==
    /\ status  = [x \in Structs |-> THR_UNUSED]
    /\ counter = [x \in Structs |-> 0]
    /\ cv      = [x \in Structs |-> "none"]
    /\ cur     = NULLThread
    /\ ctx     = [x \in Structs |-> IF x = NULLThread
                                      THEN Fresh(NULLThread, "sched")
                                      ELSE NoCtx]
    /\ holder  = [s \in Stacks |-> NoThread]
    /\ cpu     = Boot
    /\ \E t \in Tests :
          pc = [s \in Stacks |-> IF s = Boot THEN MainEntry[t] ELSE "unborn"]
    /\ ret     = [s \in Stacks |-> "unborn"]
    /\ tsel    = [s \in Stacks |-> NoThread]
    /\ tl      = [s \in Stacks |-> NULLThread]
    /\ iv      = [s \in Stacks |-> 0]
    /\ local   = [s \in Stacks |-> 0]
    /\ intr    = TRUE
    /\ lk      = [l \in Locks |-> 0]
    /\ mlock   = 0
    /\ g       = 0
    /\ count   = [x \in Sems |-> 0]
    /\ idx     = 0
    /\ slot    = [i \in 0 .. NBUF - 1 |-> 0]
    /\ fault   = "none"

Running(s) == s = cpu /\ fault = "none"
Op(s)      == IF pc[s] \in DOMAIN Code THEN Code[pc[s]].op ELSE pc[s]
Arg(s)     == Code[pc[s]].arg
At(s, o)   == Running(s) /\ Op(s) = o
Goto(s)    == pc' = [pc EXCEPT ![s] = Code[pc[s]].next]
GotoAlt(s) == pc' = [pc EXCEPT ![s] = Code[pc[s]].alt]

\* counter-- never resets; thrSched only compares it with maxp >= 0, so
\* every value <= 0 behaves as 0 and the model keeps 0.
Dec(c) == IF c > 0 THEN c - 1 ELSE 0

(***************************************************************************)
(* ctxSwitch(&(saveTo->ctx), from->ctx) on the running stack.  The new     *)
(* context is read before the save.  Loading a fresh frame starts its      *)
(* code at the top of its stack, clobbering whatever suspension that       *)
(* stack held; loading a suspension whose stack has run since, or that     *)
(* thrExit left, is undefined behaviour.                                   *)
(***************************************************************************)
SwitchCtx(saveTo, from, pc1, tsel1, intr1) ==
    LET c     == ctx[from]
        ctx1  == [ctx EXCEPT ![saveTo] = Susp(cpu)]
        hold1 == [holder EXCEPT ![cpu] = saveTo]
        live  == c.kind = "susp" /\ holder[c.stk] = from
    IN  \/ /\ live /\ pc1[c.stk] # "dead"
           /\ cpu' = c.stk /\ ctx' = ctx1
           /\ holder' = [hold1 EXCEPT ![c.stk] = NoThread]
           /\ pc' = pc1 /\ tsel' = tsel1 /\ intr' = intr1
           /\ UNCHANGED <<iv, fault>>
        \/ /\ c.kind = "fresh"
           /\ cpu' = c.stk /\ ctx' = ctx1
           /\ holder' = [hold1 EXCEPT ![c.stk] = NoThread]
           /\ pc' = [pc1 EXCEPT ![c.stk] = c.entry]
           /\ tsel' = [tsel1 EXCEPT ![c.stk] = NoThread]
           /\ iv' = [iv EXCEPT ![c.stk] = 0]
           /\ intr' \in IF c.stk = NULLThread THEN {intr1} ELSE {intr1, TRUE}
           /\ UNCHANGED fault
        \/ /\ c.kind # "fresh" /\ ~(live /\ pc1[c.stk] # "dead")
           /\ fault' = IF live THEN "zombie resumed" ELSE "stale context"
           /\ pc' = pc1 /\ tsel' = tsel1 /\ intr' = intr1
           /\ UNCHANGED <<cpu, ctx, holder, iv>>

(***************************************************************************)
(* Scheduling: the timer's thrYeild, thrSched's loop, thrExit, the iret.  *)
(***************************************************************************)

\* mutant: the time slice is never charged (counter-- dropped)
thrYeild_NoCharge ==
    /\ fault = "none" /\ intr
    /\ status' = [status EXCEPT ![cur] = THR_READY]
    /\ ret' = [ret EXCEPT ![cpu] = pc[cpu]]
    /\ SwitchCtx(cur, NULLThread, [pc EXCEPT ![cpu] = "yret"], tsel, FALSE)
    /\ UNCHANGED <<counter, cv, cur, tl, local, dataVars>>

\* mutant: counter++ for counter--
thrYeild_CounterUp ==
    /\ fault = "none" /\ intr
    /\ status' = [status EXCEPT ![cur] = THR_READY]
    /\ counter' = [counter EXCEPT ![cur] = @ + 1]
    /\ ret' = [ret EXCEPT ![cpu] = pc[cpu]]
    /\ SwitchCtx(cur, NULLThread, [pc EXCEPT ![cpu] = "yret"], tsel, FALSE)
    /\ UNCHANGED <<cv, cur, tl, local, dataVars>>

\* IRQ0 through an interrupt gate (IF cleared), then thrYeild:
\* thr_current->status = READY; counter--; ctxSwitch(&cur->ctx, sched ctx)
thrYeild ==
    /\ fault = "none" /\ intr
    /\ status' = [status EXCEPT ![cur] = THR_READY]
    /\ counter' = [counter EXCEPT ![cur] = Dec(@)]
    /\ ret' = [ret EXCEPT ![cpu] = pc[cpu]]
    /\ SwitchCtx(cur, NULLThread, [pc EXCEPT ![cpu] = "yret"], tsel, FALSE)
    /\ UNCHANGED <<cv, cur, tl, local, dataVars>>

\* the handler returns and iret restores the interrupted IF
IntrReturn(s) ==
    /\ Running(s) /\ pc[s] = "yret"
    /\ intr' = TRUE
    /\ pc' = [pc EXCEPT ![s] = ret[s]]
    /\ UNCHANGED <<thrVars, switchVars, frameVars, dataVars, fault>>

\* the first READY slot with the greatest counter (strict > maxp)
Pick(ready) ==
    CHOOSE i \in ready : \A j \in ready :
        counter[j] < counter[i] \/ (counter[j] = counter[i] /\ i <= j)

\* mutant: thr_current is not set before the switch
thrSched_NoCurrent(s) ==
    /\ Running(s) /\ pc[s] = "sched"
    /\ LET ready == {i \in Slots : status[i] = THR_READY /\ counter[i] > 0}
           t     == IF ready = {} THEN tsel[s] ELSE Pick(ready)
       IN  \/ /\ t = NoThread
              /\ fault' = "thrSched: t unset"
              /\ UNCHANGED <<thrVars, switchVars, pc, frameVars, intr, dataVars>>
           \/ /\ t # NoThread
              /\ status' = [status EXCEPT ![t] = THR_RUNNING]
              /\ SwitchCtx(NULLThread, t, pc, [tsel EXCEPT ![s] = t], intr)
              /\ UNCHANGED <<counter, cv, cur, ret, tl, local, dataVars>>

\* one pass of thrSched's for(;;): t keeps its value from the last pass of
\* this frame when no slot is READY with counter > 0, and is unset in a
\* frame's first pass
thrSched(s) ==
    /\ Running(s) /\ pc[s] = "sched"
    /\ LET ready == {i \in Slots : status[i] = THR_READY /\ counter[i] > 0}
           t     == IF ready = {} THEN tsel[s] ELSE Pick(ready)
       IN  \/ /\ t = NoThread
              /\ fault' = "thrSched: t unset"
              /\ UNCHANGED <<thrVars, switchVars, pc, frameVars, intr, dataVars>>
           \/ /\ t # NoThread
              /\ cur' = t
              /\ status' = [status EXCEPT ![t] = THR_RUNNING]
              /\ SwitchCtx(NULLThread, t, pc, [tsel EXCEPT ![s] = t], intr)
              /\ UNCHANGED <<counter, cv, ret, tl, local, dataVars>>

\* thrExit (kernStub's, or the thread function's own)
thrExit(s) ==
    /\ At(s, "exit")
    /\ status' = [status EXCEPT ![cur] = THR_ZOMBIE]
    /\ SwitchCtx(cur, NULLThread, [pc EXCEPT ![s] = "dead"], tsel, intr)
    /\ UNCHANGED <<counter, cv, cur, ret, tl, local, dataVars>>

\* thrCreate: thrAlloc takes the first UNUSED or STOP slot (none: -1);
\* the frame it builds starts the function through kernStub
thrCreate(s) ==
    /\ At(s, "create")
    /\ LET free == {x \in Slots : status[x] \in {THR_UNUSED, THR_STOP}}
           t    == CHOOSE x \in free : \A y \in free : x <= y
       IN  \/ /\ free = {}
              /\ UNCHANGED <<status, counter, ctx>>
           \/ /\ free # {}
              /\ ctx' = [ctx EXCEPT ![t] = Fresh(t, Arg(s))]
              /\ status' = [status EXCEPT ![t] = THR_READY]
              /\ counter' = [counter EXCEPT ![t] = DEFAULT_COUNTER]
    /\ Goto(s)
    /\ UNCHANGED <<cv, cur, holder, cpu, frameVars, intr, dataVars, fault>>

\* the assignments of mtxTest, cvTest and semTest before their thrCreates
TestInit(s) ==
    /\ At(s, "init")
    /\ CASE Arg(s) = "sem" ->
              /\ idx' = 0
              /\ count' = [x \in Sems |-> IF x = "s_emp" THEN NBUF ELSE 0]
              /\ UNCHANGED <<lk, mlock, g>>
         [] Arg(s) = "mtx" ->
              /\ mlock' = 0 /\ lk' = [lk EXCEPT !["mlk"] = 0] /\ g' = 23
              /\ UNCHANGED <<count, idx>>
         [] Arg(s) = "cv" ->
              /\ lk' = [lk EXCEPT !["gt"] = 0] /\ g' = 23
              /\ UNCHANGED <<mlock, count, idx>>
    /\ Goto(s)
    /\ UNCHANGED <<thrVars, switchVars, frameVars, intr, slot, fault>>


(***************************************************************************)
(* Spinlocks (concurrency.c).  spinlockLock is cli, then an xchg loop; a   *)
(* loop on a taken lock never ends on one CPU with IF clear, so the model  *)
(* has no step for it: that state is a hang (see NoSpinHang).              *)
(***************************************************************************)
SpinCli(s) ==
    /\ At(s, "cli")
    /\ intr' = FALSE
    /\ Goto(s)
    /\ UNCHANGED <<thrVars, switchVars, frameVars, dataVars, fault>>

SpinXchg(s) ==
    /\ At(s, "xchg")
    /\ lk[Arg(s)] = 0
    /\ lk' = [lk EXCEPT ![Arg(s)] = 1]
    /\ Goto(s)
    /\ UNCHANGED <<thrVars, switchVars, frameVars, intr, mlock, g, count,
                   idx, slot, fault>>

spinlockUnlock(s) ==
    /\ At(s, "unlock")
    /\ lk' = [lk EXCEPT ![Arg(s)] = 0]
    /\ intr' = TRUE
    /\ Goto(s)
    /\ UNCHANGED <<thrVars, switchVars, frameVars, mlock, g, count, idx,
                   slot, fault>>

(***************************************************************************)
(* Condition variables and the mutex (thread.c).                           *)
(***************************************************************************)

\* the sleepers on c that thrCondSignal/Broadcast look at: from slot 1
Sleepers(c) == {x \in Slots : x >= 1 /\ status[x] = THR_SLEEPING /\ cv[x] = c}

\* thrCondBroadcast: every sleeper on c becomes READY; cv is not cleared
Broadcast(c) ==
    [x \in Structs |-> IF x \in Sleepers(c) THEN THR_READY ELSE status[x]]

\* thrCondSignal: the first sleeper on c becomes READY
thrCondSignal(s) ==
    /\ At(s, "signal")
    /\ status' = IF Sleepers(Arg(s)) = {} THEN status
                 ELSE LET w == CHOOSE x \in Sleepers(Arg(s)) :
                                   \A y \in Sleepers(Arg(s)) : x <= y
                      IN  [status EXCEPT ![w] = THR_READY]
    /\ Goto(s)
    /\ UNCHANGED <<counter, cv, cur, switchVars, frameVars, intr, dataVars,
                   fault>>

\* thrCondWait: t = getCurThread(); t->cv = cv
CondWaitSetCv(s) ==
    /\ At(s, "cwcv")
    /\ tl' = [tl EXCEPT ![s] = cur]
    /\ cv' = [cv EXCEPT ![cur] = Arg(s)]
    /\ Goto(s)
    /\ UNCHANGED <<status, counter, cur, switchVars, ret, tsel, iv, local,
                   intr, dataVars, fault>>

\* thrCondWait: t->status = SLEEPING; thrSched() on this stack, a new
\* frame whose t is unset
CondWaitSleep(s) ==
    /\ At(s, "cwsleep")
    /\ status' = [status EXCEPT ![tl[s]] = THR_SLEEPING]
    /\ pc' = [pc EXCEPT ![s] = "sched"]
    /\ tsel' = [tsel EXCEPT ![s] = NoThread]
    /\ UNCHANGED <<counter, cv, cur, switchVars, ret, tl, iv, local, intr,
                   dataVars, fault>>

\* mutant: the while(m->lock == 1) test dropped
MutexTest_NoWait(s) ==
    /\ At(s, "mtest")
    /\ mlock' = 1 /\ Goto(s)
    /\ UNCHANGED <<thrVars, switchVars, frameVars, intr, lk, g, count, idx,
                   slot, fault>>

\* thrMutexLock: while(m->lock == 1) thrCondWait(...); m->lock = 1
MutexTest(s) ==
    /\ At(s, "mtest")
    /\ \/ mlock = 1 /\ GotoAlt(s) /\ UNCHANGED mlock
       \/ mlock # 1 /\ mlock' = 1 /\ Goto(s)
    /\ UNCHANGED <<thrVars, switchVars, frameVars, intr, lk, g, count, idx,
                   slot, fault>>

\* thrMutexUnlock: m->lock = 0; thrCondBroadcast(m)
MutexRelease(s) ==
    /\ At(s, "mclear")
    /\ mlock' = 0
    /\ status' = Broadcast(Arg(s))
    /\ Goto(s)
    /\ UNCHANGED <<counter, cv, cur, switchVars, frameVars, intr, lk, g,
                   count, idx, slot, fault>>

(***************************************************************************)
(* Semaphores (thread.c).                                                  *)
(***************************************************************************)
SemTest(s) ==
    /\ At(s, "semtest")
    /\ IF count[Arg(s)] <= 0 THEN GotoAlt(s) ELSE Goto(s)
    /\ UNCHANGED <<thrVars, switchVars, frameVars, intr, dataVars, fault>>

\* getCurThread()->status = SLEEPING, while the thread keeps running
SemSleep(s) ==
    /\ At(s, "semsleep")
    /\ status' = [status EXCEPT ![cur] = THR_SLEEPING]
    /\ Goto(s)
    /\ UNCHANGED <<counter, cv, cur, switchVars, frameVars, intr, dataVars,
                   fault>>

\* getCurThread()->cv = s
SemSetCv(s) ==
    /\ At(s, "semcv")
    /\ cv' = [cv EXCEPT ![cur] = Arg(s)]
    /\ Goto(s)
    /\ UNCHANGED <<status, counter, cur, switchVars, frameVars, intr,
                   dataVars, fault>>

\* the load of count-- / count++
SemLoad(s) ==
    /\ At(s, "semget")
    /\ local' = [local EXCEPT ![s] = count[Arg(s)]]
    /\ Goto(s)
    /\ UNCHANGED <<thrVars, switchVars, ret, tsel, tl, iv, intr, dataVars,
                   fault>>

\* the store of count-- / count++
SemStore(s) ==
    /\ \/ At(s, "semdec") /\ count' = [count EXCEPT ![Arg(s)] = local[s] - 1]
       \/ At(s, "seminc") /\ count' = [count EXCEPT ![Arg(s)] = local[s] + 1]
    /\ Goto(s)
    /\ UNCHANGED <<thrVars, switchVars, frameVars, intr, lk, mlock, g, idx,
                   slot, fault>>

\* thrSemUp's loop: every sleeper on s, from slot 0, READY and cv cleared
SemWake(s) ==
    /\ At(s, "semwake")
    /\ LET w == {x \in Slots : status[x] = THR_SLEEPING /\ cv[x] = Arg(s)}
       IN  /\ status' = [x \in Structs |-> IF x \in w THEN THR_READY
                                           ELSE status[x]]
           /\ cv' = [x \in Structs |-> IF x \in w THEN "none" ELSE cv[x]]
    /\ Goto(s)
    /\ UNCHANGED <<counter, cur, switchVars, frameVars, intr, dataVars,
                   fault>>

(***************************************************************************)
(* The test threads' own statements.                                       *)
(***************************************************************************)

\* for(i = 0; i < NITER; i++): the test, and the i++
LoopTest(s) ==
    /\ At(s, "loop")
    /\ IF iv[s] < NITER THEN Goto(s) ELSE GotoAlt(s)
    /\ UNCHANGED <<thrVars, switchVars, frameVars, intr, dataVars, fault>>

LoopInc(s) ==
    /\ At(s, "inc")
    /\ iv' = [iv EXCEPT ![s] = @ + 1]
    /\ Goto(s)
    /\ UNCHANGED <<thrVars, switchVars, ret, tsel, tl, local, intr,
                   dataVars, fault>>

\* mfunc: local = globalTestVar
ReadVar(s) ==
    /\ At(s, "read")
    /\ local' = [local EXCEPT ![s] = g]
    /\ Goto(s)
    /\ UNCHANGED <<thrVars, switchVars, ret, tsel, tl, iv, intr, dataVars,
                   fault>>

\* mfunc: local++; globalTestVar = local
WriteVar(s) ==
    /\ At(s, "write")
    /\ g' = local[s] + 1
    /\ Goto(s)
    /\ UNCHANGED <<thrVars, switchVars, frameVars, intr, lk, mlock, count,
                   idx, slot, fault>>

\* gfunc0: globalTestVar += 10 (under gtLock, IF clear)
AddTen(s) ==
    /\ At(s, "add10")
    /\ g' = g + 10
    /\ Goto(s)
    /\ UNCHANGED <<thrVars, switchVars, frameVars, intr, lk, mlock, count,
                   idx, slot, fault>>

\* gfunc1: while(globalTestVar == 23)
WaitTest(s) ==
    /\ At(s, "gtest")
    /\ IF g = 23 THEN GotoAlt(s) ELSE Goto(s)
    /\ UNCHANGED <<thrVars, switchVars, frameVars, intr, dataVars, fault>>

\* printf: spinlockLock(&cslLock) (cli, and an xchg that never spins: the
\* holder runs with IF clear and never switches), the output, then
\* spinlockUnlock(&cslLock), whose sti leaves IF set whatever it was
\* before, also inside gfunc1's gtLock
Printf(s) ==
    /\ At(s, "print")
    /\ intr' = TRUE
    /\ Goto(s)
    /\ UNCHANGED <<thrVars, switchVars, frameVars, dataVars, fault>>

\* an index outside slot[NBUF] is a write past the array
Store(i, v) ==
    IF i \in DOMAIN slot
    THEN slot' = [slot EXCEPT ![i] = v] /\ UNCHANGED fault
    ELSE fault' = "slot index out of range" /\ UNCHANGED slot

\* producer: slot[idx] = 1
Fill(s) ==
    /\ At(s, "fill")
    /\ Store(idx, 1)
    /\ Goto(s)
    /\ UNCHANGED <<thrVars, switchVars, frameVars, intr, lk, mlock, g, count,
                   idx>>

\* the load of idx++ (producer) and --idx (consumer)
IdxLoad(s) ==
    /\ At(s, "idxget")
    /\ local' = [local EXCEPT ![s] = idx]
    /\ Goto(s)
    /\ UNCHANGED <<thrVars, switchVars, ret, tsel, tl, iv, intr, dataVars,
                   fault>>

\* producer: the store of idx++
IdxInc(s) ==
    /\ At(s, "idxinc")
    /\ idx' = local[s] + 1
    /\ Goto(s)
    /\ UNCHANGED <<thrVars, switchVars, frameVars, intr, lk, mlock, g, count,
                   slot, fault>>

\* consumer: the store of --idx, then slot[idx] = 0
Empty(s) ==
    /\ At(s, "empty")
    /\ idx' = local[s] - 1
    /\ Store(local[s] - 1, 0)
    /\ Goto(s)
    /\ UNCHANGED <<thrVars, switchVars, frameVars, intr, lk, mlock, g, count>>

(***************************************************************************)
(* Properties.                                                             *)
(***************************************************************************)
Labels == DOMAIN Code \cup {"sched", "yret", "dead", "unborn"}

TypeOK ==
    /\ status \in [Structs -> {THR_UNUSED, THR_READY, THR_RUNNING,
                               THR_SLEEPING, THR_ZOMBIE, THR_STOP}]
    /\ counter \in [Structs -> 0 .. DEFAULT_COUNTER]
    /\ cv \in [Structs -> CVs]
    /\ cur \in Structs
    /\ holder \in [Stacks -> Structs \cup {NoThread}]
    /\ cpu \in Stacks
    /\ pc \in [Stacks -> Labels] /\ ret \in [Stacks -> Labels]
    /\ tsel \in [Stacks -> Slots \cup {NoThread}]
    /\ intr \in BOOLEAN
    /\ lk \in [Locks -> {0, 1}] /\ mlock \in {0, 1}

\* where a stack goes on when resumed: an interrupted one at its ret label
Resumes(s) == IF pc[s] = "yret" THEN ret[s] ELSE pc[s]

\* mfunc's labels from the moment thrMutexLock set gm.lock to the moment
\* thrMutexUnlock clears it
MutexHeld == {"mf_L_u", "mf_r", "mf_w", "mf_p", "mf_U_cli", "mf_U_x",
              "mf_U_c"}

\* thrMutexLock/thrMutexUnlock: no two stacks are ever between the lock and
\* the unlock of gm at once, whatever the timer, thrCondWait's restart of a
\* woken waiter and the broadcast do (a lost update of globalTestVar in
\* mfunc needs two holders)
MutexExclusive ==
    \A s1, s2 \in Stacks :
        s1 # s2 => ~(Resumes(s1) \in MutexHeld /\ Resumes(s2) \in MutexHeld)

\* thrSched sets thr_current before it switches, so whenever a thread's
\* own code runs on its stack, getCurThread() (used by thrCondWait and
\* thrSemDown) is that thread
CurrentIsRunning ==
    fault = "none" =>
        \A t \in Slots : cpu = t /\ pc[t] \in DOMAIN Code => cur = t

\* thrSched: every pass of the loop finds a READY thread or has one from
\* an earlier pass; otherwise it switches through the uninitialised t
SchedulerFindsThread == fault # "thrSched: t unset"

\* spinlockLock/thrSemDown: the CPU never loops, with IF clear, on a lock
\* word or a semaphore count that only another thread could change (on one
\* CPU with no timer interrupt, that loop never ends)
SpinHang ==
    /\ fault = "none" /\ ~intr
    /\ \/ Op(cpu) = "xchg" /\ lk[Arg(cpu)] = 1
       \/ Op(cpu) = "semtest" /\ count[Arg(cpu)] <= 0

NoSpinHang == ~SpinHang

\* thread.h: "thrsched: schedule threads, round robin": every thread that
\* is READY is eventually chosen by thrSched (status RUNNING), unless the
\* CPU has stopped in a fault or a hang
EveryReadyThreadRuns ==
    \A t \in Slots :
        status[t] = THR_READY
            ~> (status[t] = THR_RUNNING \/ fault # "none" \/ SpinHang)

\* thrSched/thrYeild: while a thread is READY with some of its time slice
\* left, the timer keeps taking the CPU from the running thread and
\* charging it a tick, so the scheduler eventually picks that thread
\* (status RUNNING), unless the CPU has stopped in a fault or a hang
SliceServed ==
    \A t \in Slots :
        (status[t] = THR_READY /\ counter[t] > 0)
            ~> (status[t] = THR_RUNNING \/ fault # "none" \/ SpinHang)

(***************************************************************************)
(* The system.                                                             *)
(***************************************************************************)
Step(s) ==
    \/ IntrReturn(s) \/ thrSched(s) \/ thrExit(s) \/ thrCreate(s)
    \/ TestInit(s)
    \/ SpinCli(s) \/ SpinXchg(s) \/ spinlockUnlock(s)
    \/ thrCondSignal(s) \/ CondWaitSetCv(s) \/ CondWaitSleep(s)
    \/ MutexTest(s) \/ MutexRelease(s)
    \/ SemTest(s) \/ SemSleep(s) \/ SemSetCv(s) \/ SemLoad(s) \/ SemStore(s)
    \/ SemWake(s)
    \/ LoopTest(s) \/ LoopInc(s) \/ ReadVar(s) \/ WriteVar(s) \/ AddTen(s)
    \/ WaitTest(s) \/ Fill(s) \/ IdxLoad(s) \/ IdxInc(s) \/ Empty(s)
    \/ Printf(s)

Next == thrYeild \/ \E s \in Stacks : Step(s)

Spec == Init /\ [][Next]_vars

\* The CPU always executes the next instruction of the stack it is on, and
\* the PIT raises IRQ0 periodically: the interrupt is taken whenever IF is
\* set when it arrives, and IF is set and cleared again by spinlockLock and
\* spinlockUnlock, so the tick is only intermittently enabled (strong
\* fairness).  Keys, calls and the tests' choice are not part of it.
\* The PIT period is far longer than thrYeild, thrSched and the iret, so
\* between two ticks the interrupted code runs at least one instruction: a
\* step of a thread's own code, which the tick keeps disabling, is taken
\* whenever it is enabled again and again.
ThreadCodeStep == \E s \in Stacks : pc[s] \in DOMAIN Code /\ Step(s)

FairSpec ==
    /\ Spec
    /\ WF_vars(\E s \in Stacks : Step(s))
    /\ SF_vars(thrYeild)
    /\ SF_vars(ThreadCodeStep)

=============================================================================
