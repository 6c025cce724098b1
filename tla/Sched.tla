------------------------------- MODULE Sched -------------------------------
(***************************************************************************)
(* The process table and the scheduler of DekOS (programs/scheduler.c),    *)
(* the system calls that manage processes (isr/system.c), the timer and    *)
(* breakpoint entries that switch contexts (programs/transfer.s,           *)
(* isr/exceptions.s) and the kernel's own loop, which reaps dead           *)
(* processes and powers the machine off (arch/x86/init.c).                 *)
(*                                                                         *)
(* A register set is abstracted to the THREAD it belongs to: which         *)
(* program's code, on which stack, continues when it is loaded.  `running' *)
(* is the register set in the CPU; procs[i].ctx is the copy in slot i.     *)
(* There is one CPU.  A system call runs with interrupts off from its      *)
(* first instruction to its iret, so it is one action; the kernel's loop   *)
(* runs with interrupts on and is cut where a tick can fall.               *)
(***************************************************************************)
EXTENDS Integers

CONSTANTS
  MAX_PROCS,   \* number of process slots
  MaxThreads,  \* bound: programs ever loaded, the three of the boot included
  Calls        \* the system calls the programs of this system make

CallNames == {"EXIT", "YIELD", "YIELD_TO", "KILL", "KILL_SELF", "CREATE",
              "RESUME", "SUSPEND", "BREAKPOINT"}

ASSUME SchedAssumption ==
  /\ MAX_PROCS \in Nat /\ MAX_PROCS >= 3
  /\ MaxThreads \in Nat /\ MaxThreads >= 3
  /\ Calls \subseteq CallNames

VARIABLES
  procs,    \* processes[]: the process table
  current,  \* current_pid.num (its valid bit is always set)
  running,  \* the thread whose registers are in the CPU
  kpc,      \* where the kernel's loop is
  kidx,     \* i, the slot the kernel's loop is at
  mem,      \* programs whose image and stack are allocated on the heap
  argvs,    \* programs whose copied argument vector is allocated
  loaded    \* number of programs loaded so far: the next thread's identity

vars == <<procs, current, running, kpc, kidx, mem, argvs, loaded>>

-----------------------------------------------------------------------------
Slots   == 0 .. MAX_PROCS - 1
Threads == 0 .. MaxThreads - 1

None == -1   \* a null pointer, or a zeroed register set
Spin == -2   \* EXIT's endless loop, entered with interrupts on

KERNEL == 0  \* kmain: slot 0, "Adam"
SHELL  == 1  \* the program kmain loads
WM     == 2  \* the window manager: code of the kernel run as a process

(* The images of these two are not on the heap. *)
Static == {KERNEL, WM}

Contexts == Threads \cup {None, Spin}

Process == [valid : BOOLEAN, active : BOOLEAN, delete : BOOLEAN,
            ctx   : Contexts,
            image : Threads \cup {None},
            argv  : Threads \cup {None}]

(* A slot after memset(&processes[i], 0, sizeof(schedProcess_t)). *)
Empty == [valid |-> FALSE, active |-> FALSE, delete |-> FALSE,
          ctx |-> None, image |-> None, argv |-> None]

(* A slot as schedCreateProcess fills it for thread t. *)
Launched(t, argv) ==
  [valid |-> TRUE, active |-> TRUE, delete |-> FALSE,
   ctx |-> t, image |-> t, argv |-> argv]

(* A slot schedKillProcess has killed: the image and the stack stay until  *)
(* the kernel's loop deletes them, the argument vector is freed.           *)
Dead(p) ==
  [valid |-> FALSE, active |-> FALSE, delete |-> TRUE,
   ctx |-> p.ctx, image |-> p.image, argv |-> None]

Runnable(table, i) == table[i].valid /\ table[i].active

(* The machine as kmain hands it to the scheduler with its sti. *)
Init ==
  /\ procs = [i \in Slots |-> CASE i = KERNEL -> Launched(KERNEL, None)
                                [] i = SHELL  -> Launched(SHELL, None)
                                [] i = WM     -> Launched(WM, WM)
                                [] OTHER      -> Empty]
  /\ current = KERNEL
  /\ running = KERNEL
  /\ kpc = "loop"
  /\ kidx = 0
  /\ mem = {SHELL}
  /\ argvs = {WM}
  /\ loaded = 3

-----------------------------------------------------------------------------
(* Choosing and entering a context.                                        *)

(* How far schedNextContext walks from slot c before it looks at slot i:   *)
(* it starts at the slot after c and comes to c itself last.               *)
Walk(c, i) == (i - c - 1) % MAX_PROCS

(* Mutant of IsNext: the next slot, without looking at valid. *)
NextSlotAnyway(table, c, n) == n = (c + 1) % MAX_PROCS

(* Mutant of IsNext: the search starts at slot 0 every time. *)
FirstRunnable(table, c, n) ==
  /\ Runnable(table, n)
  /\ \A m \in Slots : Runnable(table, m) => n <= m

(* Where schedNextContext stops.  It never looks at `delete'.              *)
IsNext(table, c, n) ==
  /\ Runnable(table, n)
  /\ \A m \in Slots : Runnable(table, m) => Walk(c, n) <= Walk(c, m)

(* schedSaveContext: the CPU's registers go to the slot current_pid names. *)
Saved == [procs EXCEPT ![current].ctx = running]

(* Mutant of SwitchFrom: the old registers are saved after current_pid has *)
(* moved on.                                                               *)
SaveAfterNext(table) ==
  \E n \in Slots : /\ IsNext(table, current, n)
                  /\ current' = n
                  /\ running' = running
                  /\ procs' = [table EXCEPT ![n].ctx = running]

(* schedNextContext, then schedLoadContext and the jump into it. *)
SwitchFrom(table) ==
  /\ procs' = table
  /\ \E n \in Slots : /\ IsNext(table, current, n)
                      /\ current' = n
                      /\ running' = table[n].ctx

(* The timer interrupt. *)
Tick ==
  /\ kpc # "halted"
  /\ SwitchFrom(Saved)
  /\ UNCHANGED <<kpc, kidx, mem, argvs, loaded>>

-----------------------------------------------------------------------------
(* System calls.  Only loaded programs make them.                          *)

Caller(call) ==
  /\ call \in Calls
  /\ kpc # "halted"
  /\ running \in Threads \ Static

(* Mutant of KillProcess: the kernel's slot is not refused. *)
KillAny(i) ==
  /\ procs' = [Saved EXCEPT ![i] = Dead(Saved[i])]
  /\ argvs' = argvs \ {procs[i].argv}

(* schedKillProcess(i), on the table the call's entry saved into.  The     *)
(* kernel's slot is refused; a slot that is not in use is not.             *)
KillProcess(i) ==
  IF i = KERNEL
    THEN procs' = Saved /\ UNCHANGED argvs
    ELSE /\ procs' = [Saved EXCEPT ![i] = Dead(Saved[i])]
         /\ argvs' = argvs \ {procs[i].argv}

(* EXIT: kill the process current_pid names, then spin until the timer. *)
Exit ==
  /\ Caller("EXIT")
  /\ KillProcess(current)
  /\ running' = Spin
  /\ UNCHANGED <<current, kpc, kidx, mem, loaded>>

(* YIELD without a pid. *)
Yield ==
  /\ Caller("YIELD")
  /\ SwitchFrom(Saved)
  /\ UNCHANGED <<kpc, kidx, mem, argvs, loaded>>

(* YIELD with pid n.  schedSwitch answers FALSE when it has switched: the  *)
(* handler then returns to its caller, and only a refused switch reloads a *)
(* context, the caller's own.                                              *)
YieldTo(n) ==
  /\ Caller("YIELD_TO")
  /\ n # KERNEL
  /\ procs' = Saved
  /\ current' = IF Runnable(procs, n) /\ ~procs[n].delete THEN n ELSE current
  /\ UNCHANGED <<running, kpc, kidx, mem, argvs, loaded>>

(* KILL_PROCESS.  A process that kills itself this way goes on running     *)
(* until the next switch.                                                  *)
Kill(i) ==
  /\ Caller(IF i = current THEN "KILL_SELF" ELSE "KILL")
  /\ KillProcess(i)
  /\ UNCHANGED <<current, running, kpc, kidx, mem, loaded>>

(* The saved-into table with the active flag of slot i set to b. *)
WithActive(i, b) == [Saved EXCEPT ![i].active = b]

(* RESUME_PROCESS and SUSPEND_PROCESS. *)
SetActive(i, wanted) ==
  /\ procs' = IF i # KERNEL /\ procs[i].valid /\ procs[i].active # wanted
                THEN WithActive(i, wanted)
                ELSE Saved
  /\ UNCHANGED <<current, running, kpc, kidx, mem, argvs, loaded>>

Resume(i)  == Caller("RESUME")  /\ SetActive(i, TRUE)
Suspend(i) == Caller("SUSPEND") /\ SetActive(i, FALSE)

(* int3: the process is stopped where it is and the next one entered. *)
Breakpoint ==
  /\ Caller("BREAKPOINT")
  /\ SwitchFrom(WithActive(current, FALSE))
  /\ UNCHANGED <<kpc, kidx, mem, argvs, loaded>>

(* Mutant of IsFirstInvalid: a suspended process counts as a free slot. *)
FirstInactive(i) ==
  /\ ~procs[i].active
  /\ \A j \in Slots : ~procs[j].active => i <= j

(* schedFindInvalidProcess: the first slot that is not valid, whether or   *)
(* not it still waits to be reaped.                                        *)
IsFirstInvalid(i) ==
  /\ ~procs[i].valid
  /\ \A j \in Slots : ~procs[j].valid => i <= j

(* CREATE_PROCESS of a well-formed program.  elfLoadProgram allocates the  *)
(* image first and does not free it when no slot is found or the user may  *)
(* not launch.  The old contents of the slot, a pending deletion included, *)
(* are overwritten.                                                        *)
LoadImage ==
  /\ Caller("CREATE")
  /\ loaded < MaxThreads
  /\ loaded' = loaded + 1
  /\ mem' = mem \cup {loaded}
  /\ UNCHANGED <<current, running, kpc, kidx>>

Create(argc) ==
  /\ LoadImage
  /\ \E i \in Slots :
       /\ IsFirstInvalid(i)
       /\ i > 0
       /\ procs' = [Saved EXCEPT
                      ![i] = Launched(loaded, IF argc > 0 THEN loaded ELSE None)]
  /\ argvs' = IF argc > 0 THEN argvs \cup {loaded} ELSE argvs

(* The table is full, or the caller's user may not launch programs. *)
CreateRefused ==
  /\ LoadImage
  /\ procs' = Saved
  /\ UNCHANGED argvs

UserCall ==
  \/ Exit \/ Yield \/ Breakpoint \/ CreateRefused
  \/ \E argc \in {0, 1} : Create(argc)
  \/ \E i \in Slots : YieldTo(i) \/ Kill(i) \/ Resume(i) \/ Suspend(i)

-----------------------------------------------------------------------------
(* The kernel's loop, interrupts on but for the deletion itself.           *)

KernelAt(pc) == running = KERNEL /\ kpc = pc

(* Mutant of KernelPoll: the shell is not looked at. *)
PollNoShell ==
  /\ KernelAt("loop")
  /\ kpc' = "scan"
  /\ kidx' = 0
  /\ UNCHANGED <<procs, current, running, mem, argvs, loaded>>

(* The cleanup interval has passed.  With the shell gone the kernel powers *)
(* off, otherwise it scans the table.                                      *)
KernelPoll ==
  /\ KernelAt("loop")
  /\ kpc' = IF Runnable(procs, SHELL) THEN "scan" ELSE "halted"
  /\ kidx' = 0
  /\ UNCHANGED <<procs, current, running, mem, argvs, loaded>>

(* Mutant of KernelScan: the loop stops one slot early. *)
ScanShort ==
  /\ KernelAt("scan")
  /\ IF kidx = MAX_PROCS - 1
       THEN kpc' = "loop" /\ UNCHANGED kidx
       ELSE IF procs[kidx].delete
              THEN kpc' = "reap" /\ UNCHANGED kidx
              ELSE kidx' = kidx + 1 /\ UNCHANGED kpc
  /\ UNCHANGED <<procs, current, running, mem, argvs, loaded>>

(* if (processes[i].delete): read before the cli. *)
KernelScan ==
  /\ KernelAt("scan")
  /\ IF kidx = MAX_PROCS
       THEN kpc' = "loop" /\ UNCHANGED kidx
       ELSE IF procs[kidx].delete
              THEN kpc' = "reap" /\ UNCHANGED kidx
              ELSE kidx' = kidx + 1 /\ UNCHANGED kpc
  /\ UNCHANGED <<procs, current, running, mem, argvs, loaded>>

(* Mutant of KernelReap: the slot is marked reaped but not zeroed. *)
ReapKeepsSlot ==
  /\ KernelAt("reap")
  /\ procs' = [procs EXCEPT ![kidx].delete = FALSE]
  /\ mem' = mem \ {procs[kidx].image}
  /\ kidx' = kidx + 1
  /\ kpc' = "scan"
  /\ UNCHANGED <<current, running, argvs, loaded>>

(* cli(); deleteTask(i); sti(): free the image, zero the slot.  An         *)
(* argument vector still in the slot is dropped, not freed.                *)
KernelReap ==
  /\ KernelAt("reap")
  /\ procs' = [procs EXCEPT ![kidx] = Empty]
  /\ mem' = mem \ {procs[kidx].image}
  /\ kidx' = kidx + 1
  /\ kpc' = "scan"
  /\ UNCHANGED <<current, running, argvs, loaded>>

KernelStep == KernelPoll \/ KernelScan \/ KernelReap

Next == Tick \/ UserCall \/ KernelStep

Spec == Init /\ [][Next]_vars

(* The PIT keeps interrupting, and a kernel thread that is given the CPU   *)
(* again and again gets some of its loop done.  Programs promise nothing.  *)
Fairness == WF_vars(Tick) /\ SF_vars(KernelStep)

FairSpec == Spec /\ Fairness

-----------------------------------------------------------------------------
(* Properties.                                                             *)

(* Every variable has its type. *)
TypeOK ==
  /\ procs \in [Slots -> Process]
  /\ current \in Slots
  /\ running \in Threads \cup {Spin}
  /\ kpc \in {"loop", "scan", "reap", "halted"}
  /\ kidx \in 0 .. MAX_PROCS
  /\ mem \subseteq Threads
  /\ argvs \subseteq Threads
  /\ loaded \in 3 .. MaxThreads

(* Whatever programs call, slot 0 stays runnable, so the while(1) of       *)
(* schedNextContext always ends; and the kernel's registers are in slot 0  *)
(* and nowhere else, so no program's call, directed yields included, can   *)
(* make the kernel's loop run under another pid or another pid as kernel.  *)
KernelSlot ==
  /\ Runnable(procs, KERNEL) /\ ~procs[KERNEL].delete
  /\ procs[KERNEL].ctx = KERNEL
  /\ running = KERNEL <=> current = KERNEL
  /\ \A i \in Slots \ {KERNEL} : procs[i].ctx # KERNEL

(* An image a slot names is allocated and is named by no other slot: the   *)
(* reaper frees each image at most once, slot reuse before reaping and     *)
(* reaping of a slot reused under the kernel's feet included.              *)
ImagesOwned ==
  \A i \in Slots : procs[i].image \notin Static \cup {None} =>
    /\ procs[i].image \in mem
    /\ \A j \in Slots \ {i} : procs[j].image # procs[i].image

(* Of programs that neither yield to a pid nor kill themselves with        *)
(* KILL_PROCESS: each live process's registers are its own, in the CPU     *)
(* when it is current and in its slot when it is not.                      *)
ContextIsolation ==
  \A i \in Slots : procs[i].valid =>
    procs[i].image = IF i = current THEN running ELSE procs[i].ctx

(* Of the same programs: what runs, and what may be switched to, has its   *)
(* image and stack still allocated.                                        *)
NoUseAfterFree ==
  /\ running \notin Static \cup {Spin} => running \in mem
  /\ \A i \in Slots : /\ Runnable(procs, i)
                       /\ i # current
                       /\ procs[i].ctx \notin Static
                      => procs[i].ctx \in mem

(* A pid that stays valid keeps naming the same process, and a slot that   *)
(* becomes valid names a process that never was in the table before:       *)
(* creation overwrites no live process and nothing dead comes back.        *)
SlotIdentity ==
  [][\A i \in Slots : procs'[i].valid =>
       procs'[i].image = IF procs[i].valid THEN procs[i].image ELSE loaded]_vars

(* "yield to the given pid": when YIELD n moves current_pid, the registers *)
(* in the CPU become those of the process in slot n.                       *)
YieldRunsTarget ==
  [][\A n \in Slots \ {current} :
       YieldTo(n) /\ current' = n => running' = procs[n].ctx]_vars

(* Round robin: a process that may run gets the CPU.                       *)
GetsTheCPU ==
  \A i \in Slots : Runnable(procs, i) ~> \/ current = i
                                       \/ ~Runnable(procs, i)
                                       \/ kpc = "halted"

(* A dead process's slot is reaped or taken over.                          *)
Reclaimed ==
  \A i \in Slots : procs[i].delete ~> ~procs[i].delete \/ kpc = "halted"

(* When the shell is gone for good and its slot is not reused, the machine *)
(* is powered off.                                                         *)
PowersOff == (<>[]~Runnable(procs, SHELL)) => <>(kpc = "halted")
=============================================================================
