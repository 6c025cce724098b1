---------------------------- MODULE SchedProofs ----------------------------
(***************************************************************************)
(* Proofs about Sched for every size of the process table, every number of *)
(* programs loaded and every set of system calls they make.                *)
(***************************************************************************)
EXTENDS Sched, TLAPS

(***************************************************************************)
(* The strengthening KernelSlot needs to be inductive: a valid slot always *)
(* holds a real register set, EXIT's loop is only ever saved into a dead   *)
(* slot, and the reaper never stands at the kernel's slot.                 *)
(***************************************************************************)
TableInv ==
  /\ KernelSlot
  /\ \A i \in Slots : procs[i].valid => procs[i].ctx \in Threads
  /\ running = Spin => ~procs[current].valid
  /\ kpc = "reap" => kidx \in Slots \ {KERNEL}

(* A table that differs from procs in at most the fields valid, active,    *)
(* delete and argv of one slot, besides the registers saved at entry.      *)
LEMMA SavedFacts ==
  ASSUME TypeOK
  PROVE  /\ Saved \in [Slots -> Process]
         /\ \A j \in Slots :
              /\ Saved[j].valid  = procs[j].valid
              /\ Saved[j].active = procs[j].active
              /\ Saved[j].delete = procs[j].delete
              /\ Saved[j].image  = procs[j].image
              /\ Saved[j].argv   = procs[j].argv
              /\ Saved[j].ctx = IF j = current THEN running ELSE procs[j].ctx
BY DEF TypeOK, Saved, Process, Contexts

(* What the kernel slot, a runnable slot and the running thread need to    *)
(* know of the constants.                                                  *)
LEMMA SlotFacts ==
  /\ KERNEL \in Slots /\ SHELL \in Slots /\ WM \in Slots
  /\ KERNEL \in Threads /\ SHELL \in Threads /\ WM \in Threads
  /\ Spin \notin Threads /\ None \notin Threads
  /\ \A i \in Slots : i \in Int
BY SchedAssumption DEF Slots, Threads, KERNEL, SHELL, WM, Spin, None

(* A kill changes the one slot and leaves its image alone.                 *)
LEMMA KilledFacts ==
  ASSUME TypeOK, NEW i \in Slots, KillProcess(i)
  PROVE  /\ procs' \in [Slots -> Process]
         /\ argvs' \subseteq Threads
         /\ \A j \in Slots :
              /\ procs'[j].image = procs[j].image
              /\ procs'[j].ctx = Saved[j].ctx
              /\ (j = i /\ i # KERNEL) => ~procs'[j].valid /\ procs'[j].delete
              /\ (j # i \/ i = KERNEL) =>
                   /\ procs'[j].valid  = procs[j].valid
                   /\ procs'[j].active = procs[j].active
                   /\ procs'[j].delete = procs[j].delete
<1>1. CASE i = KERNEL
  BY <1>1, SavedFacts DEF KillProcess, TypeOK
<1>2. CASE i # KERNEL
  <2>1. /\ procs' = [Saved EXCEPT ![i] = Dead(Saved[i])]
        /\ argvs' = argvs \ {procs[i].argv}
    BY <1>2 DEF KillProcess
  <2>2. Saved \in [Slots -> Process]
    BY SavedFacts
  <2>3. Dead(Saved[i]) \in Process
    BY <2>2 DEF Dead, Process
  <2>4. procs' \in [Slots -> Process] /\ argvs' \subseteq Threads
    BY <2>1, <2>2, <2>3 DEF TypeOK
  <2>5. ASSUME NEW j \in Slots, j # i
        PROVE  procs'[j] = Saved[j]
    BY <2>1, <2>2, <2>5
  <2>6. procs'[i] = Dead(Saved[i])
    BY <2>1, <2>2
  <2>7. /\ procs'[i].image = Saved[i].image
        /\ procs'[i].ctx = Saved[i].ctx
        /\ ~procs'[i].valid /\ procs'[i].delete
    BY <2>6 DEF Dead
  <2>8. QED
    BY <1>2, <2>4, <2>5, <2>7, SavedFacts
<1>3. QED
  BY <1>1, <1>2

(* Entering a context: the slot chosen may run and its registers are loaded. *)
LEMMA SwitchFacts ==
  ASSUME NEW table \in [Slots -> Process], SwitchFrom(table),
         \A i \in Slots : table[i].valid => table[i].ctx \in Threads
  PROVE  /\ procs' = table
         /\ current' \in Slots
         /\ running' = table[current'].ctx
         /\ running' \in Threads
         /\ Runnable(table, current')
BY DEF SwitchFrom, IsNext, Runnable

(* Changing one active flag leaves the rest of the table alone.            *)
LEMMA StoppedFacts ==
  ASSUME TypeOK, NEW i \in Slots, NEW b \in BOOLEAN
  PROVE  /\ WithActive(i, b) \in [Slots -> Process]
         /\ \A j \in Slots :
              /\ WithActive(i, b)[j].valid  = procs[j].valid
              /\ WithActive(i, b)[j].delete = procs[j].delete
              /\ WithActive(i, b)[j].image  = procs[j].image
              /\ WithActive(i, b)[j].ctx    = Saved[j].ctx
              /\ j # i => WithActive(i, b)[j].active = procs[j].active
<1>1. Saved \in [Slots -> Process]
  BY SavedFacts
<1>2. WithActive(i, b) \in [Slots -> Process]
  BY <1>1 DEF Process, WithActive
<1>3. ASSUME NEW j \in Slots
      PROVE  /\ WithActive(i, b)[j].valid  = Saved[j].valid
             /\ WithActive(i, b)[j].delete = Saved[j].delete
             /\ WithActive(i, b)[j].image  = Saved[j].image
             /\ WithActive(i, b)[j].ctx    = Saved[j].ctx
             /\ j # i => WithActive(i, b)[j].active = Saved[j].active
  BY <1>1 DEF Process, WithActive
<1>4. QED
  BY <1>2, <1>3, SavedFacts

(* Creation fills one slot that was not valid, never the kernel's.         *)
LEMMA CreateFacts ==
  ASSUME TypeOK, NEW argc \in {0, 1}, Create(argc)
  PROVE  /\ procs' \in [Slots -> Process]
         /\ argvs' \subseteq Threads
         /\ \E i \in Slots \ {KERNEL} :
              /\ ~procs[i].valid
              /\ procs'[i].valid /\ procs'[i].active /\ ~procs'[i].delete
              /\ procs'[i].ctx = loaded /\ procs'[i].image = loaded
              /\ \A j \in Slots \ {i} : procs'[j] = Saved[j]
<1> DEFINE argv == IF argc > 0 THEN loaded ELSE None
<1>1. PICK i \in Slots : /\ IsFirstInvalid(i)
                        /\ i > 0
                        /\ procs' = [Saved EXCEPT ![i] = Launched(loaded, argv)]
  BY DEF Create
<1>2. loaded \in Threads
  BY SchedAssumption DEF Create, LoadImage, TypeOK, Threads
<1>3. Saved \in [Slots -> Process]
  BY SavedFacts
<1>4. Launched(loaded, argv) \in Process
  BY <1>2 DEF Launched, Process, Contexts
<1>5. procs' \in [Slots -> Process]
  BY <1>1, <1>3, <1>4
<1>6. argvs' \subseteq Threads
  BY <1>2 DEF Create, TypeOK
<1>7. procs'[i] = Launched(loaded, argv) /\ i # KERNEL /\ ~procs[i].valid
  BY <1>1, <1>3 DEF KERNEL, IsFirstInvalid
<1>8. \A j \in Slots \ {i} : procs'[j] = Saved[j]
  BY <1>1, <1>3
<1>9. QED
  BY <1>5, <1>6, <1>7, <1>8 DEF Launched

-----------------------------------------------------------------------------
(* Type correctness and the kernel's slot.                                 *)

LEMMA InitTable == Init => TypeOK /\ TableInv
<1> SUFFICES ASSUME Init PROVE TypeOK /\ TableInv
  OBVIOUS
<1>1. /\ Launched(KERNEL, None) \in Process
      /\ Launched(SHELL, None) \in Process
      /\ Launched(WM, WM) \in Process
      /\ Empty \in Process
  BY SlotFacts DEF Launched, Empty, Process, Contexts
<1>2. procs \in [Slots -> Process]
  BY <1>1, SlotFacts DEF Init
<1>3. TypeOK
  BY <1>2, SlotFacts, SchedAssumption DEF Init, TypeOK
<1>4. \A i \in Slots :
        /\ i = KERNEL => procs[i] = Launched(KERNEL, None)
        /\ i # KERNEL /\ procs[i].valid => procs[i].ctx \in {SHELL, WM}
        /\ i # KERNEL => procs[i].ctx # KERNEL
  BY DEF Init, Launched, Empty, KERNEL, SHELL, WM, None
<1>5. TableInv
  BY <1>4, SlotFacts
     DEF Init, TableInv, KernelSlot, Runnable, Launched, KERNEL, SHELL, WM, Spin
<1>6. QED
  BY <1>3, <1>5

LEMMA NextTable == TypeOK /\ TableInv /\ [Next]_vars => (TypeOK /\ TableInv)'
<1> SUFFICES ASSUME TypeOK, TableInv, [Next]_vars
             PROVE  (TypeOK /\ TableInv)'
  OBVIOUS
<1> USE SlotFacts
<1>1. \A i \in Slots : procs[i].valid => Saved[i].ctx \in Threads
  BY SavedFacts DEF TypeOK, TableInv
<1>2. /\ Saved[KERNEL].ctx = KERNEL
      /\ \A i \in Slots \ {KERNEL} : Saved[i].ctx # KERNEL
  BY SavedFacts DEF TypeOK, TableInv, KernelSlot
<1>3. ASSUME NEW table \in [Slots -> Process], SwitchFrom(table),
             \A i \in Slots : /\ table[i].valid = procs[i].valid
                              /\ table[i].delete = procs[i].delete
                              /\ table[i].ctx = Saved[i].ctx,
             table[KERNEL].active,
             UNCHANGED <<kpc, kidx, mem, argvs, loaded>>
      PROVE  (TypeOK /\ TableInv)'
  <2>1. /\ procs' = table
        /\ current' \in Slots
        /\ running' = table[current'].ctx
        /\ running' \in Threads
    BY <1>1, <1>3, SwitchFacts
  <2>2. TypeOK'
    BY <2>1, <1>3 DEF TypeOK
  <2>3. KernelSlot'
    BY <2>1, <1>2, <1>3 DEF TableInv, KernelSlot, Runnable
  <2>4. QED
    BY <2>1, <2>2, <2>3, <1>1, <1>3 DEF TableInv
<1>4. CASE Tick
  BY <1>3, <1>4, SavedFacts DEF Tick, TableInv, KernelSlot, Runnable
<1>5. CASE Yield
  BY <1>3, <1>5, SavedFacts DEF Yield, TableInv, KernelSlot, Runnable
<1>6. ASSUME \E call : Caller(call)
      PROVE  current # KERNEL /\ running \in Threads /\ running # KERNEL
  BY <1>6 DEF Caller, Static, TableInv, KernelSlot
<1>0. ASSUME NEW i \in Slots \ {KERNEL}, NEW b \in BOOLEAN
      PROVE  /\ WithActive(i, b) \in [Slots -> Process]
             /\ WithActive(i, b)[KERNEL].active
             /\ \A j \in Slots :
                  /\ WithActive(i, b)[j].valid = procs[j].valid
                  /\ WithActive(i, b)[j].delete = procs[j].delete
                  /\ WithActive(i, b)[j].ctx = Saved[j].ctx
  BY <1>0, StoppedFacts DEF TableInv, KernelSlot, Runnable
<1>7. CASE Breakpoint
  <2>1. current \in Slots \ {KERNEL}
    BY <1>6, <1>7 DEF Breakpoint, TypeOK
  <2>2. /\ WithActive(current, FALSE) \in [Slots -> Process]
        /\ WithActive(current, FALSE)[KERNEL].active
        /\ \A i \in Slots :
             /\ WithActive(current, FALSE)[i].valid = procs[i].valid
             /\ WithActive(current, FALSE)[i].delete = procs[i].delete
             /\ WithActive(current, FALSE)[i].ctx = Saved[i].ctx
    BY <1>0, <2>1
  <2>3. /\ SwitchFrom(WithActive(current, FALSE))
        /\ UNCHANGED <<kpc, kidx, mem, argvs, loaded>>
    BY <1>7 DEF Breakpoint
  <2>4. QED
    BY <1>3, <2>2, <2>3
<1>8. ASSUME NEW i \in Slots, KillProcess(i), \E call : Caller(call),
             running' \in {running, Spin},
             running' = Spin => i = current,
             UNCHANGED <<current, kpc, kidx, mem, loaded>>
      PROVE  (TypeOK /\ TableInv)'
  <2>1. current # KERNEL /\ running \in Threads /\ running # KERNEL
    BY <1>6, <1>8
  <2>2. TypeOK'
    BY <1>8, KilledFacts DEF TypeOK
  <2>3. KernelSlot'
    BY <1>2, <1>8, <2>1, KilledFacts DEF TableInv, KernelSlot, Runnable
  <2>4. \A j \in Slots : procs'[j].valid => procs'[j].ctx \in Threads
    BY <1>1, <1>8, KilledFacts
  <2>5. running' = Spin => ~procs'[current'].valid
    BY <1>8, <2>1, KilledFacts DEF TypeOK
  <2>6. QED
    BY <1>8, <2>2, <2>3, <2>4, <2>5 DEF TableInv
<1>9. CASE Exit
  BY <1>8, <1>9 DEF Exit, TypeOK
<1>10. CASE \E i \in Slots : Kill(i)
  <2>1. PICK i \in Slots : Kill(i)
    BY <1>10
  <2>2. running # Spin
    BY <2>1 DEF Kill, Caller
  <2>3. QED
    BY <1>8, <2>1, <2>2 DEF Kill
<1>11. CASE \E n \in Slots : YieldTo(n)
  <2>1. PICK n \in Slots : YieldTo(n)
    BY <1>11
  <2>2. running \in Threads /\ running # KERNEL /\ current # KERNEL
    BY <1>6, <2>1 DEF YieldTo
  <2>3. /\ procs' = Saved
        /\ current' \in Slots \ {KERNEL}
        /\ UNCHANGED <<running, kpc, kidx, mem, argvs, loaded>>
    BY <2>1, <2>2 DEF YieldTo, TypeOK
  <2>4. TypeOK'
    BY <2>3, SavedFacts DEF TypeOK
  <2>5. KernelSlot'
    BY <2>2, <2>3, <1>2, SavedFacts DEF TableInv, KernelSlot, Runnable
  <2>6. QED
    BY <2>2, <2>3, <2>4, <2>5, <1>1, SavedFacts DEF TableInv
<1>12. CASE \E i \in Slots : Resume(i) \/ Suspend(i)
  <2>1. PICK i \in Slots, b \in BOOLEAN :
          SetActive(i, b) /\ \E call : Caller(call)
    BY <1>12 DEF Resume, Suspend
  <2>0. procs' = Saved \/ (i # KERNEL /\ procs' = WithActive(i, b))
    BY <2>1 DEF SetActive
  <2>2. /\ procs' \in [Slots -> Process]
        /\ procs'[KERNEL].active
        /\ \A j \in Slots : /\ procs'[j].valid = procs[j].valid
                             /\ procs'[j].delete = procs[j].delete
                             /\ procs'[j].ctx = Saved[j].ctx
    BY <1>0, <2>0, SavedFacts DEF TableInv, KernelSlot, Runnable
  <2>3. running \in Threads /\ running # KERNEL
        /\ UNCHANGED <<current, running, kpc, kidx, mem, argvs, loaded>>
    BY <1>6, <2>1 DEF SetActive
  <2>4. TypeOK'
    BY <2>2, <2>3 DEF TypeOK
  <2>5. KernelSlot'
    BY <1>2, <2>2, <2>3 DEF TableInv, KernelSlot, Runnable
  <2>6. QED
    BY <1>1, <2>2, <2>3, <2>4, <2>5 DEF TableInv
<1>13. ASSUME LoadImage
       PROVE  /\ running \in Threads /\ running # KERNEL
              /\ loaded \in Threads /\ loaded # KERNEL
              /\ loaded' \in 3 .. MaxThreads
              /\ mem' \subseteq Threads
              /\ UNCHANGED <<current, running, kpc, kidx>>
  BY <1>6, <1>13, SchedAssumption DEF LoadImage, TypeOK, Threads, KERNEL
<1>14. CASE CreateRefused
  <2>1. procs' = Saved /\ UNCHANGED argvs /\ LoadImage
    BY <1>14 DEF CreateRefused
  <2>2. TypeOK'
    BY <1>13, <2>1, SavedFacts DEF TypeOK
  <2>3. KernelSlot'
    BY <1>2, <1>13, <2>1, SavedFacts DEF TableInv, KernelSlot, Runnable
  <2>4. QED
    BY <1>1, <1>13, <2>1, <2>2, <2>3, SavedFacts DEF TableInv
<1>15. CASE \E argc \in {0, 1} : Create(argc)
  <2>1. PICK argc \in {0, 1} : Create(argc)
    BY <1>15
  <2>2. LoadImage
    BY <2>1 DEF Create
  <2>3. PICK i \in Slots \ {KERNEL} :
          /\ procs' \in [Slots -> Process]
          /\ argvs' \subseteq Threads
          /\ ~procs[i].valid
          /\ procs'[i].valid /\ procs'[i].active /\ ~procs'[i].delete
          /\ procs'[i].ctx = loaded
          /\ \A j \in Slots \ {i} : procs'[j] = Saved[j]
    BY <2>1, CreateFacts
  <2>4. TypeOK'
    BY <1>13, <2>2, <2>3 DEF TypeOK
  <2>5. KernelSlot'
    BY <1>2, <1>13, <2>2, <2>3, SavedFacts DEF TableInv, KernelSlot, Runnable
  <2>6. \A j \in Slots : procs'[j].valid => procs'[j].ctx \in Threads
    BY <1>1, <1>13, <2>2, <2>3, SavedFacts
  <2>7. QED
    BY <1>13, <2>2, <2>4, <2>5, <2>6 DEF TableInv
<1>16. CASE KernelPoll
  BY <1>16, SchedAssumption
     DEF KernelPoll, KernelAt, TypeOK, TableInv, KernelSlot, Runnable
<1>17. CASE KernelScan
  <2>1. /\ kpc' \in {"loop", "scan", "reap"} /\ kidx' \in 0 .. MAX_PROCS
        /\ kpc' = "reap" => kidx' \in Slots \ {KERNEL}
        /\ UNCHANGED <<procs, current, running, mem, argvs, loaded>>
    BY <1>17, SchedAssumption
       DEF KernelScan, KernelAt, TypeOK, TableInv, KernelSlot, Slots
  <2>2. QED
    BY <2>1 DEF TypeOK, TableInv, KernelSlot, Runnable
<1>18. CASE KernelReap
  <2>1. kidx \in Slots \ {KERNEL} /\ running = KERNEL /\ current = KERNEL
    BY <1>18 DEF KernelReap, KernelAt, TableInv, KernelSlot
  <2>2. Empty \in Process
    BY DEF Empty, Process, Contexts
  <2>3. /\ procs' \in [Slots -> Process]
        /\ procs'[kidx] = Empty
        /\ \A j \in Slots \ {kidx} : procs'[j] = procs[j]
    BY <1>18, <2>1, <2>2 DEF KernelReap, TypeOK
  <2>4. kidx' \in 0 .. MAX_PROCS
    BY <1>18, <2>1, SchedAssumption DEF KernelReap, Slots
  <2>5. TypeOK'
    BY <1>18, <2>1, <2>3, <2>4 DEF KernelReap, TypeOK
  <2>6. QED
    BY <1>18, <2>1, <2>3, <2>5
       DEF KernelReap, TableInv, KernelSlot, Runnable, Empty
<1>19. CASE UNCHANGED vars
  BY <1>19 DEF vars, TypeOK, TableInv, KernelSlot, Runnable
<1>20. QED
  BY <1>4, <1>5, <1>7, <1>9, <1>10, <1>11, <1>12, <1>14, <1>15, <1>16, <1>17,
     <1>18, <1>19 DEF Next, UserCall, KernelStep

(* Type correctness of the process table, the heap and the kernel's loop.  *)
THEOREM TypeCorrect == Spec => []TypeOK
<1>1. QED
  BY InitTable, NextTable, PTL DEF Spec

(* Whatever programs call, slot 0 stays runnable and it alone holds the    *)
(* kernel's registers: schedNextContext always finds a process to enter.   *)
THEOREM KernelSlotSafe == Spec => []KernelSlot
<1>1. TableInv => KernelSlot
  BY DEF TableInv
<1>2. QED
  BY <1>1, InitTable, NextTable, PTL DEF Spec

-----------------------------------------------------------------------------
(* Image ownership.                                                        *)

(* Every identity in use is below the next one to be given out.            *)
ImageInv ==
  /\ ImagesOwned
  /\ \A i \in Slots : procs[i].image < loaded

(* The effect of a step on the images alone.                               *)
LEMMA ImageStep ==
  ASSUME TypeOK, TableInv, [Next]_vars
  PROVE  \/ /\ UNCHANGED <<mem, loaded>>
            /\ \A j \in Slots : procs'[j].image = procs[j].image
         \/ /\ mem' = mem \cup {loaded} /\ loaded' = loaded + 1
            /\ \E i \in Slots :
                 /\ procs'[i].image \in {loaded, procs[i].image}
                 /\ \A j \in Slots \ {i} : procs'[j].image = procs[j].image
         \/ /\ kidx \in Slots
            /\ mem' = mem \ {procs[kidx].image} /\ UNCHANGED loaded
            /\ procs'[kidx].image = None
            /\ \A j \in Slots \ {kidx} : procs'[j].image = procs[j].image
<1> USE SlotFacts
<1>1. \A j \in Slots : Saved[j].image = procs[j].image
  BY SavedFacts
<1>2. CASE Tick \/ Yield
  BY <1>1, <1>2 DEF Tick, Yield, SwitchFrom
<1>3. ASSUME NEW i \in Slots, NEW b \in BOOLEAN
      PROVE  \A j \in Slots :
               WithActive(i, b)[j].image = procs[j].image
  BY StoppedFacts
<1>4. CASE Breakpoint
  <2>1. /\ procs' = WithActive(current, FALSE)
        /\ current \in Slots /\ UNCHANGED <<mem, loaded>>
    BY <1>4 DEF Breakpoint, SwitchFrom, TypeOK
  <2>2. \A j \in Slots : procs'[j].image = procs[j].image
    BY <1>3, <2>1
  <2>3. QED
    BY <2>1, <2>2
<1>5. CASE Exit \/ \E i \in Slots : Kill(i)
  <2>1. UNCHANGED <<mem, loaded>> /\ \E i \in Slots : KillProcess(i)
    BY <1>5 DEF Exit, Kill, TypeOK
  <2>2. QED
    BY <2>1, KilledFacts
<1>6. CASE \E i \in Slots : YieldTo(i) \/ Resume(i) \/ Suspend(i)
  <2>1. PICK i \in Slots, b \in BOOLEAN :
          /\ UNCHANGED <<mem, loaded>>
          /\ procs' = Saved \/ procs' = WithActive(i, b)
    BY <1>6 DEF YieldTo, Resume, Suspend, SetActive
  <2>2. \A j \in Slots : procs'[j].image = procs[j].image
    BY <1>1, <1>3, <2>1
  <2>3. QED
    BY <2>1, <2>2
<1>7. CASE CreateRefused
  BY <1>1, <1>7 DEF CreateRefused, LoadImage
<1>8. CASE \E argc \in {0, 1} : Create(argc)
  <2>1. PICK argc \in {0, 1} : Create(argc)
    BY <1>8
  <2>2. PICK i \in Slots : /\ procs'[i].image = loaded
                          /\ \A j \in Slots \ {i} : procs'[j] = Saved[j]
    BY <2>1, CreateFacts
  <2>3. mem' = mem \cup {loaded} /\ loaded' = loaded + 1
    BY <2>1 DEF Create, LoadImage
  <2>4. QED
    BY <1>1, <2>2, <2>3
<1>9. CASE KernelPoll \/ KernelScan \/ UNCHANGED vars
  BY <1>9 DEF KernelPoll, KernelScan, vars
<1>10. CASE KernelReap
  <2>1. kidx \in Slots
    BY <1>10 DEF KernelReap, KernelAt, TableInv
  <2>2. QED
    BY <1>10, <2>1 DEF KernelReap, TypeOK, Empty
<1>11. QED
  BY <1>2, <1>4, <1>5, <1>6, <1>7, <1>8, <1>9, <1>10
     DEF Next, UserCall, KernelStep

LEMMA InitImages == Init => ImageInv
<1> SUFFICES ASSUME Init PROVE ImageInv
  OBVIOUS
<1>1. \A i \in Slots : procs[i].image =
        CASE i = KERNEL -> KERNEL [] i = SHELL -> SHELL [] i = WM -> WM
          [] OTHER -> None
  BY DEF Init, Launched, Empty
<1>2. QED
  BY <1>1 DEF Init, ImageInv, ImagesOwned, Static, KERNEL, SHELL, WM, None

LEMMA NextImages == TypeOK /\ TableInv /\ ImageInv /\ [Next]_vars => ImageInv'
<1> SUFFICES ASSUME TypeOK, TableInv, ImageInv, [Next]_vars PROVE ImageInv'
  OBVIOUS
<1>1. /\ loaded \in Int /\ loaded >= 3
      /\ \A i \in Slots : procs[i].image \in Int
  BY SchedAssumption DEF TypeOK, Process, Threads, None
<1>2. CASE /\ UNCHANGED <<mem, loaded>>
           /\ \A j \in Slots : procs'[j].image = procs[j].image
  BY <1>2 DEF ImageInv, ImagesOwned
<1>3. ASSUME mem' = mem \cup {loaded}, loaded' = loaded + 1,
             NEW i \in Slots,
             procs'[i].image \in {loaded, procs[i].image},
             \A j \in Slots \ {i} : procs'[j].image = procs[j].image
      PROVE  ImageInv'
  BY <1>1, <1>3 DEF ImageInv, ImagesOwned
<1>4. CASE /\ kidx \in Slots
           /\ mem' = mem \ {procs[kidx].image} /\ UNCHANGED loaded
           /\ procs'[kidx].image = None
           /\ \A j \in Slots \ {kidx} : procs'[j].image = procs[j].image
  BY <1>1, <1>4 DEF ImageInv, ImagesOwned, None
<1>5. QED
  BY <1>2, <1>3, <1>4, ImageStep

(* The reaper frees each image at most once, whatever programs call.       *)
THEOREM ImagesSafe == Spec => []ImagesOwned
<1>1. ImageInv => ImagesOwned
  BY DEF ImageInv
<1>2. QED
  BY <1>1, InitTable, NextTable, InitImages, NextImages, PTL DEF Spec

-----------------------------------------------------------------------------
(* What a pid names.                                                       *)

(* A slot that is valid after a step names the process it named before it, *)
(* or the program the step has loaded.                                     *)
LEMMA IdentityStep ==
  ASSUME TypeOK, TableInv, [Next]_vars, NEW i \in Slots, procs'[i].valid
  PROVE  procs'[i].image = IF procs[i].valid THEN procs[i].image ELSE loaded
<1> USE SlotFacts
<1>1. CASE procs' = Saved
  BY <1>1, SavedFacts
<1>2. ASSUME NEW k \in Slots, NEW b \in BOOLEAN, procs' = WithActive(k, b)
      PROVE  procs'[i].image = IF procs[i].valid THEN procs[i].image ELSE loaded
  BY <1>2, StoppedFacts
<1>3. CASE Tick \/ Yield \/ CreateRefused \/ \E n \in Slots : YieldTo(n)
  BY <1>1, <1>3 DEF Tick, Yield, CreateRefused, YieldTo, SwitchFrom
<1>4. CASE Breakpoint
  <2>1. procs' = WithActive(current, FALSE) /\ current \in Slots
    BY <1>4 DEF Breakpoint, SwitchFrom, TypeOK
  <2>2. QED
    BY <1>2, <2>1
<1>5. CASE \E k \in Slots : Resume(k) \/ Suspend(k)
  <2>1. PICK k \in Slots, b \in BOOLEAN :
          procs' = Saved \/ procs' = WithActive(k, b)
    BY <1>5 DEF Resume, Suspend, SetActive
  <2>2. QED
    BY <1>1, <1>2, <2>1
<1>6. CASE Exit \/ \E k \in Slots : Kill(k)
  <2>1. \E k \in Slots : KillProcess(k)
    BY <1>6 DEF Exit, Kill, TypeOK
  <2>2. QED
    BY <2>1, KilledFacts
<1>7. CASE \E argc \in {0, 1} : Create(argc)
  <2>1. PICK argc \in {0, 1} : Create(argc)
    BY <1>7
  <2>2. PICK k \in Slots \ {KERNEL} :
          /\ ~procs[k].valid /\ procs'[k].image = loaded
          /\ \A j \in Slots \ {k} : procs'[j] = Saved[j]
    BY <2>1, CreateFacts
  <2>3. QED
    BY <2>2, SavedFacts
<1>8. CASE KernelPoll \/ KernelScan \/ UNCHANGED vars
  BY <1>8 DEF KernelPoll, KernelScan, vars
<1>9. CASE KernelReap
  BY <1>9 DEF KernelReap, KernelAt, TableInv, TypeOK, Empty
<1>10. QED
  BY <1>3, <1>4, <1>5, <1>6, <1>7, <1>8, <1>9 DEF Next, UserCall, KernelStep

(* Creation overwrites no live process and nothing dead comes back.        *)
THEOREM IdentityKept == Spec => SlotIdentity
<1>1. TypeOK /\ TableInv /\ [Next]_vars
        => [\A i \in Slots : procs'[i].valid =>
              procs'[i].image = IF procs[i].valid THEN procs[i].image
                                                  ELSE loaded]_vars
  BY IdentityStep
<1>2. QED
  BY <1>1, InitTable, NextTable, PTL DEF Spec, SlotIdentity

-----------------------------------------------------------------------------
(* Isolation of programs that neither yield to a pid nor kill themselves   *)
(* with KILL_PROCESS.                                                      *)

(* What is in the CPU belongs to a valid process unless that process has   *)
(* just left with EXIT.                                                    *)
IsolationInv ==
  /\ ContextIsolation
  /\ running # Spin => procs[current].valid

LEMMA InitIsolation == Init => IsolationInv
<1> SUFFICES ASSUME Init PROVE IsolationInv
  OBVIOUS
<1>1. /\ procs[KERNEL] = Launched(KERNEL, None)
      /\ procs[SHELL] = Launched(SHELL, None)
      /\ procs[WM] = Launched(WM, WM)
      /\ \A i \in Slots \ {KERNEL, SHELL, WM} : procs[i] = Empty
  BY SlotFacts DEF Init, KERNEL, SHELL, WM
<1>2. QED
  BY <1>1, SlotFacts DEF Init, IsolationInv, ContextIsolation, Launched, Empty

LEMMA NextIsolation ==
  ASSUME "YIELD_TO" \notin Calls, "KILL_SELF" \notin Calls
  PROVE  TypeOK /\ TableInv /\ IsolationInv /\ [Next]_vars => IsolationInv'
<1> SUFFICES ASSUME TypeOK, TableInv, IsolationInv, [Next]_vars
             PROVE  IsolationInv'
  OBVIOUS
<1> USE SlotFacts
<1>1. current \in Slots /\ Saved \in [Slots -> Process]
  BY SavedFacts DEF TypeOK
<1>2. \A i \in Slots : procs[i].valid => Saved[i].ctx = procs[i].image
  BY SavedFacts DEF IsolationInv, ContextIsolation
<1>3. ASSUME NEW table \in [Slots -> Process], SwitchFrom(table),
             \A i \in Slots : /\ table[i].valid = procs[i].valid
                              /\ table[i].image = procs[i].image
                              /\ table[i].ctx = Saved[i].ctx
      PROVE  IsolationInv'
  <2>1. \A i \in Slots : table[i].valid => table[i].ctx \in Threads
    BY <1>3, SavedFacts DEF TypeOK, TableInv
  <2>2. /\ procs' = table
        /\ current' \in Slots
        /\ running' = table[current'].ctx
        /\ table[current'].valid
    BY <1>3, <2>1, SwitchFacts DEF Runnable
  <2>3. QED
    BY <1>2, <1>3, <2>2 DEF IsolationInv, ContextIsolation
<1>4. CASE Tick \/ Yield
  BY <1>1, <1>3, <1>4, SavedFacts DEF Tick, Yield
<1>5. ASSUME NEW i \in Slots, NEW b \in BOOLEAN
      PROVE  /\ WithActive(i, b) \in [Slots -> Process]
             /\ \A j \in Slots :
                  /\ WithActive(i, b)[j].valid = procs[j].valid
                  /\ WithActive(i, b)[j].image = procs[j].image
                  /\ WithActive(i, b)[j].ctx = Saved[j].ctx
  BY <1>5, StoppedFacts
<1>6. CASE Breakpoint
  <2>1. /\ WithActive(current, FALSE) \in [Slots -> Process]
        /\ \A j \in Slots :
             /\ WithActive(current, FALSE)[j].valid = procs[j].valid
             /\ WithActive(current, FALSE)[j].image = procs[j].image
             /\ WithActive(current, FALSE)[j].ctx = Saved[j].ctx
    BY <1>1, <1>5
  <2>2. QED
    BY <1>3, <1>6, <2>1 DEF Breakpoint
<1>7. ASSUME NEW table \in [Slots -> Process], procs' = table,
             UNCHANGED <<current, running>>, running \in Threads,
             \A i \in Slots : /\ table[i].valid = procs[i].valid
                              /\ table[i].image = procs[i].image
                              /\ table[i].ctx = Saved[i].ctx
      PROVE  IsolationInv'
  BY <1>1, <1>2, <1>7 DEF IsolationInv, ContextIsolation
<1>8. ASSUME \E call : Caller(call)
      PROVE  /\ running \in Threads /\ running # Spin
             /\ current # KERNEL /\ procs[current].valid
  BY <1>8 DEF Caller, Static, TableInv, KernelSlot, IsolationInv
<1>9. CASE \E i \in Slots : Resume(i) \/ Suspend(i)
  <2>1. PICK i \in Slots, b \in BOOLEAN :
          SetActive(i, b) /\ \E call : Caller(call)
    BY <1>9 DEF Resume, Suspend
  <2>2. /\ procs' = Saved \/ procs' = WithActive(i, b)
        /\ UNCHANGED <<current, running>>
    BY <2>1 DEF SetActive
  <2>3. QED
    BY <1>5, <1>7, <1>8, <2>1, <2>2, SavedFacts
<1>10. CASE CreateRefused
  <2>1. /\ procs' = Saved /\ UNCHANGED <<current, running>>
        /\ \E call : Caller(call)
    BY <1>10 DEF CreateRefused, LoadImage
  <2>2. QED
    BY <1>7, <1>8, <2>1, SavedFacts
<1>11. CASE Exit
  <2>1. KillProcess(current) /\ current # KERNEL
        /\ running' = Spin /\ UNCHANGED current
    BY <1>8, <1>11 DEF Exit
  <2>2. /\ ~procs'[current].valid
        /\ \A j \in Slots \ {current} :
             /\ procs'[j].valid = procs[j].valid
             /\ procs'[j].image = procs[j].image
             /\ procs'[j].ctx = Saved[j].ctx
    BY <1>1, <2>1, KilledFacts
  <2>3. QED
    BY <1>1, <1>2, <2>1, <2>2 DEF IsolationInv, ContextIsolation
<1>12. CASE \E i \in Slots : Kill(i)
  <2>1. PICK i \in Slots : Kill(i)
    BY <1>12
  <2>2. /\ i # current /\ KillProcess(i) /\ UNCHANGED <<current, running>>
        /\ procs[current].valid
    BY <1>8, <2>1 DEF Kill, Caller
  <2>3. \A j \in Slots : /\ procs'[j].valid => procs[j].valid
                         /\ procs'[j].image = procs[j].image
                         /\ procs'[j].ctx = Saved[j].ctx
    BY <2>2, KilledFacts
  <2>4. procs'[current].valid
    BY <1>1, <2>2, KilledFacts
  <2>5. \A j \in Slots : Saved[j].ctx = IF j = current THEN running
                                        ELSE procs[j].ctx
    BY SavedFacts
  <2>6. QED
    BY <1>1, <2>2, <2>3, <2>4, <2>5 DEF IsolationInv, ContextIsolation
<1>13. CASE \E argc \in {0, 1} : Create(argc)
  <2>1. PICK argc \in {0, 1} : Create(argc)
    BY <1>13
  <2>2. /\ UNCHANGED <<current, running>> /\ procs[current].valid
        /\ running \in Threads
    BY <1>8, <2>1 DEF Create, LoadImage
  <2>3. PICK i \in Slots \ {KERNEL} :
          /\ ~procs[i].valid
          /\ procs'[i].ctx = loaded /\ procs'[i].image = loaded
          /\ \A j \in Slots \ {i} : procs'[j] = Saved[j]
    BY <2>1, CreateFacts
  <2>4. i # current
    BY <2>2, <2>3
  <2>5. \A j \in Slots \ {i} : /\ procs'[j].valid = procs[j].valid
                               /\ procs'[j].image = procs[j].image
                               /\ procs'[j].ctx = Saved[j].ctx
    BY <2>3, SavedFacts
  <2>6. QED
    BY <1>1, <1>2, <2>2, <2>3, <2>4, <2>5 DEF IsolationInv, ContextIsolation
<1>14. CASE \E n \in Slots : YieldTo(n)
  BY <1>14 DEF YieldTo, Caller
<1>15. CASE KernelPoll \/ KernelScan \/ UNCHANGED vars
  BY <1>15 DEF KernelPoll, KernelScan, vars, IsolationInv, ContextIsolation
<1>16. CASE KernelReap
  <2>1. /\ kidx \in Slots /\ kidx # current
        /\ UNCHANGED <<current, running>>
    BY <1>16 DEF KernelReap, KernelAt, TableInv, KernelSlot
  <2>2. /\ ~procs'[kidx].valid
        /\ \A j \in Slots \ {kidx} : procs'[j] = procs[j]
    BY <1>16, <2>1 DEF KernelReap, Empty, TypeOK
  <2>3. QED
    BY <1>1, <2>1, <2>2 DEF IsolationInv, ContextIsolation
<1>17. QED
  BY <1>4, <1>6, <1>9, <1>10, <1>11, <1>12, <1>13, <1>14, <1>15, <1>16
     DEF Next, UserCall, KernelStep

(* Each live process of a disciplined system has its own registers.        *)
THEOREM Isolated ==
  ASSUME "YIELD_TO" \notin Calls, "KILL_SELF" \notin Calls
  PROVE  Spec => []ContextIsolation
<1>1. IsolationInv => ContextIsolation
  BY DEF IsolationInv
<1>2. TypeOK /\ TableInv /\ IsolationInv /\ [Next]_vars => IsolationInv'
  BY NextIsolation
<1>3. QED
  BY <1>1, <1>2, InitTable, NextTable, InitIsolation, PTL DEF Spec

(* What runs, and what may be switched to, has its image and stack still   *)
(* allocated: isolation puts an image's thread where the image's owner is, *)
(* and ownership keeps the image.                                          *)
THEOREM NothingFreedRuns ==
  ASSUME "YIELD_TO" \notin Calls, "KILL_SELF" \notin Calls
  PROVE  Spec => []NoUseAfterFree
<1>1. TypeOK /\ TableInv /\ IsolationInv /\ ImageInv => NoUseAfterFree
  BY SlotFacts
     DEF TypeOK, TableInv, IsolationInv, ContextIsolation, ImageInv, ImagesOwned,
         NoUseAfterFree, Runnable, Process, Contexts, Static
<1>2. TypeOK /\ TableInv /\ IsolationInv /\ [Next]_vars => IsolationInv'
  BY NextIsolation
<1>3. QED
  BY <1>1, <1>2, InitTable, NextTable, InitImages, NextImages, InitIsolation,
     PTL DEF Spec
=============================================================================
