-------------------------- MODULE UserSpaceProofs ---------------------------
(***************************************************************************)
(* From the heap to ring 3 for every page size, layout, memory map without *)
(* overlaps, ELF image and program.                                        *)
(***************************************************************************)
EXTENDS UserSpace, TLAPS

\* A leaf is tried with Zenon first: most are steps of logic, and translating
\* the loader's state for the SMT solver is what costs time.
USE ZenonT(5), SMTT(30)

(***************************************************************************)
(* The syscall path, by where the stub is.                                 *)
(***************************************************************************)
LEMMA Selectors == SyscallSeg = KernelSeg /\ SysretSeg = UserSeg
<1>1. DOMAIN GDT = 1 .. 7
  BY DEF GDT
<1>2. \A i \in 1 .. 7 : /\ GDT[i] = "kernel_code" <=> i = 2
                        /\ GDT[i] = "kernel_data" <=> i = 3
                        /\ GDT[i] = "user_data" <=> i = 6
                        /\ GDT[i] = "user_code" <=> i = 7
  BY DEF GDT
<1>3. /\ (CHOOSE i \in DOMAIN GDT : GDT[i] = "kernel_code") = 2
      /\ (CHOOSE i \in DOMAIN GDT : GDT[i] = "kernel_data") = 3
      /\ (CHOOSE i \in DOMAIN GDT : GDT[i] = "user_data") = 6
      /\ (CHOOSE i \in DOMAIN GDT : GDT[i] = "user_code") = 7
  BY <1>1, <1>2
<1>4. /\ Selector("kernel_code", 0) = 8 * (2 - 1) + 0
      /\ Selector("kernel_data", 0) = 8 * (3 - 1) + 0
      /\ Selector("user_data", 3) = 8 * (6 - 1) + 3
      /\ Selector("user_code", 3) = 8 * (7 - 1) + 3
  BY <1>3, Zenon DEF Selector
<1>5. /\ Selector("kernel_code", 0) = 8 /\ Selector("kernel_data", 0) = 16
      /\ Selector("user_data", 3) = 43 /\ Selector("user_code", 3) = 51
  BY <1>4
<1> QED BY <1>5 DEF SyscallSeg, KernelSeg, SysretSeg, UserSeg, STAR

Saved == <<UserRbx, rip + 1>>

\* In ring 3, and on the way into the stub: nothing is saved yet.
Before ==
    /\ rbx = UserRbx /\ stack = <<>> /\ rip = SYSCALL_COUNT + 1

SysInv ==
    /\ rip \in Nat /\ SYSCALL_COUNT \in Nat /\ trampled = FALSE
    /\ spc \in {"kernel_main", "user", "save_rsp", "switch", "push", "dispatch", "handle",
                "pop", "restore_rsp", "sysret", "halted"}
    /\ ring \in {0, 3} /\ (spc = "user" <=> ring = 3)
    /\ spc = "kernel_main" => SYSCALL_COUNT = 0
    /\ spc = "user" => IF_ = TRUE /\ seg = UserSeg /\ rsp = UserStackTop
    /\ spc \notin {"user", "halted"} => seg = KernelSeg
    /\ spc \notin {"user", "kernel_main"} => IF_ = FALSE
    /\ spc \in {"kernel_main", "user", "save_rsp", "switch", "push"} => Before
    /\ spc \in {"save_rsp", "switch", "push"} => rcx = rip + 1
    /\ spc = "save_rsp" => rsp = UserStackTop
    /\ spc \in {"switch", "push", "dispatch", "handle", "pop", "restore_rsp"} =>
         SYSCALL_USER_RSP = UserStackTop
    /\ spc = "dispatch" => stack = Saved /\ rip = SYSCALL_COUNT + 1
    /\ spc \in {"handle", "pop"} => stack = Saved /\ rip = SYSCALL_COUNT
    /\ spc \in {"restore_rsp", "sysret"} =>
         rbx = UserRbx /\ rcx = rip + 1 /\ stack = <<>> /\ rip = SYSCALL_COUNT
    /\ spc = "sysret" => rsp = UserStackTop

LEMMA SysInit == SyscallInit => SysInv
BY DEF SyscallInit, SysInv, Before

LEMMA SysIdle == SysInv /\ UNCHANGED sysVars => SysInv'
BY DEF SysInv, Before, Saved, sysVars, cpu, stats

LEMMA SysEnter ==
    ASSUME SysInv, NEW prog, Enter(prog)
    PROVE  SysInv'
<1>1. /\ spc = "kernel_main" /\ spc' = "user" /\ ring' = 3 /\ seg' = UserSeg /\ rip' = 1
      /\ rsp' = UserStackTop /\ IF_' = TRUE
      /\ rbx' = rbx /\ stack' = stack /\ SYSCALL_COUNT' = SYSCALL_COUNT /\ trampled' = trampled
  BY DEF Enter, stats
<1>2. rbx = UserRbx /\ stack = <<>> /\ SYSCALL_COUNT = 0 /\ SYSCALL_COUNT \in Nat /\ trampled = FALSE
  BY <1>1 DEF SysInv, Before
<1> QED BY <1>1, <1>2 DEF SysInv, Before

\* Into the stub, up to the dispatcher.
LEMMA SysIn ==
    ASSUME SysInv, SyscallInstr \/ SaveRsp \/ SwitchStack
    PROVE  SysInv'
<1>1. CASE SyscallInstr
  <2>1. /\ spc = "user" /\ spc' = "save_rsp" /\ ring' = 0 /\ seg' = KernelSeg /\ rip' = rip
        /\ rcx' = rip + 1 /\ rsp' = rsp /\ IF_' = FALSE
        /\ rbx' = rbx /\ stack' = stack /\ SYSCALL_COUNT' = SYSCALL_COUNT /\ trampled' = trampled
    BY <1>1, Selectors DEF SyscallInstr, Masked, stats
  <2> QED BY <2>1 DEF SysInv, Before
<1>2. CASE SaveRsp
  BY <1>2 DEF SysInv, Before, SaveRsp, cpu, stats
<1>3. CASE SwitchStack
  BY <1>3 DEF SysInv, Before, SwitchStack, stats
<1> QED BY <1>1, <1>2, <1>3

LEMMA SysPush ==
    ASSUME SysInv, PushAndMarshal
    PROVE  SysInv'
<1>1. /\ spc = "push" /\ stack = <<>> /\ rbx = UserRbx /\ rcx = rip + 1
      /\ stack' = <<rbx, rcx>> \o stack
  BY DEF SysInv, Before, PushAndMarshal
<1>2. stack' = Saved
  BY <1>1 DEF Saved
<1>3. /\ spc' = "dispatch" /\ rip' = rip /\ ring' = ring /\ seg' = seg /\ IF_' = IF_ /\ rsp' = rsp
      /\ SYSCALL_USER_RSP' = SYSCALL_USER_RSP /\ SYSCALL_COUNT' = SYSCALL_COUNT /\ trampled' = trampled
  BY DEF PushAndMarshal, stats
<1> QED BY <1>1, <1>2, <1>3 DEF SysInv, Before, Saved

LEMMA SysDispatch ==
    ASSUME SysInv, DispatchLog
    PROVE  SysInv'
BY DEF SysInv, Before, Saved, DispatchLog

LEMMA SysHandle ==
    ASSUME SysInv, HandleYield \/ HandleScbaQuery \/ HandleExit \/ HandleUnknown
    PROVE  SysInv'
<1>1. /\ spc = "handle" /\ spc' = "pop" /\ ring' = ring /\ seg' = seg /\ rip' = rip /\ rsp' = rsp
      /\ IF_' = IF_ /\ stack' = stack /\ SYSCALL_USER_RSP' = SYSCALL_USER_RSP
      /\ SYSCALL_COUNT' = SYSCALL_COUNT /\ trampled' = trampled
  BY DEF HandleYield, HandleScbaQuery, HandleExit, HandleUnknown, Return
<1> QED BY <1>1 DEF SysInv, Before, Saved

\* Out of the stub.
LEMMA SysOut ==
    ASSUME SysInv, Pop \/ RestoreRsp \/ Sysret
    PROVE  SysInv'
<1>1. CASE Pop
  <2>1. spc = "pop" /\ stack = <<UserRbx, rip + 1>> /\ rip \in Nat
    BY <1>1 DEF Pop, SysInv, Saved
  <2>2. stack[1] = UserRbx /\ stack[2] = rip + 1 /\ SubSeq(stack, 3, Len(stack)) = <<>>
    BY <2>1
  <2>3. rbx' = UserRbx /\ rcx' = rip + 1 /\ stack' = <<>>
    BY <1>1, <2>2 DEF Pop
  <2>4. /\ spc' = "restore_rsp" /\ ring' = ring /\ seg' = seg /\ rip' = rip /\ rsp' = rsp
        /\ IF_' = IF_ /\ SYSCALL_USER_RSP' = SYSCALL_USER_RSP /\ SYSCALL_COUNT' = SYSCALL_COUNT
        /\ trampled' = trampled
    BY <1>1 DEF Pop, stats
  <2> QED BY <2>1, <2>3, <2>4 DEF SysInv
<1>2. CASE RestoreRsp
  BY <1>2 DEF SysInv, RestoreRsp, stats
<1>3. CASE Sysret
  BY <1>3, Selectors DEF SysInv, Before, Sysret, stats
<1> QED BY <1>1, <1>2, <1>3

\* Interrupts are on only in ring 3; a fault there is the last step.
LEMMA SysInterrupt ==
    ASSUME SysInv, TimerInterrupt \/ PageFault \/ GeneralProtectionFault \/ DoubleFault
    PROVE  SysInv'
<1>1. CASE TimerInterrupt
  <2>0. IF_ # FALSE /\ spc # "kernel_main"
    BY <1>1, Zenon DEF TimerInterrupt
  <2>1. spc = "user" /\ ring = 3 /\ trampled = FALSE
    BY <2>0, Zenon DEF SysInv
  <2>2. ring # 0
    BY <2>1
  <2>3. trampled' = FALSE
    BY <1>1, <2>1, <2>2, Zenon DEF TimerInterrupt
  <2> QED BY <1>1, <2>1, <2>3 DEF SysInv, Before, TimerInterrupt, cpu, stats
<1>2. CASE PageFault \/ GeneralProtectionFault \/ DoubleFault
  <2>1. /\ spc' = "halted" /\ ring' = 0 /\ IF_' = FALSE /\ rip' = rip /\ trampled' = trampled
        /\ SYSCALL_COUNT' = SYSCALL_COUNT
    BY <1>2 DEF PageFault, GeneralProtectionFault, DoubleFault, Halt, stats
  <2> QED BY <2>1 DEF SysInv
<1> QED BY <1>1, <1>2

LEMMA SysStep == SysInv /\ [Next]_userVars => SysInv'
<1> SUFFICES ASSUME SysInv, [Next]_userVars PROVE SysInv'
  OBVIOUS
<1>1. CASE Boot \/ UNCHANGED userVars
  <2>1. UNCHANGED sysVars
    BY <1>1 DEF Boot, userVars
  <2> QED BY <2>1, SysIdle
<1>2. CASE EnterUser
  BY <1>2, SysEnter DEF EnterUser
<1>3. CASE User
  BY <1>3, SysIn, SysPush, SysDispatch, SysHandle, SysOut, SysInterrupt DEF User, SyscallStep
<1>4. CASE Interrupt \/ Fault
  BY <1>4, SysInterrupt DEF Interrupt, Fault
<1> QED BY <1>1, <1>2, <1>3, <1>4 DEF Next

-----------------------------------------------------------------------------
(***************************************************************************)
(* The frame allocator.  A frame is taken once `next` has passed it.       *)
(***************************************************************************)
Taken(fs, n, f) == \E k \in DOMAIN fs : k <= n /\ fs[k] = f

LEMMA NthFacts ==
    ASSUME regions \in MemoryMaps, NEW k \in Nat
    PROVE  /\ \/ Nth(k) = None
              \/ /\ k + 1 \in DOMAIN UsableFrames /\ Nth(k) = UsableFrames[k + 1]
                 /\ Nth(k) \in Frames /\ Nth(k) # None
           /\ Nth(k) = None => Nth(k + 1) = None
<1>1. UsableFrames \in Seq(Frames) /\ None \notin Frames
  BY MapsAssumption DEF UsableFrames
<1>2. Len(UsableFrames) \in Nat /\ DOMAIN UsableFrames = 1 .. Len(UsableFrames)
  BY <1>1
<1>3. CASE k < Len(UsableFrames)
  <2>1. k + 1 \in DOMAIN UsableFrames
    BY <1>2, <1>3
  <2>2. UsableFrames[k + 1] \in Frames
    BY <1>1, <2>1
  <2>3. Nth(k) = UsableFrames[k + 1]
    BY <1>3 DEF Nth
  <2> QED BY <1>1, <2>1, <2>2, <2>3
<1>4. CASE ~(k < Len(UsableFrames))
  <2>1. ~(k + 1 < Len(UsableFrames))
    BY <1>2, <1>4
  <2> QED BY <1>4, <2>1 DEF Nth
<1> QED BY <1>3, <1>4

\* A frame the allocator has yet to hand out is not taken, and no two are equal.
LEMMA FreshFrames ==
    ASSUME regions \in MemoryMaps, next \in Nat, NEW k \in Nat, k >= next, Nth(k) # None
    PROVE  /\ ~Taken(UsableFrames, next, Nth(k)) /\ Nth(k) \in Frames /\ Nth(k) \in Range(UsableFrames)
           /\ \A j \in Nat : j # k => Nth(j) # Nth(k)
<1>1. \A i, j \in DOMAIN UsableFrames : UsableFrames[i] = UsableFrames[j] => i = j
  BY MapsAssumption DEF UsableFrames
<1>2. k + 1 \in DOMAIN UsableFrames /\ Nth(k) = UsableFrames[k + 1] /\ Nth(k) \in Frames
  BY NthFacts
<1>3. ~Taken(UsableFrames, next, Nth(k))
  BY <1>1, <1>2 DEF Taken
<1>4. \A j \in Nat : j # k => Nth(j) # Nth(k)
  <2> SUFFICES ASSUME NEW j \in Nat, j # k, Nth(j) = Nth(k) PROVE FALSE
    OBVIOUS
  <2>1. j + 1 \in DOMAIN UsableFrames /\ Nth(j) = UsableFrames[j + 1]
    BY NthFacts
  <2>2. j + 1 # k + 1
    OBVIOUS
  <2> QED BY <1>1, <1>2, <2>1, <2>2
<1>5. Nth(k) \in Range(UsableFrames)
  BY <1>2 DEF Range
<1> QED BY <1>2, <1>3, <1>4, <1>5

(***************************************************************************)
(* What map_to does, page by page and table by table.                      *)
(***************************************************************************)
Answer(m, p, r, n) ==
    LET t == p \div SPAN
    IN /\ m.next \in {n, n + 1}
       /\ \A u \in DOMAIN tables : u \in DOMAIN m.tables /\ m.tables[u] = tables[u]
       /\ \A u \in DOMAIN m.tables :
            \/ u \in DOMAIN tables
            \/ u = t /\ m.tables[u] = Nth(n) /\ Nth(n) # None /\ m.next = n + 1
       /\ ~m.ok => /\ m.pages = pages
                   /\ p \in DOMAIN pages \cup BootPages \/ (Nth(n) = None /\ m.next = n + 1)
       /\ m.ok => /\ p \notin DOMAIN pages /\ DOMAIN m.pages = DOMAIN pages \cup {p}
                  /\ m.pages[p] = r /\ \A q \in DOMAIN pages : m.pages[q] = pages[q]

LEMMA MapToAnswers ==
    ASSUME NEW p, NEW frame, NEW user, NEW w, NEW x, NEW n \in Nat
    PROVE  Answer(MapTo(p, frame, user, w, x, n), p,
                  [frame |-> frame, user |-> user, w |-> w, x |-> x], n)
<1> DEFINE m == MapTo(p, frame, user, w, x, n)
           t == p \div SPAN
           made == IF t \in DOMAIN tables THEN tables
                   ELSE IF Nth(n) = None THEN tables
                   ELSE [u \in DOMAIN tables \cup {t} |-> IF u = t THEN Nth(n) ELSE tables[u]]
           ok == t \in DOMAIN made /\ p \notin DOMAIN pages \cup BootPages
           r == [frame |-> frame, user |-> user, w |-> w, x |-> x]
           mapped == [q \in DOMAIN pages \cup {p} |-> IF q = p THEN r ELSE pages[q]]
<1>0. m = [ok |-> ok, next |-> IF t \in DOMAIN tables THEN n ELSE n + 1, tables |-> made,
           pages |-> IF ~ok THEN pages ELSE mapped]
  BY DEF MapTo
<1> HIDE DEF m, ok, made, mapped
<1>1. /\ m.ok <=> ok
      /\ m.next = IF t \in DOMAIN tables THEN n ELSE n + 1
      /\ m.tables = made /\ m.pages = IF ~ok THEN pages ELSE mapped
  BY <1>0
<1> USE DEF ok, made, mapped
<1>2. ASSUME t \in DOMAIN tables PROVE Answer(m, p, r, n)
  <2>1. made = tables
    BY <1>2
  <2>2. ok <=> p \notin DOMAIN pages \cup BootPages
    BY <1>2, <2>1
  <2>3. p \notin DOMAIN pages => \A q \in DOMAIN pages : mapped[q] = pages[q]
    OBVIOUS
  <2>4. DOMAIN mapped = DOMAIN pages \cup {p} /\ mapped[p] = r
    OBVIOUS
  <2> HIDE DEF m, made, ok, mapped, r
  <2> QED BY <1>1, <1>2, <2>1, <2>2, <2>3, <2>4 DEF Answer
<1>3. ASSUME t \notin DOMAIN tables /\ Nth(n) = None PROVE Answer(m, p, r, n)
  <2>1. made = tables /\ ~ok
    BY <1>3
  <2> HIDE DEF made, ok, mapped, r, m
  <2> QED BY <1>1, <1>3, <2>1 DEF Answer
<1>4. ASSUME t \notin DOMAIN tables /\ Nth(n) # None PROVE Answer(m, p, r, n)
  <2>1. made = [u \in DOMAIN tables \cup {t} |-> IF u = t THEN Nth(n) ELSE tables[u]]
    BY <1>4
  <2>2. /\ DOMAIN made = DOMAIN tables \cup {t} /\ made[t] = Nth(n)
        /\ \A u \in DOMAIN tables : made[u] = tables[u]
    BY <1>4, <2>1
  <2>3. ok <=> p \notin DOMAIN pages \cup BootPages
    BY <2>2
  <2>4. p \notin DOMAIN pages => \A q \in DOMAIN pages : mapped[q] = pages[q]
    OBVIOUS
  <2>5. DOMAIN mapped = DOMAIN pages \cup {p} /\ mapped[p] = r
    OBVIOUS
  <2> HIDE DEF m, made, ok, mapped, r
  <2> QED BY <1>1, <1>4, <2>2, <2>3, <2>4, <2>5 DEF Answer
<1> QED BY <1>2, <1>3, <1>4 DEF m

Kept == TRAMPOLINE \notin Range(UsableFrames)

\* Every frame in use is taken, but for the fixed one of the trampoline page.
FrameInv ==
    /\ regions \in MemoryMaps /\ next \in Nat
    /\ \A p \in DOMAIN pages :
         \/ Taken(UsableFrames, next, pages[p].frame)
         \/ p = TRAMPOLINE /\ pages[p].frame = TRAMPOLINE /\ pages[p].user = FALSE
    /\ \A t \in DOMAIN tables : tables[t] = None \/ Taken(UsableFrames, next, tables[t])
    /\ \A p, q \in DOMAIN pages :
         (Kept \/ (p # TRAMPOLINE /\ q # TRAMPOLINE)) /\ p # q => pages[p].frame # pages[q].frame
    /\ \A t, u \in DOMAIN tables : t # u /\ tables[t] # None => tables[t] # tables[u]
    /\ \A p \in DOMAIN pages, t \in DOMAIN tables :
         Kept \/ p # TRAMPOLINE => pages[p].frame # tables[t]

LEMMA FramesOnce == FrameInv => FramesUsedOnce
BY DEF FrameInv, FramesUsedOnce, Kept

LEMMA TakenGrows ==
    ASSUME NEW fs \in Seq(Frames), NEW n \in Nat, NEW k \in Nat, n <= k, NEW f, Taken(fs, n, f)
    PROVE  Taken(fs, k, f)
BY DEF Taken

\* A mapping that succeeds or fails keeps frames apart, whether the page's frame
\* is the allocator's next or the fixed one.
LEMMA MapKeepsFrames ==
    ASSUME FrameInv, NEW p, NEW r, NEW m, NEW n \in Nat, Answer(m, p, r, n), Keep(m),
           regions' = regions,
           \/ n = next + 1 /\ Nth(next) # None /\ r.frame = Nth(next)
           \/ n = next /\ p = TRAMPOLINE /\ r.frame = TRAMPOLINE /\ r.user = FALSE
    PROVE  FrameInv'
<1>0. /\ regions \in MemoryMaps /\ next \in Nat /\ UsableFrames \in Seq(Frames)
      /\ None \notin Frames /\ UsableFrames' = UsableFrames /\ n >= next
      /\ (Kept' <=> Kept)
  BY MapsAssumption DEF FrameInv, UsableFrames, Kept, Range
<1>1. next' = m.next /\ tables' = m.tables /\ pages' = m.pages
  BY DEF Keep
<1>2. next' \in Nat /\ next' >= n /\ n <= next' /\ next' >= next
  BY <1>0, <1>1 DEF Answer
<1> DEFINE old == {f \in Frames : Taken(UsableFrames, next, f)}
           all == {f \in Frames : Taken(UsableFrames, next', f)}
           new == all \ old
<1>3. \A f : f \in old => f \in all /\ f # None /\ f \in Range(UsableFrames)
  <2> SUFFICES ASSUME NEW f, f \in old PROVE f \in all /\ f # None /\ f \in Range(UsableFrames)
    OBVIOUS
  <2>1. f \in all
    BY <1>0, <1>2, TakenGrows
  <2>2. f \in Range(UsableFrames) /\ f \in Frames
    BY <1>0 DEF Taken, Range
  <2> QED BY <1>0, <2>1, <2>2
<1>4. \A k \in Nat : k >= next /\ k < next' /\ Nth(k) # None => Nth(k) \in new
  <2> SUFFICES ASSUME NEW k \in Nat, k >= next, k < next', Nth(k) # None PROVE Nth(k) \in new
    OBVIOUS
  <2>1. Nth(k) \notin old /\ Nth(k) \in Range(UsableFrames)
    BY <1>0, FreshFrames
  <2>2. k + 1 \in DOMAIN UsableFrames /\ Nth(k) = UsableFrames[k + 1] /\ k + 1 <= next'
    BY <1>0, <1>2, NthFacts
  <2>3. Nth(k) \in Frames
    BY <1>0, NthFacts
  <2>4. Nth(k) \in all
    BY <2>2, <2>3 DEF Taken
  <2> QED BY <2>1, <2>4
<1>5. \/ n = next + 1 /\ r.frame \in new /\ (next' = n + 1 /\ Nth(n) # None => Nth(n) # r.frame)
      \/ n = next /\ p = TRAMPOLINE /\ r.frame = TRAMPOLINE /\ r.user = FALSE
  <2>1. CASE n = next + 1 /\ Nth(next) # None /\ r.frame = Nth(next)
    <3>1. Nth(next) \in new
      BY <1>0, <1>2, <1>4, <2>1
    <3>2. Nth(n) # None => Nth(n) # Nth(next)
      BY <1>0, <2>1, FreshFrames
    <3> QED BY <2>1, <3>1, <3>2
  <2> QED BY <2>1, Zenon
<1>6. next' = n + 1 /\ Nth(n) # None => Nth(n) \in new
  BY <1>0, <1>2, <1>4
<1> HIDE DEF old, all, new
<1>7. \A f : f \in new => f # None /\ f \notin old /\ f \in all /\ f \in Range(UsableFrames)
  BY <1>0 DEF new, all, Taken, Range
<1>8. \A u \in DOMAIN tables' :
        \/ u \in DOMAIN tables /\ tables'[u] = tables[u]
        \/ u = p \div SPAN /\ tables'[u] = Nth(n) /\ Nth(n) \in new /\ (n = next + 1 => Nth(n) # r.frame)
  BY <1>1, <1>5, <1>6 DEF Answer
<1>9. \A q \in DOMAIN pages' :
        \/ q \in DOMAIN pages /\ pages'[q] = pages[q]
        \/ q = p /\ p \notin DOMAIN pages /\ pages'[q] = r
  <2>1. CASE m.ok
    BY <1>1, <2>1 DEF Answer
  <2>2. CASE ~m.ok
    BY <1>1, <2>2 DEF Answer
  <2> QED BY <2>1, <2>2
<1>10. /\ \A q \in DOMAIN pages :
            \/ pages[q].frame \in old
            \/ q = TRAMPOLINE /\ pages[q].frame = TRAMPOLINE /\ pages[q].user = FALSE
       /\ \A u \in DOMAIN tables : tables[u] = None \/ tables[u] \in old
  <2>1. \A f : Taken(UsableFrames, next, f) => f \in old
    BY <1>0 DEF old, Taken
  <2> QED BY <2>1 DEF FrameInv
<1>11. \A q \in DOMAIN pages' :
         \/ pages'[q].frame \in all
         \/ q = TRAMPOLINE /\ pages'[q].frame = TRAMPOLINE /\ pages'[q].user = FALSE
  BY <1>3, <1>5, <1>7, <1>9, <1>10
<1>12. \A u \in DOMAIN tables' : tables'[u] = None \/ tables'[u] \in all
  BY <1>3, <1>7, <1>8, <1>10
<1>13. \A a, q \in DOMAIN pages' :
         (Kept \/ (a # TRAMPOLINE /\ q # TRAMPOLINE)) /\ a # q => pages'[a].frame # pages'[q].frame
  <2>1. ASSUME NEW q \in DOMAIN pages, p \notin DOMAIN pages, Kept \/ (q # TRAMPOLINE /\ p # TRAMPOLINE)
        PROVE  pages[q].frame # r.frame
    BY <1>3, <1>5, <1>7, <1>10, <2>1 DEF Kept
  <2> QED BY <1>9, <2>1 DEF FrameInv
<1>14. \A t, u \in DOMAIN tables' : t # u /\ tables'[t] # None => tables'[t] # tables'[u]
  BY <1>7, <1>8, <1>10 DEF FrameInv
<1>15. \A q \in DOMAIN pages', t \in DOMAIN tables' :
         Kept \/ q # TRAMPOLINE => pages'[q].frame # tables'[t]
  <2> SUFFICES ASSUME NEW q \in DOMAIN pages', NEW t \in DOMAIN tables', Kept \/ q # TRAMPOLINE,
                      pages'[q].frame = tables'[t]
               PROVE  FALSE
    OBVIOUS
  <2>1. CASE q \in DOMAIN pages /\ pages'[q] = pages[q]
    BY <1>7, <1>8, <1>10, <2>1 DEF FrameInv, Kept
  <2>2. CASE q = p /\ p \notin DOMAIN pages /\ pages'[q] = r
    BY <1>3, <1>5, <1>7, <1>8, <1>10, <2>2, MapsAssumption DEF Kept
  <2> QED BY <1>9, <2>1, <2>2
<1>16. \A f \in all : Taken(UsableFrames, next', f)
  BY DEF all
<1> QED BY <1>0, <1>2, <1>11, <1>12, <1>13, <1>14, <1>15, <1>16 DEF FrameInv

-----------------------------------------------------------------------------
(***************************************************************************)
(* Pages and bytes of a segment.                                           *)
(***************************************************************************)
LEMMA TimesGrows ==
    ASSUME NEW x \in Nat, NEW y \in Nat, NEW c \in Nat, x <= y
    PROVE  x * c <= y * c
<1>1. PICK z \in Nat : y = x + z
  <2>1. y - x \in Nat /\ y = x + (y - x)
    OBVIOUS
  <2> QED BY <2>1
<1>2. (x + z) * c = x * c + z * c /\ z * c \in Nat /\ x * c \in Nat
  OBVIOUS
<1> QED BY <1>1, <1>2

LEMMA Division ==
    ASSUME NEW a \in Nat
    PROVE  /\ a \div PAGE \in Nat /\ a % PAGE \in 0 .. PAGE - 1
           /\ a = (a \div PAGE) * PAGE + (a % PAGE)
BY PageAssumption

LEMMA DivisionBound ==
    ASSUME NEW a \in Nat, NEW k \in Nat
    PROVE  k <= a \div PAGE <=> k * PAGE <= a
<1> DEFINE d == a \div PAGE
           r == a % PAGE
<1>1. d \in Nat /\ r \in 0 .. PAGE - 1 /\ a = d * PAGE + r /\ PAGE \in Nat /\ PAGE > 0
  BY Division, PageAssumption
<1> HIDE DEF d, r
<1>2. k \in Nat /\ d + 1 \in Nat /\ (d + 1) * PAGE = d * PAGE + PAGE /\ d * PAGE \in Nat /\ k * PAGE \in Nat
  BY <1>1
<1>3. CASE k <= d
  <2>1. k * PAGE <= d * PAGE
    BY <1>1, <1>3, TimesGrows
  <2>2. k * PAGE <= a
    BY <1>1, <1>2, <2>1
  <2> QED BY <1>3, <2>2 DEF d
<1>4. CASE ~(k <= d)
  <2>1. d + 1 <= k
    BY <1>1, <1>4
  <2>2. (d + 1) * PAGE <= k * PAGE
    BY <1>1, <1>2, <2>1, TimesGrows
  <2>3. ~(k * PAGE <= a)
    BY <1>1, <1>2, <2>2
  <2> QED BY <1>4, <2>3 DEF d
<1> QED BY <1>3, <1>4

\* The page loop of load runs over exactly the pages the segment touches.
LEMMA SegmentPages ==
    ASSUME NEW s \in ProgramHeaders
    PROVE  /\ StartPage(s) \in Nat /\ EndPage(s) \in Nat
           /\ \A o \in 0 .. s.memsz - 1 : (s.vaddr + o) \div PAGE \in StartPage(s) .. EndPage(s) - 1
           /\ s.memsz > 0 => \A p \in StartPage(s) .. EndPage(s) - 1 :
                                \E o \in 0 .. s.memsz - 1 : (s.vaddr + o) \div PAGE = p
<1> DEFINE v == s.vaddr
           z == s.memsz
           top == v + z + PAGE - 1
<1>0. v \in Nat /\ z \in Nat /\ PAGE \in Nat /\ PAGE > 0 /\ top \in Nat
  BY PageAssumption DEF ProgramHeaders
<1>1. StartPage(s) = v \div PAGE /\ EndPage(s) = top \div PAGE
  BY DEF StartPage, EndPage
<1> HIDE DEF v, z, top
<1>2. StartPage(s) \in Nat /\ EndPage(s) \in Nat
  BY <1>0, <1>1, Division
<1>3. ASSUME NEW o \in 0 .. z - 1 PROVE (v + o) \div PAGE \in StartPage(s) .. EndPage(s) - 1
  <2> DEFINE p == (v + o) \div PAGE
  <2>1. p \in Nat /\ v + o \in Nat
    BY <1>0, Division
  <2>2. StartPage(s) * PAGE <= v
    BY <1>0, <1>1, <1>2, DivisionBound
  <2>3. StartPage(s) * PAGE <= v + o
    BY <1>0, <1>2, <2>2
  <2>4. StartPage(s) <= p
    BY <1>2, <2>1, <2>3, DivisionBound
  <2>5. p * PAGE <= v + o
    BY <2>1, DivisionBound
  <2> HIDE DEF p
  <2>6. (p + 1) * PAGE <= top
    BY <1>0, <2>1, <2>5 DEF top
  <2>7. p + 1 <= EndPage(s)
    BY <1>0, <1>1, <2>1, <2>6, DivisionBound
  <2>8. p \in StartPage(s) .. EndPage(s) - 1
    BY <1>2, <2>1, <2>4, <2>7
  <2> QED BY <2>8 DEF p
<1>4. ASSUME z > 0, NEW p \in StartPage(s) .. EndPage(s) - 1
      PROVE  \E o \in 0 .. z - 1 : (v + o) \div PAGE = p
  <2>0. p \in Nat /\ p >= StartPage(s) /\ p + 1 <= EndPage(s) /\ p + 1 \in Nat /\ p * PAGE \in Nat
    BY <1>0, <1>2
  <2>1. CASE p * PAGE <= v
    <3>1. p <= v \div PAGE
      BY <1>0, <2>0, <2>1, DivisionBound
    <3>2. (v + 0) \div PAGE = p /\ 0 \in 0 .. z - 1
      BY <1>0, <1>1, <1>2, <1>4, <2>0, <3>1
    <3> QED BY <3>2
  <2>2. CASE ~(p * PAGE <= v)
    <3> DEFINE P == p * PAGE
               o == P - v
    <3>1. P \in Nat /\ v + o = P /\ (p + 1) * PAGE = P + PAGE
      BY <1>0, <2>0
    <3>2. (p + 1) * PAGE <= top
      BY <1>0, <1>1, <2>0, DivisionBound
    <3>3. o \in 0 .. z - 1
      <4> HIDE DEF P
      <4> QED BY <1>0, <2>2, <3>1, <3>2 DEF top, P
    <3>4. p <= P \div PAGE /\ P \div PAGE \in Nat
      BY <2>0, <3>1, DivisionBound, Division
    <3>5. ~((p + 1) * PAGE <= P)
      BY <1>0, <3>1
    <3>6. ~(p + 1 <= P \div PAGE)
      BY <2>0, <3>1, <3>5, DivisionBound
    <3> HIDE DEF P
    <3>7. P \div PAGE = p
      BY <2>0, <3>4, <3>6
    <3> QED BY <3>1, <3>3, <3>7
  <2> QED BY <2>1, <2>2
<1> QED BY <1>2, <1>3, <1>4 DEF v, z

\* Zeros, and over them the part of the file that falls on the page.
LEMMA PageBytesAt ==
    ASSUME NEW s \in ProgramHeaders, NEW p \in Nat, NEW b \in Bytes
    PROVE  LET a == p * PAGE + b
           IN PageBytes(s, p)[b] = IF s.vaddr <= a /\ a < s.vaddr + s.filesz
                                   THEN elf.bytes[s.offset + (a - s.vaddr) + 1] ELSE 0
<1> DEFINE P == p * PAGE
           v == s.vaddr
           copy_start == IF v > P THEN v ELSE P
           copy_end   == IF v + s.filesz < P + PAGE THEN v + s.filesz ELSE P + PAGE
           inside == copy_start < copy_end
                       /\ b \in copy_start - P .. (copy_start - P) + (copy_end - copy_start) - 1
           j == s.offset + (copy_start - v) + (b - (copy_start - P)) + 1
<1>0. /\ v \in Nat /\ s.filesz \in Nat /\ s.offset \in Nat /\ PAGE \in Nat /\ P \in Nat
      /\ b \in Nat /\ b < PAGE /\ (p + 1) * PAGE = P + PAGE
  BY PageAssumption DEF ProgramHeaders, Bytes
<1>1. PageBytes(s, p)[b] = IF inside THEN elf.bytes[j] ELSE 0
  BY <1>0 DEF PageBytes
<1> HIDE DEF P, v
<1>2. inside <=> v <= P + b /\ P + b < v + s.filesz
  BY <1>0
<1>3. j = s.offset + ((P + b) - v) + 1
  BY <1>0
<1> HIDE DEF inside, j
<1>4. PageBytes(s, p)[b] = IF v <= P + b /\ P + b < v + s.filesz
                           THEN elf.bytes[s.offset + ((P + b) - v) + 1] ELSE 0
  BY <1>1, <1>2, <1>3
<1> QED BY <1>4 DEF P, v

\* load reads the file within its bounds, so every byte of the page is one of
\* the file's or zero.
LEMMA PageBytesAreU8 ==
    ASSUME elf \in Images, NEW s \in ProgramHeaders, SegmentInFile(s), NEW p \in Nat
    PROVE  PageBytes(s, p) \in [Bytes -> U8]
<1>0. /\ s.vaddr \in Nat /\ s.filesz \in Nat /\ s.offset \in Nat /\ PAGE \in Nat /\ p * PAGE \in Nat
      /\ elf.bytes \in Seq(U8) /\ s.offset + s.filesz <= Len(elf.bytes) /\ Bytes \subseteq Nat
  BY PageAssumption, ImagesAssumption DEF ProgramHeaders, SegmentInFile, Bytes
<1>1. ASSUME NEW b \in Bytes PROVE PageBytes(s, p)[b] \in U8
  <2> DEFINE a == p * PAGE + b
             v == s.vaddr
             j == s.offset + (a - v) + 1
  <2>1. PageBytes(s, p)[b] = IF v <= a /\ a < v + s.filesz THEN elf.bytes[j] ELSE 0
    BY PageBytesAt
  <2>2. a \in Nat /\ v \in Nat /\ s.offset \in Nat /\ s.filesz \in Nat /\ Len(elf.bytes) \in Nat
        /\ s.offset + s.filesz <= Len(elf.bytes)
    BY <1>0
  <2> HIDE DEF a, v
  <2>3. v <= a /\ a < v + s.filesz => j \in 1 .. Len(elf.bytes)
    BY <2>2
  <2> HIDE DEF j
  <2>4. j \in 1 .. Len(elf.bytes) => elf.bytes[j] \in U8
    BY <1>0
  <2>5. 0 \in U8
    BY DEF U8
  <2> QED BY <2>1, <2>3, <2>4, <2>5
<1>2. PageBytes(s, p) = [b \in Bytes |-> PageBytes(s, p)[b]]
  BY DEF PageBytes
<1> QED BY <1>1, <1>2

\* At the address of offset o stands byte o of the segment.
LEMMA SegmentByte ==
    ASSUME NEW s \in ProgramHeaders, NEW o \in 0 .. s.memsz - 1
    PROVE  LET a == s.vaddr + o
           IN /\ a % PAGE \in Bytes
              /\ PageBytes(s, a \div PAGE)[a % PAGE] =
                   IF o < s.filesz THEN elf.bytes[s.offset + o + 1] ELSE 0
<1> DEFINE a == s.vaddr + o
           p == a \div PAGE
           b == a % PAGE
<1>0. s.vaddr \in Nat /\ s.filesz \in Nat /\ s.offset \in Nat /\ o \in Nat /\ a \in Nat
  BY DEF ProgramHeaders
<1>1. p \in Nat /\ b \in Bytes /\ a = p * PAGE + b
  BY <1>0, Division DEF Bytes
<1>2. PageBytes(s, p)[b] = IF s.vaddr <= a /\ a < s.vaddr + s.filesz
                           THEN elf.bytes[s.offset + (a - s.vaddr) + 1] ELSE 0
  BY <1>1, PageBytesAt
<1>3. s.vaddr <= a /\ (a < s.vaddr + s.filesz <=> o < s.filesz) /\ a - s.vaddr = o
  BY <1>0
<1> HIDE DEF a, p, b
<1>4. PageBytes(s, p)[b] = IF o < s.filesz THEN elf.bytes[s.offset + o + 1] ELSE 0
  BY <1>2, <1>3
<1> QED BY <1>1, <1>4 DEF a, p, b

-----------------------------------------------------------------------------
(***************************************************************************)
(* Memory: the frames of user pages hold bytes somebody wrote.             *)
(***************************************************************************)
MemInv ==
    /\ elf \in Images /\ mem \in [Frames -> [Bytes -> Nat]]
    /\ \A p \in DOMAIN pages :
         \/ pages[p].user = FALSE
         \/ pages[p].user = TRUE /\ mem[pages[p].frame] \in [Bytes -> U8]

\* Page p holds its part of segment s.
Holds(s, p) ==
    /\ p \in DOMAIN pages
    /\ pages[p].user = TRUE /\ pages[p].w = s.w /\ pages[p].x = s.x
    /\ mem[pages[p].frame] = PageBytes(s, p)

\* The allocator may move on; nothing else changes.
LEMMA Same ==
    ASSUME FrameInv, MemInv, next' \in Nat, next' >= next, pages' = pages, tables' = tables,
           mem' = mem, regions' = regions, elf' = elf
    PROVE  FrameInv' /\ MemInv' /\ \A s, q : Holds(s, q) => Holds(s, q)'
<1>0. UsableFrames' = UsableFrames /\ UsableFrames \in Seq(Frames) /\ next \in Nat
  BY MapsAssumption DEF FrameInv, UsableFrames
<1>1. \A f : Taken(UsableFrames, next, f) => Taken(UsableFrames, next', f)
  BY <1>0, TakenGrows
<1>2. Kept' <=> Kept
  BY <1>0 DEF Kept, Range
<1>3. FrameInv'
  BY <1>0, <1>1, <1>2 DEF FrameInv
<1>4. MemInv'
  BY DEF MemInv
<1>5. \A s, q : Holds(s, q) => Holds(s, q)'
  BY DEF Holds, PageBytes
<1> QED BY <1>3, <1>4, <1>5

\* A user page is mapped and its frame filled: the page of no segment changes,
\* because the frame was not taken.
LEMMA Placed ==
    ASSUME FrameInv, MemInv, NEW p, NEW w, NEW x, NEW bytes \in [Bytes -> U8],
           Nth(next) # None, NEW m, m = MapTo(p, Nth(next), TRUE, w, x, next + 1),
           Keep(m), m.ok, mem' = [mem EXCEPT ![Nth(next)] = bytes],
           regions' = regions, elf' = elf
    PROVE  /\ FrameInv' /\ MemInv' /\ DOMAIN pages' = DOMAIN pages \cup {p}
           /\ pages'[p] = [frame |-> Nth(next), user |-> TRUE, w |-> w, x |-> x]
           /\ mem'[Nth(next)] = bytes
           /\ \A s, q : Holds(s, q) => Holds(s, q)'
<1> DEFINE r == [frame |-> Nth(next), user |-> TRUE, w |-> w, x |-> x]
           f0 == Nth(next)
<1>0. next \in Nat /\ regions \in MemoryMaps /\ next + 1 \in Nat
  BY DEF FrameInv
<1>1. Answer(m, p, r, next + 1)
  BY <1>0, MapToAnswers, Zenon
<1>2. r.frame = f0 /\ r.user = TRUE
  OBVIOUS
<1>f. f0 = Nth(next)
  OBVIOUS
<1> HIDE DEF r, f0
<1>3. FrameInv'
  BY <1>0, <1>1, <1>2, <1>f, MapKeepsFrames, Zenon
<1>4. ~Taken(UsableFrames, next, f0) /\ f0 \in Frames
  BY <1>0, <1>f, FreshFrames
<1>5. /\ p \notin DOMAIN pages /\ DOMAIN pages' = DOMAIN pages \cup {p} /\ pages'[p] = r
      /\ \A q \in DOMAIN pages : pages'[q] = pages[q]
  BY <1>1, Zenon DEF Answer, Keep
<1>6. /\ mem' \in [Frames -> [Bytes -> Nat]] /\ mem'[f0] = bytes
      /\ \A f \in Frames : f # f0 => mem'[f] = mem[f]
  <2>1. bytes \in [Bytes -> Nat]
    BY DEF U8
  <2> QED BY <1>4, <1>f, <2>1 DEF MemInv
<1>7. \A q \in DOMAIN pages : pages[q].user = TRUE => pages[q].frame # f0 /\ pages[q].frame \in Frames
  <2> SUFFICES ASSUME NEW q \in DOMAIN pages, pages[q].user = TRUE
               PROVE  pages[q].frame # f0 /\ pages[q].frame \in Frames
    BY Zenon
  <2>1. Taken(UsableFrames, next, pages[q].frame)
    BY DEF FrameInv
  <2>2. UsableFrames \in Seq(Frames)
    BY <1>0, MapsAssumption DEF UsableFrames
  <2>3. pages[q].frame \in Frames
    BY <2>1, <2>2 DEF Taken
  <2> QED BY <1>4, <2>1, <2>3
<1>8. MemInv'
  <2>1. \A q \in DOMAIN pages' :
          \/ pages'[q].user = FALSE
          \/ pages'[q].user = TRUE /\ mem'[pages'[q].frame] \in [Bytes -> U8]
    BY <1>2, <1>5, <1>6, <1>7 DEF MemInv
  <2> QED BY <1>6, <2>1 DEF MemInv
<1>9. \A s, q : PageBytes(s, q)' = PageBytes(s, q)
  BY DEF PageBytes
<1>10. ASSUME NEW s, NEW q, Holds(s, q) PROVE Holds(s, q)'
  <2>1. q \in DOMAIN pages /\ pages'[q] = pages[q] /\ q \in DOMAIN pages'
    BY <1>5, <1>10 DEF Holds
  <2>2. mem'[pages'[q].frame] = mem[pages[q].frame]
    BY <1>6, <1>7, <1>10, <2>1 DEF Holds
  <2> QED BY <1>9, <1>10, <2>1, <2>2 DEF Holds
<1> QED BY <1>3, <1>5, <1>6, <1>8, <1>10, <1>f DEF r

\* A kernel page is mapped, or a mapping fails: no user page changes.
LEMMA Unplaced ==
    ASSUME FrameInv, MemInv, NEW p, NEW frame, NEW user, NEW w, NEW x, NEW n \in Nat,
           NEW m, m = MapTo(p, frame, user, w, x, n), Keep(m), user = FALSE \/ ~m.ok,
           \/ n = next + 1 /\ Nth(next) # None /\ frame = Nth(next)
           \/ n = next /\ p = TRAMPOLINE /\ frame = TRAMPOLINE /\ user = FALSE,
           mem' = mem, regions' = regions, elf' = elf
    PROVE  /\ FrameInv' /\ MemInv' /\ DOMAIN pages' \subseteq DOMAIN pages \cup {p}
           /\ \A s, q : Holds(s, q) => Holds(s, q)'
<1> DEFINE r == [frame |-> frame, user |-> user, w |-> w, x |-> x]
<1>0. next \in Nat /\ regions \in MemoryMaps
  BY DEF FrameInv
<1>1. Answer(m, p, r, n)
  BY MapToAnswers
<1>2. r.frame = frame /\ r.user = user
  OBVIOUS
<1> HIDE DEF r
<1>3. FrameInv'
  BY <1>1, <1>2, MapKeepsFrames, Zenon
<1>4. /\ \A q \in DOMAIN pages : q \in DOMAIN pages' /\ pages'[q] = pages[q]
      /\ \A q \in DOMAIN pages' : q \in DOMAIN pages \/ (q = p /\ pages'[q] = r /\ r.user = FALSE)
  <2>1. CASE m.ok
    BY <1>1, <1>2, <2>1 DEF Answer, Keep
  <2>2. CASE ~m.ok
    BY <1>1, <2>2 DEF Answer, Keep
  <2> QED BY <2>1, <2>2, Zenon
<1>5. MemInv'
  BY <1>4 DEF MemInv
<1>6. \A s, q : PageBytes(s, q)' = PageBytes(s, q)
  BY DEF PageBytes
<1>7. \A s, q : Holds(s, q) => Holds(s, q)'
  BY <1>4, <1>6 DEF Holds
<1> QED BY <1>3, <1>4, <1>5, <1>7

-----------------------------------------------------------------------------
(***************************************************************************)
(* The loader's progress: the pages of finished segments, and of the one   *)
(* at hand up to vpage, hold their bytes.                                  *)
(***************************************************************************)
PagesOf(s) == StartPage(s) .. EndPage(s) - 1

LoadInv ==
    /\ pc \in {"heap", "trampoline", "header", "ph", "page", "fallback", "stack", "enter", "panic"}
    /\ ph \in Nat \ {0} /\ vpage \in Nat
    /\ pc \in {"heap", "trampoline", "header"} => ph = 1
    /\ \A i \in DOMAIN elf.phs :
         i < ph /\ elf.phs[i].pt_load => \A p \in PagesOf(elf.phs[i]) : Holds(elf.phs[i], p)
    /\ pc = "page" =>
         LET s == elf.phs[ph]
         IN /\ ph \in DOMAIN elf.phs /\ s.pt_load /\ SegmentInFile(s) /\ vpage >= StartPage(s)
            /\ \A p \in StartPage(s) .. vpage - 1 : Holds(s, p)

(***************************************************************************)
(* Which pages are mapped, as far as a well-formed image goes; a failure   *)
(* is then one of the allocator.                                           *)
(***************************************************************************)
Heap == HEAP_START .. HEAP_START + HEAP_PAGES - 1

Finished(image, k) ==
    UNION {PagesOf(image.phs[i]) : i \in {j \in DOMAIN image.phs : j < k /\ image.phs[j].pt_load}}

Exhausted(fs, n) == n >= 1 /\ n - 1 >= Len(fs)

GoodInv ==
    /\ pc = "heap" => /\ vpage \in HEAP_START .. HEAP_START + HEAP_PAGES
                      /\ DOMAIN pages \subseteq {TRAMPOLINE} \cup (HEAP_START .. vpage - 1)
    /\ pc \in {"trampoline", "header"} => DOMAIN pages \subseteq {TRAMPOLINE} \cup Heap
    /\ WellFormed(elf) =>
         /\ pc \in {"ph", "stack"} =>
              DOMAIN pages \subseteq {TRAMPOLINE} \cup Heap \cup Finished(elf, ph)
         /\ pc = "page" =>
              DOMAIN pages \subseteq {TRAMPOLINE} \cup Heap \cup Finished(elf, ph)
                                      \cup {p \in PagesOf(elf.phs[ph]) : p < vpage}
         /\ pc \in {"fallback", "panic"} => Exhausted(UsableFrames, next)

LoaderInv == FrameInv /\ MemInv /\ LoadInv /\ GoodInv

LEMMA Basics ==
    ASSUME LoaderInv
    PROVE  /\ FrameInv /\ MemInv /\ LoadInv /\ GoodInv
           /\ regions \in MemoryMaps /\ elf \in Images
           /\ next \in Nat /\ next + 1 \in Nat /\ ph \in Nat /\ ph # 0 /\ vpage \in Nat
<1>1. FrameInv /\ MemInv /\ LoadInv /\ GoodInv
  BY DEF LoaderInv
<1>2. regions \in MemoryMaps /\ next \in Nat
  BY <1>1 DEF FrameInv
<1>3. elf \in Images
  BY <1>1 DEF MemInv
<1>4. ph \in Nat \ {0} /\ vpage \in Nat
  BY <1>1 DEF LoadInv
<1> QED BY <1>1, <1>2, <1>3, <1>4

LEMMA NthNone ==
    ASSUME regions \in MemoryMaps, NEW k \in Nat
    PROVE  Len(UsableFrames) \in Nat /\ (Nth(k) = None <=> k >= Len(UsableFrames))
<1>1. UsableFrames \in Seq(Frames) /\ None \notin Frames
  BY MapsAssumption DEF UsableFrames
<1>2. Len(UsableFrames) \in Nat /\ DOMAIN UsableFrames = 1 .. Len(UsableFrames)
  BY <1>1
<1>3. CASE k < Len(UsableFrames)
  <2>1. k + 1 \in DOMAIN UsableFrames
    BY <1>2, <1>3
  <2>2. UsableFrames[k + 1] \in Frames
    BY <1>1, <2>1
  <2>3. Nth(k) = UsableFrames[k + 1]
    BY <1>3 DEF Nth
  <2> QED BY <1>1, <1>2, <1>3, <2>2, <2>3
<1>4. CASE ~(k < Len(UsableFrames))
  BY <1>2, <1>4 DEF Nth
<1> QED BY <1>3, <1>4

\* A mapping of a page that is not mapped fails only for want of a frame.
LEMMA FailsExhausted ==
    ASSUME FrameInv, NEW p, NEW frame, NEW user, NEW w, NEW x, NEW n \in Nat,
           NEW m, m = MapTo(p, frame, user, w, x, n), Keep(m), ~m.ok,
           p \notin DOMAIN pages \cup BootPages
    PROVE  Exhausted(UsableFrames, next')
<1>1. Answer(m, p, [frame |-> frame, user |-> user, w |-> w, x |-> x], n)
  BY MapToAnswers
<1>2. Nth(n) = None /\ next' = n + 1
  BY <1>1 DEF Answer, Keep
<1>3. n >= Len(UsableFrames) /\ Len(UsableFrames) \in Nat
  BY <1>2, NthNone DEF FrameInv
<1> QED BY <1>2, <1>3 DEF Exhausted

\* What WellFormed says in terms of the page loop.
LEMMA GoodSegments ==
    ASSUME elf \in Images, WellFormed(elf)
    PROVE  /\ HeaderOk(elf)
           /\ \A i \in DOMAIN elf.phs : PhInFile(i) /\ SlicesInFile(i)
           /\ \A i \in DOMAIN elf.phs : elf.phs[i].pt_load =>
                /\ SegmentInFile(elf.phs[i])
                /\ PagesOf(elf.phs[i]) \cap (Heap \cup {TRAMPOLINE, USER_STACK}) = {}
                /\ PagesOf(elf.phs[i]) \cap (BootPages \cup NonCanonical) = {}
           /\ \A i, j \in DOMAIN elf.phs : i # j /\ elf.phs[i].pt_load /\ elf.phs[j].pt_load =>
                PagesOf(elf.phs[i]) \cap PagesOf(elf.phs[j]) = {}
<1> DEFINE A(i) == {(elf.phs[i].vaddr + o) \div PAGE : o \in 0 .. elf.phs[i].memsz - 1}
<1>1. elf.phs \in Seq(ProgramHeaders) /\ DOMAIN elf.phs = 1 .. Len(elf.phs)
  BY ImagesAssumption
<1>2. /\ HeaderOk(elf) /\ \A i \in DOMAIN elf.phs : PhInFile(i) /\ SlicesInFile(i)
      /\ \A i \in DOMAIN elf.phs : elf.phs[i].pt_load =>
           /\ SegmentInFile(elf.phs[i]) /\ elf.phs[i].memsz > 0 /\ A(i) \cap Reserved = {}
      /\ \A i, j \in DOMAIN elf.phs :
           i # j /\ elf.phs[i].pt_load /\ elf.phs[j].pt_load => A(i) \cap A(j) = {}
  <2> DEFINE S == {i \in 1 .. Len(elf.phs) : elf.phs[i].pt_load}
  <2>1. /\ HeaderOk(elf) /\ \A i \in 1 .. Len(elf.phs) : PhInFile(i) /\ SlicesInFile(i)
        /\ \A i \in S : SegmentInFile(elf.phs[i]) /\ elf.phs[i].memsz > 0 /\ A(i) \cap Reserved = {}
        /\ \A i, j \in S : i # j => A(i) \cap A(j) = {}
    BY Zenon DEF WellFormed
  <2> HIDE DEF A
  <2> QED BY <1>1, <2>1
<1>3. \A i \in DOMAIN elf.phs : elf.phs[i].pt_load => PagesOf(elf.phs[i]) \subseteq A(i)
  <2> SUFFICES ASSUME NEW i \in DOMAIN elf.phs, elf.phs[i].pt_load,
                      NEW p \in PagesOf(elf.phs[i])
               PROVE  p \in A(i)
    OBVIOUS
  <2>1. elf.phs[i] \in ProgramHeaders /\ elf.phs[i].memsz > 0
    BY <1>1, <1>2
  <2>2. PICK o \in 0 .. elf.phs[i].memsz - 1 : (elf.phs[i].vaddr + o) \div PAGE = p
    BY <2>1, SegmentPages DEF PagesOf
  <2> QED BY <2>2
<1>4. Heap \cup {TRAMPOLINE, USER_STACK} \cup BootPages \cup NonCanonical = Reserved
  BY DEF Heap, Reserved
<1> HIDE DEF A
<1> QED BY <1>2, <1>3, <1>4

\* Whatever keeps the pages that hold their bytes keeps the finished segments.
LEMMA KeepsFinished ==
    ASSUME elf' = elf, \A s, q : Holds(s, q) => Holds(s, q)', NEW k,
           \A i \in DOMAIN elf.phs : i < k /\ elf.phs[i].pt_load =>
             \A p \in PagesOf(elf.phs[i]) : Holds(elf.phs[i], p)
    PROVE  \A i \in DOMAIN elf.phs : i < k /\ elf.phs[i].pt_load =>
             \A p \in PagesOf(elf.phs[i]) : Holds(elf.phs[i], p)'
<1> SUFFICES ASSUME NEW i \in DOMAIN elf.phs, i < k, elf.phs[i].pt_load,
                    NEW p \in PagesOf(elf.phs[i])
             PROVE  Holds(elf.phs[i], p)'
  BY DEF PagesOf
<1>1. PICK s : s = elf.phs[i]
  OBVIOUS
<1>2. Holds(s, p)'
  BY <1>1
<1> QED BY <1>1, <1>2 DEF Holds

LEMMA Progress ==
    ASSUME LoadInv, elf' = elf, ph' = ph, vpage' \in Nat,
           \A s, q : Holds(s, q) => Holds(s, q)',
           pc' \in {"heap", "trampoline", "header", "ph", "fallback", "stack", "enter", "panic"},
           pc' \in {"heap", "trampoline", "header"} => ph = 1
    PROVE  LoadInv'
<1>1. \A i \in DOMAIN elf.phs : i < ph /\ elf.phs[i].pt_load =>
        \A p \in PagesOf(elf.phs[i]) : Holds(elf.phs[i], p)'
  BY KeepsFinished DEF LoadInv
<1> QED BY <1>1, Zenon DEF LoadInv, PagesOf, StartPage, EndPage

LEMMA LoaderInitInv == LoaderInit => LoaderInv
<1> SUFFICES ASSUME LoaderInit PROVE LoaderInv
  OBVIOUS
<1>0. /\ regions \in MemoryMaps /\ elf \in Images /\ next = 0 /\ pc = "heap" /\ ph = 1
      /\ vpage = HEAP_START /\ HEAP_START \in Nat /\ HEAP_PAGES \in Nat
      /\ mem = [f \in Frames |-> [b \in Bytes |-> Junk]]
  BY LayoutAssumption DEF LoaderInit
<1>1. PICK P : /\ P \subseteq {TRAMPOLINE}
               /\ pages = [p \in P |-> [frame |-> TRAMPOLINE, user |-> FALSE, w |-> TRUE, x |-> TRUE]]
  BY Zenon DEF LoaderInit
<1>2. /\ DOMAIN pages \subseteq {TRAMPOLINE}
      /\ \A p \in DOMAIN pages : pages[p].frame = TRAMPOLINE /\ pages[p].user = FALSE
  BY <1>1
<1>3. \A t \in DOMAIN tables : tables[t] = None
  BY DEF LoaderInit
<1>4. FrameInv
  BY <1>0, <1>2, <1>3, MapsAssumption DEF FrameInv
<1>5. MemInv
  BY <1>0, <1>2 DEF MemInv, Junk
<1>6. LoadInv
  <2>1. DOMAIN elf.phs = 1 .. Len(elf.phs) /\ Len(elf.phs) \in Nat
    BY <1>0, ImagesAssumption
  <2> QED BY <1>0, <2>1 DEF LoadInv
<1>7. GoodInv
  BY <1>0, <1>2 DEF GoodInv
<1> QED BY <1>4, <1>5, <1>6, <1>7 DEF LoaderInv

LEMMA HeapSteps ==
    ASSUME LoaderInv, HeapPage \/ HeapReady
    PROVE  LoaderInv'
<1>0. /\ FrameInv /\ MemInv /\ LoadInv /\ GoodInv /\ regions' = regions /\ elf' = elf
      /\ pc = "heap" /\ ph = 1 /\ next \in Nat /\ vpage \in Nat /\ mem' = mem
      /\ regions \in MemoryMaps /\ UsableFrames' = UsableFrames
  <2>1. /\ regions' = regions /\ elf' = elf /\ pc = "heap" /\ mem' = mem
    BY Zenon DEF HeapPage, HeapReady, Panic
  <2>2. ph = 1
    BY <2>1, Basics DEF LoadInv
  <2> QED BY <2>1, <2>2, Basics DEF UsableFrames
<1>1. /\ HEAP_START \in Nat /\ HEAP_PAGES \in Nat /\ TRAMPOLINE \notin Heap
  BY LayoutAssumption DEF Heap
<1>2. /\ vpage \in HEAP_START .. HEAP_START + HEAP_PAGES
      /\ DOMAIN pages \subseteq {TRAMPOLINE} \cup (HEAP_START .. vpage - 1)
  BY <1>0 DEF GoodInv
<1>3. CASE HeapReady
  <2>1. /\ vpage = HEAP_START + HEAP_PAGES /\ pc' = "trampoline" /\ UNCHANGED mm /\ ph' = ph /\ vpage' = vpage
    BY <1>3 DEF HeapReady, load
  <2>2. next' = next /\ pages' = pages /\ tables' = tables
    BY <2>1 DEF mm
  <2>3. FrameInv' /\ MemInv' /\ \A s, q : Holds(s, q) => Holds(s, q)'
    BY <1>0, <2>2, Same
  <2>4. LoadInv'
    BY <1>0, <2>1, <2>3, Progress
  <2>5. GoodInv'
    <3>1. DOMAIN pages' \subseteq {TRAMPOLINE} \cup Heap
      BY <1>1, <1>2, <2>1, <2>2 DEF Heap
    <3>2. Heap' = Heap
      BY DEF Heap
    <3> QED BY <2>1, <3>1, <3>2 DEF GoodInv
  <2> QED BY <2>3, <2>4, <2>5 DEF LoaderInv
<1>4. CASE HeapPage /\ Nth(next) = None
  <2>1. /\ next' = next + 1 /\ pages' = pages /\ tables' = tables /\ pc' = "panic"
        /\ ph' = ph /\ vpage' = vpage
    BY <1>4 DEF HeapPage, Panic, load
  <2>2. FrameInv' /\ MemInv' /\ \A s, q : Holds(s, q) => Holds(s, q)'
    BY <1>0, <2>1, Same
  <2>3. LoadInv'
    BY <1>0, <2>1, <2>2, Progress
  <2>4. Exhausted(UsableFrames, next')
    BY <1>0, <1>4, <2>1, NthNone DEF Exhausted
  <2>5. GoodInv'
    BY <1>0, <2>1, <2>4 DEF GoodInv
  <2> QED BY <2>2, <2>3, <2>5 DEF LoaderInv
<1>5. CASE HeapPage /\ Nth(next) # None
  <2> DEFINE m == MapTo(vpage, Nth(next), FALSE, TRUE, TRUE, next + 1)
  <2>1. /\ Keep(m) /\ vpage < HEAP_START + HEAP_PAGES
        /\ \/ m.ok /\ vpage' = vpage + 1 /\ pc' = pc /\ ph' = ph
           \/ ~m.ok /\ pc' = "panic" /\ ph' = ph /\ vpage' = vpage
    BY <1>5, Zenon DEF HeapPage, Panic, load
  <2>m. m = MapTo(vpage, Nth(next), FALSE, TRUE, TRUE, next + 1)
    OBVIOUS
  <2> HIDE DEF m
  <2>n. next + 1 \in Nat
    BY <1>0
  <2>2. /\ FrameInv' /\ MemInv' /\ DOMAIN pages' \subseteq DOMAIN pages \cup {vpage}
        /\ \A s, q : Holds(s, q) => Holds(s, q)'
    BY <1>0, <1>5, <2>1, <2>m, <2>n, Unplaced, Zenon
  <2>3. LoadInv'
    BY <1>0, <2>1, <2>2, Progress
  <2>4. vpage \notin DOMAIN pages \cup BootPages
    <3>1. vpage \in Heap /\ vpage \notin DOMAIN pages
      BY <1>1, <1>2, <2>1 DEF Heap
    <3> QED BY <3>1, LayoutAssumption DEF Heap
  <2>5. ~m.ok => Exhausted(UsableFrames, next')
    BY <1>0, <2>1, <2>4, <2>m, <2>n, FailsExhausted, Zenon
  <2>6. GoodInv'
    <3>1. CASE m.ok
      <4>1. /\ vpage' \in HEAP_START .. HEAP_START + HEAP_PAGES
            /\ DOMAIN pages' \subseteq {TRAMPOLINE} \cup (HEAP_START .. vpage' - 1)
        BY <1>1, <1>2, <2>1, <2>2, <3>1
      <4> QED BY <1>0, <2>1, <3>1, <4>1 DEF GoodInv
    <3>2. CASE ~m.ok
      BY <1>0, <2>1, <2>5, <3>2 DEF GoodInv
    <3> QED BY <3>1, <3>2
  <2> QED BY <2>2, <2>3, <2>6 DEF LoaderInv
<1> QED BY <1>3, <1>4, <1>5

LEMMA TrampolineStep ==
    ASSUME LoaderInv, MapTrampoline
    PROVE  LoaderInv'
<1> DEFINE m == MapTo(TRAMPOLINE, TRAMPOLINE, FALSE, TRUE, TRUE, next)
<1>0. /\ FrameInv /\ MemInv /\ LoadInv /\ GoodInv /\ regions' = regions /\ elf' = elf
      /\ pc = "trampoline" /\ ph = 1 /\ next \in Nat /\ vpage \in Nat /\ mem' = mem
      /\ pc' = "header" /\ ph' = ph /\ vpage' = vpage
  <2>1. ph = 1
    BY Basics DEF LoadInv, MapTrampoline
  <2> QED BY <2>1, Basics DEF MapTrampoline, load
<1>1. Keep(m)
  BY Zenon DEF MapTrampoline
<1>m. m = MapTo(TRAMPOLINE, TRAMPOLINE, FALSE, TRUE, TRUE, next)
  OBVIOUS
<1> HIDE DEF m
<1>2. /\ FrameInv' /\ MemInv' /\ DOMAIN pages' \subseteq DOMAIN pages \cup {TRAMPOLINE}
      /\ \A s, q : Holds(s, q) => Holds(s, q)'
  BY <1>0, <1>1, <1>m, Unplaced, Zenon
<1>3. LoadInv'
  BY <1>0, <1>2, Progress
<1>4. GoodInv'
  BY <1>0, <1>2 DEF GoodInv
<1> QED BY <1>2, <1>3, <1>4 DEF LoaderInv

LEMMA HeaderStep ==
    ASSUME LoaderInv, CheckHeader
    PROVE  LoaderInv'
<1>0. /\ FrameInv /\ MemInv /\ LoadInv /\ GoodInv /\ regions' = regions /\ elf' = elf
      /\ pc = "header" /\ ph = 1 /\ ph' = ph /\ next \in Nat /\ vpage \in Nat /\ mem' = mem
      /\ vpage' = vpage /\ next' = next /\ pages' = pages /\ tables' = tables
      /\ pc' = (IF HeaderOk(elf) THEN "ph" ELSE "fallback") /\ elf \in Images
  <2>1. ph = 1
    BY Basics DEF LoadInv, CheckHeader
  <2> QED BY <2>1, Basics DEF CheckHeader, mm
<1>1. FrameInv' /\ MemInv' /\ \A s, q : Holds(s, q) => Holds(s, q)'
  BY <1>0, Same
<1>2. LoadInv'
  BY <1>0, <1>1, Progress
<1>3. WellFormed(elf)' <=> WellFormed(elf)
  BY <1>0 DEF WellFormed, PhInFile, SlicesInFile, SegmentInFile
<1>4. GoodInv'
  BY <1>0, <1>3, GoodSegments DEF GoodInv
<1> QED BY <1>1, <1>2, <1>4 DEF LoaderInv

LEMMA SameImage ==
    ASSUME elf' = elf
    PROVE  /\ WellFormed(elf)' <=> WellFormed(elf)
           /\ \A s : SegmentInFile(s)' <=> SegmentInFile(s)
BY DEF WellFormed, PhInFile, SlicesInFile, SegmentInFile

\* A failure of the allocator is all GoodInv asks of a failed load.
LEMMA Ends ==
    ASSUME regions' = regions, elf' = elf, pc' \in {"fallback", "panic"},
           WellFormed(elf) => Exhausted(UsableFrames, next')
    PROVE  GoodInv'
<1>1. UsableFrames' = UsableFrames
  BY DEF UsableFrames
<1> QED BY <1>1, SameImage DEF GoodInv

LEMMA FinishedGrows ==
    ASSUME NEW e, DOMAIN e.phs \subseteq Nat, NEW k \in Nat
    PROVE  /\ Finished(e, k) \subseteq Finished(e, k + 1)
           /\ k \in DOMAIN e.phs /\ e.phs[k].pt_load => PagesOf(e.phs[k]) \subseteq Finished(e, k + 1)
<1> DEFINE S(n) == {j \in DOMAIN e.phs : j < n /\ e.phs[j].pt_load}
<1>1. S(k) \subseteq S(k + 1)
  OBVIOUS
<1>2. k \in DOMAIN e.phs /\ e.phs[k].pt_load => k \in S(k + 1)
  OBVIOUS
<1>3. \A n : Finished(e, n) = UNION {PagesOf(e.phs[i]) : i \in S(n)}
  BY DEF Finished
<1> HIDE DEF S
<1> QED BY <1>1, <1>2, <1>3

LEMMA ProgramHeaderStep ==
    ASSUME LoaderInv, ProgramHeader
    PROVE  LoaderInv'
<1> DEFINE s == elf.phs[ph]
<1>0. /\ FrameInv /\ MemInv /\ LoadInv /\ GoodInv /\ regions' = regions /\ elf' = elf
      /\ pc = "ph" /\ ph \in Nat /\ ph # 0 /\ next \in Nat /\ vpage \in Nat /\ mem' = mem
      /\ next' = next /\ pages' = pages /\ tables' = tables
      /\ elf \in Images /\ ph <= Len(elf.phs)
  BY Basics DEF ProgramHeader, mm
<1>1. FrameInv' /\ MemInv' /\ \A t, q : Holds(t, q) => Holds(t, q)'
  BY <1>0, Same
<1>2. /\ elf.phs \in Seq(ProgramHeaders) /\ DOMAIN elf.phs = 1 .. Len(elf.phs)
      /\ Len(elf.phs) \in Nat /\ ph \in DOMAIN elf.phs /\ DOMAIN elf.phs \subseteq Nat
  <2>1. elf.phs \in Seq(ProgramHeaders)
    BY <1>0, ImagesAssumption
  <2> QED BY <1>0, <2>1
<1>3. WellFormed(elf) => DOMAIN pages \subseteq {TRAMPOLINE} \cup Heap \cup Finished(elf, ph)
  BY <1>0 DEF GoodInv
<1>4. CASE /\ pc' \in {"fallback", "panic"} /\ UNCHANGED load
           /\ ~PhInFile(ph) \/ ~SlicesInFile(ph) \/ (s.pt_load /\ ~SegmentInFile(s))
  <2>1. ph' = ph /\ vpage' = vpage
    BY <1>4 DEF load
  <2>2. LoadInv'
    BY <1>0, <1>1, <1>4, <2>1, Progress
  <2>3. ~WellFormed(elf)
    BY <1>0, <1>2, <1>4, GoodSegments
  <2>4. GoodInv'
    BY <1>0, <1>4, <2>3, Ends
  <2> QED BY <1>1, <2>2, <2>4 DEF LoaderInv
<1>5. CASE ~s.pt_load /\ ph' = ph + 1 /\ UNCHANGED <<pc, vpage>>
  <2>1. LoadInv'
    <3>1. \A i \in DOMAIN elf.phs : i < ph + 1 /\ elf.phs[i].pt_load =>
            \A p \in PagesOf(elf.phs[i]) : Holds(elf.phs[i], p)
      <4> SUFFICES ASSUME NEW i \in DOMAIN elf.phs, i < ph + 1, elf.phs[i].pt_load
                   PROVE  i < ph
        BY <1>0, Zenon DEF LoadInv
      <4> QED BY <1>0, <1>2, <1>5
    <3>3. \A i \in DOMAIN elf.phs : i < ph + 1 /\ elf.phs[i].pt_load =>
            \A p \in PagesOf(elf.phs[i]) : Holds(elf.phs[i], p)'
      BY <1>0, <1>1, <3>1, KeepsFinished
    <3> QED BY <1>0, <1>5, <3>3 DEF LoadInv, PagesOf, StartPage, EndPage
  <2>2. GoodInv'
    <3>1. Finished(elf, ph) \subseteq Finished(elf, ph + 1)
      BY <1>0, <1>2, FinishedGrows
    <3> QED BY <1>0, <1>3, <1>5, <3>1, SameImage DEF GoodInv
  <2> QED BY <1>1, <2>1, <2>2 DEF LoaderInv
<1>6. CASE s.pt_load /\ SegmentInFile(s) /\ pc' = "page" /\ vpage' = StartPage(s) /\ ph' = ph
  <2>1. s \in ProgramHeaders
    BY <1>2
  <2>2. StartPage(s) \in Nat
    BY <2>1, Division, PageAssumption DEF StartPage, ProgramHeaders
  <2>3. \A p : p \notin StartPage(s) .. StartPage(s) - 1
    BY <2>2
  <2>4. LoadInv'
    <3>1. \A i \in DOMAIN elf.phs : i < ph /\ elf.phs[i].pt_load =>
            \A p \in PagesOf(elf.phs[i]) : Holds(elf.phs[i], p)'
      BY <1>0, <1>1, KeepsFinished DEF LoadInv
    <3>2. SegmentInFile(s)' /\ StartPage(s)' = StartPage(s)
      BY <1>0, <1>6 DEF SegmentInFile, StartPage
    <3> QED BY <1>0, <1>2, <1>6, <2>2, <2>3, <3>1, <3>2 DEF LoadInv, PagesOf, StartPage, EndPage
  <2>5. GoodInv'
    BY <1>0, <1>3, <1>6, SameImage DEF GoodInv
  <2> QED BY <1>1, <2>4, <2>5 DEF LoaderInv
<1> QED BY <1>4, <1>5, <1>6 DEF ProgramHeader

LEMMA SegmentDoneStep ==
    ASSUME LoaderInv, SegmentDone
    PROVE  LoaderInv'
<1> DEFINE s == elf.phs[ph]
<1>0. /\ FrameInv /\ MemInv /\ LoadInv /\ GoodInv /\ regions' = regions /\ elf' = elf
      /\ pc = "page" /\ pc' = "ph" /\ ph \in Nat /\ ph # 0 /\ ph' = ph + 1
      /\ next \in Nat /\ vpage \in Nat /\ vpage' = vpage /\ mem' = mem
      /\ next' = next /\ pages' = pages /\ tables' = tables
      /\ elf \in Images /\ vpage >= EndPage(s)
  BY Basics DEF SegmentDone, mm
<1>1. FrameInv' /\ MemInv' /\ \A t, q : Holds(t, q) => Holds(t, q)'
  BY <1>0, Same
<1>2. /\ ph \in DOMAIN elf.phs /\ s.pt_load /\ s \in ProgramHeaders /\ DOMAIN elf.phs \subseteq Nat
      /\ \A p \in StartPage(s) .. vpage - 1 : Holds(s, p)
  <2>1. elf.phs \in Seq(ProgramHeaders)
    BY <1>0, ImagesAssumption
  <2> QED BY <1>0, <2>1 DEF LoadInv
<1>3. StartPage(s) \in Nat /\ EndPage(s) \in Nat
  <2>1. s.vaddr \in Nat /\ s.memsz \in Nat /\ PAGE \in Nat \ {0}
    BY <1>2, PageAssumption DEF ProgramHeaders
  <2>2. s.vaddr + s.memsz + PAGE - 1 \in Nat
    BY <2>1
  <2> QED BY <2>1, <2>2, Division, Zenon DEF StartPage, EndPage
<1>4. PagesOf(s) \subseteq StartPage(s) .. vpage - 1
  BY <1>0, <1>3 DEF PagesOf
<1>5. \A i \in DOMAIN elf.phs : i < ph + 1 /\ elf.phs[i].pt_load =>
        \A p \in PagesOf(elf.phs[i]) : Holds(elf.phs[i], p)
  <2> SUFFICES ASSUME NEW i \in DOMAIN elf.phs, i < ph + 1, elf.phs[i].pt_load,
                      NEW p \in PagesOf(elf.phs[i])
               PROVE  Holds(elf.phs[i], p)
    OBVIOUS
  <2>1. i < ph \/ i = ph
    BY <1>0, <1>2
  <2>2. CASE i < ph
    BY <1>0, <2>2 DEF LoadInv
  <2>3. CASE i = ph
    BY <1>2, <1>4, <2>3
  <2> QED BY <2>1, <2>2, <2>3
<1>6. \A i \in DOMAIN elf.phs : i < ph + 1 /\ elf.phs[i].pt_load =>
        \A p \in PagesOf(elf.phs[i]) : Holds(elf.phs[i], p)'
  BY <1>0, <1>1, <1>5, KeepsFinished
<1>7. LoadInv'
  BY <1>0, <1>6 DEF LoadInv, PagesOf, StartPage, EndPage
<1>8. GoodInv'
  <2>1. /\ Finished(elf, ph) \subseteq Finished(elf, ph + 1)
        /\ PagesOf(s) \subseteq Finished(elf, ph + 1)
    BY <1>0, <1>2, FinishedGrows
  <2> QED BY <1>0, <2>1, SameImage DEF GoodInv
<1> QED BY <1>1, <1>7, <1>8 DEF LoaderInv

LEMMA LoadOkStep ==
    ASSUME LoaderInv, LoadOk
    PROVE  LoaderInv'
<1>0. /\ FrameInv /\ MemInv /\ LoadInv /\ GoodInv /\ regions' = regions /\ elf' = elf
      /\ pc = "ph" /\ pc' = "stack" /\ ph' = ph /\ next \in Nat /\ vpage \in Nat /\ mem' = mem
      /\ vpage' = vpage /\ next' = next /\ pages' = pages /\ tables' = tables
  BY Basics DEF LoadOk, mm, load
<1>1. FrameInv' /\ MemInv' /\ \A s, q : Holds(s, q) => Holds(s, q)'
  BY <1>0, Same
<1>2. LoadInv'
  BY <1>0, <1>1, Progress
<1>3. GoodInv'
  BY <1>0, SameImage DEF GoodInv
<1> QED BY <1>1, <1>2, <1>3 DEF LoaderInv

LEMMA LoadPageStep ==
    ASSUME LoaderInv, LoadPage
    PROVE  LoaderInv'
<1> DEFINE s == elf.phs[ph]
           m == MapTo(vpage, Nth(next), TRUE, s.w, s.x, next + 1)
<1>0. /\ FrameInv /\ MemInv /\ LoadInv /\ GoodInv /\ regions' = regions /\ elf' = elf
      /\ pc = "page" /\ ph \in Nat /\ ph # 0 /\ ph' = ph /\ next \in Nat /\ vpage \in Nat
      /\ elf \in Images /\ regions \in MemoryMaps /\ vpage < EndPage(s) /\ next + 1 \in Nat
  BY Basics DEF LoadPage
<1>1. /\ \/ /\ Nth(next) = None /\ next' = next + 1 /\ pc' = "fallback"
           /\ pages' = pages /\ tables' = tables /\ mem' = mem /\ vpage' = vpage
        \/ /\ Nth(next) # None /\ vpage \in NonCanonical /\ next' = next + 1 /\ pc' = "panic"
           /\ pages' = pages /\ tables' = tables /\ mem' = mem /\ vpage' = vpage
        \/ /\ Nth(next) # None /\ vpage \notin NonCanonical
           /\ Keep(m) /\ ~m.ok /\ pc' = "fallback" /\ mem' = mem /\ vpage' = vpage
        \/ /\ Nth(next) # None /\ vpage \notin NonCanonical
           /\ Keep(m) /\ m.ok /\ pc' = pc /\ vpage' = vpage + 1
           /\ mem' = [mem EXCEPT ![Nth(next)] = PageBytes(s, vpage)]
  BY Zenon DEF LoadPage
<1>m. m = MapTo(vpage, Nth(next), TRUE, s.w, s.x, next + 1)
  OBVIOUS
<1> HIDE DEF m
<1>2. /\ ph \in DOMAIN elf.phs /\ s.pt_load /\ s \in ProgramHeaders /\ SegmentInFile(s)
      /\ vpage >= StartPage(s) /\ \A p \in StartPage(s) .. vpage - 1 : Holds(s, p)
  <2>1. elf.phs \in Seq(ProgramHeaders)
    BY <1>0, ImagesAssumption
  <2> QED BY <1>0, <2>1 DEF LoadInv
<1>3. StartPage(s) \in Nat /\ EndPage(s) \in Nat
  <2>1. s.vaddr \in Nat /\ s.memsz \in Nat /\ PAGE \in Nat \ {0}
    BY <1>2, PageAssumption DEF ProgramHeaders
  <2>2. s.vaddr + s.memsz + PAGE - 1 \in Nat
    BY <2>1
  <2> QED BY <2>1, <2>2, Division, Zenon DEF StartPage, EndPage
<1>4. vpage \in PagesOf(s)
  BY <1>0, <1>2, <1>3 DEF PagesOf
<1>5. WellFormed(elf) => vpage \notin DOMAIN pages \cup BootPages \cup NonCanonical
  <2> SUFFICES ASSUME WellFormed(elf)
               PROVE  vpage \notin DOMAIN pages \cup BootPages \cup NonCanonical
    OBVIOUS
  <2>1. DOMAIN pages \subseteq {TRAMPOLINE} \cup Heap \cup Finished(elf, ph)
                              \cup {p \in PagesOf(s) : p < vpage}
    BY <1>0 DEF GoodInv
  <2>2. /\ PagesOf(s) \cap (Heap \cup {TRAMPOLINE, USER_STACK}) = {}
        /\ PagesOf(s) \cap (BootPages \cup NonCanonical) = {}
        /\ \A i, j \in DOMAIN elf.phs : i # j /\ elf.phs[i].pt_load /\ elf.phs[j].pt_load =>
              PagesOf(elf.phs[i]) \cap PagesOf(elf.phs[j]) = {}
    BY <1>0, <1>2, GoodSegments
  <2>3. vpage \notin Finished(elf, ph)
    <3> SUFFICES ASSUME NEW j \in DOMAIN elf.phs, j < ph, elf.phs[j].pt_load
                 PROVE  vpage \notin PagesOf(elf.phs[j])
      BY DEF Finished
    <3>1. j # ph
      BY <1>0
    <3> QED BY <1>2, <1>4, <2>2, <3>1
  <2>4. ~(vpage < vpage)
    BY <1>0
  <2> QED BY <1>4, <2>1, <2>2, <2>3, <2>4
<1>6. CASE Nth(next) = None
  <2>1. /\ next' = next + 1 /\ pc' = "fallback" /\ pages' = pages /\ tables' = tables
        /\ mem' = mem /\ vpage' = vpage
    BY <1>1, <1>6
  <2>2. FrameInv' /\ MemInv' /\ \A t, q : Holds(t, q) => Holds(t, q)'
    BY <1>0, <2>1, Same
  <2>3. LoadInv'
    BY <1>0, <2>1, <2>2, Progress
  <2>4. Exhausted(UsableFrames, next')
    BY <1>0, <1>6, <2>1, NthNone DEF Exhausted
  <2>5. GoodInv'
    BY <1>0, <2>1, <2>4, Ends
  <2> QED BY <2>2, <2>3, <2>5 DEF LoaderInv
<1>7. CASE Nth(next) # None /\ vpage \in NonCanonical
  <2>1. /\ next' = next + 1 /\ pc' = "panic" /\ pages' = pages /\ tables' = tables
        /\ mem' = mem /\ vpage' = vpage
    BY <1>1, <1>7
  <2>2. FrameInv' /\ MemInv' /\ \A t, q : Holds(t, q) => Holds(t, q)'
    BY <1>0, <2>1, Same
  <2>3. LoadInv'
    BY <1>0, <2>1, <2>2, Progress
  <2>4. GoodInv'
    BY <1>0, <1>5, <1>7, <2>1, Ends
  <2> QED BY <2>2, <2>3, <2>4 DEF LoaderInv
<1>8. CASE Nth(next) # None /\ vpage \notin NonCanonical /\ ~m.ok
  <2>1. Keep(m) /\ pc' = "fallback" /\ mem' = mem /\ vpage' = vpage
    BY <1>1, <1>8
  <2>2. FrameInv' /\ MemInv' /\ \A t, q : Holds(t, q) => Holds(t, q)'
    BY <1>0, <1>8, <1>m, <2>1, Unplaced, Zenon
  <2>3. LoadInv'
    BY <1>0, <2>1, <2>2, Progress
  <2>4. WellFormed(elf) => Exhausted(UsableFrames, next')
    BY <1>0, <1>5, <1>8, <1>m, <2>1, FailsExhausted, Zenon
  <2>5. GoodInv'
    BY <1>0, <2>1, <2>4, Ends
  <2> QED BY <2>2, <2>3, <2>5 DEF LoaderInv
<1>9. CASE Nth(next) # None /\ vpage \notin NonCanonical /\ m.ok
  <2>1. /\ Keep(m) /\ pc' = "page" /\ vpage' = vpage + 1
        /\ mem' = [mem EXCEPT ![Nth(next)] = PageBytes(s, vpage)]
    BY <1>0, <1>1, <1>9
  <2>b. PageBytes(s, vpage) \in [Bytes -> U8]
    BY <1>0, <1>2, PageBytesAreU8
  <2>2. /\ FrameInv' /\ MemInv' /\ DOMAIN pages' = DOMAIN pages \cup {vpage}
        /\ pages'[vpage] = [frame |-> Nth(next), user |-> TRUE, w |-> s.w, x |-> s.x]
        /\ mem'[Nth(next)] = PageBytes(s, vpage)
        /\ \A t, q : Holds(t, q) => Holds(t, q)'
    BY <1>0, <1>9, <1>m, <2>1, <2>b, Placed, Zenon
  <2>3. PICK t : t = s
    OBVIOUS
  <2>5. ASSUME NEW p, p = vpage PROVE Holds(t, p)'
    <3>1. PageBytes(t, p)' = PageBytes(t, p)
      BY <1>0 DEF PageBytes
    <3> QED BY <2>2, <2>3, <2>5, <3>1 DEF Holds
  <2>6. \A p \in StartPage(t) .. (vpage + 1) - 1 : Holds(t, p)'
    <3> SUFFICES ASSUME NEW p \in StartPage(t) .. (vpage + 1) - 1 PROVE Holds(t, p)'
      OBVIOUS
    <3>1. p \in StartPage(s) .. vpage - 1 \/ p = vpage
      BY <1>0, <1>3, <2>3
    <3> QED BY <1>2, <2>2, <2>3, <2>5, <3>1
  <2>7. LoadInv'
    <3>1. \A i \in DOMAIN elf.phs : i < ph /\ elf.phs[i].pt_load =>
            \A p \in PagesOf(elf.phs[i]) : Holds(elf.phs[i], p)'
      BY <1>0, <2>2, KeepsFinished DEF LoadInv
    <3>2. SegmentInFile(s)' /\ StartPage(s)' = StartPage(s)
      BY <1>0, <1>2 DEF SegmentInFile, StartPage
    <3>3. \A p \in StartPage(s) .. vpage' - 1 : Holds(s, p)'
      BY <1>0, <2>1, <2>3, <2>6 DEF Holds
    <3>4. vpage' \in Nat /\ vpage' >= StartPage(s)
      BY <1>0, <1>2, <1>3, <2>1
    <3> QED BY <1>0, <1>2, <2>1, <3>1, <3>2, <3>3, <3>4 DEF LoadInv, PagesOf, StartPage, EndPage
  <2>8. GoodInv'
    <3> SUFFICES ASSUME WellFormed(elf)
                 PROVE  DOMAIN pages' \subseteq {TRAMPOLINE} \cup Heap \cup Finished(elf, ph)
                                                 \cup {p \in PagesOf(s) : p < vpage'}
      BY <1>0, <2>1, SameImage DEF GoodInv
    <3>1. DOMAIN pages \subseteq {TRAMPOLINE} \cup Heap \cup Finished(elf, ph)
                                \cup {p \in PagesOf(s) : p < vpage}
      BY <1>0 DEF GoodInv
    <3>2. \A p \in PagesOf(s) : p < vpage => p < vpage'
      BY <1>0, <1>3, <2>1 DEF PagesOf
    <3>3. vpage < vpage'
      BY <1>0, <2>1
    <3> QED BY <1>4, <2>2, <3>1, <3>2, <3>3
  <2> QED BY <2>2, <2>7, <2>8 DEF LoaderInv
<1> QED BY <1>6, <1>8, <1>9, <1>7

\* A step of setup: a page for the program or its stack is mapped and filled, or
\* setup panics.
LEMMA SetupStep ==
    ASSUME LoaderInv, NEW page, NEW w, NEW x, NEW bytes \in [Bytes -> U8], NEW done,
           NEW m, m = MapTo(page, Nth(next), TRUE, w, x, next + 1),
           regions' = regions, elf' = elf, ph' = ph, vpage' = vpage,
           \/ /\ Nth(next) = None /\ next' = next + 1 /\ pc' = "panic"
              /\ pages' = pages /\ tables' = tables /\ mem' = mem
           \/ Nth(next) # None /\ Keep(m) /\ ~m.ok /\ pc' = "panic" /\ mem' = mem
           \/ /\ Nth(next) # None /\ Keep(m) /\ m.ok /\ pc' = done
              /\ mem' = [mem EXCEPT ![Nth(next)] = bytes],
           WellFormed(elf) => Nth(next) = None \/ page \notin DOMAIN pages \cup BootPages,
           done = "enter" \/ (done = "stack" /\ (WellFormed(elf) => Nth(next) = None))
    PROVE  LoaderInv'
<1>0. /\ FrameInv /\ MemInv /\ LoadInv /\ GoodInv /\ next \in Nat /\ vpage \in Nat
      /\ elf \in Images /\ regions \in MemoryMaps /\ next + 1 \in Nat
  BY Basics
<1>1. CASE Nth(next) = None
  <2>1. next' = next + 1 /\ pc' = "panic" /\ pages' = pages /\ tables' = tables /\ mem' = mem
    BY <1>1
  <2>2. FrameInv' /\ MemInv' /\ \A t, q : Holds(t, q) => Holds(t, q)'
    BY <1>0, <2>1, Same
  <2>3. LoadInv'
    BY <1>0, <2>1, <2>2, Progress
  <2>4. Exhausted(UsableFrames, next')
    BY <1>0, <1>1, <2>1, NthNone DEF Exhausted
  <2>5. GoodInv'
    BY <2>1, <2>4, Ends
  <2> QED BY <2>2, <2>3, <2>5 DEF LoaderInv
<1>2. CASE Nth(next) # None /\ ~m.ok
  <2>1. Keep(m) /\ pc' = "panic" /\ mem' = mem
    BY <1>2, Zenon
  <2>2. FrameInv' /\ MemInv' /\ \A t, q : Holds(t, q) => Holds(t, q)'
    BY <1>0, <1>2, <2>1, Unplaced, Zenon
  <2>3. LoadInv'
    BY <1>0, <2>1, <2>2, Progress
  <2>4. WellFormed(elf) => Exhausted(UsableFrames, next')
    BY <1>0, <1>2, <2>1, FailsExhausted, Zenon
  <2>5. GoodInv'
    BY <2>1, <2>4, Ends
  <2> QED BY <2>2, <2>3, <2>5 DEF LoaderInv
<1>3. CASE Nth(next) # None /\ m.ok
  <2>1. Keep(m) /\ pc' = done /\ mem' = [mem EXCEPT ![Nth(next)] = bytes]
    BY <1>3, Zenon
  <2>2. FrameInv' /\ MemInv' /\ \A t, q : Holds(t, q) => Holds(t, q)'
    BY <1>0, <1>3, <2>1, Placed, Zenon
  <2>3. LoadInv'
    BY <1>0, <2>1, <2>2, Progress
  <2>4. GoodInv'
    BY <1>3, <2>1, SameImage DEF GoodInv
  <2> QED BY <2>2, <2>3, <2>4 DEF LoaderInv
<1> QED BY <1>1, <1>2, <1>3, Zenon

\* A well-formed image gets here only without frames, and the fallback needs one.
LEMMA FallbackStep ==
    ASSUME LoaderInv, Fallback
    PROVE  LoaderInv'
<1> DEFINE bytes == [b \in Bytes |-> IF b < Len(USER_PROGRAM)
                                   THEN USER_PROGRAM[b + 1] ELSE Int3]
           m == MapTo(USER_CODE, Nth(next), TRUE, TRUE, TRUE, next + 1)
<1>0. pc = "fallback" /\ regions' = regions /\ elf' = elf /\ UNCHANGED load
  BY Zenon DEF Fallback, Panic
<1>1. \/ /\ Nth(next) = None /\ next' = next + 1 /\ pc' = "panic"
         /\ pages' = pages /\ tables' = tables /\ mem' = mem
      \/ Nth(next) # None /\ Keep(m) /\ ~m.ok /\ pc' = "panic" /\ mem' = mem
      \/ /\ Nth(next) # None /\ Keep(m) /\ m.ok /\ pc' = "stack"
         /\ mem' = [mem EXCEPT ![Nth(next)] = bytes]
  BY Zenon DEF Fallback, Panic
<1>2. bytes \in [Bytes -> U8]
  <2>1. USER_PROGRAM \in Seq(U8) /\ Len(USER_PROGRAM) \in Nat
    BY ImagesAssumption
  <2>2. ASSUME NEW b \in Bytes, b < Len(USER_PROGRAM) PROVE USER_PROGRAM[b + 1] \in U8
    <3>1. b \in Nat
      BY PageAssumption DEF Bytes
    <3>2. b + 1 \in 1 .. Len(USER_PROGRAM)
      BY <2>1, <2>2, <3>1
    <3> QED BY <2>1, <3>2
  <2>3. Int3 \in U8
    BY DEF Int3, U8
  <2> QED BY <2>2, <2>3
<1>3. m = MapTo(USER_CODE, Nth(next), TRUE, TRUE, TRUE, next + 1)
  OBVIOUS
<1> HIDE DEF m, bytes
<1>4. WellFormed(elf) => Nth(next) = None
  <2>1. WellFormed(elf) => Exhausted(UsableFrames, next)
    BY <1>0, Basics DEF GoodInv
  <2>2. Len(UsableFrames) \in Nat /\ (Nth(next) = None <=> next >= Len(UsableFrames))
    BY Basics, NthNone
  <2> QED BY <2>1, <2>2, Basics DEF Exhausted
<1>5. ph' = ph /\ vpage' = vpage
  BY <1>0 DEF load
<1> QED BY <1>0, <1>1, <1>2, <1>3, <1>4, <1>5, SetupStep, Zenon

LEMMA MapStackStep ==
    ASSUME LoaderInv, MapStack
    PROVE  LoaderInv'
<1> DEFINE bytes == [b \in Bytes |-> 0]
           m == MapTo(USER_STACK, Nth(next), TRUE, TRUE, FALSE, next + 1)
<1>0. pc = "stack" /\ regions' = regions /\ elf' = elf /\ UNCHANGED load
  BY Zenon DEF MapStack, Panic
<1>1. \/ /\ Nth(next) = None /\ next' = next + 1 /\ pc' = "panic"
         /\ pages' = pages /\ tables' = tables /\ mem' = mem
      \/ Nth(next) # None /\ Keep(m) /\ ~m.ok /\ pc' = "panic" /\ mem' = mem
      \/ /\ Nth(next) # None /\ Keep(m) /\ m.ok /\ pc' = "enter"
         /\ mem' = [mem EXCEPT ![Nth(next)] = bytes]
  BY Zenon DEF MapStack, Panic
<1>2. bytes \in [Bytes -> U8]
  BY DEF U8
<1>3. m = MapTo(USER_STACK, Nth(next), TRUE, TRUE, FALSE, next + 1)
  OBVIOUS
<1> HIDE DEF m, bytes
<1>4. WellFormed(elf) => USER_STACK \notin DOMAIN pages \cup BootPages
  <2> SUFFICES ASSUME WellFormed(elf) PROVE USER_STACK \notin DOMAIN pages \cup BootPages
    OBVIOUS
  <2>1. DOMAIN pages \subseteq {TRAMPOLINE} \cup Heap \cup Finished(elf, ph)
    BY <1>0, Basics DEF GoodInv
  <2>2. \A i \in DOMAIN elf.phs : elf.phs[i].pt_load => USER_STACK \notin PagesOf(elf.phs[i])
    BY Basics, GoodSegments
  <2>3. USER_STACK \notin Finished(elf, ph)
    BY <2>2 DEF Finished
  <2> QED BY <2>1, <2>3, LayoutAssumption DEF Heap
<1>5. ph' = ph /\ vpage' = vpage
  BY <1>0 DEF load
<1> QED BY <1>0, <1>1, <1>2, <1>3, <1>4, <1>5, SetupStep, Zenon

LEMMA LoaderStep == LoaderInv /\ [Next]_userVars => LoaderInv'
<1> SUFFICES ASSUME LoaderInv, [Next]_userVars PROVE LoaderInv'
  OBVIOUS
<1>1. CASE UNCHANGED loaderVars
  <2>0. /\ FrameInv /\ MemInv /\ LoadInv /\ GoodInv
        /\ regions' = regions /\ elf' = elf /\ pc' = pc /\ ph' = ph /\ vpage' = vpage
        /\ next' = next /\ pages' = pages /\ tables' = tables /\ mem' = mem /\ next \in Nat
    BY <1>1 DEF LoaderInv, loaderVars, mm, load, FrameInv
  <2>1. FrameInv' /\ MemInv' /\ \A s, q : Holds(s, q) => Holds(s, q)'
    BY <2>0, Same
  <2>2. LoadInv'
    <3>1. \A i \in DOMAIN elf.phs : i < ph /\ elf.phs[i].pt_load =>
            \A p \in PagesOf(elf.phs[i]) : Holds(elf.phs[i], p)'
      BY <2>0, <2>1, KeepsFinished DEF LoadInv
    <3>2. PICK s : s = elf.phs[ph]
      OBVIOUS
    <3>3. pc = "page" => /\ ph \in DOMAIN elf.phs /\ s.pt_load /\ SegmentInFile(s)
                         /\ vpage >= StartPage(s) /\ \A p \in StartPage(s) .. vpage - 1 : Holds(s, p)'
      BY <2>0, <2>1, <3>2 DEF LoadInv
    <3>4. pc = "page" => \A p \in StartPage(elf.phs[ph]) .. vpage - 1 : Holds(elf.phs[ph], p)'
      BY <2>0, <3>2, <3>3 DEF Holds
    <3>5. SegmentInFile(elf.phs[ph])' <=> SegmentInFile(elf.phs[ph])
      BY <2>0 DEF SegmentInFile
    <3> QED BY <2>0, <3>1, <3>2, <3>3, <3>4, <3>5 DEF LoadInv, PagesOf, StartPage, EndPage
  <2>3. UsableFrames' = UsableFrames
    BY <2>0 DEF UsableFrames
  <2>4. GoodInv'
    BY <2>0, <2>3, SameImage DEF GoodInv
  <2> QED BY <2>1, <2>2, <2>4 DEF LoaderInv
<1>2. CASE LoaderNext
  BY <1>2, HeapSteps, TrampolineStep, HeaderStep, ProgramHeaderStep, LoadPageStep,
     SegmentDoneStep, LoadOkStep, FallbackStep, MapStackStep DEF LoaderNext
<1> QED BY <1>1, <1>2 DEF Next, Boot, EnterUser, User, Interrupt, Fault, userVars

-----------------------------------------------------------------------------
\* From the heap to ring 3 and through every system call, the stub's bookkeeping
\* and the loader's hold together.
THEOREM UserSpaceInvariant == Spec => [](SysInv /\ LoaderInv)
<1>1. Init => SysInv /\ LoaderInv
  BY SysInit, LoaderInitInv DEF Init
<1>2. (SysInv /\ LoaderInv) /\ [Next]_userVars => (SysInv /\ LoaderInv)'
  BY SysStep, LoaderStep
<1> QED BY <1>1, <1>2, PTL DEF Spec

\* The syscall stub: whenever ring 3 runs, its stack pointer, its saved
\* registers and its segments are its own, whatever the handlers did.
THEOREM RingThreeReturns == Spec => []RoundTrip
<1>1. SysInv => RoundTrip
  BY DEF SysInv, Before, RoundTrip
<1> QED BY <1>1, UserSpaceInvariant, PTL

\* allocate_frame and map_to: no frame serves two purposes, for any memory map.
THEOREM FramesServeOnce == Spec => []FramesUsedOnce
<1>1. LoaderInv => FramesUsedOnce
  BY FramesOnce DEF LoaderInv
<1> QED BY <1>1, UserSpaceInvariant, PTL

\* load and setup: ring 3 never sees what a frame held before it was mapped.
THEOREM UserPagesAreWritten == Spec => []NoStaleBytes
<1>1. LoaderInv => NoStaleBytes
  <2> SUFFICES ASSUME LoaderInv, NEW p \in DOMAIN pages, pages[p].user, NEW b \in Bytes
               PROVE  mem[pages[p].frame][b] # Junk
    BY DEF NoStaleBytes
  <2>1. mem[pages[p].frame] \in [Bytes -> U8]
    BY DEF LoaderInv, MemInv
  <2>2. mem[pages[p].frame][b] \in U8
    BY <2>1
  <2> QED BY <2>2 DEF U8, Junk
<1> QED BY <1>1, UserSpaceInvariant, PTL

\* load: for any image and any page size, what it accepts is in memory byte for
\* byte, with the flags of its own program header.
THEOREM SegmentsAreLoaded == Spec => []ImageInMemory
<1>1. LoaderInv => ImageInMemory
  <2> SUFFICES ASSUME LoaderInv, ph > Len(elf.phs), NEW i \in 1 .. Len(elf.phs),
                      elf.phs[i].pt_load, NEW o \in 0 .. elf.phs[i].memsz - 1
               PROVE  LET s == elf.phs[i]
                          p == (s.vaddr + o) \div PAGE
                      IN /\ p \in DOMAIN pages
                         /\ pages[p].user /\ pages[p].w = s.w /\ pages[p].x = s.x
                         /\ mem[pages[p].frame][(s.vaddr + o) % PAGE] =
                              IF o < s.filesz THEN elf.bytes[s.offset + o + 1] ELSE 0
    BY Zenon DEF ImageInMemory
  <2> DEFINE s == elf.phs[i]
             p == (s.vaddr + o) \div PAGE
  <2>1. elf.phs \in Seq(ProgramHeaders)
    BY ImagesAssumption DEF LoaderInv, MemInv
  <2>2. s \in ProgramHeaders /\ i \in DOMAIN elf.phs /\ i < ph
    BY <2>1 DEF LoaderInv, LoadInv
  <2>3. p \in PagesOf(s)
    BY <2>2, SegmentPages DEF PagesOf
  <2>4. Holds(s, p)
    BY <2>2, <2>3, Zenon DEF LoaderInv, LoadInv
  <2>5. PageBytes(s, p)[(s.vaddr + o) % PAGE] =
          IF o < s.filesz THEN elf.bytes[s.offset + o + 1] ELSE 0
    BY <2>2, SegmentByte
  <2> QED BY <2>4, <2>5 DEF Holds
<1> QED BY <1>1, UserSpaceInvariant, PTL

\* load and setup: a well-formed image is turned down only for want of frames.
THEOREM WellFormedLoads == Spec => []GoodImageLoads
<1>1. LoaderInv => GoodImageLoads
  <2> SUFFICES ASSUME LoaderInv, pc \in {"fallback", "panic"}, WellFormed(elf)
               PROVE  Nth(next - 1) = None
    BY DEF GoodImageLoads
  <2>1. Exhausted(UsableFrames, next) /\ next \in Nat /\ regions \in MemoryMaps
    BY DEF LoaderInv, GoodInv, FrameInv
  <2>2. next - 1 \in Nat /\ next - 1 >= Len(UsableFrames)
    BY <2>1 DEF Exhausted
  <2> QED BY <2>1, <2>2, NthNone
<1> QED BY <1>1, UserSpaceInvariant, PTL

(***************************************************************************)
(* What is mapped stays.                                                   *)
(***************************************************************************)

\* No step moves a page to another frame, changes its flags or takes it away, and,
\* but for the trampoline's, none writes to the frame of a page mapped earlier.
Stays ==
    \A p \in DOMAIN pages :
        /\ p \in DOMAIN pages' /\ pages'[p] = pages[p]
        /\ p # TRAMPOLINE \/ pages[p].user = TRUE => mem'[pages[p].frame] = mem[pages[p].frame]

LEMMA MapStays ==
    ASSUME NEW p, NEW frame, NEW user, NEW w, NEW x, NEW n \in Nat,
           Keep(MapTo(p, frame, user, w, x, n))
    PROVE  \A q \in DOMAIN pages : q \in DOMAIN pages' /\ pages'[q] = pages[q]
<1> DEFINE m == MapTo(p, frame, user, w, x, n)
           r == [frame |-> frame, user |-> user, w |-> w, x |-> x]
<1>1. Answer(m, p, r, n) /\ pages' = m.pages
  BY MapToAnswers, Zenon DEF Keep
<1> HIDE DEF m, r
<1>2. CASE m.ok
  BY <1>1, <1>2, Zenon DEF Answer
<1>3. CASE ~m.ok
  BY <1>1, <1>3, Zenon DEF Answer
<1> QED BY <1>2, <1>3, Zenon

\* A frame that is filled was not in use.
LEMMA FillStays ==
    ASSUME LoaderInv, Nth(next) # None, NEW bytes, mem' = [mem EXCEPT ![Nth(next)] = bytes],
           NEW p \in DOMAIN pages, p # TRAMPOLINE \/ pages[p].user = TRUE
    PROVE  mem'[pages[p].frame] = mem[pages[p].frame]
<1>1. FrameInv /\ MemInv /\ regions \in MemoryMaps /\ next \in Nat
  BY Basics
<1>2. Taken(UsableFrames, next, pages[p].frame)
  BY <1>1 DEF FrameInv
<1>3. ~Taken(UsableFrames, next, Nth(next))
  BY <1>1, FreshFrames
<1>4. pages[p].frame \in Frames
  <2>1. UsableFrames \in Seq(Frames)
    BY <1>1, MapsAssumption DEF UsableFrames
  <2> QED BY <1>2, <2>1 DEF Taken
<1>5. pages[p].frame # Nth(next)
  BY <1>2, <1>3, Zenon
<1> QED BY <1>1, <1>4, <1>5 DEF MemInv

LEMMA StaysStep == LoaderInv /\ [Next]_userVars => Stays
<1> SUFFICES ASSUME LoaderInv, [Next]_userVars PROVE Stays
  OBVIOUS
<1>0. next \in Nat /\ next + 1 \in Nat
  BY Basics
<1>1. ASSUME pages' = pages, mem' = mem PROVE Stays
  BY <1>1 DEF Stays
<1>2. ASSUME NEW p, NEW frame, NEW user, NEW w, NEW x, NEW n \in Nat,
             Keep(MapTo(p, frame, user, w, x, n)),
             \/ mem' = mem
             \/ Nth(next) # None /\ \E bytes : mem' = [mem EXCEPT ![Nth(next)] = bytes]
      PROVE  Stays
  <2>1. \A q \in DOMAIN pages : q \in DOMAIN pages' /\ pages'[q] = pages[q]
    BY <1>2, MapStays, Zenon
  <2>2. \A q \in DOMAIN pages : q # TRAMPOLINE \/ pages[q].user = TRUE =>
            mem'[pages[q].frame] = mem[pages[q].frame]
    BY <1>2, FillStays, Zenon
  <2> QED BY <2>1, <2>2, Zenon DEF Stays
<1>3. CASE HeapPage
  <2>1. CASE Nth(next) = None
    BY <1>1, <1>3, <2>1, Zenon DEF HeapPage, Panic
  <2>2. CASE Nth(next) # None
    <3>1. Keep(MapTo(vpage, Nth(next), FALSE, TRUE, TRUE, next + 1)) /\ mem' = mem
      BY <1>3, <2>2, Zenon DEF HeapPage, Panic
    <3> QED BY <1>0, <1>2, <3>1, Zenon
  <2> QED BY <2>1, <2>2
<1>4. CASE MapTrampoline
  <2>1. Keep(MapTo(TRAMPOLINE, TRAMPOLINE, FALSE, TRUE, TRUE, next)) /\ mem' = mem
    BY <1>4 DEF MapTrampoline
  <2> QED BY <1>0, <1>2, <2>1, Zenon
<1>5. CASE LoadPage
  <2>1. CASE Nth(next) = None \/ vpage \in NonCanonical
    BY <1>1, <1>5, <2>1, Zenon DEF LoadPage
  <2>2. CASE Nth(next) # None /\ vpage \notin NonCanonical
    <3>1. /\ Keep(MapTo(vpage, Nth(next), TRUE, elf.phs[ph].w, elf.phs[ph].x, next + 1))
          /\ mem' = mem \/ \E bytes : mem' = [mem EXCEPT ![Nth(next)] = bytes]
      BY <1>5, <2>2, Zenon DEF LoadPage
    <3> QED BY <1>0, <1>2, <2>2, <3>1, Zenon
  <2> QED BY <2>1, <2>2
<1>6. CASE Fallback
  <2>1. CASE Nth(next) = None
    BY <1>1, <1>6, <2>1, Zenon DEF Fallback, Panic
  <2>2. CASE Nth(next) # None
    <3>1. /\ Keep(MapTo(USER_CODE, Nth(next), TRUE, TRUE, TRUE, next + 1))
          /\ mem' = mem \/ \E bytes : mem' = [mem EXCEPT ![Nth(next)] = bytes]
      BY <1>6, <2>2, Zenon DEF Fallback, Panic
    <3> QED BY <1>0, <1>2, <2>2, <3>1, Zenon
  <2> QED BY <2>1, <2>2
<1>7. CASE MapStack
  <2>1. CASE Nth(next) = None
    BY <1>1, <1>7, <2>1, Zenon DEF MapStack, Panic
  <2>2. CASE Nth(next) # None
    <3>1. /\ Keep(MapTo(USER_STACK, Nth(next), TRUE, TRUE, FALSE, next + 1))
          /\ mem' = mem \/ \E bytes : mem' = [mem EXCEPT ![Nth(next)] = bytes]
      BY <1>7, <2>2, Zenon DEF MapStack, Panic
    <3> QED BY <1>0, <1>2, <2>2, <3>1, Zenon
  <2> QED BY <2>1, <2>2
<1>8. CASE HeapReady \/ CheckHeader \/ ProgramHeader \/ SegmentDone \/ LoadOk
  BY <1>1, <1>8 DEF HeapReady, CheckHeader, ProgramHeader, SegmentDone, LoadOk, mm
<1>9. CASE UNCHANGED loaderVars
  BY <1>1, <1>9 DEF loaderVars, mm
<1> QED BY <1>3, <1>4, <1>5, <1>6, <1>7, <1>8, <1>9
        DEF Next, Boot, LoaderNext, EnterUser, User, Interrupt, Fault, userVars

\* map_to and allocate_frame: what kernel_main has mapped, for itself or for ring 3,
\* keeps its frame, its flags and its bytes through every later step, failed
\* mappings and the fallback after a partial load included.
THEOREM PagesStay == Spec => [][Stays]_userVars
<1>1. LoaderInv /\ [Next]_userVars => [Stays]_userVars
  BY StaysStep
<1> QED BY <1>1, UserSpaceInvariant, PTL DEF Spec
=============================================================================
