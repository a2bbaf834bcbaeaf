--------------------------------- MODULE Smp ---------------------------------
(***************************************************************************)
(* Multi-core bring-up (kernel/src/smp.rs).  The boot processor (BSP)      *)
(* walks the APIC ids of the MADT.  For each application processor (AP) it *)
(* writes the one control block at physical 0x50FE0, sends INIT-SIPI-SIPI, *)
(* and polls CORE_LOCALS[core_id].is_online for about 200 ms.  An AP that  *)
(* starts runs the trampoline, which loads its stack and its core id from  *)
(* the control block, and then ap_main.                                    *)
(*                                                                         *)
(* Nothing bounds the time an AP takes: it may never start, and it may be  *)
(* anywhere in the trampoline when the BSP stops waiting for it.           *)
(***************************************************************************)
EXTENDS Naturals, Sequences, FiniteSets

CONSTANTS MAX_CORES,    \* 8 in smp.rs
          MadtTables,   \* interrupt controller entries of the MADT, <<>> without one
          BspIds,       \* the ids the boot processor may have
          None

ASSUME CoresAssumption == MAX_CORES \in Nat \ {0}
ASSUME SmpNoneAssumption == None \notin Nat

Entries == [type : Nat, len : Nat, enabled : BOOLEAN, apic_id : Nat]

ASSUME MadtAssumption == MadtTables \subseteq Seq(Entries)

\* A round of the loop of parse_madt: the id of an enabled Local APIC entry (type 0)
\* is pushed, unless an entry of length 0 ended the loop.
ParseEntry(t, n, ids) ==
    IF t[n].type = 0 /\ t[n].enabled /\ \A i \in 1 .. n : t[i].len # 0
    THEN Append(ids, t[n].apic_id)
    ELSE ids

ParseMadt(t) ==
    LET ids[n \in 0 .. Len(t)] == IF n = 0 THEN <<>> ELSE ParseEntry(t, n, ids[n - 1])
    IN ids[Len(t)]

Listed(t) == {t[i] : i \in DOMAIN t}
Ids   == UNION {Listed(ParseMadt(t)) : t \in MadtTables}
Cores == 0 .. MAX_CORES - 1

VARIABLES
    apic_ids,                     \* parse_madt(); empty if a table is missing
    bsp_id,                       \* LAPIC id of the boot processor
    pc, next, core_id,            \* the BSP: where init() is
    block,                        \* the control block the trampoline reads
    online, APS_ONLINE,           \* CORE_LOCALS[_].is_online, APS_ONLINE
    total, listed,                \* print_summary: the total, the cores listed
    ap, rsp, rdi,                 \* the APs: where each is, its registers
    serial,                       \* SERIAL1: the AP that holds its lock, or None
    late                          \* history: APs the BSP did not wait for

hw   == <<apic_ids, bsp_id>>
bsp  == <<pc, next, core_id>>
report == <<total, listed>>
aps  == <<ap, rsp, rdi>>
vars == <<hw, bsp, block, online, APS_ONLINE, report, aps, serial, late>>

-----------------------------------------------------------------------------
Init ==
    /\ \E t \in MadtTables : apic_ids = ParseMadt(t)
    /\ bsp_id \in BspIds
    /\ apic_ids = <<>> \/ bsp_id \in Listed(apic_ids)
    /\ pc = "init" /\ next = 1 /\ core_id = None
    /\ block = [core_id |-> None, stack |-> None]
    /\ online = [c \in Cores |-> FALSE]
    /\ APS_ONLINE = 0
    /\ total = 0 /\ listed = {}
    /\ ap = [a \in Ids |-> "off"]
    /\ rsp = [a \in Ids |-> None] /\ rdi = [a \in Ids |-> None]
    /\ serial = None
    /\ late = {}

\* serial_println! spins on the lock of SERIAL1.  What the BSP prints is one step:
\* it holds the lock and lets go of it again.
MayPrint == serial = None

(***************************************************************************)
(* init(), on the BSP.                                                     *)
(***************************************************************************)
InitStart ==
    /\ pc = "init"
    /\ online' = [online EXCEPT ![0] = TRUE]
    /\ IF Len(apic_ids) <= 1
       THEN pc' = "summary" /\ total' = 1
       ELSE pc' = "next" /\ UNCHANGED total
    /\ UNCHANGED <<hw, next, core_id, block, APS_ONLINE, listed, aps, serial, late>>

\* The loop over apic_ids: the BSP itself and ids beyond CORE_LOCALS are skipped.
Eligible(id) == id # bsp_id /\ id < MAX_CORES

SkipId ==
    /\ pc = "next" /\ next <= Len(apic_ids)
    /\ ~Eligible(apic_ids[next])
    /\ next' = next + 1
    /\ UNCHANGED <<hw, pc, core_id, block, online, APS_ONLINE, report, aps, serial, late>>

\* Stack tops: the end of AP_STACKS[core_id].
StackTop_Shared(c) == <<"AP_STACKS", 0>>
StackTop(c) == <<"AP_STACKS", c>>

\* install_trampoline prints, then stores core_id first ...  (Before that init()
\* clears a byte at 0x0FFE, which nothing reads, and one at 0x50FFE, inside the
\* pointer to ap_main: 0 there anyway if ap_main lies in the lower half, and
\* stored again by install_trampoline.  Both are left out.)
InstallCoreId ==
    /\ pc = "next" /\ next <= Len(apic_ids)
    /\ Eligible(apic_ids[next])
    /\ MayPrint
    /\ core_id' = apic_ids[next]
    /\ next' = next + 1
    /\ block' = [block EXCEPT !.core_id = apic_ids[next]]
    /\ pc' = "install"
    /\ UNCHANGED <<hw, online, APS_ONLINE, report, aps, serial, late>>

\* ... and the stack two stores later (cr3 and ap_main are the same for every AP).
InstallStack ==
    /\ pc = "install"
    /\ block' = [block EXCEPT !.stack = StackTop(core_id)]
    /\ pc' = "sending"
    /\ UNCHANGED <<hw, next, core_id, online, APS_ONLINE, report, aps, serial, late>>

\* The last line of install_trampoline and the first of send_sipi.
PrintSending ==
    /\ pc = "sending" /\ MayPrint
    /\ pc' = "send"
    /\ UNCHANGED <<hw, next, core_id, block, online, APS_ONLINE, report, aps, serial, late>>

\* The INIT IPI stops the AP wherever it is.  A lock it holds stays taken.
SendInit ==
    /\ pc = "send"
    /\ ap' = [ap EXCEPT ![core_id] = "off"]
    /\ pc' = "sipi"
    /\ UNCHANGED <<hw, next, core_id, block, online, APS_ONLINE, report, rsp, rdi, serial, late>>

\* Two more lines, then the SIPIs: the first starts the AP, the second finds it running.
SendSipi ==
    /\ pc = "sipi" /\ MayPrint
    /\ ap' = [ap EXCEPT ![core_id] = "sipi"]
    /\ pc' = "sent"
    /\ UNCHANGED <<hw, next, core_id, block, online, APS_ONLINE, report, rsp, rdi, serial, late>>

PrintSent ==
    /\ pc = "sent" /\ MayPrint
    /\ pc' = "wait"
    /\ UNCHANGED <<hw, next, core_id, block, online, APS_ONLINE, report, aps, serial, late>>

SeesOnline ==
    /\ pc = "wait" /\ online[core_id]
    /\ pc' = "next"
    /\ UNCHANGED <<hw, next, core_id, block, online, APS_ONLINE, report, aps, serial, late>>

\* ms >= 200.
MayTimeOut_Never == FALSE
MayTimeOut == ~online[core_id]

TimesOut ==
    /\ pc = "wait" /\ MayTimeOut
    /\ pc' = "check"
    /\ UNCHANGED <<hw, next, core_id, block, online, APS_ONLINE, report, aps, serial, late>>

\* A second look; the core that "did not start" is reported.
CheckStarted ==
    /\ pc = "check"
    /\ online[core_id] \/ MayPrint
    /\ pc' = "next"
    /\ UNCHANGED <<hw, next, core_id, block, online, APS_ONLINE, report, aps, serial, late>>

LoadTotal ==
    /\ pc = "next" /\ next > Len(apic_ids)
    /\ total' = 1 + APS_ONLINE
    /\ pc' = "summary"
    /\ UNCHANGED <<hw, next, core_id, block, online, APS_ONLINE, listed, aps, serial, late>>

PrintSummary ==
    /\ pc = "summary" /\ MayPrint
    /\ listed' = {c \in Cores : online[c]}
    /\ pc' = "done"
    /\ UNCHANGED <<hw, next, core_id, block, online, APS_ONLINE, total, aps, serial, late>>

Bsp == \/ InitStart \/ SkipId
       \/ InstallCoreId \/ InstallStack
       \/ PrintSending \/ SendInit \/ SendSipi \/ PrintSent
       \/ SeesOnline \/ TimesOut \/ CheckStarted
       \/ LoadTotal \/ PrintSummary

(***************************************************************************)
(* The trampoline and ap_main, on AP a.                                    *)
(***************************************************************************)
Awaited(a) == pc \in {"sent", "wait"} /\ core_id = a

Hurry(a) == late' = IF Awaited(a) THEN late ELSE late \cup {a}

\* mov rsp, [0x50FF0]
ApLoadStack(a) ==
    /\ ap[a] = "sipi"
    /\ rsp' = [rsp EXCEPT ![a] = block.stack]
    /\ ap' = [ap EXCEPT ![a] = "stack"]
    /\ Hurry(a)
    /\ UNCHANGED <<hw, bsp, block, online, APS_ONLINE, report, rdi, serial>>

\* mov rdi, [0x50FE0]; call ap_main
ApLoadCoreId(a) ==
    /\ ap[a] = "stack"
    /\ rdi' = [rdi EXCEPT ![a] = block.core_id]
    /\ ap' = [ap EXCEPT ![a] = "ap_main"]
    /\ Hurry(a)
    /\ UNCHANGED <<hw, bsp, block, online, APS_ONLINE, report, rsp, serial>>

\* The BSP skips ids beyond CORE_LOCALS, so the test of ap_main holds here.
ApMarkOnline_NoStore(a) ==
    /\ ap[a] = "ap_main" /\ rdi[a] < MAX_CORES
    /\ ap' = [ap EXCEPT ![a] = "marked"]
    /\ Hurry(a)
    /\ UNCHANGED <<hw, bsp, block, online, APS_ONLINE, report, rsp, rdi, serial>>
ApMarkOnline(a) ==
    /\ ap[a] = "ap_main" /\ rdi[a] < MAX_CORES
    /\ online' = [online EXCEPT ![rdi[a]] = TRUE]
    /\ ap' = [ap EXCEPT ![a] = "marked"]
    /\ Hurry(a)
    /\ UNCHANGED <<hw, bsp, block, APS_ONLINE, report, rsp, rdi, serial>>

ApCount(a) ==
    /\ ap[a] = "marked"
    /\ APS_ONLINE' = APS_ONLINE + 1
    /\ ap' = [ap EXCEPT ![a] = "counted"]
    /\ UNCHANGED <<hw, bsp, block, online, report, rsp, rdi, serial, late>>

\* "Core {} online": the AP takes the lock of SERIAL1 ...
ApPrint(a) ==
    /\ ap[a] = "counted" /\ MayPrint
    /\ serial' = a
    /\ ap' = [ap EXCEPT ![a] = "printing"]
    /\ UNCHANGED <<hw, bsp, block, online, APS_ONLINE, report, rsp, rdi, late>>

\* ... lets go of it and halts.
ApPrinted(a) ==
    /\ ap[a] = "printing"
    /\ serial' = None
    /\ ap' = [ap EXCEPT ![a] = "halted"]
    /\ UNCHANGED <<hw, bsp, block, online, APS_ONLINE, report, rsp, rdi, late>>

Ap(a) == \/ ApLoadStack(a) \/ ApLoadCoreId(a) \/ ApMarkOnline(a) \/ ApCount(a)
         \/ ApPrint(a) \/ ApPrinted(a)

Next == Bsp \/ \E a \in Ids : Ap(a)

Spec == Init /\ [][Next]_vars

\* The BSP runs.  Of the APs only this is promised: one that prints its line gets
\* to the end of it (no interrupt can stop it: _print disables them).
FairSpec == Spec /\ WF_vars(Bsp) /\ \A a \in Ids : WF_vars(ApPrinted(a))

-----------------------------------------------------------------------------
(***************************************************************************)
(* Properties.                                                             *)
(***************************************************************************)
InApMain(a) == ap[a] \in {"ap_main", "marked", "counted", "printing", "halted"}
Running(a)  == ap[a] = "stack" \/ InApMain(a)

\* As long as the BSP waits for every AP that starts, each AP runs on the stack
\* set aside for it and reports under its own id, which CORE_LOCALS has room for,
\* although all of them read the same control block.
OwnStackAndId ==
    late = {} =>
      /\ \A a \in Ids : InApMain(a) => rdi[a] = a /\ a \in Cores
      /\ \A a, b \in Ids : Running(a) /\ Running(b) /\ rsp[a] = rsp[b] => a = b

Distinct == \A i, j \in DOMAIN apic_ids : apic_ids[i] = apic_ids[j] => i = j

\* No two APs report under one id.
Unshared ==
    \A a, b \in Ids : InApMain(a) /\ InApMain(b) /\ rdi[a] = rdi[b] => a = b

\* print_summary counts no core that it does not list, however late the APs are:
\* ap_main sets is_online before it adds to APS_ONLINE, and nothing resets it.
\* Two things can make the total larger, and no other: two APs that read the same
\* core_id (excluded here as such, not by the lateness it takes), and the entry of
\* CORE_LOCALS the BSP takes for itself: it is number 0 whatever the id of the
\* BSP, so an AP of id 0 is counted and shares the BSP's line.  (A processor that
\* the MADT lists twice is started and counted twice.)
SummaryNeverOvercounts ==
    pc = "done" /\ Distinct /\ Unshared =>
        total <= Cardinality(listed) + Cardinality({a \in Ids : InApMain(a) /\ rdi[a] = 0})

\* smp.rs:171, "Per-AP stacks": no two processors ever run on one stack.
PerApStacks ==
    \A a, b \in Ids : Running(a) /\ Running(b) /\ rsp[a] = rsp[b] => a = b

\* docs/SMP_STATUS.md: bring-up does not affect single-core operation.  The BSP
\* gets through init() whether the APs start or not and wherever they are when it
\* stops waiting, although it spins for the lock of SERIAL1 that they take too: it
\* never stops an AP that holds the lock.  That needs a MADT without a processor
\* listed twice (its second INIT may come while it prints, and then nobody lets go
\* of the lock); what APs on one stack do to each other is not followed further.
BootContinues == Distinct /\ []PerApStacks => <>(pc = "done")
=============================================================================
