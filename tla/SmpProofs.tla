------------------------------ MODULE SmpProofs ------------------------------
(***************************************************************************)
(* Multi-core bring-up for every MADT, every number of cores and every     *)
(* timing of the application processors.                                   *)
(***************************************************************************)
EXTENDS Smp, FiniteSetTheorems, FunctionTheorems, WellFoundedInduction, TLAPS

-----------------------------------------------------------------------------
(***************************************************************************)
(* parse_madt, for tables of any length.                                   *)
(***************************************************************************)

\* A set of natural numbers has a least element: induction over the entries of a
\* table is by least counterexample.
LEMMA LeastElement ==
    ASSUME NEW T, T \subseteq Nat, T # {}
    PROVE  \E m \in T : \A k \in T : m <= k
<1>1. \E m \in T : \A k \in T : ~(<<k, m>> \in OpToRel(<, Nat))
  BY NatLessThanWellFounded, WFMin, Zenon
<1>2. PICK m \in T : \A k \in T : ~(<<k, m>> \in OpToRel(<, Nat))
  BY <1>1
<1>3. \A k \in Nat : k < m => <<k, m>> \in OpToRel(<, Nat)
  BY <1>2 DEF OpToRel
<1>4. \A k \in T : ~(k < m)
  BY <1>2, <1>3
<1>5. \A k \in Nat : m \in Nat /\ ~(k < m) => m <= k
  OBVIOUS
<1> QED BY <1>2, <1>4, <1>5, Zenon

\* g[n] are the ids after the first n entries of the table.
IsParse(t, N, g) ==
    g = [n \in 0 .. N |-> IF n = 0 THEN <<>> ELSE ParseEntry(t, n, g[n - 1])]

\* The loop has a result after any number of entries.
LEMMA ParseExists ==
    ASSUME NEW t, NEW N \in Nat
    PROVE  \E g : IsParse(t, N, g)
<1> DEFINE T == {n \in Nat : ~ \E g : IsParse(t, n, g)}
<1> SUFFICES ASSUME T # {} PROVE FALSE
  OBVIOUS
<1>1. PICK m \in T : \A k \in T : m <= k
  BY LeastElement, T \subseteq Nat
<1>2. m \in Nat /\ ~ \E g : IsParse(t, m, g)
  BY <1>1
<1>3. CASE m = 0
  <2> DEFINE h == [n \in 0 .. 0 |-> <<>>]
  <2>1. h = [n \in 0 .. 0 |-> IF n = 0 THEN <<>> ELSE ParseEntry(t, n, h[n - 1])]
    OBVIOUS
  <2> HIDE DEF h
  <2> QED BY <1>2, <1>3, <2>1 DEF IsParse
<1>4. CASE m # 0
  <2>1. m - 1 \in Nat /\ m - 1 \notin T
    BY <1>1, <1>2, <1>4
  <2>2. PICK g : IsParse(t, m - 1, g)
    BY <2>1
  <2> DEFINE h == [n \in 0 .. m |-> IF n = m THEN ParseEntry(t, m, g[m - 1]) ELSE g[n]]
  <2>3. \A n \in 0 .. m - 1 : g[n] = IF n = 0 THEN <<>> ELSE ParseEntry(t, n, g[n - 1])
    <3>1. g = [n \in 0 .. m - 1 |-> IF n = 0 THEN <<>> ELSE ParseEntry(t, n, g[n - 1])]
      BY <2>2 DEF IsParse
    <3> QED BY <3>1
  <2>4. \A n \in 0 .. m - 1 : h[n] = g[n]
    BY <1>2
  <2>5. h[m] = ParseEntry(t, m, g[m - 1]) /\ m - 1 \in 0 .. m - 1
    BY <1>2, <1>4
  <2>6. DOMAIN h = 0 .. m /\ h = [n \in 0 .. m |-> h[n]]
    OBVIOUS
  <2> HIDE DEF h
  <2>7. \A n \in 0 .. m : h[n] = IF n = 0 THEN <<>> ELSE ParseEntry(t, n, h[n - 1])
    <3> SUFFICES ASSUME NEW n \in 0 .. m
                 PROVE  h[n] = IF n = 0 THEN <<>> ELSE ParseEntry(t, n, h[n - 1])
      OBVIOUS
    <3>1. n = m \/ n \in 0 .. m - 1
      BY <1>2
    <3>2. n # 0 => n - 1 \in 0 .. m - 1
      BY <1>2
    <3> QED BY <1>4, <2>3, <2>4, <2>5, <3>1, <3>2
  <2>8. h = [n \in 0 .. m |-> IF n = 0 THEN <<>> ELSE ParseEntry(t, n, h[n - 1])]
    BY <2>6, <2>7
  <2> QED BY <1>2, <2>8 DEF IsParse
<1> QED BY <1>3, <1>4

LEMMA ParseIsLoop ==
    ASSUME NEW t \in Seq(Entries)
    PROVE  \E g : IsParse(t, Len(t), g) /\ ParseMadt(t) = g[Len(t)]
<1> DEFINE ids == CHOOSE g : IsParse(t, Len(t), g)
<1>1. IsParse(t, Len(t), ids)
  BY ParseExists
<1>2. ParseMadt(t) = ids[Len(t)]
  BY DEF ParseMadt, IsParse
<1> QED BY <1>1, <1>2

LEMMA ListedAppend ==
    ASSUME NEW s \in Seq(Nat), NEW x \in Nat
    PROVE  Listed(Append(s, x)) = Listed(s) \cup {x}
<1> DEFINE a == Append(s, x)
<1>1. /\ DOMAIN s = 1 .. Len(s) /\ Len(s) \in Nat
      /\ DOMAIN a = 1 .. Len(s) + 1
      /\ a[Len(s) + 1] = x /\ \A i \in 1 .. Len(s) : a[i] = s[i]
  OBVIOUS
<1>2. DOMAIN a = DOMAIN s \cup {Len(s) + 1}
  BY <1>1
<1> HIDE DEF a
<1>3. Listed(a) = Listed(s) \cup {x}
  BY <1>1, <1>2 DEF Listed
<1> QED BY <1>3 DEF a

\* The entries parse_madt takes an id from.
Reported(t) == {i \in 1 .. Len(t) : /\ t[i].type = 0 /\ t[i].enabled
                                    /\ \A j \in 1 .. i : t[j].len # 0}

\* parse_madt returns the ids of the enabled Local APIC entries before the first
\* entry of length 0, and no other; at most one per entry.
THEOREM MadtParsed ==
    ASSUME NEW t \in Seq(Entries)
    PROVE  /\ ParseMadt(t) \in Seq(Nat)
           /\ Len(ParseMadt(t)) <= Len(t)
           /\ Listed(ParseMadt(t)) = {t[i].apic_id : i \in Reported(t)}
<1>1. PICK g : IsParse(t, Len(t), g) /\ ParseMadt(t) = g[Len(t)]
  BY ParseIsLoop
<1> DEFINE Upto(n) == {t[i].apic_id : i \in Reported(t) \cap 1 .. n}
           Ok(n) == /\ g[n] \in Seq(Nat) /\ Len(g[n]) <= n /\ Listed(g[n]) = Upto(n)
           T == {n \in 0 .. Len(t) : ~Ok(n)}
<1>2. /\ Len(t) \in Nat /\ g[0] = <<>>
      /\ \A n \in 1 .. Len(t) : g[n] = ParseEntry(t, n, g[n - 1])
  <2>1. Len(t) \in Nat /\ g = [n \in 0 .. Len(t) |-> IF n = 0 THEN <<>> ELSE ParseEntry(t, n, g[n - 1])]
    BY <1>1 DEF IsParse
  <2> QED BY <2>1
<1>3. T = {}
  <2> SUFFICES ASSUME T # {} PROVE FALSE
    OBVIOUS
  <2>1. PICK m \in T : \A k \in T : m <= k
    BY <1>2, LeastElement, T \subseteq Nat
  <2>2. m \in 0 .. Len(t) /\ ~Ok(m)
    BY <2>1
  <2>3. Ok(0)
    BY <1>2 DEF Listed
  <2>4. m \in 1 .. Len(t) /\ m - 1 \in 0 .. Len(t) /\ ~(m <= m - 1)
    <3>1. m # 0
      BY <2>2, <2>3, Zenon
    <3> HIDE DEF Ok, T
    <3> QED BY <1>2, <2>2, <3>1
  <2>5. Ok(m - 1)
    BY <2>1, <2>4
  <2>6. t[m].apic_id \in Nat
    <3> HIDE DEF Ok, T
    <3>1. t[m] \in Entries
      BY <2>4
    <3> QED BY <3>1 DEF Entries
  <2>7. CASE m \in Reported(t)
    <3>1. g[m] = Append(g[m - 1], t[m].apic_id)
      BY <1>2, <2>4, <2>7 DEF ParseEntry, Reported
    <3>2. g[m] \in Seq(Nat) /\ Len(g[m]) <= m
      <4>1. m \in Nat /\ g[m - 1] \in Seq(Nat) /\ Len(g[m - 1]) <= m - 1
        BY <1>2, <2>4, <2>5
      <4>2. g[m] \in Seq(Nat) /\ Len(g[m]) = Len(g[m - 1]) + 1
        BY <2>6, <3>1, <4>1
      <4> HIDE DEF Ok, T
      <4> QED BY <4>1, <4>2
    <3>3. Listed(g[m]) = Listed(g[m - 1]) \cup {t[m].apic_id}
      BY <2>5, <2>6, <3>1, ListedAppend
    <3>4. Reported(t) \cap 1 .. m = (Reported(t) \cap 1 .. m - 1) \cup {m}
      BY <2>4, <2>7
    <3>5. Upto(m) = Upto(m - 1) \cup {t[m].apic_id}
      BY <3>4
    <3> QED BY <2>2, <2>5, <3>2, <3>3, <3>5
  <2>8. CASE m \notin Reported(t)
    <3>1. g[m] = g[m - 1]
      BY <1>2, <2>4, <2>8 DEF ParseEntry, Reported
    <3>2. Reported(t) \cap 1 .. m = Reported(t) \cap 1 .. m - 1
      BY <2>4, <2>8
    <3>3. Len(g[m - 1]) \in Nat /\ Len(g[m]) <= m
      BY <2>4, <2>5, <3>1
    <3> QED BY <2>2, <2>5, <3>1, <3>2, <3>3
  <2> QED BY <2>7, <2>8
<1>4. Ok(Len(t))
  BY <1>2, <1>3
<1>5. Reported(t) \cap 1 .. Len(t) = Reported(t)
  BY DEF Reported
<1> QED BY <1>1, <1>4, <1>5

-----------------------------------------------------------------------------
(***************************************************************************)
(* The invariant.                                                          *)
(***************************************************************************)
ApStates == {"off", "sipi", "stack", "ap_main", "marked", "counted", "printing", "halted"}

\* The ids that init() may write into the control block, and their stacks.
Startable == {c \in Cores : c \in Listed(apic_ids) /\ c # bsp_id}
Stacks    == {StackTop(c) : c \in Startable}

\* The APs that have added themselves to APS_ONLINE.
HasCounted(a) == ap[a] \in {"counted", "printing", "halted"}
Counted     == {a \in Ids : HasCounted(a)}
OnlineCores == {c \in Cores : online[c]}

TypeInv ==
    /\ apic_ids \in Seq(Ids)
    /\ pc \in {"init", "next", "install", "sending", "send", "sipi", "sent", "wait", "check",
               "summary", "done"}
    /\ next \in Nat \ {0}
    /\ block \in [core_id : Cores \cup {None}, stack : Stacks \cup {None}]
    /\ online \in [Cores -> BOOLEAN]
    /\ APS_ONLINE \in Nat /\ total \in Nat
    /\ ap \in [Ids -> ApStates]
    /\ rsp \in [Ids -> Stacks \cup {None}]
    /\ rdi \in [Ids -> Cores \cup {None}]

\* From the first store of install_trampoline until the BSP stops waiting the
\* control block is that of the AP it starts.
BlockInv ==
    pc \in {"install", "sending", "send", "sipi", "sent", "wait"} =>
        /\ next - 1 \in DOMAIN apic_ids /\ core_id = apic_ids[next - 1]
        /\ core_id \in Startable
        /\ block.core_id = core_id
        /\ pc # "install" => block.stack = StackTop(core_id)

\* Whatever the timing, late APs included: only the APs that the MADT lists and
\* CORE_LOCALS has room for are started; each runs on the stack, and reports under
\* the id, of one of them and never of the BSP; and no other core is ever online.
WithinCoreLocals ==
    /\ \A a \in Ids : Running(a) => a \in Startable /\ rsp[a] \in Stacks
    /\ \A a \in Ids : InApMain(a) => rdi[a] \in Startable
    /\ \A c \in Cores : online[c] => c = 0 \/ c \in Startable

\* An AP that was sent a SIPI finds a complete control block.
StartedInv ==
    \A a \in Ids : ap[a] # "off" =>
        a \in Startable /\ block.core_id \in Startable /\ block.stack \in Stacks

\* Without a late AP each has its own stack and id.
OwnInv ==
    late = {} => \A a \in Ids :
        /\ Running(a) => rsp[a] = StackTop(a)
        /\ InApMain(a) => rdi[a] = a

\* The entry of CORE_LOCALS an AP has marked stays marked.
MarkedInv ==
    \A a \in Ids : ap[a] = "marked" \/ HasCounted(a) => online[rdi[a]]

\* Processors that are still to come are off, and each is counted once.
CountInv ==
    Distinct =>
        /\ \A i \in DOMAIN apic_ids : i >= next => ap[apic_ids[i]] = "off"
        /\ pc \in {"install", "sending", "send", "sipi"} => ap[core_id] = "off"
        /\ APS_ONLINE = Cardinality(Counted)

\* The total is at most the BSP and the APs counted so far; when the summary is
\* printed these are on the list.
ListedAps == {a \in Counted : rdi[a] \in listed}

SummaryInv ==
    /\ pc # "init" => online[0]
    /\ listed \subseteq Cores
    /\ pc = "done" => 0 \in listed
    /\ Distinct =>
        /\ pc = "summary" => total <= 1 + Cardinality(Counted)
        /\ pc = "done" => total <= 1 + Cardinality(ListedAps)

SmpInv == /\ TypeInv /\ BlockInv /\ StartedInv /\ WithinCoreLocals
          /\ OwnInv /\ MarkedInv /\ CountInv /\ SummaryInv

-----------------------------------------------------------------------------
(***************************************************************************)
(* The initial states.                                                     *)
(***************************************************************************)
LEMMA IdsAreNat == Ids \subseteq Nat
<1> SUFFICES ASSUME NEW t \in MadtTables PROVE Listed(ParseMadt(t)) \subseteq Nat
  BY DEF Ids
<1>1. ParseMadt(t) \in Seq(Nat)
  BY MadtAssumption, MadtParsed
<1> QED BY <1>1 DEF Listed

LEMMA MadtIds ==
    ASSUME NEW t \in MadtTables
    PROVE  ParseMadt(t) \in Seq(Ids)
<1>1. ParseMadt(t) \in Seq(Nat)
  BY MadtAssumption, MadtParsed
<1>2. \A i \in DOMAIN ParseMadt(t) : ParseMadt(t)[i] \in Ids
  BY DEF Ids, Listed
<1> DEFINE s == ParseMadt(t)
<1>3. s \in Seq(Nat) /\ \A i \in DOMAIN s : s[i] \in Ids
  BY <1>1, <1>2
<1> HIDE DEF s
<1>4. s \in Seq(Ids)
  BY <1>3
<1> QED BY <1>4 DEF s

LEMMA CoresFinite == Cores \subseteq Nat /\ 0 \in Cores /\ IsFiniteSet(Cores)
<1>1. MAX_CORES - 1 \in Nat
  BY CoresAssumption
<1>2. IsFiniteSet(0 .. MAX_CORES - 1)
  BY <1>1, FS_Interval
<1> QED BY <1>1, <1>2 DEF Cores

LEMMA InitInv == Init => SmpInv
<1> SUFFICES ASSUME Init PROVE SmpInv
  OBVIOUS
<1>1. apic_ids \in Seq(Ids)
  BY MadtIds DEF Init
<1>2. TypeInv
  BY <1>1 DEF Init, TypeInv, ApStates
<1>3. BlockInv /\ StartedInv
  BY DEF Init, BlockInv, StartedInv
<1>4. WithinCoreLocals /\ OwnInv /\ MarkedInv
  BY DEF Init, WithinCoreLocals, OwnInv, MarkedInv, HasCounted, Running, InApMain
<1>5. CountInv
  <2>1. \A i \in DOMAIN apic_ids : ap[apic_ids[i]] = "off"
    BY <1>1 DEF Init
  <2>2. Counted = {}
    BY DEF Init, Counted, HasCounted
  <2>3. Cardinality(Counted) = 0
    BY <2>2, FS_EmptySet
  <2> QED BY <2>1, <2>3 DEF Init, CountInv
<1>6. SummaryInv
  BY DEF Init, SummaryInv
<1> QED BY <1>2, <1>3, <1>4, <1>5, <1>6 DEF SmpInv

-----------------------------------------------------------------------------
(***************************************************************************)
(* The steps.                                                              *)
(***************************************************************************)
\* No step changes what the firmware reported.
LEMMA HwConstant ==
    ASSUME [Next]_vars
    PROVE  /\ apic_ids' = apic_ids /\ bsp_id' = bsp_id
           /\ Startable' = Startable /\ Stacks' = Stacks /\ Distinct' = Distinct
<1>1. apic_ids' = apic_ids /\ bsp_id' = bsp_id
  BY DEF Next, Bsp, Ap, vars, hw, InitStart, SkipId, InstallCoreId, InstallStack,
         PrintSending, SendInit, SendSipi, PrintSent, SeesOnline, TimesOut, CheckStarted,
         LoadTotal, PrintSummary,
         ApLoadStack, ApLoadCoreId, ApMarkOnline, ApCount, ApPrint, ApPrinted
<1> QED BY <1>1 DEF Startable, Stacks, Distinct

\* The id the BSP turns to is one it may start.
LEMMA NextStartable ==
    ASSUME TypeInv, next <= Len(apic_ids)
    PROVE  /\ next \in DOMAIN apic_ids /\ apic_ids[next] \in Ids
           /\ Eligible(apic_ids[next]) => apic_ids[next] \in Startable
<1>1. next \in DOMAIN apic_ids /\ apic_ids[next] \in Ids /\ apic_ids[next] \in Nat
  <2>1. apic_ids \in Seq(Ids) /\ next \in Nat \ {0}
    BY DEF TypeInv
  <2>2. next \in DOMAIN apic_ids /\ apic_ids[next] \in Ids
    BY <2>1
  <2> QED BY <2>2, IdsAreNat
<1>2. apic_ids[next] \in Listed(apic_ids)
  BY <1>1 DEF Listed
<1>3. apic_ids[next] < MAX_CORES => apic_ids[next] \in Cores
  BY <1>1, CoresAssumption DEF Cores
<1> QED BY <1>1, <1>2, <1>3 DEF Eligible, Startable

LEMMA StartableIds ==
    ASSUME TypeInv
    PROVE  Startable \subseteq Ids /\ Startable \subseteq Cores
BY DEF TypeInv, Startable, Listed

LEMMA TypeStep ==
    ASSUME SmpInv, [Next]_vars
    PROVE  TypeInv'
<1> USE HwConstant, StartableIds, CoresFinite
<1>0. TypeInv /\ BlockInv /\ StartedInv
  BY DEF SmpInv
<1>1. CASE InitStart
  BY <1>0, <1>1 DEF InitStart, TypeInv, aps
<1>2. CASE SkipId
  BY <1>0, <1>2 DEF SkipId, TypeInv, aps, report
<1>3. CASE InstallCoreId
  <2>1. apic_ids[next] \in Startable
    BY <1>0, <1>3, NextStartable DEF InstallCoreId
  <2>2. block' \in [core_id : Cores \cup {None}, stack : Stacks \cup {None}]
    BY <1>0, <1>3, <2>1 DEF InstallCoreId, TypeInv
  <2>3. next' \in Nat \ {0} /\ pc' = "install"
    BY <1>0, <1>3 DEF InstallCoreId, TypeInv
  <2> QED BY <1>0, <1>3, <2>2, <2>3 DEF InstallCoreId, TypeInv, aps, report
<1>4. CASE InstallStack
  BY <1>0, <1>4 DEF InstallStack, TypeInv, BlockInv, Stacks, aps, report
<1>5. CASE SendInit \/ SendSipi
  BY <1>0, <1>5 DEF SendInit, SendSipi, TypeInv, ApStates, report
<1>6. CASE PrintSending \/ PrintSent \/ SeesOnline \/ TimesOut \/ CheckStarted
  BY <1>0, <1>6 DEF PrintSending, PrintSent, SeesOnline, TimesOut, CheckStarted, TypeInv, aps, report
<1>7. CASE LoadTotal
  BY <1>0, <1>7 DEF LoadTotal, TypeInv, aps
<1>8. CASE PrintSummary
  BY <1>0, <1>8 DEF PrintSummary, TypeInv, aps
<1>9. ASSUME NEW a \in Ids, ApLoadStack(a) PROVE TypeInv'
  BY <1>0, <1>9 DEF ApLoadStack, TypeInv, ApStates, bsp, report
<1>10. ASSUME NEW a \in Ids, ApLoadCoreId(a) PROVE TypeInv'
  BY <1>0, <1>10 DEF ApLoadCoreId, TypeInv, ApStates, bsp, report
<1>11. ASSUME NEW a \in Ids, ApMarkOnline(a) PROVE TypeInv'
  BY <1>0, <1>11 DEF ApMarkOnline, TypeInv, ApStates, bsp, report
<1>12. ASSUME NEW a \in Ids, ApCount(a) \/ ApPrint(a) \/ ApPrinted(a) PROVE TypeInv'
  BY <1>0, <1>12 DEF ApCount, ApPrint, ApPrinted, TypeInv, ApStates, bsp, report
<1>13. CASE UNCHANGED vars
  BY <1>0, <1>13 DEF vars, TypeInv, bsp, aps, report
<1> QED BY <1>1, <1>2, <1>3, <1>4, <1>5, <1>6, <1>7, <1>8, <1>9, <1>10, <1>11, <1>12, <1>13
        DEF Next, Bsp, Ap

LEMMA BlockStep ==
    ASSUME SmpInv, [Next]_vars
    PROVE  BlockInv'
<1> USE HwConstant
<1>0. TypeInv /\ BlockInv
  BY DEF SmpInv
<1>1. CASE \/ InitStart \/ SkipId \/ SeesOnline \/ TimesOut \/ CheckStarted
           \/ LoadTotal \/ PrintSummary
  BY <1>1 DEF InitStart, SkipId, SeesOnline, TimesOut, CheckStarted, LoadTotal, PrintSummary,
     BlockInv
<1>2. CASE InstallCoreId
  <2>1. next \in DOMAIN apic_ids /\ apic_ids[next] \in Startable
    BY <1>0, <1>2, NextStartable DEF InstallCoreId
  <2>2. next' - 1 = next
    BY <1>0, <1>2 DEF InstallCoreId, TypeInv
  <2>3. block'.core_id = apic_ids[next]
    BY <1>0, <1>2 DEF InstallCoreId, TypeInv
  <2> QED BY <1>2, <2>1, <2>2, <2>3 DEF InstallCoreId, BlockInv
<1>3. CASE InstallStack
  <2>1. block'.core_id = block.core_id /\ block'.stack = StackTop(core_id)
    BY <1>0, <1>3 DEF InstallStack, TypeInv
  <2> QED BY <1>0, <1>3, <2>1 DEF InstallStack, BlockInv
<1>4. CASE PrintSending \/ SendInit \/ SendSipi \/ PrintSent
  BY <1>0, <1>4 DEF PrintSending, SendInit, SendSipi, PrintSent, BlockInv
<1>5. CASE (\E a \in Ids : Ap(a)) \/ UNCHANGED vars
  BY <1>0, <1>5
  DEF Ap, ApLoadStack, ApLoadCoreId, ApMarkOnline, ApCount, ApPrint, ApPrinted, BlockInv,
      vars, bsp
<1> QED BY <1>1, <1>2, <1>3, <1>4, <1>5 DEF Next, Bsp

\* Once an AP was started the block never again lacks an id or a stack.
LEMMA StartedStep ==
    ASSUME SmpInv, [Next]_vars
    PROVE  StartedInv'
<1> USE HwConstant
<1>0. TypeInv /\ BlockInv /\ StartedInv
  BY DEF SmpInv
<1>1. CASE \/ InitStart \/ SkipId \/ PrintSending \/ PrintSent
           \/ SeesOnline \/ TimesOut \/ CheckStarted \/ LoadTotal \/ PrintSummary
  BY <1>0, <1>1
  DEF InitStart, SkipId, PrintSending, PrintSent, SeesOnline, TimesOut, CheckStarted, LoadTotal,
      PrintSummary, StartedInv, aps
<1>2. CASE InstallCoreId
  <2>1. apic_ids[next] \in Startable
    BY <1>0, <1>2, NextStartable DEF InstallCoreId
  <2>2. block'.core_id = apic_ids[next] /\ block'.stack = block.stack
    BY <1>0, <1>2 DEF InstallCoreId, TypeInv
  <2> QED BY <1>0, <1>2, <2>1, <2>2 DEF InstallCoreId, StartedInv, aps
<1>3. CASE InstallStack
  <2>1. block'.core_id = block.core_id /\ block'.stack = StackTop(core_id)
    BY <1>0, <1>3 DEF InstallStack, TypeInv
  <2> QED BY <1>0, <1>3, <2>1 DEF InstallStack, StartedInv, BlockInv, Stacks, aps
<1>4. CASE SendInit \/ SendSipi
  <2>1. core_id \in Startable /\ block.core_id = core_id /\ block.stack \in Stacks
    BY <1>0, <1>4 DEF SendInit, SendSipi, BlockInv, Stacks
  <2>2. \A a \in Ids : a # core_id => ap'[a] = ap[a]
    BY <1>0, <1>4 DEF SendInit, SendSipi, TypeInv
  <2> QED BY <1>0, <1>4, <2>1, <2>2 DEF SendInit, SendSipi, StartedInv
<1>5. ASSUME NEW a \in Ids, Ap(a) PROVE StartedInv'
  <2>1. block' = block /\ ap[a] # "off" /\ \A b \in Ids : b # a => ap'[b] = ap[b]
    BY <1>0, <1>5
    DEF Ap, ApLoadStack, ApLoadCoreId, ApMarkOnline, ApCount, ApPrint, ApPrinted, TypeInv
  <2> QED BY <1>0, <2>1 DEF StartedInv
<1>6. CASE UNCHANGED vars
  BY <1>0, <1>6 DEF vars, StartedInv, aps
<1> QED BY <1>1, <1>2, <1>3, <1>4, <1>5, <1>6 DEF Next, Bsp

LEMMA WithinStep ==
    ASSUME SmpInv, [Next]_vars
    PROVE  WithinCoreLocals'
<1> USE HwConstant DEF Running, InApMain
<1>0. TypeInv /\ BlockInv /\ StartedInv /\ WithinCoreLocals
  BY DEF SmpInv
<1>1. CASE \/ SkipId \/ InstallCoreId \/ InstallStack \/ PrintSending \/ PrintSent
           \/ SeesOnline \/ TimesOut \/ CheckStarted \/ LoadTotal \/ PrintSummary
  BY <1>0, <1>1 DEF SkipId, InstallCoreId, InstallStack, PrintSending, PrintSent, SeesOnline,
     TimesOut, CheckStarted, LoadTotal, PrintSummary, WithinCoreLocals, aps
<1>2. CASE InitStart
  <2>1. \A c \in Cores : c # 0 => online'[c] = online[c]
    BY <1>0, <1>2 DEF InitStart, TypeInv
  <2> QED BY <1>0, <1>2, <2>1 DEF InitStart, WithinCoreLocals, aps
<1>3. CASE SendInit \/ SendSipi
  <2>1. \A a \in Ids : ap'[a] \in {"off", "sipi"} \/ ap'[a] = ap[a]
    BY <1>0, <1>3 DEF SendInit, SendSipi, TypeInv
  <2> QED BY <1>0, <1>3, <2>1 DEF SendInit, SendSipi, WithinCoreLocals
<1>4. ASSUME NEW a \in Ids, ApLoadStack(a) PROVE WithinCoreLocals'
  <2>1. /\ a \in Startable /\ rsp'[a] \in Stacks /\ ap'[a] = "stack"
        /\ \A b \in Ids : b # a => ap'[b] = ap[b] /\ rsp'[b] = rsp[b]
    BY <1>0, <1>4 DEF ApLoadStack, TypeInv, StartedInv
  <2> QED BY <1>0, <1>4, <2>1 DEF ApLoadStack, WithinCoreLocals
<1>5. ASSUME NEW a \in Ids, ApLoadCoreId(a) PROVE WithinCoreLocals'
  <2>1. /\ ap[a] = "stack" /\ rdi'[a] \in Startable
        /\ \A b \in Ids : b # a => ap'[b] = ap[b] /\ rdi'[b] = rdi[b]
    BY <1>0, <1>5 DEF ApLoadCoreId, TypeInv, StartedInv
  <2> QED BY <1>0, <1>5, <2>1 DEF ApLoadCoreId, WithinCoreLocals
<1>6. ASSUME NEW a \in Ids, ApMarkOnline(a) PROVE WithinCoreLocals'
  <2>1. ap[a] = "ap_main" /\ rdi[a] \in Startable
    BY <1>0, <1>6 DEF ApMarkOnline, WithinCoreLocals
  <2>2. /\ \A b \in Ids : b # a => ap'[b] = ap[b]
        /\ \A c \in Cores : c # rdi[a] => online'[c] = online[c]
    BY <1>0, <1>6 DEF ApMarkOnline, TypeInv
  <2> QED BY <1>0, <1>6, <2>1, <2>2 DEF ApMarkOnline, WithinCoreLocals
<1>7. ASSUME NEW a \in Ids, ApCount(a) \/ ApPrint(a) \/ ApPrinted(a) PROVE WithinCoreLocals'
  <2>1. /\ ap[a] \in {"marked", "counted", "printing"}
        /\ \A b \in Ids : b # a => ap'[b] = ap[b]
    BY <1>0, <1>7 DEF ApCount, ApPrint, ApPrinted, TypeInv
  <2> QED BY <1>0, <1>7, <2>1 DEF ApCount, ApPrint, ApPrinted, WithinCoreLocals
<1>8. CASE UNCHANGED vars
  BY <1>0, <1>8 DEF vars, WithinCoreLocals, aps
<1> QED BY <1>1, <1>2, <1>3, <1>4, <1>5, <1>6, <1>7, <1>8 DEF Next, Bsp, Ap

\* A step of an AP the BSP does not wait for is remembered in late.
LEMMA LateStep ==
    ASSUME [Next]_vars, late' = {}
    PROVE  late = {}
BY DEF Next, Bsp, Ap, vars, InitStart, SkipId, InstallCoreId, InstallStack,
       PrintSending, SendInit, SendSipi, PrintSent, SeesOnline, TimesOut, CheckStarted,
       LoadTotal, PrintSummary,
       ApLoadStack, ApLoadCoreId, ApMarkOnline, ApCount, ApPrint, ApPrinted, Hurry

\* While the BSP waits for AP a, the control block is a's.
LEMMA AwaitedBlock ==
    ASSUME BlockInv, NEW a, Hurry(a), late' = {}
    PROVE  block.core_id = a /\ block.stack = StackTop(a)
BY DEF BlockInv, Hurry, Awaited

LEMMA OnlineGrows ==
    ASSUME SmpInv, [Next]_vars
    PROVE  \A c \in Cores : online[c] => online'[c]
BY DEF Next, Bsp, Ap, vars, InitStart, SkipId, InstallCoreId, InstallStack,
       PrintSending, SendInit, SendSipi, PrintSent, SeesOnline, TimesOut, CheckStarted,
       LoadTotal, PrintSummary,
       ApLoadStack, ApLoadCoreId, ApMarkOnline, ApCount, ApPrint, ApPrinted, SmpInv, TypeInv

LEMMA OwnStep ==
    ASSUME SmpInv, [Next]_vars
    PROVE  OwnInv'
<1> SUFFICES ASSUME late' = {} PROVE OwnInv'
  BY DEF OwnInv
<1> USE DEF Running, InApMain
<1>0. TypeInv /\ BlockInv /\ OwnInv /\ late = {}
  BY LateStep DEF SmpInv
<1>1. CASE \/ InitStart \/ SkipId \/ InstallCoreId \/ InstallStack \/ PrintSending \/ PrintSent
           \/ SeesOnline \/ TimesOut \/ CheckStarted \/ LoadTotal \/ PrintSummary
           \/ UNCHANGED vars
  <2>1. ap' = ap /\ rsp' = rsp /\ rdi' = rdi
    BY <1>1 DEF InitStart, SkipId, InstallCoreId, InstallStack, PrintSending, PrintSent,
       SeesOnline, TimesOut, CheckStarted, LoadTotal, PrintSummary, vars, aps
  <2> QED BY <1>0, <2>1 DEF OwnInv
<1>3. CASE SendInit \/ SendSipi
  <2>1. \A a \in Ids : ap'[a] \in {"off", "sipi"} \/ ap'[a] = ap[a]
    BY <1>0, <1>3 DEF SendInit, SendSipi, TypeInv
  <2> QED BY <1>0, <1>3, <2>1 DEF SendInit, SendSipi, OwnInv
<1>4. ASSUME NEW a \in Ids, ApLoadStack(a) PROVE OwnInv'
  <2>1. block.stack = StackTop(a)
    BY <1>0, <1>4, AwaitedBlock DEF ApLoadStack
  <2>2. /\ rsp'[a] = StackTop(a) /\ ap'[a] = "stack"
        /\ \A b \in Ids : b # a => ap'[b] = ap[b] /\ rsp'[b] = rsp[b]
    BY <1>0, <1>4, <2>1 DEF ApLoadStack, TypeInv
  <2> QED BY <1>0, <1>4, <2>2 DEF ApLoadStack, OwnInv
<1>5. ASSUME NEW a \in Ids, ApLoadCoreId(a) PROVE OwnInv'
  <2>1. block.core_id = a
    BY <1>0, <1>5, AwaitedBlock DEF ApLoadCoreId
  <2>2. /\ ap[a] = "stack" /\ rdi'[a] = a /\ ap'[a] = "ap_main"
        /\ \A b \in Ids : b # a => ap'[b] = ap[b] /\ rdi'[b] = rdi[b]
    BY <1>0, <1>5, <2>1 DEF ApLoadCoreId, TypeInv
  <2> QED BY <1>0, <1>5, <2>2 DEF ApLoadCoreId, OwnInv
<1>6. ASSUME NEW a \in Ids, ApMarkOnline(a) \/ ApCount(a) \/ ApPrint(a) \/ ApPrinted(a)
      PROVE  OwnInv'
  <2>1. /\ ap[a] \in {"ap_main", "marked", "counted", "printing"}
        /\ \A b \in Ids : b # a => ap'[b] = ap[b]
    BY <1>0, <1>6 DEF ApMarkOnline, ApCount, ApPrint, ApPrinted, TypeInv
  <2>2. rsp' = rsp /\ rdi' = rdi
    BY <1>6 DEF ApMarkOnline, ApCount, ApPrint, ApPrinted
  <2> QED BY <1>0, <2>1, <2>2 DEF OwnInv
<1> QED BY <1>1, <1>3, <1>4, <1>5, <1>6 DEF Next, Bsp, Ap

LEMMA MarkedStep ==
    ASSUME SmpInv, [Next]_vars
    PROVE  MarkedInv'
<1> USE DEF HasCounted
<1>0. TypeInv /\ MarkedInv /\ WithinCoreLocals /\ Startable \subseteq Cores
  BY StartableIds DEF SmpInv
<1>i. \A a \in Ids : ap[a] = "marked" \/ HasCounted(a) => online'[rdi[a]]
  <2>1. \A a \in Ids : ap[a] = "marked" \/ HasCounted(a) => rdi[a] \in Cores
    BY <1>0 DEF WithinCoreLocals, InApMain
  <2> QED BY <1>0, <2>1, OnlineGrows DEF MarkedInv
<1>1. CASE \/ InitStart \/ SkipId \/ InstallCoreId \/ InstallStack \/ PrintSending \/ PrintSent
           \/ SeesOnline \/ TimesOut \/ CheckStarted \/ LoadTotal \/ PrintSummary
           \/ UNCHANGED vars
  <2>1. ap' = ap /\ rdi' = rdi
    BY <1>1 DEF InitStart, SkipId, InstallCoreId, InstallStack, PrintSending, PrintSent,
       SeesOnline, TimesOut, CheckStarted, LoadTotal, PrintSummary, vars, aps
  <2> QED BY <1>i, <2>1 DEF MarkedInv
<1>2. CASE SendInit \/ SendSipi
  <2>1. \A a \in Ids : ap'[a] \in {"off", "sipi"} \/ ap'[a] = ap[a]
    BY <1>0, <1>2 DEF SendInit, SendSipi, TypeInv
  <2>2. rdi' = rdi
    BY <1>2 DEF SendInit, SendSipi
  <2> QED BY <1>i, <2>1, <2>2 DEF MarkedInv
<1>3. ASSUME NEW a \in Ids, ApLoadStack(a) \/ ApLoadCoreId(a) PROVE MarkedInv'
  <2>1. /\ ap'[a] \in {"stack", "ap_main"}
        /\ \A b \in Ids : b # a => ap'[b] = ap[b] /\ rdi'[b] = rdi[b]
    BY <1>0, <1>3 DEF ApLoadStack, ApLoadCoreId, TypeInv
  <2> QED BY <1>i, <2>1 DEF MarkedInv
<1>4. ASSUME NEW a \in Ids, ApMarkOnline(a) PROVE MarkedInv'
  <2>1. rdi[a] \in Cores /\ rdi' = rdi /\ \A b \in Ids : b # a => ap'[b] = ap[b]
    BY <1>0, <1>4 DEF ApMarkOnline, TypeInv, WithinCoreLocals, InApMain
  <2>2. online'[rdi[a]]
    BY <1>0, <1>4, <2>1 DEF ApMarkOnline, TypeInv
  <2> QED BY <1>i, <2>1, <2>2 DEF MarkedInv
<1>5. ASSUME NEW a \in Ids, ApCount(a) \/ ApPrint(a) \/ ApPrinted(a) PROVE MarkedInv'
  <2>1. /\ ap[a] = "marked" \/ HasCounted(a)
        /\ rdi' = rdi /\ \A b \in Ids : b # a => ap'[b] = ap[b]
    BY <1>0, <1>5 DEF ApCount, ApPrint, ApPrinted, TypeInv
  <2> QED BY <1>i, <2>1 DEF MarkedInv
<1> QED BY <1>1, <1>2, <1>3, <1>4, <1>5 DEF Next, Bsp, Ap

\* The counted APs are some of the cores.
LEMMA CountedFinite ==
    ASSUME SmpInv
    PROVE  IsFiniteSet(Counted) /\ Counted \subseteq Startable
<1>1. Counted \subseteq Startable /\ Startable \subseteq Cores
  BY StartableIds DEF SmpInv, StartedInv, Counted, HasCounted
<1>2. Counted \subseteq Cores
  BY <1>1
<1> QED BY <1>1, <1>2, CoresFinite, FS_Subset

LEMMA CountStep ==
    ASSUME SmpInv, [Next]_vars
    PROVE  CountInv'
<1> SUFFICES ASSUME Distinct PROVE CountInv'
  BY HwConstant DEF CountInv
<1> USE HwConstant
<1> DEFINE ToCome == \A i \in DOMAIN apic_ids : i >= next => ap[apic_ids[i]] = "off"
           Starting == {"install", "sending", "send", "sipi"}
           Target == pc \in Starting => ap[core_id] = "off"
<1>0. TypeInv /\ BlockInv /\ ToCome /\ Target /\ APS_ONLINE = Cardinality(Counted)
  BY DEF SmpInv, CountInv
<1>i. /\ DOMAIN apic_ids \subseteq Nat /\ \A i \in DOMAIN apic_ids : apic_ids[i] \in Ids
      /\ next \in Nat
  BY <1>0 DEF TypeInv
<1>j. ToCome' /\ Target' /\ APS_ONLINE' = Cardinality(Counted') => CountInv'
  BY DEF CountInv
<1>1. CASE \/ InitStart \/ PrintSent \/ SeesOnline \/ TimesOut \/ CheckStarted
           \/ LoadTotal \/ PrintSummary
  <2>1. /\ next' = next /\ ap' = ap /\ APS_ONLINE' = APS_ONLINE
        /\ pc' \notin Starting
    BY <1>1 DEF InitStart, PrintSent, SeesOnline, TimesOut, CheckStarted, LoadTotal,
       PrintSummary, aps
  <2>2. Counted' = Counted
    BY <2>1 DEF Counted, HasCounted
  <2> QED BY <1>0, <1>j, <2>1, <2>2
<1>2. CASE SkipId
  <2>1. next' = next + 1 /\ pc' = "next" /\ ap' = ap /\ APS_ONLINE' = APS_ONLINE
    BY <1>2 DEF SkipId, aps
  <2>2. Counted' = Counted
    BY <2>1 DEF Counted, HasCounted
  <2>3. \A i \in DOMAIN apic_ids : i >= next' => i >= next
    BY <1>i, <2>1
  <2> QED BY <1>0, <1>j, <2>1, <2>2, <2>3
<1>3. CASE InstallCoreId
  <2>1. /\ next' = next + 1 /\ ap' = ap /\ APS_ONLINE' = APS_ONLINE
        /\ core_id' = apic_ids[next]
    BY <1>3 DEF InstallCoreId, aps
  <2>2. Counted' = Counted
    BY <2>1 DEF Counted, HasCounted
  <2>3. \A i \in DOMAIN apic_ids : i >= next' => i >= next
    BY <1>i, <2>1
  <2>4. next \in DOMAIN apic_ids /\ next >= next
    BY <1>0, <1>3, <1>i, NextStartable DEF InstallCoreId
  <2> QED BY <1>0, <1>j, <2>1, <2>2, <2>3, <2>4
<1>4. CASE InstallStack \/ PrintSending
  <2>1. /\ next' = next /\ ap' = ap /\ APS_ONLINE' = APS_ONLINE
        /\ core_id' = core_id /\ pc \in Starting
    BY <1>4 DEF InstallStack, PrintSending, aps
  <2>2. Counted' = Counted
    BY <2>1 DEF Counted, HasCounted
  <2> QED BY <1>0, <1>j, <2>1, <2>2
<1>5. CASE SendInit \/ SendSipi
  <2>1. /\ pc \in {"send", "sipi"} /\ next' = next /\ APS_ONLINE' = APS_ONLINE
        /\ core_id' = core_id
        /\ \/ ap' = [ap EXCEPT ![core_id] = "sipi"] /\ pc' = "sent"
           \/ ap' = [ap EXCEPT ![core_id] = "off"] /\ pc' = "sipi"
    BY <1>5 DEF SendInit, SendSipi
  <2>2. /\ next - 1 \in DOMAIN apic_ids /\ core_id = apic_ids[next - 1]
        /\ ap[core_id] = "off" /\ core_id \in Ids
    BY <1>0, <1>i, <2>1 DEF BlockInv
  <2>3. \A a \in Ids : a # core_id => ap'[a] = ap[a]
    BY <1>0, <2>1 DEF TypeInv
  <2>4. Counted' = Counted /\ ap'[core_id] \in {"off", "sipi"}
    BY <1>0, <2>1, <2>2, <2>3 DEF Counted, HasCounted, TypeInv
  <2>5. \A i \in DOMAIN apic_ids : i >= next => i # next - 1
    BY <1>i
  <2>6. \A i \in DOMAIN apic_ids : i >= next => apic_ids[i] # core_id
    BY <2>2, <2>5 DEF Distinct
  <2>7. Target'
    BY <1>0, <2>1, <2>2 DEF TypeInv
  <2>8. ToCome'
    <3> SUFFICES ASSUME NEW i \in DOMAIN apic_ids, i >= next PROVE ap'[apic_ids[i]] = "off"
      BY <2>1
    <3>1. apic_ids[i] \in Ids /\ apic_ids[i] # core_id /\ ap[apic_ids[i]] = "off"
      BY <1>0, <1>i, <2>6
    <3> QED BY <2>3, <3>1
  <2>9. APS_ONLINE' = Cardinality(Counted')
    BY <1>0, <2>1, <2>4
  <2> QED BY <1>j, <2>7, <2>8, <2>9
<1>6. ASSUME NEW a \in Ids, Ap(a) PROVE CountInv'
  <2>1. /\ next' = next /\ pc' = pc /\ core_id' = core_id
        /\ ap[a] # "off"
        /\ \A b \in Ids : b # a => ap'[b] = ap[b]
    BY <1>0, <1>6
    DEF Ap, ApLoadStack, ApLoadCoreId, ApMarkOnline, ApCount, ApPrint, ApPrinted, TypeInv, bsp
  <2>2. ToCome'
    BY <1>0, <1>i, <2>1
  <2>3. Target'
    <3>1. pc \in Starting => core_id \in Ids
      BY <1>0, <1>i DEF BlockInv
    <3> QED BY <1>0, <2>1, <3>1
  <2>4. APS_ONLINE' = Cardinality(Counted')
    <3>1. CASE ApCount(a)
      <4>1. Counted' = Counted \cup {a} /\ a \notin Counted
        BY <1>0, <2>1, <3>1 DEF ApCount, Counted, HasCounted, TypeInv
      <4>2. Cardinality(Counted') = Cardinality(Counted) + 1
        BY <4>1, CountedFinite, FS_AddElement
      <4> QED BY <1>0, <3>1, <4>2 DEF ApCount
    <3>2. CASE ~ApCount(a)
      <4>1. (HasCounted(a)' <=> HasCounted(a)) /\ APS_ONLINE' = APS_ONLINE
        BY <1>0, <1>6, <3>2
        DEF Ap, ApLoadStack, ApLoadCoreId, ApMarkOnline, ApPrint, ApPrinted, TypeInv, HasCounted
      <4>2. \A b \in Ids : HasCounted(b)' <=> HasCounted(b)
        BY <2>1, <4>1 DEF HasCounted
      <4>3. Counted' = Counted
        BY <4>2 DEF Counted
      <4> QED BY <1>0, <4>1, <4>3
    <3> QED BY <3>1, <3>2
  <2> QED BY <1>j, <2>2, <2>3, <2>4
<1>7. CASE UNCHANGED vars
  <2>1. Counted' = Counted
    BY <1>7 DEF vars, aps, Counted, HasCounted
  <2> QED BY <1>0, <1>7, <2>1, <1>j DEF vars, bsp, aps
<1> QED BY <1>1, <1>2, <1>3, <1>4, <1>5, <1>6, <1>7 DEF Next, Bsp

\* An AP that has been counted stays counted, under the same id, unless the MADT
\* lists it twice: no second INIT comes.
LEMMA CountedGrow ==
    ASSUME SmpInv, [Next]_vars, Distinct
    PROVE  \A a \in Counted : a \in Counted' /\ rdi'[a] = rdi[a]
<1> USE DEF Counted, HasCounted
<1>0. TypeInv /\ BlockInv /\ CountInv
  BY DEF SmpInv
<1>1. CASE SendInit \/ SendSipi
  <2>1. ap[core_id] = "off" /\ rdi' = rdi
    BY <1>0, <1>1 DEF SendInit, SendSipi, CountInv
  <2>2. \A a \in Ids : a # core_id => ap'[a] = ap[a]
    BY <1>0, <1>1 DEF SendInit, SendSipi, TypeInv
  <2> QED BY <2>1, <2>2
<1>2. CASE \/ InitStart \/ SkipId \/ InstallCoreId \/ InstallStack \/ PrintSending \/ PrintSent
           \/ SeesOnline \/ TimesOut \/ CheckStarted \/ LoadTotal \/ PrintSummary
           \/ UNCHANGED vars
  BY <1>2 DEF InitStart, SkipId, InstallCoreId, InstallStack, PrintSending, PrintSent,
     SeesOnline, TimesOut, CheckStarted, LoadTotal, PrintSummary, vars, aps
<1>3. ASSUME NEW b \in Ids, Ap(b) PROVE \A a \in Counted : a \in Counted' /\ rdi'[a] = rdi[a]
  BY <1>0, <1>3
  DEF Ap, ApLoadStack, ApLoadCoreId, ApMarkOnline, ApCount, ApPrint, ApPrinted, TypeInv
<1> QED BY <1>1, <1>2, <1>3 DEF Next, Bsp

LEMMA SummaryStep ==
    ASSUME SmpInv, TypeInv', StartedInv', [Next]_vars
    PROVE  SummaryInv'
<1>0. TypeInv /\ SummaryInv /\ CountInv /\ 0 \in Cores
  BY CoresFinite DEF SmpInv
<1>i. \A c \in Cores : online[c] => online'[c]
  BY OnlineGrows
<1>f. /\ IsFiniteSet(Counted) /\ IsFiniteSet(Counted')
      /\ Cardinality(Counted) \in Nat /\ Cardinality(Counted') \in Nat
  <2>1. Counted' \subseteq Startable' /\ Startable' \subseteq Cores
    BY StartableIds DEF StartedInv, Counted, HasCounted, Startable
  <2>2. Counted' \subseteq Cores
    BY <2>1
  <2>3. IsFiniteSet(Counted')
    BY <2>2, CoresFinite, FS_Subset
  <2> QED BY <2>3, CountedFinite, FS_CardinalityType
<1>g. Distinct => Cardinality(Counted) <= Cardinality(Counted')
  <2>1. Distinct => Counted \subseteq Counted'
    BY CountedGrow
  <2> QED BY <1>f, <2>1, FS_Subset
<1>1. CASE InitStart
  <2>1. online'[0] /\ pc' # "done" /\ listed' = listed
    BY <1>0, <1>1 DEF InitStart, TypeInv
  <2>2. pc' = "summary" => total' = 1
    BY <1>1 DEF InitStart
  <2>3. pc' = "summary" => total' <= 1 + Cardinality(Counted')
    BY <1>f, <2>2
  <2> QED BY <1>0, <2>1, <2>3 DEF SummaryInv
<1>2. CASE LoadTotal
  <2>1. /\ pc = "next" /\ pc' = "summary" /\ total' = 1 + APS_ONLINE /\ online' = online
        /\ listed' = listed /\ Counted' = Counted
    BY <1>2 DEF LoadTotal, aps, Counted, HasCounted
  <2>2. Distinct => total' <= 1 + Cardinality(Counted')
    BY <1>0, <1>f, <2>1 DEF CountInv
  <2>3. online'[0]
    BY <1>0, <2>1 DEF SummaryInv
  <2>4. pc' # "done" /\ listed' \subseteq Cores
    BY <1>0, <2>1 DEF SummaryInv
  <2> QED BY <2>2, <2>3, <2>4, HwConstant DEF SummaryInv
<1>3. CASE PrintSummary
  <2>1. /\ pc = "summary" /\ pc' = "done" /\ total' = total /\ online' = online
        /\ ap' = ap /\ rdi' = rdi /\ listed' = OnlineCores
    BY <1>3 DEF PrintSummary, OnlineCores, aps
  <2>2. online[0]
    BY <1>0, <2>1 DEF SummaryInv
  <2>3. 0 \in listed' /\ listed' \subseteq Cores /\ online'[0]
    BY <1>0, <2>1, <2>2 DEF OnlineCores
  <2>4. \A a \in Counted : rdi[a] \in OnlineCores
    <3>1. \A a \in Counted : rdi[a] \in Cores
      BY StartableIds DEF SmpInv, WithinCoreLocals, InApMain, Counted, HasCounted
    <3>2. \A a \in Counted : online[rdi[a]]
      BY DEF SmpInv, MarkedInv, Counted
    <3> QED BY <3>1, <3>2 DEF OnlineCores
  <2>5. Counted' = Counted
    BY <2>1 DEF Counted, HasCounted
  <2>6. ListedAps' = Counted
    BY <2>1, <2>4, <2>5 DEF ListedAps
  <2>7. Distinct => total' <= 1 + Cardinality(ListedAps')
    BY <1>0, <2>1, <2>6 DEF SummaryInv
  <2>8. pc' # "summary"
    BY <2>1
  <2> QED BY <2>3, <2>7, <2>8, HwConstant DEF SummaryInv
<1>4. CASE \/ SkipId \/ InstallCoreId \/ InstallStack \/ PrintSending \/ SendInit \/ SendSipi
           \/ PrintSent \/ SeesOnline \/ TimesOut \/ CheckStarted
  <2>1. pc # "init" /\ pc' \notin {"summary", "done"} /\ online' = online /\ listed' = listed
    BY <1>4 DEF SkipId, InstallCoreId, InstallStack, PrintSending, SendInit, SendSipi, PrintSent,
       SeesOnline, TimesOut, CheckStarted, report
  <2> QED BY <1>0, <2>1 DEF SummaryInv
<1>5. CASE (\E a \in Ids : Ap(a)) \/ UNCHANGED vars
  <2>1. pc' = pc /\ total' = total /\ listed' = listed
    BY <1>5
    DEF Ap, ApLoadStack, ApLoadCoreId, ApMarkOnline, ApCount, ApPrint, ApPrinted, vars, bsp, report
  <2>2. online[0] => online'[0]
    BY <1>0, <1>i
  <2>3. Distinct /\ total <= 1 + Cardinality(Counted) => total <= 1 + Cardinality(Counted')
    BY <1>0, <1>f, <1>g DEF TypeInv
  <2>4. Distinct => ListedAps \subseteq ListedAps'
    BY <2>1, CountedGrow DEF ListedAps
  <2>5. ListedAps' \subseteq Counted' /\ ListedAps \subseteq Counted
    BY DEF ListedAps
  <2>6. IsFiniteSet(ListedAps') /\ IsFiniteSet(ListedAps)
    BY <1>f, <2>5, FS_Subset
  <2>7. /\ Cardinality(ListedAps) \in Nat /\ Cardinality(ListedAps') \in Nat
        /\ Distinct => Cardinality(ListedAps) <= Cardinality(ListedAps')
    BY <2>4, <2>6, FS_Subset, FS_CardinalityType
  <2>8. Distinct /\ total <= 1 + Cardinality(ListedAps) => total <= 1 + Cardinality(ListedAps')
    BY <1>0, <2>7 DEF TypeInv
  <2> QED BY <1>0, <2>1, <2>2, <2>3, <2>8, HwConstant DEF SummaryInv
<1> QED BY <1>1, <1>2, <1>3, <1>4, <1>5 DEF Next, Bsp

-----------------------------------------------------------------------------
(***************************************************************************)
(* Results.                                                                *)
(***************************************************************************)

\* The invariant holds throughout bring-up, for any MADT and any timing.
THEOREM SmpInvariant == Spec => []SmpInv
<1>1. SmpInv /\ [Next]_vars => SmpInv'
  BY TypeStep, BlockStep, StartedStep, WithinStep, OwnStep, MarkedStep, CountStep, SummaryStep
  DEF SmpInv
<1> QED BY InitInv, <1>1, PTL DEF Spec

\* As long as no AP outlasts the BSP's 200 ms, no two of them share a stack or an
\* id, although init() hands both over in one control block.
THEOREM EveryApItsOwn == Spec => []OwnStackAndId
<1>1. SmpInv => OwnStackAndId
  <2> SUFFICES ASSUME SmpInv, late = {} PROVE OwnStackAndId
    BY DEF OwnStackAndId
  <2>1. \A a \in Ids : InApMain(a) => rdi[a] = a /\ a \in Cores
    BY DEF SmpInv, OwnInv, WithinCoreLocals, Startable, InApMain, Running
  <2>2. \A a \in Ids : Running(a) => rsp[a] = StackTop(a)
    BY DEF SmpInv, OwnInv
  <2>3. \A a, b \in Ids : StackTop(a) = StackTop(b) => a = b
    BY DEF StackTop
  <2> QED BY <2>1, <2>2, <2>3 DEF OwnStackAndId
<1> QED BY SmpInvariant, <1>1, PTL

\* print_summary counts no core that it does not list, for any MADT that lists each
\* processor once and any timing, as long as no two APs report under one id; an AP
\* that shares entry 0 with the BSP is the one excess.
THEOREM SummaryIsSafe == Spec => []SummaryNeverOvercounts
<1>1. SmpInv => SummaryNeverOvercounts
  <2> SUFFICES ASSUME SmpInv, pc = "done", Distinct, Unshared
               PROVE  total <= Cardinality(listed)
                                 + Cardinality({a \in Ids : InApMain(a) /\ rdi[a] = 0})
    BY DEF SummaryNeverOvercounts
  <2> DEFINE Zero == {a \in Ids : InApMain(a) /\ rdi[a] = 0}
             Rest == ListedAps \ Zero
             f == [a \in Rest |-> rdi[a]]
  <2>1. /\ total \in Nat /\ total <= 1 + Cardinality(ListedAps)
        /\ 0 \in listed /\ listed \subseteq Cores
    BY DEF SmpInv, TypeInv, SummaryInv
  <2>2. \A a \in ListedAps : a \in Ids /\ InApMain(a) /\ rdi[a] \in listed
    BY DEF ListedAps, Counted, HasCounted, InApMain
  <2>3. f \in Injection(Rest, listed \ {0})
    <3>1. f \in [Rest -> listed \ {0}]
      BY <2>2
    <3>2. \A a, b \in Rest : f[a] = f[b] => a = b
      BY <2>2 DEF Unshared
    <3> QED BY <3>1, <3>2, Fun_IsInj
  <2>4. IsFiniteSet(listed) /\ IsFiniteSet(listed \ {0})
    BY <2>1, CoresFinite, FS_Subset
  <2>5. Cardinality(listed \ {0}) = Cardinality(listed) - 1
    BY <2>1, <2>4, FS_RemoveElement
  <2>6. IsFiniteSet(Zero)
    <3>1. Zero \subseteq Cores
      BY StartableIds DEF SmpInv, StartedInv, InApMain
    <3> QED BY <3>1, CoresFinite, FS_Subset
  <2>7. IsFiniteSet(Rest) /\ Cardinality(Rest) <= Cardinality(listed \ {0})
    BY <2>3, <2>4, FS_Injection
  <2>8. IsFiniteSet(ListedAps) /\ ListedAps \subseteq Rest \cup Zero
    BY CountedFinite, FS_Subset DEF ListedAps
  <2>9. Cardinality(ListedAps) <= Cardinality(Rest \cup Zero)
    BY <2>6, <2>7, <2>8, FS_Subset, FS_Union
  <2>10. Rest \cap Zero = {}
    OBVIOUS
  <2>11. Cardinality(Rest \cup Zero) = Cardinality(Rest) + Cardinality(Zero)
    <3>1. Cardinality(Rest \cup Zero)
            = Cardinality(Rest) + Cardinality(Zero) - Cardinality(Rest \cap Zero)
      BY <2>6, <2>7, FS_Union
    <3>2. Cardinality(Rest \cap Zero) = 0
      BY <2>10, FS_EmptySet
    <3>3. Cardinality(Rest) \in Nat /\ Cardinality(Zero) \in Nat
      BY <2>6, <2>7, FS_CardinalityType
    <3> HIDE DEF Rest, Zero
    <3> QED BY <3>1, <3>2, <3>3
  <2>12. /\ Cardinality(Rest) \in Nat /\ Cardinality(Zero) \in Nat
         /\ Cardinality(listed) \in Nat /\ Cardinality(ListedAps) \in Nat
    BY <2>4, <2>6, <2>7, <2>8, FS_CardinalityType
  <2> HIDE DEF Rest, Zero, f
  <2>13. total <= Cardinality(listed) + Cardinality(Zero)
    BY <2>1, <2>5, <2>7, <2>9, <2>11, <2>12
  <2> QED BY <2>13 DEF Zero
<1> QED BY SmpInvariant, <1>1, PTL

\* Even an AP that outlasts the wait, and so reads the block of another, stays
\* within AP_STACKS and CORE_LOCALS and never takes the BSP's id.
THEOREM LateApsStayWithin == Spec => []WithinCoreLocals
<1>1. SmpInv => WithinCoreLocals
  BY DEF SmpInv
<1> QED BY SmpInvariant, <1>1, PTL
=============================================================================
