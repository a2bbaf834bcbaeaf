------------------------------- MODULE Loader -------------------------------
(***************************************************************************)
(* Memory from boot to ring 3: the frame allocator (memory.rs), the heap   *)
(* mapping (allocator.rs), the trampoline page (main.rs), the ELF loader   *)
(* (elf_loader.rs) and user::setup with its fallback program (user.rs).    *)
(*                                                                         *)
(* All of it runs on the boot processor, one page per step.  A page holds  *)
(* PAGE bytes; page and frame numbers stand for addresses, and a page      *)
(* table covers SPAN pages (one level stands for the levels above the      *)
(* page, which map_to of the x86_64 crate creates on demand).              *)
(***************************************************************************)
EXTENDS Naturals, Sequences, Functions

CONSTANTS PAGE,         \* bytes of a page (4096)
          SPAN,         \* pages one page table maps (512)
          HEAP_PAGES,   \* pages of the heap, HEAP_SIZE / 4096
          HEAP_START, TRAMPOLINE, USER_CODE, USER_STACK,  \* their page numbers
          BootPages,    \* the pages of the bootloader: kernel, physical-memory window
          NonCanonical, \* pages whose addresses VirtAddr::new panics on
          PHDR_LEN,     \* bytes of a program header, as far as load reads one (56)
          P_TYPE_LEN,   \* ... and of its type (4)
          USER_PROGRAM, \* the bytes of the hand-coded program
          MemoryMaps,   \* memory maps: sequences of [usable, start, end]
          Frames,       \* bound: the frame numbers the memory maps speak of
          Images,       \* ELF images
          None          \* Option::None

ASSUME PageAssumption == PAGE \in Nat \ {0} /\ SPAN \in Nat \ {0}

\* The fixed pages of the kernel's layout lie apart.
ASSUME LayoutAssumption ==
    /\ {HEAP_START, HEAP_PAGES, TRAMPOLINE, USER_CODE, USER_STACK} \subseteq Nat
    /\ TRAMPOLINE # USER_STACK
    /\ {TRAMPOLINE, USER_STACK} \cap (HEAP_START .. HEAP_START + HEAP_PAGES - 1) = {}
    /\ BootPages \cap (HEAP_START .. HEAP_START + HEAP_PAGES - 1 \cup {USER_STACK}) = {}

VARIABLES
    regions,        \* the bootloader's memory map
    elf,            \* ELF_PROGRAM
    next,           \* BootInfoFrameAllocator.next
    pages,          \* page |-> [frame, user, w, x]: mapped, BootPages apart
    tables,         \* table number |-> frame: the page tables map_to made
    mem,            \* frame |-> its bytes
    pc,             \* where kernel_main is
    ph, vpage,      \* load: the program header and page at hand
    entry           \* where ring 3 starts

mm   == <<next, pages, tables>>
load == <<ph, vpage>>
loaderVars == <<regions, elf, mm, mem, pc, load, entry>>

Junk  == 256        \* whatever a frame held before: told apart from every u8
Int3  == 204        \* 0xCC
Bytes == 0 .. PAGE - 1
U8    == 0 .. 255

ProgramHeaders ==
    [pt_load : BOOLEAN, offset : Nat, vaddr : Nat, filesz : Nat, memsz : Nat,
     w : BOOLEAN, x : BOOLEAN]

ASSUME ImagesAssumption ==
    /\ USER_PROGRAM \in Seq(U8)
    /\ \A e \in Images : e.phs \in Seq(ProgramHeaders) /\ e.bytes \in Seq(U8)

-----------------------------------------------------------------------------
(***************************************************************************)
(* The frame allocator: the next'th usable frame, and next moves on        *)
(* whether there is one or not.                                            *)
(***************************************************************************)
UsableOf(rs) ==
    LET frames(r) == [i \in 1 .. r.end - r.start |-> r.start + i - 1]
        upto[k \in 0 .. Len(rs)] ==
            IF k = 0 THEN <<>>
            ELSE IF rs[k].usable THEN upto[k - 1] \o frames(rs[k]) ELSE upto[k - 1]
    IN upto[Len(rs)]

\* The regions of a memory map do not overlap.
ASSUME MapsAssumption ==
    /\ None \notin Frames \cup {TRAMPOLINE}
    /\ \A rs \in MemoryMaps :
         LET fs == UsableOf(rs)
         IN fs \in Seq(Frames) /\ \A i, j \in DOMAIN fs : fs[i] = fs[j] => i = j

UsableFrames == UsableOf(regions)

Nth_Reused(n) == IF n \div 2 < Len(UsableFrames) THEN UsableFrames[n \div 2 + 1] ELSE None
Nth(n) == IF n < Len(UsableFrames) THEN UsableFrames[n + 1] ELSE None

(***************************************************************************)
(* Mapper::map_to (external), the allocator being at n: a missing table    *)
(* takes a frame first; then the page must be unmapped.  `ok` is its       *)
(* result; the table stays when the page turns out to be mapped.           *)
(***************************************************************************)
MapTo(p, frame, user, w, x, n) ==
    LET t    == p \div SPAN
        made == IF t \in DOMAIN tables THEN tables
                ELSE IF Nth(n) = None THEN tables
                ELSE [u \in DOMAIN tables \cup {t} |-> IF u = t THEN Nth(n) ELSE tables[u]]
        ok   == t \in DOMAIN made /\ p \notin DOMAIN pages \cup BootPages
    IN [ok     |-> ok,
        next   |-> IF t \in DOMAIN tables THEN n ELSE n + 1,
        tables |-> made,
        pages  |-> IF ~ok THEN pages
                   ELSE [q \in DOMAIN pages \cup {p} |->
                           IF q = p THEN [frame |-> frame, user |-> user, w |-> w, x |-> x]
                           ELSE pages[q]]]

\* The allocator and the page tables after map_to has answered m.
Keep(m) == next' = m.next /\ tables' = m.tables /\ pages' = m.pages

Panic ==
    /\ pc' = "panic"
    /\ UNCHANGED <<mem, load, entry>>

-----------------------------------------------------------------------------
LoaderInit ==
    /\ regions \in MemoryMaps
    /\ elf \in Images
    /\ next = 0
    /\ \E mapped \in BOOLEAN :          \* the bootloader may have mapped it
         pages = [p \in IF mapped THEN {TRAMPOLINE} ELSE {} |->
                    [frame |-> TRAMPOLINE, user |-> FALSE, w |-> TRUE, x |-> TRUE]]
    /\ tables = [t \in {p \div SPAN : p \in DOMAIN pages \cup BootPages} |-> None]
    /\ mem = [f \in Frames |-> [b \in Bytes |-> Junk]]
    /\ pc = "heap"
    /\ ph = 1 /\ vpage = HEAP_START
    /\ entry = None

(***************************************************************************)
(* init_heap, one page per step; kernel_main expects it to succeed.        *)
(***************************************************************************)
HeapPage ==
    /\ pc = "heap" /\ vpage < HEAP_START + HEAP_PAGES
    /\ LET m == MapTo(vpage, Nth(next), FALSE, TRUE, TRUE, next + 1)
       IN IF Nth(next) = None
          THEN next' = next + 1 /\ UNCHANGED <<pages, tables>> /\ Panic
          ELSE /\ Keep(m)
               /\ IF m.ok THEN vpage' = vpage + 1 /\ UNCHANGED <<mem, pc, ph, entry>>
                  ELSE Panic
    /\ UNCHANGED <<regions, elf>>

HeapReady ==
    /\ pc = "heap" /\ vpage = HEAP_START + HEAP_PAGES
    /\ pc' = "trampoline"
    /\ UNCHANGED <<regions, elf, mm, mem, load, entry>>

\* The frame of the trampoline is fixed; a failure is only a warning.
MapTrampoline ==
    /\ pc = "trampoline"
    /\ Keep(MapTo(TRAMPOLINE, TRAMPOLINE, FALSE, TRUE, TRUE, next))
    /\ pc' = "header"
    /\ UNCHANGED <<regions, elf, mem, load, entry>>

(***************************************************************************)
(* elf_loader::load.                                                       *)
(***************************************************************************)
\* The six checks of the ELF header, before anything is mapped.
HeaderOk(image) == image.bad = {}

CheckHeader ==
    /\ pc = "header"
    /\ pc' = IF HeaderOk(elf) THEN "ph" ELSE "fallback"
    /\ ph' = 1
    /\ UNCHANGED <<regions, elf, mm, mem, vpage, entry>>

\* BadPhOffset, and for PT_LOAD SegmentOutOfBounds.  In between, slices of a
\* fixed length are taken, whatever e_phentsize is: beyond the file they panic.
PhInFile(i) == elf.phoff + i * elf.phentsize <= Len(elf.bytes)
SlicesInFile(i) ==
    elf.phoff + (i - 1) * elf.phentsize
      + (IF elf.phs[i].pt_load THEN PHDR_LEN ELSE P_TYPE_LEN) <= Len(elf.bytes)
SegmentInFile(s) == s.offset + s.filesz <= Len(elf.bytes)

StartPage(s) == s.vaddr \div PAGE
EndPage_OneMore(s) == (s.vaddr + s.memsz) \div PAGE + 1
EndPage(s) == (s.vaddr + s.memsz + PAGE - 1) \div PAGE

\* One turn of the loop over the program headers, up to the page loop.
ProgramHeader ==
    /\ pc = "ph" /\ ph <= Len(elf.phs)
    /\ LET s == elf.phs[ph]
       IN \/ /\ ~PhInFile(ph)
             /\ pc' = "fallback" /\ UNCHANGED load
          \/ /\ PhInFile(ph) /\ ~SlicesInFile(ph)
             /\ pc' = "panic" /\ UNCHANGED load
          \/ /\ PhInFile(ph) /\ SlicesInFile(ph) /\ ~s.pt_load
             /\ ph' = ph + 1 /\ UNCHANGED <<pc, vpage>>
          \/ /\ PhInFile(ph) /\ SlicesInFile(ph) /\ s.pt_load /\ ~SegmentInFile(s)
             /\ pc' = "fallback" /\ UNCHANGED load
          \/ /\ PhInFile(ph) /\ SlicesInFile(ph) /\ s.pt_load /\ SegmentInFile(s)
             /\ pc' = "page" /\ vpage' = StartPage(s) /\ UNCHANGED ph
    /\ UNCHANGED <<regions, elf, mm, mem, entry>>

\* What the page loop leaves in the frame of page p: zeros, then the bytes of
\* the file between copy_start and copy_end.
PageBytes_NoZero(s, p) ==
    [b \in Bytes |-> LET a == p * PAGE + b
                     IN IF a >= s.vaddr /\ a < s.vaddr + s.filesz
                        THEN elf.bytes[s.offset + (a - s.vaddr) + 1] ELSE Junk]
PageBytes_FromPageStart(s, p) ==
    LET hi == IF s.vaddr + s.filesz < (p + 1) * PAGE THEN s.vaddr + s.filesz
              ELSE (p + 1) * PAGE
        lo == IF s.vaddr > p * PAGE THEN s.vaddr ELSE p * PAGE
    IN [b \in Bytes |-> IF lo < hi /\ b < hi - lo
                        THEN elf.bytes[s.offset + (lo - s.vaddr) + b + 1] ELSE 0]
PageBytes(s, p) ==
    LET copy_start == IF s.vaddr > p * PAGE THEN s.vaddr ELSE p * PAGE
        copy_end   == IF s.vaddr + s.filesz < (p + 1) * PAGE THEN s.vaddr + s.filesz
                      ELSE (p + 1) * PAGE
        src_off    == copy_start - s.vaddr
        dst_off    == copy_start - p * PAGE
        len        == copy_end - copy_start
    IN [b \in Bytes |-> IF copy_start < copy_end /\ b \in dst_off .. dst_off + len - 1
                        THEN elf.bytes[s.offset + src_off + (b - dst_off) + 1]
                        ELSE 0]

\* One turn of the page loop.  On PageMapFailed the frame it took is lost.
LoadPage ==
    /\ pc = "page" /\ vpage < EndPage(elf.phs[ph])
    /\ LET s == elf.phs[ph]
           m == MapTo(vpage, Nth(next), TRUE, s.w, s.x, next + 1)
       IN \/ /\ Nth(next) = None
             /\ next' = next + 1 /\ pc' = "fallback"
             /\ UNCHANGED <<pages, tables, mem, vpage>>
          \/ /\ Nth(next) # None /\ vpage \in NonCanonical
             /\ next' = next + 1 /\ pc' = "panic"
             /\ UNCHANGED <<pages, tables, mem, vpage>>
          \/ /\ Nth(next) # None /\ vpage \notin NonCanonical
             /\ Keep(m)
             /\ IF m.ok
                THEN /\ mem' = [mem EXCEPT ![Nth(next)] = PageBytes(s, vpage)]
                     /\ vpage' = vpage + 1
                     /\ UNCHANGED pc
                ELSE pc' = "fallback" /\ UNCHANGED <<mem, vpage>>
    /\ UNCHANGED <<regions, elf, ph, entry>>

SegmentDone ==
    /\ pc = "page" /\ vpage >= EndPage(elf.phs[ph])
    /\ pc' = "ph" /\ ph' = ph + 1
    /\ UNCHANGED <<regions, elf, mm, mem, vpage, entry>>

LoadOk ==
    /\ pc = "ph" /\ ph > Len(elf.phs)
    /\ entry' = elf.entry
    /\ pc' = "stack"
    /\ UNCHANGED <<regions, elf, mm, mem, load>>

(***************************************************************************)
(* user::setup: the fallback for any Err of load, then the user stack.     *)
(***************************************************************************)
Fallback ==
    /\ pc = "fallback"
    /\ LET m == MapTo(USER_CODE, Nth(next), TRUE, TRUE, TRUE, next + 1)
       IN IF Nth(next) = None
          THEN next' = next + 1 /\ UNCHANGED <<pages, tables>> /\ Panic
          ELSE /\ Keep(m)
               /\ IF m.ok
                  THEN /\ mem' = [mem EXCEPT ![Nth(next)] =
                              [b \in Bytes |-> IF b < Len(USER_PROGRAM)
                                               THEN USER_PROGRAM[b + 1] ELSE Int3]]
                       /\ entry' = USER_CODE * PAGE
                       /\ pc' = "stack"
                       /\ UNCHANGED load
                  ELSE Panic
    /\ UNCHANGED <<regions, elf>>

MapStack ==
    /\ pc = "stack"
    /\ LET m == MapTo(USER_STACK, Nth(next), TRUE, TRUE, FALSE, next + 1)
       IN IF Nth(next) = None
          THEN next' = next + 1 /\ UNCHANGED <<pages, tables>> /\ Panic
          ELSE /\ Keep(m)
               /\ IF m.ok
                  THEN /\ mem' = [mem EXCEPT ![Nth(next)] = [b \in Bytes |-> 0]]
                       /\ pc' = "enter"
                       /\ UNCHANGED <<load, entry>>
                  ELSE Panic
    /\ UNCHANGED <<regions, elf>>

LoaderNext ==
    \/ HeapPage \/ HeapReady \/ MapTrampoline
    \/ CheckHeader \/ ProgramHeader \/ LoadPage \/ SegmentDone \/ LoadOk
    \/ Fallback \/ MapStack

-----------------------------------------------------------------------------
(***************************************************************************)
(* Properties.                                                             *)
(***************************************************************************)
\* A frame serves one purpose: no two pages, no two page tables, and no page
\* and page table share one, whatever failed on the way (frames of failed
\* mappings are lost, never handed out again).  The trampoline page is the
\* exception when the memory map calls its fixed frame usable: main.rs maps
\* 0x50000 without asking the allocator, which may have given it to the heap.
FramesUsedOnce ==
    LET Allocated == {p \in DOMAIN pages : p # TRAMPOLINE}
        Kept      == TRAMPOLINE \notin Range(UsableFrames)
        Mine      == IF Kept THEN DOMAIN pages ELSE Allocated
    IN /\ \A p, q \in Mine : p # q => pages[p].frame # pages[q].frame
       /\ \A t, u \in DOMAIN tables : t # u /\ tables[t] # None => tables[t] # tables[u]
       /\ \A p \in Mine, t \in DOMAIN tables : pages[p].frame # tables[t]

\* What ring 3 can read, from the first step at which a page is mapped for it,
\* was written by load or setup: no byte of a frame's earlier life is left,
\* not even on pages a failed load leaves behind.
NoStaleBytes ==
    \A p \in DOMAIN pages :
        pages[p].user => \A b \in Bytes : mem[pages[p].frame][b] # Junk

\* When load has succeeded, memory holds the image the program headers
\* describe: at every address of a PT_LOAD segment the byte of the file, and
\* zero beyond filesz, on a page that is writable and executable exactly as
\* its own segment asks.  (Segments sharing a page make load fail, so no later
\* segment can have replaced the bytes or the flags of an earlier one.)
ImageInMemory ==
    pc \in {"stack", "enter"} /\ HeaderOk(elf) /\ ph > Len(elf.phs) =>
        \A i \in 1 .. Len(elf.phs) :
            LET s == elf.phs[i]
            IN s.pt_load =>
                \A o \in 0 .. s.memsz - 1 :
                    LET p == (s.vaddr + o) \div PAGE
                    IN /\ p \in DOMAIN pages
                       /\ pages[p].user /\ pages[p].w = s.w /\ pages[p].x = s.x
                       /\ mem[pages[p].frame][(s.vaddr + o) % PAGE] =
                            IF o < s.filesz THEN elf.bytes[s.offset + o + 1] ELSE 0

Reserved == HEAP_START .. HEAP_START + HEAP_PAGES - 1 \cup {TRAMPOLINE, USER_STACK}
              \cup BootPages \cup NonCanonical

\* An image load is meant to accept: sound headers, and segments that share no
\* page with one another or with what is mapped already.  (They are not empty:
\* for memsz = 0 at an address inside a page the loop still maps that page.)
WellFormed(image) ==
    LET Segments == {i \in 1 .. Len(image.phs) : image.phs[i].pt_load}
        At(i) == {(image.phs[i].vaddr + o) \div PAGE : o \in 0 .. image.phs[i].memsz - 1}
    IN /\ HeaderOk(image)
       /\ \A i \in 1 .. Len(image.phs) : PhInFile(i) /\ SlicesInFile(i)
       /\ \A i \in Segments : /\ SegmentInFile(image.phs[i])
                             /\ image.phs[i].memsz > 0
                             /\ At(i) \cap Reserved = {}
       /\ \A i, j \in Segments : i # j => At(i) \cap At(j) = {}

\* load turns down a well-formed image, and setup panics over one, only when
\* the frames have run out: no segment's page loop runs into the pages of
\* another, of the stack or of the heap.
GoodImageLoads ==
    pc \in {"fallback", "panic"} /\ WellFormed(elf) => Nth(next - 1) = None
=============================================================================
