---------------------------- MODULE MCUserSpace -----------------------------
EXTENDS UserSpace

\* Frame 1 is the trampoline's.  Maps with holes and 1 to 12 usable frames,
\* and one that calls frame 1 usable.
MCMaps ==
    {<<[usable |-> FALSE, start |-> 0, end |-> 2], [usable |-> TRUE, start |-> 2, end |-> 4],
       [usable |-> FALSE, start |-> 4, end |-> 5], [usable |-> TRUE, start |-> 5, end |-> n]>> :
        n \in {5, 7, 8, 9, 10, 11, 12, 15}}
    \cup {<<[usable |-> TRUE, start |-> 0, end |-> 12]>>}

MCFrames == 0 .. 15
MCBootPages == {28}
MCNonCanonical == {30}
MCUserProgram == <<72>>
MCBytes == <<1, 2, 3, 4, 5, 6>>

Seg(offset, vaddr, filesz, memsz, w, x) ==
    [pt_load |-> TRUE, offset |-> offset, vaddr |-> vaddr, filesz |-> filesz,
     memsz |-> memsz, w |-> w, x |-> x]
Note == [Seg(0, 0, 0, 0, FALSE, FALSE) EXCEPT !.pt_load = FALSE]

Image(bad, phs, entry_, prog) ==
    [bad |-> bad, phs |-> phs, entry |-> entry_, bytes |-> MCBytes, phoff |-> 0,
     phentsize |-> 1, program |-> prog]

\* A text and a data segment: aligned and not, with and without a zero-filled
\* tail, sharing a page, meeting at a page boundary and apart.
TwoSegments ==
    {Image({}, <<Seg(0, v, fs, fs, FALSE, TRUE), Note,
                 Seg(3, 36 + d, ds, ds + bss, TRUE, FALSE)>>, v, HelloProgram) :
        v \in {32, 33}, fs \in {1, 4}, d \in {0, 1, 3}, ds \in {0, 3}, bss \in {0, 3}}

Odd ==
    {Image({"BadMagic"}, <<>>, 32, HelloProgram),
     [Image({}, <<Seg(0, 32, 1, 1, FALSE, TRUE)>>, 32, HelloProgram) EXCEPT !.phentsize = 7],
     Image({}, <<Seg(5, 32, 2, 2, FALSE, TRUE)>>, 32, HelloProgram),    \* past the file
     Image({}, <<Seg(0, 40, 2, 2, FALSE, TRUE), Seg(2, 41, 2, 2, TRUE, FALSE)>>, 40, HelloProgram),
     Image({}, <<Seg(0, 46, 2, 2, FALSE, TRUE)>>, 46, HelloProgram),    \* on the stack's page
     Image({}, <<Seg(0, 55, 2, 2, FALSE, TRUE)>>, 55, HelloProgram),    \* into the kernel's
     Image({}, <<Seg(0, 59, 2, 2, FALSE, TRUE)>>, 59, HelloProgram),    \* not canonical
     [Image({}, <<Seg(0, 32, 1, 1, FALSE, TRUE)>>, 32, HelloProgram) EXCEPT !.phoff = 5],
     [Image({}, <<Note>>, 32, HelloProgram) EXCEPT !.phoff = 5],
     [Image({}, <<Note>>, 32, HelloProgram) EXCEPT !.phoff = 6, !.phentsize = 0],
     Image({}, <<Seg(0, 32, 2, 2, FALSE, FALSE)>>, 32, HelloProgram),   \* entry not executable
     Image({}, <<Seg(0, 32, 2, 2, FALSE, TRUE)>>, 32, <<Instr(7, 0), Instr(11, 3)>>),
     Image({}, <<Seg(0, 32, 2, 2, FALSE, TRUE)>>, 32,
           <<Instr(0, 0), [Instr(0, 0) EXCEPT !.op = "hlt"]>>),
     Image({}, <<Seg(0, 32, 2, 2, FALSE, TRUE)>>, 32, <<[Instr(0, 0) EXCEPT !.op = "ud2"]>>)}

MCImages == TwoSegments \cup Odd
=============================================================================
