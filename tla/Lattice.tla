------------------------------- MODULE Lattice -------------------------------
(***************************************************************************)
(* The security lattice (kernel/src/lattice.rs): the dominance matrix, the *)
(* checks of verify, join and meet, the Bell-LaPadula checks may_read and  *)
(* may_write, and reconfiguration, which adds a level above the top while  *)
(* the system runs.                                                        *)
(*                                                                         *)
(* The machine follows one secret, first held by the objects of label      *)
(* `source`, through reads and writes of subjects and objects, one of each *)
(* per label.  A proposed lattice (section 6 of run_demo) is verified and  *)
(* not installed.                                                          *)
(***************************************************************************)
EXTENDS Naturals, FiniteSets

CONSTANTS MaxLevels,     \* size of the dom matrix (8 in lattice.rs)
          Proposals,     \* lattices proposed to verify
          None           \* Option::None

ASSUME LevelsAssumption == MaxLevels \in Nat /\ MaxLevels >= 5
ASSUME LatticeNoneAssumption == None \notin Nat

Labels == 0 .. MaxLevels - 1

\* SecurityLattice: the matrix, the number of labels in use, and the two bounds,
\* which are labels in use.
Lattices == [dom : [Labels -> [Labels -> BOOLEAN]], count : 1 .. MaxLevels,
             bottom : Labels, top : Labels]

ASSUME ProposalsAssumption ==
    \A l \in Proposals : l \in Lattices /\ l.bottom < l.count /\ l.top < l.count

VARIABLES lat,           \* LATTICE: [dom, count, bottom, top]
          source,        \* label of the secret, None before there is one
          know,          \* know[l]: a subject of label l has read the secret
          holds,         \* holds[l]: an object of label l contains the secret
          pending,       \* reconfigured, and the audit entry not yet written
          recorded,      \* levels in the last LatticeReconfigured entry
          proposal,      \* the lattice proposed, None before
          verdict        \* what verify says of it

audit == <<pending, recorded>>
latticeVars == <<lat, source, know, holds, audit, proposal, verdict>>

-----------------------------------------------------------------------------
(***************************************************************************)
(* SecurityLattice: dom[a][b] says a dominates b.                          *)
(***************************************************************************)
Used(l) == 0 .. l.count - 1

Dominates(l, a, b) == a \in Used(l) /\ b \in Used(l) /\ l.dom[a][b]

MayRead(l, subject, obj) == Dominates(l, subject, obj)
MayWrite_Reversed(l, subject, obj) == Dominates(l, subject, obj)
MayWrite(l, subject, obj) == Dominates(l, obj, subject)

\* join: the first index that dominates both.
Join(l, a, b) ==
    LET upper == {i \in Used(l) : Dominates(l, i, a) /\ Dominates(l, i, b)}
    IN IF upper = {} THEN None ELSE CHOOSE i \in upper : \A j \in upper : i <= j

\* meet: a scan that keeps the best lower bound so far unless label i is one
\* that dominates it.
Scan(l, a, b, best, i) ==
    IF /\ Dominates(l, a, i) /\ Dominates(l, b, i)
       /\ best = None \/ Dominates(l, i, best)
    THEN i ELSE best

Meet_Last(l, a, b) ==
    LET lower == {i \in Used(l) : Dominates(l, a, i) /\ Dominates(l, b, i)}
    IN IF lower = {} THEN None ELSE CHOOSE i \in lower : \A j \in lower : i >= j
Meet(l, a, b) ==
    LET best[n \in 0 .. l.count] ==
          IF n = 0 THEN None ELSE Scan(l, a, b, best[n - 1], n - 1)
    IN best[l.count]

\* verify, axiom by axiom.
Reflexive(l)     == \A i \in Used(l) : l.dom[i][i]
Antisymmetric(l) == \A i, j \in Used(l) : l.dom[i][j] /\ l.dom[j][i] => i = j
Transitive_Skipped(l) == TRUE
Transitive(l)    == \A i, j, k \in Used(l) : l.dom[i][j] /\ l.dom[j][k] => l.dom[i][k]
BoundedBelow(l)  == \A i \in Used(l) : l.dom[i][l.bottom]
BoundedAbove(l)  == \A i \in Used(l) : l.dom[l.top][i]
JoinsExist(l)    == \A i, j \in Used(l) : Join(l, i, j) # None
MeetsExist(l)    == \A i, j \in Used(l) : Meet(l, i, j) # None

VerifyLattice(l) ==
    /\ Reflexive(l) /\ Antisymmetric(l) /\ Transitive(l)
    /\ BoundedBelow(l) /\ BoundedAbove(l)
    /\ JoinsExist(l) /\ MeetsExist(l)

DefaultBlp ==
    [dom |-> [i \in Labels |-> [j \in Labels |-> i < 4 /\ j < 4 /\ i >= j]],
     count |-> 4, bottom |-> 0, top |-> 3]

\* The in-place edit of section 5: a new label that dominates all and is
\* dominated by none but itself.
WithNewTop_RowOnly(l) ==
    [l EXCEPT !.count = l.count + 1,
              !.dom = [i \in Labels |-> [j \in Labels |->
                         IF i = l.count THEN j <= l.count ELSE l.dom[i][j]]]]
WithNewTop(l) ==
    [dom |-> [i \in Labels |-> [j \in Labels |->
                \/ i = l.count /\ j <= l.count
                \/ l.dom[i][j] /\ ~(i < l.count /\ j = l.count)]],
     count |-> l.count + 1, bottom |-> l.bottom, top |-> l.count]

-----------------------------------------------------------------------------
LatticeInit ==
    /\ lat = DefaultBlp
    /\ source = None /\ know = {} /\ holds = {}
    /\ pending = FALSE /\ recorded = None
    /\ proposal = None /\ verdict = FALSE

\* A secret appears, in the objects of label s.
Classify(s) ==
    /\ source = None
    /\ source' = s /\ holds' = {s}
    /\ UNCHANGED <<lat, know, audit, proposal, verdict>>

Read(subject, obj) ==
    /\ MayRead(lat, subject, obj)
    /\ know' = IF obj \in holds THEN know \cup {subject} ELSE know
    /\ UNCHANGED <<lat, source, holds, audit, proposal, verdict>>

Write(subject, obj) ==
    /\ MayWrite(lat, subject, obj)
    /\ holds' = IF subject \in know THEN holds \cup {obj} ELSE holds
    /\ UNCHANGED <<lat, source, know, audit, proposal, verdict>>

\* Section 5: the lock is held from the first store to the end of verify.
\* What verify says of the new lattice is printed and not acted on.
Reconfigure ==
    /\ ~pending
    /\ lat.count < MaxLevels
    /\ lat' = WithNewTop(lat)
    /\ pending' = TRUE
    /\ UNCHANGED <<recorded, source, know, holds, proposal, verdict>>

\* ... and LatticeReconfigured is logged after it is released.
LogReconfigured ==
    /\ pending
    /\ pending' = FALSE
    /\ recorded' = lat.count
    /\ UNCHANGED <<lat, source, know, holds, proposal, verdict>>

\* Bound: verify depends on its argument alone, so proposals are tried from one
\* state of the rest, the one run_demo is in after section 5.
Undisturbed == lat.count = 5 /\ recorded = 5 /\ know = {} /\ source = 0

\* Section 6, the last of run_demo; it does not touch LATTICE.
Propose(l) ==
    /\ proposal' = l
    /\ verdict' = VerifyLattice(l)
    /\ UNCHANGED <<lat, source, know, holds, audit>>

\* run_demo returns; LATTICE is all that stays.
LatticeReturns ==
    /\ proposal # None
    /\ source' = None /\ know' = {} /\ holds' = {}
    /\ recorded' = None /\ proposal' = None /\ verdict' = FALSE
    /\ UNCHANGED <<lat, pending>>

LatticeNext ==
    \/ \E s \in Used(DefaultBlp) : Classify(s)
    \/ /\ proposal = None
       /\ \/ Reconfigure \/ LogReconfigured
          \/ \E s, o \in Labels : Read(s, o) \/ Write(s, o)
          \/ Undisturbed /\ \E l \in Proposals : Propose(l)

LatticeSpec == LatticeInit /\ [][LatticeNext]_latticeVars

-----------------------------------------------------------------------------
(***************************************************************************)
(* Reference definitions of order theory, on the labels in use.            *)
(***************************************************************************)
Leq(l, a, b) == l.dom[b][a]

UpperBounds(l, a, b) == {u \in Used(l) : Leq(l, a, u) /\ Leq(l, b, u)}
LowerBounds(l, a, b) == {u \in Used(l) : Leq(l, u, a) /\ Leq(l, u, b)}
Lub(l, a, b) == {u \in UpperBounds(l, a, b) : \A v \in UpperBounds(l, a, b) : Leq(l, u, v)}
Glb(l, a, b) == {u \in LowerBounds(l, a, b) : \A v \in LowerBounds(l, a, b) : Leq(l, v, u)}

BoundedOrder(l) ==
    /\ \A a \in Used(l) : Leq(l, l.bottom, a) /\ Leq(l, a, l.top) /\ Leq(l, a, a)
    /\ \A a, b \in Used(l) : Leq(l, a, b) /\ Leq(l, b, a) => a = b
    /\ \A a, b, c \in Used(l) : Leq(l, a, b) /\ Leq(l, b, c) => Leq(l, a, c)

\* Indices follow the order: a label comes after the labels it dominates.
IndexedUpward(l) == \A i, j \in Used(l) : l.dom[i][j] => j <= i

(***************************************************************************)
(* Properties.                                                             *)
(***************************************************************************)

\* No read-up and no write-down compose: through any sequence of permitted reads
\* and writes, across reconfigurations, the secret only reaches labels that
\* dominate its own.
FlowsUpward == \A l \in know \cup holds : Dominates(lat, l, source)

\* The lattice in use passes verify after every reconfiguration.
StaysVerified == VerifyLattice(lat)

\* verify accepts exactly the bounded partial orders; its searches for joins and
\* meets refuse nothing more, the top and the bottom are always found.
VerifyDecidesOrder == proposal # None => (verdict <=> BoundedOrder(proposal))

\* In an accepted lattice meet is the greatest lower bound wherever there is one,
\* and join the least upper bound if the labels are indexed upward.
BoundsAreBest ==
    verdict => \A a, b \in Used(proposal) :
      /\ Glb(proposal, a, b) # {} => Meet(proposal, a, b) \in Glb(proposal, a, b)
      /\ IndexedUpward(proposal) /\ Lub(proposal, a, b) # {}
           => Join(proposal, a, b) \in Lub(proposal, a, b)

\* lattice.rs:7-14: a lattice is accepted only if all joins, least upper bounds,
\* exist.
AcceptedHasJoins ==
    verdict => \A a, b \in Used(proposal) : Lub(proposal, a, b) # {}
=============================================================================
