---------------------------- MODULE PolicyProofs ----------------------------
(***************************************************************************)
(* The two access policies in the demonstrations of kernel_main: temporal  *)
(* capabilities for any objects, rights, depth limit and clock, any number *)
(* of capabilities issued and copies altered; and the security lattice for *)
(* every number of levels and every proposal.                              *)
(***************************************************************************)
EXTENDS Demos, WellFoundedInduction, TLAPS

\* A set of natural numbers has a least element: induction over the length of a
\* provenance chain, and over the labels of a lattice, is by least counterexample.
LEMMA LeastElement ==
    ASSUME NEW T, T \subseteq Nat, T # {}
    PROVE  \E m \in T : \A k \in T : m <= k
<1>1. \E m \in T : \A k \in T : ~(<<k, m>> \in OpToRel(<, Nat))
  BY NatLessThanWellFounded, WFMin, Zenon
<1>2. PICK m \in T : \A k \in T : ~(<<k, m>> \in OpToRel(<, Nat))
  BY <1>1
<1>3. \A k \in Nat : k < m => <<k, m>> \in OpToRel(<, Nat)
  BY <1>2 DEF OpToRel
<1>4. \A k \in T : ~(k < m)
  BY <1>2, <1>3
<1>5. \A k \in Nat : m \in Nat /\ ~(k < m) => m <= k
  OBVIOUS
<1> QED BY <1>2, <1>4, <1>5, Zenon

-----------------------------------------------------------------------------
(***************************************************************************)
(* Capabilities.                                                           *)
(***************************************************************************)

(***************************************************************************)
(* Ideal cryptography: a MAC determines the fields, a hash the MAC.        *)
(***************************************************************************)
Authentic(c) == c.mac = Hmac(K, AuthBytes(c))

SameFields(c, d) ==
    /\ c.object_id = d.object_id /\ c.rights = d.rights /\ c.expires_at = d.expires_at
    /\ c.depth = d.depth /\ c.parent_hash = d.parent_hash

LEMMA MacIsInjective ==
    ASSUME NEW c, NEW d, Hmac(K, AuthBytes(c)) = Hmac(K, AuthBytes(d))
    PROVE  SameFields(c, d)
<1>1. AuthBytes(c) = AuthBytes(d)
  BY DEF Hmac
<1> QED BY <1>1 DEF AuthBytes, SameFields

LEMMA WithMacShape ==
    ASSUME NEW c
    PROVE  /\ SameFields(WithMac(c), c) /\ Authentic(WithMac(c))
           /\ WithMac(WithMac(c)) = WithMac(c)
BY DEF WithMac, SameFields, Authentic, AuthBytes

LEMMA HashIsInjective ==
    ASSUME NEW x, NEW y
    PROVE  /\ Sha256(x) = Sha256(y) => x = y
           /\ Sha256(x) # NoParent
BY DEF Sha256, NoParent

\* No altered copy carries the MAC of its fields.
LEMMA ChangesFail ==
    ASSUME NEW c, c = WithMac(c), NEW d \in Changes(c), d # c
    PROVE  ~Authentic(d)
<1>1. Authentic(c) /\ c.mac = Hmac(K, AuthBytes(c))
  BY WithMacShape DEF Authentic
<1>2. CASE d.mac = c.mac /\ ~SameFields(d, c)
  BY <1>1, <1>2, MacIsInjective DEF Authentic
<1>4. /\ DOMAIN c = {"object_id", "rights", "expires_at", "depth", "parent_hash", "mac"}
      /\ c = [object_id |-> c.object_id, rights |-> c.rights, expires_at |-> c.expires_at,
              depth |-> c.depth, parent_hash |-> c.parent_hash, mac |-> c.mac]
  BY DEF WithMac
<1>5. CASE \E r \in SUBSET Rights : d = [c EXCEPT !.rights = r]
  <2>1. PICK r \in SUBSET Rights : d = [c EXCEPT !.rights = r]
    BY <1>5
  <2>2. d.mac = c.mac /\ d.rights = r /\ r # c.rights
    BY <1>4, <2>1
  <2> QED BY <1>2, <2>2 DEF SameFields
<1>6. CASE \E t \in Times : d = [c EXCEPT !.expires_at = t]
  <2>1. PICK t \in Times : d = [c EXCEPT !.expires_at = t]
    BY <1>6
  <2>2. d.mac = c.mac /\ d.expires_at = t /\ t # c.expires_at
    BY <1>4, <2>1
  <2> QED BY <1>2, <2>2 DEF SameFields
<1>7. CASE \E n \in 0 .. MAX_DEPTH : d = [c EXCEPT !.depth = n]
  <2>1. PICK n \in 0 .. MAX_DEPTH : d = [c EXCEPT !.depth = n]
    BY <1>7
  <2>2. d.mac = c.mac /\ d.depth = n /\ n # c.depth
    BY <1>4, <2>1
  <2> QED BY <1>2, <2>2 DEF SameFields
<1>8. CASE \E o \in Objects : d = [c EXCEPT !.object_id = o]
  <2>1. PICK o \in Objects : d = [c EXCEPT !.object_id = o]
    BY <1>8
  <2>2. d.mac = c.mac /\ d.object_id = o /\ o # c.object_id
    BY <1>4, <2>1
  <2> QED BY <1>2, <2>2 DEF SameFields
<1> DEFINE H == {NoParent} \cup {ParentHash(p) : p \in issued}
           M == {<<"flipped", c.mac>>} \cup {p.mac : p \in issued}
<1>9. CASE \E h \in H : d = [c EXCEPT !.parent_hash = h]
  <2>1. PICK h \in H : d = [c EXCEPT !.parent_hash = h]
    BY <1>9
  <2>2. d.mac = c.mac /\ d.parent_hash = h /\ h # c.parent_hash
    BY <1>4, <2>1
  <2> QED BY <1>2, <2>2 DEF SameFields
<1>10. CASE \E m \in M : d = [c EXCEPT !.mac = m]
  <2>1. PICK m \in M : d = [c EXCEPT !.mac = m]
    BY <1>10
  <2>2. /\ d.mac = m /\ m # c.mac
        /\ d.object_id = c.object_id /\ d.rights = c.rights /\ d.expires_at = c.expires_at
        /\ d.depth = c.depth /\ d.parent_hash = c.parent_hash
    BY <1>4, <2>1
  <2>3. AuthBytes(d) = AuthBytes(c)
    BY <2>2 DEF AuthBytes
  <2> QED BY <1>1, <2>2, <2>3 DEF Authentic
<1>11. \/ \E o \in Objects : d = [c EXCEPT !.object_id = o]
       \/ \E r \in SUBSET Rights : d = [c EXCEPT !.rights = r]
       \/ \E t \in Times : d = [c EXCEPT !.expires_at = t]
       \/ \E n \in 0 .. MAX_DEPTH : d = [c EXCEPT !.depth = n]
       \/ \E h \in H : d = [c EXCEPT !.parent_hash = h]
       \/ \E m \in M : d = [c EXCEPT !.mac = m]
  BY Zenon DEF Changes
<1> QED BY <1>5, <1>6, <1>7, <1>8, <1>9, <1>10, <1>11

-----------------------------------------------------------------------------
(***************************************************************************)
(* The invariant: every capability carries the MAC of its fields and was   *)
(* minted or has its parent among the capabilities issued; no altered copy *)
(* is authentic.                                                           *)
(***************************************************************************)
DerivedFrom(c, p) ==
    /\ c.parent_hash = Sha256(p.mac) /\ DERIVE \in p.rights
    /\ c.object_id = p.object_id /\ c.depth = p.depth + 1
    /\ c.rights \subseteq p.rights /\ c.expires_at <= p.expires_at

Rooted(c, S) ==
    \/ c.parent_hash = NoParent /\ c.depth = 0
    \/ \E p \in S : DerivedFrom(c, p)

CapInv ==
    /\ CapTypeOK
    /\ \A c \in issued : c = WithMac(c) /\ Rooted(c, issued)
    /\ \A d \in altered : ~Authentic(d)

\* Issuing a capability of the right shape keeps the invariant.
LEMMA IssueKeeps ==
    ASSUME CapInv, NEW f, Issue(f), Rooted(f, issued),
           f.object_id \in Objects, f.rights \in SUBSET Rights, f.expires_at \in Times,
           f.depth \in 0 .. MAX_DEPTH
    PROVE  CapInv'
<1> DEFINE n == WithMac(f)
<1>1. issued' = issued \cup {n} /\ now' = now /\ altered' = altered
  BY DEF Issue
<1>2. SameFields(n, f) /\ n = WithMac(n)
  BY WithMacShape
<1> HIDE DEF n
<1>3. Rooted(n, issued')
  BY <1>1, <1>2 DEF Rooted, DerivedFrom, SameFields
<1>4. \A c \in issued : Rooted(c, issued')
  BY <1>1 DEF CapInv, Rooted
<1>5. CapTypeOK'
  BY <1>1, <1>2 DEF CapInv, CapTypeOK, SameFields
<1> QED BY <1>1, <1>2, <1>3, <1>4, <1>5 DEF CapInv

LEMMA MintStep ==
    ASSUME CapInv, NEW o \in Objects, NEW r \in SUBSET Rights, NEW t \in Times, Mint(o, r, t)
    PROVE  CapInv'
<1> DEFINE f == [object_id |-> o, rights |-> r, expires_at |-> t,
                 depth |-> 0, parent_hash |-> NoParent]
<1>1. /\ f.object_id = o /\ f.rights = r /\ f.expires_at = t /\ f.depth = 0
      /\ f.parent_hash = NoParent
  OBVIOUS
<1>2. Issue(f)
  BY DEF Mint
<1> HIDE DEF f
<1>3. f.depth \in 0 .. MAX_DEPTH
  BY <1>1, LimitsAssumption
<1> QED BY <1>1, <1>2, <1>3, IssueKeeps DEF Rooted

LEMMA DeriveStep ==
    ASSUME CapInv, NEW c \in issued \cup altered, NEW r \in SUBSET Rights, NEW t \in Times,
           Derive(c, r, t)
    PROVE  CapInv'
<1> DEFINE f == [object_id |-> c.object_id, rights |-> r, expires_at |-> t,
                 depth |-> c.depth + 1, parent_hash |-> ParentHash(c)]
<1>1. /\ f.object_id = c.object_id /\ f.rights = r /\ f.expires_at = t
      /\ f.depth = c.depth + 1 /\ f.parent_hash = Sha256(c.mac)
  BY DEF ParentHash
<1>2. Issue(f) /\ Authentic(c) /\ MayDerive(c, r, t)
  BY DEF Derive, Verify, Authentic
<1> HIDE DEF f
<1>3. c \in issued
  BY <1>2 DEF CapInv
<1>4. c.object_id \in Objects /\ c.depth \in 0 .. MAX_DEPTH /\ MAX_DEPTH \in Nat
  BY <1>3, LimitsAssumption DEF CapInv, CapTypeOK
<1>5. f.depth \in 0 .. MAX_DEPTH
  BY <1>1, <1>2, <1>4 DEF MayDerive
<1>6. DerivedFrom(f, c)
  BY <1>1, <1>2 DEF DerivedFrom, MayDerive
<1> QED BY <1>1, <1>2, <1>3, <1>4, <1>5, <1>6, IssueKeeps DEF Rooted

LEMMA AlterStep ==
    ASSUME CapInv, NEW c \in issued, NEW d \in Changes(c), Alter(c, d)
    PROVE  CapInv'
<1>1. d # c /\ altered' = altered \cup {d} /\ now' = now /\ issued' = issued
  BY DEF Alter
<1>2. ~Authentic(d)
  BY <1>1, ChangesFail DEF CapInv
<1> QED BY <1>1, <1>2 DEF CapInv, CapTypeOK

LEMMA CapInitInv == CapInit => CapInv
BY LimitsAssumption DEF CapInit, CapInv, CapTypeOK, Times

LEMMA CapInvStep == CapInv /\ [CapNext]_capVars => CapInv'
<1> SUFFICES ASSUME CapInv, [CapNext]_capVars PROVE CapInv'
  OBVIOUS
<1>1. CASE Tick
  <2>1. now' = now + 1 /\ now < MaxTime /\ issued' = issued /\ altered' = altered
    BY <1>1 DEF Tick
  <2>2. now' \in Times
    BY <2>1, LimitsAssumption DEF CapInv, CapTypeOK, Times
  <2> QED BY <2>1, <2>2 DEF CapInv, CapTypeOK
<1>2. CASE \E o \in Objects, r \in SUBSET Rights, t \in Times : Mint(o, r, t)
  BY <1>2, MintStep
<1>3. CASE \E c \in issued \cup altered, r \in SUBSET Rights, t \in Times : Derive(c, r, t)
  BY <1>3, DeriveStep
<1>4. CASE \E c \in issued : \E d \in Changes(c) : Alter(c, d)
  BY <1>4, AlterStep
<1>5. CASE UNCHANGED capVars
  BY <1>5 DEF capVars, CapInv, CapTypeOK
<1> QED BY <1>1, <1>2, <1>3, <1>4, <1>5 DEF CapNext

\* A capability is determined by its MAC, so it has at most one parent.
LEMMA OneParent ==
    ASSUME CapInv, NEW c \in issued
    PROVE  IF c.parent_hash = NoParent
           THEN c.depth = 0 /\ Parents(c) = {}
           ELSE \E p \in issued : DerivedFrom(c, p) /\ Parents(c) = {p}
<1>1. \A p, q \in issued : p.mac = q.mac => p = q
  <2> SUFFICES ASSUME NEW p \in issued, NEW q \in issued, p.mac = q.mac PROVE p = q
    OBVIOUS
  <2>1. p = WithMac(p) /\ q = WithMac(q) /\ Authentic(p) /\ Authentic(q)
    BY WithMacShape DEF CapInv
  <2>2. SameFields(p, q)
    BY <2>1, MacIsInjective DEF Authentic
  <2>3. WithMac(p) = WithMac(q)
    BY <2>2 DEF WithMac, SameFields, AuthBytes
  <2> QED BY <2>1, <2>3
<1>2. CASE c.parent_hash = NoParent
  <2>1. \A p \in issued : c.parent_hash # Sha256(p.mac)
    BY <1>2, HashIsInjective
  <2>2. c.depth = 0
    BY <2>1 DEF CapInv, Rooted, DerivedFrom
  <2> QED BY <1>2, <2>1, <2>2 DEF Parents
<1>3. CASE c.parent_hash # NoParent
  <2>1. PICK p \in issued : DerivedFrom(c, p)
    BY <1>3 DEF CapInv, Rooted
  <2>2. c.parent_hash = Sha256(p.mac)
    BY <2>1 DEF DerivedFrom
  <2>3. \A q \in issued : c.parent_hash = Sha256(q.mac) => q = p
    BY <1>1, <2>2, HashIsInjective
  <2>4. Parents(c) = {p}
    BY <2>2, <2>3 DEF Parents
  <2> QED BY <1>3, <2>1, <2>4
<1> QED BY <1>2, <1>3

(***************************************************************************)
(* The climb of AncestorsOf: g[n] are the ancestors n levels up.           *)
(***************************************************************************)
IsClimb(c, N, g) ==
    g = [n \in 0 .. N |-> IF n = 0 THEN {c} ELSE UNION {Parents(p) : p \in g[n - 1]}]

\* The recursion has a solution for every depth.
LEMMA ClimbExists ==
    ASSUME NEW c, NEW N \in Nat
    PROVE  \E g : IsClimb(c, N, g)
<1> DEFINE Up(S) == UNION {Parents(p) : p \in S}
           T == {n \in Nat : ~ \E g : IsClimb(c, n, g)}
<1> SUFFICES ASSUME T # {} PROVE FALSE
  OBVIOUS
<1>1. PICK m \in T : \A k \in T : m <= k
  BY LeastElement, T \subseteq Nat
<1>2. m \in Nat /\ ~ \E g : IsClimb(c, m, g)
  BY <1>1
<1>d. \A N0, g : IsClimb(c, N0, g) <=> g = [n \in 0 .. N0 |-> IF n = 0 THEN {c} ELSE Up(g[n - 1])]
  BY DEF IsClimb
<1> HIDE DEF Up
<1>3. CASE m = 0
  <2> DEFINE h == [n \in 0 .. 0 |-> {c}]
  <2>1. h = [n \in 0 .. 0 |-> IF n = 0 THEN {c} ELSE Up(h[n - 1])]
    OBVIOUS
  <2> HIDE DEF h
  <2> QED BY <1>2, <1>3, <1>d, <2>1
<1>4. CASE m # 0
  <2>1. m - 1 \in Nat /\ m - 1 \notin T
    BY <1>1, <1>2, <1>4
  <2>2. PICK g : IsClimb(c, m - 1, g)
    BY <2>1
  <2> DEFINE h == [n \in 0 .. m |-> IF n = m THEN Up(g[m - 1]) ELSE g[n]]
  <2>3. \A n \in 0 .. m - 1 : g[n] = IF n = 0 THEN {c} ELSE Up(g[n - 1])
    <3>1. g = [n \in 0 .. m - 1 |-> IF n = 0 THEN {c} ELSE Up(g[n - 1])]
      BY <1>d, <2>2
    <3> QED BY <3>1
  <2>4. \A n \in 0 .. m - 1 : h[n] = g[n]
    BY <1>2
  <2>5. h[m] = Up(g[m - 1]) /\ m - 1 \in 0 .. m - 1
    BY <1>2, <1>4
  <2>6. DOMAIN h = 0 .. m /\ h = [n \in 0 .. m |-> h[n]]
    OBVIOUS
  <2> HIDE DEF h
  <2>7. \A n \in 0 .. m : h[n] = IF n = 0 THEN {c} ELSE Up(h[n - 1])
    <3> SUFFICES ASSUME NEW n \in 0 .. m PROVE h[n] = IF n = 0 THEN {c} ELSE Up(h[n - 1])
      OBVIOUS
    <3>1. n = m \/ n \in 0 .. m - 1
      BY <1>2
    <3>2. n # 0 => n - 1 \in 0 .. m - 1
      BY <1>2
    <3> QED BY <1>4, <2>3, <2>4, <2>5, <3>1, <3>2
  <2>8. h = [n \in 0 .. m |-> IF n = 0 THEN {c} ELSE Up(h[n - 1])]
    BY <2>6, <2>7
  <2> QED BY <1>2, <1>d, <2>8
<1> QED BY <1>3, <1>4

LEMMA AncestorsAreClimb ==
    ASSUME NEW c
    PROVE  \E g : IsClimb(c, MAX_DEPTH, g) /\ AncestorsOf(c) = UNION {g[n] : n \in 1 .. MAX_DEPTH}
<1> DEFINE up == CHOOSE g : IsClimb(c, MAX_DEPTH, g)
<1>1. IsClimb(c, MAX_DEPTH, up)
  BY ClimbExists, LimitsAssumption
<1>2. AncestorsOf(c) = UNION {up[n] : n \in 1 .. MAX_DEPTH}
  BY DEF AncestorsOf, IsClimb
<1> QED BY <1>1, <1>2

\* Every ancestor was issued and lives at least as long.
LEMMA AncestorsOutlive ==
    ASSUME CapInv, NEW c \in issued, NEW a \in AncestorsOf(c)
    PROVE  a \in issued /\ c.expires_at <= a.expires_at
<1>1. PICK g : IsClimb(c, MAX_DEPTH, g) /\ AncestorsOf(c) = UNION {g[n] : n \in 1 .. MAX_DEPTH}
  BY AncestorsAreClimb
<1> DEFINE Ok(n) == \A x \in g[n] : x \in issued /\ c.expires_at <= x.expires_at
           T == {n \in 0 .. MAX_DEPTH : ~Ok(n)}
<1>2. /\ g[0] = {c} /\ MAX_DEPTH \in Nat
      /\ \A n \in 1 .. MAX_DEPTH : g[n] = UNION {Parents(p) : p \in g[n - 1]}
  BY <1>1, LimitsAssumption DEF IsClimb
<1>3. \A x \in issued : x.expires_at \in Nat
  BY LimitsAssumption DEF CapInv, CapTypeOK, Times
<1>4. T = {}
  <2> SUFFICES ASSUME T # {} PROVE FALSE
    OBVIOUS
  <2>1. PICK m \in T : \A k \in T : m <= k
    BY <1>2, LeastElement, T \subseteq Nat
  <2>2. m \in 0 .. MAX_DEPTH /\ ~Ok(m)
    BY <2>1
  <2>3. Ok(0)
    BY <1>2, <1>3
  <2>4. m # 0 /\ m \in 1 .. MAX_DEPTH /\ m - 1 \in 0 .. MAX_DEPTH
    BY <1>2, <2>2, <2>3
  <2>5. Ok(m - 1)
    <3>1. ~(m <= m - 1)
      BY <2>2
    <3> QED BY <2>1, <2>4, <3>1
  <2>6. ASSUME NEW x \in g[m] PROVE x \in issued /\ c.expires_at <= x.expires_at
    <3>1. PICK p \in g[m - 1] : x \in Parents(p)
      BY <1>2, <2>4, <2>6
    <3>2. p \in issued /\ c.expires_at <= p.expires_at
      BY <2>5, <3>1
    <3>3. x \in issued /\ p.expires_at <= x.expires_at
      BY <3>1, <3>2, OneParent DEF DerivedFrom
    <3> QED BY <1>3, <3>2, <3>3
  <2> QED BY <2>2, <2>6
<1>5. PICK n \in 1 .. MAX_DEPTH : a \in g[n]
  BY <1>1
<1>6. n \in 0 .. MAX_DEPTH /\ n \notin T
  BY <1>4, <1>5
<1> QED BY <1>5, <1>6

-----------------------------------------------------------------------------
\* Only the axiom demonstration touches the capabilities, and it drops them when
\* it returns.
LEMMA CapDemoStep == [Next]_vars => [CapNext]_capVars \/ CapReturns
BY DEF Next, vars, AxiomDemo, VmzDemo, LatticeDemo, DriverDemo, ParseDemo, ParsePrinted,
       TransmitDemo

\* Whatever mint, derive, the clock and altered copies do, the capabilities
\* issued carry their MAC and their provenance.
THEOREM CapabilityInvariant == Spec => []CapInv
<1>1. CapInv /\ CapReturns => CapInv'
  BY LimitsAssumption DEF CapReturns, CapInv, CapTypeOK, Times
<1>2. CapInv /\ [Next]_vars => CapInv'
  BY <1>1, CapInvStep, CapDemoStep
<1>3. Init => CapInv
  BY CapInitInv DEF Init
<1> QED BY <1>2, <1>3, PTL DEF Spec

\* verify: a copy of a capability in which the object, the rights, the expiry, the
\* depth, the parent hash or the MAC is another, be it a hash or a MAC the kernel
\* made itself, never verifies as one the kernel did not issue, for any set of
\* rights, objects and times.
THEOREM AlteredNeverVerify == Spec => []OnlyIssuedVerify
<1>1. CapInv => OnlyIssuedVerify
  BY DEF CapInv, OnlyIssuedVerify, Verify, Authentic
<1> QED BY <1>1, CapabilityInvariant, PTL

\* derive: every capability has the one parent it was derived from, which it
\* does not exceed, or was minted.
THEOREM ProvenanceHolds == Spec => []Provenance
<1>1. CapInv => Provenance
  <2> SUFFICES ASSUME CapInv, NEW c \in issued
               PROVE  /\ c.depth <= MAX_DEPTH
                      /\ IF c.parent_hash = NoParent
                         THEN c.depth = 0
                         ELSE \E p \in Parents(c) : Parents(c) = {p} /\ DerivedFrom(c, p)
    BY DEF Provenance, DerivedFrom
  <2>1. c.depth <= MAX_DEPTH
    BY LimitsAssumption DEF CapInv, CapTypeOK
  <2> QED BY <2>1, OneParent
<1> QED BY <1>1, CapabilityInvariant, PTL

\* Temporal decay: no capability verifies once any of its ancestors is dead,
\* however long the chain of derivations.
THEOREM DeathReachesDown == Spec => []DeathIsInherited
<1>1. CapInv => DeathIsInherited
  <2> SUFFICES ASSUME CapInv, NEW c \in issued, NEW a \in AncestorsOf(c), ~Alive(a)
               PROVE  ~Verify(c)
    BY DEF DeathIsInherited
  <2>1. a \in issued /\ c.expires_at <= a.expires_at
    BY AncestorsOutlive
  <2>2. c.expires_at \in Nat /\ a.expires_at \in Nat /\ now \in Nat
    BY <2>1, LimitsAssumption DEF CapInv, CapTypeOK, Times
  <2> QED BY <2>1, <2>2 DEF Verify, Alive
<1> QED BY <1>1, CapabilityInvariant, PTL

-----------------------------------------------------------------------------
(***************************************************************************)
(* The security lattice.                                                   *)
(***************************************************************************)

(***************************************************************************)
(* The scan of meet, as a function of the labels looked at so far.         *)
(***************************************************************************)
IsScan(l, a, b, N, g) ==
    g = [n \in 0 .. N |-> IF n = 0 THEN None ELSE Scan(l, a, b, g[n - 1], n - 1)]

\* The recursion has a solution for every number of labels.
LEMMA ScanExists ==
    ASSUME NEW l, NEW a, NEW b, NEW N \in Nat
    PROVE  \E g : IsScan(l, a, b, N, g)
<1> DEFINE T == {n \in Nat : ~ \E g : IsScan(l, a, b, n, g)}
<1> SUFFICES ASSUME T # {} PROVE FALSE
  OBVIOUS
<1>1. PICK m \in T : \A k \in T : m <= k
  BY LeastElement, T \subseteq Nat
<1>2. m \in Nat /\ ~ \E g : IsScan(l, a, b, m, g)
  BY <1>1
<1>3. CASE m = 0
  <2> DEFINE h == [n \in 0 .. 0 |-> None]
  <2>1. h = [n \in 0 .. 0 |-> IF n = 0 THEN None ELSE Scan(l, a, b, h[n - 1], n - 1)]
    OBVIOUS
  <2> HIDE DEF h
  <2> QED BY <1>2, <1>3, <2>1 DEF IsScan
<1>4. CASE m # 0
  <2>1. m - 1 \in Nat /\ m - 1 \notin T
    BY <1>1, <1>2, <1>4
  <2>2. PICK g : IsScan(l, a, b, m - 1, g)
    BY <2>1
  <2> DEFINE h == [n \in 0 .. m |-> IF n = m THEN Scan(l, a, b, g[m - 1], m - 1) ELSE g[n]]
  <2>3. \A n \in 0 .. m - 1 : g[n] = IF n = 0 THEN None ELSE Scan(l, a, b, g[n - 1], n - 1)
    BY <2>2 DEF IsScan
  <2>4. \A n \in 0 .. m - 1 : h[n] = g[n]
    BY <1>2
  <2>5. h[m] = Scan(l, a, b, g[m - 1], m - 1) /\ m - 1 \in 0 .. m - 1
    BY <1>2, <1>4
  <2>6. DOMAIN h = 0 .. m /\ h = [n \in 0 .. m |-> h[n]]
    OBVIOUS
  <2> HIDE DEF h
  <2>7. \A n \in 0 .. m : h[n] = IF n = 0 THEN None ELSE Scan(l, a, b, h[n - 1], n - 1)
    <3> SUFFICES ASSUME NEW n \in 0 .. m
                 PROVE  h[n] = IF n = 0 THEN None ELSE Scan(l, a, b, h[n - 1], n - 1)
      OBVIOUS
    <3>1. n = m \/ n \in 0 .. m - 1
      BY <1>2
    <3>2. n # 0 => n - 1 \in 0 .. m - 1
      BY <1>2
    <3> QED BY <1>4, <2>3, <2>4, <2>5, <3>1, <3>2
  <2>8. IsScan(l, a, b, m, h)
    BY <2>6, <2>7 DEF IsScan
  <2> QED BY <1>2, <2>8
<1> QED BY <1>3, <1>4

\* meet returns what that function has after all labels.
LEMMA MeetIsScan ==
    ASSUME NEW l, l.count \in Nat, NEW a, NEW b
    PROVE  \E g : IsScan(l, a, b, l.count, g) /\ Meet(l, a, b) = g[l.count]
<1> DEFINE best == CHOOSE g : IsScan(l, a, b, l.count, g)
<1>1. IsScan(l, a, b, l.count, best)
  BY ScanExists
<1>2. Meet(l, a, b) = best[l.count]
  BY DEF Meet, IsScan
<1> QED BY <1>1, <1>2

WellFormed(l) == l \in Lattices /\ l.bottom \in Used(l) /\ l.top \in Used(l)

Lower(l, a, b, i) == Dominates(l, a, i) /\ Dominates(l, b, i)

\* What the scan has kept after n labels is one of the lower bounds among them,
\* if there is any.
LEMMA ScanKeepsLower ==
    ASSUME NEW l, WellFormed(l), NEW a, NEW b, NEW g, IsScan(l, a, b, l.count, g)
    PROVE  \A n \in 0 .. l.count :
             \/ g[n] = None /\ \A i \in 0 .. n - 1 : ~Lower(l, a, b, i)
             \/ g[n] \in 0 .. n - 1 /\ Lower(l, a, b, g[n])
<1> DEFINE Ok(n) == \/ g[n] = None /\ \A i \in 0 .. n - 1 : ~Lower(l, a, b, i)
                    \/ g[n] \in 0 .. n - 1 /\ Lower(l, a, b, g[n])
           T == {n \in 0 .. l.count : ~Ok(n)}
<1>0. l.count \in Nat
  BY LevelsAssumption DEF WellFormed, Lattices
<1>1. /\ g[0] = None
      /\ \A n \in 0 .. l.count : n # 0 => g[n] = Scan(l, a, b, g[n - 1], n - 1)
  BY <1>0 DEF IsScan
<1> SUFFICES ASSUME T # {} PROVE FALSE
  OBVIOUS
<1>2. PICK m \in T : \A k \in T : m <= k
  BY <1>0, LeastElement, T \subseteq Nat
<1>3. m \in 0 .. l.count /\ ~Ok(m)
  BY <1>2
<1>4. m # 0
  BY <1>1, <1>3
<1>5. m - 1 \in 0 .. l.count /\ Ok(m - 1)
  BY <1>0, <1>2, <1>3, <1>4
<1>6. g[m] = Scan(l, a, b, g[m - 1], m - 1)
  BY <1>1, <1>3, <1>4
<1>7. \A i \in 0 .. m - 1 : i = m - 1 \/ i \in 0 .. (m - 1) - 1
  BY <1>0, <1>3
<1>8. m - 1 \in 0 .. m - 1 /\ \A i \in 0 .. (m - 1) - 1 : i \in 0 .. m - 1
  BY <1>0, <1>3, <1>4
<1>9. CASE Lower(l, a, b, m - 1) /\ (g[m - 1] = None \/ Dominates(l, m - 1, g[m - 1]))
  <2>1. g[m] = m - 1
    BY <1>6, <1>9 DEF Scan, Lower
  <2> QED BY <1>3, <1>8, <1>9, <2>1
<1>10. CASE ~(Lower(l, a, b, m - 1) /\ (g[m - 1] = None \/ Dominates(l, m - 1, g[m - 1])))
  <2>1. g[m] = g[m - 1]
    BY <1>6, <1>10 DEF Scan, Lower
  <2> QED BY <1>3, <1>5, <1>7, <1>8, <1>10, <2>1
<1> QED BY <1>9, <1>10

\* meet finds a common lower bound wherever there is one.
LEMMA MeetFinds ==
    ASSUME NEW l, WellFormed(l), NEW a, NEW b, NEW i \in Used(l), Lower(l, a, b, i)
    PROVE  Meet(l, a, b) \in Used(l) /\ Lower(l, a, b, Meet(l, a, b))
<1>0. l.count \in Nat
  BY LevelsAssumption DEF WellFormed, Lattices
<1>1. PICK g : IsScan(l, a, b, l.count, g) /\ Meet(l, a, b) = g[l.count]
  BY <1>0, MeetIsScan
<1>2. l.count \in 0 .. l.count /\ i \in 0 .. l.count - 1
  BY <1>0 DEF Used
<1> QED BY <1>1, <1>2, ScanKeepsLower DEF Used

\* A greatest lower bound, once scanned, is kept to the end.
LEMMA MeetIsGreatest ==
    ASSUME NEW l, WellFormed(l), Antisymmetric(l), NEW a \in Used(l), NEW b \in Used(l),
           NEW u \in Glb(l, a, b)
    PROVE  Meet(l, a, b) = u
<1>0. l.count \in Nat
  BY LevelsAssumption DEF WellFormed, Lattices
<1>1. PICK g : IsScan(l, a, b, l.count, g) /\ Meet(l, a, b) = g[l.count]
  BY <1>0, MeetIsScan
<1> DEFINE T == {n \in u + 1 .. l.count : g[n] # u}
<1>2. u \in Used(l) /\ u \in 0 .. l.count - 1 /\ Lower(l, a, b, u)
  BY DEF Glb, LowerBounds, Leq, Dominates, Lower, Used
<1>3. \A i \in Used(l) : Lower(l, a, b, i) => Dominates(l, u, i)
  BY <1>2 DEF Glb, LowerBounds, Leq, Dominates, Lower
<1>4. \A i \in Used(l) : Dominates(l, i, u) /\ Dominates(l, u, i) => i = u
  BY <1>2 DEF Antisymmetric, Dominates
<1>5. \A n \in 0 .. l.count : n # 0 => g[n] = Scan(l, a, b, g[n - 1], n - 1)
  BY <1>0, <1>1 DEF IsScan
<1>6. T = {}
  <2> SUFFICES ASSUME T # {} PROVE FALSE
    OBVIOUS
  <2>1. PICK m \in T : \A k \in T : m <= k
    BY <1>0, <1>2, LeastElement, T \subseteq Nat
  <2>2. m \in u + 1 .. l.count /\ g[m] # u /\ m - 1 \in 0 .. l.count - 1
    BY <1>0, <1>2, <2>1
  <2>3. g[m] = Scan(l, a, b, g[m - 1], m - 1)
    BY <1>0, <1>2, <1>5, <2>2
  <2>4. CASE m = u + 1
    <3>1. m - 1 = u
      BY <1>0, <1>2, <2>4
    <3>2. g[u] = None \/ (g[u] \in Used(l) /\ Lower(l, a, b, g[u]))
      <4>1. u \in 0 .. l.count /\ \A i \in 0 .. u - 1 : i \in Used(l)
        BY <1>0, <1>2 DEF Used
      <4> QED BY <1>1, <4>1, ScanKeepsLower
    <3>3. g[u] = None \/ Dominates(l, u, g[u])
      BY <1>3, <3>2
    <3> QED BY <1>2, <2>2, <2>3, <3>1, <3>3 DEF Scan, Lower
  <2>5. CASE m # u + 1
    <3>1. m - 1 \in u + 1 .. l.count /\ m - 1 \notin T /\ m - 1 # u
      BY <1>0, <1>2, <2>1, <2>2, <2>5
    <3>2. g[m - 1] = u /\ u # None
      BY <1>2, <3>1, LatticeNoneAssumption
    <3>3. m - 1 \in Used(l)
      BY <2>2 DEF Used
    <3>4. g[m] = m - 1 => Lower(l, a, b, m - 1) /\ Dominates(l, m - 1, u)
      BY <2>3, <3>1, <3>2 DEF Scan, Lower
    <3>5. g[m] # m - 1
      BY <1>3, <1>4, <3>1, <3>3, <3>4
    <3> QED BY <2>2, <2>3, <3>2, <3>5 DEF Scan
  <2> QED BY <2>4, <2>5
<1>7. l.count \in u + 1 .. l.count
  BY <1>0, <1>2
<1> QED BY <1>1, <1>6, <1>7

\* join finds the first of the upper bounds, if there are any.
LEMMA JoinFinds ==
    ASSUME NEW l, WellFormed(l), NEW a, NEW b,
           NEW i \in Used(l), Dominates(l, i, a), Dominates(l, i, b)
    PROVE  LET j == Join(l, a, b)
           IN /\ j \in Used(l) /\ Dominates(l, j, a) /\ Dominates(l, j, b)
              /\ \A k \in Used(l) : Dominates(l, k, a) /\ Dominates(l, k, b) => j <= k
<1> DEFINE upper == {k \in Used(l) : Dominates(l, k, a) /\ Dominates(l, k, b)}
<1>0. l.count \in Nat
  BY LevelsAssumption DEF WellFormed, Lattices
<1>1. upper # {} /\ upper \subseteq Nat
  BY <1>0 DEF Used
<1>2. \E j \in upper : \A k \in upper : j <= k
  BY <1>1, LeastElement
<1>3. Join(l, a, b) = CHOOSE j \in upper : \A k \in upper : j <= k
  BY <1>1 DEF Join
<1>4. Join(l, a, b) \in upper /\ \A k \in upper : Join(l, a, b) <= k
  BY <1>2, <1>3
<1> QED BY <1>4

\* verify decides whether dominance is a partial order with the two bounds: the
\* bounds are always found by its searches for joins and meets.
LEMMA VerifyIsOrder ==
    ASSUME NEW l, WellFormed(l) PROVE VerifyLattice(l) <=> BoundedOrder(l)
<1>0. \A i, j \in Used(l) : /\ Dominates(l, i, j) = l.dom[i][j]
                             /\ i # None /\ i \in Labels /\ j \in Labels
  BY LevelsAssumption, LatticeNoneAssumption DEF WellFormed, Lattices, Used, Dominates, Labels
<1>1. VerifyLattice(l) => BoundedOrder(l)
  BY DEF WellFormed, VerifyLattice, Reflexive, Antisymmetric, Transitive, BoundedBelow, BoundedAbove,
         BoundedOrder, Leq
<1>2. ASSUME BoundedOrder(l) PROVE VerifyLattice(l)
  <2>1. /\ Reflexive(l) /\ Antisymmetric(l) /\ Transitive(l)
        /\ BoundedBelow(l) /\ BoundedAbove(l)
    BY <1>2 DEF WellFormed, Reflexive, Antisymmetric, Transitive, BoundedBelow, BoundedAbove,
                BoundedOrder, Leq
  <2>2. JoinsExist(l)
    BY <1>0, <2>1, JoinFinds DEF JoinsExist, BoundedAbove, WellFormed
  <2>3. MeetsExist(l)
    BY <1>0, <2>1, MeetFinds DEF MeetsExist, BoundedBelow, WellFormed, Lower
  <2> QED BY <2>1, <2>2, <2>3 DEF VerifyLattice
<1> QED BY <1>1, <1>2

(***************************************************************************)
(* The machine.  That the lattice in use is a bounded order is what makes  *)
(* flows compose; that it stays one is what reconfiguration must ensure.   *)
(***************************************************************************)
LatticeInv ==
    /\ WellFormed(lat) /\ BoundedOrder(lat) /\ 0 .. 3 \subseteq Used(lat)
    /\ IF source = None THEN know = {} /\ holds = {} ELSE source \in Used(lat)
    /\ FlowsUpward
    /\ \/ proposal = None /\ verdict = FALSE
       \/ proposal \in Proposals /\ verdict = VerifyLattice(proposal)

LEMMA LatticeInitInv == LatticeInit => LatticeInv
<1> SUFFICES ASSUME LatticeInit PROVE LatticeInv
  OBVIOUS
<1> DEFINE l == DefaultBlp
<1>1. /\ l.count = 4 /\ l.bottom = 0 /\ l.top = 3 /\ l \in Lattices
      /\ \A i, j \in 0 .. 3 : i \in Labels /\ j \in Labels /\ (l.dom[i][j] <=> i >= j)
  <2> DEFINE D == [i \in Labels |-> [j \in Labels |-> i < 4 /\ j < 4 /\ i >= j]]
  <2>1. l = [dom |-> D, count |-> 4, bottom |-> 0, top |-> 3]
    BY DEF DefaultBlp
  <2>2. 0 \in Labels /\ 3 \in Labels /\ 4 \in 1 .. MaxLevels /\ 0 .. 3 \subseteq Labels
    BY LevelsAssumption DEF Labels
  <2>3. \A i, j \in Labels : D[i][j] <=> i < 4 /\ j < 4 /\ i >= j
    OBVIOUS
  <2>4. \A i, j \in 0 .. 3 : D[i][j] <=> i >= j
    BY <2>2, <2>3
  <2>5. D \in [Labels -> [Labels -> BOOLEAN]]
    OBVIOUS
  <2> HIDE DEF D
  <2>6. l \in Lattices
    BY <2>1, <2>2, <2>5, Zenon DEF Lattices
  <2> HIDE DEF l
  <2> QED BY <2>1, <2>2, <2>4, <2>6
<1>2. Used(l) = 0 .. 3
  BY <1>1 DEF Used
<1> HIDE DEF l
<1>3. WellFormed(l) /\ BoundedOrder(l)
  BY <1>1, <1>2 DEF WellFormed, BoundedOrder, Leq
<1>4. lat = l /\ source = None /\ know = {} /\ holds = {} /\ FlowsUpward
  BY DEF LatticeInit, l, FlowsUpward
<1> QED BY <1>2, <1>3, <1>4 DEF LatticeInit, LatticeInv

\* Four labels of the lattice the kernel starts with stay in use.
LEMMA DefaultLabels == Used(DefaultBlp) = 0 .. 3
<1>1. DefaultBlp.count = 4
  BY DEF DefaultBlp
<1> QED BY <1>1 DEF Used

\* A lattice with a new top is a bounded order again, and dominance among the
\* old labels is what it was.
LEMMA NewTop ==
    ASSUME NEW l, WellFormed(l), BoundedOrder(l), l.count < MaxLevels
    PROVE  LET n == WithNewTop(l)
           IN /\ WellFormed(n) /\ BoundedOrder(n)
              /\ \A a, b \in Used(l) : Dominates(l, a, b) => Dominates(n, a, b)
              /\ Used(l) \subseteq Used(n)
<1> DEFINE n == WithNewTop(l)
           c == l.count
<1>0. c \in Nat /\ c >= 1 /\ c < MaxLevels /\ MaxLevels \in Nat
  BY LevelsAssumption DEF WellFormed, Lattices
<1> DEFINE D == [i \in Labels |-> [j \in Labels |->
                   (i = c /\ j <= c) \/ (l.dom[i][j] /\ ~(i < c /\ j = c))]]
<1>1. n = [dom |-> D, count |-> c + 1, bottom |-> l.bottom, top |-> c]
  BY DEF WithNewTop
<1>2. Used(n) = 0 .. c /\ Used(l) = 0 .. c - 1 /\ 0 .. c \subseteq Labels
  <2>1. n.count = c + 1
    BY <1>1
  <2> QED BY <1>0, <2>1 DEF Used, Labels
<1>d. \A i, j \in Labels : D[i][j] <=> (i = c /\ j <= c) \/ (l.dom[i][j] /\ ~(i < c /\ j = c))
  OBVIOUS
<1>6. D \in [Labels -> [Labels -> BOOLEAN]]
  OBVIOUS
<1>e. n.dom = D /\ n.count = c + 1 /\ n.bottom = l.bottom /\ n.top = c
  BY <1>1
<1> HIDE DEF D, n, c
<1>i. \A i \in 0 .. c - 1 : i < c /\ i # c /\ i <= c /\ i \in Labels
  BY <1>0, <1>2
<1>3. \A i, j \in 0 .. c - 1 : n.dom[i][j] <=> l.dom[i][j]
  BY <1>d, <1>e, <1>i
<1>4. \A j \in 0 .. c : n.dom[c][j]
  <2>1. c \in Labels /\ \A j \in 0 .. c : j \in Labels /\ j <= c
    BY <1>0, <1>2
  <2> QED BY <1>d, <1>e, <2>1
<1>5. \A i \in 0 .. c - 1 : ~n.dom[i][c]
  <2>1. c \in Labels
    BY <1>0, <1>2
  <2> QED BY <1>d, <1>e, <1>i, <2>1
<1>7. WellFormed(n)
  <2>1. c \in Labels /\ c + 1 \in 1 .. MaxLevels /\ l.bottom \in Labels
    BY <1>0, <1>2 DEF WellFormed, Lattices
  <2>2. n \in Lattices
    BY <1>1, <1>6, <2>1, Zenon DEF Lattices
  <2>3. n.bottom \in 0 .. c /\ n.top \in 0 .. c
    BY <1>0, <1>2, <1>e DEF WellFormed
  <2> QED BY <1>2, <2>2, <2>3 DEF WellFormed
<1>8. \A i \in 0 .. c : i = c \/ i \in 0 .. c - 1
  BY <1>0
<1>9. /\ \A i \in 0 .. c - 1 : l.dom[i][l.bottom] /\ l.dom[i][i]
      /\ \A i, j \in 0 .. c - 1 : l.dom[i][j] /\ l.dom[j][i] => i = j
      /\ \A i, j, k \in 0 .. c - 1 : l.dom[j][i] /\ l.dom[k][j] => l.dom[k][i]
      /\ l.bottom \in 0 .. c - 1
  BY <1>2 DEF WellFormed, BoundedOrder, Leq
<1>10. BoundedOrder(n)
  <2>1. \A i \in 0 .. c : n.dom[i][n.bottom] /\ n.dom[n.top][i] /\ n.dom[i][i]
    BY <1>0, <1>3, <1>4, <1>8, <1>9, <1>e
  <2>2. \A i, j \in 0 .. c : n.dom[i][j] /\ n.dom[j][i] => i = j
    BY <1>3, <1>5, <1>8, <1>9
  <2>3. \A i, j, k \in 0 .. c : n.dom[j][i] /\ n.dom[k][j] => n.dom[k][i]
    BY <1>3, <1>4, <1>5, <1>8, <1>9
  <2> QED BY <1>2, <2>1, <2>2, <2>3 DEF BoundedOrder, Leq
<1>11. \A a, b \in Used(l) : Dominates(l, a, b) => Dominates(n, a, b)
  BY <1>0, <1>2, <1>3 DEF Dominates
<1>12. Used(l) \subseteq Used(n)
  BY <1>0, <1>2
<1> QED BY <1>7, <1>10, <1>11, <1>12 DEF n

\* Permitted reads and writes pass the secret upward only, by transitivity.
LEMMA FlowStep ==
    ASSUME LatticeInv, NEW s, NEW o, Read(s, o) \/ Write(s, o) PROVE LatticeInv'
<1>1. /\ \A a, b \in Used(lat) : Dominates(lat, a, b) <=> lat.dom[a][b]
      /\ \A a, b, c \in Used(lat) :
           Dominates(lat, a, b) /\ Dominates(lat, b, c) => Dominates(lat, a, c)
  BY DEF LatticeInv, Dominates, BoundedOrder, Leq
<1>2. \A a, b : Dominates(lat, a, b) => a \in Used(lat) /\ b \in Used(lat)
  BY DEF Dominates
<1>3. lat' = lat /\ source' = source /\ UNCHANGED <<proposal, verdict>>
  BY DEF Read, Write
<1>4. FlowsUpward'
  <2>1. \A l \in know' \cup holds' :
          \/ l \in know \cup holds
          \/ \E k \in know \cup holds : Dominates(lat, l, k)
    BY DEF Read, Write, MayRead, MayWrite
  <2>2. \A l \in know \cup holds : Dominates(lat, l, source)
    BY DEF LatticeInv, FlowsUpward
  <2>3. \A l \in know' \cup holds' : Dominates(lat, l, source)
    BY <1>1, <1>2, <2>1, <2>2
  <2> QED BY <1>3, <2>3 DEF FlowsUpward
<1>5. source = None => know' = {} /\ holds' = {}
  BY DEF LatticeInv, Read, Write
<1> QED BY <1>3, <1>4, <1>5 DEF LatticeInv, WellFormed, BoundedOrder, Leq, Used

\* The secret starts at its own label, which dominates itself.
LEMMA ClassifyStep ==
    ASSUME LatticeInv, NEW s \in Used(DefaultBlp), Classify(s) PROVE LatticeInv'
<1>1. /\ s \in Used(lat) /\ Dominates(lat, s, s) /\ s # None
  <2>1. s \in 0 .. 3
    BY DefaultLabels
  <2>2. s \in Used(lat) /\ s \in Nat
    BY <2>1 DEF LatticeInv
  <2> QED BY <2>2, LatticeNoneAssumption DEF LatticeInv, BoundedOrder, Leq, Dominates
<1>2. /\ lat' = lat /\ source' = s /\ know' = {} /\ holds' = {s}
      /\ UNCHANGED <<proposal, verdict>>
  BY DEF Classify, LatticeInv
<1>3. FlowsUpward'
  BY <1>1, <1>2 DEF FlowsUpward
<1> QED BY <1>1, <1>2, <1>3 DEF LatticeInv, WellFormed, BoundedOrder, Leq, Used

\* Only the lattice demonstration touches the lattice.
LEMMA LatticeDemoStep == [Next]_vars => [LatticeNext]_latticeVars \/ LatticeReturns
BY DEF Next, vars, AxiomDemo, VmzDemo, LatticeDemo, DriverDemo, ParseDemo, ParsePrinted,
       TransmitDemo

LEMMA ReconfigureStep == ASSUME LatticeInv, Reconfigure PROVE LatticeInv'
<1>1. /\ lat' = WithNewTop(lat) /\ lat.count < MaxLevels
      /\ UNCHANGED <<source, know, holds, proposal, verdict>>
  BY DEF Reconfigure
<1>2. /\ WellFormed(lat') /\ BoundedOrder(lat') /\ Used(lat) \subseteq Used(lat')
      /\ \A a, b \in Used(lat) : Dominates(lat, a, b) => Dominates(lat', a, b)
  BY <1>1, NewTop DEF LatticeInv
<1>3. \A l \in know \cup holds : l \in Used(lat) /\ Dominates(lat, l, source)
  BY DEF LatticeInv, FlowsUpward, Dominates
<1>4. /\ FlowsUpward'
      /\ IF source' = None THEN know' = {} /\ holds' = {} ELSE source' \in Used(lat')
  BY <1>1, <1>2, <1>3 DEF LatticeInv, FlowsUpward
<1>5. 0 .. 3 \subseteq Used(lat')
  BY <1>2 DEF LatticeInv
<1> QED BY <1>1, <1>2, <1>4, <1>5 DEF LatticeInv, WellFormed, BoundedOrder, Leq, Used

\* The invariant of the lattice holds for every number of levels.
THEOREM LatticeInvariant == Spec => []LatticeInv
<1>1. LatticeInv /\ [LatticeNext]_latticeVars => LatticeInv'
  <2> SUFFICES ASSUME LatticeInv, [LatticeNext]_latticeVars PROVE LatticeInv'
    OBVIOUS
  <2>1. ASSUME UNCHANGED <<lat, source, know, holds>>,
               UNCHANGED <<proposal, verdict>>
                 \/ (proposal' \in Proposals /\ verdict' = VerifyLattice(proposal'))
        PROVE  LatticeInv'
    BY <2>1 DEF LatticeInv, FlowsUpward, WellFormed, BoundedOrder, Leq, Used, Dominates
  <2>2. CASE LogReconfigured \/ UNCHANGED latticeVars
    BY <2>1, <2>2 DEF LogReconfigured, latticeVars
  <2>3. ASSUME NEW l \in Proposals, Propose(l) PROVE LatticeInv'
    BY <2>1, <2>3 DEF Propose
  <2> QED BY <2>2, <2>3, ClassifyStep, FlowStep, ReconfigureStep DEF LatticeNext
<1>2. LatticeInv /\ LatticeReturns => LatticeInv'
  BY DEF LatticeReturns, LatticeInv, FlowsUpward, WellFormed, BoundedOrder, Leq, Used
<1>3. LatticeInv /\ [Next]_vars => LatticeInv'
  BY <1>1, <1>2, LatticeDemoStep
<1>4. Init => LatticeInv
  BY LatticeInitInv DEF Init
<1> QED BY <1>3, <1>4, PTL DEF Spec

\* No sequence of permitted reads and writes, across any number of
\* reconfigurations, takes the secret to a label that does not dominate its own.
THEOREM SecretsFlowUpward == Spec => []FlowsUpward
<1>1. LatticeInv => FlowsUpward
  BY DEF LatticeInv
<1> QED BY <1>1, LatticeInvariant, PTL

\* The lattice in use passes verify after every reconfiguration, up to the size
\* of the matrix.
THEOREM AlwaysVerified == Spec => []StaysVerified
<1>1. LatticeInv => StaysVerified
  BY VerifyIsOrder DEF LatticeInv, StaysVerified
<1> QED BY <1>1, LatticeInvariant, PTL

\* For every lattice that can be proposed, verify accepts it exactly if dominance
\* is a bounded partial order.
THEOREM VerifyIsExact == Spec => []VerifyDecidesOrder
<1>1. \A l \in Proposals : WellFormed(l)
  BY ProposalsAssumption, LevelsAssumption DEF WellFormed, Lattices, Used, Labels
<1>2. LatticeInv => VerifyDecidesOrder
  BY <1>1, VerifyIsOrder DEF LatticeInv, VerifyDecidesOrder
<1> QED BY <1>2, LatticeInvariant, PTL

\* In every accepted lattice the scans of meet and join return the best bounds.
THEOREM ScansAreBest == Spec => []BoundsAreBest
<1>1. \A l \in Proposals : WellFormed(l)
  BY ProposalsAssumption, LevelsAssumption DEF WellFormed, Lattices, Used, Labels
<1>2. LatticeInv => BoundsAreBest
  <2> SUFFICES ASSUME LatticeInv, verdict, NEW a \in Used(proposal), NEW b \in Used(proposal)
               PROVE  /\ Glb(proposal, a, b) # {} => Meet(proposal, a, b) \in Glb(proposal, a, b)
                      /\ IndexedUpward(proposal) /\ Lub(proposal, a, b) # {}
                           => Join(proposal, a, b) \in Lub(proposal, a, b)
    BY DEF BoundsAreBest
  <2> DEFINE l == proposal
  <2>1. WellFormed(l) /\ VerifyLattice(l)
    BY <1>1 DEF LatticeInv
  <2> HIDE DEF l
  <2>2. ASSUME NEW u \in Glb(l, a, b) PROVE Meet(l, a, b) \in Glb(l, a, b)
    BY <2>1, <2>2, MeetIsGreatest DEF VerifyLattice, l
  <2>3. ASSUME IndexedUpward(l), NEW u \in Lub(l, a, b) PROVE Join(l, a, b) \in Lub(l, a, b)
    <3>0. l.count \in Nat
      BY <2>1, LevelsAssumption DEF WellFormed, Lattices
    <3>1. u \in Used(l) /\ Dominates(l, u, a) /\ Dominates(l, u, b)
      BY <2>3 DEF Lub, UpperBounds, Leq, Dominates, l
    <3> DEFINE j == Join(l, a, b)
    <3>2. j \in Used(l) /\ Dominates(l, j, a) /\ Dominates(l, j, b) /\ j <= u
      BY <2>1, <3>1, JoinFinds
    <3> HIDE DEF j
    <3>3. l.dom[j][u]
      BY <2>3, <3>2 DEF Lub, UpperBounds, Leq, Dominates
    <3>4. u <= j /\ u \in Nat /\ j \in Nat
      BY <2>3, <3>0, <3>1, <3>2, <3>3 DEF IndexedUpward, Used
    <3>5. u = j
      BY <3>2, <3>4
    <3> QED BY <2>3, <3>5 DEF j
  <2> QED BY <2>2, <2>3 DEF l
<1> QED BY <1>2, LatticeInvariant, PTL
=============================================================================
