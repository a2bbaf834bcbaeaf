----------------------------- MODULE Capability -----------------------------
(***************************************************************************)
(* Temporal capabilities (kernel/src/axiom/capability.rs): the kernel      *)
(* mints root capabilities, holders derive weaker children, and time makes *)
(* every capability decay.  A capability is a value its holder keeps, so a *)
(* copy may also come back altered.                                        *)
(*                                                                         *)
(* HMAC-SHA-256 and SHA-256 are ideal: a MAC determines the key and the    *)
(* bytes it covers, a hash determines what was hashed.  derive and verify  *)
(* that refuse change nothing, so only their success is an action.         *)
(***************************************************************************)
EXTENDS Naturals, FiniteSets

CONSTANTS Objects,       \* object ids
          Rights,        \* the bits of rights::*, DERIVE among them
          MAX_DEPTH,     \* 64 in derive
          MaxTime,       \* bound: the clock
          MaxCaps,       \* bound: capabilities issued
          MaxAltered     \* bound: altered copies

DERIVE == "DERIVE"

ASSUME RightsAssumption == DERIVE \in Rights
ASSUME LimitsAssumption ==
    MAX_DEPTH \in Nat /\ MaxTime \in Nat /\ MaxCaps \in Nat /\ MaxAltered \in Nat

VARIABLES now,           \* MonotonicNs
          issued,        \* capabilities made by mint or derive
          altered        \* copies whose fields or MAC were changed

capVars == <<now, issued, altered>>

-----------------------------------------------------------------------------
K == "K"
NoParent == <<>>                                \* parent_hash = [0; 32]
Sha256(x) == <<"sha256", x>>
Hmac(k, bytes) == <<"hmac", k, bytes>>

\* auth_bytes: the fields the MAC covers, at fixed offsets.
AuthBytes_NoParent(c) == <<c.object_id, c.rights, c.expires_at, c.depth>>
AuthBytes(c) == <<c.object_id, c.rights, c.expires_at, c.depth, c.parent_hash>>

WithMac(c) == [object_id |-> c.object_id, rights |-> c.rights, expires_at |-> c.expires_at,
               depth |-> c.depth, parent_hash |-> c.parent_hash,
               mac |-> Hmac(K, AuthBytes(c))]

Alive(c) == now < c.expires_at

Verify(c) == Alive(c) /\ c.mac = Hmac(K, AuthBytes(c))

\* The checks of derive after verify: no new right, no longer life, bounded depth.
MayDerive_AnyRights(c, rights, expires_at) ==
    DERIVE \in c.rights /\ expires_at <= c.expires_at /\ c.depth + 1 <= MAX_DEPTH
MayDerive_AnyExpiry(c, rights, expires_at) ==
    DERIVE \in c.rights /\ rights \subseteq c.rights /\ c.depth + 1 <= MAX_DEPTH
MayDerive(c, rights, expires_at) ==
    /\ DERIVE \in c.rights
    /\ rights \subseteq c.rights
    /\ expires_at <= c.expires_at
    /\ c.depth + 1 <= MAX_DEPTH

ParentHash(c) == Sha256(c.mac)

-----------------------------------------------------------------------------
Times == 0 .. MaxTime

CapInit == now = 0 /\ issued = {} /\ altered = {}

Issue(c) ==
    /\ Cardinality(issued) < MaxCaps
    /\ issued' = issued \cup {WithMac(c)}
    /\ UNCHANGED <<now, altered>>

Mint(object_id, rights, expires_at) ==
    Issue([object_id |-> object_id, rights |-> rights, expires_at |-> expires_at,
           depth |-> 0, parent_hash |-> NoParent])

Derive(c, rights, expires_at) ==
    /\ Verify(c)
    /\ MayDerive(c, rights, expires_at)
    /\ Issue([object_id |-> c.object_id, rights |-> rights, expires_at |-> expires_at,
              depth |-> c.depth + 1, parent_hash |-> ParentHash(c)])

\* A copy with one field changed: to any value of the field, to the hash of
\* another capability or to another MAC that was issued, or with a bit of its MAC
\* flipped.
Changes(c) ==
    {[c EXCEPT !.object_id = o] : o \in Objects}
      \cup {[c EXCEPT !.rights = r] : r \in SUBSET Rights}
      \cup {[c EXCEPT !.expires_at = t] : t \in Times}
      \cup {[c EXCEPT !.depth = d] : d \in 0 .. MAX_DEPTH}
      \cup {[c EXCEPT !.parent_hash = h] : h \in {NoParent} \cup {ParentHash(p) : p \in issued}}
      \cup {[c EXCEPT !.mac = m] : m \in {<<"flipped", c.mac>>} \cup {p.mac : p \in issued}}

Alter(c, d) ==
    /\ Cardinality(altered) < MaxAltered
    /\ d # c
    /\ altered' = altered \cup {d}
    /\ UNCHANGED <<now, issued>>

Tick ==
    /\ now < MaxTime
    /\ now' = now + 1
    /\ UNCHANGED <<issued, altered>>

\* demonstrate returns: the capabilities were its locals.
CapReturns == now' = 0 /\ issued' = {} /\ altered' = {}

CapNext ==
    \/ Tick
    \/ \E o \in Objects, r \in SUBSET Rights, t \in Times : Mint(o, r, t)
    \/ \E c \in issued \cup altered, r \in SUBSET Rights, t \in Times : Derive(c, r, t)
    \/ \E c \in issued : \E d \in Changes(c) : Alter(c, d)

-----------------------------------------------------------------------------
(***************************************************************************)
(* Properties.                                                             *)
(***************************************************************************)

\* Depths stay within the limit of derive, expiries within the type.
CapTypeOK ==
    /\ now \in Times
    /\ \A c \in issued :
         c.object_id \in Objects /\ c.rights \in SUBSET Rights
           /\ c.expires_at \in Times /\ c.depth \in 0 .. MAX_DEPTH

\* "The MAC covers all fields": whichever field of a copy was altered, or whichever
\* issued MAC it was given instead of its own, verify accepts it only if it is a
\* capability the kernel issued as well.
OnlyIssuedVerify == \A c \in altered : Verify(c) => c \in issued

Parents(c) == {p \in issued : c.parent_hash = Sha256(p.mac)}

\* derive: the provenance chain.  A derived capability names one parent, one
\* level up, for the same object, of which it has no more rights and no longer
\* life; a capability without parent was minted; the chain is no longer than the
\* limit.
Provenance ==
    \A c \in issued :
      /\ c.depth <= MAX_DEPTH
      /\ IF c.parent_hash = NoParent
         THEN c.depth = 0
         ELSE \E p \in Parents(c) :
                /\ Parents(c) = {p}
                /\ DERIVE \in p.rights
                /\ c.object_id = p.object_id /\ c.depth = p.depth + 1
                /\ c.rights \subseteq p.rights /\ c.expires_at <= p.expires_at

\* The ancestors of c: chains of parents reach them in depth[c] steps.
AncestorsOf(c) ==
    LET up[n \in 0 .. MAX_DEPTH] ==
          IF n = 0 THEN {c} ELSE UNION {Parents(p) : p \in up[n - 1]}
    IN UNION {up[n] : n \in 1 .. MAX_DEPTH}

\* Temporal decay reaches down the chain: once a capability is dead, every
\* capability derived from it, at any depth, is dead and stays dead.
DeathIsInherited ==
    \A c \in issued : \A a \in AncestorsOf(c) : ~Alive(a) => ~Verify(c)
=============================================================================
