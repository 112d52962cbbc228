----------------------------- MODULE IPv4Pool -----------------------------
(***************************************************************************)
(* _IPv4DocsAllocator (src/src/veil/ledger.py): the allocator that turns   *)
(* the IPv4 literals of a configuration into RFC 5737 documentation        *)
(* addresses.  The first NumDocs source /24s each own a documentation /24  *)
(* and keep their host octets there; every other address is packed into    *)
(* the first slot that is still free, and its source /24 is recorded as    *)
(* collapsed.                                                              *)
(*                                                                         *)
(* An address is <<source net, host octet>>, a slot is                     *)
(* <<documentation net, host octet>>.  The code has NumDocs = 3 and        *)
(* NumHosts = 256.                                                         *)
(***************************************************************************)
EXTENDS Naturals

CONSTANTS
    SourceNets,     \* the source /24s a configuration may mention
    NumDocs,        \* how many documentation /24s there are
    NumHosts        \* how many host octets a /24 has

ASSUME PoolAssumption == NumDocs \in Nat \ {0} /\ NumHosts \in Nat \ {0}

VARIABLES
    subnet_map,         \* source net -> its documentation net, 0 if it has none
    next_subnet_idx,    \* how many documentation nets have an owner
    used,               \* the slots handed out
    collapsed_sources,  \* the source nets that lost their structure
    rendered            \* address -> slot: the answers given so far, which the
                        \* ledger keeps in by_original

pool == <<subnet_map, next_subnet_idx, used, collapsed_sources>>
vars == <<subnet_map, next_subnet_idx, used, collapsed_sources, rendered>>

Hosts     == 0 .. NumHosts - 1
DocsNets  == 1 .. NumDocs
Addresses == SourceNets \X Hosts
Slots     == DocsNets \X Hosts

\* Assignment to a dictionary key.
Bind(f, key, value) ==
    [x \in DOMAIN f \cup {key} |-> IF x = key THEN value ELSE f[x]]

---------------------------------------------------------------------------
Init ==
    /\ subnet_map = [net \in SourceNets |-> 0]
    /\ next_subnet_idx = 0
    /\ used = {}
    /\ collapsed_sources = {}
    /\ rendered = [addr \in {} |-> 0]

\* The documentation net of a source net: the one it owns, else the next one
\* nobody owns, else none.
DocsNet(net) ==
    IF subnet_map[net] = 0 /\ next_subnet_idx < NumDocs
        THEN next_subnet_idx + 1
        ELSE subnet_map[net]

\* A mutation of ClaimDocsNet: the index moves although nothing is claimed.
ClaimDocsNet_Always(net) ==
    /\ subnet_map' = [subnet_map EXCEPT ![net] = DocsNet(net)]
    /\ next_subnet_idx' = next_subnet_idx + 1
ClaimDocsNet(net) ==
    /\ subnet_map' = [subnet_map EXCEPT ![net] = DocsNet(net)]
    /\ next_subnet_idx' = IF DocsNet(net) > next_subnet_idx
                              THEN DocsNet(net) ELSE next_subnet_idx

\* The slot with the address's own host octet in its documentation net.
OwnSlot(addr) == <<DocsNet(addr[1]), addr[2]>>

CanPreserve(addr) == DocsNet(addr[1]) # 0 /\ OwnSlot(addr) \notin used

\* The slots in the order _fallback tries them.
Precedes(s, t) == s[1] < t[1] \/ (s[1] = t[1] /\ s[2] <= t[2])

\* Mutations of FirstFree and Collapse: a fallback that starts over from the
\* last slot used, and one that only records the nets that own nothing.
FirstFree_Reused(slot) ==
    slot \in Slots /\ \A free \in Slots \ used : Precedes(slot, free)
Collapse_OnlyUnowned(net) ==
    collapsed_sources' =
        IF DocsNet(net) = 0 THEN collapsed_sources \cup {net} ELSE collapsed_sources

FirstFree(slot) ==
    slot \in Slots \ used /\ \A free \in Slots \ used : Precedes(slot, free)

Collapse(net) == collapsed_sources' = collapsed_sources \cup {net}

AllocatePreserved(addr, slot) ==
    /\ CanPreserve(addr)
    /\ slot = OwnSlot(addr)
    /\ ClaimDocsNet(addr[1])
    /\ used' = used \cup {slot}
    /\ UNCHANGED collapsed_sources

\* A mutation of AllocateFallback: the slot is not marked as used.
AllocateFallback_NotMarked(addr, slot) ==
    /\ ~CanPreserve(addr)
    /\ FirstFree(slot)
    /\ ClaimDocsNet(addr[1])
    /\ Collapse(addr[1])
    /\ UNCHANGED used
AllocateFallback(addr, slot) ==
    /\ ~CanPreserve(addr)
    /\ FirstFree(slot)
    /\ ClaimDocsNet(addr[1])
    /\ Collapse(addr[1])
    /\ used' = used \cup {slot}

\* allocate raises once every slot is used, after it recorded the collapse.
Exhausted(addr) ==
    /\ ~CanPreserve(addr)
    /\ Slots \subseteq used
    /\ ClaimDocsNet(addr[1])
    /\ Collapse(addr[1])
    /\ UNCHANGED used

Allocate(addr, slot) == AllocatePreserved(addr, slot) \/ AllocateFallback(addr, slot)

\* The ledger asks for an address once: it returns the old answer afterwards.
Render(addr) ==
    /\ addr \notin DOMAIN rendered
    /\ \E slot \in Slots :
          Allocate(addr, slot) /\ rendered' = Bind(rendered, addr, slot)

Refuse(addr) ==
    /\ addr \notin DOMAIN rendered
    /\ Exhausted(addr)
    /\ UNCHANGED rendered

Next == \E addr \in Addresses : Render(addr) \/ Refuse(addr)

Spec == Init /\ [][Next]_vars

---------------------------------------------------------------------------
TypeOK ==
    /\ subnet_map \in [SourceNets -> 0 .. NumDocs]
    /\ next_subnet_idx \in 0 .. NumDocs
    /\ used \subseteq Slots
    /\ collapsed_sources \subseteq SourceNets
    /\ DOMAIN rendered \subseteq Addresses
    /\ rendered \in [DOMAIN rendered -> Slots]

\* Two addresses never share a documentation address, and no slot is lost:
\* the used slots are exactly the answers.  reverse_substitute maps a
\* documentation address back to one original, so it depends on this.
Injective ==
    /\ \A a, b \in DOMAIN rendered : rendered[a] = rendered[b] => a = b
    /\ used = {rendered[a] : a \in DOMAIN rendered}

\* What the allocator's set of collapsed nets means: among the source nets it
\* has not recorded, two addresses are in one documentation /24 exactly when
\* they were in one source /24, and each kept its host octet.  The program's
\* warning names only a part of the set, see CollapsesReported in Substitute.
UncollapsedNetsKeepStructure ==
    \A a, b \in DOMAIN rendered :
        a[1] \notin collapsed_sources /\ b[1] \notin collapsed_sources =>
            /\ rendered[a][1] = rendered[b][1] <=> a[1] = b[1]
            /\ rendered[a][2] = a[2]
===========================================================================
