----------------------------- MODULE IPv6Pool -----------------------------
(***************************************************************************)
(* _IPv6DocsAllocator (src/src/veil/ledger.py): every source /64 owns the  *)
(* next documentation /64 of 2001:db8::/32 and its addresses keep their    *)
(* interface identifier.                                                   *)
(*                                                                         *)
(* The ledger keys an IP literal by its text, the allocator by its value,  *)
(* and one IPv6 address has several texts (fc00::1, FC00::1, fc00:0::1).   *)
(* A literal is <<source net, host, spelling>>, a slot                     *)
(* <<documentation net, host>>.  The code has NumDocs = 2^32.              *)
(***************************************************************************)
EXTENDS Naturals

CONSTANTS
    SourceNets,     \* the source /64s a configuration may mention
    Hosts,          \* the interface identifiers of a /64
    Spellings,      \* the ways to write one address
    NumDocs         \* how many documentation /64s there are

VARIABLES
    subnet_map,         \* source net -> its documentation net, 0 if it has none
    next_subnet_idx,    \* how many documentation nets have an owner
    used,               \* the slots handed out
    rendered,           \* literal -> slot: the answers given so far, which the
                        \* ledger keeps in by_original
    raised              \* the messages of the RuntimeErrors raised so far

pool == <<subnet_map, next_subnet_idx, used>>
vars == <<subnet_map, next_subnet_idx, used, rendered, raised>>

DocsNets == 1 .. NumDocs
Literals == SourceNets \X Hosts \X Spellings
Slots    == DocsNets \X Hosts

\* Assignment to a dictionary key.
Bind(f, key, value) ==
    [x \in DOMAIN f \cup {key} |-> IF x = key THEN value ELSE f[x]]

---------------------------------------------------------------------------
Init ==
    /\ subnet_map = [net \in SourceNets |-> 0]
    /\ next_subnet_idx = 0
    /\ used = {}
    /\ rendered = [lit \in {} |-> 0]
    /\ raised = {}

Known(net) == subnet_map[net] # 0

DocsNet(net) == IF Known(net) THEN subnet_map[net] ELSE next_subnet_idx + 1

\* A mutation of ClaimDocsNet: the next new net is given the same one.
ClaimDocsNet_NotCounted(net) ==
    /\ subnet_map' = [subnet_map EXCEPT ![net] = DocsNet(net)]
    /\ UNCHANGED next_subnet_idx
ClaimDocsNet(net) ==
    /\ subnet_map' = [subnet_map EXCEPT ![net] = DocsNet(net)]
    /\ next_subnet_idx' = IF Known(net) THEN next_subnet_idx ELSE next_subnet_idx + 1

OwnSlot(lit) == <<DocsNet(lit[1]), lit[2]>>

SlotFree(lit) == OwnSlot(lit) \notin used

HasDocsNet(lit) == DocsNet(lit[1]) <= NumDocs

Allocate(lit, slot) ==
    /\ HasDocsNet(lit)
    /\ SlotFree(lit)
    /\ slot = OwnSlot(lit)
    /\ ClaimDocsNet(lit[1])
    /\ used' = used \cup {slot}

\* allocate raises when the slot is used.  The net is known then: whoever
\* used the slot claimed it.
Collides(lit) ==
    /\ HasDocsNet(lit)
    /\ ~SlotFree(lit)
    /\ ClaimDocsNet(lit[1])
    /\ UNCHANGED used

\* allocate raises when a new source net finds no documentation net left.
Exhausted(lit) == ~HasDocsNet(lit) /\ UNCHANGED pool

Render(lit) ==
    /\ lit \notin DOMAIN rendered
    /\ \E slot \in Slots :
          Allocate(lit, slot) /\ rendered' = Bind(rendered, lit, slot)
    /\ UNCHANGED raised

Refuse(lit) ==
    /\ lit \notin DOMAIN rendered
    /\ \/ Collides(lit) /\ raised' = raised \cup {"unexpected IPv6 collision"}
       \/ Exhausted(lit) /\ raised' = raised \cup {"docs subnet pool exhausted"}
    /\ UNCHANGED rendered

Next == \E lit \in Literals : Render(lit) \/ Refuse(lit)

Spec == Init /\ [][Next]_vars

---------------------------------------------------------------------------
\* Two literals never share a documentation address, literals of one /64
\* stay in one /64 and keep their host part, and literals of different /64s
\* are kept apart.
StructurePreserved ==
    \A a, b \in DOMAIN rendered :
        /\ rendered[a] = rendered[b] => a = b
        /\ rendered[a][1] = rendered[b][1] <=> a[1] = b[1]
        /\ rendered[a][2] = a[2]

\* ledger.py calls a collision within a preserved /64 unexpected.
NoUnexpectedCollision == "unexpected IPv6 collision" \notin raised
===========================================================================
