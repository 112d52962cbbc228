-------------------------- MODULE IPv4PoolProofs --------------------------
(***************************************************************************)
(* What the IPv4 allocator guarantees for any number of source networks,   *)
(* documentation networks and hosts.                                       *)
(***************************************************************************)
EXTENDS IPv4Pool, TLAPS

\* No two source nets own one documentation net, and the owned documentation
\* nets are the first next_subnet_idx.
OwnersDistinct ==
    /\ \A net \in SourceNets : subnet_map[net] <= next_subnet_idx
    /\ \A m, n \in SourceNets :
          subnet_map[m] = subnet_map[n] /\ subnet_map[m] # 0 => m = n

\* An address of a net that is not recorded as collapsed has its own slot.
Kept ==
    \A a \in DOMAIN rendered :
        a[1] \notin collapsed_sources =>
            subnet_map[a[1]] # 0 /\ rendered[a] = <<subnet_map[a[1]], a[2]>>

IInv == TypeOK /\ Injective /\ OwnersDistinct /\ Kept

---------------------------------------------------------------------------
\* Claiming a documentation net keeps the ownership one-to-one and never
\* changes the net of a source that has one.
LEMMA ClaimKeepsOwners ==
    ASSUME TypeOK, OwnersDistinct, NEW net \in SourceNets, ClaimDocsNet(net)
    PROVE  /\ subnet_map' \in [SourceNets -> 0 .. NumDocs]
           /\ next_subnet_idx' \in 0 .. NumDocs
           /\ OwnersDistinct'
           /\ subnet_map'[net] = DocsNet(net)
           /\ DocsNet(net) \in 0 .. NumDocs
           /\ \A n \in SourceNets : subnet_map[n] # 0 => subnet_map'[n] = subnet_map[n]
  <1> USE PoolAssumption DEF TypeOK
  <1>1. CASE subnet_map[net] = 0 /\ next_subnet_idx < NumDocs
    <2>1. DocsNet(net) = next_subnet_idx + 1
      BY <1>1 DEF DocsNet
    <2>2. /\ subnet_map' = [subnet_map EXCEPT ![net] = next_subnet_idx + 1]
          /\ next_subnet_idx' = next_subnet_idx + 1
      BY <2>1 DEF ClaimDocsNet
    <2>3. QED
      BY <1>1, <2>1, <2>2 DEF OwnersDistinct
  <1>2. CASE ~(subnet_map[net] = 0 /\ next_subnet_idx < NumDocs)
    <2>1. DocsNet(net) = subnet_map[net]
      BY <1>2 DEF DocsNet
    <2>2. subnet_map' = subnet_map /\ next_subnet_idx' = next_subnet_idx
      BY <2>1 DEF ClaimDocsNet, OwnersDistinct
    <2>3. QED
      BY <2>1, <2>2 DEF OwnersDistinct
  <1>3. QED
    BY <1>1, <1>2

\* An address rendered by its own slot, or packed elsewhere with its net
\* recorded, leaves the invariant true.
LEMMA RenderKeeps ==
    ASSUME IInv, NEW addr \in Addresses, Render(addr)
    PROVE  IInv'
  <1> USE DEF IInv
  <1>0. addr = <<addr[1], addr[2]>> /\ addr[1] \in SourceNets /\ addr[2] \in Hosts
    BY DEF Addresses
  <1>1. PICK slot \in Slots :
           Allocate(addr, slot) /\ rendered' = Bind(rendered, addr, slot)
    BY DEF Render
  <1>2. /\ slot \notin used
        /\ used' = used \cup {slot}
        /\ ClaimDocsNet(addr[1])
    BY <1>1 DEF Allocate, AllocatePreserved, AllocateFallback, FirstFree, CanPreserve
  <1>3. /\ DOMAIN rendered' = DOMAIN rendered \cup {addr}
        /\ rendered'[addr] = slot
        /\ \A a \in DOMAIN rendered : rendered'[a] = rendered[a]
        /\ addr \notin DOMAIN rendered
    BY <1>1 DEF Bind, Render
  <1>4. /\ subnet_map' \in [SourceNets -> 0 .. NumDocs]
        /\ next_subnet_idx' \in 0 .. NumDocs
        /\ OwnersDistinct'
        /\ subnet_map'[addr[1]] = DocsNet(addr[1])
        /\ \A n \in SourceNets : subnet_map[n] # 0 => subnet_map'[n] = subnet_map[n]
    BY <1>0, <1>2, ClaimKeepsOwners
  <1>5. collapsed_sources \subseteq collapsed_sources' /\ collapsed_sources' \subseteq SourceNets
    BY <1>0, <1>1 DEF Allocate, AllocatePreserved, AllocateFallback, Collapse, TypeOK
  <1>6. TypeOK'
    <2>1. rendered' \in [DOMAIN rendered' -> Slots]
      BY <1>1, <1>3 DEF TypeOK, Bind
    <2>2. QED
      BY <1>2, <1>3, <1>4, <1>5, <2>1 DEF TypeOK
  <1>7. Injective'
    <2>1. \A a \in DOMAIN rendered : rendered[a] \in used
      BY DEF Injective
    <2>2. \A a, b \in DOMAIN rendered' : rendered'[a] = rendered'[b] => a = b
      BY <1>2, <1>3, <2>1 DEF Injective
    <2>3. used' = {rendered'[a] : a \in DOMAIN rendered'}
      BY <1>2, <1>3 DEF Injective
    <2>4. QED
      BY <2>2, <2>3 DEF Injective
  <1>8. Kept'
    <2> SUFFICES ASSUME NEW a \in DOMAIN rendered', a[1] \notin collapsed_sources'
                 PROVE  /\ subnet_map'[a[1]] # 0
                        /\ rendered'[a] = <<subnet_map'[a[1]], a[2]>>
      BY DEF Kept
    <2>1. CASE a \in DOMAIN rendered
      <3>1. subnet_map[a[1]] # 0 /\ rendered[a] = <<subnet_map[a[1]], a[2]>>
        BY <1>5, <2>1 DEF Kept
      <3>2. a[1] \in SourceNets
        BY <2>1 DEF TypeOK, Addresses
      <3>3. QED
        BY <1>3, <1>4, <2>1, <3>1, <3>2
    <2>2. CASE a = addr
      <3>1. AllocatePreserved(addr, slot)
        BY <1>1, <2>2 DEF Allocate, AllocateFallback, Collapse
      <3>2. QED
        BY <1>3, <1>4, <2>2, <3>1 DEF AllocatePreserved, CanPreserve, OwnSlot
    <2>3. QED
      BY <1>3, <2>1, <2>2
  <1>9. QED
    BY <1>4, <1>6, <1>7, <1>8

\* The pool refuses an address without giving anything away.
LEMMA RefuseKeeps ==
    ASSUME IInv, NEW addr \in Addresses, Refuse(addr)
    PROVE  IInv'
  <1> USE DEF IInv
  <1>0. addr[1] \in SourceNets
    BY DEF Addresses
  <1>1. /\ ClaimDocsNet(addr[1])
        /\ collapsed_sources' = collapsed_sources \cup {addr[1]}
        /\ used' = used /\ rendered' = rendered
    BY DEF Refuse, Exhausted, Collapse
  <1>2. /\ subnet_map' \in [SourceNets -> 0 .. NumDocs]
        /\ next_subnet_idx' \in 0 .. NumDocs
        /\ OwnersDistinct'
        /\ \A n \in SourceNets : subnet_map[n] # 0 => subnet_map'[n] = subnet_map[n]
    BY <1>0, <1>1, ClaimKeepsOwners
  <1>3. TypeOK'
    BY <1>0, <1>1, <1>2 DEF TypeOK
  <1>4. Injective'
    BY <1>1 DEF Injective
  <1>5. Kept'
    <2>1. \A a \in DOMAIN rendered : a[1] \in SourceNets
      BY DEF TypeOK, Addresses
    <2>2. QED
      BY <1>1, <1>2, <2>1 DEF Kept
  <1>6. QED
    BY <1>2, <1>3, <1>4, <1>5

\* The inductive invariant of the allocator.
THEOREM PoolInvariant == Spec => []IInv
  <1>1. Init => IInv
    BY PoolAssumption DEF Init, IInv, TypeOK, Injective, OwnersDistinct, Kept
  <1>2. IInv /\ [Next]_vars => IInv'
    <2> SUFFICES ASSUME IInv, [Next]_vars PROVE IInv'
      OBVIOUS
    <2>1. ASSUME NEW addr \in Addresses, Render(addr) PROVE IInv'
      BY <2>1, RenderKeeps
    <2>2. ASSUME NEW addr \in Addresses, Refuse(addr) PROVE IInv'
      BY <2>2, RefuseKeeps
    <2>3. CASE UNCHANGED vars
      BY <2>3 DEF vars, IInv, TypeOK, Injective, OwnersDistinct, Kept
    <2>4. QED
      BY <2>1, <2>2, <2>3 DEF Next
  <1>3. QED
    BY <1>1, <1>2, PTL DEF Spec

\* The state of the allocator has its types.
THEOREM PoolTypeOK == Spec => []TypeOK
  <1>1. IInv => TypeOK
    BY DEF IInv
  <1>2. QED
    BY <1>1, PoolInvariant, PTL

\* No documentation address ever stands for two addresses of a
\* configuration, and the used slots are the answers.
THEOREM PoolInjective == Spec => []Injective
  <1>1. IInv => Injective
    BY DEF IInv
  <1>2. QED
    BY <1>1, PoolInvariant, PTL

\* Among the nets the collapse warning does not name, the /24 structure and
\* the host octets of the configuration are those of the output.
THEOREM PoolKeepsStructure == Spec => []UncollapsedNetsKeepStructure
  <1>1. IInv => UncollapsedNetsKeepStructure
    <2> SUFFICES ASSUME IInv,
                        NEW a \in DOMAIN rendered, NEW b \in DOMAIN rendered,
                        a[1] \notin collapsed_sources, b[1] \notin collapsed_sources
                 PROVE  /\ rendered[a][1] = rendered[b][1] <=> a[1] = b[1]
                        /\ rendered[a][2] = a[2]
      BY DEF UncollapsedNetsKeepStructure
    <2>1. /\ subnet_map[a[1]] # 0 /\ rendered[a] = <<subnet_map[a[1]], a[2]>>
          /\ rendered[b] = <<subnet_map[b[1]], b[2]>>
      BY DEF IInv, Kept
    <2>2. a[1] \in SourceNets /\ b[1] \in SourceNets
      BY DEF IInv, TypeOK, Addresses
    <2>3. QED
      BY <2>1, <2>2 DEF IInv, OwnersDistinct
  <1>2. QED
    BY <1>1, PoolInvariant, PTL
===========================================================================
