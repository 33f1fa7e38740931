------------------------ MODULE NetworkPreflightProofs ------------------------
(***************************************************************************)
(* SubnetStaysOnLink for any finite set of addresses, any routes and any   *)
(* changes of the host.  One inspection is enough of an argument: that no  *)
(* other interface overlaps the subnet, that the default routes are longer *)
(* ways than the subnet's own, and that the interface has no gateway give  *)
(* the property of the table that was read; the invariant only carries it. *)
(***************************************************************************)
EXTENDS NetworkPreflight, FiniteSetTheorems, WellFoundedInduction, TLAPS

Inspectable == npRoutes \subseteq RouteRecord /\ npAddrs \subseteq OwnAddress

PreflightInv == /\ Inspectable
                /\ npStep \in {"host", "start", "offered", "serving", "refused"}
                /\ SubnetStaysOnLink

-----------------------------------------------------------------------------
LEMMA LeastNatural ==
  ASSUME NEW T \in SUBSET Nat, T # {}
  PROVE  \E x \in T : \A y \in T : x <= y
<1> DEFINE R == OpToRel(<, Nat)
<1>1. \E x \in T : \A y \in T : <<y, x>> \notin R
  BY NatLessThanWellFounded, WFMin
<1>2. \A x, y \in T : <<y, x>> \notin R => x <= y
  BY DEF OpToRel
<1> QED  BY <1>1, <1>2

LEMMA LeastNumber ==
  ASSUME NEW S, NEW f \in [S -> Nat], S # {}
  PROVE  \E x \in S : \A y \in S : f[x] <= f[y]
<1> DEFINE T == {f[x] : x \in S}
<1>1. T \in SUBSET Nat /\ T # {}
  OBVIOUS
<1>2. PICK n \in T : \A m \in T : n <= m
  BY <1>1, LeastNatural
<1> QED  BY <1>2

(* Networks are finite, and only the whole is as large as the whole.       *)
LEMMA NetworkSizes ==
  ASSUME NEW net \in SUBSET Address
  PROVE  /\ Cardinality(net) \in Nat /\ Cardinality(Address) \in Nat
         /\ Cardinality(Address) <= Cardinality(net) => IsDefault(net)
<1>1. IsFiniteSet(Address)
  BY NetworkAssumption
<1>2. /\ IsFiniteSet(net) /\ Cardinality(net) <= Cardinality(Address)
      /\ Cardinality(Address) = Cardinality(net) => Address = net
  BY <1>1, FS_Subset
<1>3. Cardinality(net) \in Nat /\ Cardinality(Address) \in Nat
  BY <1>1, <1>2, FS_CardinalityType
<1> QED  BY <1>2, <1>3 DEF IsDefault

LEMMA LongestIsOne ==
  ASSUME NEW nets \in SUBSET SUBSET Address, nets # {}
  PROVE  Longest(nets) \in nets
<1> DEFINE f == [n \in nets |-> Cardinality(n)]
<1>1. f \in [nets -> Nat]
  BY NetworkSizes
<1>2. \E n \in nets : \A m \in nets : f[n] <= f[m]
  BY <1>1, LeastNumber
<1>3. \E n \in nets : \A m \in nets : Cardinality(n) <= Cardinality(m)
  BY <1>2
<1> QED  BY <1>3 DEF Longest

(* Where any route matches, one is effective.                              *)
LEMMA EffectiveExists ==
  ASSUME NEW routes \in SUBSET RouteRecord, NEW a, NEW q \in routes, a \in q.net
  PROVE  Effective(routes, a) # {}
<1> DEFINE matching == {r \in routes : a \in r.net}
           longest == {r \in matching : \A p \in matching :
                          Cardinality(r.net) <= Cardinality(p.net)}
           size == [r \in matching |-> Cardinality(r.net)]
           metric == [r \in longest |-> r.metric]
<1>1. matching # {} /\ matching \subseteq RouteRecord
  OBVIOUS
<1>2. \A r \in RouteRecord : r.net \in SUBSET Address /\ r.metric \in Nat
  BY NetworkAssumption
<1>3. size \in [matching -> Nat]
  BY <1>1, <1>2, NetworkSizes
<1>4. PICK s \in matching : \A p \in matching : size[s] <= size[p]
  <2> HIDE DEF matching, size
  <2> QED  BY <1>1, <1>3, LeastNumber
<1>5. longest # {} /\ longest \subseteq RouteRecord
  BY <1>1, <1>4
<1>6. metric \in [longest -> Nat]
  BY <1>2, <1>5
<1>7. PICK t \in longest : \A p \in longest : metric[t] <= metric[p]
  <2> HIDE DEF longest, metric
  <2> QED  BY <1>5, <1>6, LeastNumber
<1>8. t \in Effective(routes, a)
  BY <1>7 DEF Effective
<1> QED  BY <1>8

(* What one accepted inspection says of the table it read.                 *)
LEMMA AcceptedIsIsolated ==
  ASSUME Inspectable, NEW asked, NEW s \in CurrentState(asked)
  PROVE  /\ s.addresses = npAddrs
         /\ \A a \in s.network \ s.addresses :
               /\ Effective(npRoutes, a) # {}
               /\ \A r \in Effective(npRoutes, a) : r.via = SelectedInterface /\ r.direct
         /\ \E a \in Address : \A r \in npRoutes : a \in r.net => r.via # SelectedInterface
<1>1. PICK address \in ChosenAddress(asked) :
         /\ Connected(address) # {}
         /\ s = [address |-> address, network |-> Longest(Connected(address)),
                 addresses |-> npAddrs]
  BY DEF CurrentState
<1>2. /\ Isolated /\ Conflicts(npRoutes, s.network, npAddrs) = {}
  BY DEF CurrentState
<1>3. s.addresses = npAddrs /\ s.network = Longest(Connected(address))
  BY <1>1
<1>4. npRoutes \in SUBSET RouteRecord /\ \A r \in npRoutes : r.net \in SUBSET Address
  BY NetworkAssumption DEF Inspectable
<1>5. Connected(address) \in SUBSET SUBSET Address
  BY <1>4 DEF Connected, OnSelected
<1>6. s.network \in Connected(address)
  BY <1>1, <1>3, <1>5, LongestIsOne
<1>7. PICK q \in npRoutes : q.net = s.network /\ ~IsDefault(q.net)
  BY <1>6 DEF Connected, OnSelected
<1>8. ASSUME NEW a \in s.network \ s.addresses
      PROVE  /\ Effective(npRoutes, a) # {}
             /\ \A r \in Effective(npRoutes, a) : r.via = SelectedInterface /\ r.direct
  <2>1. a \in q.net
    BY <1>7
  <2>2. Effective(npRoutes, a) # {}
    BY <1>4, <2>1, EffectiveExists
  <2>3. ASSUME NEW r \in Effective(npRoutes, a)
        PROVE  r.via = SelectedInterface /\ r.direct
    <3>1. /\ r \in npRoutes /\ a \in r.net
          /\ Cardinality(r.net) <= Cardinality(q.net)
      BY <2>1 DEF Effective
    <3>2. ~IsDefault(r.net)
      <4> SUFFICES ASSUME IsDefault(r.net) PROVE FALSE
        OBVIOUS
      <4>1. Cardinality(Address) <= Cardinality(q.net)
        BY <3>1 DEF IsDefault
      <4> QED  BY <1>4, <1>7, <4>1, NetworkSizes
    <3>3. \A b \in npAddrs : r.net # {b}
      BY <1>3, <3>1
    <3>4. a \in r.net \cap s.network
      BY <3>1
    <3>5. r.via = SelectedInterface
      BY <1>2, <3>1, <3>2, <3>3, <3>4 DEF Conflicts
    <3> QED  BY <1>2, <3>1, <3>5 DEF Isolated, OnSelected
  <2> QED  BY <2>2, <2>3
<1>9. \E a \in Address : \A r \in npRoutes : a \in r.net => r.via # SelectedInterface
  <2>1. UNION {r.net : r \in OnSelected} \subseteq Address
    BY <1>4 DEF OnSelected
  <2>2. PICK a \in Address : a \notin UNION {r.net : r \in OnSelected}
    BY <1>2, <2>1 DEF Isolated, IsDefault
  <2> QED  BY <2>2 DEF OnSelected
<1> QED  BY <1>3, <1>8, <1>9

-----------------------------------------------------------------------------
LEMMA PreflightStarts == PreflightInit => PreflightInv
  BY DEF PreflightInit, PreflightInv, Inspectable, SubnetStaysOnLink

LEMMA InspectKeeps ==
  ASSUME PreflightInv, NEW address, NEW client, Inspect(address, client)
  PROVE  PreflightInv'
<1> DEFINE accepted == {sc \in CurrentState(address) \X Address :
                          sc[2] \in Client(client, sc[1]) /\ ClientRouteValid(sc[1], sc[2])}
<1>1. Inspectable'
  BY DEF PreflightInv, Inspectable, Inspect
<1>2. CASE accepted = {}
  BY <1>1, <1>2 DEF Inspect, PreflightInv, SubnetStaysOnLink
<1>3. ASSUME NEW sc \in accepted,
             npStep' = "offered", npState' = sc[1], npClient' = sc[2], npSeen' = npRoutes
      PROVE  PreflightInv'
  <2>1. /\ sc[1] \in CurrentState(address)
        /\ sc[2] \in sc[1].network \ sc[1].addresses
    BY DEF Client
  <2>2. Inspectable
    BY DEF PreflightInv
  <2>3. /\ \A a \in sc[1].network \ sc[1].addresses :
              /\ Effective(npRoutes, a) # {}
              /\ \A r \in Effective(npRoutes, a) : r.via = SelectedInterface /\ r.direct
        /\ \E a \in Address : \A r \in npRoutes : a \in r.net => r.via # SelectedInterface
    BY <2>1, <2>2, AcceptedIsIsolated
  <2>4. SubnetStaysOnLink'
    BY <1>3, <2>1, <2>3 DEF SubnetStaysOnLink
  <2> QED  BY <1>1, <1>3, <2>4 DEF PreflightInv
<1> QED  BY <1>2, <1>3 DEF Inspect

LEMMA RevalidateKeeps == PreflightInv /\ Revalidate => PreflightInv'
<1> SUFFICES ASSUME PreflightInv, Revalidate PROVE PreflightInv'
  OBVIOUS
<1>1. Inspectable /\ Inspectable' /\ UNCHANGED <<npState, npClient>>
  BY DEF PreflightInv, Inspectable, Revalidate
<1>2. CASE npStep' = "refused"
  BY <1>1, <1>2 DEF PreflightInv, SubnetStaysOnLink
<1>3. CASE npStep' # "refused"
  <2>1. /\ npStep' = "serving" /\ npSeen' = npRoutes
        /\ \E s \in CurrentState(npState.address) : Unchanged(s)
    BY <1>3 DEF Revalidate
  <2>2. PICK s \in CurrentState(npState.address) : Unchanged(s)
    BY <2>1
  <2>3. /\ \A a \in s.network \ s.addresses :
              /\ Effective(npRoutes, a) # {}
              /\ \A r \in Effective(npRoutes, a) : r.via = SelectedInterface /\ r.direct
        /\ \E a \in Address : \A r \in npRoutes : a \in r.net => r.via # SelectedInterface
    BY <1>1, AcceptedIsIsolated
  <2>4. s.network = npState.network /\ s.addresses = npState.addresses
    BY <2>2 DEF Unchanged
  <2>5. npClient \in npState.network \ npState.addresses
    BY DEF PreflightInv, SubnetStaysOnLink, Revalidate
  <2>6. SubnetStaysOnLink'
    BY <1>1, <2>1, <2>3, <2>4, <2>5 DEF SubnetStaysOnLink
  <2> QED  BY <1>1, <2>1, <2>6 DEF PreflightInv
<1> QED  BY <1>2, <1>3

(* A host that comes or changes leaves what was inspected alone.           *)
LEMMA HostKeeps == PreflightInv /\ (HostIsGiven \/ HostChanges) => PreflightInv'
<1>1. ASSUME PreflightInv, HostIsGiven PROVE PreflightInv'
  <2>1. npStep' = "start" /\ Inspectable'
    BY <1>1 DEF HostIsGiven, kSubset, Inspectable
  <2> QED  BY <2>1 DEF PreflightInv, SubnetStaysOnLink
<1>2. ASSUME PreflightInv, HostChanges PROVE PreflightInv'
  <2>1. Inspectable'
    BY <1>2 DEF HostChanges, PreflightInv, Inspectable
  <2>2. UNCHANGED <<npStep, npClient, npState, npSeen>>
    BY <1>2 DEF HostChanges
  <2> QED  BY <1>2, <2>1, <2>2 DEF PreflightInv, SubnetStaysOnLink
<1> QED  BY <1>1, <1>2

LEMMA PreflightKept == PreflightInv /\ [PreflightNext]_npVars => PreflightInv'
<1>1. PreflightInv /\ UNCHANGED npVars => PreflightInv'
  BY DEF PreflightInv, Inspectable, SubnetStaysOnLink, npVars
<1> QED
  BY <1>1, InspectKeeps, RevalidateKeeps, HostKeeps DEF PreflightNext

(* Whatever the routes and addresses of the host and however they change,  *)
(* an accepted network is isolated: current_interface_state only looks for *)
(* overlaps and validate_client_route only at the client, but every other  *)
(* address of the ATA's subnet is on the link, too.                        *)
THEOREM SubnetIsOnLink == PreflightSpec => []SubnetStaysOnLink
<1>1. PreflightInv => SubnetStaysOnLink
  BY DEF PreflightInv
<1> QED  BY <1>1, PreflightStarts, PreflightKept, PTL DEF PreflightSpec

-----------------------------------------------------------------------------
(* What an inspection that was accepted found.                             *)
FoundInv == /\ npSeen \subseteq RouteRecord /\ npClient \in Address \cup {Unasked}
            /\ npState.network \subseteq Address /\ npState.addresses \subseteq OwnAddress
            /\ npChanges \in 0 .. MaxChanges

LEMMA FoundStarts == PreflightInit => FoundInv
  BY NetworkAssumption DEF PreflightInit, FoundInv, NoState

LEMMA FoundKept == PreflightInv /\ FoundInv /\ [PreflightNext]_npVars => FoundInv'
<1> SUFFICES ASSUME PreflightInv, FoundInv, [PreflightNext]_npVars PROVE FoundInv'
  OBVIOUS
<1>1. ASSUME NEW address, NEW client, Inspect(address, client) PROVE FoundInv'
  <2>1. CASE UNCHANGED <<npState, npClient, npSeen>>
    BY <1>1, <2>1 DEF Inspect, FoundInv
  <2>2. ASSUME NEW s \in CurrentState(address), NEW c \in Address,
               npState' = s, npClient' = c, npSeen' = npRoutes
        PROVE  FoundInv'
    <3>1. PICK a : /\ s = [address |-> a, network |-> Longest(Connected(a)), addresses |-> npAddrs]
                   /\ Connected(a) # {}
      BY DEF CurrentState
    <3>2. npRoutes \subseteq RouteRecord /\ npAddrs \subseteq OwnAddress
      BY DEF PreflightInv, Inspectable
    <3>3. Connected(a) \in SUBSET SUBSET Address
      BY <3>2, NetworkAssumption DEF Connected, OnSelected
    <3>4. Longest(Connected(a)) \subseteq Address
      BY <3>1, <3>3, LongestIsOne
    <3>5. npChanges' = npChanges
      BY <1>1 DEF Inspect
    <3> QED  BY <2>2, <3>1, <3>2, <3>4, <3>5 DEF FoundInv
  <2> QED  BY <1>1, <2>1, <2>2 DEF Inspect
<1>2. CASE Revalidate
  BY <1>2 DEF Revalidate, FoundInv, PreflightInv, Inspectable
<1>3. CASE HostIsGiven \/ UNCHANGED npVars
  BY <1>3 DEF HostIsGiven, FoundInv, npVars
<1>4. CASE HostChanges
  <2>1. /\ npChanges' = npChanges + 1 /\ npChanges < MaxChanges
        /\ UNCHANGED <<npClient, npState, npSeen>>
    BY <1>4 DEF HostChanges
  <2> QED  BY <2>1, NetworkAssumption DEF FoundInv
<1> QED  BY <1>1, <1>2, <1>3, <1>4 DEF PreflightNext

LEMMA PreflightMeans == PreflightInv /\ FoundInv => PreflightTypeOK
  BY DEF PreflightInv, FoundInv, Inspectable, PreflightTypeOK

(* Whatever the host's routes are, what an inspection finds and keeps is   *)
(* of the host: its network is one of addresses, its client an address.    *)
THEOREM PreflightTypeCorrect == PreflightSpec => []PreflightTypeOK
  BY PreflightStarts, PreflightKept, FoundStarts, FoundKept, PreflightMeans, PTL DEF PreflightSpec

===============================================================================
