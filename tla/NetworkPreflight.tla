---------------------------- MODULE NetworkPreflight ----------------------------
(***************************************************************************)
(* What ata_flash.py asks of the host's network: current_interface_state,  *)
(* choose_client_address and validate_client_route once before the run,    *)
(* revalidate_network again and again while it goes on, on a host whose    *)
(* routes and addresses change in between.                                 *)
(*                                                                         *)
(* A network is the set of its addresses; the whole set is the default     *)
(* route's, and the fewer addresses, the longer the prefix.  Records that  *)
(* cannot be parsed end the run, as a refusal does.                        *)
(***************************************************************************)
EXTENDS Naturals, FiniteSets, FiniteSetsExt

CONSTANTS
    Address,      \* the addresses there are: 0 .. 2^w - 1
    SelectedInterface,  \* --interface
    Loopback,     \* the interfaces called lo or lo0
    RouteRecord,  \* [net, via, direct, out, metric]: the routes that come and go
    OwnAddress,   \* the addresses the selected interface may have
    ClientHost,   \* DEFAULT_CLIENT_HOST
    Unasked,      \* None for --address and --client-address
    MaxRoutes,    \* bound: routes of the table at first
    MaxChanges    \* bound: changes of the host during a run

ASSUME NetworkAssumption ==
    /\ Address \in SUBSET Nat /\ IsFiniteSet(Address)
    /\ OwnAddress \subseteq Address
    /\ \A r \in RouteRecord : r.net \subseteq Address /\ r.metric \in Nat
    /\ MaxChanges \in Nat

VARIABLES
    npStep,     \* "host", "start", "offered", "serving", "refused"
    npRoutes,   \* the route table
    npAddrs,    \* the addresses of the selected interface
    npClient,   \* the address that is offered, or Unasked
    npState,    \* the InterfaceState of the preflight: [address, network, addresses]
    npSeen,     \* the route table of the last inspection that was accepted
    npChanges   \* changes of the host so far

npVars == <<npStep, npRoutes, npAddrs, npClient, npState, npSeen, npChanges>>

NoState == [address |-> Unasked, network |-> {}, addresses |-> {}]

PreflightInit == /\ npStep = "host" /\ npRoutes = {} /\ npAddrs = {} /\ npClient = Unasked
                 /\ npState = NoState /\ npSeen = {} /\ npChanges = 0

(* Any host.                                                               *)
HostIsGiven ==
    /\ npStep = "host" /\ npStep' = "start"
    /\ \E k \in 0 .. MaxRoutes : npRoutes' \in kSubset(k, RouteRecord)
    /\ npAddrs' \in SUBSET OwnAddress
    /\ UNCHANGED <<npClient, npState, npSeen, npChanges>>

-----------------------------------------------------------------------------
IsDefault(net) == net = Address
Longest(nets) == CHOOSE n \in nets : \A m \in nets : Cardinality(n) <= Cardinality(m)

(* Loopback routes are passed over whatever they lead to.                  *)
Conflicts_AnyLoopback(routes, net, own) ==
    {r \in routes : /\ ~IsDefault(r.net) /\ r.via # SelectedInterface
                    /\ r.via \notin Loopback
                    /\ r.net \cap net # {}}

(* route_conflicts: overlapping routes of other interfaces, but for the    *)
(* default routes and the host routes to the interface's own addresses.    *)
Conflicts(routes, net, own) ==
    {r \in routes : /\ ~IsDefault(r.net) /\ r.via # SelectedInterface
                    /\ ~(r.via \in Loopback /\ \E a \in own : r.net = {a})
                    /\ r.net \cap net # {}}

(* _interface_ipv4_addresses, and the choice among several.                *)
ChosenAddress(asked) ==
    IF asked # Unasked THEN npAddrs \cap {asked}
                       ELSE IF Cardinality(npAddrs) = 1 THEN npAddrs ELSE {}

OnSelected == {r \in npRoutes : r.via = SelectedInterface}
Connected(address) ==
    {r.net : r \in {q \in OnSelected : /\ q.direct /\ q.out \in npAddrs
                                       /\ ~IsDefault(q.net) /\ Cardinality(q.net) > 1
                                       /\ address \in q.net}}

(* collapse_addresses joins the networks of the interface: together they   *)
(* must not be a default route.                                            *)
Isolated == /\ \A r \in OnSelected : r.direct
            /\ ~IsDefault(UNION {r.net : r \in OnSelected})

(* current_interface_state: the state it returns, if it returns one.       *)
CurrentState(asked) ==
    {s \in {[address |-> a, network |-> Longest(Connected(a)), addresses |-> npAddrs] :
                a \in {b \in ChosenAddress(asked) : Connected(b) # {}}} :
        Isolated /\ Conflicts(npRoutes, s.network, npAddrs) = {}}

(* choose_client_address.                                                  *)
Client(value, state) ==
    LET candidate == IF value = Unasked THEN Min(state.network) + ClientHost ELSE value
    IN  {c \in state.network \ state.addresses :
            c = candidate /\ c # Min(state.network) /\ c # Max(state.network)}

(* The routes the host would send by: the longest prefix, then the lowest  *)
(* metric.                                                                 *)
Effective(routes, a) ==
    LET matching == {r \in routes : a \in r.net}
        longest == {r \in matching : \A q \in matching :
                        Cardinality(r.net) <= Cardinality(q.net)}
    IN  {r \in longest : \A q \in longest : r.metric <= q.metric}

(* validate_client_route.                                                  *)
ClientRouteValid(state, client) ==
    /\ Effective(npRoutes, client) # {}
    /\ \A r \in Effective(npRoutes, client) :
          r.via = SelectedInterface /\ r.direct /\ r.out \in state.addresses

-----------------------------------------------------------------------------
(* run_flash before it opens a socket, for these arguments.                *)
Inspect(address, client) ==
    /\ npStep = "start"
    /\ LET accepted == {sc \in CurrentState(address) \X Address :
                            sc[2] \in Client(client, sc[1]) /\ ClientRouteValid(sc[1], sc[2])}
       IN  \/ \E sc \in accepted : /\ npStep' = "offered" /\ npState' = sc[1]
                                   /\ npClient' = sc[2] /\ npSeen' = npRoutes
           \/ /\ accepted = {}
              /\ npStep' = "refused" /\ UNCHANGED <<npState, npClient, npSeen>>
    /\ UNCHANGED <<npRoutes, npAddrs, npChanges>>

(* revalidate_network asks for the address found before; another subnet    *)
(* or another set of addresses is a change.                                *)
Unchanged(s) == s.addresses = npState.addresses /\ s.network = npState.network

Revalidate ==
    /\ npStep \in {"offered", "serving"}
    /\ IF \E s \in CurrentState(npState.address) :
            Unchanged(s) /\ ClientRouteValid(s, npClient)
         THEN npStep' = "serving" /\ npSeen' = npRoutes
         ELSE npStep' = "refused" /\ UNCHANGED npSeen
    /\ UNCHANGED <<npRoutes, npAddrs, npClient, npState, npChanges>>

(* The host is reconfigured: a route comes or goes, or an address does.    *)
HostChanges ==
    /\ npStep \in {"offered", "serving"} /\ npChanges < MaxChanges
    /\ npChanges' = npChanges + 1
    /\ \/ /\ \E r \in RouteRecord : npRoutes' = (npRoutes \cup {r}) \ (npRoutes \cap {r})
          /\ UNCHANGED npAddrs
       \/ /\ \E a \in OwnAddress : npAddrs' = (npAddrs \cup {a}) \ (npAddrs \cap {a})
          /\ UNCHANGED npRoutes
    /\ UNCHANGED <<npStep, npClient, npState, npSeen>>

PreflightNext ==
    \/ HostIsGiven \/ Revalidate \/ HostChanges
    \/ \E address \in OwnAddress \cup {Unasked}, client \in Address \cup {Unasked} :
          Inspect(address, client)

PreflightSpec == PreflightInit /\ [][PreflightNext]_npVars

-----------------------------------------------------------------------------
PreflightTypeOK ==
    /\ npStep \in {"host", "start", "offered", "serving", "refused"}
    /\ npRoutes \subseteq RouteRecord /\ npSeen \subseteq RouteRecord
    /\ npAddrs \subseteq OwnAddress
    /\ npClient \in Address \cup {Unasked}
    /\ npState.network \subseteq Address /\ npState.addresses \subseteq OwnAddress
    /\ npChanges \in 0 .. MaxChanges

(* An accepted network is an isolated one, although only the client's      *)
(* route is looked up: whatever the ATA's subnet is asked for, other than  *)
(* the host itself, leaves through the selected interface without a        *)
(* gateway, and that interface does not carry everything; the client is    *)
(* still a host of the subnet it was offered in.                           *)
SubnetStaysOnLink ==
    npStep \in {"offered", "serving"} =>
        /\ \A a \in npState.network \ npState.addresses :
              /\ Effective(npSeen, a) # {}
              /\ \A r \in Effective(npSeen, a) : r.via = SelectedInterface /\ r.direct
        /\ \E a \in Address : \A r \in npSeen : a \in r.net => r.via # SelectedInterface
        /\ npClient \in npState.network \ npState.addresses
===============================================================================
