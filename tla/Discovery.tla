------------------------------ MODULE Discovery ------------------------------
(***************************************************************************)
(* POST /discovery (discovery.py): parse what to scan, probe the first     *)
(* addresses of it at the same time, with a ping and with SNMP, and answer *)
(* with those that have answered.                                          *)
(*                                                                         *)
(* An address is a version and a number.  ipaddress.ip_address of a number *)
(* is an IPv4 address as far as IPv4 goes and an IPv6 address from there   *)
(* on; addresses of two versions do not compare (TypeError).               *)
(***************************************************************************)
EXTENDS Integers, FiniteSets

CONSTANTS
  Top4,    \* the last IPv4 address (2^32 - 1)
  Top6,    \* the last IPv6 address
  Limit    \* the addresses scanned at most (256)

VARIABLES
  network,   \* of the request
  device,    \* the address of a device
  answers,   \* which of ping and SNMP it answers
  scanned,   \* the addresses that are probed
  found,     \* the devices that have answered
  stage      \* how far the request is

vars == <<network, device, answers, scanned, found, stage>>

Top(version) == IF version = 4 THEN Top4 ELSE Top6

Address == {a \in [version : {4, 6}, number : 0 .. Top6] : a.number <= Top(a.version)}

\* A network in CIDR notation, of which a single address is one of size 1.
Network ==
  {n \in [version : {4, 6}, base : 0 .. Top6, size : {1, 2, 4, 8}] :
     n.base % n.size = 0 /\ n.base + n.size - 1 <= Top(n.version)}

AddressRange == [start : Address, end : Address]

Init ==
  /\ network \in Network \union AddressRange
  /\ device \in Address
  /\ answers \in SUBSET {"ping", "snmp"}
  /\ scanned = {}
  /\ found = {}
  /\ stage = "parsing"

Between(version, first, last) ==
  {a \in Address : a.version = version /\ a.number \in first .. last}

\* The hosts of a network whatever its size.
InnerHosts(n) == Between(n.version, n.base + 1, n.base + n.size - 2)

\* net.hosts(): neither the network address nor, for IPv4, the broadcast address,
\* but all addresses if there are one or two.
Hosts(n) ==
  IF n.size <= 2 THEN Between(n.version, n.base, n.base + n.size - 1)
  ELSE Between(n.version, n.base + 1, n.base + n.size - (IF n.version = 4 THEN 2 ELSE 1))

\* ip_address(number).
AddressOf(number) == [version |-> IF number <= Top4 THEN 4 ELSE 6, number |-> number]

\* Every address after the start is made of a number, one beyond the end too.
\* One of another version, or of none, raises, and nothing is scanned.
Raises(r) ==
  \/ r.start.version # r.end.version
  \/ r.start.number <= r.end.number
     /\ \E n \in r.start.number + 1 .. r.end.number + 1 :
          AddressOf(n).version # r.end.version \/ n > Top6

\* The walk without the address it ends at.
Walk(r) ==
  IF Raises(r) THEN {} ELSE Between(r.end.version, r.start.number, r.end.number - 1)

Range(r) ==
  IF Raises(r) THEN {} ELSE Between(r.end.version, r.start.number, r.end.number)

\* The scan without its limit.
AllOf(addresses) == addresses

FirstOf(addresses) ==
  {a \in addresses : Cardinality({b \in addresses : b.number < a.number}) < Limit}

Parse ==
  /\ stage = "parsing"
  /\ scanned' = FirstOf(IF network \in Network THEN Hosts(network) ELSE Range(network))
  /\ stage' = IF scanned' = {} THEN "answered" ELSE "probing"
  /\ UNCHANGED <<network, device, answers, found>>

\* The probes of gather: an answer of either kind is enough.
Probe ==
  /\ stage = "probing"
  /\ found' = IF answers # {} THEN scanned \intersect {device} ELSE {}
  /\ stage' = "answered"
  /\ UNCHANGED <<network, device, answers, scanned>>

Next == Parse \/ Probe

Spec == Init /\ [][Next]_vars

-----------------------------------------------------------------------------
(***************************************************************************)
(* Properties.                                                             *)
(***************************************************************************)

TypeOK ==
  /\ network \in Network \union AddressRange
  /\ device \in Address
  /\ answers \subseteq {"ping", "snmp"}
  /\ scanned \subseteq Address /\ Cardinality(scanned) <= Limit
  /\ found \subseteq scanned
  /\ stage \in {"parsing", "probing", "answered"}

\* The addresses that can carry a device: of a network all but those reserved,
\* of a range all from its start to its end.
Wanted ==
  IF network \in Network
  THEN {a \in Address :
          /\ a.version = network.version
          /\ a.number - network.base \in 0 .. network.size - 1
          /\ network.size > 2 =>
               /\ a.number # network.base
               /\ a.version = 4 => a.number # network.base + network.size - 1}
  ELSE {a \in Address :
          /\ a.version = network.start.version /\ a.version = network.end.version
          /\ network.start.number <= a.number /\ a.number <= network.end.number}

\* A range up to the last address of its version, or of IPv6 addresses as low as
\* those of IPv4, comes back empty.
Unwalkable ==
  /\ network \in AddressRange
  /\ \/ network.end.number = Top(network.end.version)
     \/ network.end.version = 6 /\ network.start.number < Top4

\* A device that answers is found if and only if it is among the first Limit
\* addresses of what was asked for, unless the walk cannot get there.
DiscoveryIsExact ==
  stage = "answered" /\ ~ Unwalkable =>
    (device \in found <=>
       /\ answers # {} /\ device \in Wanted
       /\ Cardinality({a \in Wanted : a.number < device.number}) < Limit)
=============================================================================
