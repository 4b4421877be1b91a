--------------------------- MODULE DefaultInterface ---------------------------
(* A capture without -i: default_interface() lists the interfaces and takes    *)
(* the first that is up, and the socket is then opened on that name.  The host *)
(* goes on changing meanwhile: list_interfaces() takes the names and flags     *)
(* from one snapshot and asks for the index of each name later.                *)
EXTENDS SocketOpen

CONSTANTS Loopback,     \* the loopback interfaces
          Hosts,        \* the interfaces a host may start with
          MaxIndex,     \* bound on the indexes of interfaces
          MaxChanges    \* bound on the changes of the host

ASSUME ListAssumption ==
  /\ IsFiniteSet(Interfaces)
  /\ Loopback \subseteq Interfaces
  /\ MaxIndex \in Nat
  /\ MaxChanges \in Nat
  /\ Hosts \subseteq [Interfaces -> [index : 0 .. MaxIndex, up : BOOLEAN]]

VARIABLES host,       \* by name: index, 0 for no interface, and IFF_UP
          taken,      \* the host when the snapshot was taken (an auxiliary variable)
          entries,    \* the names of the snapshot not looked at yet
          infos,      \* InterfaceInfo by InterfaceInfo
          changes     \* how often the host has changed

listVars == <<taken, entries, infos>>
hostVars == <<host, changes>>
allVars == <<vars, listVars, hostVars>>

Present(h) == {n \in Interfaces : h[n].index # 0}

DefaultInit ==
  /\ Init
  /\ host \in Hosts
  /\ options.ifname \in Interfaces => options.ifname \in Present(host)
  /\ taken = host
  /\ entries = <<>>
  /\ infos = <<>>
  /\ changes = 0

--------------------------------------------------------------------------------
(* list_interfaces().                                                          *)

(* getifaddrs(): an entry for every interface and one more for its addresses,  *)
(* in any order.                                                               *)
Snapshot ==
  /\ at = "list"
  /\ at' = "walk"
  /\ taken' = host
  /\ \E links \in SetToSeqs(Present(host)), addressed \in SUBSET Present(host) :
       \E addresses \in SetToSeqs(addressed) : entries' = links \o addresses
  /\ UNCHANGED <<options, kernel_filter_attached, seen, mapped, socket, packets, flags,
                 infos, hostVars>>

Listed(n) == \E i \in 1 .. Len(infos) : infos[i].name = n

Info(n) ==
  [name |-> n, ifindex |-> host[n].index, is_up |-> taken[n].up /\ n \notin Loopback]

(* A slip: a name is taken as often as it has entries.                         *)
WalkTwice ==
  /\ at = "walk"
  /\ entries # <<>>
  /\ infos' = Append(infos, Info(Head(entries)))
  /\ entries' = Tail(entries)
  /\ UNCHANGED <<vars, taken, hostVars>>

(* A name is taken once, with the index if_nametoindex() gives for it now.     *)
Walk ==
  /\ at = "walk"
  /\ entries # <<>>
  /\ infos' = IF Listed(Head(entries)) THEN infos ELSE Append(infos, Info(Head(entries)))
  /\ entries' = Tail(entries)
  /\ UNCHANGED <<vars, taken, hostVars>>

(* default_interface(): the first that is up once they are sorted by index; the *)
(* list is forgotten.                                                          *)
Up == {i \in 1 .. Len(infos) : infos[i].is_up}

ChooseAs(before(_, _)) ==
  /\ at = "walk"
  /\ entries = <<>>
  /\ IF Up = {} THEN at' = "failed" /\ UNCHANGED options
     ELSE LET i == CHOOSE i \in Up : \A j \in Up \ {i} : before(i, j)
          IN  /\ options' = [options EXCEPT !.ifname = infos[i].name]
              /\ at' = First(options')
  /\ taken' = host
  /\ infos' = <<>>
  /\ UNCHANGED <<kernel_filter_attached, seen, mapped, socket, packets, flags,
                 entries, hostVars>>

(* A slip: the interfaces are not sorted.                                      *)
ChooseUnsorted == ChooseAs(LAMBDA i, j : i < j)

Choose ==
  ChooseAs(LAMBDA i, j : infos[i].ifindex < infos[j].ifindex
                           \/ (infos[i].ifindex = infos[j].ifindex /\ i < j))

(* Opening looks the name up again and fails if it has gone.                   *)
Open ==
  /\ Next
  /\ at = "lookup" /\ at' # "failed" => host[options.ifname].index # 0
  /\ UNCHANGED <<listVars, hostVars>>

--------------------------------------------------------------------------------
(* The host, until the name has been looked up.                                *)

Change ==
  /\ at \in {"list", "walk", "lookup"}
  /\ changes < MaxChanges
  /\ changes' = changes + 1
  /\ \E n \in Interfaces :
       \/ /\ host[n].index # 0
          /\ host' = [host EXCEPT ![n].index = 0]
       \/ /\ host[n].index = 0
          /\ \E k \in 1 .. MaxIndex \ {host[m].index : m \in Interfaces} :
               host' = [host EXCEPT ![n].index = k]
       \/ /\ host[n].index # 0
          /\ host' = [host EXCEPT ![n].up = ~@]
  /\ UNCHANGED <<vars, listVars>>

DefaultNext == Snapshot \/ Walk \/ Choose \/ Open \/ Change

DefaultSpec == DefaultInit /\ [][DefaultNext]_allVars

--------------------------------------------------------------------------------
(* The interfaces of the snapshot a capture may choose.                        *)
Eligible == {n \in Present(taken) : taken[n].up /\ n \notin Loopback}

(* Those whose index was still that of the snapshot when it was asked for.     *)
Steady ==
  {n \in Present(taken) :
    \E i \in 1 .. Len(infos) : infos[i].name = n /\ infos[i].ifindex = taken[n].index}

(* The interface chosen was up and not a loopback, all such ones were looked   *)
(* at, and no other had a lower index, among those that did not come or go     *)
(* while they were listed.                                                     *)
DefaultIsLowest ==
  [][options'.ifname # options.ifname =>
       /\ options'.ifname \in Eligible
       /\ \A n \in Eligible : Listed(n)
       /\ options'.ifname \in Steady =>
            \A n \in Eligible \cap Steady : taken[options'.ifname].index <= taken[n].index]_allVars

--------------------------------------------------------------------------------
(* The inductive invariant behind it: what the walk has made of the snapshot.  *)

HostType == [Interfaces -> [index : 0 .. MaxIndex, up : BOOLEAN]]
InfoType == [name : Interfaces, ifindex : 0 .. MaxIndex, is_up : BOOLEAN]

ListTypes ==
  /\ options \in OptionType
  /\ host \in HostType
  /\ taken \in HostType
  /\ entries \in Seq(Present(taken))
  /\ infos \in Seq(InfoType)

(* The list is true to the snapshot and names no interface twice.              *)
InfosTrue ==
  \A i \in 1 .. Len(infos) :
    /\ infos[i].name \in Present(taken)
    /\ infos[i].is_up = (taken[infos[i].name].up /\ infos[i].name \notin Loopback)
    /\ \A j \in 1 .. Len(infos) : infos[j].name = infos[i].name => j = i

(* The list is empty before the walk; while it goes on an interface of the     *)
(* snapshot is in the list or still to come.                                   *)
NoneLost ==
  /\ at = "list" => infos = <<>>
  /\ at = "walk" =>
       \A n \in Present(taken) : Listed(n) \/ \E i \in 1 .. Len(entries) : entries[i] = n

ListInv == ListTypes /\ InfosTrue /\ NoneLost
================================================================================
