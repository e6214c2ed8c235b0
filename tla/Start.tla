------------------------------- MODULE Start -------------------------------
(***************************************************************************)
(* From the configuration to the graph (config.c, main.c): constants and   *)
(* enums give numbers names, nodes are created and named, channels name    *)
(* the nodes and connectors they connect, and the nodes that read input    *)
(* subscribe to it.  The items of the configuration are taken as they come *)
(* to be looked at.                                                        *)
(*                                                                         *)
(* The name of a constant is the sequence of its parts: <<"x">> for x and  *)
(* <<"E", "m">> for E.m, member m of enum E.  Predicates are loaded behind *)
(* the enums; they are the subject of module Predicates.                   *)
(***************************************************************************)
EXTENDS GraphBuild, SequencesExt

CONSTANTS
  Code,              \* event codes: records of enum, prefix, name and value
  ConstantName,      \* names given in the section constants
  EnumName, MemberName,
  Setting,           \* what a field that wants a number is set to
  NodeName,
  Keys,              \* the names of the two fields of a channel
  InitialCapacity,   \* of the subscription list, 5 in the code
  MaxItems           \* bound on the items of a configuration

(* A channel names both of its fields from and to, or neither.             *)
ASSUME StartAssumption ==
  /\ Node \subseteq Nat /\ Channel \subseteq Nat /\ Null \notin Int
  /\ \A c \in Code : c.value \in Int
  /\ \A s \in Setting : s.number \in Int
  /\ \A k \in Keys : ("from" \in {k[1], k[2]}) = ("to" \in {k[1], k[2]})
  /\ InitialCapacity \in Nat /\ MaxItems \in Nat

VARIABLES
  phase,        \* what is being loaded or made; "run", "exit"
  items,        \* how many items have been read
  constants,    \* config->constants
  enum,         \* the enum being loaded, and prev_value
  members,      \* the members put into constants, and the numbers given
  nodes,        \* the name and the type of every node created
  named,        \* named_nodes
  channels,     \* the items of the channels made
  registered,   \* how many nodes have been asked to register
  subscribed,   \* state.wait_input
  capacity      \* its capacity

config == <<phase, items, constants, enum, members, nodes, named, channels,
            registered, subscribed, capacity>>
startVars == <<vars, config>>

(* hash_table_insert: the value of a key that is there is replaced.        *)
InsertedOnce(table, key, value) ==
  [k \in DOMAIN table \union {key} |-> IF k \in DOMAIN table THEN table[k] ELSE value]
Inserted(table, key, value) ==
  [k \in DOMAIN table \union {key} |-> IF k = key THEN value ELSE table[k]]

(* false, true, and populate_event_codes: every code has two names, and no *)
(* two codes share one.                                                    *)
NamesOf(c) == {<<c.prefix \o "_" \o c.name>>, <<c.enum, c.name>>}
Builtin ==
  [k \in {<<"false">>, <<"true">>} \union UNION {NamesOf(c) : c \in Code} |->
     IF \E c \in Code : k \in NamesOf(c)
       THEN (CHOOSE c \in Code : k \in NamesOf(c)).value
     ELSE IF k = <<"true">> THEN 1 ELSE 0]

StartInit ==
  /\ Init
  /\ phase = "constants" /\ items = 0
  /\ constants = Builtin
  /\ enum = [name |-> Null, previous |-> -1]
  /\ members = << >>
  /\ nodes = << >>
  /\ named = << >>
  /\ channels = << >>
  /\ registered = 0 /\ subscribed = << >>
  /\ capacity \in {InitialCapacity, 0}

-----------------------------------------------------------------------------
(* A setting has a form, "number", "string" or "other" (what is absent or   *)
(* of another type), and the number or the constant's name that it is.     *)
Resolves(s) ==
  s.form = "number" \/ (s.form = "string" /\ s.string \in DOMAIN constants)

(* resolve_constant_or                                                     *)
ResolvedOr(s, default) ==
  IF ~Resolves(s) THEN default
  ELSE IF s.form = "number" THEN s.number ELSE constants[s.string]

(* config_setting_get_int64                                                *)
Number(s) == IF s.form = "number" THEN s.number ELSE 0

Reads(section) ==
  /\ phase = section
  /\ items < MaxItems
  /\ items' = items + 1

(* load_constants_section.  Only the value of a group has to be a number.  *)
LoadConstant(n, s, isGroup) ==
  /\ Reads("constants")
  /\ isGroup => s.form = "number"
  /\ constants' = Inserted(constants, n, Number(s))
  /\ UNCHANGED <<vars, phase, enum, members, nodes, named, channels, registered,
                 subscribed, capacity>>

(* load_enums_section, load_single_enum                                    *)
EnumGoesOn(e) == [name |-> e, previous |-> enum.previous]
EnumStarts(e) == [name |-> e, previous |-> -1]
LoadEnum(e) ==
  /\ Reads("enums")
  /\ enum' = EnumStarts(e)
  /\ members' = Append(members, [name |-> << >>, given |-> -1])
  /\ UNCHANGED <<vars, phase, constants, nodes, named, channels, registered,
                 subscribed, capacity>>

LoadMember(m, s) ==
  LET value == ResolvedOr(s, enum.previous + 1)
  IN  /\ Reads("enums")
      /\ enum.name # Null
      /\ constants' = Inserted(constants, <<enum.name, m>>, value)
      /\ enum' = [enum EXCEPT !.previous = value]
      /\ members' = Append(members, [name |-> <<enum.name, m>>,
                                      given |-> ResolvedOr(s, Null)])
      /\ UNCHANGED <<vars, phase, nodes, named, channels, registered, subscribed,
                     capacity>>

Section == <<"constants", "enums", "nodes", "channels", "io">>

(* No more items in a section.  What led to the constants is forgotten.    *)
EndSection ==
  /\ \E k \in 1..4 : phase = Section[k] /\ phase' = Section[k + 1]
  /\ enum' = [name |-> Null, previous |-> -1]
  /\ members' = << >>
  /\ UNCHANGED <<vars, items, constants, nodes, named, channels, registered,
                 subscribed, capacity>>

-----------------------------------------------------------------------------
(* main                                                                    *)

Exits ==
  /\ phase' = "exit"
  /\ UNCHANGED <<vars, constants, enum, members, nodes, named, channels,
                 registered, subscribed, capacity>>

(* The i-th node, under its name if it has one.                            *)
CreateNode(name, type) ==
  LET i == Len(nodes) + 1
  IN  /\ Reads("nodes")
      /\ i \in Node
      /\ nodes' = Append(nodes, [name |-> name, type |-> type])
      /\ named' = IF name = Null THEN named ELSE Inserted(named, name, i)
      /\ UNCHANGED <<vars, phase, constants, enum, members, channels, registered,
                     subscribed, capacity>>

(* No type, an unknown one, or create returns NULL.                        *)
NoNode == Reads("nodes") /\ Exits

(* load_single_channel_config: the fields are taken in their order, unless *)
(* they are named "to" and "from" in this order.                           *)
FromTo(item) ==
  IF item[1].key = "to" /\ item[2].key = "from" THEN <<item[2], item[1]>> ELSE item

Index(e) == ResolvedOr(e.index, 0)

(* The indices are bounded by the connectors of the model.                 *)
MakeChannel(item) ==
  LET i == Len(channels) + 1
      from == FromTo(item)[1]
      to == FromTo(item)[2]
  IN  /\ Reads("channels")
      /\ i \in Channel
      /\ {Index(from), Index(to)} \subseteq Connector
      /\ {from.name, to.name} \subseteq DOMAIN named
      /\ Connect(i, named[from.name], Index(from), named[to.name], Index(to))
      /\ channels' = Append(channels, item)
      /\ UNCHANGED <<phase, constants, enum, members, nodes, named, registered,
                     subscribed, capacity>>

(* A name without a node, or graph_channel_list_ensure has no memory.      *)
NoChannel == Reads("channels") /\ Exits

(* io_subscription_list_add                                                *)
Grown(n) == n + (n \div 2) + 1
Register ==
  LET i == registered + 1
  IN  /\ phase = "io"
      /\ i \in DOMAIN nodes
      /\ registered' = i
      /\ IF nodes[i].type = "source"
           THEN /\ capacity' = IF Len(subscribed) >= capacity THEN Grown(capacity)
                               ELSE capacity
                /\ subscribed' = Append(subscribed, i)
           ELSE UNCHANGED <<capacity, subscribed>>
      /\ UNCHANGED <<vars, phase, items, constants, enum, members, nodes, named,
                     channels>>

(* io_subscription_list_extend has no memory.                              *)
NotRegistered ==
  /\ phase = "io" /\ registered + 1 \in DOMAIN nodes
  /\ nodes[registered + 1].type = "source" /\ Len(subscribed) >= capacity
  /\ UNCHANGED items
  /\ Exits

Run ==
  /\ phase = "io" /\ registered = Len(nodes)
  /\ phase' = "run"
  /\ UNCHANGED <<vars, items, constants, enum, members, nodes, named, channels,
                 registered, subscribed, capacity>>

Ends(k) == {[key |-> k, name |-> n, index |-> s] : n \in NodeName, s \in Setting}

StartNext ==
  \/ \E n \in ConstantName, s \in Setting, g \in BOOLEAN : LoadConstant(n, s, g)
  \/ \E e \in EnumName : LoadEnum(e)
  \/ \E m \in MemberName, s \in Setting : LoadMember(m, s)
  \/ EndSection
  \/ \E name \in NodeName \union {Null}, type \in {"source", "other"} :
       CreateNode(name, type)
  \/ NoNode \/ NoChannel
  \/ \E k \in Keys : \E item \in Ends(k[1]) \X Ends(k[2]) : MakeChannel(item)
  \/ Register \/ NotRegistered \/ Run

StartSpec == StartInit /\ [][StartNext]_startVars

-----------------------------------------------------------------------------
(* "enums create dot-separated name and automatically increments elements  *)
(* of the same enum": members that are given no number count on from the   *)
(* last one before that is, or from 0; and a name stands for what the last *)
(* member of that name has got.                                            *)
EnumsCount ==
  LET Again(j) == \E k \in DOMAIN members : k > j /\ members[k].name = members[j].name
      CountsFrom(i, j) ==
        i <= j /\ \A k \in i..j : (members[k].given = Null) = (k # i)
  IN  \A j \in DOMAIN members : members[j].name # << >> /\ ~Again(j) =>
        \E i \in DOMAIN members :
          /\ CountsFrom(i, j)
          /\ constants[members[j].name] = members[i].given + (j - i)

(* The end of a channel that its item names "from", or writes first if it  *)
(* names none; and the connector that the configuration means by an end,   *)
(* of the last node with the name.                                         *)
Written(item, key, default) ==
  IF \E e \in ToSet(item) : e.key = key THEN CHOOSE e \in ToSet(item) : e.key = key
  ELSE item[default]
From(c) == Written(channels[c], "from", 1)
To(c) == Written(channels[c], "to", 2)
LastNamed(name) == SelectLastInSeq(nodes, LAMBDA n : n.name = name)
Meant(e) == <<LastNamed(e.name), ResolvedOr(e.index, 0)>>

(* The graph is the one that is written down: a channel has the ends its   *)
(* item names, unless an item behind it names the same connector, and then *)
(* it has none there.  The nodes with input are asked in their order, each *)
(* once, and the subscription list has room for them.                      *)
AsConfigured ==
  LET Later(c) == {d \in DOMAIN channels : d > c}
  IN  /\ \A c \in DOMAIN channels :
           /\ start[c] = IF \E d \in Later(c) : Meant(From(d)) = Meant(From(c))
                         THEN Null ELSE Meant(From(c))[1]
           /\ end[c] = IF \E d \in Later(c) : Meant(To(d)) = Meant(To(c))
                       THEN Null ELSE Meant(To(c))[1]
      /\ Len(subscribed) <= capacity
      /\ ToSet(subscribed) = {i \in 1..registered : nodes[i].type = "source"}
      /\ \A j, k \in DOMAIN subscribed : j < k => subscribed[j] < subscribed[k]
=============================================================================
