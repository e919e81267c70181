------------------------------- MODULE Parser -------------------------------
(***************************************************************************)
(* What becomes of the answers of a node: the queries run on it            *)
(* (internal/vshard/cluster.go), the types the answer has on the wire, and *)
(* the parser that takes an answer as a whole or refuses it                *)
(* (internal/vshard/parser.go).                                            *)
(*                                                                         *)
(* An answer gives each field a kind, the type it has on the wire, "null"  *)
(* or "absent".  Numbers are kept where a property is about them: the      *)
(* distance of a follower from its master.  Of the answers of a router and *)
(* of an instance it is kept whether they were taken.                      *)
(***************************************************************************)
EXTENDS Integers, Sequences, FiniteSets, SequencesExt, TLC

CONSTANTS Half,         \* an int64 is below it: 2 ^ 63
          Id,           \* ids of the instances of the replica set
          LSN,          \* values of the master's own LSN, -1 before it has one
          Shard         \* replica sets a router can tell of

ASSUME ParserAssumption ==
  /\ Half \in Nat \ {0}
  /\ Id \subseteq Nat \ {0} /\ IsFiniteSet(Id)
  /\ LSN \subseteq -1 .. Half - 1

VARIABLES heard,        \* the last answer to the query for the topology
          topology,     \* the rows taken of it, or those of an earlier one
          routed,       \* the last answer of a router and the sets taken of it
          told          \* the last answer of an instance and whether it was taken

pvars == <<heard, topology, routed, told>>

-----------------------------------------------------------------------------
Kinds == {"int", "uint", "float", "string", "bool", "table", "null", "absent"}

Whole  == {"int", "uint"}

Number == {"float", "int", "uint"}

\* The kinds the parser accepts, for the answer of a router ...
RouterSchema ==
  [alerts |-> {"table"}, status |-> Whole, bucket |-> {"table"},
   available |-> Whole, replicasets |-> {"table"}, set |-> {"table"},
   master |-> {"table"}, uuid |-> {"string"}, uri |-> {"string"},
   master_status |-> {"string"}, network_timeout |-> Number]

RouterParent ==
  [available |-> "bucket", set |-> "replicasets", master |-> "set",
   uuid |-> "master", uri |-> "master", master_status |-> "master",
   network_timeout |-> "master"]

\* ... for what an instance tells of itself ...
InfoSchema ==
  [read_only |-> {"bool"}, vshard_fingerprint |-> Whole,
   storage |-> {"table", "absent"}, status |-> Whole, alerts |-> {"table"},
   replication |-> {"table"}, replication_status |-> {"string"},
   bucket |-> {"table"}, active |-> Whole]

InfoParent ==
  [status |-> "storage", alerts |-> "storage", replication |-> "storage",
   bucket |-> "storage", replication_status |-> "replication",
   active |-> "bucket"]

\* ... and for the row of an instance in what the master tells.
RowSchema ==
  [id |-> Whole, uuid |-> {"string"}, lsn |-> Whole,
   lsn_behind_master |-> Whole \cup {"absent"},
   upstream |-> {"table", "absent"}, peer |-> {"string"},
   status |-> {"string"}, idle |-> Number, lag |-> Number,
   message |-> {"string", "absent"},
   downstream |-> {"table", "absent"}, downstream_status |-> {"string"}]

RowParent ==
  [peer |-> "upstream", status |-> "upstream", idle |-> "upstream",
   lag |-> "upstream", message |-> "upstream",
   downstream_status |-> "downstream"]

(* An answer is accepted when every field that is looked at has a kind the *)
(* parser knows.  A nested field is looked at when the one above is there. *)
Accepts(schema, parent, answer) ==
  LET above(f) == IF f \in DOMAIN parent THEN {parent[f]} ELSE {}
      looked(f) == \A g \in above(f) : answer[g] = "table"
  IN  \A f \in DOMAIN schema : looked(f) => answer[f] \in schema[f]

-----------------------------------------------------------------------------
\* Mutant: the sign is lost.
GetInt64Unsigned(v) == v.bits

(* A number on the wire: one without a sign is sent as an unsigned integer *)
(* and any other as a signed one; getInt64 turns both into an int64.       *)
Sent(n) ==
  [kind |-> IF n < 0 THEN "int" ELSE "uint", bits |-> n % (2 * Half)]

GetInt64(v) == IF v.bits < Half THEN v.bits ELSE v.bits - 2 * Half

(* An instance as its master knows it: whether it reads from the master    *)
(* (with a clock, or none when it was cut off) and how far it has read,    *)
(* and whether the master reads from it, with the kind of its idle time.   *)
Node == [downstream : {"none", "stopped", "follow"}, read : LSN \cap Nat,
         upstream : {"absent", "float", "uint"}]

(* vshardBoxInfoQuery: the distance is only told of an instance that reads *)
(* from the master, and without a clock it has read nothing.               *)
LSNBehindMaster(node, lsn) ==
  CASE node.downstream = "none"    -> <<>>
    [] node.downstream = "stopped" -> <<Sent(lsn)>>
    [] OTHER                       -> <<Sent(lsn - node.read)>>

\* One field of an answer is not what it should be, or none.
Damages(schema) == {<<>>} \cup (DOMAIN schema) \X Kinds

Damaged(answer, d) == IF d = <<>> THEN answer ELSE [answer EXCEPT ![d[1]] = d[2]]

There(b, kind) == IF b THEN kind ELSE "absent"

Row(uuid, node, lsn, d) ==
  LET behind == LSNBehindMaster(node, lsn)
  IN  [uuid |-> uuid, behind |-> behind,
       kinds |-> Damaged(
         [id |-> "uint", uuid |-> "string", lsn |-> Sent(lsn).kind,
          lsn_behind_master |->
            IF behind = <<>> THEN "absent" ELSE behind[1].kind,
          upstream |-> There(node.upstream # "absent", "table"),
          peer |-> "string", status |-> "string", idle |-> node.upstream,
          lag |-> node.upstream, message |-> "absent",
          downstream |-> There(node.downstream # "none", "table"),
          downstream_status |-> "string"], d)]

LastOf(ids) == CHOOSE i \in ids : \A j \in ids : j <= i

Ordinary == [downstream |-> "follow", read |-> 0, upstream |-> "float"]

(* What the master sends: a row for each id, and nil for an id nobody has. *)
(* The row of the last one varies and may be damaged.                      *)
Sends(ids, node, lsn, d) ==
  [i \in 1 .. LastOf(ids) |->
     IF i \notin ids THEN <<>>
     ELSE IF i = LastOf(ids) THEN <<Row(i, node, lsn, d)>>
     ELSE <<Row(i, Ordinary, lsn, <<>>)>>]

Parsed(row) ==
  [uuid |-> row.uuid,
   lag |-> IF row.kinds.lsn_behind_master = "absent" THEN 0
           ELSE GetInt64(row.behind[1])]

\* Mutant: a row that cannot be parsed is left out.
ParseReplicationSkips(rows) ==
  LET good == {i \in DOMAIN rows :
                 /\ rows[i] # <<>>
                 /\ Accepts(RowSchema, RowParent, rows[i][1].kinds)}
  IN  <<[i \in good |-> Parsed(rows[i][1])]>>

(* ParseReplication: <<>> when the answer is refused, for any row of it.   *)
(* Gaps are ignored.  No distance is no lag.  The instances are kept under *)
(* their ids, in whose order the code appends them.                        *)
ParseReplication(rows) ==
  LET there == {i \in DOMAIN rows : rows[i] # <<>>}
  IN  IF \A i \in there : Accepts(RowSchema, RowParent, rows[i][1].kinds)
      THEN <<[i \in there |-> Parsed(rows[i][1])]>>
      ELSE <<>>

-----------------------------------------------------------------------------
Unheard == [ids |-> {}, taken |-> FALSE]

NotRouted == [shards |-> {}, damage |-> <<>>, taken |-> {}]

\* Before the first poll there is no answer that could be refused.
Untold == [damage |-> <<>>, taken |-> TRUE]

PInit ==
  /\ heard = Unheard /\ topology = <<>>
  /\ routed = NotRouted
  /\ told = Untold

(* The master's answer is taken as a whole, or the topology known before   *)
(* is kept.                                                                *)
DiscoverReplication(ids, node, lsn, d) ==
  LET parsed == ParseReplication(Sends(ids, node, lsn, d))
      taken  == parsed # <<>>
  IN  /\ heard' = [ids |-> ids, node |-> node, lsn |-> lsn, damage |-> d,
                   taken |-> taken]
      /\ topology' = IF taken THEN parsed[1] ELSE topology
      /\ UNCHANGED <<routed, told>>

InfoSent ==
  [read_only |-> "bool", vshard_fingerprint |-> "uint", storage |-> "table",
   status |-> "uint", alerts |-> "table", replication |-> "table",
   replication_status |-> "string", bucket |-> "table", active |-> "uint"]

(* ParseInstanceInfo: the answer of an instance is taken, or it counts as  *)
(* not polled.                                                             *)
DiscoverInstance(d) ==
  /\ told' = [damage |-> d,
              taken |-> Accepts(InfoSchema, InfoParent, Damaged(InfoSent, d))]
  /\ UNCHANGED <<heard, topology, routed>>

RouterSent ==
  [alerts |-> "table", status |-> "uint", bucket |-> "table",
   available |-> "uint", replicasets |-> "table", set |-> "table",
   master |-> "table", uuid |-> "string", uri |-> "string",
   master_status |-> "string", network_timeout |-> "float"]

(* ParseRouterInfo: one replica set without a master, or with one that     *)
(* cannot be parsed, refuses the answer and ends the call of Discover.     *)
ParseRouterInfo(shards, d) ==
  /\ routed' = [shards |-> shards, damage |-> d,
                taken |-> IF Accepts(RouterSchema, RouterParent,
                                     Damaged(RouterSent, d))
                          THEN shards ELSE {}]
  /\ UNCHANGED <<heard, topology, told>>

PNext ==
  \/ \E ids \in (SUBSET Id) \ {{}}, node \in Node, lsn \in LSN,
        d \in Damages(RowSchema) : DiscoverReplication(ids, node, lsn, d)
  \/ \E d \in Damages(InfoSchema) : DiscoverInstance(d)
  \/ \E shards \in SUBSET Shard, d \in Damages(RouterSchema) :
       ParseRouterInfo(shards, d)

PSpec == PInit /\ [][PNext]_pvars

-----------------------------------------------------------------------------
\* How far an instance is from its master, and 0 if the master does not know.
Distance(node, lsn) ==
  CASE node.downstream = "none"    -> 0
    [] node.downstream = "stopped" -> lsn
    [] OTHER                       -> lsn - node.read

(* What the elections compare is what the master told: the parsed lag of   *)
(* an instance is its own distance from the master, below zero as well,    *)
(* and zero when the master does not know of its reading.  (ParseReplica-  *)
(* tion in parser.go, vshardBoxInfoQuery in cluster.go.)                   *)
LagSurvives ==
  heard.taken /\ heard.damage = <<>> =>
    \A i \in heard.ids :
      LET node == IF i = LastOf(heard.ids) THEN heard.node ELSE Ordinary
      IN  topology[i].lag = Distance(node, heard.lsn)

(* The topology has exactly the instances of an answer: whatever becomes   *)
(* of one row none of the others is lost, and a gap, a whole number for an *)
(* idle time, an instance without upstream are no reason to refuse it.  So *)
(* with the replica sets of a router's answer, and with what an instance   *)
(* tells of itself.  (ParseReplication, ParseRouterInfo, ParseInstanceInfo *)
(* in parser.go.)                                                          *)
TopologyIsWhole ==
  /\ heard.taken => {topology[k].uuid : k \in DOMAIN topology} = heard.ids
  /\ heard.ids # {} /\ ~heard.taken => heard.damage # <<>>
  /\ routed.damage = <<>> => routed.taken = routed.shards
  /\ told.damage = <<>> => told.taken
=============================================================================
