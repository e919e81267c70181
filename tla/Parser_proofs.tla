--------------------------- MODULE Parser_proofs ---------------------------
(***************************************************************************)
(* The answers of nodes, for integers of any width, any ids and any field  *)
(* that is not what it should be: what is taken is taken as a whole and    *)
(* the numbers are those that were told.                                   *)
(***************************************************************************)
EXTENDS Parser, FiniteSetTheorems, WellFoundedInduction, TLAPS

-----------------------------------------------------------------------------
\* A finite set of numbers has a largest one.
LEMMA LargestId ==
  ASSUME NEW T \in SUBSET Nat, T # {}, IsFiniteSet(T)
  PROVE  \E x \in T : \A y \in T : y <= x
<1> DEFINE Largest(R) == \E x \in R : \A y \in R : y <= x
           Without == {n \in Nat : \E R \in SUBSET Nat :
                         /\ R # {} /\ IsFiniteSet(R) /\ Cardinality(R) = n
                         /\ ~Largest(R)}
<1>1. Without = {}
  <2> SUFFICES ASSUME Without # {} PROVE FALSE
    OBVIOUS
  <2>1. PICK n \in Without : \A m \in Without : <<m, n>> \notin OpToRel(<, Nat)
    BY NatLessThanWellFounded, WFMin
  <2>2. PICK R \in SUBSET Nat : /\ R # {} /\ IsFiniteSet(R)
                                /\ Cardinality(R) = n /\ ~Largest(R)
    BY <2>1
  <2>3. PICK x \in R : TRUE
    BY <2>2
  <2> DEFINE Q == R \ {x}
  <2>4. /\ Q \in SUBSET Nat /\ R = Q \cup {x}
        /\ IsFiniteSet(Q) /\ Cardinality(Q) = n - 1
    BY <2>2, <2>3, FS_RemoveElement
  <2> HIDE DEF Q
  <2>5. n \in Nat /\ n - 1 \in Nat /\ n - 1 < n
    <3>1. n \in Nat
      BY <2>1
    <3>2. Cardinality(Q) \in Nat
      BY <2>4, FS_CardinalityType
    <3> QED
      BY <2>4, <3>1, <3>2
  <2>6. n - 1 \notin Without
    <3> HIDE DEF Without
    <3> QED
      BY <2>1, <2>5 DEF OpToRel
  <2>7. Q = {} \/ Largest(Q)
    BY <2>4, <2>5, <2>6
  <2>8. Q # {}
    BY <2>2, <2>3, <2>4
  <2>9. PICK y \in Q : \A z \in Q : z <= y
    BY <2>7, <2>8
  <2>10. x \in Nat /\ y \in Nat /\ \A z \in Q : z \in Nat
    BY <2>2, <2>3, <2>4
  <2>11. IF x <= y THEN \A z \in R : z <= y ELSE \A z \in R : z <= x
    BY <2>4, <2>9, <2>10
  <2> QED
    BY <2>2, <2>3, <2>4, <2>9, <2>11
<1>2. Cardinality(T) \in Nat
  BY FS_CardinalityType
<1> QED
  BY <1>1, <1>2

\* The last of the ids that exist.
LEMMA LastExists ==
  ASSUME NEW ids \in SUBSET Id, ids # {}
  PROVE  LastOf(ids) \in ids /\ LastOf(ids) \in Nat /\ ids \subseteq 1..LastOf(ids)
<1>1. ids \in SUBSET Nat /\ IsFiniteSet(ids)
  BY ParserAssumption, FS_Subset
<1>2. \E x \in ids : \A y \in ids : y <= x
  BY <1>1, LargestId
<1>3. LastOf(ids) \in ids /\ \A y \in ids : y <= LastOf(ids)
  BY <1>2 DEF LastOf
<1>4. \A y \in ids : y \in Nat /\ 1 <= y
  BY ParserAssumption
<1> QED
  BY <1>3, <1>4

\* What an int64 holds comes back from the wire.
LEMMA Conversion ==
  ASSUME NEW n \in Int, -Half <= n, n < Half
  PROVE  GetInt64(Sent(n)) = n
<1>1. Half \in Nat \ {0}
  BY ParserAssumption
<1>2. CASE n >= 0
  <2>1. n % (2 * Half) = n
    BY <1>1, <1>2
  <2> QED
    BY <1>1, <1>2, <2>1 DEF GetInt64, Sent
<1>3. CASE n < 0
  <2>1. n % (2 * Half) = n + 2 * Half
    BY <1>1, <1>3
  <2> QED
    BY <1>1, <1>3, <2>1 DEF GetInt64, Sent
<1> QED
  BY <1>2, <1>3

-----------------------------------------------------------------------------
\* What the rows of the other instances hold.
LEMMA OrdinaryNode ==
  ASSUME NEW lsn \in LSN
  PROVE  /\ Ordinary.downstream = "follow" /\ Ordinary.read = 0
         /\ Ordinary.upstream = "float"
         /\ lsn \in Int /\ -1 <= lsn /\ lsn < Half
BY ParserAssumption DEF Ordinary

(* The row of an instance whose fields are what they should be is parsed,  *)
(* and its lag is its distance.                                            *)
LEMMA RowParsed ==
  ASSUME NEW i, NEW node, node.downstream \in {"none", "stopped", "follow"},
         node.read \in 0..(Half - 1), node.upstream \in {"absent", "float", "uint"},
         NEW lsn \in LSN
  PROVE  /\ Accepts(RowSchema, RowParent, Row(i, node, lsn, <<>>).kinds)
         /\ Parsed(Row(i, node, lsn, <<>>)).lag = Distance(node, lsn)
<1> DEFINE row == Row(i, node, lsn, <<>>)
           behind == LSNBehindMaster(node, lsn)
           k == row.kinds
<1>1. Half \in Nat \ {0} /\ lsn \in Int /\ -1 <= lsn /\ lsn < Half
  BY ParserAssumption, OrdinaryNode
<1>2. /\ row.behind = behind
      /\ k = [id |-> "uint", uuid |-> "string", lsn |-> Sent(lsn).kind,
              lsn_behind_master |->
                IF behind = <<>> THEN "absent" ELSE behind[1].kind,
              upstream |-> There(node.upstream # "absent", "table"),
              peer |-> "string", status |-> "string", idle |-> node.upstream,
              lag |-> node.upstream, message |-> "absent",
              downstream |-> There(node.downstream # "none", "table"),
              downstream_status |-> "string"]
  BY DEF Row, Damaged
<1> DEFINE Told == /\ k.lsn_behind_master \in {"int", "uint", "absent"}
                   /\ Parsed(row).lag = Distance(node, lsn)
<1>3. ASSUME node.downstream = "none" PROVE Told
  <2>1. behind = <<>> /\ Distance(node, lsn) = 0
    BY <1>3 DEF LSNBehindMaster, Distance
  <2> HIDE DEF behind, row
  <2>2. k.lsn_behind_master = "absent"
    BY <1>2, <2>1
  <2> QED
    BY <2>1, <2>2 DEF Parsed
<1>4. ASSUME node.downstream # "none" PROVE Told
  <2> DEFINE n == IF node.downstream = "stopped" THEN lsn ELSE lsn - node.read
  <2>1. behind = <<Sent(n)>> /\ Distance(node, lsn) = n
    BY <1>4 DEF LSNBehindMaster, Distance
  <2>2. n \in Int /\ -Half <= n /\ n < Half
    BY <1>1
  <2> HIDE DEF n, behind, row
  <2>3. behind # <<>> /\ behind[1] = Sent(n)
    BY <2>1
  <2>4. Sent(n).kind \in {"int", "uint"}
    BY DEF Sent
  <2>5. k.lsn_behind_master = Sent(n).kind
    BY <1>2, <2>3
  <2>6. row.behind[1] = Sent(n)
    BY <1>2, <2>3
  <2>7. GetInt64(Sent(n)) = n
    BY <2>2, Conversion
  <2> QED
    BY <2>1, <2>4, <2>5, <2>6, <2>7 DEF Parsed
<1>5. Told
  BY <1>3, <1>4
<1> HIDE DEF row, behind
<1>6. /\ k.id \in Whole /\ k.uuid = "string" /\ k.lsn \in Whole
      /\ k.lsn_behind_master \in Whole \cup {"absent"}
      /\ k.upstream \in {"table", "absent"}
      /\ k.peer = "string" /\ k.status = "string"
      /\ k.upstream = "table" => k.idle \in Number /\ k.lag \in Number
      /\ k.message = "absent" /\ k.downstream \in {"table", "absent"}
      /\ k.downstream_status = "string"
  BY <1>2, <1>5 DEF Sent, There, Whole, Number
<1>7. Accepts(RowSchema, RowParent, k)
  BY <1>6 DEF Accepts, RowSchema, RowParent
<1> QED
  BY <1>5, <1>7 DEF row
\* What the master sends: the rows of the ids that exist, each under its id.
LEMMA RowsSent ==
  ASSUME NEW ids \in SUBSET Id, ids # {}, NEW node, NEW lsn, NEW d
  PROVE  LET rows == Sends(ids, node, lsn, d)
         IN  /\ {i \in DOMAIN rows : rows[i] # <<>>} = ids
             /\ \A i \in ids :
                  rows[i][1] = IF i = LastOf(ids) THEN Row(i, node, lsn, d)
                               ELSE Row(i, Ordinary, lsn, <<>>)
<1> DEFINE rows == Sends(ids, node, lsn, d)
           one(i) == IF i = LastOf(ids) THEN Row(i, node, lsn, d)
                     ELSE Row(i, Ordinary, lsn, <<>>)
<1>1. /\ DOMAIN rows = 1..LastOf(ids)
      /\ \A i \in 1..LastOf(ids) :
           rows[i] = IF i \notin ids THEN <<>> ELSE <<one(i)>>
  BY DEF Sends
<1>2. ids \subseteq 1..LastOf(ids)
  BY LastExists
<1> HIDE DEF rows, one
<1>3. \A i \in ids : rows[i] # <<>> /\ rows[i][1] = one(i)
  BY <1>1, <1>2
<1>4. {i \in DOMAIN rows : rows[i] # <<>>} = ids
  BY <1>1, <1>2, <1>3
<1> QED
  BY <1>3, <1>4 DEF rows, one

(* What is taken of it: the instances of all ids, each with its uuid, and  *)
(* nothing is refused unless a field was not what it should be.            *)
LEMMA AnswerTaken ==
  ASSUME NEW ids \in SUBSET Id, ids # {}, NEW node \in Node, NEW lsn \in LSN,
         NEW d
  PROVE  LET parsed == ParseReplication(Sends(ids, node, lsn, d))
             row(i) == IF i = LastOf(ids) THEN Row(i, node, lsn, d)
                       ELSE Row(i, Ordinary, lsn, <<>>)
         IN  /\ d = <<>> => parsed # <<>>
             /\ parsed # <<>> => /\ DOMAIN parsed[1] = ids
                                 /\ \A i \in ids : parsed[1][i] = Parsed(row(i))
<1> DEFINE rows == Sends(ids, node, lsn, d)
           there == {i \in DOMAIN rows : rows[i] # <<>>}
           row(i) == IF i = LastOf(ids) THEN Row(i, node, lsn, d)
                     ELSE Row(i, Ordinary, lsn, <<>>)
           parsed == ParseReplication(rows)
           good == \A i \in there : Accepts(RowSchema, RowParent, rows[i][1].kinds)
<1>1. there = ids /\ \A i \in ids : rows[i][1] = row(i)
  BY RowsSent
<1>2. parsed = IF good THEN <<[i \in there |-> Parsed(rows[i][1])]>> ELSE <<>>
  BY DEF ParseReplication
<1>3. ASSUME d = <<>> PROVE good
  <2>1. /\ node.downstream \in {"none", "stopped", "follow"}
        /\ node.read \in 0..(Half - 1)
        /\ node.upstream \in {"absent", "float", "uint"}
    BY ParserAssumption DEF Node
  <2>2. /\ Ordinary.downstream \in {"none", "stopped", "follow"}
        /\ Ordinary.read \in 0..(Half - 1)
        /\ Ordinary.upstream \in {"absent", "float", "uint"}
    BY ParserAssumption DEF Ordinary
  <2>3. \A i \in ids : Accepts(RowSchema, RowParent, row(i).kinds)
    BY <1>3, <2>1, <2>2, RowParsed
  <2> HIDE DEF rows, there, row
  <2> QED
    BY <1>1, <2>3
<1> HIDE DEF rows, there, row, parsed, good
<1>4. ASSUME good
      PROVE  parsed # <<>> /\ parsed[1] = [i \in ids |-> Parsed(row(i))]
  <2>1. parsed = <<[i \in ids |-> Parsed(row(i))]>>
    BY <1>1, <1>2, <1>4
  <2> QED
    BY <2>1
<1>5. parsed # <<>> => good
  BY <1>2
<1>6. d = <<>> => parsed # <<>>
  BY <1>3, <1>4
<1>7. parsed # <<>> => /\ DOMAIN parsed[1] = ids
                       /\ \A i \in ids : parsed[1][i] = Parsed(row(i))
  BY <1>4, <1>5
<1> QED
  BY <1>6, <1>7 DEF parsed, row, rows

-----------------------------------------------------------------------------
(* The answer for a router whose fields are what they should be is taken.  *)
LEMMA RouterAccepted == Accepts(RouterSchema, RouterParent, RouterSent)
<1> DEFINE k == RouterSent
<1>1. /\ k.alerts = "table" /\ k.status \in Whole /\ k.bucket = "table"
      /\ k.available \in Whole /\ k.replicasets = "table" /\ k.set = "table"
      /\ k.master = "table" /\ k.uuid = "string" /\ k.uri = "string"
      /\ k.master_status = "string" /\ k.network_timeout \in Number
  BY DEF RouterSent, Whole, Number
<1> HIDE DEF k
<1>2. Accepts(RouterSchema, RouterParent, k)
  BY <1>1 DEF Accepts, RouterSchema, RouterParent
<1> QED
  BY <1>2 DEF k

(* So is the answer of an instance.                                        *)
LEMMA InfoAccepted == Accepts(InfoSchema, InfoParent, InfoSent)
<1> DEFINE k == InfoSent
<1>1. /\ k.read_only = "bool" /\ k.vshard_fingerprint \in Whole
      /\ k.storage = "table" /\ k.status \in Whole /\ k.alerts = "table"
      /\ k.replication = "table" /\ k.replication_status = "string"
      /\ k.bucket = "table" /\ k.active \in Whole
  BY DEF InfoSent, Whole
<1> HIDE DEF k
<1>2. Accepts(InfoSchema, InfoParent, k)
  BY <1>1 DEF Accepts, InfoSchema, InfoParent
<1> QED
  BY <1>2 DEF k

(* Whatever becomes of one row, no instance and no replica set of an       *)
(* answer is lost, and no answer is refused unless a field was not what it *)
(* should be (ParseReplication, ParseRouterInfo, ParseInstanceInfo).       *)
THEOREM TopologyIsWholeHolds == PSpec => []TopologyIsWhole
<1>1. PInit => TopologyIsWhole
  BY DEF PInit, Unheard, NotRouted, Untold, TopologyIsWhole
<1>2. TopologyIsWhole /\ [PNext]_pvars => TopologyIsWhole'
  <2> SUFFICES ASSUME TopologyIsWhole, [PNext]_pvars PROVE TopologyIsWhole'
    OBVIOUS
  <2>1. ASSUME NEW ids \in (SUBSET Id) \ {{}}, NEW node \in Node,
               NEW lsn \in LSN, NEW d, DiscoverReplication(ids, node, lsn, d)
        PROVE  TopologyIsWhole'
    <3> DEFINE parsed == ParseReplication(Sends(ids, node, lsn, d))
               row(i) == IF i = LastOf(ids) THEN Row(i, node, lsn, d)
                         ELSE Row(i, Ordinary, lsn, <<>>)
    <3>1. /\ heard' = [ids |-> ids, node |-> node, lsn |-> lsn, damage |-> d,
                       taken |-> parsed # <<>>]
          /\ topology' = IF parsed # <<>> THEN parsed[1] ELSE topology
          /\ UNCHANGED <<routed, told>>
      BY <2>1 DEF DiscoverReplication
    <3>2. /\ d = <<>> => parsed # <<>>
          /\ parsed # <<>> => /\ DOMAIN parsed[1] = ids
                              /\ \A i \in ids : parsed[1][i] = Parsed(row(i))
      <4>1. ids \in SUBSET Id /\ ids # {}
        OBVIOUS
      <4> QED
        BY <4>1, AnswerTaken
    <3>3. \A i \in ids : Parsed(row(i)).uuid = i
      BY DEF Parsed, Row
    <3> HIDE DEF parsed, row
    <3>4. parsed # <<>> => {parsed[1][k].uuid : k \in DOMAIN parsed[1]} = ids
      BY <3>2, <3>3
    <3>5. heard'.taken => {topology'[k].uuid : k \in DOMAIN topology'} = heard'.ids
      BY <3>1, <3>4
    <3>6. ~heard'.taken => heard'.damage # <<>>
      BY <3>1, <3>2
    <3>7. /\ routed'.damage = <<>> => routed'.taken = routed'.shards
          /\ told'.damage = <<>> => told'.taken
      BY <3>1 DEF TopologyIsWhole
    <3> QED
      BY <3>5, <3>6, <3>7 DEF TopologyIsWhole
  <2>2. ASSUME NEW d, DiscoverInstance(d)
        PROVE  TopologyIsWhole'
    <3>1. d = <<>> => told'.taken
      BY <2>2, InfoAccepted DEF DiscoverInstance, Damaged
    <3> QED
      BY <2>2, <3>1 DEF DiscoverInstance, TopologyIsWhole
  <2>3. ASSUME NEW shards, NEW d, ParseRouterInfo(shards, d)
        PROVE  TopologyIsWhole'
    <3>1. d = <<>> => routed'.taken = shards
      BY <2>3, RouterAccepted DEF ParseRouterInfo, Damaged
    <3> QED
      BY <2>3, <3>1 DEF ParseRouterInfo, TopologyIsWhole
  <2>4. CASE UNCHANGED pvars
    BY <2>4 DEF pvars, TopologyIsWhole
  <2> QED
    BY <2>1, <2>2, <2>3, <2>4 DEF PNext
<1> QED
  BY <1>1, <1>2, PTL DEF PSpec

(* The lag an election compares is the instance's own distance from the    *)
(* master, for integers of any width, and for one in front of the master   *)
(* as well (ParseReplication and getInt64 in parser.go).                   *)
THEOREM LagSurvivesHolds == PSpec => []LagSurvives
<1>1. PInit => LagSurvives
  BY DEF PInit, Unheard, LagSurvives
<1>2. LagSurvives /\ [PNext]_pvars => LagSurvives'
  <2> SUFFICES ASSUME LagSurvives, [PNext]_pvars PROVE LagSurvives'
    OBVIOUS
  <2>1. ASSUME NEW ids \in (SUBSET Id) \ {{}}, NEW node \in Node,
               NEW lsn \in LSN, NEW d, DiscoverReplication(ids, node, lsn, d)
        PROVE  LagSurvives'
    <3> DEFINE parsed == ParseReplication(Sends(ids, node, lsn, d))
               row(i) == IF i = LastOf(ids) THEN Row(i, node, lsn, d)
                         ELSE Row(i, Ordinary, lsn, <<>>)
               of(i) == IF i = LastOf(ids) THEN node ELSE Ordinary
    <3>1. /\ heard' = [ids |-> ids, node |-> node, lsn |-> lsn, damage |-> d,
                       taken |-> parsed # <<>>]
          /\ topology' = IF parsed # <<>> THEN parsed[1] ELSE topology
      BY <2>1 DEF DiscoverReplication
    <3>2. parsed # <<>> => \A i \in ids : parsed[1][i] = Parsed(row(i))
      BY AnswerTaken
    <3>3. /\ node.downstream \in {"none", "stopped", "follow"}
          /\ node.read \in 0..(Half - 1)
          /\ node.upstream \in {"absent", "float", "uint"}
          /\ Ordinary.downstream \in {"none", "stopped", "follow"}
          /\ Ordinary.read \in 0..(Half - 1)
          /\ Ordinary.upstream \in {"absent", "float", "uint"}
      BY ParserAssumption DEF Node, Ordinary
    <3>4. d = <<>> => \A i \in ids : Parsed(row(i)).lag = Distance(of(i), lsn)
      BY <3>3, RowParsed
    <3> HIDE DEF parsed, row, of
    <3>5. LagSurvives' = (heard'.taken /\ heard'.damage = <<>> =>
            \A i \in ids : topology'[i].lag = Distance(of(i), lsn))
      BY <3>1 DEF LagSurvives, of
    <3> QED
      BY <3>1, <3>2, <3>4, <3>5
  <2>2. ASSUME NEW d, DiscoverInstance(d)
        PROVE  LagSurvives'
    BY <2>2 DEF DiscoverInstance, LagSurvives
  <2>3. ASSUME NEW shards, NEW d, ParseRouterInfo(shards, d)
        PROVE  LagSurvives'
    BY <2>3 DEF ParseRouterInfo, LagSurvives
  <2>4. CASE UNCHANGED pvars
    BY <2>4 DEF pvars, LagSurvives
  <2> QED
    BY <2>1, <2>2, <2>3, <2>4 DEF PNext
<1> QED
  BY <1>1, <1>2, PTL DEF PSpec
=============================================================================
