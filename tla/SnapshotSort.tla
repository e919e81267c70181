---------------------------- MODULE SnapshotSort ----------------------------
(***************************************************************************)
(* The instances of one replica set in memory, under overlapping calls of  *)
(* Cluster.Discover.  A call copies the current snapshot instance by       *)
(* instance under the read lock.  Before it installs its own snapshot it   *)
(* compares the two for the log, and the comparison sorts the instances of *)
(* the current snapshot in place, without the lock: `live' and every call  *)
(* hold a slice of one and the same array.                                 *)
(*                                                                         *)
(* Instances are the numbers that order their UUIDs, each call owns one    *)
(* array, and a swap of sort.Slice is its two writes to the array.  All    *)
(* calls end within one second, so the stamps never refuse an install.     *)
(***************************************************************************)
EXTENDS Naturals, Sequences, SequencesExt

CONSTANTS N,          \* how many instances the set has
          Master,     \* the master, per the router, of the set
          Call        \* the calls of Discover, and the arrays they allocate

First    == "first"   \* the array of the snapshot at the start, no call's
Instance == 1..N      \* the instances of the set, as they are ordered by UUID

VARIABLES array,      \* the arrays of instances
          master,     \* MasterUUID of the set that holds the array
          live,       \* the array of the current snapshot
          pc,         \* where each call is
          source,     \* the array a call copies, then sorts
          copied,     \* what a call has copied so far
          i, j,       \* the indices of the sort
          tmp         \* the instance the swap has set aside

loop == <<i, j, tmp>>
vars == <<array, master, live, pc, source, copied, loop>>

Init ==
  /\ \E s \in SetToSeqs(Instance) :
       array = [x \in {First} \cup Call |-> IF x = First THEN s ELSE <<>>]
  /\ master \in [{First} \cup Call -> Master]
  /\ live = First
  /\ pc = [d \in Call |-> "idle"]
  /\ source = [d \in Call |-> First]
  /\ copied = [d \in Call |-> <<>>]
  /\ i = [d \in Call |-> 2]
  /\ j = [d \in Call |-> 2]
  /\ tmp = [d \in Call |-> 0]

Goto(d, from, to) == pc[d] = from /\ pc' = [pc EXCEPT ![d] = to]

\* The read lock, and the slice the copy reads.
CopyStart(d) ==
  /\ Goto(d, "idle", "copy")
  /\ source' = [source EXCEPT ![d] = live]
  /\ UNCHANGED <<array, master, live, copied, loop>>

CopyOne(d) ==
  /\ pc[d] = "copy" /\ Len(copied[d]) < Len(array[source[d]])
  /\ copied' = [copied EXCEPT ![d] =
                  Append(@, array[source[d]][Len(@) + 1])]
  /\ UNCHANGED <<array, master, live, pc, source, loop>>

CopyEnd(d) ==
  /\ Goto(d, "copy", "poll") /\ Len(copied[d]) = Len(array[source[d]])
  /\ UNCHANGED <<array, master, live, source, copied, loop>>

\* The answer of the master, in any order, or else the copy.
Topologies(d) == SetToSeqs(Instance) \cup {copied[d]}

Poll(d) ==
  /\ Goto(d, "poll", "compare")
  /\ \E t \in Topologies(d) : array' = [array EXCEPT ![d] = t]
  /\ UNCHANGED <<master, live, source, copied, loop>>

\* SameAs sorts only what has one master and one length.
Comparable(d) == master[live] = master[d] /\ Len(array[live]) = Len(array[d])

Compare(d) ==
  /\ Goto(d, "compare", IF Comparable(d) THEN "sort" ELSE "install")
  /\ source' = [source EXCEPT ![d] = live]
  /\ UNCHANGED <<array, master, live, copied, loop>>

\* One step of the insertion sort: the instance at j moves down past a
\* larger one, or the next one is taken up.
Before(d, k) == array[source[d]][k]

Shift(d) ==
  /\ Goto(d, "sort", "swap")
  /\ i[d] <= N /\ j[d] > 1 /\ Before(d, j[d]) < Before(d, j[d] - 1)
  /\ tmp' = [tmp EXCEPT ![d] = Before(d, j[d])]
  /\ array' = [array EXCEPT ![source[d]][j[d]] = Before(d, j[d] - 1)]
  /\ UNCHANGED <<master, live, source, copied, i, j>>

Put(d) ==
  /\ Goto(d, "swap", "sort")
  /\ array' = [array EXCEPT ![source[d]][j[d] - 1] = tmp[d]]
  /\ j' = [j EXCEPT ![d] = @ - 1]
  /\ UNCHANGED <<master, live, source, copied, i, tmp>>

Advance(d) ==
  /\ pc[d] = "sort" /\ i[d] <= N
  /\ j[d] > 1 => Before(d, j[d]) >= Before(d, j[d] - 1)
  /\ i' = [i EXCEPT ![d] = @ + 1]
  /\ j' = [j EXCEPT ![d] = i[d] + 1]
  /\ UNCHANGED <<array, master, live, pc, source, copied, tmp>>

\* The other side of the comparison, which nobody else holds yet.
Sorted(d) ==
  /\ Goto(d, "sort", "install") /\ i[d] > N
  /\ array' = [array EXCEPT ![d] = SortSeq(@, <)]
  /\ UNCHANGED <<master, live, source, copied, loop>>

\* The write lock, which waits for every copy that is under way.
Install(d) ==
  /\ Goto(d, "install", "done")
  /\ \A e \in Call : pc[e] # "copy"
  /\ live' = d
  /\ UNCHANGED <<array, master, source, copied, loop>>

Next == \E d \in Call :
  \/ CopyStart(d) \/ CopyOne(d) \/ CopyEnd(d)
  \/ Poll(d) \/ Compare(d)
  \/ Shift(d) \/ Put(d) \/ Advance(d) \/ Sorted(d)
  \/ Install(d)

Spec == Init /\ [][Next]_vars

-----------------------------------------------------------------------------
\* A copy of the snapshot that is complete holds every instance of the set
\* once: discovery may work on it while the cluster state is updated.  The
\* code does not grant it, the copy overlaps with a swap of SameAs.
CopyIsWhole ==
  \A d \in Call : pc[d] \notin {"idle", "copy"} => ToSet(copied[d]) = Instance
=============================================================================
