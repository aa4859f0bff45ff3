---------------------------- MODULE TimeWarpProofs ----------------------------
(***************************************************************************)
(* TypeOK, PeriodsPartitionTime, ReadsStayInTheirPeriod and                *)
(* StaleReadsAreRolledBack of TimeWarp, for any agents and ALPs, any       *)
(* number of requests, any end time and any steps of the agents;           *)
(* NothingCommittedIsUndone and NoReadBelowGvt for agents that take small  *)
(* steps; WritesInSync for such agents with an ALP each.                   *)
(*                                                                         *)
(* The list of write periods is kept by each of its operations (the first  *)
(* part), as long as the times of what arrives at the CLP are below        *)
(* Infinity and the reads it answers have a period.  That they are         *)
(* follows from what is on its way and what the ALPs may still send:       *)
(* TypedMessages; it needs the agents' LVTs, which bound the times of the  *)
(* requests, and the requests they wait for, which become their LVTs:      *)
(* TypedAgents.  Together they are IInv.                                   *)
(*                                                                         *)
(* That no stale read survives needs more: ReadInv follows each request    *)
(* from the agent to the CLP and its answer back, and the anti-messages    *)
(* behind it.  That GVT is safe needs GvtInv: what is ahead of GVT stays   *)
(* ahead of it.  That no write is lost needs SyncInv: each is on its way,  *)
(* refused, or in the list where no anti-message will find it.             *)
(*                                                                         *)
(* MigrationKeepsWrites and MigrationTellsReaders, of any agents again,    *)
(* are about two loops over the list.  Writing each period anew is refused *)
(* for none, as writes of one time are in the order of their agents        *)
(* (WrittenByAgents).                                                      *)
(***************************************************************************)
EXTENDS TimeWarp, ListTheorems

-----------------------------------------------------------------------------
(* Each operation on the list of write periods of a variable keeps it a    *)
(* partition of time with every read in its period, for lists of any       *)
(* length, any times and any agents.                                       *)
(*                                                                         *)
(* That the periods are in order of time follows from IsPartition, but     *)
(* only by induction over the list; as a part of the invariant it needs    *)
(* none.                                                                   *)

\* The periods with values from one set and readers from another.
PeriodsOf(values, readers) ==
  [start : Nat, end : Nat, value : values, agent : LpId,
   reads : SUBSET [agent : readers, time : Nat]]

InOrder(list) ==
  \A j, k \in 1 .. Len(list) : j <= k => list[j].start <= list[k].start

\* What every operation keeps.
ListInv(list, values, readers) ==
  /\ list \in Seq(PeriodsOf(values, readers))
  /\ InOrder(list)
  /\ IsPartition(list)
  /\ ReadsAreInside(list)

\* The types of a list and of its periods.
LEMMA ListType ==
  ASSUME NEW values, NEW readers, NEW list \in Seq(PeriodsOf(values, readers))
  PROVE  /\ list \in Seq(PeriodsOf(values, readers)) /\ Len(list) \in Nat
         /\ list # <<>> <=> Len(list) # 0
         /\ \A k \in 1 .. Len(list) :
              /\ list[k] \in PeriodsOf(values, readers)
              /\ list[k].start \in Nat /\ list[k].end \in Nat
              /\ list[k].reads \in SUBSET [agent : readers, time : Nat]
<1>1. list \in Seq(PeriodsOf(values, readers))
  OBVIOUS
<1>2. Len(list) \in Nat /\ (list # <<>> <=> Len(list) # 0)
  BY <1>1, LenProperties, EmptySeq
<1>3. \A k \in 1 .. Len(list) : list[k] \in PeriodsOf(values, readers)
  BY <1>1, ElementOfSeq
<1> QED
  BY <1>1, <1>2, <1>3 DEF PeriodsOf

\* The walk from the back (StateVariable::Read and others) ends at the last period
\* that starts at or before the time.
LEMMA CoveringIsLast ==
  ASSUME NEW values, NEW readers, NEW list \in Seq(PeriodsOf(values, readers)),
         NEW t \in Nat
  PROVE  /\ Covering(list, t) \in 0 .. Len(list)
         /\ Covering(list, t) # 0 => list[Covering(list, t)].start <= t
         /\ \A k \in 1 .. Len(list) : k > Covering(list, t) => list[k].start > t
<1> DEFINE I == {k \in 1 .. Len(list) : list[k].start <= t}
<1>1. Covering(list, t) = IF I # {} THEN Max(I) ELSE 0
  BY DEF Covering, SelectLastInSeq
<1>2. Len(list) \in Nat /\ \A k \in 1 .. Len(list) : list[k].start \in Nat
  BY ListType
<1>3. CASE I = {}
  BY <1>1, <1>2, <1>3
<1>4. CASE I # {}
  <2>1. I \in SUBSET (0 .. Len(list))
    BY <1>2
  <2>2. Max(I) \in I /\ \A k \in I : k <= Max(I)
    <3> HIDE DEF I
    <3> QED
      BY <1>2, <1>4, <2>1, MaxOfSet
  <2>3. Max(I) \in 1 .. Len(list) /\ list[Max(I)].start <= t
    BY <2>2
  <2>4. ASSUME NEW k \in 1 .. Len(list), k > Max(I) PROVE list[k].start > t
    <3>1. k \notin I
      <4> HIDE DEF I
      <4> QED
        BY <1>2, <2>2, <2>3, <2>4
    <3> QED
      BY <1>2, <3>1
  <2> HIDE DEF I
  <2> QED
    BY <1>1, <1>2, <1>4, <2>3, <2>4
<1> QED
  BY <1>3, <1>4

\* The walk from the front (PerformWriteRollback) ends at the first period that
\* starts at the time.
LEMMA StartingAtIsFirst ==
  ASSUME NEW values, NEW readers, NEW list \in Seq(PeriodsOf(values, readers)),
         NEW t \in Nat
  PROVE  /\ StartingAt(list, t) \in 0 .. Len(list)
         /\ StartingAt(list, t) # 0 => list[StartingAt(list, t)].start = t
         /\ \A k \in 1 .. Len(list) :
              list[k].start = t => StartingAt(list, t) # 0 /\ StartingAt(list, t) <= k
<1> DEFINE I == {k \in 1 .. Len(list) : list[k].start = t}
<1>1. StartingAt(list, t) = IF I # {} THEN Min(I) ELSE 0
  BY DEF StartingAt, SelectInSeq
<1>2. Len(list) \in Nat
  BY ListType
<1>3. CASE I = {}
  BY <1>1, <1>2, <1>3
<1>4. CASE I # {}
  <2>1. I \in SUBSET Nat
    BY <1>2
  <2>2. Min(I) \in I /\ \A k \in I : Min(I) <= k
    <3> HIDE DEF I
    <3> QED
      BY <1>4, <2>1, MinOfSet
  <2>3. Min(I) \in 1 .. Len(list) /\ list[Min(I)].start = t
    BY <2>2
  <2>4. \A k \in 1 .. Len(list) : list[k].start = t => k \in I
    OBVIOUS
  <2> HIDE DEF I
  <2> QED
    BY <1>1, <1>2, <1>4, <2>2, <2>3, <2>4
<1> QED
  BY <1>3, <1>4

\* What holds of the ends of the periods.
LEMMA Ends ==
  ASSUME NEW values, NEW readers, NEW list, ListInv(list, values, readers)
  PROVE  \A k \in 1 .. Len(list) :
           /\ list[k].end = IF k = Len(list) THEN Infinity ELSE list[k + 1].start
           /\ list[k].start <= list[k].end /\ list[k].end <= Infinity
<1>1. /\ list \in Seq(PeriodsOf(values, readers)) /\ Len(list) \in Nat
      /\ list # <<>> <=> Len(list) # 0
      /\ \A k \in 1 .. Len(list) : list[k].start \in Nat /\ list[k].end \in Nat
  BY ListType DEF ListInv
<1> SUFFICES ASSUME NEW k \in 1 .. Len(list)
             PROVE  /\ list[k].end = IF k = Len(list) THEN Infinity ELSE list[k + 1].start
                    /\ list[k].start <= list[k].end /\ list[k].end <= Infinity
  OBVIOUS
<1>2. Len(list) # 0 /\ Len(list) \in 1 .. Len(list)
  BY <1>1
<1>3. /\ \A i \in 1 .. Len(list) : list[i].start <= list[i].end
      /\ \A i \in 1 .. Len(list) - 1 : list[i].end = list[i + 1].start
      /\ list[Len(list)].end = Infinity
  BY <1>1, <1>2 DEF ListInv, IsPartition, Last
<1>4. CASE k = Len(list)
  BY <1>1, <1>3, <1>4, InfinityAssumption
<1>5. CASE k # Len(list)
  <2>1. k \in 1 .. Len(list) - 1 /\ k + 1 \in 1 .. Len(list) /\ k + 1 <= Len(list)
    BY <1>1, <1>5
  <2>2. list[k + 1].start <= list[Len(list)].start
    BY <1>2, <2>1 DEF ListInv, InOrder
  <2> QED
    BY <1>1, <1>2, <1>3, <1>5, <2>1, <2>2, InfinityAssumption
<1> QED
  BY <1>4, <1>5

\* A list that has the shape Ends tells of keeps the invariant.
LEMMA EndsSuffice ==
  ASSUME NEW values, NEW readers, NEW list \in Seq(PeriodsOf(values, readers)),
         \A k \in 1 .. Len(list) :
           /\ list[k].end = IF k = Len(list) THEN Infinity ELSE list[k + 1].start
           /\ list[k].start <= list[k].end,
         InOrder(list), ReadsAreInside(list)
  PROVE  ListInv(list, values, readers)
<1>2. Len(list) \in Nat /\ (list # <<>> <=> Len(list) # 0)
  BY ListType
<1>3. IsPartition(list)
  BY <1>2 DEF IsPartition, Last
<1> QED
  BY <1>3 DEF ListInv

\* A list with one period changed.
LEMMA ExceptPeriod ==
  ASSUME NEW values, NEW readers, NEW list \in Seq(PeriodsOf(values, readers)),
         NEW i \in 1 .. Len(list), NEW p \in PeriodsOf(values, readers)
  PROVE  /\ [list EXCEPT ![i] = p] \in Seq(PeriodsOf(values, readers))
         /\ Len([list EXCEPT ![i] = p]) = Len(list)
         /\ \A k \in 1 .. Len(list) : [list EXCEPT ![i] = p][k] = IF k = i THEN p ELSE list[k]
  BY ExceptSeq

\* Reads may be noted and taken back in the period that covers them.
LEMMA ChangeReads ==
  ASSUME NEW values, NEW readers, NEW list, ListInv(list, values, readers),
         NEW i \in 1 .. Len(list),
         NEW reads \in SUBSET [agent : readers, time : Nat],
         \A r \in reads : list[i].start <= r.time /\ r.time < list[i].end
  PROVE  ListInv([list EXCEPT ![i] = [list[i] EXCEPT !.reads = reads]], values, readers)
<1>1. /\ list \in Seq(PeriodsOf(values, readers)) /\ Len(list) \in Nat
      /\ \A k \in 1 .. Len(list) :
           /\ list[k] \in PeriodsOf(values, readers)
           /\ list[k].start \in Nat /\ list[k].end \in Nat
  BY ListType DEF ListInv
<1> DEFINE p   == [list[i] EXCEPT !.reads = reads]
           new == [list EXCEPT ![i] = p]
<1>2. /\ p \in PeriodsOf(values, readers)
      /\ p.start = list[i].start /\ p.end = list[i].end /\ p.reads = reads
  BY <1>1 DEF PeriodsOf
<1> HIDE DEF p
<1>3. /\ new \in Seq(PeriodsOf(values, readers)) /\ Len(new) = Len(list)
      /\ \A k \in 1 .. Len(list) : new[k] = IF k = i THEN p ELSE list[k]
  BY <1>1, <1>2, ExceptPeriod
<1> HIDE DEF new
<1>4. \A k \in 1 .. Len(new) :
        /\ new[k].start = list[k].start /\ new[k].end = list[k].end
        /\ new[k].reads = IF k = i THEN reads ELSE list[k].reads
  BY <1>2, <1>3
<1>5. InOrder(new)
  BY <1>3, <1>4 DEF ListInv, InOrder
<1>6. ReadsAreInside(new)
  BY <1>3, <1>4 DEF ListInv, ReadsAreInside
<1>7. \A k \in 1 .. Len(list) :
        /\ list[k].end = IF k = Len(list) THEN Infinity ELSE list[k + 1].start
        /\ list[k].start <= list[k].end
  BY Ends
<1>8. \A k \in 1 .. Len(new) :
        /\ new[k].end = IF k = Len(new) THEN Infinity ELSE new[k + 1].start
        /\ new[k].start <= new[k].end
  <2> SUFFICES ASSUME NEW k \in 1 .. Len(new)
               PROVE  /\ new[k].end = IF k = Len(new) THEN Infinity ELSE new[k + 1].start
                      /\ new[k].start <= new[k].end
    OBVIOUS
  <2>1. k # Len(new) => k + 1 \in 1 .. Len(new)
    BY <1>1, <1>3
  <2> QED
    BY <1>3, <1>4, <1>7, <2>1
<1>9. ListInv(new, values, readers)
  BY <1>3, <1>5, <1>6, <1>8, EndsSuffice
<1> QED
  BY <1>9 DEF new, p

\* StateVariable::Read.
LEMMA NoteReadKeepsList ==
  ASSUME NEW values, NEW readers, NEW list, ListInv(list, values, readers),
         NEW agent \in readers, NEW time \in Nat, time < Infinity, Covering(list, time) # 0
  PROVE  ListInv(NoteRead(list, agent, time), values, readers)
<1> DEFINE i == Covering(list, time)
           reads == list[i].reads \union {[agent |-> agent, time |-> time]}
<1>1. /\ Len(list) \in Nat
      /\ \A k \in 1 .. Len(list) :
           /\ list[k].start \in Nat /\ list[k].end \in Nat
           /\ list[k].reads \in SUBSET [agent : readers, time : Nat]
  BY ListType DEF ListInv
<1>2. /\ i \in 1 .. Len(list) /\ list[i].start <= time
      /\ \A k \in 1 .. Len(list) : k > i => list[k].start > time
  BY SMTT(30), <1>1, CoveringIsLast DEF ListInv
<1>3. NoteRead(list, agent, time) = [list EXCEPT ![i] = [list[i] EXCEPT !.reads = reads]]
  BY DEF NoteRead
<1> HIDE DEF i
<1>4. time < list[i].end
  <2>1. list[i].end = IF i = Len(list) THEN Infinity ELSE list[i + 1].start
    BY <1>2, Ends
  <2>2. i # Len(list) => i + 1 \in 1 .. Len(list)
    BY <1>1, <1>2
  <2> QED
    BY <1>1, <1>2, <2>1, <2>2
<1>5. /\ reads \in SUBSET [agent : readers, time : Nat]
      /\ \A r \in reads : list[i].start <= r.time /\ r.time < list[i].end
  BY <1>1, <1>2, <1>4 DEF ListInv, ReadsAreInside
<1> HIDE DEF reads
<1>6. ListInv([list EXCEPT ![i] = [list[i] EXCEPT !.reads = reads]], values, readers)
  BY <1>2, <1>5, ChangeReads
<1> QED
  BY <1>3, <1>6

\* StateVariable::PerformReadRollback.
LEMMA PerformReadRollbackKeepsList ==
  ASSUME NEW values, NEW readers, NEW list, ListInv(list, values, readers),
         NEW agent, NEW time \in Nat, Covering(list, time) # 0
  PROVE  ListInv(PerformReadRollback(list, agent, time), values, readers)
<1> DEFINE i == Covering(list, time)
           reads == list[i].reads \ {[agent |-> agent, time |-> time]}
<1>1. /\ Len(list) \in Nat
      /\ \A k \in 1 .. Len(list) : list[k].reads \in SUBSET [agent : readers, time : Nat]
  BY ListType DEF ListInv
<1>2. i \in 1 .. Len(list)
  BY <1>1, CoveringIsLast DEF ListInv
<1>3. PerformReadRollback(list, agent, time) = [list EXCEPT ![i] = [list[i] EXCEPT !.reads = reads]]
  BY DEF PerformReadRollback
<1> HIDE DEF i
<1>4. /\ reads \in SUBSET [agent : readers, time : Nat]
      /\ \A r \in reads : list[i].start <= r.time /\ r.time < list[i].end
  BY <1>1, <1>2 DEF ListInv, ReadsAreInside
<1> HIDE DEF reads
<1>6. ListInv([list EXCEPT ![i] = [list[i] EXCEPT !.reads = reads]], values, readers)
  BY <1>2, <1>4, ChangeReads
<1> QED
  BY <1>3, <1>6

\* A new period starts in the period that covers its time, and ends where that
\* one ended (StateVariable::WriteWithRollback).
LEMMA WriteWithRollbackKeepsList ==
  ASSUME NEW values, NEW readers, NEW list, ListInv(list, values, readers),
         NEW agent \in LpId, NEW value \in values, NEW time \in Nat, time < Infinity,
         ~IsRefused(list, agent, time)
  PROVE  ListInv(WriteWithRollback(list, agent, value, time), values, readers)
<1> DEFINE P   == PeriodsOf(values, readers)
           new == WriteWithRollback(list, agent, value, time)
<1>1. /\ list \in Seq(P) /\ Len(list) \in Nat
      /\ list # <<>> <=> Len(list) # 0
      /\ \A k \in 1 .. Len(list) :
           /\ list[k] \in P
           /\ list[k].start \in Nat /\ list[k].end \in Nat
           /\ list[k].reads \in SUBSET [agent : readers, time : Nat]
  BY ListType DEF ListInv
<1>2. CASE list = <<>>
  <2> DEFINE p == Period(value, time, agent)
  <2>1. p \in P /\ p.start = time /\ p.end = Infinity /\ p.reads = {}
    BY InfinityAssumption DEF Period, PeriodsOf
  <2> HIDE DEF p, P
  <2>2. new = <<p>>
    BY <1>2 DEF WriteWithRollback, p
  <2>3. <<p>> \in Seq(P) /\ Len(<<p>>) = 1 /\ <<p>>[1] = p
    BY <2>1
  <2>4. InOrder(<<p>>) /\ ReadsAreInside(<<p>>)
    BY <2>1, <2>3 DEF InOrder, ReadsAreInside
  <2>5. \A k \in 1 .. Len(<<p>>) :
          /\ <<p>>[k].end = IF k = Len(<<p>>) THEN Infinity ELSE <<p>>[k + 1].start
          /\ <<p>>[k].start <= <<p>>[k].end
    BY <2>1, <2>3, InfinityAssumption
  <2>6. ListInv(<<p>>, values, readers)
    BY <2>3, <2>4, <2>5, EndsSuffice DEF P
  <2> QED
    BY <2>2, <2>6
<1>3. CASE list # <<>>
  <2> DEFINE i      == Covering(list, time)
             closed == [list[i] EXCEPT !.end = time, !.reads = @ \ ReadsFrom(list[i], time)]
             p      == [Period(value, time, agent) EXCEPT
                          !.end = IF i < Len(list) THEN list[i + 1].start ELSE @]
             cut    == [list EXCEPT ![i] = closed]
  <2>1. /\ i \in 1 .. Len(list) /\ list[i].start <= time
        /\ \A k \in 1 .. Len(list) : k > i => list[k].start > time
    BY SMTT(30), <1>1, <1>3, CoveringIsLast DEF ListInv, IsRefused
  <2>2. new = InsertAt(cut, i + 1, p)
    BY <1>3 DEF WriteWithRollback
  <2>3. /\ closed \in P
        /\ closed.start = list[i].start /\ closed.end = time
        /\ closed.reads = list[i].reads \ ReadsFrom(list[i], time)
    BY <1>1, <2>1 DEF PeriodsOf
  <2>4. i < Len(list) => i + 1 \in 1 .. Len(list)
    BY <1>1, <2>1
  <2>5. /\ p \in P
        /\ p.start = time /\ p.reads = {}
        /\ p.end = IF i < Len(list) THEN list[i + 1].start ELSE Infinity
    BY <1>1, <2>1, <2>4, InfinityAssumption DEF PeriodsOf, Period
  <2> HIDE DEF i, closed, p
  <2>6. /\ cut \in Seq(P) /\ Len(cut) = Len(list)
        /\ \A k \in 1 .. Len(list) : cut[k] = IF k = i THEN closed ELSE list[k]
    BY <1>1, <2>1, <2>3, ExceptPeriod
  <2> HIDE DEF cut, new
  <2>7. /\ new \in Seq(P) /\ Len(new) = Len(list) + 1
        /\ \A k \in 1 .. Len(list) + 1 :
             new[k] = IF k < i + 1 THEN cut[k] ELSE IF k = i + 1 THEN p ELSE cut[k - 1]
    <3> DEFINE at == i + 1
    <3>1. at \in 1 .. Len(cut) + 1
      BY <1>1, <2>1, <2>6
    <3> HIDE DEF P, at
    <3>a. cut \in Seq(P) /\ p \in P
      BY <2>5, <2>6
    <3>2. InsertAt(cut, at, p) \in Seq(P)
      BY <3>a, <3>1, InsertAtSeq
    <3>3. Len(InsertAt(cut, at, p)) = Len(cut) + 1
      BY <3>a, <3>1, InsertAtSeq
    <3>4. \A k \in 1 .. Len(cut) + 1 :
            InsertAt(cut, at, p)[k] = IF k < at THEN cut[k] ELSE IF k = at THEN p ELSE cut[k - 1]
      BY <3>a, <3>1, InsertAtSeq
    <3> QED
      BY <2>2, <2>6, <3>2, <3>3, <3>4 DEF at
  <2>n. Len(new) = Len(list) + 1 /\ i \in Nat /\ Len(list) \in Nat
    BY <1>1, <2>1, <2>7
  <2>8. \A k \in 1 .. Len(list) + 1 :
          /\ k < i => k \in 1 .. Len(list) /\ new[k] = list[k]
          /\ k = i => new[k] = closed
          /\ k = i + 1 => new[k] = p
          /\ k > i + 1 => k - 1 \in 1 .. Len(list) /\ new[k] = list[k - 1]
    <3> SUFFICES ASSUME NEW k \in 1 .. Len(list) + 1
                 PROVE  /\ k < i => k \in 1 .. Len(list) /\ new[k] = list[k]
                        /\ k = i => new[k] = closed
                        /\ k = i + 1 => new[k] = p
                        /\ k > i + 1 => k - 1 \in 1 .. Len(list) /\ new[k] = list[k - 1]
      OBVIOUS
    <3>1. k <= i => k \in 1 .. Len(list) /\ new[k] = cut[k]
      BY <1>1, <2>1, <2>7
    <3>2. k = i + 1 => new[k] = p
      BY <1>1, <2>1, <2>7
    <3>3. k > i + 1 => k - 1 \in 1 .. Len(list) /\ k - 1 # i /\ new[k] = cut[k - 1]
      BY <1>1, <2>1, <2>7
    <3> QED
      BY <1>1, <2>1, <2>6, <3>1, <3>2, <3>3
  <2>9. \A k \in 1 .. Len(list) :
          /\ list[k].end = IF k = Len(list) THEN Infinity ELSE list[k + 1].start
          /\ list[k].start <= list[k].end
    BY Ends
  <2> HIDE DEF P
  <2>10. \A j, k \in 1 .. Len(list) : j <= k => list[j].start <= list[k].start
    BY DEF ListInv, InOrder
  <2>a. \A k \in 1 .. Len(new) :
          new[k].start = IF k <= i THEN list[k].start
                         ELSE IF k = i + 1 THEN time ELSE list[k - 1].start
    BY <1>1, <2>1, <2>3, <2>5, <2>7, <2>8
  <2>b. InOrder(new)
    <3> SUFFICES ASSUME NEW j \in 1 .. Len(new), NEW k \in 1 .. Len(new), j <= k
                 PROVE  new[j].start <= new[k].start
      BY DEF InOrder
    <3>1. CASE k <= i
      BY <1>1, <2>1, <2>7, <2>10, <2>a, <3>1
    <3>2. CASE k = i + 1
      <4>1. CASE j = i + 1
        BY <1>1, <2>1, <2>7, <2>a, <3>2, <4>1
      <4>2. CASE j # i + 1
        <5>1. j \in 1 .. Len(list) /\ j <= i
          BY <1>1, <2>1, <3>2, <4>2
        <5>2. list[j].start <= list[i].start /\ list[j].start \in Nat /\ list[i].start \in Nat
          BY <1>1, <2>1, <2>10, <5>1
        <5>3. new[j].start = list[j].start /\ new[k].start = time
          BY <1>1, <2>1, <2>a, <3>2, <5>1
        <5> QED
          BY <2>1, <5>2, <5>3
      <4> QED
        BY <4>1, <4>2
    <3>3. CASE k > i + 1
      <4>1. k - 1 \in 1 .. Len(list) /\ k - 1 > i /\ new[k].start = list[k - 1].start
        BY <1>1, <2>1, <2>7, <2>a, <3>3
      <4>2. list[k - 1].start > time
        BY <2>1, <4>1
      <4>3. CASE j <= i
        <5>1. j \in 1 .. Len(list) /\ new[j].start = list[j].start /\ j <= k - 1
          BY <2>1, <2>n, <2>a, <4>1, <4>3
        <5> QED
          BY <2>10, <4>1, <5>1
      <4>4. CASE j = i + 1
        <5>1. new[j].start = time
          BY <2>1, <2>a, <4>4
        <5> QED
          BY <1>1, <4>1, <4>2, <5>1
      <4>5. CASE j > i + 1
        <5>1. j - 1 \in 1 .. Len(list) /\ new[j].start = list[j - 1].start /\ j - 1 <= k - 1
          BY <1>1, <2>1, <2>7, <2>a, <4>5
        <5> QED
          BY <2>10, <4>1, <5>1
      <4> QED
        BY <2>1, <2>7, <1>1, <4>3, <4>4, <4>5
    <3> QED
      BY <2>1, <2>7, <1>1, <3>1, <3>2, <3>3
  <2>c. \A k \in 1 .. Len(new) :
          /\ new[k].end = IF k = Len(new) THEN Infinity ELSE new[k + 1].start
          /\ new[k].start <= new[k].end
    <3> SUFFICES ASSUME NEW k \in 1 .. Len(new)
                 PROVE  /\ new[k].end = IF k = Len(new) THEN Infinity ELSE new[k + 1].start
                        /\ new[k].start <= new[k].end
      OBVIOUS
    <3>1. CASE k < i
      <4>1. k \in 1 .. Len(list) /\ k # Len(list) /\ k # Len(new) /\ k + 1 \in 1 .. Len(new)
            /\ k + 1 <= i
        BY <1>1, <2>1, <2>7, <3>1
      <4>2. new[k + 1].start = list[k + 1].start /\ new[k] = list[k]
        BY <2>8, <2>7, <2>a, <3>1, <4>1
      <4> QED
        BY <2>9, <4>1, <4>2
    <3>2. CASE k = i
      <4>1. k # Len(new) /\ k + 1 \in 1 .. Len(new) /\ ~(k + 1 <= i)
        BY <1>1, <2>1, <2>7, <3>2
      <4>2. new[k + 1].start = time /\ new[k] = closed
        BY <2>7, <2>8, <2>a, <3>2, <4>1
      <4> QED
        BY <2>1, <2>3, <4>1, <4>2
    <3>3. CASE k = i + 1
      <4>1. new[k] = p
        BY <2>7, <2>8, <3>3
      <4>2. CASE i = Len(list)
        <5>1. k = Len(new) /\ p.end = Infinity
          BY <1>1, <2>1, <2>5, <2>7, <3>3, <4>2
        <5> QED
          BY <2>5, <4>1, <5>1, InfinityAssumption
      <4>3. CASE i # Len(list)
        <5>1. k # Len(new) /\ k + 1 \in 1 .. Len(new) /\ i < Len(list)
          BY <1>1, <2>1, <2>7, <3>3, <4>3
        <5>2. new[k + 1].start = list[i + 1].start
          BY <2>1, <2>a, <3>3, <5>1
        <5>3. list[i + 1].start > time /\ list[i + 1].start \in Nat
          BY <1>1, <2>1, <2>4, <5>1
        <5> QED
          BY <2>5, <4>1, <5>1, <5>2, <5>3
      <4> QED
        BY <4>2, <4>3
    <3>4. CASE k > i + 1
      <4>1. k - 1 \in 1 .. Len(list) /\ new[k] = list[k - 1]
        BY <2>7, <2>8, <3>4
      <4>2. CASE k = Len(new)
        <5>1. k - 1 = Len(list)
          BY <1>1, <2>7, <4>2
        <5> QED
          BY <2>9, <4>1, <4>2, <5>1
      <4>3. CASE k # Len(new)
        <5>1. k + 1 \in 1 .. Len(new) /\ k - 1 # Len(list) /\ (k - 1) + 1 = k /\ (k + 1) - 1 = k
              /\ k + 1 > i + 1
          BY <2>n, <3>4, <4>3
        <5>2. new[k + 1].start = list[k].start
          BY SMTT(30), <2>n, <2>a, <5>1
        <5> QED
          BY <2>9, <4>1, <4>3, <5>1, <5>2
      <4> QED
        BY <4>2, <4>3
    <3> QED
      BY <1>1, <2>1, <2>7, <3>1, <3>2, <3>3, <3>4
  <2>d. ReadsAreInside(new)
    <3> SUFFICES ASSUME NEW k \in 1 .. Len(new), NEW r \in new[k].reads
                 PROVE  new[k].start <= r.time /\ r.time < new[k].end
      BY DEF ReadsAreInside
    <3>1. \A j \in 1 .. Len(list) : \A q \in list[j].reads :
            list[j].start <= q.time /\ q.time < list[j].end
      BY DEF ListInv, ReadsAreInside
    <3>2. CASE k < i
      BY <2>7, <2>8, <3>1, <3>2
    <3>3. CASE k = i
      <4>1. r \in list[i].reads /\ ~(r.time >= time)
        BY <2>3, <2>7, <2>8, <3>3 DEF ReadsFrom
      <4>2. r.time \in Nat
        BY <1>1, <2>1, <4>1
      <4> QED
        BY <2>1, <2>3, <2>7, <2>8, <3>1, <3>3, <4>1, <4>2
    <3>4. CASE k = i + 1
      BY <2>5, <2>7, <2>8, <3>4
    <3>5. CASE k > i + 1
      BY <2>7, <2>8, <3>1, <3>5
    <3> QED
      BY <1>1, <2>1, <2>7, <3>2, <3>3, <3>4, <3>5
  <2>e. ListInv(new, values, readers)
    BY <2>7, <2>b, <2>c, <2>d, EndsSuffice DEF P
  <2> QED
    BY <2>e DEF new
<1> QED
  BY <1>2, <1>3

\* The period before an undone one takes its end (StateVariable::PerformWriteRollback).
LEMMA PerformWriteRollbackKeepsList ==
  ASSUME NEW values, NEW readers, NEW list, ListInv(list, values, readers), NEW time \in Nat,
         StartingAt(list, time) # 0
  PROVE  ListInv(PerformWriteRollback(list, time), values, readers)
<1> DEFINE P      == PeriodsOf(values, readers)
           i      == StartingAt(list, time)
           end    == IF i = Len(list) THEN Infinity ELSE list[i].end
           merged == IF i = 1 THEN list ELSE [list EXCEPT ![i - 1].end = end]
           new    == PerformWriteRollback(list, time)
<1>1. /\ list \in Seq(P) /\ Len(list) \in Nat
      /\ \A k \in 1 .. Len(list) :
           /\ list[k] \in P
           /\ list[k].start \in Nat /\ list[k].end \in Nat
           /\ list[k].reads \in SUBSET [agent : readers, time : Nat]
  BY ListType DEF ListInv
<1>2. i \in 1 .. Len(list)
  BY <1>1, StartingAtIsFirst DEF ListInv
<1>3. new = RemoveAt(merged, i)
  BY DEF PerformWriteRollback
<1>4. \A k \in 1 .. Len(list) :
        /\ list[k].end = IF k = Len(list) THEN Infinity ELSE list[k + 1].start
        /\ list[k].start <= list[k].end /\ list[k].end <= Infinity
  BY Ends
<1>5. \A j, k \in 1 .. Len(list) : j <= k => list[j].start <= list[k].start
  BY DEF ListInv, InOrder
<1>6. end = list[i].end
  BY <1>2, <1>4
<1>7. /\ merged \in Seq(P) /\ Len(merged) = Len(list)
      /\ \A k \in 1 .. Len(list) :
           /\ merged[k].start = list[k].start /\ merged[k].reads = list[k].reads
           /\ merged[k].end = IF k = i - 1 THEN end ELSE list[k].end
  <2>1. CASE i = 1
    BY <1>1, <2>1
  <2>2. CASE i # 1
    <3> DEFINE p == [list[i - 1] EXCEPT !.end = end]
    <3>1. i - 1 \in 1 .. Len(list)
      BY <1>1, <1>2, <2>2
    <3>2. /\ p \in P
          /\ p.start = list[i - 1].start /\ p.reads = list[i - 1].reads /\ p.end = end
      BY <1>1, <1>2, <1>6, <3>1 DEF PeriodsOf
    <3>3. merged = [list EXCEPT ![i - 1] = p]
      BY <2>2
    <3> DEFINE before == i - 1
    <3> HIDE DEF p, P, merged, end, i
    <3>4. before \in 1 .. Len(list)
      BY <3>1
    <3> HIDE DEF before
    <3>5. /\ [list EXCEPT ![before] = p] \in Seq(P)
          /\ Len([list EXCEPT ![before] = p]) = Len(list)
          /\ \A k \in 1 .. Len(list) :
               [list EXCEPT ![before] = p][k] = IF k = before THEN p ELSE list[k]
      BY <1>1, <3>2, <3>4, ExceptPeriod DEF P
    <3> QED
      BY <3>2, <3>3, <3>5 DEF before
  <2> QED
    BY <2>1, <2>2
<1> HIDE DEF i, merged, end, new, P
<1>8. /\ new \in Seq(P) /\ Len(new) = Len(list) - 1
      /\ \A k \in 1 .. Len(list) - 1 : new[k] = IF k < i THEN merged[k] ELSE merged[k + 1]
  <2>1. i \in 1 .. Len(merged)
    BY <1>2, <1>7
  <2>2. RemoveAt(merged, i) \in Seq(P)
    BY <1>7, <2>1, RemoveAtSeq
  <2>3. Len(RemoveAt(merged, i)) = Len(merged) - 1
    BY <1>7, <2>1, RemoveAtSeq
  <2>4. \A k \in 1 .. Len(merged) - 1 :
          RemoveAt(merged, i)[k] = IF k < i THEN merged[k] ELSE merged[k + 1]
    BY <1>7, <2>1, RemoveAtSeq
  <2> QED
    BY <1>3, <1>7, <2>2, <2>3, <2>4
<1>n. Len(new) = Len(list) - 1 /\ i \in Nat /\ Len(list) \in Nat /\ i # 0 /\ i <= Len(list)
  BY <1>1, <1>2, <1>8
<1>9. \A k \in 1 .. Len(new) :
        /\ k < i => /\ k \in 1 .. Len(list)
                    /\ new[k].start = list[k].start /\ new[k].reads = list[k].reads
                    /\ new[k].end = IF k = i - 1 THEN list[i].end ELSE list[k].end
        /\ k >= i => /\ k + 1 \in 1 .. Len(list)
                     /\ new[k].start = list[k + 1].start /\ new[k].reads = list[k + 1].reads
                     /\ new[k].end = list[k + 1].end
  <2> SUFFICES ASSUME NEW k \in 1 .. Len(new)
               PROVE  /\ k < i => /\ k \in 1 .. Len(list)
                                  /\ new[k].start = list[k].start /\ new[k].reads = list[k].reads
                                  /\ new[k].end = IF k = i - 1 THEN list[i].end ELSE list[k].end
                      /\ k >= i => /\ k + 1 \in 1 .. Len(list)
                                   /\ new[k].start = list[k + 1].start
                                   /\ new[k].reads = list[k + 1].reads
                                   /\ new[k].end = list[k + 1].end
    OBVIOUS
  <2>1. k < i => k \in 1 .. Len(list) /\ new[k] = merged[k]
    BY <1>n, <1>8
  <2>2. k >= i => k + 1 \in 1 .. Len(list) /\ k + 1 # i - 1 /\ new[k] = merged[k + 1]
    BY <1>n, <1>8
  <2> QED
    BY <1>6, <1>7, <2>1, <2>2
<1>a. InOrder(new)
  <2> SUFFICES ASSUME NEW j \in 1 .. Len(new), NEW k \in 1 .. Len(new), j <= k
               PROVE  new[j].start <= new[k].start
    BY DEF InOrder
  <2>1. CASE k < i
    <3>1. j < i
      BY <1>n, <2>1
    <3>2. /\ j \in 1 .. Len(list) /\ new[j].start = list[j].start
          /\ k \in 1 .. Len(list) /\ new[k].start = list[k].start
      BY <1>9, <2>1, <3>1
    <3> QED
      BY <1>5, <3>2
  <2>2. CASE k >= i /\ j < i
    <3>1. j <= k + 1
      BY <1>n
    <3>2. /\ j \in 1 .. Len(list) /\ new[j].start = list[j].start
          /\ k + 1 \in 1 .. Len(list) /\ new[k].start = list[k + 1].start
      BY <1>9, <2>2
    <3> QED
      BY <1>5, <3>1, <3>2
  <2>3. CASE k >= i /\ j >= i
    <3>1. j + 1 <= k + 1
      BY <1>n
    <3>2. /\ j + 1 \in 1 .. Len(list) /\ new[j].start = list[j + 1].start
          /\ k + 1 \in 1 .. Len(list) /\ new[k].start = list[k + 1].start
      BY <1>9, <2>3
    <3> QED
      BY <1>5, <3>1, <3>2
  <2> QED
    BY <1>n, <2>1, <2>2, <2>3
<1>b. ASSUME NEW k \in 1 .. Len(new)
      PROVE  /\ new[k].end = IF k = Len(new) THEN Infinity ELSE new[k + 1].start
             /\ new[k].start <= new[k].end
  <2>1. CASE k < i - 1
    <3>1. /\ k < i /\ k # i - 1 /\ k # Len(new) /\ k # Len(list)
          /\ k + 1 \in 1 .. Len(new) /\ k + 1 < i
      BY <1>n, <2>1
    <3> QED
      BY <1>4, <1>9, <3>1
  <2>2. CASE k = i - 1
    <3>1. k < i /\ k + 1 = i /\ i >= i
      BY <1>n, <2>2
    <3>2. new[k].end = list[i].end /\ new[k].start = list[k].start /\ k \in 1 .. Len(list)
      BY <1>9, <2>2, <3>1
    <3>3. list[k].start <= list[i].start /\ list[i].start <= list[i].end
      BY <1>2, <1>4, <1>5, <3>1, <3>2, <1>n
    <3>4. new[k].start <= new[k].end
      BY <1>1, <1>2, <3>2, <3>3
    <3>5. CASE i = Len(list)
      <4>1. k = Len(new)
        BY <1>n, <2>2, <3>5
      <4> QED
        BY <1>2, <1>4, <3>2, <3>4, <3>5, <4>1
    <3>6. CASE i # Len(list)
      <4>1. k # Len(new) /\ i \in 1 .. Len(new) /\ k + 1 = i
        BY <1>n, <2>2, <3>6
      <4>2. new[k + 1].start = list[i + 1].start
        BY <1>9, <3>1, <4>1
      <4> QED
        BY <1>2, <1>4, <3>2, <3>4, <3>6, <4>1, <4>2
    <3> QED
      BY <3>5, <3>6
  <2>3. CASE k >= i
    <3>1. /\ k + 1 \in 1 .. Len(list) /\ new[k].end = list[k + 1].end
          /\ new[k].start = list[k + 1].start
      BY <1>9, <2>3
    <3>2. CASE k = Len(new)
      <4>1. k + 1 = Len(list)
        BY <1>n, <3>2
      <4> QED
        BY <1>4, <3>1, <3>2, <4>1
    <3>3. CASE k # Len(new)
      <4>1. k + 1 # Len(list) /\ k + 1 \in 1 .. Len(new) /\ k + 1 >= i
        BY <1>n, <2>3, <3>3
      <4>2. new[k + 1].start = list[(k + 1) + 1].start
        BY <1>9, <4>1
      <4> QED
        BY <1>4, <3>1, <3>3, <4>1, <4>2
    <3> QED
      BY <3>2, <3>3
  <2> QED
    BY <1>n, <2>1, <2>2, <2>3
<1>c. ReadsAreInside(new)
  <2> SUFFICES ASSUME NEW k \in 1 .. Len(new), NEW r \in new[k].reads
               PROVE  new[k].start <= r.time /\ r.time < new[k].end
    BY DEF ReadsAreInside
  <2>1. \A j \in 1 .. Len(list) : \A q \in list[j].reads :
          q.time \in Nat /\ list[j].start <= q.time /\ q.time < list[j].end
    BY <1>1 DEF ListInv, ReadsAreInside
  <2>2. CASE k < i - 1
    <3>1. k < i /\ k # i - 1
      BY <1>n, <2>2
    <3> QED
      BY <1>9, <2>1, <3>1
  <2>3. CASE k = i - 1
    <3>1. k < i /\ k + 1 = i /\ k # Len(list)
      BY <1>n, <2>3
    <3>2. /\ k \in 1 .. Len(list) /\ new[k].start = list[k].start
          /\ new[k].end = list[i].end /\ r \in list[k].reads
      BY <1>9, <2>3, <3>1
    <3>3. list[k].end = list[i].start /\ list[i].start <= list[i].end
      BY <1>2, <1>4, <3>1, <3>2
    <3> QED
      BY <1>1, <1>2, <2>1, <3>2, <3>3
  <2>4. CASE k >= i
    BY <1>9, <2>1, <2>4
  <2> QED
    BY <1>n, <2>2, <2>3, <2>4
<1>d. ListInv(new, values, readers)
  BY <1>8, <1>a, <1>b, <1>c, EndsSuffice DEF P
<1> QED
  BY <1>d DEF new

\* The list starts at GVT (StateVariable::RemoveWritePeriods).
LEMMA RemoveWritePeriodsKeepsList ==
  ASSUME NEW values, NEW readers, NEW list, ListInv(list, values, readers),
         NEW limit \in Nat, limit < Infinity
  PROVE  ListInv(RemoveWritePeriods(list, limit), values, readers)
<1> DEFINE P   == PeriodsOf(values, readers)
           i   == Covering(list, limit)
           p   == [list[i] EXCEPT !.start = limit, !.reads = {r \in @ : r.time >= limit}]
           cut == [list EXCEPT ![i] = p]
           f   == StartingAt(cut, limit)
           new == SubSeq(cut, f, Len(cut))
<1>1. /\ list \in Seq(P) /\ Len(list) \in Nat
      /\ \A k \in 1 .. Len(list) :
           /\ list[k] \in P
           /\ list[k].start \in Nat /\ list[k].end \in Nat
           /\ list[k].reads \in SUBSET [agent : readers, time : Nat]
  BY ListType DEF ListInv
<1>2. /\ i \in 0 .. Len(list)
      /\ i # 0 => list[i].start <= limit
      /\ \A k \in 1 .. Len(list) : k > i => list[k].start > limit
  BY CoveringIsLast DEF ListInv
<1>3. RemoveWritePeriods(list, limit) = IF i = 0 THEN list ELSE new
  BY DEF RemoveWritePeriods
<1> HIDE DEF i
<1>4. \A k \in 1 .. Len(list) :
        /\ list[k].end = IF k = Len(list) THEN Infinity ELSE list[k + 1].start
        /\ list[k].start <= list[k].end /\ list[k].end <= Infinity
  BY Ends
<1>5. \A j, k \in 1 .. Len(list) : j <= k => list[j].start <= list[k].start
  BY DEF ListInv, InOrder
<1>6. ASSUME i # 0 PROVE ListInv(new, values, readers)
  <2>1. /\ i \in 1 .. Len(list) /\ i \in Nat /\ i <= Len(list) /\ i >= 1
    BY <1>1, <1>2, <1>6
  <2>2. /\ p \in P /\ p.start = limit /\ p.end = list[i].end
        /\ p.reads = {r \in list[i].reads : r.time >= limit}
    BY <1>1, <2>1 DEF PeriodsOf
  <2> HIDE DEF p
  <2>3. /\ cut \in Seq(P) /\ Len(cut) = Len(list)
        /\ \A k \in 1 .. Len(list) : cut[k] = IF k = i THEN p ELSE list[k]
    BY <1>1, <2>1, <2>2, ExceptPeriod
  <2> HIDE DEF cut
  <2>4. f \in 1 .. i /\ cut[f].start = limit
    <3>2. /\ f \in 0 .. Len(cut)
          /\ f # 0 => cut[f].start = limit
          /\ \A k \in 1 .. Len(cut) : cut[k].start = limit => f # 0 /\ f <= k
      BY <2>3, StartingAtIsFirst
    <3>3. cut[i].start = limit /\ i \in 1 .. Len(cut)
      BY <2>1, <2>2, <2>3
    <3> HIDE DEF f
    <3> QED
      BY <2>1, <3>2, <3>3
  <2> HIDE DEF f
  <2> DEFINE n == Len(list) - f + 1
  <2>5. f \in Nat /\ n \in Nat /\ n >= 1 /\ f >= 1 /\ f <= i
    BY <1>1, <2>1, <2>4
  <2>6. /\ new \in Seq(P) /\ Len(new) = n
        /\ \A k \in 1 .. n : new[k] = cut[f + k - 1]
    <3>1. \A k \in f .. Len(cut) : cut[k] \in P
      BY <2>3, <2>5, ElementOfSeq
    <3>2. Len(cut) \in Nat /\ f \in 1 .. Len(cut) + 1
      BY <1>1, <2>1, <2>3, <2>4
    <3> HIDE DEF P
    <3> QED
      BY <2>3, <3>1, <3>2, SubSeqProperties
  <2> HIDE DEF new, P
  <2>7. \A k \in 1 .. Len(new) :
          /\ f + k - 1 \in 1 .. Len(list)
          /\ new[k].end = list[f + k - 1].end
          /\ f + k - 1 # i => new[k].start = list[f + k - 1].start
          /\ f + k - 1 # i => new[k].reads = list[f + k - 1].reads
          /\ f + k - 1 = i => /\ new[k].start = limit
                              /\ new[k].reads = {r \in list[i].reads : r.time >= limit}
    <3> SUFFICES ASSUME NEW k \in 1 .. Len(new)
                 PROVE  /\ f + k - 1 \in 1 .. Len(list)
                        /\ new[k].end = list[f + k - 1].end
                        /\ f + k - 1 # i => new[k].start = list[f + k - 1].start
                        /\ f + k - 1 # i => new[k].reads = list[f + k - 1].reads
                        /\ f + k - 1 = i => /\ new[k].start = limit
                                            /\ new[k].reads = {r \in list[i].reads : r.time >= limit}
      OBVIOUS
    <3>1. f + k - 1 \in 1 .. Len(list)
      BY <1>1, <2>1, <2>5, <2>6
    <3>2. new[k] = IF f + k - 1 = i THEN p ELSE list[f + k - 1]
      BY <2>3, <2>6, <3>1
    <3> QED
      BY <2>2, <3>1, <3>2
  \* The periods left that start before the one cut start at GVT already.
  <2>8. \A k \in 1 .. Len(list) : k >= f /\ k < i => list[k].start = limit
    <3> SUFFICES ASSUME NEW k \in 1 .. Len(list), k >= f, k < i PROVE list[k].start = limit
      OBVIOUS
    <3>1. f \in 1 .. Len(list) /\ f # i
      BY <1>1, <2>1, <2>5
    <3>2. list[f].start = limit
      BY <2>3, <2>4, <3>1
    <3>3. list[f].start <= list[k].start /\ list[k].start <= list[i].start
      BY <1>5, <2>1, <3>1
    <3> QED
      BY <1>1, <1>2, <2>1, <3>2, <3>3
  <2> DEFINE at(k) == f + k - 1
  <2>9. \A k \in 1 .. Len(new) :
          /\ at(k) \in 1 .. Len(list) /\ new[k].end = list[at(k)].end
          /\ at(k) <= i => new[k].start = limit
          /\ at(k) > i => new[k].start = list[at(k)].start /\ list[at(k)].start > limit
    <3> SUFFICES ASSUME NEW k \in 1 .. Len(new)
                 PROVE  /\ at(k) \in 1 .. Len(list) /\ new[k].end = list[at(k)].end
                        /\ at(k) <= i => new[k].start = limit
                        /\ at(k) > i => new[k].start = list[at(k)].start /\ list[at(k)].start > limit
      OBVIOUS
    <3>1. at(k) >= f
      BY <2>5
    <3>2. /\ at(k) \in 1 .. Len(list) /\ new[k].end = list[at(k)].end
          /\ at(k) # i => new[k].start = list[at(k)].start
          /\ at(k) = i => new[k].start = limit
      BY <2>7
    <3> HIDE DEF at
    <3> QED
      BY <1>1, <1>2, <2>1, <2>8, <3>1, <3>2
  <2>a. InOrder(new)
    <3> SUFFICES ASSUME NEW j \in 1 .. Len(new), NEW k \in 1 .. Len(new), j <= k
                 PROVE  new[j].start <= new[k].start
      BY DEF InOrder
    <3>1. at(j) <= at(k)
      BY <2>5
    <3>2. /\ at(j) \in 1 .. Len(list) /\ at(k) \in 1 .. Len(list)
          /\ at(j) <= i => new[j].start = limit
          /\ at(k) <= i => new[k].start = limit
          /\ at(j) > i => new[j].start = list[at(j)].start /\ list[at(j)].start > limit
          /\ at(k) > i => new[k].start = list[at(k)].start /\ list[at(k)].start > limit
      BY <2>9
    <3> HIDE DEF at
    <3> QED
      BY <1>1, <1>5, <2>1, <3>1, <3>2
  <2>b. ASSUME NEW k \in 1 .. Len(new)
        PROVE  /\ new[k].end = IF k = Len(new) THEN Infinity ELSE new[k + 1].start
               /\ new[k].start <= new[k].end
    <3>1. /\ at(k) \in 1 .. Len(list) /\ new[k].end = list[at(k)].end
          /\ at(k) <= i => new[k].start = limit
          /\ at(k) > i => new[k].start = list[at(k)].start /\ list[at(k)].start > limit
      BY <2>9
    <3>2. k = Len(new) <=> at(k) = Len(list)
      BY <1>1, <2>5, <2>6
    <3>3. CASE k = Len(new)
      <4>1. new[k].end = Infinity
        BY <1>4, <3>1, <3>2, <3>3
      <4>2. CASE at(k) <= i
        BY <3>1, <3>3, <4>1, <4>2, InfinityAssumption
      <4>3. CASE at(k) > i
        <5>1. list[at(k)].start <= list[at(k)].end /\ list[at(k)].end = Infinity
          BY <1>4, <3>1, <4>1
        <5> QED
          BY <3>1, <3>3, <4>1, <4>3, <5>1
      <4> QED
        <5>1. at(k) \in Nat
          BY <3>1, <1>1
        <5> QED
          BY <2>1, <4>2, <4>3, <5>1
    <3>4. CASE k # Len(new)
      <4>1. k + 1 \in 1 .. Len(new) /\ at(k + 1) = at(k) + 1
        <5>1. Len(new) \in Nat
          BY <2>5, <2>6
        <5>2. k + 1 \in 1 .. Len(new)
          BY <3>4, <5>1
        <5> QED
          BY <2>5, <5>2
      <4>2. /\ at(k) + 1 \in 1 .. Len(list)
            /\ at(k) + 1 <= i => new[k + 1].start = limit
            /\ at(k) + 1 > i => new[k + 1].start = list[at(k) + 1].start
                                /\ list[at(k) + 1].start > limit
        <5>1. /\ at(k + 1) \in 1 .. Len(list)
              /\ at(k + 1) <= i => new[k + 1].start = limit
              /\ at(k + 1) > i => new[k + 1].start = list[at(k + 1)].start
                                  /\ list[at(k + 1)].start > limit
          BY <2>9, <4>1
        <5> HIDE DEF at
        <5> QED
          BY <4>1, <5>1
      <4>3. new[k].end = list[at(k) + 1].start
        <5> HIDE DEF at
        <5> QED
          BY <1>4, <3>1, <3>2, <3>4
      <4>4. at(k) >= f
        BY <2>5
      <4>5. CASE at(k) + 1 <= i
        \* The next period starts at GVT, and so does this one.
        <5>1. list[at(k) + 1].start = limit \/ at(k) + 1 = i
          <6> HIDE DEF at
          <6>1. at(k) \in Nat /\ f \in Nat /\ i \in Nat
            BY <1>1, <2>1, <2>5, <3>1
          <6>2. at(k) + 1 >= f
            BY <4>4, <6>1
          <6>3. at(k) + 1 < i => list[at(k) + 1].start = limit
            BY <2>8, <4>2, <6>2
          <6> QED
            BY <4>5, <6>1, <6>3
        <5>2. list[at(k)].start = limit
          <6> HIDE DEF at
          <6> QED
            BY <1>1, <2>1, <2>5, <2>8, <3>1, <4>4, <4>5
        <5>3. list[at(k) + 1].start = limit
          <6>1. at(k) + 1 = i => list[at(k)].start <= list[i].start /\ list[i].start <= limit
            <7> HIDE DEF at
            <7> QED
              BY <1>1, <1>2, <1>5, <1>6, <2>1, <3>1
          <6> HIDE DEF at
          <6> QED
            BY <1>1, <2>1, <5>1, <5>2, <6>1
        <5> HIDE DEF at
        <5> QED
          BY <1>1, <2>1, <3>1, <3>4, <4>2, <4>3, <4>5, <5>3
      <4>6. CASE ~(at(k) + 1 <= i)
        <5>1. new[k + 1].start = list[at(k) + 1].start /\ list[at(k) + 1].start > limit
          <6> HIDE DEF at
          <6> QED
            BY <1>1, <2>1, <3>1, <4>2, <4>6
        <5>2. list[at(k)].start <= list[at(k)].end
          <6> HIDE DEF at
          <6> QED
            BY <1>4, <3>1
        <5> HIDE DEF at
        <5> QED
          BY <1>1, <2>1, <3>1, <3>4, <4>2, <4>3, <5>1, <5>2
      <4> QED
        BY <4>5, <4>6
    <3> QED
      BY <3>3, <3>4
  <2>c. ReadsAreInside(new)
    <3> SUFFICES ASSUME NEW k \in 1 .. Len(new), NEW r \in new[k].reads
                 PROVE  new[k].start <= r.time /\ r.time < new[k].end
      BY DEF ReadsAreInside
    <3>1. \A j \in 1 .. Len(list) : \A q \in list[j].reads :
            q.time \in Nat /\ list[j].start <= q.time /\ q.time < list[j].end
      BY <1>1 DEF ListInv, ReadsAreInside
    <3>2. CASE at(k) = i
      <4>1. new[k].start = limit /\ r \in list[i].reads /\ r.time >= limit /\ new[k].end = list[i].end
        BY <2>7, <3>2
      <4> QED
        BY <2>1, <3>1, <4>1
    <3>3. CASE at(k) # i
      BY <2>7, <3>1, <3>3
    <3> QED
      BY <3>2, <3>3
  <2> QED
    BY <2>6, <2>a, <2>b, <2>c, EndsSuffice DEF P
<1> HIDE DEF new
<1> QED
  BY <1>3, <1>6

\* What the invariant says in the terms of WritePeriods.
LEMMA ListInvMeans ==
  ASSUME NEW values, NEW readers \in SUBSET LpId, NEW list, ListInv(list, values, readers)
  PROVE  IsWritePeriodList(list, values) /\ IsPartition(list) /\ ReadsAreInside(list)
<1> DEFINE All == [start : Nat, end : Nat, value : values, agent : LpId,
                   reads : SUBSET [agent : LpId, time : Nat]]
<1>1. PeriodsOf(values, readers) \subseteq All
  BY DEF PeriodsOf
<1> HIDE DEF All
<1>2. list \in Seq(All)
  BY <1>1, SeqMonotonic DEF ListInv
<1> QED
  BY <1>2 DEF ListInv, IsWritePeriodList, All

\* Whoever read a period that a write cuts, or that is undone, is a reader of the list.
LEMMA RequestsType ==
  ASSUME NEW values, NEW readers, NEW list, ListInv(list, values, readers), NEW time \in Nat
  PROVE  /\ list = <<>> \/ Covering(list, time) # 0 =>
              ReadsToRollBack(list, time) \in SUBSET [agent : readers, time : Nat]
         /\ StartingAt(list, time) # 0 =>
              ReadsOfUndone(list, time) \in SUBSET [agent : readers, time : Nat]
<1>1. /\ Len(list) \in Nat
      /\ \A k \in 1 .. Len(list) : list[k].reads \in SUBSET [agent : readers, time : Nat]
  BY ListType DEF ListInv
<1>2. Covering(list, time) # 0 => Covering(list, time) \in 1 .. Len(list)
  BY <1>1, CoveringIsLast DEF ListInv
<1>3. StartingAt(list, time) # 0 => StartingAt(list, time) \in 1 .. Len(list)
  BY <1>1, StartingAtIsFirst DEF ListInv
<1> QED
  BY <1>1, <1>2, <1>3 DEF ReadsToRollBack, ReadsOfUndone, ReadsFrom

\* A rollback list names readers that asked, each with a time.
LEMMA AddLpType ==
  ASSUME NEW readers \in SUBSET LpId, NEW requests \in SUBSET [agent : readers, time : Nat],
         NEW rollbacks \in AddLp(requests)
  PROVE  /\ DOMAIN rollbacks \subseteq readers
         /\ \A a \in DOMAIN rollbacks : rollbacks[a] \in Nat
<1> DEFINE askers == {q.agent : q \in requests}
<1>1. PICK named \in SUBSET askers : rollbacks = [a \in named |-> EarliestFor(requests, a)]
  BY DEF AddLp
<1>2. ASSUME NEW a \in named PROVE EarliestFor(requests, a) \in Nat
  <2> DEFINE times == {q.time : q \in {p \in requests : IsSameKey(p.agent, a)}}
  <2>1. PICK q \in requests : q.agent = a
    BY <1>1
  <2>2. IsSameKey(q.agent, a)
    BY <2>1 DEF IsSameKey, IsLess, LpId
  <2>3. times \in SUBSET Nat /\ times # {}
    BY <2>1, <2>2
  <2> HIDE DEF times
  <2>4. Min(times) \in times
    BY <2>3, MinOfSet
  <2> QED
    BY <2>3, <2>4 DEF EarliestFor, times
<1>3. askers \subseteq readers
  OBVIOUS
<1> HIDE DEF askers
<1> QED
  BY <1>1, <1>2, <1>3

-----------------------------------------------------------------------------
(* Reads on record: which value each agent read at which time.             *)

Recorded(list, value, agent, time) ==
  \E k \in 1 .. Len(list) :
     list[k].value = value /\ [agent |-> agent, time |-> time] \in list[k].reads

\* A read on record is found from its time.
LEMMA RecordedIsCovered ==
  ASSUME NEW values, NEW readers, NEW list, ListInv(list, values, readers),
         NEW value, NEW agent, NEW time \in Nat, Recorded(list, value, agent, time)
  PROVE  /\ Covering(list, time) # 0
         /\ list[Covering(list, time)].value = value
         /\ [agent |-> agent, time |-> time] \in list[Covering(list, time)].reads
<1> DEFINE i == Covering(list, time)
<1>1. /\ Len(list) \in Nat
      /\ \A k \in 1 .. Len(list) : list[k].start \in Nat /\ list[k].end \in Nat
  BY ListType DEF ListInv
<1>2. /\ i \in 0 .. Len(list)
      /\ i # 0 => list[i].start <= time
      /\ \A k \in 1 .. Len(list) : k > i => list[k].start > time
  BY CoveringIsLast DEF ListInv
<1> HIDE DEF i
<1>3. PICK k \in 1 .. Len(list) :
        list[k].value = value /\ [agent |-> agent, time |-> time] \in list[k].reads
  BY DEF Recorded
<1>4. list[k].start <= time /\ time < list[k].end
  BY <1>3 DEF ListInv, ReadsAreInside
<1>5. k <= i /\ i \in 1 .. Len(list)
  BY <1>1, <1>2, <1>4
<1>6. k = i
  <2> SUFFICES ASSUME k # i PROVE FALSE
    OBVIOUS
  <2>1. k + 1 \in 1 .. Len(list) /\ k + 1 <= i
    BY <1>1, <1>5
  <2>2. list[k].end = list[k + 1].start
    BY <1>1, <2>1, Ends
  <2>3. list[k + 1].start <= list[i].start
    BY <1>5, <2>1 DEF ListInv, InOrder
  <2> QED
    BY <1>1, <1>2, <1>4, <1>5, <2>1, <2>2, <2>3
<1> QED
  BY <1>3, <1>5, <1>6 DEF i

\* StateVariable::Read puts the read on record, and leaves the others there.
LEMMA NoteReadRecords ==
  ASSUME NEW values, NEW readers, NEW list, ListInv(list, values, readers),
         NEW agent \in readers, NEW time \in Nat, Covering(list, time) # 0
  PROVE  /\ Recorded(NoteRead(list, agent, time), ReadValue(list, time), agent, time)
         /\ \A v, b, t : Recorded(list, v, b, t) => Recorded(NoteRead(list, agent, time), v, b, t)
<1> DEFINE i     == Covering(list, time)
           reads == list[i].reads \union {[agent |-> agent, time |-> time]}
           p     == [list[i] EXCEPT !.reads = reads]
           new   == NoteRead(list, agent, time)
<1>1. /\ Len(list) \in Nat
      /\ \A k \in 1 .. Len(list) : /\ list[k] \in PeriodsOf(values, readers)
                                   /\ list[k].reads \in SUBSET [agent : readers, time : Nat]
  BY ListType DEF ListInv
<1>2. i \in 1 .. Len(list)
  BY <1>1, CoveringIsLast DEF ListInv
<1>3. new = [list EXCEPT ![i] = p] /\ ReadValue(list, time) = list[i].value
  BY DEF NoteRead, ReadValue
<1> HIDE DEF i, new
<1>4. p \in PeriodsOf(values, readers) /\ p.value = list[i].value /\ p.reads = reads
  BY <1>1, <1>2 DEF PeriodsOf
<1> HIDE DEF p
<1>5. /\ Len(new) = Len(list)
      /\ \A k \in 1 .. Len(list) : new[k] = IF k = i THEN p ELSE list[k]
  BY <1>2, <1>3, <1>4, ExceptPeriod DEF ListInv
<1>6. \A k \in 1 .. Len(list) : new[k].value = list[k].value /\ list[k].reads \subseteq new[k].reads
  BY <1>4, <1>5
<1>7. new[i].value = list[i].value /\ [agent |-> agent, time |-> time] \in new[i].reads
  BY <1>2, <1>4, <1>5
<1>8. Recorded(new, ReadValue(list, time), agent, time)
  BY <1>2, <1>3, <1>5, <1>7 DEF Recorded
<1>9. ASSUME NEW v, NEW b, NEW t, Recorded(list, v, b, t) PROVE Recorded(new, v, b, t)
  BY <1>5, <1>6, <1>9 DEF Recorded
<1> QED
  BY <1>8, <1>9 DEF new

\* StateVariable::PerformReadRollback takes no other read off the record.
LEMMA PerformReadRollbackRecords ==
  ASSUME NEW values, NEW readers, NEW list, ListInv(list, values, readers),
         NEW agent, NEW time \in Nat, Covering(list, time) # 0,
         NEW v, NEW b, NEW t, Recorded(list, v, b, t), b # agent \/ t # time
  PROVE  Recorded(PerformReadRollback(list, agent, time), v, b, t)
<1> DEFINE i     == Covering(list, time)
           reads == list[i].reads \ {[agent |-> agent, time |-> time]}
           p     == [list[i] EXCEPT !.reads = reads]
           new   == PerformReadRollback(list, agent, time)
<1>1. /\ Len(list) \in Nat
      /\ \A k \in 1 .. Len(list) : /\ list[k] \in PeriodsOf(values, readers)
                                   /\ list[k].reads \in SUBSET [agent : readers, time : Nat]
  BY ListType DEF ListInv
<1>2. i \in 1 .. Len(list)
  BY <1>1, CoveringIsLast DEF ListInv
<1>3. new = [list EXCEPT ![i] = p]
  BY DEF PerformReadRollback
<1> HIDE DEF i, new
<1>4. p \in PeriodsOf(values, readers) /\ p.value = list[i].value /\ p.reads = reads
  BY <1>1, <1>2 DEF PeriodsOf
<1> HIDE DEF p
<1>5. /\ Len(new) = Len(list)
      /\ \A k \in 1 .. Len(list) : new[k] = IF k = i THEN p ELSE list[k]
  BY <1>2, <1>3, <1>4, ExceptPeriod DEF ListInv
<1>6. PICK k \in 1 .. Len(list) :
        list[k].value = v /\ [agent |-> b, time |-> t] \in list[k].reads
  BY DEF Recorded
<1>7. [agent |-> b, time |-> t] # [agent |-> agent, time |-> time]
  OBVIOUS
<1>8. new[k].value = v /\ [agent |-> b, time |-> t] \in new[k].reads
  BY <1>4, <1>5, <1>6, <1>7
<1> QED
  BY <1>5, <1>8 DEF Recorded, new

\* StateVariable::WriteWithRollback takes off the record only reads that it
\* reports.
LEMMA WriteWithRollbackRecords ==
  ASSUME NEW values, NEW readers, NEW list, ListInv(list, values, readers),
         NEW agent \in LpId, NEW value \in values, NEW time \in Nat, time < Infinity,
         ~IsRefused(list, agent, time),
         NEW v, NEW b, NEW t, Recorded(list, v, b, t)
  PROVE  \/ Recorded(WriteWithRollback(list, agent, value, time), v, b, t)
         \/ [agent |-> b, time |-> t] \in ReadsToRollBack(list, time)
<1> DEFINE P      == PeriodsOf(values, readers)
           new    == WriteWithRollback(list, agent, value, time)
           i      == Covering(list, time)
           closed == [list[i] EXCEPT !.end = time, !.reads = @ \ ReadsFrom(list[i], time)]
           p      == [Period(value, time, agent) EXCEPT
                        !.end = IF i < Len(list) THEN list[i + 1].start ELSE @]
           cut    == [list EXCEPT ![i] = closed]
           read   == [agent |-> b, time |-> t]
<1>1. /\ list \in Seq(P) /\ Len(list) \in Nat
      /\ list # <<>> <=> Len(list) # 0
      /\ \A k \in 1 .. Len(list) :
           /\ list[k] \in P
           /\ list[k].start \in Nat /\ list[k].end \in Nat
           /\ list[k].reads \in SUBSET [agent : readers, time : Nat]
  BY ListType DEF ListInv
<1>2. PICK k \in 1 .. Len(list) : list[k].value = v /\ read \in list[k].reads
  BY DEF Recorded
<1>3. list # <<>>
  BY <1>1, <1>2
<1>4. i \in 1 .. Len(list)
  BY <1>1, <1>3, CoveringIsLast DEF ListInv, IsRefused
<1>5. new = InsertAt(cut, i + 1, p) /\ ReadsToRollBack(list, time) = ReadsFrom(list[i], time)
  BY <1>3 DEF WriteWithRollback, ReadsToRollBack
<1>6. /\ closed \in P /\ closed.value = list[i].value
      /\ closed.reads = list[i].reads \ ReadsFrom(list[i], time)
  BY <1>1, <1>4 DEF PeriodsOf
<1>7. i < Len(list) => i + 1 \in 1 .. Len(list)
  BY <1>1, <1>4
<1>8. p \in P
  BY <1>1, <1>4, <1>7, InfinityAssumption DEF PeriodsOf, Period
<1> HIDE DEF i, closed, p
<1>9. /\ cut \in Seq(P) /\ Len(cut) = Len(list)
      /\ \A j \in 1 .. Len(list) : cut[j] = IF j = i THEN closed ELSE list[j]
  BY <1>1, <1>4, <1>6, ExceptPeriod
<1> HIDE DEF cut, new
<1>10. /\ Len(new) = Len(list) + 1
       /\ \A j \in 1 .. Len(list) + 1 :
            new[j] = IF j < i + 1 THEN cut[j] ELSE IF j = i + 1 THEN p ELSE cut[j - 1]
  <2> DEFINE at == i + 1
  <2>1. at \in 1 .. Len(cut) + 1
    BY <1>1, <1>4, <1>9
  <2> HIDE DEF P, at
  <2>2. cut \in Seq(P) /\ p \in P
    BY <1>8, <1>9
  <2>3. /\ Len(InsertAt(cut, at, p)) = Len(cut) + 1
        /\ \A j \in 1 .. Len(cut) + 1 :
             InsertAt(cut, at, p)[j] = IF j < at THEN cut[j] ELSE IF j = at THEN p ELSE cut[j - 1]
    BY <2>1, <2>2, InsertAtSeq
  <2> QED
    BY <1>5, <1>9, <2>3 DEF at
<1> HIDE DEF P, read
<1>11. CASE k < i
  <2>1. k \in 1 .. Len(new) /\ new[k] = list[k]
    BY <1>1, <1>4, <1>9, <1>10, <1>11
  <2> QED
    BY <1>2, <2>1 DEF Recorded, new, read
<1>12. CASE k = i
  <2>1. k \in 1 .. Len(new) /\ new[k] = closed
    BY <1>1, <1>4, <1>9, <1>10, <1>12
  <2>2. read \in closed.reads \/ read \in ReadsFrom(list[i], time)
    BY <1>2, <1>6, <1>12
  <2> QED
    BY <1>2, <1>5, <1>6, <1>12, <2>1, <2>2 DEF Recorded, new, read
<1>13. CASE k > i
  <2>1. k + 1 \in 1 .. Len(new) /\ new[k + 1] = list[k]
    BY <1>1, <1>4, <1>9, <1>10, <1>13
  <2> QED
    BY <1>2, <2>1 DEF Recorded, new, read
<1> QED
  BY <1>1, <1>4, <1>11, <1>12, <1>13

\* StateVariable::PerformWriteRollback takes off the record only reads that it
\* reports, at their time or before.
LEMMA PerformWriteRollbackRecords ==
  ASSUME NEW values, NEW readers, NEW list, ListInv(list, values, readers), NEW time \in Nat,
         StartingAt(list, time) # 0,
         NEW v, NEW b, NEW t, Recorded(list, v, b, t)
  PROVE  \/ Recorded(PerformWriteRollback(list, time), v, b, t)
         \/ [agent |-> b, time |-> time] \in ReadsOfUndone(list, time) /\ time <= t
<1> DEFINE P      == PeriodsOf(values, readers)
           i      == StartingAt(list, time)
           end    == IF i = Len(list) THEN Infinity ELSE list[i].end
           merged == IF i = 1 THEN list ELSE [list EXCEPT ![i - 1].end = end]
           new    == PerformWriteRollback(list, time)
           read   == [agent |-> b, time |-> t]
<1>1. /\ list \in Seq(P) /\ Len(list) \in Nat
      /\ \A k \in 1 .. Len(list) :
           /\ list[k] \in P
           /\ list[k].start \in Nat /\ list[k].end \in Nat
           /\ list[k].reads \in SUBSET [agent : readers, time : Nat]
  BY ListType DEF ListInv
<1>2. i \in 1 .. Len(list) /\ list[i].start = time
  BY <1>1, StartingAtIsFirst DEF ListInv
<1>3. new = RemoveAt(merged, i)
  BY DEF PerformWriteRollback
<1>4. ReadsOfUndone(list, time) = {[agent |-> r.agent, time |-> time] : r \in list[i].reads}
  BY DEF ReadsOfUndone
<1>5. end \in Nat
  BY <1>1, <1>2, InfinityAssumption
<1>6. /\ merged \in Seq(P) /\ Len(merged) = Len(list)
      /\ \A k \in 1 .. Len(list) :
           merged[k].value = list[k].value /\ merged[k].reads = list[k].reads
  <2>1. CASE i = 1
    BY <1>1, <2>1
  <2>2. CASE i # 1
    <3> DEFINE p == [list[i - 1] EXCEPT !.end = end]
    <3>1. i - 1 \in 1 .. Len(list)
      BY <1>1, <1>2, <2>2
    <3>2. p \in P /\ p.value = list[i - 1].value /\ p.reads = list[i - 1].reads
      BY <1>1, <1>5, <3>1 DEF PeriodsOf
    <3>3. merged = [list EXCEPT ![i - 1] = p]
      BY <2>2
    <3> DEFINE before == i - 1
    <3> HIDE DEF p, P, merged, end, i
    <3>4. before \in 1 .. Len(list)
      BY <3>1
    <3> HIDE DEF before
    <3>5. /\ [list EXCEPT ![before] = p] \in Seq(P)
          /\ Len([list EXCEPT ![before] = p]) = Len(list)
          /\ \A k \in 1 .. Len(list) :
               [list EXCEPT ![before] = p][k] = IF k = before THEN p ELSE list[k]
      BY <1>1, <3>2, <3>4, ExceptPeriod DEF P
    <3> QED
      BY <3>2, <3>3, <3>5 DEF before
  <2> QED
    BY <2>1, <2>2
<1> HIDE DEF i, merged, end, new, P
<1>7. /\ Len(new) = Len(list) - 1
      /\ \A k \in 1 .. Len(list) - 1 : new[k] = IF k < i THEN merged[k] ELSE merged[k + 1]
  <2>1. i \in 1 .. Len(merged)
    BY <1>2, <1>6
  <2>2. /\ Len(RemoveAt(merged, i)) = Len(merged) - 1
        /\ \A k \in 1 .. Len(merged) - 1 :
             RemoveAt(merged, i)[k] = IF k < i THEN merged[k] ELSE merged[k + 1]
    BY <1>6, <2>1, RemoveAtSeq
  <2> QED
    BY <1>3, <1>6, <2>2
<1>8. PICK k \in 1 .. Len(list) : list[k].value = v /\ read \in list[k].reads
  BY DEF Recorded
<1>9. CASE k < i
  <2>1. k \in 1 .. Len(new) /\ new[k].value = v /\ read \in new[k].reads
    BY <1>1, <1>2, <1>6, <1>7, <1>8, <1>9
  <2> QED
    BY <2>1 DEF Recorded, new
<1>10. CASE k = i
  <2>1. list[i].start <= read.time
    BY <1>2, <1>8, <1>10 DEF ListInv, ReadsAreInside
  <2>2. [agent |-> read.agent, time |-> time] \in ReadsOfUndone(list, time)
    BY <1>4, <1>8, <1>10
  <2> QED
    BY <1>2, <2>1, <2>2
<1>11. CASE k > i
  <2>1. k - 1 \in 1 .. Len(list) - 1 /\ ~(k - 1 < i) /\ (k - 1) + 1 = k
    BY <1>1, <1>2, <1>11
  <2>2. k - 1 \in 1 .. Len(new) /\ new[k - 1] = merged[k]
    BY <1>7, <2>1
  <2>3. new[k - 1].value = v /\ read \in new[k - 1].reads
    BY <1>6, <1>8, <2>2
  <2> QED
    BY <2>2, <2>3 DEF Recorded, new
<1> QED
  BY <1>1, <1>2, <1>9, <1>10, <1>11

\* StateVariable::RemoveWritePeriods keeps the reads from GVT on.
LEMMA RemoveWritePeriodsRecords ==
  ASSUME NEW values, NEW readers, NEW list, ListInv(list, values, readers),
         NEW limit \in Nat, limit < Infinity,
         NEW v, NEW b, NEW t \in Nat, t >= limit, Recorded(list, v, b, t)
  PROVE  Recorded(RemoveWritePeriods(list, limit), v, b, t)
<1> DEFINE P    == PeriodsOf(values, readers)
           i    == Covering(list, limit)
           p    == [list[i] EXCEPT !.start = limit, !.reads = {r \in @ : r.time >= limit}]
           cut  == [list EXCEPT ![i] = p]
           f    == StartingAt(cut, limit)
           new  == SubSeq(cut, f, Len(cut))
           read == [agent |-> b, time |-> t]
<1>1. /\ list \in Seq(P) /\ Len(list) \in Nat
      /\ \A k \in 1 .. Len(list) :
           /\ list[k] \in P
           /\ list[k].start \in Nat /\ list[k].end \in Nat
           /\ list[k].reads \in SUBSET [agent : readers, time : Nat]
  BY ListType DEF ListInv
<1>2. /\ i \in 0 .. Len(list)
      /\ i # 0 => list[i].start <= limit
      /\ \A k \in 1 .. Len(list) : k > i => list[k].start > limit
  BY CoveringIsLast DEF ListInv
<1>3. RemoveWritePeriods(list, limit) = IF i = 0 THEN list ELSE new
  BY DEF RemoveWritePeriods
<1> HIDE DEF i
<1>4. ASSUME i # 0 PROVE Recorded(new, v, b, t)
  <2>1. i \in 1 .. Len(list)
    BY <1>1, <1>2, <1>4
  <2>2. /\ p \in P /\ p.start = limit /\ p.value = list[i].value
        /\ p.reads = {r \in list[i].reads : r.time >= limit}
    BY <1>1, <2>1 DEF PeriodsOf
  <2> HIDE DEF p
  <2>3. /\ cut \in Seq(P) /\ Len(cut) = Len(list)
        /\ \A k \in 1 .. Len(list) : cut[k] = IF k = i THEN p ELSE list[k]
    BY <1>1, <2>1, <2>2, ExceptPeriod
  <2> HIDE DEF cut
  <2>4. f \in 1 .. i
    <3>2. /\ f \in 0 .. Len(cut)
          /\ \A k \in 1 .. Len(cut) : cut[k].start = limit => f # 0 /\ f <= k
      BY <2>3, StartingAtIsFirst
    <3>3. cut[i].start = limit /\ i \in 1 .. Len(cut)
      BY <2>1, <2>2, <2>3
    <3> HIDE DEF f
    <3> QED
      BY <2>1, <3>2, <3>3
  <2> HIDE DEF f
  <2> DEFINE n == Len(list) - f + 1
  <2>5. f \in Nat /\ n \in Nat /\ n >= 1 /\ f >= 1 /\ f <= i
    BY <1>1, <2>1, <2>4
  <2>6. /\ Len(new) = n
        /\ \A k \in 1 .. n : new[k] = cut[f + k - 1]
    <3>1. \A k \in f .. Len(cut) : cut[k] \in P
      BY <2>3, <2>5, ElementOfSeq
    <3>2. Len(cut) \in Nat /\ f \in 1 .. Len(cut) + 1
      BY <1>1, <2>1, <2>3, <2>4
    <3> HIDE DEF P
    <3> QED
      BY <2>3, <3>1, <3>2, SubSeqProperties
  <2> HIDE DEF new, P
  <2>7. PICK k \in 1 .. Len(list) : list[k].value = v /\ read \in list[k].reads
    BY DEF Recorded
  <2>8. k >= i
    <3> SUFFICES ASSUME k < i PROVE FALSE
      BY <1>1, <2>1
    <3>1. k + 1 \in 1 .. Len(list) /\ k # Len(list) /\ k + 1 <= i
      BY <1>1, <2>1
    <3>2. t < list[k].end
      BY <2>7 DEF ListInv, ReadsAreInside
    <3>3. list[k].end = list[k + 1].start
      BY <3>1, Ends
    <3>4. list[k + 1].start <= list[i].start
      BY <2>1, <3>1 DEF ListInv, InOrder
    <3> QED
      BY <1>1, <1>2, <2>1, <3>1, <3>2, <3>3, <3>4
  <2>9. cut[k].value = v /\ read \in cut[k].reads
    BY <2>2, <2>3, <2>7
  <2> DEFINE at == k - f + 1
  <2>10. at \in 1 .. n /\ f + at - 1 = k
    BY <1>1, <2>1, <2>5, <2>8
  <2> HIDE DEF at, n
  <2>11. new[at] = cut[k]
    BY <2>6, <2>10
  <2> QED
    BY <2>6, <2>9, <2>10, <2>11 DEF Recorded
<1> HIDE DEF p, cut, f, new
<1> QED
  BY <1>3, <1>4

\* A rollback list names each reader with the time asked for it or an earlier one,
\* unless it names another under the same key.
LEMMA AddLpIsEarly ==
  ASSUME NEW readers \in SUBSET LpId, NEW requests \in SUBSET [agent : readers, time : Nat],
         NEW rollbacks \in AddLp(requests), NEW q \in requests, q.agent \in DOMAIN rollbacks
  PROVE  rollbacks[q.agent] <= q.time
<1> DEFINE askers == {x.agent : x \in requests}
           times  == {x.time : x \in {y \in requests : IsSameKey(y.agent, q.agent)}}
<1>1. PICK named \in SUBSET askers : rollbacks = [a \in named |-> EarliestFor(requests, a)]
  BY DEF AddLp
<1>2. rollbacks[q.agent] = Min(times)
  BY <1>1 DEF EarliestFor
<1>3. IsSameKey(q.agent, q.agent)
  <2>1. q.agent \in LpId
    OBVIOUS
  <2> QED
    BY <2>1 DEF IsSameKey, IsLess, LpId
<1>4. q.time \in times /\ times \in SUBSET Nat
  BY <1>3
<1> HIDE DEF times
<1> QED
  BY <1>2, <1>4, MinOfSet

\* A rollback list asks for no time before all those that were asked for.
LEMMA AddLpAtLeast ==
  ASSUME NEW readers \in SUBSET LpId, NEW requests \in SUBSET [agent : readers, time : Nat],
         NEW rollbacks \in AddLp(requests), NEW g \in Nat, \A q \in requests : q.time >= g
  PROVE  \A a \in DOMAIN rollbacks : rollbacks[a] >= g
<1> DEFINE askers == {x.agent : x \in requests}
<1>1. PICK named \in SUBSET askers : rollbacks = [a \in named |-> EarliestFor(requests, a)]
  BY DEF AddLp
<1>2. ASSUME NEW a \in named PROVE EarliestFor(requests, a) >= g
  <2> DEFINE times == {q.time : q \in {p \in requests : IsSameKey(p.agent, a)}}
  <2>1. PICK q \in requests : q.agent = a
    BY <1>1
  <2>2. IsSameKey(q.agent, a)
    <3>1. q.agent \in LpId
      OBVIOUS
    <3> QED
      BY <2>1, <3>1 DEF IsSameKey, IsLess, LpId
  <2>3. q.time \in times /\ times \in SUBSET Nat /\ \A t \in times : t >= g
    BY <2>2
  <2> HIDE DEF times
  <2>4. Min(times) \in times
    BY <2>3, MinOfSet
  <2> QED
    BY <2>3, <2>4 DEF EarliestFor, times
<1> QED
  BY <1>1, <1>2

\* Neither a write nor an undone write asks for a time before its own.
LEMMA RequestsAtLeast ==
  ASSUME NEW list, NEW time \in Nat
  PROVE  /\ \A q \in ReadsToRollBack(list, time) : q.time >= time
         /\ \A q \in ReadsOfUndone(list, time) : q.time >= time
  BY DEF ReadsToRollBack, ReadsFrom, ReadsOfUndone

-----------------------------------------------------------------------------
(* The types of the specification.                                         *)

Values == Ids \union {InitialValue}

Tags == [time : 0 .. MaxTime, by : Ids]

AntiMessages ==
  [type : {"readAnti", "writeAnti"}, id : Ids, time : 0 .. MaxTime, tag : Tags]

Responses ==
  [type : {"readResponse"}, id : Ids, time : 0 .. MaxTime, value : Values]
  \union [type : {"writeResponse"}, id : Ids, time : 0 .. MaxTime, ok : BOOLEAN]

Rollbacks == [type : {"rollback"}, agent : Agents, time : Nat, tag : Tags]

ToClpMessages == Requests \union AntiMessages
ToAlpMessages == Responses \union Rollbacks

TypedMessages ==
  /\ toClp \in [Ranks -> Seq(ToClpMessages)]
  /\ toAlp \in [Ranks -> Seq(ToAlpMessages)]
  /\ sendQueue \in [Ranks -> Seq(ToClpMessages)]
  /\ sendList \in [Ranks -> Seq(Requests)]

TypedAgents ==
  /\ history \in [Agents -> SUBSET (0 .. MaxTime)]
  /\ waitingFor \in [Agents -> Requests \union {None}]
  /\ awaitedId \in [Agents -> Ids \union {NoId}]
  /\ issued \in [Agents -> 0 .. MaxMessages]
  /\ \A a \in Agents :
       /\ 0 \in history[a]
       /\ waitingFor[a] # None => waitingFor[a].time <= EndTime

TypedGvt ==
  /\ clpGvt \in 0 .. MaxTime /\ gvt \in 0 .. MaxTime
  /\ alpGvt \in [Ranks -> 0 .. MaxTime]

IInv ==
  /\ ListInv(periods, Values, Agents)
  /\ TypedMessages
  /\ TypedAgents
  /\ TypedGvt

-----------------------------------------------------------------------------
(* Constants.                                                              *)

\* How the bounds of time lie.
LEMMA Times ==
  /\ EndTime \in Nat \ {0} /\ MaxTime \in Nat /\ MaxTime < Infinity
  /\ EndTime + 1 <= MaxTime
  /\ \A step \in WrapSteps : step \in Nat /\ EndTime - 1 + step <= MaxTime
<1> DEFINE S == {2} \union WrapSteps
<1>0. /\ EndTime \in Nat \ {0} /\ Infinity > MaxTime
      /\ WrapSteps \subseteq Nat \ {0} /\ IsFiniteSet(WrapSteps)
  BY TimeWarpAssumption
<1>1. S \in SUBSET Nat /\ IsFiniteSet(S) /\ S # {}
  <2>1. IsFiniteSet({2})
    BY FS_Singleton
  <2>2. IsFiniteSet({2} \union WrapSteps)
    BY <1>0, <2>1, FS_Union
  <2> QED
    BY <1>0, <2>2
<1> HIDE DEF S
<1>2. PICK n \in Nat : S \subseteq 0 .. n
  BY <1>1, FiniteSetHasBound
<1>3. Max(S) \in S /\ \A y \in S : y <= Max(S)
  BY <1>1, <1>2, MaxOfSet
<1>4. MaxTime = EndTime - 1 + Max(S)
  BY DEF MaxTime, S
<1>5. 2 \in S /\ WrapSteps \subseteq S
  BY DEF S
<1>6. Max(S) \in Nat /\ 2 <= Max(S) /\ \A step \in WrapSteps : step <= Max(S)
  BY <1>1, <1>3, <1>5
<1>7. MaxTime \in Nat /\ EndTime + 1 <= MaxTime
  BY <1>0, <1>4, <1>6
<1>8. \A step \in WrapSteps : step \in Nat /\ EndTime - 1 + step <= MaxTime
  BY <1>0, <1>4, <1>6
<1> QED
  BY <1>0, <1>7, <1>8, InfinityAssumption

\* Who the agents are, and that a request is none of the null values.
LEMMA Identities ==
  /\ Agents \subseteq LpId /\ Agents # {} /\ Ranks # {}
  /\ \A a \in Agents : a.rank \in Ranks
  /\ \A i \in Ids : i.agent \in Agents /\ i.agent.rank \in Ranks
  /\ InitialAgent \in LpId
  /\ \A m \in Requests : m # None
  BY TimeWarpAssumption DEF Ranks, Ids, InitialAgent, LpId, Requests, None

-----------------------------------------------------------------------------
(* Operators on the state.                                                 *)

\* What the CLP sends for a rollback list.
LEMMA SendRollbacksType ==
  ASSUME NEW queues \in [Ranks -> Seq(ToAlpMessages)],
         NEW requests \in SUBSET [agent : Agents, time : Nat],
         NEW rollbacks \in AddLp(requests), NEW tag \in Tags
  PROVE  SendRollbacks(queues, rollbacks, tag) \in [Ranks -> Seq(ToAlpMessages)]
<1>1. /\ DOMAIN rollbacks \subseteq Agents
      /\ \A a \in DOMAIN rollbacks : rollbacks[a] \in Nat
  BY AddLpType, Identities
<1>2. IsFiniteSet(Agents)
  BY TimeWarpAssumption
<1>3. ASSUME NEW r \in Ranks
      PROVE  queues[r] \o SetToSeq({Rollback(a, rollbacks[a], tag) :
                                      a \in {b \in DOMAIN rollbacks : b.rank = r}})
               \in Seq(ToAlpMessages)
  <2> DEFINE to   == {b \in DOMAIN rollbacks : b.rank = r}
             sent == {Rollback(a, rollbacks[a], tag) : a \in to}
  <2>1. IsFiniteSet(to)
    BY <1>1, <1>2, FS_Subset
  <2>2. IsFiniteSet(sent)
    <3> DEFINE f == [a \in to |-> Rollback(a, rollbacks[a], tag)]
    <3>1. f \in Surjection(to, sent)
      <4> HIDE DEF to
      <4> QED
        BY DEF Surjection
    <3> HIDE DEF f, to, sent
    <3> QED
      BY <2>1, <3>1, FS_Surjection
  <2>3. sent \subseteq ToAlpMessages
    BY <1>1 DEF Rollback, Rollbacks, ToAlpMessages
  <2> HIDE DEF sent
  <2>4. SetToSeq(sent) \in Seq(Range(SetToSeq(sent))) /\ Range(SetToSeq(sent)) \subseteq sent
    BY <2>2, SetToSeqList DEF IsList, Range
  <2>5. SetToSeq(sent) \in Seq(ToAlpMessages)
    BY <2>3, <2>4, SeqMonotonic
  <2>6. queues[r] \in Seq(ToAlpMessages)
    OBVIOUS
  <2>7. queues[r] \o SetToSeq(sent) \in Seq(ToAlpMessages)
    BY <2>5, <2>6, ConcatProperties
  <2> QED
    BY <2>7 DEF sent
<1> QED
  BY <1>3 DEF SendRollbacks

\* An agent's LVT is in its history.
LEMMA LvtType ==
  ASSUME TypedAgents, NEW a \in Agents
  PROVE  Lvt(a) \in 0 .. MaxTime /\ Lvt(a) \in Nat
<1>1. history[a] \in SUBSET (0 .. MaxTime) /\ history[a] # {} /\ MaxTime \in Nat
  BY Times DEF TypedAgents
<1>2. Max(history[a]) \in history[a]
  BY <1>1, MaxOfSet
<1> QED
  BY <1>1, <1>2 DEF Lvt

\* The elements of a sequence.
LEMMA ToSetType ==
  ASSUME NEW T, NEW s \in Seq(T)
  PROVE  ToSet(s) \subseteq T
<1>1. DOMAIN s = 1 .. Len(s) /\ \A i \in 1 .. Len(s) : s[i] \in T
  BY LenProperties, ElementOfSeq
<1> QED
  BY <1>1 DEF ToSet

\* What is at the head of a queue, and what is left of it.
LEMMA HeadTail ==
  ASSUME NEW T, NEW R, NEW f \in [R -> Seq(T)], NEW r \in R, f[r] # <<>>
  PROVE  /\ Head(f[r]) \in T
         /\ [f EXCEPT ![r] = Tail(f[r])] \in [R -> Seq(T)]
<1>1. Head(f[r]) \in T /\ Tail(f[r]) \in Seq(T)
  BY HeadTailProperties
<1> QED
  BY <1>1

\* What is appended to a queue.
LEMMA AppendTo ==
  ASSUME NEW T, NEW R, NEW f \in [R -> Seq(T)], NEW r \in R, NEW e \in T
  PROVE  [f EXCEPT ![r] = Append(f[r], e)] \in [R -> Seq(T)]
<1>1. Append(f[r], e) \in Seq(T)
  BY AppendProperties
<1> QED
  BY <1>1

-----------------------------------------------------------------------------
\* The variable has its initial period and nothing is on its way.
LEMMA InitIInv == Init => IInv
<1> SUFFICES ASSUME Init PROVE IInv
  OBVIOUS
<1> DEFINE p == Period(InitialValue, 0, InitialAgent)
<1>1. ListInv(periods, Values, Agents)
  <2>1. /\ p \in PeriodsOf(Values, Agents)
        /\ p.start = 0 /\ p.end = Infinity /\ p.reads = {}
    BY Identities, InfinityAssumption DEF Period, PeriodsOf, Values
  <2> HIDE DEF p
  <2>2. /\ <<p>> \in Seq(PeriodsOf(Values, Agents))
        /\ Len(<<p>>) = 1 /\ <<p>>[1] = p
    BY <2>1
  <2>3. InOrder(<<p>>) /\ ReadsAreInside(<<p>>)
    BY <2>1, <2>2 DEF InOrder, ReadsAreInside
  <2>4. \A k \in 1 .. Len(<<p>>) :
          /\ <<p>>[k].end = IF k = Len(<<p>>) THEN Infinity ELSE <<p>>[k + 1].start
          /\ <<p>>[k].start <= <<p>>[k].end
    BY <2>1, <2>2, InfinityAssumption
  <2>5. ListInv(<<p>>, Values, Agents)
    BY <2>2, <2>3, <2>4, EndsSuffice
  <2> QED
    BY <2>5 DEF Init, p
<1>2. TypedMessages
  BY DEF Init, TypedMessages
<1>3. TypedAgents
  BY Times, TimeWarpAssumption DEF Init, TypedAgents
<1>4. TypedGvt
  BY Times DEF Init, TypedGvt
<1> QED
  BY <1>1, <1>2, <1>3, <1>4 DEF IInv

\* Agent::ReadInt, WriteInt: the request is at the LVT or one after it.
LEMMA IssueKeeps ==
  ASSUME IInv, NEW a \in Agents, NEW type \in {"read", "write"}, NEW delay \in {0, 1},
         Issue(a, type, delay)
  PROVE  IInv'
<1> DEFINE m == Request(type, [agent |-> a, n |-> issued[a] + 1], Lvt(a) + delay)
<1>1. Lvt(a) \in Nat /\ Lvt(a) < EndTime /\ issued[a] \in 0 .. MaxMessages
      /\ issued[a] < MaxMessages /\ MaxMessages \in Nat
  BY LvtType, TimeWarpAssumption DEF IInv, TypedAgents, Issue, IsFree
<1>2. Lvt(a) + delay \in 0 .. MaxTime /\ Lvt(a) + delay <= EndTime
  BY <1>1, Times
<1>3. issued[a] + 1 \in 1 .. MaxMessages
  BY <1>1
<1>4. m \in Requests /\ m.time <= EndTime
  BY <1>2, <1>3 DEF Request, Requests, Ids
<1> HIDE DEF m
<1>5. /\ issued'     = [issued EXCEPT ![a] = issued[a] + 1]
      /\ waitingFor' = [waitingFor EXCEPT ![a] = m]
      /\ sendQueue'  = [sendQueue EXCEPT ![a.rank] = Append(sendQueue[a.rank], m)]
      /\ UNCHANGED <<periods, clpGvt, toClp, toAlp, sendList, alpGvt, history, awaitedId, gvt>>
  BY DEF Issue, m, clpVars, netVars
<1>6. TypedMessages'
  <2>1. sendQueue' \in [Ranks -> Seq(ToClpMessages)]
    BY <1>4, <1>5, Identities, AppendTo DEF IInv, TypedMessages, ToClpMessages
  <2> QED
    BY <1>5, <2>1 DEF IInv, TypedMessages
<1>7. TypedAgents'
  BY <1>3, <1>4, <1>5 DEF IInv, TypedAgents
<1> QED
  BY <1>5, <1>6, <1>7 DEF IInv, TypedGvt

\* Agent::time_wrap.
LEMMA TimeWrapKeeps ==
  ASSUME IInv, NEW a \in Agents, NEW step \in WrapSteps, TimeWrap(a, step)
  PROVE  IInv'
<1>1. Lvt(a) \in Nat /\ Lvt(a) < EndTime
  BY LvtType DEF IInv, TimeWrap, IsFree
<1>2. Lvt(a) + step \in 0 .. MaxTime
  BY <1>1, Times
<1>3. /\ history' = [history EXCEPT ![a] = history[a] \union {Lvt(a) + step}]
      /\ UNCHANGED <<periods, clpGvt, toClp, toAlp, sendQueue, sendList, alpGvt, waitingFor,
                     awaitedId, issued, gvt>>
  BY DEF TimeWrap, clpVars, netVars, alpVars
<1>4. TypedAgents'
  BY <1>2, <1>3 DEF IInv, TypedAgents
<1> QED
  BY <1>3, <1>4 DEF IInv, TypedMessages, TypedGvt

\* Agent::WaitUntilMessageArrive, SetLVT.
LEMMA ConsumeKeeps ==
  ASSUME IInv, NEW a \in Agents, Consume(a)
  PROVE  IInv'
<1>1. waitingFor[a] # None /\ waitingFor[a] \in Requests \union {None}
      /\ waitingFor[a].time <= EndTime
  BY DEF IInv, TypedAgents, Consume
<1>2. waitingFor[a].time \in 0 .. MaxTime
  BY <1>1 DEF Requests
<1>3. waitingFor[a].time + 1 \in 0 .. MaxTime
  BY <1>1, <1>2, Times
<1>4. /\ history' = [history EXCEPT ![a] = history[a] \union {waitingFor[a].time + 1}]
      /\ waitingFor' = [waitingFor EXCEPT ![a] = None]
      /\ UNCHANGED <<periods, clpGvt, toClp, toAlp, sendQueue, sendList, alpGvt,
                     awaitedId, issued, gvt>>
  BY DEF Consume, clpVars, netVars, alpVars
<1>5. TypedAgents'
  BY <1>3, <1>4 DEF IInv, TypedAgents
<1> QED
  BY <1>4, <1>5 DEF IInv, TypedMessages, TypedGvt

\* Alp::Send.
LEMMA AlpSendKeeps ==
  ASSUME IInv, NEW r \in Ranks, AlpSend(r)
  PROVE  IInv'
<1> DEFINE m == Head(sendQueue[r])
<1>1. /\ m \in ToClpMessages
      /\ [sendQueue EXCEPT ![r] = Tail(sendQueue[r])] \in [Ranks -> Seq(ToClpMessages)]
  BY HeadTail DEF IInv, TypedMessages, AlpSend
<1>2. /\ sendQueue' = [sendQueue EXCEPT ![r] = Tail(sendQueue[r])]
      /\ toClp' = [toClp EXCEPT ![r] = Append(toClp[r], m)]
      /\ IF m.type \in {"read", "write"}
         THEN /\ sendList'  = [sendList EXCEPT ![r] = Append(sendList[r], m)]
              /\ awaitedId' = [awaitedId EXCEPT ![m.id.agent] = m.id]
         ELSE UNCHANGED <<sendList, awaitedId>>
      /\ UNCHANGED <<periods, clpGvt, toAlp, alpGvt, history, waitingFor, issued, gvt>>
  BY DEF AlpSend, clpVars
<1> HIDE DEF m
<1>3. m.type \in {"read", "write"} => m \in Requests
  BY <1>1 DEF ToClpMessages, AntiMessages
<1>4. m.id \in Ids
  BY <1>1 DEF ToClpMessages, AntiMessages, Requests
<1>5. toClp' \in [Ranks -> Seq(ToClpMessages)]
  BY <1>1, <1>2, AppendTo DEF IInv, TypedMessages
<1>6. sendList' \in [Ranks -> Seq(Requests)]
  <2>1. CASE m.type \in {"read", "write"}
    <3>1. m \in Requests /\ sendList' = [sendList EXCEPT ![r] = Append(sendList[r], m)]
      BY <1>2, <1>3, <2>1
    <3> QED
      BY <3>1, AppendTo DEF IInv, TypedMessages
  <2>2. CASE m.type \notin {"read", "write"}
    BY <1>2, <2>2 DEF IInv, TypedMessages
  <2> QED
    BY <2>1, <2>2
<1>7. TypedMessages'
  BY <1>1, <1>2, <1>5, <1>6 DEF IInv, TypedMessages
<1>8. TypedAgents'
  BY <1>2, <1>4 DEF IInv, TypedAgents
<1> QED
  BY <1>2, <1>7, <1>8 DEF IInv, TypedGvt

\* What the CLP takes from the channel of an ALP.
LEMMA ClpTakes ==
  ASSUME IInv, NEW r \in Ranks, toClp[r] # <<>>, Take(r)
  PROVE  /\ Head(toClp[r]) \in ToClpMessages
         /\ Head(toClp[r]).id \in Ids
         /\ Head(toClp[r]).id.agent \in Agents
         /\ Head(toClp[r]).id.agent \in LpId
         /\ Head(toClp[r]).id.agent.rank \in Ranks
         /\ Head(toClp[r]).time \in 0 .. MaxTime
         /\ Head(toClp[r]).time \in Nat /\ Head(toClp[r]).time < Infinity
         /\ toClp' \in [Ranks -> Seq(ToClpMessages)]
<1> DEFINE m == Head(toClp[r])
<1>1. m \in ToClpMessages /\ toClp' \in [Ranks -> Seq(ToClpMessages)]
  BY HeadTail DEF IInv, TypedMessages, Take
<1> HIDE DEF m
<1>2. m.id \in Ids /\ m.time \in 0 .. MaxTime
  BY <1>1 DEF ToClpMessages, AntiMessages, Requests
<1>3. m.id.agent \in Agents /\ m.id.agent \in LpId /\ m.id.agent.rank \in Ranks
  BY <1>2, Identities
<1>4. m.time \in Nat /\ m.time < Infinity
  BY <1>2, Times, InfinityAssumption
<1> QED
  BY <1>1, <1>2, <1>3, <1>4 DEF m

\* Clp::ProcessMessage(SingleReadMessage).
LEMMA ClpReadKeeps ==
  ASSUME IInv, NEW r \in Ranks, ClpRead(r)
  PROVE  IInv'
<1> DEFINE m == Head(toClp[r])
<1>1. toClp[r] # <<>> /\ Take(r)
  BY DEF ClpRead, IsNext
<1>2. /\ m.id \in Ids /\ m.id.agent \in Agents /\ m.id.agent.rank \in Ranks
      /\ m.time \in 0 .. MaxTime /\ m.time \in Nat /\ m.time < Infinity
      /\ toClp' \in [Ranks -> Seq(ToClpMessages)]
  BY <1>1, ClpTakes
<1> DEFINE answer == ReadResponse(m, ReadValue(periods, m.time))
<1>3. /\ \/ UNCHANGED <<periods, toAlp>>
         \/ /\ Covering(periods, m.time) # 0
            /\ periods' = NoteRead(periods, m.id.agent, m.time)
            /\ toAlp' = [toAlp EXCEPT ![m.id.agent.rank] = Append(toAlp[m.id.agent.rank], answer)]
      /\ UNCHANGED <<clpGvt, sendQueue, sendList, alpGvt, history, waitingFor, awaitedId,
                     issued, gvt>>
  BY DEF ClpRead, alpVars, agentVars
<1>4. ASSUME Covering(periods, m.time) # 0 PROVE answer \in ToAlpMessages
  <2> HIDE DEF m
  <2>1. Covering(periods, m.time) \in 1 .. Len(periods)
    BY <1>2, <1>4, CoveringIsLast DEF IInv, ListInv
  <2>2. periods[Covering(periods, m.time)] \in PeriodsOf(Values, Agents)
    BY <2>1, ListType DEF IInv, ListInv
  <2>3. ReadValue(periods, m.time) \in Values
    BY <2>2 DEF ReadValue, PeriodsOf
  <2> QED
    BY <1>2, <2>3 DEF ReadResponse, Responses, ToAlpMessages
<1> HIDE DEF m, answer
<1>5. ListInv(periods', Values, Agents)
  <2>1. CASE UNCHANGED periods
    BY <2>1 DEF IInv
  <2>2. CASE /\ Covering(periods, m.time) # 0
             /\ periods' = NoteRead(periods, m.id.agent, m.time)
    <3>1. ListInv(NoteRead(periods, m.id.agent, m.time), Values, Agents)
      BY <1>2, <2>2, NoteReadKeepsList DEF IInv
    <3> QED
      BY <2>2, <3>1
  <2> QED
    BY <1>3, <2>1, <2>2
<1>6. toAlp' \in [Ranks -> Seq(ToAlpMessages)]
  <2> DEFINE to == m.id.agent.rank
  <2>1. CASE UNCHANGED toAlp
    BY <2>1 DEF IInv, TypedMessages
  <2>2. CASE /\ Covering(periods, m.time) # 0
             /\ toAlp' = [toAlp EXCEPT ![to] = Append(toAlp[to], answer)]
    <3>1. answer \in ToAlpMessages /\ to \in Ranks
      BY <1>2, <1>4, <2>2
    <3> HIDE DEF to
    <3>2. [toAlp EXCEPT ![to] = Append(toAlp[to], answer)] \in [Ranks -> Seq(ToAlpMessages)]
      BY <3>1, AppendTo DEF IInv, TypedMessages
    <3> QED
      BY <2>2, <3>2
  <2> QED
    BY <1>3, <2>1, <2>2
<1>7. TypedMessages'
  BY <1>2, <1>3, <1>6 DEF IInv, TypedMessages
<1>8. TypedAgents' /\ TypedGvt'
  BY <1>3 DEF IInv, TypedAgents, TypedGvt
<1> QED
  BY <1>5, <1>7, <1>8 DEF IInv

\* Clp::ProcessMessage(SingleReadAntiMessage).
LEMMA ClpReadAntiKeeps ==
  ASSUME IInv, NEW r \in Ranks, ClpReadAnti(r)
  PROVE  IInv'
<1> DEFINE m == Head(toClp[r])
<1>1. toClp[r] # <<>> /\ Take(r)
  BY DEF ClpReadAnti, IsNext
<1>2. m.time \in Nat /\ toClp' \in [Ranks -> Seq(ToClpMessages)]
  BY <1>1, ClpTakes
<1>3. /\ \/ UNCHANGED periods
         \/ /\ Covering(periods, m.time) # 0
            /\ periods' = PerformReadRollback(periods, m.id.agent, m.time)
      /\ UNCHANGED <<clpGvt, toAlp, sendQueue, sendList, alpGvt, history, waitingFor,
                     awaitedId, issued, gvt>>
  BY DEF ClpReadAnti, alpVars, agentVars
<1> HIDE DEF m
<1>4. ListInv(periods', Values, Agents)
  BY <1>2, <1>3, PerformReadRollbackKeepsList DEF IInv
<1>5. TypedMessages' /\ TypedAgents' /\ TypedGvt'
  BY <1>2, <1>3 DEF IInv, TypedMessages, TypedAgents, TypedGvt
<1> QED
  BY <1>4, <1>5 DEF IInv

\* Clp::ProcessMessage(WriteMessage).
LEMMA ClpWriteKeeps ==
  ASSUME IInv, NEW r \in Ranks, ClpWrite(r)
  PROVE  IInv'
<1> DEFINE m        == Head(toClp[r])
           agent    == m.id.agent
           refused  == IsRefused(periods, agent, m.time)
           requests == ReadsToRollBack(periods, m.time)
           answer   == WriteResponse(m, ~refused)
           answered == [toAlp EXCEPT ![agent.rank] = Append(toAlp[agent.rank], answer)]
<1>1. toClp[r] # <<>> /\ Take(r) /\ m.type = "write"
  BY DEF ClpWrite, IsNext
<1>2. /\ m \in ToClpMessages
      /\ m.id \in Ids /\ agent \in Agents /\ agent \in LpId /\ agent.rank \in Ranks
      /\ m.time \in 0 .. MaxTime /\ m.time \in Nat /\ m.time < Infinity
      /\ toClp' \in [Ranks -> Seq(ToClpMessages)]
  BY <1>1, ClpTakes
<1>3. /\ \/ refused /\ toAlp' = answered /\ UNCHANGED periods
         \/ /\ ~refused
            /\ periods' = WriteWithRollback(periods, agent, m.id, m.time)
            /\ \E rollbacks \in AddLp(requests) :
                 toAlp' = SendRollbacks(answered, rollbacks, Tag(m))
      /\ UNCHANGED <<clpGvt, sendQueue, sendList, alpGvt, history, waitingFor,
                     awaitedId, issued, gvt>>
  BY DEF ClpWrite, alpVars, agentVars
<1>4. answer \in ToAlpMessages
  <2>1. refused \in BOOLEAN
    BY DEF IsRefused
  <2> HIDE DEF m, refused
  <2> QED
    BY <1>2, <2>1 DEF WriteResponse, Responses, ToAlpMessages
<1> HIDE DEF answer
<1>5. answered \in [Ranks -> Seq(ToAlpMessages)]
  <2> HIDE DEF agent
  <2> QED
    BY <1>2, <1>4, AppendTo DEF IInv, TypedMessages
<1> HIDE DEF answered
<1>6. Tag(m) \in Tags
  BY <1>2 DEF Tag, Tags
<1>7. ~refused => requests \in SUBSET [agent : Agents, time : Nat]
  <2>1. ~refused => periods = <<>> \/ Covering(periods, m.time) # 0
    BY DEF IsRefused
  <2> HIDE DEF m
  <2> QED
    BY <1>2, <2>1, RequestsType DEF IInv
<1>8. ListInv(periods', Values, Agents)
  <2>1. CASE refused /\ UNCHANGED periods
    BY <2>1 DEF IInv
  <2>2. CASE ~refused /\ periods' = WriteWithRollback(periods, agent, m.id, m.time)
    <3>1. m.id \in Values
      BY <1>2 DEF Values
    <3> HIDE DEF m, agent
    <3>2. ~IsRefused(periods, agent, m.time)
      BY <2>2
    <3>3. ListInv(WriteWithRollback(periods, agent, m.id, m.time), Values, Agents)
      BY <1>2, <3>1, <3>2, WriteWithRollbackKeepsList DEF IInv
    <3> QED
      BY <2>2, <3>3
  <2> QED
    BY <1>3, <2>1, <2>2
<1>9. toAlp' \in [Ranks -> Seq(ToAlpMessages)]
  <2>1. CASE toAlp' = answered
    BY <1>5, <2>1
  <2>2. CASE /\ ~refused
             /\ \E rollbacks \in AddLp(requests) :
                  toAlp' = SendRollbacks(answered, rollbacks, Tag(m))
    <3>1. PICK rollbacks \in AddLp(requests) :
            toAlp' = SendRollbacks(answered, rollbacks, Tag(m))
      BY <2>2
    <3> DEFINE tag == Tag(m)
    <3>2. requests \in SUBSET [agent : Agents, time : Nat] /\ tag \in Tags
      BY <1>6, <1>7, <2>2
    <3>3. toAlp' = SendRollbacks(answered, rollbacks, tag)
      BY <3>1
    <3> HIDE DEF requests, tag
    <3>4. SendRollbacks(answered, rollbacks, tag) \in [Ranks -> Seq(ToAlpMessages)]
      BY <1>5, <3>1, <3>2, SendRollbacksType
    <3> QED
      BY <3>3, <3>4
  <2> QED
    BY <1>3, <2>1, <2>2
<1> HIDE DEF m, refused, requests, agent
<1>10. TypedMessages' /\ TypedAgents' /\ TypedGvt'
  BY <1>2, <1>3, <1>9 DEF IInv, TypedMessages, TypedAgents, TypedGvt
<1> QED
  BY <1>8, <1>10 DEF IInv

\* Clp::ProcessMessage(WriteAntiMessage).
LEMMA ClpWriteAntiKeeps ==
  ASSUME IInv, NEW r \in Ranks, ClpWriteAnti(r)
  PROVE  IInv'
<1> DEFINE m        == Head(toClp[r])
           requests == ReadsOfUndone(periods, m.time)
           tag      == m.tag
<1>1. toClp[r] # <<>> /\ Take(r) /\ m.type = "writeAnti"
  BY DEF ClpWriteAnti, IsNext
<1>2. m \in ToClpMessages /\ m.time \in Nat /\ toClp' \in [Ranks -> Seq(ToClpMessages)]
  BY <1>1, ClpTakes
<1>3. /\ \/ UNCHANGED <<periods, toAlp>>
         \/ /\ CanUndo(periods, m.id.agent, m.time)
            /\ periods' = PerformWriteRollback(periods, m.time)
            /\ \E rollbacks \in AddLp(requests) :
                 toAlp' = SendRollbacks(toAlp, rollbacks, tag)
      /\ UNCHANGED <<clpGvt, sendQueue, sendList, alpGvt, history, waitingFor,
                     awaitedId, issued, gvt>>
  BY DEF ClpWriteAnti, alpVars, agentVars
<1>4. tag \in Tags
  BY <1>1, <1>2 DEF ToClpMessages, AntiMessages, Requests
<1> HIDE DEF m, tag
<1>5. CanUndo(periods, m.id.agent, m.time) => StartingAt(periods, m.time) # 0
  BY DEF CanUndo
<1>6. StartingAt(periods, m.time) # 0 => requests \in SUBSET [agent : Agents, time : Nat]
  BY <1>2, RequestsType DEF IInv
<1> HIDE DEF requests
<1>7. ListInv(periods', Values, Agents)
  BY <1>2, <1>3, <1>5, PerformWriteRollbackKeepsList DEF IInv
<1>8. toAlp' \in [Ranks -> Seq(ToAlpMessages)]
  <2>1. CASE toAlp' = toAlp
    BY <2>1 DEF IInv, TypedMessages
  <2>2. CASE /\ CanUndo(periods, m.id.agent, m.time)
             /\ \E rollbacks \in AddLp(requests) :
                  toAlp' = SendRollbacks(toAlp, rollbacks, tag)
    <3>1. PICK rollbacks \in AddLp(requests) : toAlp' = SendRollbacks(toAlp, rollbacks, tag)
      BY <2>2
    <3>2. SendRollbacks(toAlp, rollbacks, tag) \in [Ranks -> Seq(ToAlpMessages)]
      BY <1>4, <1>5, <1>6, <2>2, SendRollbacksType DEF IInv, TypedMessages
    <3> QED
      BY <3>1, <3>2
  <2> QED
    BY <1>3, <2>1, <2>2
<1>9. TypedMessages' /\ TypedAgents' /\ TypedGvt'
  BY <1>2, <1>3, <1>8 DEF IInv, TypedMessages, TypedAgents, TypedGvt
<1> QED
  BY <1>7, <1>9 DEF IInv

\* Clp::SetGvt.
LEMMA ClpSetGvtKeeps ==
  ASSUME IInv, ClpSetGvt
  PROVE  IInv'
<1>1. gvt \in 0 .. MaxTime /\ gvt \in Nat /\ gvt < Infinity
  BY Times, InfinityAssumption DEF IInv, TypedGvt
<1>2. /\ clpGvt' = gvt /\ periods' = RemoveWritePeriods(periods, gvt)
      /\ UNCHANGED <<toClp, toAlp, sendQueue, sendList, alpGvt, history, waitingFor,
                     awaitedId, issued, gvt>>
  BY DEF ClpSetGvt, netVars, alpVars, agentVars
<1>3. ListInv(periods', Values, Agents)
  BY <1>1, <1>2, RemoveWritePeriodsKeepsList DEF IInv
<1>4. TypedMessages' /\ TypedAgents' /\ TypedGvt'
  BY <1>1, <1>2 DEF IInv, TypedMessages, TypedAgents, TypedGvt
<1> QED
  BY <1>3, <1>4 DEF IInv

-----------------------------------------------------------------------------
\* What an ALP takes from the channel of the CLP.
LEMMA AlpTakes ==
  ASSUME IInv, NEW r \in Ranks, toAlp[r] # <<>>
  PROVE  /\ Head(toAlp[r]) \in ToAlpMessages
         /\ [toAlp EXCEPT ![r] = Tail(toAlp[r])] \in [Ranks -> Seq(ToAlpMessages)]
         /\ Head(toAlp[r]).type = "rollback" =>
              /\ Head(toAlp[r]) \in Rollbacks
              /\ Head(toAlp[r]).agent \in Agents
              /\ Head(toAlp[r]).time \in Nat
              /\ Head(toAlp[r]).tag \in Tags
<1> DEFINE m == Head(toAlp[r])
<1>1. /\ m \in ToAlpMessages
      /\ [toAlp EXCEPT ![r] = Tail(toAlp[r])] \in [Ranks -> Seq(ToAlpMessages)]
  BY HeadTail DEF IInv, TypedMessages
<1> HIDE DEF m
<1>2. m.type = "rollback" => m \in Rollbacks
  BY <1>1 DEF ToAlpMessages, Responses
<1>3. m.type = "rollback" => m.agent \in Agents /\ m.time \in Nat /\ m.tag \in Tags
  BY <1>2 DEF Rollbacks
<1> QED
  BY <1>1, <1>2, <1>3 DEF m

\* Alp::ProcessMessage of a response.
LEMMA AlpResponseKeeps ==
  ASSUME IInv, NEW r \in Ranks, AlpResponse(r)
  PROVE  IInv'
<1> DEFINE m    == Head(toAlp[r])
           left == RemoveFromSendList(sendList[r], m)
<1>1. toAlp[r] # <<>>
  BY DEF AlpResponse
<1>2. [toAlp EXCEPT ![r] = Tail(toAlp[r])] \in [Ranks -> Seq(ToAlpMessages)]
  BY <1>1, AlpTakes
<1>3. /\ toAlp' = [toAlp EXCEPT ![r] = Tail(toAlp[r])]
      /\ sendList' = [sendList EXCEPT ![r] = left] \/ sendList' = sendList
      /\ UNCHANGED <<periods, clpGvt, toClp, sendQueue, alpGvt, history, waitingFor,
                     awaitedId, issued, gvt>>
  BY DEF AlpResponse, clpVars
<1>4. left \in Seq(Requests)
  <2>1. sendList[r] \in Seq(Requests)
    BY DEF IInv, TypedMessages
  <2> QED
    BY <2>1, RemainingFacts DEF RemoveFromSendList
<1> HIDE DEF left
<1>5. sendList' \in [Ranks -> Seq(Requests)]
  BY <1>3, <1>4 DEF IInv, TypedMessages
<1>6. TypedMessages' /\ TypedAgents' /\ TypedGvt'
  BY <1>2, <1>3, <1>5 DEF IInv, TypedMessages, TypedAgents, TypedGvt
<1> QED
  BY <1>3, <1>6 DEF IInv

\* The early returns of Alp::ProcessRollback.
LEMMA AlpIgnoreRollbackKeeps ==
  ASSUME IInv, NEW r \in Ranks, AlpIgnoreRollback(r)
  PROVE  IInv'
<1>1. toAlp[r] # <<>>
  BY DEF AlpIgnoreRollback, IsNext
<1>2. [toAlp EXCEPT ![r] = Tail(toAlp[r])] \in [Ranks -> Seq(ToAlpMessages)]
  BY <1>1, AlpTakes
<1>3. /\ toAlp' = [toAlp EXCEPT ![r] = Tail(toAlp[r])]
      /\ UNCHANGED <<periods, clpGvt, toClp, sendQueue, sendList, alpGvt, history, waitingFor,
                     awaitedId, issued, gvt>>
  BY DEF AlpIgnoreRollback, clpVars, agentVars
<1>4. TypedMessages' /\ TypedAgents' /\ TypedGvt'
  BY <1>2, <1>3 DEF IInv, TypedMessages, TypedAgents, TypedGvt
<1> QED
  BY <1>3, <1>4 DEF IInv

\* Alp::ProcessRollback.
LEMMA AlpRollbackKeeps ==
  ASSUME IInv, NEW r \in Ranks, AlpRollback(r)
  PROVE  IInv'
<1> DEFINE m       == Head(toAlp[r])
           a       == m.agent
           Gone(l) == {s \in ToSet(l) : IsRolledBack(s, a, m.time)}
           kept    == {s \in ToSet(sendList[r]) :
                         ~IsRolledBack(s, a, m.time) \/ s.time < alpGvt[r]}
           sent    == Remaining(sendList[r], kept)
           antis   == [i \in 1 .. Len(sent) |-> Anti(sent[i], m.tag)]
           queue   == Remaining(sendQueue[r], Gone(sendQueue[r]))
           list    == Remaining(sendList[r], Gone(sendList[r]))
<1>1. toAlp[r] # <<>> /\ m.type = "rollback"
  BY DEF AlpRollback, IsNext
<1>2. /\ a \in Agents /\ m.time \in Nat /\ m.tag \in Tags
      /\ [toAlp EXCEPT ![r] = Tail(toAlp[r])] \in [Ranks -> Seq(ToAlpMessages)]
  BY <1>1, AlpTakes
<1>3. /\ toAlp' = [toAlp EXCEPT ![r] = Tail(toAlp[r])]
      /\ history' = [history EXCEPT ![a] = {h \in history[a] : h <= m.time}]
      /\ sendQueue' = [sendQueue EXCEPT ![r] = queue \o antis]
      /\ sendList' = [sendList EXCEPT ![r] = list]
      /\ waitingFor' = [waitingFor EXCEPT ![a] = None]
      /\ awaitedId' = [awaitedId EXCEPT ![a] = NoId]
      /\ UNCHANGED <<periods, clpGvt, toClp, alpGvt, issued, gvt>>
  BY DEF AlpRollback, clpVars
<1>4. /\ sendList[r] \in Seq(Requests) /\ sendQueue[r] \in Seq(ToClpMessages)
  BY DEF IInv, TypedMessages
<1> HIDE DEF kept, Gone, m, a
<1>5. sent \in Seq(Requests) /\ queue \in Seq(ToClpMessages) /\ list \in Seq(Requests)
  BY <1>4, RemainingFacts
<1> HIDE DEF sent, queue, list
<1>6. antis \in Seq(ToClpMessages)
  <2>1. Len(sent) \in Nat /\ \A i \in 1 .. Len(sent) : sent[i] \in Requests
    BY <1>5, LenProperties, ElementOfSeq
  <2>2. ASSUME NEW i \in 1 .. Len(sent) PROVE Anti(sent[i], m.tag) \in ToClpMessages
    <3>1. sent[i] \in Requests
      BY <2>1
    <3> QED
      BY <1>2, <3>1 DEF Anti, Requests, AntiMessages, ToClpMessages
  <2>3. antis \in [1 .. Len(sent) -> ToClpMessages]
    BY <2>2
  <2> HIDE DEF antis
  <2> QED
    BY <2>1, <2>3, IsASeq
<1> HIDE DEF antis
<1>7. queue \o antis \in Seq(ToClpMessages)
  BY <1>5, <1>6, ConcatProperties
<1>8. TypedMessages'
  BY <1>2, <1>3, <1>5, <1>7 DEF IInv, TypedMessages
<1>9. TypedAgents'
  <2>1. history' \in [Agents -> SUBSET (0 .. MaxTime)]
    BY <1>3 DEF IInv, TypedAgents
  <2>2. \A b \in Agents : 0 \in history'[b]
    BY <1>2, <1>3 DEF IInv, TypedAgents
  <2>3. \A b \in Agents : waitingFor'[b] # None => waitingFor'[b].time <= EndTime
    BY <1>3 DEF IInv, TypedAgents
  <2> QED
    BY <1>3, <2>1, <2>2, <2>3 DEF IInv, TypedAgents
<1> QED
  BY <1>3, <1>8, <1>9 DEF IInv, TypedGvt

\* Alp::SetGvt.
LEMMA AlpSetGvtKeeps ==
  ASSUME IInv, NEW r \in Ranks, AlpSetGvt(r)
  PROVE  IInv'
<1> DEFINE left == Remaining(sendList[r], {s \in ToSet(sendList[r]) : s.time < gvt})
<1>1. /\ alpGvt' = [alpGvt EXCEPT ![r] = gvt]
      /\ sendList' = [sendList EXCEPT ![r] = left]
      /\ UNCHANGED <<periods, clpGvt, toClp, toAlp, sendQueue, history, waitingFor, awaitedId,
                     issued, gvt>>
  BY DEF AlpSetGvt, clpVars, netVars, agentVars
<1>2. left \in Seq(Requests)
  <2>1. sendList[r] \in Seq(Requests)
    BY DEF IInv, TypedMessages
  <2> QED
    BY <2>1, RemainingFacts
<1> HIDE DEF left
<1>3. TypedMessages' /\ TypedAgents' /\ TypedGvt'
  BY <1>1, <1>2 DEF IInv, TypedMessages, TypedAgents, TypedGvt
<1> QED
  BY <1>1, <1>3 DEF IInv

\* GvtCalculator, as TimeWarp sees it.
LEMMA ComputeGvtKeeps ==
  ASSUME IInv, ComputeGvt
  PROVE  IInv'
<1> DEFINE lvts  == {Lvt(a) : a \in Agents}
           times == {m.time : m \in InTransit}
<1>1. LowerBound \in 0 .. MaxTime
  <2>1. lvts \in SUBSET (0 .. MaxTime)
    BY LvtType DEF IInv
  <2>2. times \in SUBSET Nat
    <3>1. ASSUME NEW r \in Ranks
          PROVE  /\ \A m \in ToSet(toClp[r]) : m.time \in Nat
                 /\ \A m \in ToSet(toAlp[r]) : m.time \in Nat
                 /\ \A m \in ToSet(sendQueue[r]) : m.time \in Nat
      <4>1. /\ \A m \in ToClpMessages : m.time \in Nat
            /\ \A m \in ToAlpMessages : m.time \in Nat
        BY DEF ToClpMessages, ToAlpMessages, Requests, AntiMessages, Responses, Rollbacks
      <4>2. /\ ToSet(toClp[r]) \subseteq ToClpMessages
            /\ ToSet(toAlp[r]) \subseteq ToAlpMessages
            /\ ToSet(sendQueue[r]) \subseteq ToClpMessages
        <5>1. /\ toClp[r] \in Seq(ToClpMessages)
              /\ toAlp[r] \in Seq(ToAlpMessages)
              /\ sendQueue[r] \in Seq(ToClpMessages)
          BY DEF IInv, TypedMessages
        <5> QED
          BY <5>1, ToSetType
      <4> QED
        BY <4>1, <4>2
    <3> QED
      BY <3>1 DEF InTransit
  <2>3. PICK a \in Agents : TRUE
    BY Identities
  <2>4. Lvt(a) \in lvts /\ Lvt(a) \in 0 .. MaxTime
    BY <2>3, LvtType DEF IInv
  <2> HIDE DEF lvts, times
  <2>5. lvts \union times \in SUBSET Nat /\ lvts \union times # {}
    BY <2>1, <2>2, <2>4
  <2>6. /\ Min(lvts \union times) \in lvts \union times
        /\ \A y \in lvts \union times : Min(lvts \union times) <= y
    BY <2>5, MinOfSet
  <2>7. LowerBound = Min(lvts \union times)
    BY DEF LowerBound, lvts, times
  <2>8. LowerBound \in Nat /\ LowerBound <= Lvt(a)
    BY <2>4, <2>5, <2>6, <2>7
  <2> QED
    BY <2>4, <2>8, Times
<1>2. gvt' \in 0 .. MaxTime
  BY <1>1, Times DEF ComputeGvt, IInv, TypedGvt
<1>3. UNCHANGED <<periods, clpGvt, toClp, toAlp, sendQueue, sendList, alpGvt, history,
                  waitingFor, awaitedId, issued>>
  BY DEF ComputeGvt, clpVars, netVars, alpVars, agentVars
<1> QED
  BY <1>2, <1>3 DEF IInv, TypedMessages, TypedAgents, TypedGvt

-----------------------------------------------------------------------------
\* No step of any thread breaks the invariant.
LEMMA NextKeeps ==
  ASSUME IInv, [Next]_vars
  PROVE  IInv'
<1>1. CASE \E a \in Agents : Agent(a)
  <2>1. PICK a \in Agents : Agent(a)
    BY <1>1
  <2>2. WriteDelays \subseteq {0, 1}
    BY TimeWarpAssumption
  <2> QED
    BY <2>1, <2>2, IssueKeeps, TimeWrapKeeps, ConsumeKeeps DEF Agent
<1>2. CASE \E r \in Ranks : AlpSend(r) \/ AlpMain(r) \/ ClpMain(r)
  <2>1. PICK r \in Ranks : AlpSend(r) \/ AlpMain(r) \/ ClpMain(r)
    BY <1>2
  <2>2. CASE AlpSend(r)
    BY <2>2, AlpSendKeeps
  <2>3. CASE AlpMain(r)
    BY <2>3, AlpResponseKeeps, AlpIgnoreRollbackKeeps, AlpRollbackKeeps, AlpSetGvtKeeps
    DEF AlpMain
  <2>4. CASE ClpMain(r)
    BY <2>4, ClpReadKeeps, ClpReadAntiKeeps, ClpWriteKeeps, ClpWriteAntiKeeps DEF ClpMain
  <2> QED
    BY <2>1, <2>2, <2>3, <2>4
<1>3. CASE ClpSetGvt
  BY <1>3, ClpSetGvtKeeps
<1>4. CASE ComputeGvt
  BY <1>4, ComputeGvtKeeps
<1>5. CASE UNCHANGED vars
  BY <1>5 DEF vars, clpVars, netVars, alpVars, agentVars, IInv, TypedMessages, TypedAgents,
              TypedGvt
<1> QED
  BY <1>1, <1>2, <1>3, <1>4, <1>5 DEF Next

\* The invariant holds in every state.
THEOREM Invariance == Spec => []IInv
<1>1. Init => IInv
  BY InitIInv
<1>2. IInv /\ [Next]_vars => IInv'
  BY NextKeeps
<1> QED
  BY <1>1, <1>2, PTL DEF Spec

\* Every variable of the protocol holds values of its type, whatever the agents ask
\* for and in whatever order the threads of the LPs run.
THEOREM TypeCorrect == Spec => []TypeOK
<1>1. IInv => TypeOK
  <2> SUFFICES ASSUME IInv PROVE TypeOK
    OBVIOUS
  <2>1. IsWritePeriodList(periods, Ids \union {InitialValue})
    BY ListInvMeans, Identities DEF IInv, Values
  <2>2. clpGvt \in 0 .. MaxTime /\ gvt \in 0 .. MaxTime
    BY DEF IInv, TypedGvt
  <2>3. ASSUME NEW r \in Ranks
        PROVE  /\ \A m \in ToSet(toClp[r]) \union ToSet(sendQueue[r]) :
                    m.type \in {"read", "write", "readAnti", "writeAnti"}
               /\ \A m \in ToSet(toAlp[r]) :
                    m.type \in {"readResponse", "writeResponse", "rollback"}
               /\ ToSet(sendList[r]) \subseteq Requests
               /\ alpGvt[r] \in 0 .. MaxTime
    <3>1. /\ toClp[r] \in Seq(ToClpMessages) /\ sendQueue[r] \in Seq(ToClpMessages)
          /\ toAlp[r] \in Seq(ToAlpMessages) /\ sendList[r] \in Seq(Requests)
          /\ alpGvt[r] \in 0 .. MaxTime
      BY DEF IInv, TypedMessages, TypedGvt
    <3>2. /\ ToSet(toClp[r]) \subseteq ToClpMessages
          /\ ToSet(sendQueue[r]) \subseteq ToClpMessages
          /\ ToSet(toAlp[r]) \subseteq ToAlpMessages
          /\ ToSet(sendList[r]) \subseteq Requests
      BY <3>1, ToSetType
    <3>3. \A m \in ToClpMessages : m.type \in {"read", "write", "readAnti", "writeAnti"}
      BY DEF ToClpMessages, Requests, AntiMessages
    <3>4. \A m \in ToAlpMessages : m.type \in {"readResponse", "writeResponse", "rollback"}
      BY DEF ToAlpMessages, Responses, Rollbacks
    <3> QED
      BY <3>1, <3>2, <3>3, <3>4
  <2>4. ASSUME NEW a \in Agents
        PROVE  /\ history[a] \subseteq 0 .. MaxTime /\ 0 \in history[a]
               /\ waitingFor[a] \in Requests \union {None}
               /\ awaitedId[a] \in Ids \union {NoId}
               /\ issued[a] \in 0 .. MaxMessages
    BY DEF IInv, TypedAgents
  <2> QED
    BY <2>1, <2>2, <2>3, <2>4 DEF TypeOK
<1> QED
  BY <1>1, Invariance, PTL

\* However many writes, undone writes and GVT updates interleave, the write periods
\* of the variable follow one another without gap or overlap
\* (StateVariable::WriteWithRollback, PerformWriteRollback, RemoveWritePeriods).
THEOREM Partition == Spec => []PeriodsPartitionTime
<1>1. IInv => PeriodsPartitionTime
  BY ListInvMeans, Identities DEF IInv, PeriodsPartitionTime
<1> QED
  BY <1>1, Invariance, PTL

\* And each read on record is in the period in force at its time, where a later
\* write or undone write will find it and roll it back.
THEOREM ReadsStay == Spec => []ReadsStayInTheirPeriod
<1>1. IInv => ReadsStayInTheirPeriod
  BY ListInvMeans, Identities DEF IInv, ReadsStayInTheirPeriod
<1> QED
  BY <1>1, Invariance, PTL

-----------------------------------------------------------------------------
(***************************************************************************)
(* Which reads an agent acts upon, and why a read that is not on record    *)
(* any more is rolled back.                                                *)
(***************************************************************************)
IsRequest(m) == m.type \in {"read", "write"}

\* Of the answers an agent was given or is about to be, those it takes: it expects
\* the one to the request sent last.
Takes(given, coming, expected) ==
  {m \in {given} \union ToSet(coming) :
     m.type = "readResponse" /\ (m = given \/ m.id = expected)}

\* With the reads it acted upon before.
Reads(done, given, coming, expected) ==
  done \union {[time |-> m.time, value |-> m.value] : m \in Takes(given, coming, expected)}

\* The reads of an agent that are not cancelled: answered, sent, or still to be sent.
Live(given, coming, expected, sent, queue, agent) ==
  Takes(given, coming, expected)
  \union {m \in ToSet(sent) : m.type = "read" /\ m.id = expected}
  \union {m \in ToSet(queue) : m.type = "read" /\ m.id.agent = agent}

\* A rollback to this time or before is on its way, or reached nobody.
Revokes(coming, missed, agent, time) ==
  \/ \E m \in ToSet(coming) : m.type = "rollback" /\ m.agent = agent /\ m.time <= time
  \/ \E l \in missed : l.agent = agent /\ l.time <= time

\* Two messages that are one request.
Twins ==
  {p \in ToClpMessages \X ToClpMessages :
     IsRequest(p[1]) /\ IsRequest(p[2]) /\ p[1].id = p[2].id}

\* A read with one of these identifiers and an anti-message that takes it back.
Revoked(ids) ==
  {p \in ToClpMessages \X ToClpMessages :
     /\ p[1].type = "read" /\ p[2].type = "readAnti"
     /\ p[1].id.agent = p[2].id.agent /\ p[1].time = p[2].time
     /\ p[1].id \in ids}

Awaited == {awaitedId[a] : a \in Agents}

TypedReads ==
  /\ response \in [Agents -> Responses \union {None}]
  /\ learnt \in [Agents -> SUBSET [time : Nat, value : Values]]
  /\ committed \in Nat

\* Messages go to the ALP of the agent and come from it, under identifiers used up.
Addressed ==
  /\ \A r \in Ranks :
       /\ \A m \in ToSet(toClp[r]) :
            m.id.agent.rank = r /\ (IsRequest(m) => m.id.n <= issued[m.id.agent])
       /\ \A m \in ToSet(sendQueue[r]) :
            m.id.agent.rank = r /\ (IsRequest(m) => m.id.n <= issued[m.id.agent])
       /\ \A m \in ToSet(toAlp[r]) :
            /\ IsResponse(m) => m.id.agent.rank = r /\ m.id.n <= issued[m.id.agent]
            /\ m.type = "rollback" => m.agent.rank = r
  /\ \A a \in Agents :
       /\ waitingFor[a] # None => waitingFor[a].id.agent = a /\ Max(history[a]) <= waitingFor[a].time
       /\ awaitedId[a] # NoId => awaitedId[a].agent = a

\* A request in a send queue was not sent before.
SentOnce ==
  \A r \in Ranks :
    /\ Avoids(sendQueue[r], Twins)
    /\ \A x \in ToSet(sendQueue[r]) : IsRequest(x) =>
         /\ \A y \in ToSet(toClp[r]) : IsRequest(y) => x.id # y.id
         /\ \A y \in ToSet(toAlp[r]) : IsResponse(y) => x.id # y.id

\* The agent waits for its read, or has its LVT after it.
Timely ==
  \A a \in Agents :
    /\ \A l \in learnt[a] : l.time + 1 \in history[a]
    /\ \A m \in Live(response[a], toAlp[a.rank], awaitedId[a], toClp[a.rank],
                     sendQueue[a.rank], a) :
         \/ m.id = waitingFor[a].id /\ m.time = waitingFor[a].time
         \/ m.time + 1 \in history[a]

\* The anti-message of a read is sent before the read is repeated, and takes back
\* none that the agent acts upon.
AntisFirst ==
  \A r \in Ranks :
    /\ Avoids(sendQueue[r], Revoked(Ids))
    /\ Avoids(toClp[r], Revoked(Awaited))
    /\ \A x \in ToSet(toClp[r]), y \in ToSet(sendQueue[r]) : <<x, y>> \notin Revoked(Awaited)
    /\ \A y \in ToSet(toClp[r]) \union ToSet(sendQueue[r]) : y.type = "readAnti" =>
         \A l \in Reads(learnt[y.id.agent], response[y.id.agent], toAlp[y.id.agent.rank],
                        awaitedId[y.id.agent]) :
           l.time # y.time

\* A read the agent acts upon is committed, on record, or revoked.
Covered ==
  \A a \in Agents :
    \A l \in Reads(learnt[a], response[a], toAlp[a.rank], awaitedId[a]) :
      \/ l.time < committed
      \/ Recorded(periods, l.value, a, l.time)
      \/ Revokes(toAlp[a.rank], lost, a, l.time)

ReadInv == TypedReads /\ Addressed /\ SentOnce /\ Timely /\ AntisFirst /\ Covered

-----------------------------------------------------------------------------
\* What messages there are.
LEMMA MessageKinds ==
  /\ NoId \notin Ids /\ None.id = NoId /\ None.type = "none"
  /\ \A m \in ToClpMessages :
       /\ m.id \in Ids /\ m.id.agent \in Agents /\ m.id.agent.rank \in Ranks
       /\ m.time \in Nat /\ m.id.n \in Nat
       /\ m.type \in {"read", "write", "readAnti", "writeAnti"}
  /\ \A m \in ToAlpMessages :
       /\ m.type \in {"readResponse", "writeResponse", "rollback"}
       /\ m.type # "rollback" =>
            /\ m.id \in Ids /\ m.id.agent \in Agents /\ m.id.agent.rank \in Ranks
            /\ m.time \in Nat /\ m.id.n \in Nat
       /\ m.type = "readResponse" => m.value \in Values
       /\ m.type = "rollback" => m.agent \in Agents /\ m.time \in Nat
<1>1. NoId \notin Ids /\ None.id = NoId /\ None.type = "none"
  BY DEF NoId, Ids, None
<1>2. \A i \in Ids : i.agent \in Agents /\ i.agent.rank \in Ranks /\ i.n \in Nat
  BY Identities DEF Ids
<1>3. \A m \in ToClpMessages :
        /\ m.id \in Ids /\ m.time \in Nat
        /\ m.type \in {"read", "write", "readAnti", "writeAnti"}
  BY DEF ToClpMessages, Requests, AntiMessages
<1>4. \A m \in ToAlpMessages :
        /\ m.type \in {"readResponse", "writeResponse", "rollback"}
        /\ m.type # "rollback" => m.id \in Ids /\ m.time \in Nat
        /\ m.type = "readResponse" => m.value \in Values
        /\ m.type = "rollback" => m.agent \in Agents /\ m.time \in Nat
  BY DEF ToAlpMessages, Responses, Rollbacks
<1> QED
  BY <1>1, <1>2, <1>3, <1>4

\* What is in the queues.
LEMMA InQueues ==
  ASSUME IInv, NEW r \in Ranks
  PROVE  /\ toClp[r] \in Seq(ToClpMessages) /\ ToSet(toClp[r]) \subseteq ToClpMessages
         /\ sendQueue[r] \in Seq(ToClpMessages) /\ ToSet(sendQueue[r]) \subseteq ToClpMessages
         /\ toAlp[r] \in Seq(ToAlpMessages) /\ ToSet(toAlp[r]) \subseteq ToAlpMessages
<1>1. /\ toClp[r] \in Seq(ToClpMessages) /\ sendQueue[r] \in Seq(ToClpMessages)
      /\ toAlp[r] \in Seq(ToAlpMessages)
  BY DEF IInv, TypedMessages
<1> QED
  BY <1>1, ToSetType

\* What Twins and Revoked say.
LEMMA Pairs ==
  ASSUME NEW x \in ToClpMessages, NEW y \in ToClpMessages
  PROVE  /\ <<x, y>> \in Twins <=> IsRequest(x) /\ IsRequest(y) /\ x.id = y.id
         /\ \A ids : <<x, y>> \in Revoked(ids) <=>
              /\ x.type = "read" /\ y.type = "readAnti"
              /\ x.id.agent = y.id.agent /\ x.time = y.time /\ x.id \in ids
  BY DEF Twins, Revoked

\* The fewer answers come, the fewer an agent takes.
LEMMA TakesFewer ==
  ASSUME NEW given, NEW coming, NEW less, NEW expected, ToSet(less) \subseteq ToSet(coming)
  PROVE  /\ Takes(given, less, expected) \subseteq Takes(given, coming, expected)
         /\ Takes(None, less, expected) \subseteq Takes(given, coming, expected)
         /\ \A done : Reads(done, given, less, expected) \subseteq Reads(done, given, coming, expected)
         /\ \A done : Reads(done, None, less, expected) \subseteq Reads(done, given, coming, expected)
<1>1. /\ Takes(given, less, expected) \subseteq Takes(given, coming, expected)
      /\ Takes(None, less, expected) \subseteq Takes(given, coming, expected)
  BY DEF Takes, None
<1> QED
  BY <1>1 DEF Reads

\* What an agent takes are answers to reads.
LEMMA TakesType ==
  ASSUME IInv, ReadInv, NEW a \in Agents
  PROVE  /\ Takes(response[a], toAlp[a.rank], awaitedId[a]) \subseteq Responses
         /\ \A m \in Takes(response[a], toAlp[a.rank], awaitedId[a]) :
              /\ m.id \in Ids /\ m.time \in Nat /\ m.value \in Values
         /\ Reads(learnt[a], response[a], toAlp[a.rank], awaitedId[a])
              \subseteq [time : Nat, value : Values]
         /\ \A m \in Live(response[a], toAlp[a.rank], awaitedId[a], toClp[a.rank],
                          sendQueue[a.rank], a) :
              m.id \in Ids /\ m.time \in Nat
<1>1. a.rank \in Ranks
  BY Identities
<1>2. /\ response[a] \in Responses \union {None}
      /\ learnt[a] \in SUBSET [time : Nat, value : Values]
  BY DEF ReadInv, TypedReads
<1>3. /\ ToSet(toAlp[a.rank]) \subseteq ToAlpMessages
      /\ ToSet(toClp[a.rank]) \subseteq ToClpMessages
      /\ ToSet(sendQueue[a.rank]) \subseteq ToClpMessages
  BY <1>1, InQueues
<1>4. \A m \in ToAlpMessages : m.type = "readResponse" => m \in Responses
  BY DEF ToAlpMessages, Rollbacks
<1>5. Takes(response[a], toAlp[a.rank], awaitedId[a]) \subseteq Responses
  BY <1>2, <1>3, <1>4, MessageKinds DEF Takes
<1>6. \A m \in Takes(response[a], toAlp[a.rank], awaitedId[a]) :
        /\ m.id \in Ids /\ m.time \in Nat /\ m.value \in Values
  BY <1>5, MessageKinds DEF Takes, ToAlpMessages
<1>7. Reads(learnt[a], response[a], toAlp[a.rank], awaitedId[a]) \subseteq [time : Nat, value : Values]
  BY <1>2, <1>6 DEF Reads
<1>8. \A m \in Live(response[a], toAlp[a.rank], awaitedId[a], toClp[a.rank], sendQueue[a.rank], a) :
        m.id \in Ids /\ m.time \in Nat
  BY <1>3, <1>6, MessageKinds DEF Live
<1> QED
  BY <1>5, <1>6, <1>7, <1>8

\* Nothing was read yet.
LEMMA InitReadInv == Init => ReadInv
<1> SUFFICES ASSUME Init PROVE ReadInv
  OBVIOUS
<1>1. /\ toClp = [r \in Ranks |-> <<>>] /\ toAlp = [r \in Ranks |-> <<>>]
      /\ sendQueue = [r \in Ranks |-> <<>>]
      /\ waitingFor = [a \in Agents |-> None] /\ awaitedId = [a \in Agents |-> NoId]
      /\ response = [a \in Agents |-> None] /\ learnt = [a \in Agents |-> {}]
      /\ committed = 0
  BY DEF Init
<1>2. ToSet(<<>>) = {} /\ \A R : Avoids(<<>>, R)
  BY DEF ToSet, Avoids
<1>3. \A a \in Agents : a.rank \in Ranks
  BY Identities
<1>4. TypedReads
  BY <1>1 DEF TypedReads
<1>5. Addressed
  BY <1>1, <1>2 DEF Addressed
<1>6. SentOnce
  BY <1>1, <1>2 DEF SentOnce
<1>7. \A given, expected : given = None => Takes(given, <<>>, expected) = {}
  BY <1>2, MessageKinds DEF Takes
<1>8. Timely
  <2> SUFFICES ASSUME NEW a \in Agents
               PROVE  /\ learnt[a] = {}
                      /\ Live(response[a], toAlp[a.rank], awaitedId[a], toClp[a.rank],
                              sendQueue[a.rank], a) = {}
    BY DEF Timely
  <2> QED
    BY <1>1, <1>2, <1>3, <1>7 DEF Live
<1>9. AntisFirst
  BY <1>1, <1>2 DEF AntisFirst
<1>10. Covered
  <2> SUFFICES ASSUME NEW a \in Agents
               PROVE  Reads(learnt[a], response[a], toAlp[a.rank], awaitedId[a]) = {}
    BY DEF Covered
  <2> QED
    BY <1>1, <1>3, <1>7 DEF Reads
<1> QED
  BY <1>4, <1>5, <1>6, <1>8, <1>9, <1>10 DEF ReadInv

\* Agent::ReadInt, WriteInt: the request is new, and the agent waits for it.
LEMMA IssueKeepsReads ==
  ASSUME IInv, ReadInv, NEW a \in Agents, NEW type \in {"read", "write"}, NEW delay \in {0, 1},
         Issue(a, type, delay)
  PROVE  ReadInv'
<1> DEFINE m == Request(type, [agent |-> a, n |-> issued[a] + 1], Lvt(a) + delay)
<1>1. /\ Lvt(a) \in Nat /\ Lvt(a) < EndTime /\ issued[a] \in 0 .. MaxMessages
      /\ issued[a] < MaxMessages /\ MaxMessages \in Nat /\ waitingFor[a] = None
  BY LvtType, TimeWarpAssumption DEF IInv, TypedAgents, Issue, IsFree
<1>2. Lvt(a) + delay \in 0 .. MaxTime /\ issued[a] + 1 \in 1 .. MaxMessages
  BY <1>1, Times
<1>3. /\ m \in ToClpMessages /\ IsRequest(m)
      /\ m.id.agent = a /\ m.id.n = issued[a] + 1
      /\ m.time = Lvt(a) + delay /\ m.id \in Ids
  BY <1>2 DEF Request, Requests, Ids, IsRequest, ToClpMessages
<1>4. /\ issued'     = [issued EXCEPT ![a] = issued[a] + 1]
      /\ waitingFor' = [waitingFor EXCEPT ![a] = m]
      /\ sendQueue'  = [sendQueue EXCEPT ![a.rank] = Append(sendQueue[a.rank], m)]
      /\ UNCHANGED <<periods, toClp, toAlp, history, awaitedId, response, learnt, lost, committed>>
  BY DEF Issue, m, clpVars, netVars, histVars
<1> HIDE DEF m
<1>5. /\ a.rank \in Ranks
      /\ ToSet(sendQueue'[a.rank]) = ToSet(sendQueue[a.rank]) \union {m}
      /\ sendQueue'[a.rank] = Append(sendQueue[a.rank], m)
      /\ \A s \in Ranks : s # a.rank => sendQueue'[s] = sendQueue[s]
  <2> DEFINE to == a.rank
  <2>1. to \in Ranks /\ sendQueue \in [Ranks -> Seq(ToClpMessages)] /\ m \in ToClpMessages
    BY <1>3, Identities DEF IInv, TypedMessages
  <2>2. sendQueue' = [sendQueue EXCEPT ![to] = Append(sendQueue[to], m)]
    BY <1>4
  <2> HIDE DEF to
  <2>3. /\ ToSet(sendQueue'[to]) = ToSet(sendQueue[to]) \union {m}
        /\ sendQueue'[to] = Append(sendQueue[to], m)
        /\ \A s \in Ranks : s # to => sendQueue'[s] = sendQueue[s]
    <3>1. sendQueue[to] \in Seq(ToClpMessages)
      BY <2>1
    <3>2. ToSet(Append(sendQueue[to], m)) = ToSet(sendQueue[to]) \union {m}
      BY <2>1, <3>1, AppendFacts
    <3> QED
      BY <2>1, <2>2, <3>2
  <2> QED
    BY <2>1, <2>3 DEF to
<1>6. \A b \in Agents : issued[b] \in Nat /\ issued'[b] \in Nat /\ issued[b] <= issued'[b]
  <2>1. issued \in [Agents -> 0 .. MaxMessages]
    BY DEF IInv, TypedAgents
  <2> QED
    BY <1>1, <1>4, <2>1
\* No request or response has the identifier yet.
<1>7. ASSUME NEW r \in Ranks
      PROVE  /\ \A x \in ToSet(toClp[r]) \union ToSet(sendQueue[r]) : IsRequest(x) => x.id # m.id
             /\ \A x \in ToSet(toAlp[r]) : IsResponse(x) => x.id # m.id
  <2>1. /\ \A x \in ToSet(toClp[r]) \union ToSet(sendQueue[r]) :
             IsRequest(x) => x.id.n <= issued[x.id.agent]
        /\ \A x \in ToSet(toAlp[r]) : IsResponse(x) => x.id.n <= issued[x.id.agent]
    BY DEF ReadInv, Addressed
  <2>2. ~(m.id.n <= issued[m.id.agent])
    BY <1>1, <1>3
  <2> QED
    BY <2>1, <2>2
<1>8. TypedReads'
  BY <1>4 DEF ReadInv, TypedReads
<1>9. Addressed'
  <2>1. ASSUME NEW r \in Ranks
        PROVE  /\ \A x \in ToSet(toClp'[r]) :
                    x.id.agent.rank = r /\ (IsRequest(x) => x.id.n <= issued'[x.id.agent])
               /\ \A x \in ToSet(sendQueue'[r]) :
                    x.id.agent.rank = r /\ (IsRequest(x) => x.id.n <= issued'[x.id.agent])
               /\ \A x \in ToSet(toAlp'[r]) :
                    /\ IsResponse(x) => x.id.agent.rank = r /\ x.id.n <= issued'[x.id.agent]
                    /\ x.type = "rollback" => x.agent.rank = r
    <3>1. ASSUME NEW x, x \in ToSet(toClp[r]) \union ToSet(sendQueue[r])
          PROVE  x.id.agent.rank = r /\ (IsRequest(x) => x.id.n <= issued'[x.id.agent])
      <4>1. x \in ToClpMessages
        BY <3>1, InQueues
      <4>2. x.id.agent \in Agents /\ x.id.n \in Nat
        BY <4>1, MessageKinds
      <4>3. x.id.agent.rank = r /\ (IsRequest(x) => x.id.n <= issued[x.id.agent])
        BY <3>1 DEF ReadInv, Addressed
      <4> QED
        BY <1>6, <4>2, <4>3
    <3>2. ASSUME NEW x \in ToSet(toAlp[r]), IsResponse(x)
          PROVE  x.id.agent.rank = r /\ x.id.n <= issued'[x.id.agent]
      <4>1. x \in ToAlpMessages /\ x.type # "rollback"
        BY <3>2, InQueues DEF IsResponse
      <4>2. x.id.agent \in Agents /\ x.id.n \in Nat
        BY <4>1, MessageKinds
      <4>3. x.id.agent.rank = r /\ x.id.n <= issued[x.id.agent]
        BY <3>2 DEF ReadInv, Addressed
      <4> QED
        BY <1>6, <4>2, <4>3
    <3>3. \A x \in ToSet(toAlp[r]) : x.type = "rollback" => x.agent.rank = r
      BY DEF ReadInv, Addressed
    <3>4. m.id.n <= issued'[m.id.agent]
      <4>1. issued'[a] = issued[a] + 1
        BY <1>4 DEF IInv, TypedAgents
      <4> QED
        BY <1>1, <1>3, <4>1
    <3>5. \A x \in ToSet(sendQueue'[r]) :
            x \in ToSet(sendQueue[r]) \/ (x = m /\ r = a.rank)
      BY <1>5
    <3>6. toClp' = toClp /\ toAlp' = toAlp
      BY <1>4
    <3> QED
      BY <1>3, <3>1, <3>2, <3>3, <3>4, <3>5, <3>6
  <2>2. ASSUME NEW b \in Agents
        PROVE  /\ waitingFor'[b] # None => /\ waitingFor'[b].id.agent = b
                                           /\ Max(history'[b]) <= waitingFor'[b].time
               /\ awaitedId'[b] # NoId => awaitedId'[b].agent = b
    <3>1. /\ waitingFor[b] # None => /\ waitingFor[b].id.agent = b
                                     /\ Max(history[b]) <= waitingFor[b].time
          /\ awaitedId[b] # NoId => awaitedId[b].agent = b
      BY DEF ReadInv, Addressed
    <3>2. waitingFor'[b] = IF b = a THEN m ELSE waitingFor[b]
      BY <1>4 DEF IInv, TypedAgents
    <3>3. Max(history[a]) <= m.time
      BY <1>1, <1>3 DEF Lvt
    <3> QED
      BY <1>3, <1>4, <3>1, <3>2, <3>3
  <2> QED
    BY <2>1, <2>2 DEF Addressed
<1>10. SentOnce'
  <2> SUFFICES ASSUME NEW r \in Ranks
               PROVE  /\ Avoids(sendQueue'[r], Twins)
                      /\ \A x \in ToSet(sendQueue'[r]) : IsRequest(x) =>
                           /\ \A y \in ToSet(toClp'[r]) : IsRequest(y) => x.id # y.id
                           /\ \A y \in ToSet(toAlp'[r]) : IsResponse(y) => x.id # y.id
    BY DEF SentOnce
  <2>1. /\ Avoids(sendQueue[r], Twins)
        /\ \A x \in ToSet(sendQueue[r]) : IsRequest(x) =>
             /\ \A y \in ToSet(toClp[r]) : IsRequest(y) => x.id # y.id
             /\ \A y \in ToSet(toAlp[r]) : IsResponse(y) => x.id # y.id
    BY DEF ReadInv, SentOnce
  <2>2. CASE r # a.rank
    BY <1>4, <1>5, <2>1, <2>2
  <2>3. CASE r = a.rank
    <3>1. \A x \in ToSet(sendQueue[r]) : <<x, m>> \notin Twins
      BY <1>3, <1>7, InQueues, Pairs
    <3>2. Avoids(Append(sendQueue[r], m), Twins)
      BY <1>3, <2>1, <3>1, InQueues, AvoidsAppend
    <3> QED
      BY <1>4, <1>5, <1>7, <2>1, <2>3, <3>2
  <2> QED
    BY <2>2, <2>3
<1>11. Timely'
  <2> SUFFICES ASSUME NEW b \in Agents
               PROVE  /\ \A l \in learnt'[b] : l.time + 1 \in history'[b]
                      /\ \A x \in Live(response'[b], toAlp'[b.rank], awaitedId'[b], toClp'[b.rank],
                                       sendQueue'[b.rank], b) :
                           \/ x.id = waitingFor'[b].id /\ x.time = waitingFor'[b].time
                           \/ x.time + 1 \in history'[b]
    BY DEF Timely
  <2> DEFINE L == Live(response[b], toAlp[b.rank], awaitedId[b], toClp[b.rank], sendQueue[b.rank], b)
  <2>1. /\ \A l \in learnt[b] : l.time + 1 \in history[b]
        /\ \A x \in L : \/ x.id = waitingFor[b].id /\ x.time = waitingFor[b].time
                        \/ x.time + 1 \in history[b]
    BY DEF ReadInv, Timely
  <2>2. \A x \in L : x.id \in Ids
    BY TakesType
  <2>3. b.rank \in Ranks
    BY Identities
  <2>4. ToSet(sendQueue'[b.rank]) \subseteq ToSet(sendQueue[b.rank]) \union {m}
    BY <1>5, <2>3
  <2>5. Live(response[b], toAlp[b.rank], awaitedId[b], toClp[b.rank], sendQueue'[b.rank], b)
          \subseteq L \union (IF b = a THEN {m} ELSE {})
    BY <1>3, <2>4 DEF Live
  <2> HIDE DEF L
  <2>6. waitingFor'[b] = IF b = a THEN m ELSE waitingFor[b]
    BY <1>4 DEF IInv, TypedAgents
  <2>7. \A x \in L : x.id # waitingFor[a].id
    BY <1>1, <2>2, MessageKinds
  <2> QED
    BY <1>4, <2>1, <2>5, <2>6, <2>7
<1>12. AntisFirst'
  <2> SUFFICES ASSUME NEW r \in Ranks
               PROVE  /\ Avoids(sendQueue'[r], Revoked(Ids))
                      /\ \A y \in ToSet(sendQueue'[r]) : y \in ToSet(sendQueue[r]) \/ y = m
    <3>1. m.type # "readAnti"
      BY <1>3 DEF IsRequest
    <3>2. \A r_1 \in Ranks : /\ Avoids(sendQueue'[r_1], Revoked(Ids))
                             /\ \A y \in ToSet(sendQueue'[r_1]) : y \in ToSet(sendQueue[r_1]) \/ y = m
      OBVIOUS
    <3>3. Awaited' = Awaited
      BY <1>4 DEF Awaited
    <3>4. \A r_1 \in Ranks : \A x \in ToSet(toClp[r_1]) : <<x, m>> \notin Revoked(Awaited)
      BY <1>3, <3>1, InQueues, Pairs
    <3> QED
      BY <1>4, <3>1, <3>2, <3>3, <3>4 DEF ReadInv, AntisFirst
  <2>1. Avoids(sendQueue[r], Revoked(Ids))
    BY DEF ReadInv, AntisFirst
  <2>2. CASE r # a.rank
    BY <1>5, <2>1, <2>2
  <2>3. CASE r = a.rank
    <3>1. \A x \in ToSet(sendQueue[r]) : <<x, m>> \notin Revoked(Ids)
      BY <1>3, InQueues, Pairs DEF IsRequest
    <3>2. Avoids(Append(sendQueue[r], m), Revoked(Ids))
      BY <1>3, <2>1, <3>1, InQueues, AvoidsAppend
    <3> QED
      BY <1>5, <2>3, <3>2
  <2> QED
    BY <2>2, <2>3
<1>13. Covered'
  BY <1>4 DEF ReadInv, Covered
<1> QED
  BY <1>8, <1>9, <1>10, <1>11, <1>12, <1>13 DEF ReadInv

\* Agent::time_wrap.
LEMMA TimeWrapKeepsReads ==
  ASSUME IInv, ReadInv, NEW a \in Agents, NEW step \in WrapSteps, TimeWrap(a, step)
  PROVE  ReadInv'
<1>1. /\ waitingFor[a] = None
      /\ history' = [history EXCEPT ![a] = history[a] \union {Lvt(a) + step}]
      /\ UNCHANGED <<periods, toClp, toAlp, sendQueue, waitingFor, awaitedId, response, issued,
                     learnt, lost, committed>>
  BY DEF TimeWrap, IsFree, clpVars, netVars, alpVars, histVars
<1>2. /\ \A b \in Agents : history[b] \subseteq history'[b]
      /\ \A b \in Agents : b # a => history'[b] = history[b]
  BY <1>1 DEF IInv, TypedAgents
<1>3. TypedReads'
  BY <1>1 DEF ReadInv, TypedReads
<1>4. Addressed'
  BY <1>1, <1>2 DEF ReadInv, Addressed
<1>5. SentOnce'
  BY <1>1 DEF ReadInv, SentOnce
<1>6. Timely'
  BY <1>1, <1>2 DEF ReadInv, Timely
<1>7. AntisFirst'
  <2>1. Awaited' = Awaited
    BY <1>1 DEF Awaited
  <2> QED
    BY <1>1, <2>1 DEF ReadInv, AntisFirst
<1>8. Covered'
  BY <1>1 DEF ReadInv, Covered
<1> QED
  BY <1>3, <1>4, <1>5, <1>6, <1>7, <1>8 DEF ReadInv

\* Agent::WaitUntilMessageArrive, SetLVT: the agent acts upon an answer it takes, and
\* its LVT is then after what it waited for.
LEMMA ConsumeKeepsReads ==
  ASSUME IInv, ReadInv, NEW a \in Agents, Consume(a)
  PROVE  ReadInv'
<1> DEFINE m == response[a]
           l == [time |-> m.time, value |-> m.value]
<1>1. /\ waitingFor[a] # None /\ m # None
      /\ history' = [history EXCEPT ![a] = history[a] \union {waitingFor[a].time + 1}]
      /\ waitingFor' = [waitingFor EXCEPT ![a] = None]
      /\ response' = [response EXCEPT ![a] = None]
      /\ learnt' = IF m.type = "readResponse"
                   THEN [learnt EXCEPT ![a] = learnt[a] \union {l}] ELSE learnt
      /\ UNCHANGED <<periods, toClp, toAlp, sendQueue, awaitedId, issued, lost, committed>>
  BY DEF Consume, clpVars, netVars, alpVars
<1>2. /\ \A b \in Agents : history[b] \subseteq history'[b]
      /\ \A b \in Agents : b # a => history'[b] = history[b] /\ waitingFor'[b] = waitingFor[b]
      /\ waitingFor'[a] = None /\ waitingFor[a].time + 1 \in history'[a]
  BY <1>1 DEF IInv, TypedAgents
<1>3. /\ response'[a] = None /\ \A b \in Agents : b # a => response'[b] = response[b]
      /\ \A b \in Agents : b # a => learnt'[b] = learnt[b]
      /\ learnt'[a] = IF m.type = "readResponse" THEN learnt[a] \union {l} ELSE learnt[a]
  BY <1>1 DEF ReadInv, TypedReads
<1>4. m.type = "readResponse" => m \in Takes(response[a], toAlp[a.rank], awaitedId[a])
  BY DEF Takes
<1>5. m.type = "readResponse" => m.time \in Nat /\ m.value \in Values
  BY <1>4, TakesType
<1>6. TypedReads'
  BY <1>1, <1>5 DEF ReadInv, TypedReads
<1>7. Addressed'
  BY <1>1, <1>2 DEF ReadInv, Addressed
<1>8. SentOnce'
  BY <1>1 DEF ReadInv, SentOnce
\* What the agent takes now, it took before.
<1>9. ASSUME NEW b \in Agents
      PROVE  /\ Takes(response'[b], toAlp'[b.rank], awaitedId'[b])
                  \subseteq Takes(response[b], toAlp[b.rank], awaitedId[b])
             /\ Reads(learnt'[b], response'[b], toAlp'[b.rank], awaitedId'[b])
                  \subseteq Reads(learnt[b], response[b], toAlp[b.rank], awaitedId[b])
  <2>1. response'[b] = response[b] \/ response'[b] = None
    BY <1>3
  <2>2. Takes(response'[b], toAlp'[b.rank], awaitedId'[b])
          \subseteq Takes(response[b], toAlp[b.rank], awaitedId[b])
    BY <1>1, <2>1, TakesFewer
  <2>3. learnt'[b] \subseteq learnt[b] \union
                     {[time |-> x.time, value |-> x.value] :
                        x \in Takes(response[b], toAlp[b.rank], awaitedId[b])}
    BY <1>3, <1>4
  <2> QED
    BY <2>2, <2>3 DEF Reads
<1>10. Timely'
  <2> SUFFICES ASSUME NEW b \in Agents
               PROVE  /\ \A x \in learnt'[b] : x.time + 1 \in history'[b]
                      /\ \A x \in Live(response'[b], toAlp'[b.rank], awaitedId'[b], toClp'[b.rank],
                                       sendQueue'[b.rank], b) :
                           \/ x.id = waitingFor'[b].id /\ x.time = waitingFor'[b].time
                           \/ x.time + 1 \in history'[b]
    BY DEF Timely
  <2> DEFINE L == Live(response[b], toAlp[b.rank], awaitedId[b], toClp[b.rank], sendQueue[b.rank], b)
  <2>1. /\ \A x \in learnt[b] : x.time + 1 \in history[b]
        /\ \A x \in L : \/ x.id = waitingFor[b].id /\ x.time = waitingFor[b].time
                        \/ x.time + 1 \in history[b]
    BY DEF ReadInv, Timely
  <2>2. Live(response'[b], toAlp'[b.rank], awaitedId'[b], toClp'[b.rank], sendQueue'[b.rank], b)
          \subseteq L
    BY <1>1, <1>9 DEF Live
  <2>3. m.type = "readResponse" /\ a = b => m \in L
    BY <1>4 DEF Live
  <2> HIDE DEF L
  <2>4. \A x \in L : \/ x.id = waitingFor'[b].id /\ x.time = waitingFor'[b].time
                     \/ x.time + 1 \in history'[b]
    BY <1>2, <2>1
  <2>5. m.type = "readResponse" /\ a = b => m.time + 1 \in history'[b]
    BY <1>2, <2>1, <2>3
  <2>6. \A x \in learnt'[b] : x \in learnt[b] \/ (m.type = "readResponse" /\ a = b /\ x = l)
    BY <1>3
  <2>7. \A x \in learnt'[b] : x.time + 1 \in history'[b]
    BY <1>2, <2>1, <2>5, <2>6
  <2> QED
    BY <2>2, <2>4, <2>7
<1>11. AntisFirst'
  <2>1. Awaited' = Awaited
    BY <1>1 DEF Awaited
  <2>2. \A r \in Ranks : \A y \in ToSet(toClp[r]) \union ToSet(sendQueue[r]) : y.id.agent \in Agents
    BY InQueues, MessageKinds
  <2> QED
    BY <1>1, <1>9, <2>1, <2>2 DEF ReadInv, AntisFirst
<1>12. Covered'
  BY <1>1, <1>9 DEF ReadInv, Covered
<1> QED
  BY <1>6, <1>7, <1>8, <1>10, <1>11, <1>12 DEF ReadInv

\* Alp::Send: the request sent is the one expected from now on, and no answer to it
\* is there yet.
LEMMA AlpSendKeepsReads ==
  ASSUME IInv, ReadInv, NEW r \in Ranks, AlpSend(r)
  PROVE  ReadInv'
<1> DEFINE m == Head(sendQueue[r])
           a == m.id.agent
<1>1. /\ sendQueue[r] # <<>>
      /\ sendQueue' = [sendQueue EXCEPT ![r] = Tail(sendQueue[r])]
      /\ toClp' = [toClp EXCEPT ![r] = Append(toClp[r], m)]
      /\ IF m.type \in {"read", "write"}
         THEN awaitedId' = [awaitedId EXCEPT ![a] = m.id]
         ELSE awaitedId' = awaitedId
      /\ UNCHANGED <<periods, toAlp, history, waitingFor, response, issued, learnt, lost, committed>>
  BY DEF AlpSend, clpVars, histVars
<1>2. /\ m \in ToClpMessages /\ m \in ToSet(sendQueue[r])
      /\ sendQueue'[r] = Tail(sendQueue[r])
      /\ ToSet(sendQueue[r]) = {m} \union ToSet(sendQueue'[r])
      /\ \A s \in Ranks : s # r => sendQueue'[s] = sendQueue[s]
      /\ \A s \in Ranks : ToSet(sendQueue'[s]) \subseteq ToSet(sendQueue[s])
  <2>1. sendQueue[r] \in Seq(ToClpMessages) /\ sendQueue \in [Ranks -> Seq(ToClpMessages)]
    BY DEF IInv, TypedMessages
  <2>2. m \in ToClpMessages /\ ToSet(sendQueue[r]) = {m} \union ToSet(Tail(sendQueue[r]))
    BY <1>1, <2>1, TailFacts
  <2> HIDE DEF m
  <2>3. /\ sendQueue'[r] = Tail(sendQueue[r])
        /\ \A s \in Ranks : s # r => sendQueue'[s] = sendQueue[s]
    BY <1>1, <2>1
  <2> QED
    BY <2>2, <2>3
<1>3. /\ m.id \in Ids /\ a \in Agents /\ a.rank = r
      /\ m.type \in {"read", "write", "readAnti", "writeAnti"}
  BY <1>2, MessageKinds DEF ReadInv, Addressed
<1> HIDE DEF m, a
<1>4. /\ toClp'[r] = Append(toClp[r], m)
      /\ ToSet(toClp'[r]) = ToSet(toClp[r]) \union {m}
      /\ \A s \in Ranks : s # r => toClp'[s] = toClp[s]
  <2>1. toClp[r] \in Seq(ToClpMessages)
    BY InQueues
  <2>2. ToSet(Append(toClp[r], m)) = ToSet(toClp[r]) \union {m}
    BY <1>2, <2>1, AppendFacts
  <2> QED
    BY <1>1, <2>2 DEF IInv, TypedMessages
<1>5. /\ IsRequest(m) => awaitedId'[a] = m.id /\ \A b \in Agents : b # a => awaitedId'[b] = awaitedId[b]
      /\ ~IsRequest(m) => awaitedId' = awaitedId
  BY <1>1, <1>3 DEF IsRequest, IInv, TypedAgents
<1>6. \A b \in Agents : b.rank \in Ranks
  BY Identities
\* Neither sent nor answered.
<1>7. IsRequest(m) => /\ \A y \in ToSet(toClp[r]) : IsRequest(y) => m.id # y.id
                      /\ \A y \in ToSet(toAlp[r]) : IsResponse(y) => m.id # y.id
  BY <1>2 DEF ReadInv, SentOnce
<1>8. TypedReads'
  BY <1>1 DEF ReadInv, TypedReads
<1>9. Addressed'
  <2>1. \A s \in Ranks : \A x \in ToSet(toClp'[s]) :
          x \in ToSet(toClp[s]) \/ x \in ToSet(sendQueue[s])
    BY <1>2, <1>4
  <2>2. ASSUME NEW b \in Agents PROVE awaitedId'[b] # NoId => awaitedId'[b].agent = b
    BY <1>5 DEF ReadInv, Addressed, a
  <2> QED
    BY ZenonT(60), <1>1, <1>2, <2>1, <2>2 DEF ReadInv, Addressed
<1>10. SentOnce'
  <2> SUFFICES ASSUME NEW s \in Ranks
               PROVE  /\ Avoids(sendQueue'[s], Twins)
                      /\ \A x \in ToSet(sendQueue'[s]) : IsRequest(x) =>
                           /\ \A y \in ToSet(toClp'[s]) : IsRequest(y) => x.id # y.id
                           /\ \A y \in ToSet(toAlp'[s]) : IsResponse(y) => x.id # y.id
    BY DEF SentOnce
  <2>1. /\ Avoids(sendQueue[s], Twins)
        /\ \A x \in ToSet(sendQueue[s]) : IsRequest(x) =>
             /\ \A y \in ToSet(toClp[s]) : IsRequest(y) => x.id # y.id
             /\ \A y \in ToSet(toAlp[s]) : IsResponse(y) => x.id # y.id
    BY DEF ReadInv, SentOnce
  <2>2. CASE s # r
    BY <1>1, <1>2, <1>4, <2>1, <2>2
  <2>3. CASE s = r
    <3>1. /\ Avoids(Tail(sendQueue[r]), Twins)
          /\ \A y \in ToSet(Tail(sendQueue[r])) : <<m, y>> \notin Twins
      BY <1>1, <2>1, <2>3, InQueues, AvoidsTail DEF m
    <3>2. \A x \in ToSet(sendQueue'[r]) : IsRequest(x) /\ IsRequest(m) => x.id # m.id
      <4>1. \A x \in ToSet(sendQueue'[r]) : x \in ToClpMessages
        BY <1>2, InQueues
      <4> QED
        BY <1>2, <3>1, <4>1, Pairs
    <3> QED
      BY <1>1, <1>2, <1>4, <2>1, <2>3, <3>1, <3>2
  <2> QED
    BY <2>2, <2>3
\* The agent takes no answer that it did not take before.
<1>11. ASSUME NEW b \in Agents
       PROVE  Takes(response'[b], toAlp'[b.rank], awaitedId'[b])
                \subseteq Takes(response[b], toAlp[b.rank], awaitedId[b])
  <2>1. CASE awaitedId'[b] = awaitedId[b]
    BY <1>1, <2>1
  <2>2. CASE awaitedId'[b] # awaitedId[b]
    <3>1. IsRequest(m) /\ b = a /\ awaitedId'[b] = m.id
      BY <1>5, <2>2
    <3>2. \A y \in ToSet(toAlp[b.rank]) : y.type = "readResponse" => y.id # m.id
      BY <1>3, <1>7, <3>1 DEF IsResponse
    <3> QED
      BY <1>1, <3>1, <3>2 DEF Takes
  <2> QED
    BY <2>1, <2>2
<1>12. ASSUME NEW b \in Agents
       PROVE  Reads(learnt'[b], response'[b], toAlp'[b.rank], awaitedId'[b])
                \subseteq Reads(learnt[b], response[b], toAlp[b.rank], awaitedId[b])
  BY <1>1, <1>11 DEF Reads
<1>13. Timely'
  <2> SUFFICES ASSUME NEW b \in Agents
               PROVE  Live(response'[b], toAlp'[b.rank], awaitedId'[b], toClp'[b.rank],
                           sendQueue'[b.rank], b)
                        \subseteq Live(response[b], toAlp[b.rank], awaitedId[b], toClp[b.rank],
                                       sendQueue[b.rank], b)
    BY <1>1 DEF ReadInv, Timely
  <2>1. \A x \in ToSet(sendQueue'[b.rank]) : x \in ToSet(sendQueue[b.rank])
    BY <1>2, <1>6
  <2>2. ASSUME NEW x \in ToSet(toClp'[b.rank]), x.type = "read", x.id = awaitedId'[b]
        PROVE  \/ x \in ToSet(toClp[b.rank]) /\ x.id = awaitedId[b]
               \/ x \in ToSet(sendQueue[b.rank]) /\ x.id.agent = b
    <3>1. x \in ToSet(toClp[b.rank]) \/ (x = m /\ b.rank = r)
      BY <1>4, <1>6
    <3>2. CASE x = m /\ b.rank = r
      <4>1. IsRequest(m)
        BY <2>2, <3>2 DEF IsRequest
      <4>2. b = a
        <5>1. b # a => awaitedId[b] = m.id
          BY <1>5, <2>2, <3>2, <4>1
        <5>2. awaitedId[b] # NoId => awaitedId[b].agent = b
          BY DEF ReadInv, Addressed
        <5> QED
          BY <1>3, <5>1, <5>2, MessageKinds DEF a
      <4> QED
        BY <1>2, <3>2, <4>2 DEF a
    <3>3. CASE x \in ToSet(toClp[b.rank])
      <4>1. CASE awaitedId'[b] = awaitedId[b]
        BY <2>2, <3>3, <4>1
      <4>2. CASE awaitedId'[b] # awaitedId[b]
        <5>1. IsRequest(m) /\ b = a /\ awaitedId'[b] = m.id
          BY <1>5, <4>2
        <5> QED
          BY <1>3, <1>7, <2>2, <3>3, <5>1 DEF IsRequest
      <4> QED
        BY <4>1, <4>2
    <3> QED
      BY <3>1, <3>2, <3>3
  <2> QED
    BY <1>11, <2>1, <2>2 DEF Live
\* No read that was sent becomes one that is expected.
<1>14. ASSUME NEW s \in Ranks, NEW x \in ToSet(toClp[s]), NEW y \in ToClpMessages,
              <<x, y>> \in Revoked(Awaited')
       PROVE  <<x, y>> \in Revoked(Awaited)
  <2>1. x \in ToClpMessages
    BY InQueues
  <2>2. /\ x.type = "read" /\ y.type = "readAnti" /\ x.id.agent = y.id.agent /\ x.time = y.time
        /\ x.id \in Awaited'
    BY <1>14, <2>1, Pairs
  <2>3. PICK b \in Agents : x.id = awaitedId'[b]
    BY <2>2 DEF Awaited
  <2>4. awaitedId'[b] = awaitedId[b]
    <3> SUFFICES ASSUME awaitedId'[b] # awaitedId[b] PROVE FALSE
      OBVIOUS
    <3>1. IsRequest(m) /\ x.id = m.id
      BY <1>5, <2>3
    <3>2. x.id.agent.rank = s
      BY DEF ReadInv, Addressed
    <3>3. s = r
      BY <1>3, <3>1, <3>2 DEF a
    <3> QED
      BY <1>7, <2>2, <3>1, <3>3 DEF IsRequest
  <2>5. x.id \in Awaited
    BY <2>3, <2>4 DEF Awaited
  <2> QED
    BY <2>1, <2>2, <2>5, Pairs
<1>15. AntisFirst'
  <2>1. ASSUME NEW s \in Ranks
        PROVE  /\ Avoids(sendQueue'[s], Revoked(Ids))
               /\ Avoids(toClp'[s], Revoked(Awaited'))
               /\ \A x \in ToSet(toClp'[s]), y \in ToSet(sendQueue'[s]) : <<x, y>> \notin Revoked(Awaited')
    <3>1. /\ Avoids(sendQueue[s], Revoked(Ids)) /\ Avoids(toClp[s], Revoked(Awaited))
          /\ \A x \in ToSet(toClp[s]), y \in ToSet(sendQueue[s]) : <<x, y>> \notin Revoked(Awaited)
      BY DEF ReadInv, AntisFirst
    <3>2. /\ toClp[s] \in Seq(ToClpMessages) /\ \A y \in ToSet(toClp[s]) : y \in ToClpMessages
          /\ \A y \in ToSet(sendQueue[s]) : y \in ToClpMessages
      BY InQueues
    <3>3. Avoids(toClp[s], Revoked(Awaited'))
      <4>1. \A i \in 1 .. Len(toClp[s]) : toClp[s][i] \in ToSet(toClp[s])
        BY <3>2, LenProperties DEF ToSet
      <4> QED
        BY <1>14, <3>1, <3>2, <4>1 DEF Avoids
    <3>4. \A x \in ToSet(toClp[s]), y \in ToSet(sendQueue[s]) : <<x, y>> \notin Revoked(Awaited')
      BY <1>14, <3>1, <3>2
    <3>5. CASE s # r
      BY <1>2, <1>4, <3>1, <3>3, <3>4, <3>5
    <3>6. CASE s = r
      <4>1. /\ Avoids(Tail(sendQueue[r]), Revoked(Ids))
            /\ \A y \in ToSet(Tail(sendQueue[r])) : <<m, y>> \notin Revoked(Ids)
        BY <1>1, <3>1, <3>6, InQueues, AvoidsTail DEF m
      <4>2. \A y \in ToSet(sendQueue'[r]) : <<m, y>> \notin Revoked(Awaited')
        <5>1. \A y \in ToSet(sendQueue'[r]) : y \in ToClpMessages /\ <<m, y>> \notin Revoked(Ids)
          BY <1>2, <3>2, <3>6, <4>1
        <5> QED
          BY <1>2, <1>3, <5>1, Pairs
      <4>3. \A x \in ToSet(toClp[r]) : <<x, m>> \notin Revoked(Awaited')
        BY <1>2, <3>4, <3>6
      <4>4. Avoids(Append(toClp[r], m), Revoked(Awaited'))
        BY <1>2, <3>2, <3>3, <3>6, <4>3, AvoidsAppend
      <4> QED
        BY <1>2, <1>4, <3>4, <3>6, <4>1, <4>2, <4>4
    <3> QED
      BY <3>5, <3>6
  <2>2. ASSUME NEW s \in Ranks, NEW y \in ToSet(toClp'[s]) \union ToSet(sendQueue'[s]),
               y.type = "readAnti"
        PROVE  \A l \in Reads(learnt'[y.id.agent], response'[y.id.agent], toAlp'[y.id.agent.rank],
                              awaitedId'[y.id.agent]) :
                 l.time # y.time
    <3>1. y \in ToSet(toClp[s]) \union ToSet(sendQueue[s])
      BY <1>2, <1>4
    <3>2. y.id.agent \in Agents
      BY <3>1, InQueues, MessageKinds
    <3>3. \A l \in Reads(learnt[y.id.agent], response[y.id.agent], toAlp[y.id.agent.rank],
                         awaitedId[y.id.agent]) :
            l.time # y.time
      BY <2>2, <3>1 DEF ReadInv, AntisFirst
    <3> QED
      BY <1>12, <3>2, <3>3
  <2> QED
    BY <2>1, <2>2 DEF AntisFirst
<1>16. Covered'
  BY <1>1, <1>12 DEF ReadInv, Covered
<1> QED
  BY <1>8, <1>9, <1>10, <1>13, <1>15, <1>16 DEF ReadInv

-----------------------------------------------------------------------------
\* What the CLP sends: the answer to the request it takes, and rollbacks.
SentFor(m, before, after, r) ==
  \A y \in ToSet(after) :
     \/ y \in ToSet(before)
     \/ y.type = "rollback" /\ y.agent.rank = r
     \/ /\ IsResponse(y) /\ y.id = m.id /\ y.id.agent.rank = r /\ IsRequest(m)
        /\ y.type = "readResponse" => m.type = "read" /\ y.time = m.time

\* The order of messages, when the CLP takes one and answers.
LEMMA ClpTakesKeepsOrder ==
  ASSUME IInv, ReadInv, NEW r \in Ranks, toClp[r] # <<>>, Take(r),
         UNCHANGED <<sendQueue, history, waitingFor, awaitedId, response, issued, learnt>>,
         toAlp' \in [Ranks -> Seq(ToAlpMessages)],
         \A s \in Ranks : SentFor(Head(toClp[r]), toAlp[s], toAlp'[s], s)
  PROVE  Addressed' /\ SentOnce' /\ Timely' /\ AntisFirst'
<1> DEFINE m == Head(toClp[r])
<1>1. /\ sendQueue' = sendQueue /\ history' = history /\ waitingFor' = waitingFor
      /\ awaitedId' = awaitedId /\ response' = response /\ issued' = issued /\ learnt' = learnt
  OBVIOUS
<1>2. /\ m \in ToClpMessages /\ m \in ToSet(toClp[r])
      /\ toClp'[r] = Tail(toClp[r])
      /\ ToSet(toClp[r]) = {m} \union ToSet(toClp'[r])
      /\ \A s \in Ranks : s # r => toClp'[s] = toClp[s]
  <2>1. toClp[r] \in Seq(ToClpMessages) /\ toClp \in [Ranks -> Seq(ToClpMessages)]
    BY DEF IInv, TypedMessages
  <2>2. m \in ToClpMessages /\ ToSet(toClp[r]) = {m} \union ToSet(Tail(toClp[r]))
    BY <2>1, TailFacts
  <2> HIDE DEF m
  <2>3. /\ toClp'[r] = Tail(toClp[r])
        /\ \A s \in Ranks : s # r => toClp'[s] = toClp[s]
    BY <2>1 DEF Take
  <2> QED
    BY <2>2, <2>3
<1>3. \A s \in Ranks : ToSet(toClp'[s]) \subseteq ToSet(toClp[s])
  BY <1>2
<1>4. /\ m.id \in Ids /\ m.id.agent \in Agents /\ m.id.agent.rank = r
      /\ IsRequest(m) => m.id.n <= issued[m.id.agent]
  BY <1>2, MessageKinds DEF ReadInv, Addressed
<1>5. \A s \in Ranks : SentFor(m, toAlp[s], toAlp'[s], s)
  OBVIOUS
<1>6. Avoids(Tail(toClp[r]), Revoked(Awaited))
      /\ \A y \in ToSet(Tail(toClp[r])) : <<m, y>> \notin Revoked(Awaited)
  <2>1. toClp[r] \in Seq(ToClpMessages) /\ Avoids(toClp[r], Revoked(Awaited))
    BY InQueues DEF ReadInv, AntisFirst
  <2> QED
    BY <2>1, AvoidsTail
<1> HIDE DEF m
<1>7. \A b \in Agents : b.rank \in Ranks
  BY Identities
<1>8. Addressed'
  <2> SUFFICES ASSUME NEW s \in Ranks, NEW y \in ToSet(toAlp'[s])
               PROVE  /\ IsResponse(y) => y.id.agent.rank = s /\ y.id.n <= issued[y.id.agent]
                      /\ y.type = "rollback" => y.agent.rank = s
    BY <1>1, <1>3 DEF ReadInv, Addressed
  <2>1. CASE y \in ToSet(toAlp[s])
    BY <2>1 DEF ReadInv, Addressed
  <2>2. CASE y \notin ToSet(toAlp[s])
    BY <1>4, <1>5, <2>2 DEF SentFor, IsResponse
  <2> QED
    BY <2>1, <2>2
<1>9. SentOnce'
  <2> SUFFICES ASSUME NEW s \in Ranks, NEW x \in ToSet(sendQueue[s]), IsRequest(x),
                      NEW y \in ToSet(toAlp'[s]), IsResponse(y)
               PROVE  x.id # y.id
    BY <1>1, <1>3 DEF ReadInv, SentOnce
  <2>1. CASE y \in ToSet(toAlp[s])
    BY <2>1 DEF ReadInv, SentOnce
  <2>2. CASE y \notin ToSet(toAlp[s])
    <3>1. y.id = m.id /\ s = r /\ IsRequest(m)
      BY <1>4, <1>5, <2>2 DEF SentFor, IsResponse
    <3> QED
      BY <1>2, <3>1 DEF ReadInv, SentOnce
  <2> QED
    BY <2>1, <2>2
\* A new answer that the agent takes is the one to the read taken.
<1>10. ASSUME NEW b \in Agents, NEW x \in Takes(response[b], toAlp'[b.rank], awaitedId[b])
       PROVE  \/ x \in Takes(response[b], toAlp[b.rank], awaitedId[b])
              \/ /\ m.type = "read" /\ m.id = awaitedId[b] /\ m.id.agent = b /\ b.rank = r
                 /\ x.id = m.id /\ x.time = m.time
  <2>1. CASE x = response[b] \/ x \in ToSet(toAlp[b.rank])
    BY <2>1 DEF Takes
  <2>2. CASE x # response[b] /\ x \notin ToSet(toAlp[b.rank])
    <3>1. x \in ToSet(toAlp'[b.rank]) /\ x.type = "readResponse" /\ x.id = awaitedId[b]
      BY <2>2 DEF Takes
    <3>2. x.id = m.id /\ m.type = "read" /\ x.time = m.time
      BY <1>5, <1>7, <2>2, <3>1 DEF SentFor
    <3>3. m.id.agent = b
      <4>1. awaitedId[b] # NoId => awaitedId[b].agent = b
        BY DEF ReadInv, Addressed
      <4>2. awaitedId[b] = m.id /\ m.id # NoId
        BY <1>4, <3>1, <3>2, MessageKinds
      <4> QED
        BY <4>1, <4>2
    <3> QED
      BY <1>4, <3>1, <3>2, <3>3
  <2> QED
    BY <2>1, <2>2
<1>11. Timely'
  <2> SUFFICES ASSUME NEW b \in Agents,
                      NEW x \in Live(response[b], toAlp'[b.rank], awaitedId[b], toClp'[b.rank],
                                     sendQueue[b.rank], b)
               PROVE  \/ x.id = waitingFor[b].id /\ x.time = waitingFor[b].time
                      \/ x.time + 1 \in history[b]
    BY <1>1 DEF ReadInv, Timely
  <2> DEFINE L == Live(response[b], toAlp[b.rank], awaitedId[b], toClp[b.rank], sendQueue[b.rank], b)
  <2>1. \A y \in L : \/ y.id = waitingFor[b].id /\ y.time = waitingFor[b].time
                     \/ y.time + 1 \in history[b]
    BY DEF ReadInv, Timely
  <2>2. CASE x \in Takes(response[b], toAlp'[b.rank], awaitedId[b])
    <3>1. CASE x \in Takes(response[b], toAlp[b.rank], awaitedId[b])
      BY <2>1, <3>1 DEF Live
    <3>2. CASE /\ m.type = "read" /\ m.id = awaitedId[b] /\ b.rank = r
               /\ x.id = m.id /\ x.time = m.time
      <4>1. m \in L
        BY <1>2, <3>2 DEF Live
      <4> HIDE DEF L
      <4> QED
        BY <2>1, <3>2, <4>1
    <3> QED
      BY <1>10, <2>2, <3>1, <3>2
  <2>3. CASE x \notin Takes(response[b], toAlp'[b.rank], awaitedId[b])
    <3>1. x \in L
      BY <1>3, <1>7, <2>3 DEF Live
    <3> HIDE DEF L
    <3> QED
      BY <2>1, <3>1
  <2> QED
    BY <2>2, <2>3
<1>12. AntisFirst'
  <2>1. Awaited' = Awaited
    BY <1>1 DEF Awaited
  <2>2. ASSUME NEW s \in Ranks
        PROVE  /\ Avoids(toClp'[s], Revoked(Awaited))
               /\ \A x \in ToSet(toClp'[s]), y \in ToSet(sendQueue[s]) : <<x, y>> \notin Revoked(Awaited)
    BY <1>2, <1>3, <1>6 DEF ReadInv, AntisFirst
  <2>3. ASSUME NEW s \in Ranks, NEW y \in ToSet(toClp'[s]) \union ToSet(sendQueue[s]),
               y.type = "readAnti",
               NEW l \in Reads(learnt[y.id.agent], response[y.id.agent], toAlp'[y.id.agent.rank],
                               awaitedId[y.id.agent])
        PROVE  l.time # y.time
    <3> DEFINE b == y.id.agent
    <3>1. y \in ToSet(toClp[s]) \union ToSet(sendQueue[s])
      BY <1>3
    <3>2. y \in ToClpMessages /\ b \in Agents /\ b.rank = s
      BY <3>1, InQueues, MessageKinds DEF ReadInv, Addressed
    <3>3. \A x \in Reads(learnt[b], response[b], toAlp[b.rank], awaitedId[b]) : x.time # y.time
      BY <2>3, <3>1 DEF ReadInv, AntisFirst
    <3> HIDE DEF b
    <3>4. l \in Reads(learnt[b], response[b], toAlp'[b.rank], awaitedId[b])
      BY DEF b
    <3>5. CASE l \in Reads(learnt[b], response[b], toAlp[b.rank], awaitedId[b])
      BY <3>3, <3>5
    <3>6. CASE l \notin Reads(learnt[b], response[b], toAlp[b.rank], awaitedId[b])
      <4>1. PICK x \in Takes(response[b], toAlp'[b.rank], awaitedId[b]) :
              l = [time |-> x.time, value |-> x.value]
        BY <3>4, <3>6 DEF Reads
      <4>2. x \notin Takes(response[b], toAlp[b.rank], awaitedId[b])
        BY <3>6, <4>1 DEF Reads
      <4>3. /\ m.type = "read" /\ m.id = awaitedId[b] /\ m.id.agent = b /\ s = r
            /\ l.time = m.time
        BY <1>10, <3>2, <4>1, <4>2
      <4>4. <<m, y>> \notin Revoked(Awaited)
        BY <1>2, <1>6, <2>3, <4>3 DEF ReadInv, AntisFirst
      <4>5. m.id \in Awaited
        BY <3>2, <4>3 DEF Awaited
      <4> QED
        BY <1>2, <2>3, <3>2, <4>3, <4>4, <4>5, Pairs DEF b
    <3> QED
      BY <3>5, <3>6
  <2>4. \A s \in Ranks : Avoids(sendQueue[s], Revoked(Ids))
    BY DEF ReadInv, AntisFirst
  <2> QED
    BY <1>1, <2>1, <2>2, <2>3, <2>4 DEF AntisFirst
<1> QED
  BY <1>8, <1>9, <1>11, <1>12

\* Clp::ProcessMessage(SingleReadMessage): the read is put on record as it is answered.
LEMMA ClpReadKeepsReads ==
  ASSUME IInv, IInv', ReadInv, NEW r \in Ranks, ClpRead(r)
  PROVE  ReadInv'
<1> DEFINE m == Head(toClp[r])
           to == m.id.agent.rank
           answer == ReadResponse(m, ReadValue(periods, m.time))
<1>1. toClp[r] # <<>> /\ Take(r) /\ m.type = "read"
  BY DEF ClpRead, IsNext
<1>2. /\ m.id \in Ids /\ m.id.agent \in Agents /\ to \in Ranks /\ m.time \in Nat
  BY <1>1, ClpTakes
<1>3. /\ \/ periods' = periods /\ toAlp' = toAlp
         \/ /\ Covering(periods, m.time) # 0
            /\ periods' = NoteRead(periods, m.id.agent, m.time)
            /\ toAlp' = [toAlp EXCEPT ![to] = Append(toAlp[to], answer)]
      /\ UNCHANGED <<sendQueue, history, waitingFor, awaitedId, response, issued, learnt, lost,
                     committed>>
  BY DEF ClpRead, alpVars, agentVars, histVars
<1>4. /\ answer.type = "readResponse" /\ answer.id = m.id /\ answer.time = m.time
      /\ answer.value = ReadValue(periods, m.time)
  BY DEF ReadResponse
<1>5. toAlp' \in [Ranks -> Seq(ToAlpMessages)] /\ toAlp \in [Ranks -> Seq(ToAlpMessages)]
  BY DEF IInv, TypedMessages
<1> HIDE DEF m, answer, to
<1>6. ASSUME NEW s \in Ranks
      PROVE  /\ ToSet(toAlp[s]) \subseteq ToSet(toAlp'[s])
             /\ \A y \in ToSet(toAlp'[s]) : y \in ToSet(toAlp[s]) \/ (y = answer /\ s = to /\ toAlp' # toAlp)
  <2>1. CASE toAlp'[s] = toAlp[s]
    BY <2>1
  <2>2. CASE toAlp'[s] # toAlp[s]
    <3>1. s = to /\ toAlp'[s] = Append(toAlp[s], answer)
      BY <1>3, <1>5, <2>2
    <3>2. answer \in ToAlpMessages
      <4>1. toAlp'[s] \in Seq(ToAlpMessages) /\ toAlp[s] \in Seq(ToAlpMessages)
        BY <1>5
      <4>2. /\ Len(Append(toAlp[s], answer)) = Len(toAlp[s]) + 1
            /\ Append(toAlp[s], answer)[Len(toAlp[s]) + 1] = answer
            /\ Len(toAlp[s]) \in Nat
        BY <4>1, AppendProperties, LenProperties
      <4>3. Len(toAlp[s]) + 1 \in 1 .. Len(toAlp'[s])
        BY <3>1, <4>2
      <4> QED
        BY <3>1, <4>1, <4>2, <4>3, ElementOfSeq
    <3>3. ToSet(Append(toAlp[s], answer)) = ToSet(toAlp[s]) \union {answer}
      BY <1>5, <3>2, AppendFacts
    <3> QED
      BY <2>2, <3>1, <3>3
  <2> QED
    BY <2>1, <2>2
<1>7. Addressed' /\ SentOnce' /\ Timely' /\ AntisFirst'
  <2>1. \A s \in Ranks : SentFor(m, toAlp[s], toAlp'[s], s)
    BY <1>1, <1>4, <1>6 DEF SentFor, IsResponse, IsRequest, to
  <2> QED
    BY <1>1, <1>3, <1>5, <2>1, ClpTakesKeepsOrder DEF m
<1>8. TypedReads'
  BY <1>3 DEF ReadInv, TypedReads
<1>9. ListInv(periods, Values, Agents)
  BY DEF IInv
<1>10. \A v, b, t : Recorded(periods, v, b, t) => Recorded(periods', v, b, t)
  BY <1>2, <1>3, <1>9, NoteReadRecords
<1>11. toAlp' # toAlp => Recorded(periods', answer.value, m.id.agent, answer.time)
  BY <1>2, <1>3, <1>4, <1>9, NoteReadRecords
<1>12. Covered'
  <2> SUFFICES ASSUME NEW b \in Agents,
                      NEW l \in Reads(learnt[b], response[b], toAlp'[b.rank], awaitedId[b])
               PROVE  \/ l.time < committed
                      \/ Recorded(periods', l.value, b, l.time)
                      \/ Revokes(toAlp'[b.rank], lost, b, l.time)
    BY <1>3 DEF Covered
  <2>1. b.rank \in Ranks
    BY Identities
  <2>2. CASE l \in Reads(learnt[b], response[b], toAlp[b.rank], awaitedId[b])
    <3>1. \/ l.time < committed
          \/ Recorded(periods, l.value, b, l.time)
          \/ Revokes(toAlp[b.rank], lost, b, l.time)
      BY <2>2 DEF ReadInv, Covered
    <3>2. Revokes(toAlp[b.rank], lost, b, l.time) => Revokes(toAlp'[b.rank], lost, b, l.time)
      BY <1>6, <2>1 DEF Revokes
    <3> QED
      BY <1>10, <3>1, <3>2
  <2>3. CASE l \notin Reads(learnt[b], response[b], toAlp[b.rank], awaitedId[b])
    <3>1. PICK x \in Takes(response[b], toAlp'[b.rank], awaitedId[b]) :
            l = [time |-> x.time, value |-> x.value]
      BY <2>3 DEF Reads
    <3>2. x \notin Takes(response[b], toAlp[b.rank], awaitedId[b])
      BY <2>3, <3>1 DEF Reads
    <3>3. x = answer /\ toAlp' # toAlp /\ x.id = awaitedId[b]
      BY <1>6, <2>1, <3>2 DEF Takes
    <3>4. m.id.agent = b
      <4>1. awaitedId[b] # NoId => awaitedId[b].agent = b
        BY DEF ReadInv, Addressed
      <4> QED
        BY <1>2, <1>4, <3>3, <4>1, MessageKinds
    <3> QED
      BY <1>11, <3>1, <3>3, <3>4
  <2> QED
    BY <2>2, <2>3
<1> QED
  BY <1>7, <1>8, <1>12 DEF ReadInv

\* Clp::ProcessMessage(SingleReadAntiMessage): no read an agent acts upon is taken
\* off the record.
LEMMA ClpReadAntiKeepsReads ==
  ASSUME IInv, IInv', ReadInv, NEW r \in Ranks, ClpReadAnti(r)
  PROVE  ReadInv'
<1> DEFINE m == Head(toClp[r])
<1>1. toClp[r] # <<>> /\ Take(r) /\ m.type = "readAnti"
  BY DEF ClpReadAnti, IsNext
<1>2. m.id.agent \in Agents /\ m.time \in Nat
  BY <1>1, ClpTakes
<1>3. m \in ToSet(toClp[r])
  <2>1. toClp[r] \in Seq(ToClpMessages)
    BY InQueues
  <2> QED
    BY <1>1, <2>1, TailFacts
<1>4. /\ \/ periods' = periods
         \/ /\ Covering(periods, m.time) # 0
            /\ periods' = PerformReadRollback(periods, m.id.agent, m.time)
      /\ UNCHANGED <<toAlp, sendQueue, history, waitingFor, awaitedId, response, issued, learnt, lost,
                     committed>>
  BY DEF ClpReadAnti, alpVars, agentVars, histVars
<1>5. Addressed' /\ SentOnce' /\ Timely' /\ AntisFirst'
  <2>1. \A s \in Ranks : SentFor(m, toAlp[s], toAlp'[s], s)
    BY <1>4 DEF SentFor
  <2>2. toAlp' \in [Ranks -> Seq(ToAlpMessages)]
    BY DEF IInv, TypedMessages
  <2> QED
    BY <1>1, <1>4, <2>1, <2>2, ClpTakesKeepsOrder
<1>6. TypedReads'
  BY <1>4 DEF ReadInv, TypedReads
<1> HIDE DEF m
<1>7. Covered'
  <2> SUFFICES ASSUME NEW b \in Agents,
                      NEW l \in Reads(learnt[b], response[b], toAlp[b.rank], awaitedId[b]),
                      Recorded(periods, l.value, b, l.time)
               PROVE  Recorded(periods', l.value, b, l.time)
    BY <1>4 DEF ReadInv, Covered
  <2>1. b # m.id.agent \/ l.time # m.time
    BY <1>1, <1>3 DEF ReadInv, AntisFirst
  <2>2. ListInv(periods, Values, Agents)
    BY DEF IInv
  <2>3. CASE periods' = periods
    BY <2>3
  <2>4. CASE /\ Covering(periods, m.time) # 0
             /\ periods' = PerformReadRollback(periods, m.id.agent, m.time)
    BY <1>2, <2>1, <2>2, <2>4, PerformReadRollbackRecords
  <2> QED
    BY <1>4, <2>3, <2>4
<1> QED
  BY <1>5, <1>6, <1>7 DEF ReadInv

\* The rollbacks that a rollback list has for an ALP.
RollbacksTo(rollbacks, tag, r) ==
  {Rollback(a, rollbacks[a], tag) : a \in {b \in DOMAIN rollbacks : b.rank = r}}

\* They are all that a queue has gained.
GainsRollbacks(before, after, rollbacks, tag, r) ==
  ToSet(after) = ToSet(before) \union RollbacksTo(rollbacks, tag, r)

\* They are what it adds to the ALP's queue.
LEMMA SendRollbacksAdds ==
  ASSUME NEW queues \in [Ranks -> Seq(ToAlpMessages)],
         NEW requests \in SUBSET [agent : Agents, time : Nat],
         NEW rollbacks \in AddLp(requests), NEW tag \in Tags, NEW r \in Ranks
  PROVE  GainsRollbacks(queues[r], SendRollbacks(queues, rollbacks, tag)[r], rollbacks, tag, r)
<1> DEFINE to   == {b \in DOMAIN rollbacks : b.rank = r}
           sent == {Rollback(a, rollbacks[a], tag) : a \in to}
<1>1. /\ DOMAIN rollbacks \subseteq Agents
      /\ \A a \in DOMAIN rollbacks : rollbacks[a] \in Nat
  BY AddLpType, Identities
<1>2. IsFiniteSet(Agents)
  BY TimeWarpAssumption
<1>3. IsFiniteSet(sent)
  <2>1. IsFiniteSet(to)
    BY <1>1, <1>2, FS_Subset
  <2> DEFINE f == [a \in to |-> Rollback(a, rollbacks[a], tag)]
  <2>2. f \in Surjection(to, sent)
    <3> HIDE DEF to
    <3> QED
      BY DEF Surjection
  <2> HIDE DEF f, to, sent
  <2> QED
    BY <2>1, <2>2, FS_Surjection
<1>4. sent \subseteq ToAlpMessages
  BY <1>1 DEF Rollback, Rollbacks, ToAlpMessages
<1>5. SendRollbacks(queues, rollbacks, tag)[r] = queues[r] \o SetToSeq(sent)
  BY DEF SendRollbacks
<1> HIDE DEF sent
<1>6. SetToSeq(sent) \in Seq(ToAlpMessages) /\ ToSet(SetToSeq(sent)) = sent
  <2>1. /\ SetToSeq(sent) \in Seq(sent)
        /\ \A x \in sent : \E i \in 1 .. Len(SetToSeq(sent)) : SetToSeq(sent)[i] = x
    BY <1>3, SetToSeqFacts
  <2>2. /\ DOMAIN SetToSeq(sent) = 1 .. Len(SetToSeq(sent))
        /\ \A i \in 1 .. Len(SetToSeq(sent)) : SetToSeq(sent)[i] \in sent
    BY <2>1, LenProperties, ElementOfSeq
  <2>3. ToSet(SetToSeq(sent)) = sent
    BY <2>1, <2>2 DEF ToSet
  <2>4. SetToSeq(sent) \in Seq(ToAlpMessages)
    BY <1>4, <2>1, SeqMonotonic
  <2> QED
    BY <2>3, <2>4
<1>7. ToSet(queues[r] \o SetToSeq(sent)) = ToSet(queues[r]) \union ToSet(SetToSeq(sent))
  <2>1. queues[r] \in Seq(ToAlpMessages)
    OBVIOUS
  <2> QED
    BY <1>6, <2>1, ConcatFacts
<1> QED
  BY <1>5, <1>6, <1>7 DEF GainsRollbacks, RollbacksTo, sent

\* What a rollback list asks for is sent or lost.
LEMMA RequestedIsRevoked ==
  ASSUME NEW requests \in SUBSET [agent : Agents, time : Nat],
         NEW rollbacks \in AddLp(requests), NEW tag,
         NEW q \in requests, NEW time \in Nat, q.time <= time,
         NEW queue, RollbacksTo(rollbacks, tag, q.agent.rank) \subseteq ToSet(queue),
         NEW missed, Forgotten(requests, rollbacks) \subseteq missed
  PROVE  Revokes(queue, missed, q.agent, time)
<1>1. q.agent \in Agents /\ q.time \in Nat
  OBVIOUS
<1>2. CASE q.agent \in DOMAIN rollbacks
  <2> DEFINE y == Rollback(q.agent, rollbacks[q.agent], tag)
  <2>1. rollbacks[q.agent] <= q.time
    BY <1>2, Identities, AddLpIsEarly
  <2>2. rollbacks[q.agent] \in Nat
    BY <1>2, Identities, AddLpType
  <2>3. y \in ToSet(queue)
    BY <1>2 DEF RollbacksTo
  <2>4. y.type = "rollback" /\ y.agent = q.agent /\ y.time = rollbacks[q.agent]
    BY DEF Rollback
  <2> HIDE DEF y
  <2>5. y.time <= time
    BY <1>1, <2>1, <2>2, <2>4
  <2> QED
    BY <2>3, <2>4, <2>5 DEF Revokes
<1>3. CASE q.agent \notin DOMAIN rollbacks
  BY <1>3 DEF Forgotten, Revokes
<1> QED
  BY <1>2, <1>3

\* What the CLP sends when it writes or undoes a write.
SendsRollbacks(m, before, after, r) ==
  /\ ToSet(before) \subseteq ToSet(after)
  /\ \A y \in ToSet(after) :
       \/ y \in ToSet(before)
       \/ y.type = "rollback" /\ y.agent.rank = r
       \/ y.type = "writeResponse" /\ y.id = m.id /\ y.id.agent.rank = r /\ IsRequest(m)

\* A read that is taken off the record is revoked.
KeepsOrRevokes(list, new, coming, missed) ==
  \A v \in Values, b \in Agents, t \in Nat :
     Recorded(list, v, b, t) => Recorded(new, v, b, t) \/ Revokes(coming[b.rank], missed, b, t)

\* What keeps the reads when the CLP sends rollbacks.
LEMMA RollbacksKeepReads ==
  ASSUME IInv, IInv', ReadInv, NEW r \in Ranks, toClp[r] # <<>>, Take(r),
         UNCHANGED <<sendQueue, history, waitingFor, awaitedId, response, issued, learnt, committed>>,
         lost \subseteq lost',
         \A s \in Ranks : SendsRollbacks(Head(toClp[r]), toAlp[s], toAlp'[s], s),
         KeepsOrRevokes(periods, periods', toAlp', lost')
  PROVE  ReadInv'
<1> DEFINE m == Head(toClp[r])
<1>1. \A s \in Ranks : SendsRollbacks(m, toAlp[s], toAlp'[s], s)
  OBVIOUS
<1> HIDE DEF m
<1>2. Addressed' /\ SentOnce' /\ Timely' /\ AntisFirst'
  <2>1. \A s \in Ranks : SentFor(m, toAlp[s], toAlp'[s], s)
    BY <1>1 DEF SentFor, SendsRollbacks, IsResponse
  <2>2. toAlp' \in [Ranks -> Seq(ToAlpMessages)]
    BY DEF IInv, TypedMessages
  <2> QED
    BY <2>1, <2>2, ClpTakesKeepsOrder DEF m
<1>3. TypedReads'
  BY DEF ReadInv, TypedReads
<1>4. ASSUME NEW b \in Agents,
             NEW l \in Reads(learnt'[b], response'[b], toAlp'[b.rank], awaitedId'[b])
      PROVE  l \in Reads(learnt[b], response[b], toAlp[b.rank], awaitedId[b])
  <2>1. b.rank \in Ranks
    BY Identities
  <2>2. Takes(response[b], toAlp'[b.rank], awaitedId[b])
          \subseteq Takes(response[b], toAlp[b.rank], awaitedId[b])
    BY <1>1, <2>1 DEF Takes, SendsRollbacks
  <2> QED
    BY <2>2 DEF Reads
<1>5. Covered'
  <2> SUFFICES ASSUME NEW b \in Agents,
                      NEW l \in Reads(learnt[b], response[b], toAlp[b.rank], awaitedId[b])
               PROVE  \/ l.time < committed
                      \/ Recorded(periods', l.value, b, l.time)
                      \/ Revokes(toAlp'[b.rank], lost', b, l.time)
    BY <1>4 DEF Covered
  <2>1. b.rank \in Ranks /\ l.time \in Nat /\ l.value \in Values
    BY Identities, TakesType
  <2>2. CASE Revokes(toAlp[b.rank], lost, b, l.time)
    BY <1>1, <2>1, <2>2 DEF Revokes, SendsRollbacks
  <2>3. CASE l.time < committed
    BY <2>3
  <2>4. CASE Recorded(periods, l.value, b, l.time)
    BY <2>1, <2>4 DEF KeepsOrRevokes
  <2> QED
    BY <2>2, <2>3, <2>4 DEF ReadInv, Covered
<1> QED
  BY <1>2, <1>3, <1>5 DEF ReadInv

\* The rollback list revokes what it was asked to roll back.
LEMMA RollbacksRevoke ==
  ASSUME NEW requests \in SUBSET [agent : Agents, time : Nat],
         NEW rollbacks \in AddLp(requests), NEW tag, NEW coming, NEW before,
         NEW missed, Forgotten(requests, rollbacks) \subseteq missed,
         \A s \in Ranks : GainsRollbacks(before[s], coming[s], rollbacks, tag, s),
         NEW b \in Agents, NEW time \in Nat, NEW t \in Nat, time <= t,
         [agent |-> b, time |-> time] \in requests
  PROVE  Revokes(coming[b.rank], missed, b, t)
<1>1. PICK q \in requests : q.agent = b /\ q.time = time
  OBVIOUS
<1>2. RollbacksTo(rollbacks, tag, b.rank) \subseteq ToSet(coming[b.rank])
  BY Identities DEF GainsRollbacks
<1>3. Revokes(coming[b.rank], missed, q.agent, t)
  BY <1>1, <1>2, RequestedIsRevoked
<1> QED
  BY <1>1, <1>3

\* Clp::ProcessMessage(WriteMessage): the reads that the write takes off the record are
\* those it asks to be rolled back.
LEMMA ClpWriteKeepsReads ==
  ASSUME IInv, IInv', ReadInv, NEW r \in Ranks, ClpWrite(r)
  PROVE  ReadInv'
<1> DEFINE m        == Head(toClp[r])
           agent    == m.id.agent
           to       == agent.rank
           refused  == IsRefused(periods, agent, m.time)
           requests == ReadsToRollBack(periods, m.time)
           answer   == WriteResponse(m, ~refused)
           tag      == Tag(m)
           answered == [toAlp EXCEPT ![to] = Append(toAlp[to], answer)]
<1>1. toClp[r] # <<>> /\ Take(r) /\ m.type = "write"
  BY DEF ClpWrite, IsNext
<1>2. /\ m.id \in Ids /\ agent \in Agents /\ agent \in LpId /\ to \in Ranks
      /\ m.time \in 0 .. MaxTime /\ m.time \in Nat /\ m.time < Infinity
  BY <1>1, ClpTakes
<1>3. /\ \/ refused /\ toAlp' = answered /\ UNCHANGED <<periods, lost>>
         \/ /\ ~refused
            /\ periods' = WriteWithRollback(periods, agent, m.id, m.time)
            /\ \E rollbacks \in AddLp(requests) :
                 /\ toAlp' = SendRollbacks(answered, rollbacks, tag)
                 /\ lost' = lost \union Forgotten(requests, rollbacks)
      /\ UNCHANGED <<sendQueue, history, waitingFor, awaitedId, response, issued, learnt, committed>>
  BY DEF ClpWrite, alpVars, agentVars
<1>4. answer.type = "writeResponse" /\ answer.id = m.id /\ IsRequest(m)
  BY <1>1 DEF WriteResponse, IsRequest
<1>5. answer \in ToAlpMessages
  <2>1. refused \in BOOLEAN
    BY DEF IsRefused
  <2> HIDE DEF m, refused
  <2> QED
    BY <1>2, <2>1 DEF WriteResponse, Responses, ToAlpMessages
<1>6. tag \in Tags
  BY <1>2 DEF Tag, Tags
<1>7. ~refused => requests \in SUBSET [agent : Agents, time : Nat]
  <2>1. ~refused => periods = <<>> \/ Covering(periods, m.time) # 0
    BY DEF IsRefused
  <2> HIDE DEF m
  <2> QED
    BY <1>2, <2>1, RequestsType DEF IInv
<1>8. ~refused => \A v \in Values, b \in Agents, t \in Nat : Recorded(periods, v, b, t) =>
                    \/ Recorded(WriteWithRollback(periods, agent, m.id, m.time), v, b, t)
                    \/ [agent |-> b, time |-> t] \in requests
  <2> HIDE DEF m, agent
  <2> QED
    BY <1>2, WriteWithRollbackRecords DEF IInv, Values
<1> HIDE DEF answer, tag, requests, refused
<1>9. /\ answered \in [Ranks -> Seq(ToAlpMessages)]
      /\ \A s \in Ranks :
           /\ ToSet(toAlp[s]) \subseteq ToSet(answered[s])
           /\ \A y \in ToSet(answered[s]) : y \in ToSet(toAlp[s]) \/ (y = answer /\ s = to)
  <2> HIDE DEF to, m, agent
  <2>1. toAlp \in [Ranks -> Seq(ToAlpMessages)]
    BY DEF IInv, TypedMessages
  <2>2. answered \in [Ranks -> Seq(ToAlpMessages)]
    BY <1>2, <1>5, <2>1, AppendTo
  <2>3. toAlp[to] \in Seq(ToAlpMessages)
    BY <1>2, <2>1
  <2>4. ToSet(Append(toAlp[to], answer)) = ToSet(toAlp[to]) \union {answer}
    BY <1>5, <2>3, AppendFacts
  <2>5. /\ answered[to] = Append(toAlp[to], answer)
        /\ \A s \in Ranks : s # to => answered[s] = toAlp[s]
    BY <1>2, <2>1
  <2> HIDE DEF answered
  <2> QED
    BY <2>2, <2>4, <2>5
<1> HIDE DEF answered
<1>10. answer.id.agent.rank = to
  BY <1>4
<1>11. \A s \in Ranks : SendsRollbacks(m, toAlp[s], answered[s], s)
  BY <1>4, <1>9, <1>10 DEF SendsRollbacks
<1>12. CASE refused /\ toAlp' = answered /\ UNCHANGED <<periods, lost>>
  <2>1. KeepsOrRevokes(periods, periods', toAlp', lost')
    BY <1>12 DEF KeepsOrRevokes
  <2> QED
    BY <1>1, <1>3, <1>11, <1>12, <2>1, RollbacksKeepReads DEF m
<1>13. CASE /\ ~refused
            /\ periods' = WriteWithRollback(periods, agent, m.id, m.time)
            /\ \E rollbacks \in AddLp(requests) :
                 /\ toAlp' = SendRollbacks(answered, rollbacks, tag)
                 /\ lost' = lost \union Forgotten(requests, rollbacks)
  <2>1. PICK rollbacks \in AddLp(requests) :
          /\ toAlp' = SendRollbacks(answered, rollbacks, tag)
          /\ lost' = lost \union Forgotten(requests, rollbacks)
    BY <1>13
  <2>2. requests \in SUBSET [agent : Agents, time : Nat]
    BY <1>7, <1>13
  <2>3. \A s \in Ranks : GainsRollbacks(answered[s], toAlp'[s], rollbacks, tag, s)
    <3>1. \A s \in Ranks :
            GainsRollbacks(answered[s], SendRollbacks(answered, rollbacks, tag)[s], rollbacks, tag, s)
      BY <1>6, <1>9, <2>2, SendRollbacksAdds
    <3> QED
      BY <2>1, <3>1
  <2>4. \A s \in Ranks : SendsRollbacks(m, toAlp[s], toAlp'[s], s)
    <3>1. \A s \in Ranks : \A y \in RollbacksTo(rollbacks, tag, s) :
            y.type = "rollback" /\ y.agent.rank = s
      BY DEF RollbacksTo, Rollback
    <3> HIDE DEF m
    <3> QED
      BY <1>11, <2>3, <3>1 DEF SendsRollbacks, GainsRollbacks
  <2>5. KeepsOrRevokes(periods, periods', toAlp', lost')
    <3> SUFFICES ASSUME NEW v \in Values, NEW b \in Agents, NEW t \in Nat,
                        Recorded(periods, v, b, t), ~Recorded(periods', v, b, t)
                 PROVE  Revokes(toAlp'[b.rank], lost', b, t)
      BY DEF KeepsOrRevokes
    <3>1. [agent |-> b, time |-> t] \in requests
      BY <1>8, <1>13
    <3>2. Forgotten(requests, rollbacks) \subseteq lost'
      BY <2>1
    <3> QED
      BY <2>2, <2>3, <3>1, <3>2, RollbacksRevoke
  <2>6. lost \subseteq lost'
    BY <2>1
  <2> QED
    BY <1>1, <1>3, <2>4, <2>5, <2>6, RollbacksKeepReads DEF m
<1> QED
  BY <1>3, <1>12, <1>13

\* Clp::ProcessMessage(WriteAntiMessage): likewise.
LEMMA ClpWriteAntiKeepsReads ==
  ASSUME IInv, IInv', ReadInv, NEW r \in Ranks, ClpWriteAnti(r)
  PROVE  ReadInv'
<1> DEFINE m        == Head(toClp[r])
           requests == ReadsOfUndone(periods, m.time)
           tag      == m.tag
<1>1. toClp[r] # <<>> /\ Take(r) /\ m.type = "writeAnti"
  BY DEF ClpWriteAnti, IsNext
<1>2. m \in ToClpMessages /\ m.time \in Nat
  BY <1>1, ClpTakes
<1>3. /\ \/ UNCHANGED <<periods, toAlp, lost>>
         \/ /\ CanUndo(periods, m.id.agent, m.time)
            /\ periods' = PerformWriteRollback(periods, m.time)
            /\ \E rollbacks \in AddLp(requests) :
                 /\ toAlp' = SendRollbacks(toAlp, rollbacks, tag)
                 /\ lost' = lost \union Forgotten(requests, rollbacks)
      /\ UNCHANGED <<sendQueue, history, waitingFor, awaitedId, response, issued, learnt, committed>>
  BY DEF ClpWriteAnti, alpVars, agentVars
<1>4. tag \in Tags
  BY <1>1, <1>2 DEF ToClpMessages, AntiMessages, Requests
<1>5. CanUndo(periods, m.id.agent, m.time) =>
        /\ requests \in SUBSET [agent : Agents, time : Nat]
        /\ \A v \in Values, b \in Agents, t \in Nat : Recorded(periods, v, b, t) =>
             \/ Recorded(PerformWriteRollback(periods, m.time), v, b, t)
             \/ [agent |-> b, time |-> m.time] \in requests /\ m.time <= t
  <2>1. CanUndo(periods, m.id.agent, m.time) => StartingAt(periods, m.time) # 0
    BY DEF CanUndo
  <2> HIDE DEF m
  <2> QED
    BY <1>2, <2>1, RequestsType, PerformWriteRollbackRecords DEF IInv
<1> HIDE DEF requests, tag
<1>6. CASE UNCHANGED <<periods, toAlp, lost>>
  <2>1. KeepsOrRevokes(periods, periods', toAlp', lost')
    BY <1>6 DEF KeepsOrRevokes
  <2>2. \A s \in Ranks : SendsRollbacks(m, toAlp[s], toAlp'[s], s)
    BY <1>6 DEF SendsRollbacks
  <2> QED
    BY <1>1, <1>3, <1>6, <2>1, <2>2, RollbacksKeepReads DEF m
<1>7. CASE /\ CanUndo(periods, m.id.agent, m.time)
           /\ periods' = PerformWriteRollback(periods, m.time)
           /\ \E rollbacks \in AddLp(requests) :
                /\ toAlp' = SendRollbacks(toAlp, rollbacks, tag)
                /\ lost' = lost \union Forgotten(requests, rollbacks)
  <2>1. PICK rollbacks \in AddLp(requests) :
          /\ toAlp' = SendRollbacks(toAlp, rollbacks, tag)
          /\ lost' = lost \union Forgotten(requests, rollbacks)
    BY <1>7
  <2>2. requests \in SUBSET [agent : Agents, time : Nat]
    BY <1>5, <1>7
  <2> HIDE DEF m
  <2>3. \A s \in Ranks : GainsRollbacks(toAlp[s], toAlp'[s], rollbacks, tag, s)
    <3>1. toAlp \in [Ranks -> Seq(ToAlpMessages)]
      BY DEF IInv, TypedMessages
    <3>2. \A s \in Ranks :
            GainsRollbacks(toAlp[s], SendRollbacks(toAlp, rollbacks, tag)[s], rollbacks, tag, s)
      BY <1>4, <2>2, <3>1, SendRollbacksAdds
    <3> QED
      BY <2>1, <3>2
  <2>4. \A s \in Ranks : SendsRollbacks(m, toAlp[s], toAlp'[s], s)
    <3>1. \A s \in Ranks : \A y \in RollbacksTo(rollbacks, tag, s) :
            y.type = "rollback" /\ y.agent.rank = s
      BY DEF RollbacksTo, Rollback
    <3> QED
      BY <2>3, <3>1 DEF SendsRollbacks, GainsRollbacks
  <2>5. KeepsOrRevokes(periods, periods', toAlp', lost')
    <3> SUFFICES ASSUME NEW v \in Values, NEW b \in Agents, NEW t \in Nat,
                        Recorded(periods, v, b, t), ~Recorded(periods', v, b, t)
                 PROVE  Revokes(toAlp'[b.rank], lost', b, t)
      BY DEF KeepsOrRevokes
    <3>1. [agent |-> b, time |-> m.time] \in requests /\ m.time <= t
      BY <1>5, <1>7
    <3>2. Forgotten(requests, rollbacks) \subseteq lost'
      BY <2>1
    <3> QED
      BY <1>2, <2>2, <2>3, <3>1, <3>2, RollbacksRevoke
  <2>6. lost \subseteq lost'
    BY <2>1
  <2> QED
    BY <1>1, <1>3, <2>4, <2>5, <2>6, RollbacksKeepReads DEF m
<1> QED
  BY <1>3, <1>6, <1>7

\* Clp::SetGvt: what is dropped from the record is before GVT.
LEMMA ClpSetGvtKeepsReads ==
  ASSUME IInv, ReadInv, ClpSetGvt
  PROVE  ReadInv'
<1>1. /\ periods' = RemoveWritePeriods(periods, gvt) /\ committed' = Max({committed, gvt})
      /\ UNCHANGED <<toClp, toAlp, sendQueue, history, waitingFor, awaitedId, response, issued,
                     learnt, lost>>
  BY DEF ClpSetGvt, netVars, alpVars, agentVars
<1>2. gvt \in Nat /\ gvt < Infinity /\ committed \in Nat
  BY Times, InfinityAssumption DEF IInv, TypedGvt, ReadInv, TypedReads
<1>3. committed' \in Nat /\ committed <= committed' /\ gvt <= committed'
  <2>1. PICK n \in Nat : n = committed + gvt
    BY <1>2
  <2> DEFINE S == {committed, gvt}
  <2>2. S \in SUBSET (0 .. n) /\ S # {}
    BY <1>2, <2>1
  <2>3. committed \in S /\ gvt \in S /\ S \subseteq Nat /\ committed' = Max(S)
    BY <1>1, <1>2
  <2> HIDE DEF S
  <2>4. Max(S) \in S /\ \A y \in S : y <= Max(S)
    BY <2>2, MaxOfSet
  <2> QED
    BY <2>3, <2>4
<1>4. Awaited' = Awaited
  BY <1>1 DEF Awaited
<1>5. TypedReads' /\ Addressed' /\ SentOnce' /\ Timely' /\ AntisFirst'
  BY ZenonT(60), <1>1, <1>3, <1>4 DEF ReadInv, TypedReads, Addressed, SentOnce, Timely, AntisFirst
<1>6. Covered'
  <2> SUFFICES ASSUME NEW b \in Agents,
                      NEW l \in Reads(learnt[b], response[b], toAlp[b.rank], awaitedId[b])
               PROVE  \/ l.time < committed'
                      \/ Recorded(periods', l.value, b, l.time)
                      \/ Revokes(toAlp[b.rank], lost, b, l.time)
    BY <1>1 DEF Covered
  <2>1. l.time \in Nat
    BY TakesType
  <2>2. CASE l.time < committed
    BY <1>2, <1>3, <2>1, <2>2
  <2>3. CASE Recorded(periods, l.value, b, l.time)
    <3>1. CASE l.time < gvt
      BY <1>2, <1>3, <2>1, <3>1
    <3>2. CASE l.time >= gvt
      BY <1>1, <1>2, <2>1, <2>3, <3>2, RemoveWritePeriodsRecords DEF IInv
    <3> QED
      BY <1>2, <2>1, <3>1, <3>2
  <2> QED
    BY <2>2, <2>3 DEF ReadInv, Covered
<1> QED
  BY <1>5, <1>6 DEF ReadInv

-----------------------------------------------------------------------------
\* What an ALP takes and what is left to come.
LEMMA AlpTakesOne ==
  ASSUME IInv, NEW r \in Ranks, toAlp[r] # <<>>,
         toAlp' = [toAlp EXCEPT ![r] = Tail(toAlp[r])]
  PROVE  /\ Head(toAlp[r]) \in ToAlpMessages /\ Head(toAlp[r]) \in ToSet(toAlp[r])
         /\ ToSet(toAlp[r]) = {Head(toAlp[r])} \union ToSet(toAlp'[r])
         /\ \A s \in Ranks : s # r => toAlp'[s] = toAlp[s]
         /\ \A s \in Ranks : ToSet(toAlp'[s]) \subseteq ToSet(toAlp[s])
<1>1. toAlp[r] \in Seq(ToAlpMessages) /\ toAlp \in [Ranks -> Seq(ToAlpMessages)]
  BY DEF IInv, TypedMessages
<1>2. /\ Head(toAlp[r]) \in ToAlpMessages
      /\ ToSet(toAlp[r]) = {Head(toAlp[r])} \union ToSet(Tail(toAlp[r]))
  BY <1>1, TailFacts
<1>3. /\ toAlp'[r] = Tail(toAlp[r])
      /\ \A s \in Ranks : s # r => toAlp'[s] = toAlp[s]
  BY <1>1
<1>4. ToSet(toAlp[r]) = {Head(toAlp[r])} \union ToSet(toAlp'[r])
  BY <1>2, <1>3
<1> QED
  BY <1>2, <1>3, <1>4

\* The fewer an agent takes, the fewer reads it acts upon.
LEMMA FewerReads ==
  ASSUME NEW done, NEW given, NEW coming, NEW expected,
         NEW less, NEW newGiven, NEW newComing, NEW newExpected, less \subseteq done,
         Takes(newGiven, newComing, newExpected) \subseteq Takes(given, coming, expected)
  PROVE  Reads(less, newGiven, newComing, newExpected) \subseteq Reads(done, given, coming, expected)
  BY DEF Reads

\* Alp::ProcessMessage of a response: the agent is given what it would take anyway.
LEMMA AlpResponseKeepsReads ==
  ASSUME IInv, ReadInv, NEW r \in Ranks, AlpResponse(r)
  PROVE  ReadInv'
<1> DEFINE m == Head(toAlp[r])
           a == m.id.agent
<1>1. /\ toAlp[r] # <<>> /\ IsResponse(m)
      /\ toAlp' = [toAlp EXCEPT ![r] = Tail(toAlp[r])]
      /\ response' = IF awaitedId[a] = m.id THEN [response EXCEPT ![a] = m] ELSE response
      /\ UNCHANGED <<periods, toClp, sendQueue, history, waitingFor, awaitedId, issued, learnt,
                     lost, committed>>
  BY DEF AlpResponse, IsAwaited, clpVars, histVars
<1>2. /\ m \in ToAlpMessages /\ m \in ToSet(toAlp[r])
      /\ ToSet(toAlp[r]) = {m} \union ToSet(toAlp'[r])
      /\ \A s \in Ranks : s # r => toAlp'[s] = toAlp[s]
      /\ \A s \in Ranks : ToSet(toAlp'[s]) \subseteq ToSet(toAlp[s])
  BY <1>1, AlpTakesOne
<1> HIDE DEF m
<1>3. /\ m.type # "rollback" /\ m.id \in Ids /\ a \in Agents /\ a.rank = r
      /\ m \in Responses
  <2>1. m.type # "rollback" /\ m.id \in Ids /\ a \in Agents
    BY <1>1, <1>2, MessageKinds DEF IsResponse
  <2>2. a.rank = r
    BY <1>1, <1>2 DEF ReadInv, Addressed
  <2>3. m \in Responses
    BY <1>2, <2>1 DEF ToAlpMessages, Rollbacks
  <2> QED
    BY <2>1, <2>2, <2>3
<1> HIDE DEF a
<1>4. /\ \A b \in Agents : b # a => response'[b] = response[b]
      /\ response'[a] = response[a] \/ (response'[a] = m /\ awaitedId[a] = m.id)
  BY <1>1, <1>3 DEF ReadInv, TypedReads
<1>5. TypedReads'
  <2>1. response' \in [Agents -> Responses \union {None}]
    BY <1>1, <1>3 DEF ReadInv, TypedReads
  <2> QED
    BY <1>1, <2>1 DEF ReadInv, TypedReads
<1>6. Addressed' /\ SentOnce'
  BY <1>1, <1>2 DEF ReadInv, Addressed, SentOnce
<1>7. ASSUME NEW b \in Agents
      PROVE  Takes(response'[b], toAlp'[b.rank], awaitedId'[b])
               \subseteq Takes(response[b], toAlp[b.rank], awaitedId[b])
  <2>1. b.rank \in Ranks
    BY Identities
  <2>2. ToSet(toAlp'[b.rank]) \subseteq ToSet(toAlp[b.rank])
    BY <1>2, <2>1
  <2>3. CASE response'[b] = response[b]
    BY <1>1, <2>2, <2>3 DEF Takes
  <2>4. CASE b = a /\ response'[b] = m /\ awaitedId[b] = m.id
    BY <1>1, <1>2, <1>3, <2>2, <2>4 DEF Takes
  <2> QED
    BY <1>4, <2>3, <2>4
<1>8. \A b \in Agents : Reads(learnt'[b], response'[b], toAlp'[b.rank], awaitedId'[b])
                          \subseteq Reads(learnt[b], response[b], toAlp[b.rank], awaitedId[b])
  BY <1>1, <1>7, FewerReads
<1>9. Timely'
  <2> SUFFICES ASSUME NEW b \in Agents
               PROVE  Live(response'[b], toAlp'[b.rank], awaitedId'[b], toClp'[b.rank],
                           sendQueue'[b.rank], b)
                        \subseteq Live(response[b], toAlp[b.rank], awaitedId[b], toClp[b.rank],
                                       sendQueue[b.rank], b)
    BY <1>1 DEF ReadInv, Timely
  <2> QED
    BY <1>1, <1>7 DEF Live
<1>10. AntisFirst'
  <2>1. Awaited' = Awaited
    BY <1>1 DEF Awaited
  <2>2. \A s \in Ranks : \A y \in ToSet(toClp[s]) \union ToSet(sendQueue[s]) : y.id.agent \in Agents
    BY InQueues, MessageKinds
  <2> QED
    BY ZenonT(60), <1>1, <1>8, <2>1, <2>2 DEF ReadInv, AntisFirst
<1>11. Covered'
  <2> SUFFICES ASSUME NEW b \in Agents,
                      NEW l \in Reads(learnt[b], response[b], toAlp[b.rank], awaitedId[b])
               PROVE  \/ l.time < committed
                      \/ Recorded(periods, l.value, b, l.time)
                      \/ Revokes(toAlp'[b.rank], lost, b, l.time)
    BY <1>1, <1>8 DEF Covered
  <2>1. b.rank \in Ranks
    BY Identities
  <2>2. \A y \in ToSet(toAlp[b.rank]) : y.type = "rollback" => y \in ToSet(toAlp'[b.rank])
    BY <1>2, <1>3, <2>1
  <2>3. Revokes(toAlp[b.rank], lost, b, l.time) => Revokes(toAlp'[b.rank], lost, b, l.time)
    BY <2>2 DEF Revokes
  <2> QED
    BY <2>3 DEF ReadInv, Covered
<1> QED
  BY <1>5, <1>6, <1>9, <1>10, <1>11 DEF ReadInv

\* Alp::ProcessRollback when it returns early: the rollback is counted as lost, or
\* the agent has acted upon nothing that it revokes.
LEMMA AlpIgnoreRollbackKeepsReads ==
  ASSUME IInv, ReadInv, NEW r \in Ranks, AlpIgnoreRollback(r)
  PROVE  ReadInv'
<1> DEFINE m == Head(toAlp[r])
           a == m.agent
           late == waitingFor[a] # None /\ waitingFor[a].time >= m.time
<1>1. /\ toAlp[r] # <<>> /\ m.type = "rollback"
      /\ toAlp' = [toAlp EXCEPT ![r] = Tail(toAlp[r])]
      /\ lost \subseteq lost'
      /\ \/ [agent |-> a, time |-> m.time] \in lost'
         \/ ~late /\ m.time > Lvt(a)
      /\ UNCHANGED <<periods, toClp, sendQueue, history, waitingFor, awaitedId, response, issued,
                     learnt, committed>>
  BY DEF AlpIgnoreRollback, IsNext, clpVars, agentVars
<1>2. /\ m \in ToAlpMessages /\ m \in ToSet(toAlp[r])
      /\ ToSet(toAlp[r]) = {m} \union ToSet(toAlp'[r])
      /\ \A s \in Ranks : s # r => toAlp'[s] = toAlp[s]
      /\ \A s \in Ranks : ToSet(toAlp'[s]) \subseteq ToSet(toAlp[s])
  BY <1>1, AlpTakesOne
<1>3. a \in Agents /\ m.time \in Nat
  BY <1>1, <1>2, MessageKinds
<1> HIDE DEF m, a, late
<1>4. TypedReads' /\ Addressed' /\ SentOnce'
  BY <1>1, <1>2 DEF ReadInv, TypedReads, Addressed, SentOnce
<1>5. ASSUME NEW b \in Agents
      PROVE  /\ Takes(response'[b], toAlp'[b.rank], awaitedId'[b])
                  \subseteq Takes(response[b], toAlp[b.rank], awaitedId[b])
             /\ Reads(learnt'[b], response'[b], toAlp'[b.rank], awaitedId'[b])
                  \subseteq Reads(learnt[b], response[b], toAlp[b.rank], awaitedId[b])
  <2>1. ToSet(toAlp'[b.rank]) \subseteq ToSet(toAlp[b.rank])
    BY <1>2, Identities
  <2>2. Takes(response'[b], toAlp'[b.rank], awaitedId'[b])
          \subseteq Takes(response[b], toAlp[b.rank], awaitedId[b])
    BY <1>1, <2>1 DEF Takes
  <2> QED
    BY <1>1, <2>2, FewerReads
<1>6. Timely'
  <2> SUFFICES ASSUME NEW b \in Agents
               PROVE  Live(response'[b], toAlp'[b.rank], awaitedId'[b], toClp'[b.rank],
                           sendQueue'[b.rank], b)
                        \subseteq Live(response[b], toAlp[b.rank], awaitedId[b], toClp[b.rank],
                                       sendQueue[b.rank], b)
    BY <1>1 DEF ReadInv, Timely
  <2> QED
    BY <1>1, <1>5 DEF Live
<1>7. AntisFirst'
  <2>1. Awaited' = Awaited
    BY <1>1 DEF Awaited
  <2>2. \A s \in Ranks : \A y \in ToSet(toClp[s]) \union ToSet(sendQueue[s]) : y.id.agent \in Agents
    BY InQueues, MessageKinds
  <2> QED
    BY <1>1, <1>5, <2>1, <2>2 DEF ReadInv, AntisFirst
\* What the agent acts upon is no later than its LVT, or what it waits for.
<1>8. ASSUME NEW l \in Reads(learnt[a], response[a], toAlp[a.rank], awaitedId[a]), m.time <= l.time
      PROVE  late \/ m.time <= Lvt(a)
  <2>1. l.time \in Nat
    BY <1>3, TakesType
  <2>2. ASSUME l.time + 1 \in history[a] PROVE m.time <= Lvt(a)
    <3>1. history[a] \in SUBSET (0 .. MaxTime) /\ history[a] # {} /\ MaxTime \in Nat
      BY <1>3, Times DEF IInv, TypedAgents
    <3>2. Lvt(a) \in history[a] /\ \A y \in history[a] : y <= Lvt(a)
      BY <3>1, MaxOfSet DEF Lvt
    <3>3. Lvt(a) \in Nat
      BY <3>1, <3>2
    <3> QED
      BY <1>3, <1>8, <2>1, <2>2, <3>2, <3>3
  <2>3. CASE l \in learnt[a]
    BY <1>3, <2>2, <2>3 DEF ReadInv, Timely
  <2>4. CASE l \notin learnt[a]
    <3>1. PICK x \in Takes(response[a], toAlp[a.rank], awaitedId[a]) : l.time = x.time
      BY <2>4 DEF Reads
    <3>2. x.id \in Ids
      BY <1>3, TakesType
    <3>3. \/ x.id = waitingFor[a].id /\ x.time = waitingFor[a].time
          \/ x.time + 1 \in history[a]
      <4>1. x \in Live(response[a], toAlp[a.rank], awaitedId[a], toClp[a.rank],
                       sendQueue[a.rank], a)
        BY DEF Live
      <4> QED
        BY <1>3, <4>1 DEF ReadInv, Timely
    <3>4. CASE x.id = waitingFor[a].id /\ x.time = waitingFor[a].time
      BY <1>3, <1>8, <2>1, <3>1, <3>2, <3>4, MessageKinds DEF late
    <3> QED
      BY <2>2, <3>1, <3>3, <3>4
  <2> QED
    BY <2>3, <2>4
<1>9. Covered'
  <2> SUFFICES ASSUME NEW b \in Agents,
                      NEW l \in Reads(learnt[b], response[b], toAlp[b.rank], awaitedId[b]),
                      Revokes(toAlp[b.rank], lost, b, l.time)
               PROVE  Revokes(toAlp'[b.rank], lost', b, l.time)
    BY <1>1, <1>5 DEF ReadInv, Covered
  <2>1. CASE \E x \in lost : x.agent = b /\ x.time <= l.time
    BY <1>1, <2>1 DEF Revokes
  <2>2. CASE \E y \in ToSet(toAlp[b.rank]) : y.type = "rollback" /\ y.agent = b /\ y.time <= l.time
    <3>1. PICK y \in ToSet(toAlp[b.rank]) : y.type = "rollback" /\ y.agent = b /\ y.time <= l.time
      BY <2>2
    <3>2. CASE y \in ToSet(toAlp'[b.rank])
      BY <3>1, <3>2 DEF Revokes
    <3>3. CASE y \notin ToSet(toAlp'[b.rank])
      <4>1. y = m
        BY <1>2, <3>3, Identities
      <4>2. b = a /\ m.time <= l.time
        BY <3>1, <4>1 DEF a
      <4>3. [agent |-> a, time |-> m.time] \in lost'
        <5>1. Lvt(a) \in Nat
          BY <1>3, LvtType DEF IInv
        <5> QED
          BY <1>1, <1>3, <1>8, <4>2, <5>1
      <4> QED
        BY <4>2, <4>3 DEF Revokes
    <3> QED
      BY <3>2, <3>3
  <2> QED
    BY <2>1, <2>2 DEF Revokes
<1> QED
  BY <1>4, <1>6, <1>7, <1>9 DEF ReadInv

\* What a rollback does to the send queue: it drops what the agent asked for from then
\* on, and adds the anti-messages of what it sent.
RolledBackQueue(before, after, a, time) ==
  \E kept, antis \in Seq(ToClpMessages) :
    /\ after = kept \o antis
    /\ \E gone : kept = Remaining(before, gone)
    /\ \A y \in ToSet(kept) : y \in ToSet(before) /\ ~IsRolledBack(y, a, time)
    /\ \A y \in ToSet(antis) :
         /\ y.type \in {"readAnti", "writeAnti"} /\ y.id.agent = a
         /\ y.time >= time /\ (y.type = "writeAnti" => y.time > time)

\* And what Alp::ProcessRollback makes of it.
LEMMA AlpRollbackQueue ==
  ASSUME IInv, NEW r \in Ranks, AlpRollback(r)
  PROVE  /\ RolledBackQueue(sendQueue[r], sendQueue'[r], Head(toAlp[r]).agent, Head(toAlp[r]).time)
         /\ \A s \in Ranks : s # r => sendQueue'[s] = sendQueue[s]
<1> DEFINE m       == Head(toAlp[r])
           a       == m.agent
           Gone(l) == {s \in ToSet(l) : IsRolledBack(s, a, m.time)}
           kept    == {s \in ToSet(sendList[r]) :
                         ~IsRolledBack(s, a, m.time) \/ s.time < alpGvt[r]}
           sent    == Remaining(sendList[r], kept)
           antis   == [i \in 1 .. Len(sent) |-> Anti(sent[i], m.tag)]
           queue   == Remaining(sendQueue[r], Gone(sendQueue[r]))
<1>1. toAlp[r] # <<>> /\ m.type = "rollback"
  BY DEF AlpRollback, IsNext
<1>2. a \in Agents /\ m.time \in Nat /\ m.tag \in Tags
  BY <1>1, AlpTakes
<1>3. sendQueue' = [sendQueue EXCEPT ![r] = queue \o antis]
  BY DEF AlpRollback
<1>4. sendList[r] \in Seq(Requests) /\ sendQueue[r] \in Seq(ToClpMessages)
  BY DEF IInv, TypedMessages
<1>5. /\ queue \in Seq(ToClpMessages)
      /\ \A y \in ToSet(queue) : y \in ToSet(sendQueue[r]) /\ ~IsRolledBack(y, a, m.time)
  <2> DEFINE gone == Gone(sendQueue[r])
  <2>1. \A y \in ToSet(sendQueue[r]) \ gone : ~IsRolledBack(y, a, m.time)
    OBVIOUS
  <2> HIDE DEF gone, m, a
  <2>2. /\ Remaining(sendQueue[r], gone) \in Seq(ToClpMessages)
        /\ ToSet(Remaining(sendQueue[r], gone)) = ToSet(sendQueue[r]) \ gone
    BY <1>4, RemainingFacts
  <2> QED
    BY <2>1, <2>2 DEF gone
<1>6. /\ sent \in Seq(Requests)
      /\ \A y \in ToSet(sent) : y \in Requests /\ IsRolledBack(y, a, m.time)
  <2>1. \A y \in ToSet(sendList[r]) \ kept : IsRolledBack(y, a, m.time)
    OBVIOUS
  <2>2. ToSet(sendList[r]) \subseteq Requests
    BY <1>4, ToSetType
  <2> HIDE DEF kept, m, a
  <2>3. /\ Remaining(sendList[r], kept) \in Seq(Requests)
        /\ ToSet(Remaining(sendList[r], kept)) = ToSet(sendList[r]) \ kept
    BY <1>4, RemainingFacts
  <2> QED
    BY <2>1, <2>2, <2>3
<1>7. \E gone : queue = Remaining(sendQueue[r], gone)
  OBVIOUS
<1> HIDE DEF sent, queue, m, a
<1>8. /\ antis \in Seq(ToClpMessages)
      /\ \A y \in ToSet(antis) :
           /\ y.type \in {"readAnti", "writeAnti"} /\ y.id.agent = a
           /\ y.time >= m.time /\ (y.type = "writeAnti" => y.time > m.time)
  <2>1. Len(sent) \in Nat /\ \A i \in 1 .. Len(sent) : sent[i] \in ToSet(sent)
    BY <1>6, LenProperties DEF ToSet
  <2>2. ASSUME NEW i \in 1 .. Len(sent)
        PROVE  /\ Anti(sent[i], m.tag) \in ToClpMessages
               /\ Anti(sent[i], m.tag).type \in {"readAnti", "writeAnti"}
               /\ Anti(sent[i], m.tag).id.agent = a
               /\ Anti(sent[i], m.tag).time >= m.time
               /\ Anti(sent[i], m.tag).type = "writeAnti" => Anti(sent[i], m.tag).time > m.time
    <3>1. sent[i] \in Requests /\ IsRolledBack(sent[i], a, m.time)
      BY <1>6, <2>1
    <3>2. Anti(sent[i], m.tag) \in ToClpMessages
      BY <1>2, <3>1 DEF Anti, Requests, AntiMessages, ToClpMessages
    <3> QED
      BY <1>2, <3>1, <3>2 DEF Anti, IsRolledBack, Requests
  <2>3. antis \in [1 .. Len(sent) -> ToClpMessages]
    BY <2>2
  <2>4. \A y \in ToSet(antis) : \E i \in 1 .. Len(sent) : y = Anti(sent[i], m.tag)
    BY DEF ToSet
  <2> HIDE DEF antis
  <2> QED
    BY <2>1, <2>2, <2>3, <2>4, IsASeq
<1> HIDE DEF antis
<1>9. RolledBackQueue(sendQueue[r], queue \o antis, a, m.time)
  BY <1>5, <1>7, <1>8 DEF RolledBackQueue
<1>10. sendQueue'[r] = queue \o antis /\ \A s \in Ranks : s # r => sendQueue'[s] = sendQueue[s]
  BY <1>3 DEF IInv, TypedMessages
<1> QED
  BY <1>9, <1>10 DEF m, a

\* Alp::ProcessRollback: the agent forgets what it read from then on, and the
\* anti-messages are for that alone.
LEMMA AlpRollbackKeepsReads ==
  ASSUME IInv, ReadInv, NEW r \in Ranks, AlpRollback(r)
  PROVE  ReadInv'
<1> DEFINE m    == Head(toAlp[r])
           a    == m.agent
           time == m.time
<1>1. /\ toAlp[r] # <<>> /\ m.type = "rollback" /\ time <= Lvt(a)
      /\ toAlp' = [toAlp EXCEPT ![r] = Tail(toAlp[r])]
      /\ history' = [history EXCEPT ![a] = {h \in history[a] : h <= time}]
      /\ waitingFor' = [waitingFor EXCEPT ![a] = None]
      /\ response' = [response EXCEPT ![a] = None]
      /\ awaitedId' = [awaitedId EXCEPT ![a] = NoId]
      /\ learnt' = [learnt EXCEPT ![a] = {l \in learnt[a] : l.time < time}]
      /\ UNCHANGED <<periods, toClp, issued, lost, committed>>
  BY DEF AlpRollback, IsNext, clpVars
<1>2. /\ m \in ToAlpMessages /\ m \in ToSet(toAlp[r])
      /\ ToSet(toAlp[r]) = {m} \union ToSet(toAlp'[r])
      /\ \A s \in Ranks : s # r => toAlp'[s] = toAlp[s]
      /\ \A s \in Ranks : ToSet(toAlp'[s]) \subseteq ToSet(toAlp[s])
  BY <1>1, AlpTakesOne
<1>3. a \in Agents /\ time \in Nat /\ a.rank = r
  <2>1. a \in Agents /\ time \in Nat
    BY <1>1, <1>2, MessageKinds
  <2>2. a.rank = r
    BY <1>1, <1>2 DEF ReadInv, Addressed
  <2> QED
    BY <2>1, <2>2
<1>4. /\ RolledBackQueue(sendQueue[r], sendQueue'[r], a, time)
      /\ \A s \in Ranks : s # r => sendQueue'[s] = sendQueue[s]
  BY AlpRollbackQueue
<1> HIDE DEF m, a, time
<1>5. /\ history'[a] = {h \in history[a] : h <= time} /\ waitingFor'[a] = None
      /\ response'[a] = None /\ awaitedId'[a] = NoId
      /\ learnt'[a] = {l \in learnt[a] : l.time < time}
      /\ \A b \in Agents : b # a =>
           /\ history'[b] = history[b] /\ waitingFor'[b] = waitingFor[b]
           /\ response'[b] = response[b] /\ awaitedId'[b] = awaitedId[b] /\ learnt'[b] = learnt[b]
  BY <1>1, <1>3 DEF IInv, TypedAgents, ReadInv, TypedReads
<1>6. PICK kept \in Seq(ToClpMessages), antis \in Seq(ToClpMessages) :
        /\ sendQueue'[r] = kept \o antis
        /\ \E gone : kept = Remaining(sendQueue[r], gone)
        /\ \A y \in ToSet(kept) : y \in ToSet(sendQueue[r]) /\ ~IsRolledBack(y, a, time)
        /\ \A y \in ToSet(antis) :
             /\ y.type \in {"readAnti", "writeAnti"} /\ y.id.agent = a
             /\ y.time >= time
  BY <1>4 DEF RolledBackQueue
<1>7. /\ ToSet(sendQueue'[r]) = ToSet(kept) \union ToSet(antis)
      /\ ToSet(antis) \subseteq ToClpMessages /\ ToSet(kept) \subseteq ToClpMessages
  <2>1. ToSet(kept \o antis) = ToSet(kept) \union ToSet(antis)
    BY ConcatFacts
  <2> QED
    BY <1>6, <2>1, ToSetType
<1>8. \A s \in Ranks : \A y \in ToSet(sendQueue'[s]) :
        y \in ToSet(sendQueue[s]) \/ (y \in ToSet(antis) /\ s = r)
  BY <1>4, <1>6, <1>7
<1>9. \A y \in ToSet(antis) : ~IsRequest(y) /\ y.type # "read"
  BY <1>6 DEF IsRequest
<1>10. \A b \in Agents : b.rank \in Ranks
  BY Identities
<1>11. TypedReads'
  BY <1>1, <1>3 DEF ReadInv, TypedReads
<1>12. Addressed'
  <2>1. \A s \in Ranks : \A y \in ToSet(sendQueue'[s]) :
          y.id.agent.rank = s /\ (IsRequest(y) => y.id.n <= issued[y.id.agent])
    BY <1>3, <1>6, <1>8, <1>9 DEF ReadInv, Addressed
  <2>2. ASSUME NEW b \in Agents
        PROVE  /\ waitingFor'[b] # None =>
                    waitingFor'[b].id.agent = b /\ Max(history'[b]) <= waitingFor'[b].time
               /\ awaitedId'[b] # NoId => awaitedId'[b].agent = b
    BY <1>5 DEF ReadInv, Addressed
  <2>3. issued' = issued /\ toClp' = toClp
    BY <1>1
  <2>4. \A s \in Ranks : \A y \in ToSet(toClp'[s]) :
          y.id.agent.rank = s /\ (IsRequest(y) => y.id.n <= issued'[y.id.agent])
    BY <2>3 DEF ReadInv, Addressed
  <2>5. \A s \in Ranks : \A y \in ToSet(toAlp'[s]) :
          /\ IsResponse(y) => y.id.agent.rank = s /\ y.id.n <= issued'[y.id.agent]
          /\ y.type = "rollback" => y.agent.rank = s
    BY <1>2, <2>3 DEF ReadInv, Addressed
  <2> QED
    BY <2>1, <2>2, <2>3, <2>4, <2>5 DEF Addressed
<1>13. SentOnce'
  <2> SUFFICES ASSUME NEW s \in Ranks
               PROVE  /\ Avoids(sendQueue'[s], Twins)
                      /\ \A x \in ToSet(sendQueue'[s]) : IsRequest(x) =>
                           /\ \A y \in ToSet(toClp'[s]) : IsRequest(y) => x.id # y.id
                           /\ \A y \in ToSet(toAlp'[s]) : IsResponse(y) => x.id # y.id
    BY DEF SentOnce
  <2>1. Avoids(sendQueue[s], Twins)
    BY DEF ReadInv, SentOnce
  <2>2. Avoids(sendQueue'[s], Twins)
    <3>1. CASE s # r
      BY <1>4, <2>1, <3>1
    <3>2. CASE s = r
      <4>1. sendQueue[r] \in Seq(ToClpMessages) /\ Avoids(sendQueue[r], Twins)
        BY <2>1, <3>2, InQueues
      <4>2. Avoids(kept, Twins)
        BY <1>6, <4>1, AvoidsRemaining
      <4>3. \A x, y \in ToClpMessages : ~IsRequest(y) => <<x, y>> \notin Twins
        BY Pairs
      <4>4. Avoids(antis, Twins)
        <5>1. \A i \in 1 .. Len(antis) : antis[i] \in ToSet(antis)
          BY LenProperties DEF ToSet
        <5> QED
          BY <1>7, <1>9, <4>3, <5>1 DEF Avoids
      <4>5. \A x \in ToSet(kept), y \in ToSet(antis) : <<x, y>> \notin Twins
        BY <1>7, <1>9, <4>3
      <4>6. Avoids(kept \o antis, Twins)
        BY <4>2, <4>4, <4>5, AvoidsConcat
      <4> QED
        BY <1>6, <3>2, <4>6
    <3> QED
      BY <3>1, <3>2
  <2> QED
    BY <1>1, <1>2, <1>8, <1>9, <2>2 DEF ReadInv, SentOnce
<1>14. ASSUME NEW b \in Agents
       PROVE  /\ Takes(response'[b], toAlp'[b.rank], awaitedId'[b])
                   \subseteq Takes(response[b], toAlp[b.rank], awaitedId[b])
              /\ Reads(learnt'[b], response'[b], toAlp'[b.rank], awaitedId'[b])
                   \subseteq Reads(learnt[b], response[b], toAlp[b.rank], awaitedId[b])
  <2>1. ToSet(toAlp'[b.rank]) \subseteq ToSet(toAlp[b.rank])
    BY <1>2, <1>10
  <2>2. Takes(response'[b], toAlp'[b.rank], awaitedId'[b])
          \subseteq Takes(response[b], toAlp[b.rank], awaitedId[b])
    <3>1. CASE b # a
      BY <1>5, <2>1, <3>1 DEF Takes
    <3>2. CASE b = a
      <4>1. \A y \in ToSet(toAlp[b.rank]) : y.type = "readResponse" => y.id # NoId
        BY <1>10, InQueues, MessageKinds
      <4> QED
        BY <1>5, <2>1, <3>2, <4>1, MessageKinds DEF Takes
    <3> QED
      BY <3>1, <3>2
  <2>3. learnt'[b] \subseteq learnt[b]
    BY <1>5
  <2> QED
    BY <2>2, <2>3, FewerReads
<1>15. Takes(response'[a], toAlp'[a.rank], awaitedId'[a]) = {}
  <2>1. \A y \in ToSet(toAlp'[a.rank]) : y.type = "readResponse" => y.id # NoId
    BY <1>2, <1>3, <1>10, InQueues, MessageKinds
  <2> QED
    BY <1>5, <2>1, MessageKinds DEF Takes
<1>16. Reads(learnt'[a], response'[a], toAlp'[a.rank], awaitedId'[a]) = learnt'[a]
  BY <1>15 DEF Reads
<1>17. Timely'
  <2> SUFFICES ASSUME NEW b \in Agents
               PROVE  /\ \A l \in learnt'[b] : l.time + 1 \in history'[b]
                      /\ \A x \in Live(response'[b], toAlp'[b.rank], awaitedId'[b], toClp'[b.rank],
                                       sendQueue'[b.rank], b) :
                           \/ x.id = waitingFor'[b].id /\ x.time = waitingFor'[b].time
                           \/ x.time + 1 \in history'[b]
    BY DEF Timely
  <2> DEFINE L == Live(response[b], toAlp[b.rank], awaitedId[b], toClp[b.rank], sendQueue[b.rank], b)
             N == Live(response'[b], toAlp'[b.rank], awaitedId'[b], toClp'[b.rank],
                       sendQueue'[b.rank], b)
  <2>1. /\ \A l \in learnt[b] : l.time + 1 \in history[b]
        /\ \A x \in L : \/ x.id = waitingFor[b].id /\ x.time = waitingFor[b].time
                        \/ x.time + 1 \in history[b]
    BY DEF ReadInv, Timely
  <2>2. \A x \in ToSet(sendQueue'[b.rank]) : x.type = "read" => x \in ToSet(sendQueue[b.rank])
    BY <1>8, <1>9, <1>10
  <2>3. CASE b # a
    <3>1. N \subseteq L
      BY <1>1, <1>5, <1>14, <2>2, <2>3 DEF Live
    <3> HIDE DEF L, N
    <3> QED
      BY <1>5, <2>1, <2>3, <3>1 DEF N
  <2>4. CASE b = a
    <3>1. \A x \in N : x \in ToSet(sendQueue'[a.rank]) /\ x.type = "read" /\ x.id.agent = a
      <4>1. \A x \in ToSet(toClp'[a.rank]) : x.type = "read" => x.id # NoId
        BY <1>1, <1>10, <1>3, InQueues, MessageKinds
      <4> QED
        BY <1>5, <1>15, <2>4, <4>1 DEF Live
    <3>2. \A x \in N : x \in ToSet(kept) /\ x \in L /\ x.time \in Nat /\ x.time < time /\ x.id \in Ids
      <4>1. \A x \in N : x \in ToSet(kept)
        BY <1>3, <1>7, <1>9, <3>1
      <4>2. \A x \in N : x.time \in Nat /\ x.id \in Ids
        BY <1>7, <4>1, MessageKinds
      <4>3. \A x \in N : x \in L
        BY <2>2, <2>4, <3>1 DEF Live
      <4>4. \A x \in N : ~(x.time >= time)
        BY <1>6, <3>1, <4>1 DEF IsRolledBack
      <4> HIDE DEF N, L
      <4> QED
        BY <1>3, <4>1, <4>2, <4>3, <4>4
    <3> HIDE DEF N, L
    <3>3. ASSUME NEW x \in N PROVE x.time + 1 \in history'[a]
      <4>1. CASE x.time + 1 \in history[a]
        BY <1>3, <1>5, <3>2, <4>1
      <4>2. CASE x.id = waitingFor[a].id /\ x.time = waitingFor[a].time
        <5>1. waitingFor[a] # None
          BY <3>2, <4>2, MessageKinds
        <5>2. Lvt(a) <= waitingFor[a].time
          BY <1>3, <5>1 DEF ReadInv, Addressed, Lvt
        <5>3. Lvt(a) \in Nat
          BY <1>3, LvtType DEF IInv
        <5> QED
          BY <1>1, <1>3, <3>2, <4>2, <5>2, <5>3
      <4> QED
        BY <2>1, <2>4, <3>2, <4>1, <4>2
    <3>4. ASSUME NEW l \in learnt'[a] PROVE l.time + 1 \in history'[a]
      <4>1. l \in learnt[a] /\ l.time < time
        BY <1>5
      <4>2. l.time \in Nat
        BY <1>3, <4>1 DEF ReadInv, TypedReads
      <4> QED
        BY <1>3, <1>5, <2>1, <2>4, <4>1, <4>2
    <3> QED
      BY <2>4, <3>3, <3>4 DEF N
  <2> QED
    BY <2>3, <2>4
\* None of the agent's requests is expected any more.
<1>18. \A x \in ToClpMessages : x.id \in Awaited' => x.id \in Awaited /\ x.id.agent # a
  <2> SUFFICES ASSUME NEW x \in ToClpMessages, NEW b \in Agents, x.id = awaitedId'[b]
               PROVE  x.id \in Awaited /\ x.id.agent # a
    BY DEF Awaited
  <2>1. x.id \in Ids
    BY MessageKinds
  <2>2. b # a
    BY <1>5, <2>1, MessageKinds
  <2>3. awaitedId[b] = x.id /\ awaitedId[b].agent = b
    BY <1>5, <2>1, <2>2, MessageKinds DEF ReadInv, Addressed
  <2> QED
    BY <2>2, <2>3 DEF Awaited
<1>19. AntisFirst'
  <2>1. ASSUME NEW s \in Ranks
        PROVE  /\ Avoids(sendQueue'[s], Revoked(Ids))
               /\ Avoids(toClp'[s], Revoked(Awaited'))
               /\ \A x \in ToSet(toClp'[s]), y \in ToSet(sendQueue'[s]) : <<x, y>> \notin Revoked(Awaited')
    <3>1. /\ Avoids(sendQueue[s], Revoked(Ids)) /\ Avoids(toClp[s], Revoked(Awaited))
          /\ \A x \in ToSet(toClp[s]), y \in ToSet(sendQueue[s]) : <<x, y>> \notin Revoked(Awaited)
      BY DEF ReadInv, AntisFirst
    <3>2. /\ toClp[s] \in Seq(ToClpMessages) /\ \A y \in ToSet(toClp[s]) : y \in ToClpMessages
          /\ sendQueue[s] \in Seq(ToClpMessages)
          /\ \A y \in ToSet(sendQueue[s]) : y \in ToClpMessages
      BY InQueues
    <3>3. \A x, y \in ToClpMessages :
            <<x, y>> \in Revoked(Awaited') => <<x, y>> \in Revoked(Awaited) /\ x.id.agent # a
                                              /\ x.id.agent = y.id.agent
      BY <1>18, Pairs
    <3>4. Avoids(toClp'[s], Revoked(Awaited'))
      <4>1. \A i \in 1 .. Len(toClp[s]) : toClp[s][i] \in ToSet(toClp[s])
        BY <3>2, LenProperties DEF ToSet
      <4> QED
        BY <1>1, <3>1, <3>2, <3>3, <4>1 DEF Avoids
    <3>5. \A x \in ToSet(toClp'[s]), y \in ToSet(sendQueue'[s]) : <<x, y>> \notin Revoked(Awaited')
      BY ZenonT(60), <1>1, <1>6, <1>7, <1>8, <3>1, <3>2, <3>3
    <3>6. Avoids(sendQueue'[s], Revoked(Ids))
      <4>1. CASE s # r
        BY <1>4, <3>1, <4>1
      <4>2. CASE s = r
        <5>1. Avoids(kept, Revoked(Ids))
          <6>1. sendQueue[r] \in Seq(ToClpMessages) /\ Avoids(sendQueue[r], Revoked(Ids))
            BY <3>1, <3>2, <4>2
          <6> QED
            BY <1>6, <6>1, AvoidsRemaining
        <5>2. \A x, y \in ToClpMessages : x.type # "read" => <<x, y>> \notin Revoked(Ids)
          BY Pairs
        <5>3. Avoids(antis, Revoked(Ids))
          <6>1. \A i \in 1 .. Len(antis) : antis[i] \in ToSet(antis)
            BY LenProperties DEF ToSet
          <6> QED
            BY <1>7, <1>9, <5>2, <6>1 DEF Avoids
        <5>4. \A x \in ToSet(kept), y \in ToSet(antis) : <<x, y>> \notin Revoked(Ids)
          <6> SUFFICES ASSUME NEW x \in ToSet(kept), NEW y \in ToSet(antis),
                              <<x, y>> \in Revoked(Ids)
                       PROVE  FALSE
            OBVIOUS
          <6>1. /\ x.type = "read" /\ y.type = "readAnti" /\ x.id.agent = y.id.agent
                /\ x.time = y.time
            BY <1>7, Pairs
          <6>2. x.id.agent = a /\ x.time >= time
            BY <1>6, <6>1
          <6> QED
            BY <1>6, <6>1, <6>2 DEF IsRolledBack
        <5>5. Avoids(kept \o antis, Revoked(Ids))
          BY <5>1, <5>3, <5>4, AvoidsConcat
        <5> QED
          BY <1>6, <4>2, <5>5
      <4> QED
        BY <4>1, <4>2
    <3> QED
      BY <3>4, <3>5, <3>6
  <2>2. ASSUME NEW s \in Ranks, NEW y \in ToSet(toClp'[s]) \union ToSet(sendQueue'[s]),
               y.type = "readAnti"
        PROVE  \A l \in Reads(learnt'[y.id.agent], response'[y.id.agent], toAlp'[y.id.agent.rank],
                              awaitedId'[y.id.agent]) :
                 l.time # y.time
    <3>1. CASE y \in ToSet(toClp[s]) \union ToSet(sendQueue[s])
      <4>1. y.id.agent \in Agents
        BY <3>1, InQueues, MessageKinds
      <4>2. \A l \in Reads(learnt[y.id.agent], response[y.id.agent], toAlp[y.id.agent.rank],
                           awaitedId[y.id.agent]) :
              l.time # y.time
        BY <2>2, <3>1 DEF ReadInv, AntisFirst
      <4> QED
        BY <1>14, <4>1, <4>2
    <3>2. CASE y \in ToSet(antis)
      <4>1. y.id.agent = a /\ y.time >= time /\ y.time \in Nat
        BY <1>6, <1>7, <2>2, <3>2, MessageKinds
      <4>2. \A l \in learnt'[a] : l.time < time /\ l.time \in Nat
        BY <1>3, <1>5 DEF ReadInv, TypedReads
      <4>3. \A l \in learnt'[a] : l.time # y.time
        BY <1>3, <4>1, <4>2
      <4> QED
        BY <1>16, <4>1, <4>3
    <3> QED
      BY <1>1, <1>8, <3>1, <3>2
  <2> QED
    BY <2>1, <2>2 DEF AntisFirst
\* The rollback taken revokes none of the reads that are left.
<1>20. Covered'
  <2> SUFFICES ASSUME NEW b \in Agents,
                      NEW l \in Reads(learnt'[b], response'[b], toAlp'[b.rank], awaitedId'[b]),
                      Revokes(toAlp[b.rank], lost, b, l.time)
               PROVE  Revokes(toAlp'[b.rank], lost, b, l.time)
    BY <1>1, <1>14 DEF ReadInv, Covered
  <2>1. CASE \E x \in lost : x.agent = b /\ x.time <= l.time
    BY <2>1 DEF Revokes
  <2>2. CASE \E y \in ToSet(toAlp[b.rank]) : y.type = "rollback" /\ y.agent = b /\ y.time <= l.time
    <3>1. PICK y \in ToSet(toAlp[b.rank]) : y.type = "rollback" /\ y.agent = b /\ y.time <= l.time
      BY <2>2
    <3>2. CASE y \in ToSet(toAlp'[b.rank])
      BY <3>1, <3>2 DEF Revokes
    <3>3. CASE y \notin ToSet(toAlp'[b.rank])
      <4>1. y = m
        BY <1>2, <1>10, <3>3
      <4>2. b = a /\ time <= l.time
        BY <3>1, <4>1 DEF a, time
      <4>3. l \in learnt[a] /\ l.time < time
        BY <1>5, <1>16, <4>2
      <4>4. l.time \in Nat
        BY <1>3, <4>3 DEF ReadInv, TypedReads
      <4> QED
        BY <1>3, <4>2, <4>3, <4>4
    <3> QED
      BY <3>2, <3>3
  <2> QED
    BY <2>1, <2>2 DEF Revokes
<1> QED
  BY <1>11, <1>12, <1>13, <1>17, <1>19, <1>20 DEF ReadInv

-----------------------------------------------------------------------------
\* Steps that touch nothing that the reads depend on.
LEMMA UnrelatedKeepsReads ==
  ASSUME ReadInv,
         UNCHANGED <<periods, toClp, toAlp, sendQueue, history, waitingFor, awaitedId, response,
                     issued, learnt, lost, committed>>
  PROVE  ReadInv'
<1>1. Awaited' = Awaited
  BY DEF Awaited
<1> QED
  BY ZenonT(60), <1>1 DEF ReadInv, TypedReads, Addressed, SentOnce, Timely, AntisFirst, Covered

\* No step of any thread makes an agent act upon a read that is neither on record nor
\* revoked.
LEMMA NextKeepsReads ==
  ASSUME IInv, ReadInv, [Next]_vars
  PROVE  ReadInv'
<1>1. IInv'
  BY NextKeeps
<1>2. CASE \E a \in Agents : Agent(a)
  <2>1. PICK a \in Agents : Agent(a)
    BY <1>2
  <2>2. WriteDelays \subseteq {0, 1}
    BY TimeWarpAssumption
  <2>3. CASE Issue(a, "read", 1)
    BY <2>3, IssueKeepsReads
  <2>4. CASE \E delay \in WriteDelays : Issue(a, "write", delay)
    BY <2>2, <2>4, IssueKeepsReads
  <2>5. CASE \E step \in WrapSteps : TimeWrap(a, step)
    BY <2>5, TimeWrapKeepsReads
  <2>6. CASE Consume(a)
    BY <2>6, ConsumeKeepsReads
  <2> QED
    BY <2>1, <2>3, <2>4, <2>5, <2>6 DEF Agent
<1>3. CASE \E r \in Ranks : AlpSend(r) \/ AlpMain(r) \/ ClpMain(r)
  <2>1. PICK r \in Ranks : AlpSend(r) \/ AlpMain(r) \/ ClpMain(r)
    BY <1>3
  <2>2. CASE AlpSend(r)
    BY <2>2, AlpSendKeepsReads
  <2>3. CASE AlpMain(r)
    <3>1. CASE AlpSetGvt(r)
      BY <3>1, UnrelatedKeepsReads DEF AlpSetGvt, clpVars, netVars, agentVars, histVars
    <3> QED
      BY <2>3, <3>1, AlpResponseKeepsReads, AlpIgnoreRollbackKeepsReads, AlpRollbackKeepsReads
      DEF AlpMain
  <2>4. CASE ClpMain(r)
    BY <1>1, <2>4, ClpReadKeepsReads, ClpReadAntiKeepsReads, ClpWriteKeepsReads,
       ClpWriteAntiKeepsReads DEF ClpMain
  <2> QED
    BY <2>1, <2>2, <2>3, <2>4
<1>4. CASE ClpSetGvt
  BY <1>4, ClpSetGvtKeepsReads
<1>5. CASE ComputeGvt
  BY <1>5, UnrelatedKeepsReads DEF ComputeGvt, clpVars, netVars, alpVars, agentVars, histVars
<1>6. CASE UNCHANGED vars
  BY <1>6, UnrelatedKeepsReads DEF vars, clpVars, netVars, alpVars, agentVars, histVars
<1> QED
  BY <1>2, <1>3, <1>4, <1>5, <1>6 DEF Next

\* What an agent acts upon was asked for once, is waited for or in its past, is not
\* taken back by an anti-message on its way, and is on record or revoked.
THEOREM ReadInvariance == Spec => [](IInv /\ ReadInv)
<1>1. Init => IInv /\ ReadInv
  BY InitIInv, InitReadInv
<1>2. IInv /\ ReadInv /\ [Next]_vars => (IInv /\ ReadInv)'
  <2> SUFFICES ASSUME IInv, ReadInv, [Next]_vars PROVE IInv' /\ ReadInv'
    OBVIOUS
  <2> QED
    BY NextKeeps, NextKeepsReads
<1> QED
  BY <1>1, <1>2, PTL DEF Spec

\* However requests, answers, rollbacks, anti-messages and GVT updates overtake one
\* another, an agent that acted upon a value that is no longer the one in force at the
\* time it read has a rollback to that time or before on its way, or one was sent that
\* reached nobody (Clp::ProcessMessage, Alp::ProcessRollback, RollbackList).
THEOREM NoStaleRead == Spec => []StaleReadsAreRolledBack
<1>1. IInv /\ ReadInv => StaleReadsAreRolledBack
  <2> SUFFICES ASSUME IInv, ReadInv, NEW a \in Agents, NEW l \in Answers(a)
               PROVE  \/ l.time < committed
                      \/ IsOnRecord(a, l)
                      \/ WillBeRolledBack(a, l.time)
                      \/ \E x \in lost : x.agent = a /\ x.time <= l.time
    BY DEF StaleReadsAreRolledBack
  <2>1. l \in Reads(learnt[a], response[a], toAlp[a.rank], awaitedId[a])
    BY DEF Answers, Reads, Takes
  <2>2. l.time \in Nat
    BY <2>1, TakesType
  <2>3. CASE Recorded(periods, l.value, a, l.time)
    BY <2>2, <2>3, RecordedIsCovered DEF IInv, IsOnRecord
  <2>4. CASE Revokes(toAlp[a.rank], lost, a, l.time)
    BY <2>4 DEF Revokes, WillBeRolledBack
  <2> QED
    BY <2>1, <2>3, <2>4 DEF ReadInv, Covered
<1> QED
  BY <1>1, ReadInvariance, PTL

-----------------------------------------------------------------------------
(* GVT.  What is ahead of a GVT stays ahead, messages and the times the agents may ask    *)
(* for, as long as no rollback has taken an agent further back: the CLP asks for rollbacks *)
(* to the times of writes and reads, the ALP undoes what is not before a rollback, and the *)
(* agent that has been taken back to where it may not ask for a time before GVT does not.  *)
(* What is so is so of the last GVT computed and of the highest that the CLP has set, of   *)
(* which one is the CLP's.                                                                 *)

\* Nothing in a queue is before g.
Ahead(g, queue) == \A m \in ToSet(queue) : m.time >= g

QueuesAhead(g) == \A r \in Ranks : Ahead(g, toClp[r]) /\ Ahead(g, toAlp[r]) /\ Ahead(g, sendQueue[r])

AgentsAhead(g) == \A a \in Agents : EarliestRequest(Lvt(a)) >= g

Safe(g) == QueuesAhead(g) /\ AgentsAhead(g)

GvtInv ==
  /\ committed \in Nat /\ clpGvt <= committed
  /\ fallen = {} => Safe(gvt) /\ Safe(committed)

\* An agent asks for its earliest request or later.
LEMMA Earliest ==
  ASSUME NEW i \in Nat
  PROVE  /\ EarliestRequest(i) \in Nat /\ i <= EarliestRequest(i)
         /\ \A delay \in {1} \union WriteDelays : delay \in Nat /\ EarliestRequest(i) <= i + delay
         /\ \A j \in Nat : i <= j => EarliestRequest(i) <= EarliestRequest(j)
<1> DEFINE S == {1} \union WriteDelays
<1>1. S \in SUBSET Nat /\ S # {}
  BY TimeWarpAssumption
<1>2. EarliestRequest(i) = i + Min(S) /\ \A j \in Nat : EarliestRequest(j) = j + Min(S)
  BY DEF EarliestRequest
<1> HIDE DEF S
<1>3. Min(S) \in S /\ \A y \in S : Min(S) <= y
  BY <1>1, MinOfSet
<1>4. Min(S) \in Nat /\ \A y \in S : y \in Nat /\ Min(S) <= y
  BY <1>1, <1>3
<1>5. \A delay \in S : delay \in Nat /\ EarliestRequest(i) <= i + delay
  BY <1>2, <1>4
<1>6. \A j \in Nat : i <= j => EarliestRequest(i) <= EarliestRequest(j)
  BY <1>2, <1>4
<1>7. EarliestRequest(i) \in Nat /\ i <= EarliestRequest(i)
  BY <1>2, <1>4
<1> QED
  BY <1>5, <1>6, <1>7 DEF S

\* The greater of two numbers.
LEMMA MaxOfTwo ==
  ASSUME NEW i \in Nat, NEW j \in Nat
  PROVE  /\ Max({i, j}) \in Nat /\ i <= Max({i, j}) /\ j <= Max({i, j})
         /\ Max({i, j}) = i \/ Max({i, j}) = j
<1>1. PICK n \in Nat : n = i + j
  OBVIOUS
<1> DEFINE S == {i, j}
<1>2. S \in SUBSET (0 .. n) /\ S # {}
  BY <1>1
<1>3. i \in S /\ j \in S /\ S \subseteq Nat
  OBVIOUS
<1>4. \A y \in S : y = i \/ y = j
  OBVIOUS
<1> HIDE DEF S
<1>5. Max(S) \in S /\ \A y \in S : y <= Max(S)
  BY <1>2, MaxOfSet
<1>6. Max(S) \in Nat /\ i <= Max(S) /\ j <= Max(S) /\ (Max(S) = i \/ Max(S) = j)
  BY <1>3, <1>4, <1>5
<1> QED
  BY <1>6 DEF S

\* The LVT is the latest of the times an agent has been at.
LEMMA LatestOf ==
  ASSUME NEW times \in SUBSET (0 .. MaxTime), 0 \in times
  PROVE  /\ Max(times) \in times /\ Max(times) \in Nat
         /\ \A h \in times : h \in Nat /\ h <= Max(times)
<1>1. MaxTime \in Nat
  BY Times
<1>2. Max(times) \in times /\ \A h \in times : h <= Max(times)
  BY <1>1, MaxOfSet
<1>3. \A h \in times : h \in Nat
  BY <1>1
<1> QED
  BY <1>2, <1>3

\* The same of the LVTs before and after a step.
LEMMA Lvts ==
  ASSUME IInv, IInv', NEW a \in Agents
  PROVE  /\ Lvt(a) \in history[a] /\ Lvt(a) \in Nat
         /\ \A h \in history[a] : h \in Nat /\ h <= Lvt(a)
         /\ Lvt(a)' \in history'[a] /\ Lvt(a)' \in Nat
         /\ \A h \in history'[a] : h \in Nat /\ h <= Lvt(a)'
<1>1. history[a] \in SUBSET (0 .. MaxTime) /\ 0 \in history[a]
  BY DEF IInv, TypedAgents
<1>2. history'[a] \in SUBSET (0 .. MaxTime) /\ 0 \in history'[a]
  BY DEF IInv, TypedAgents
<1>3. Lvt(a) = Max(history[a]) /\ Lvt(a)' = Max(history'[a])
  BY DEF Lvt
<1> QED
  BY <1>1, <1>2, <1>3, LatestOf

\* Steps that leave the agents' times alone.
LEMMA SameTimesKeep ==
  ASSUME NEW g, AgentsAhead(g), UNCHANGED history
  PROVE  AgentsAhead(g)'
<1>1. \A a \in Agents : Lvt(a)' = Lvt(a)
  BY DEF Lvt
<1> QED
  BY <1>1 DEF AgentsAhead

\* A request is not before the earliest.
LEMMA IssueKeepsGvt ==
  ASSUME IInv, IInv', NEW g \in Nat, Safe(g),
         NEW a \in Agents, NEW type, NEW delay \in {1} \union WriteDelays, Issue(a, type, delay)
  PROVE  Safe(g)'
<1> DEFINE m == Request(type, [agent |-> a, n |-> issued[a] + 1], Lvt(a) + delay)
<1>1. /\ sendQueue'  = [sendQueue EXCEPT ![a.rank] = Append(sendQueue[a.rank], m)]
      /\ UNCHANGED <<toClp, toAlp, history>>
  BY DEF Issue, netVars
<1>2. m.time = Lvt(a) + delay
  BY DEF Request
<1> HIDE DEF m
<1>4. m.time >= g
  <2>1. PICK l \in Nat : l = Lvt(a)
    BY Lvts
  <2>2. EarliestRequest(l) \in Nat /\ delay \in Nat /\ EarliestRequest(l) <= l + delay
    BY Earliest
  <2>3. EarliestRequest(l) >= g
    BY <2>1 DEF Safe, AgentsAhead
  <2> QED
    BY <1>2, <2>1, <2>2, <2>3
<1>7. AgentsAhead(g)'
  BY <1>1, SameTimesKeep DEF Safe
<1>8. \A s \in Ranks : \A y \in ToSet(sendQueue'[s]) : y \in ToSet(sendQueue[s]) \/ y = m
  <2> SUFFICES ASSUME NEW s \in Ranks
               PROVE  \A y \in ToSet(sendQueue'[s]) : y \in ToSet(sendQueue[s]) \/ y = m
    OBVIOUS
  <2>1. sendQueue \in [Ranks -> Seq(ToClpMessages)] /\ sendQueue' \in [Ranks -> Seq(ToClpMessages)]
    BY DEF IInv, TypedMessages
  <2>2. CASE s = a.rank
    <3>1. sendQueue'[s] = Append(sendQueue[s], m)
      BY <1>1, <2>1, <2>2
    <3>2. sendQueue[s] \in Seq(ToClpMessages \union {m}) /\ m \in ToClpMessages \union {m}
      <4>1. sendQueue[s] \in Seq(ToClpMessages)
        BY <2>1
      <4> QED
        BY <4>1, SeqMonotonic
    <3>3. ToSet(Append(sendQueue[s], m)) = ToSet(sendQueue[s]) \union {m}
      BY <3>2, AppendFacts
    <3> QED
      BY <3>1, <3>3
  <2>3. CASE s # a.rank
    BY <1>1, <2>1, <2>3
  <2> QED
    BY <2>2, <2>3
<1>9. QueuesAhead(g)'
  BY <1>1, <1>4, <1>8 DEF Safe, QueuesAhead, Ahead
<1> QED
  BY <1>7, <1>9 DEF Safe

\* An LVT that goes on.
LEMMA LaterKeepsGvt ==
  ASSUME IInv, IInv', NEW g \in Nat, Safe(g), NEW a \in Agents, NEW time,
         history' = [history EXCEPT ![a] = history[a] \union {time}],
         UNCHANGED <<toClp, toAlp, sendQueue>>
  PROVE  Safe(g)'
<1>1. /\ \A b \in Agents : b # a => history'[b] = history[b]
      /\ history'[a] = history[a] \union {time}
  BY DEF IInv, TypedAgents
<1>2. \A b \in Agents : b # a => Lvt(b)' = Lvt(b)
  BY <1>1 DEF Lvt
<1>3. PICK l \in Nat, k \in Nat : l = Lvt(a) /\ k = Lvt(a)'
  BY Lvts
<1>4. l <= k
  <2>1. l \in history[a] /\ \A h \in history'[a] : h <= k
    BY <1>3, Lvts
  <2> QED
    BY <1>1, <2>1
<1>5. AgentsAhead(g)'
  <2> SUFFICES ASSUME NEW b \in Agents PROVE EarliestRequest(Lvt(b)') >= g
    BY DEF AgentsAhead, EarliestRequest
  <2>1. EarliestRequest(Lvt(b)) >= g
    BY DEF Safe, AgentsAhead
  <2>2. CASE b = a
    <3>1. EarliestRequest(l) \in Nat /\ EarliestRequest(k) \in Nat /\ EarliestRequest(l) <= EarliestRequest(k)
      BY <1>4, Earliest
    <3> QED
      BY <1>3, <2>1, <2>2, <3>1
  <2>3. CASE b # a
    BY <1>2, <2>1, <2>3
  <2> QED
    BY <2>2, <2>3
<1>6. QueuesAhead(g)'
  BY DEF Safe, QueuesAhead
<1> QED
  BY <1>5, <1>6 DEF Safe

\* What leaves the send queue is on its way to the CLP.
LEMMA AlpSendKeepsGvt ==
  ASSUME IInv, NEW g \in Nat, Safe(g), NEW r \in Ranks, AlpSend(r)
  PROVE  Safe(g)'
<1> DEFINE m == Head(sendQueue[r])
<1>1. /\ sendQueue[r] # <<>>
      /\ sendQueue' = [sendQueue EXCEPT ![r] = Tail(sendQueue[r])]
      /\ toClp' = [toClp EXCEPT ![r] = Append(toClp[r], m)]
      /\ UNCHANGED <<toAlp, history>>
  BY DEF AlpSend
<1>2. /\ sendQueue[r] \in Seq(ToClpMessages) /\ toClp[r] \in Seq(ToClpMessages)
      /\ \A s \in Ranks : s # r => sendQueue'[s] = sendQueue[s] /\ toClp'[s] = toClp[s]
      /\ sendQueue'[r] = Tail(sendQueue[r]) /\ toClp'[r] = Append(toClp[r], m)
  BY <1>1 DEF IInv, TypedMessages
<1>3. m \in ToClpMessages /\ ToSet(sendQueue[r]) = {m} \union ToSet(Tail(sendQueue[r]))
  BY <1>1, <1>2, TailFacts
<1> HIDE DEF m
<1>4. ToSet(Append(toClp[r], m)) = ToSet(toClp[r]) \union {m}
  BY <1>2, <1>3, AppendFacts
<1>5. QueuesAhead(g)'
  BY <1>1, <1>2, <1>3, <1>4 DEF Safe, QueuesAhead, Ahead
<1>6. AgentsAhead(g)'
  BY <1>1, SameTimesKeep DEF Safe
<1> QED
  BY <1>5, <1>6 DEF Safe

\* What the CLP takes is not before g, nor is what it leaves.
LEMMA ClpTakesAhead ==
  ASSUME IInv, NEW g \in Nat, Safe(g), NEW r \in Ranks, toClp[r] # <<>>, Take(r)
  PROVE  Head(toClp[r]).time >= g /\ \A s \in Ranks : Ahead(g, toClp'[s])
<1>1. /\ toClp[r] \in Seq(ToClpMessages)
      /\ \A s \in Ranks : toClp'[s] = IF s = r THEN Tail(toClp[r]) ELSE toClp[s]
  BY DEF IInv, TypedMessages, Take
<1>2. ToSet(toClp[r]) = {Head(toClp[r])} \union ToSet(Tail(toClp[r]))
  BY <1>1, TailFacts
<1> QED
  BY <1>1, <1>2 DEF Safe, QueuesAhead, Ahead

\* The CLP's answers and rollbacks, if none is before g.
LEMMA ClpKeepsGvt ==
  ASSUME IInv, NEW g \in Nat, Safe(g), NEW r \in Ranks, toClp[r] # <<>>, Take(r),
         UNCHANGED <<sendQueue, history>>,
         \A s \in Ranks : Ahead(g, toAlp'[s])
  PROVE  Safe(g)'
<1>1. QueuesAhead(g)'
  BY ClpTakesAhead DEF Safe, QueuesAhead
<1>2. AgentsAhead(g)'
  BY SameTimesKeep DEF Safe
<1> QED
  BY <1>1, <1>2 DEF Safe

\* A message at the end of a queue that is ahead.
LEMMA AppendAhead ==
  ASSUME NEW queues \in [Ranks -> Seq(ToAlpMessages)], NEW to \in Ranks, NEW e,
         NEW g, e.time >= g, \A s \in Ranks : Ahead(g, queues[s])
  PROVE  \A s \in Ranks : Ahead(g, [queues EXCEPT ![to] = Append(queues[to], e)][s])
<1>1. queues[to] \in Seq(ToAlpMessages \union {e})
  <2>1. queues[to] \in Seq(ToAlpMessages)
    OBVIOUS
  <2> QED
    BY <2>1, SeqMonotonic
<1>2. ToSet(Append(queues[to], e)) = ToSet(queues[to]) \union {e}
  BY <1>1, AppendFacts
<1> QED
  BY <1>2 DEF Ahead

\* The rollbacks of a rollback list that asks for nothing before g.
LEMMA RollbacksAhead ==
  ASSUME NEW queues \in [Ranks -> Seq(ToAlpMessages)],
         NEW requests \in SUBSET [agent : Agents, time : Nat],
         NEW rollbacks \in AddLp(requests), NEW tag \in Tags,
         NEW g \in Nat, \A q \in requests : q.time >= g,
         \A s \in Ranks : Ahead(g, queues[s])
  PROVE  \A s \in Ranks : Ahead(g, SendRollbacks(queues, rollbacks, tag)[s])
<1>1. \A a \in DOMAIN rollbacks : rollbacks[a] >= g
  BY AddLpAtLeast, Identities
<1> SUFFICES ASSUME NEW s \in Ranks PROVE Ahead(g, SendRollbacks(queues, rollbacks, tag)[s])
  OBVIOUS
<1>2. GainsRollbacks(queues[s], SendRollbacks(queues, rollbacks, tag)[s], rollbacks, tag, s)
  BY SendRollbacksAdds
<1>3. \A y \in RollbacksTo(rollbacks, tag, s) : y.time >= g
  BY <1>1 DEF RollbacksTo, Rollback
<1> QED
  BY <1>2, <1>3 DEF GainsRollbacks, Ahead

\* Clp::ProcessMessage(SingleReadMessage): the answer has the time of the read.
LEMMA ClpReadKeepsGvt ==
  ASSUME IInv, IInv', NEW g \in Nat, Safe(g), NEW r \in Ranks, ClpRead(r)
  PROVE  Safe(g)'
<1> DEFINE m      == Head(toClp[r])
           answer == ReadResponse(m, ReadValue(periods, m.time))
<1>1. /\ toClp[r] # <<>> /\ Take(r)
      /\ UNCHANGED <<sendQueue, history>>
      /\ \/ UNCHANGED toAlp
         \/ toAlp' = [toAlp EXCEPT ![m.id.agent.rank] = Append(toAlp[m.id.agent.rank], answer)]
  BY DEF ClpRead, IsNext, alpVars, agentVars
<1>2. m.time >= g /\ m.id.agent.rank \in Ranks
  BY <1>1, ClpTakesAhead, ClpTakes
<1>3. answer.time = m.time
  BY DEF ReadResponse
<1> HIDE DEF m, answer
<1>4. \A s \in Ranks : Ahead(g, toAlp'[s])
  <2>1. toAlp \in [Ranks -> Seq(ToAlpMessages)] /\ \A s \in Ranks : Ahead(g, toAlp[s])
    BY DEF IInv, TypedMessages, Safe, QueuesAhead
  <2>2. CASE toAlp' = [toAlp EXCEPT ![m.id.agent.rank] = Append(toAlp[m.id.agent.rank], answer)]
    BY <1>2, <1>3, <2>1, <2>2, AppendAhead
  <2>3. CASE UNCHANGED toAlp
    BY <2>1, <2>3
  <2> QED
    BY <1>1, <2>2, <2>3
<1> QED
  BY <1>1, <1>4, ClpKeepsGvt

\* Clp::ProcessMessage(SingleReadAntiMessage).
LEMMA ClpReadAntiKeepsGvt ==
  ASSUME IInv, NEW g \in Nat, Safe(g), NEW r \in Ranks, ClpReadAnti(r)
  PROVE  Safe(g)'
<1>1. toClp[r] # <<>> /\ Take(r) /\ UNCHANGED <<toAlp, sendQueue, history>>
  BY DEF ClpReadAnti, IsNext, alpVars, agentVars
<1>2. \A s \in Ranks : Ahead(g, toAlp'[s])
  BY <1>1 DEF Safe, QueuesAhead
<1> QED
  BY <1>1, <1>2, ClpKeepsGvt

\* Clp::ProcessMessage(WriteMessage): it rolls back the reads from its time on.
LEMMA ClpWriteKeepsGvt ==
  ASSUME IInv, NEW g \in Nat, Safe(g), NEW r \in Ranks, ClpWrite(r)
  PROVE  Safe(g)'
<1> DEFINE m        == Head(toClp[r])
           agent    == m.id.agent
           to       == agent.rank
           refused  == IsRefused(periods, agent, m.time)
           requests == ReadsToRollBack(periods, m.time)
           answer   == WriteResponse(m, ~refused)
           tag      == Tag(m)
           answered == [toAlp EXCEPT ![to] = Append(toAlp[to], answer)]
<1>1. toClp[r] # <<>> /\ Take(r) /\ UNCHANGED <<sendQueue, history>>
  BY DEF ClpWrite, IsNext, alpVars, agentVars
<1>2. /\ m.id \in Ids /\ to \in Ranks /\ m.time \in 0 .. MaxTime /\ m.time \in Nat
      /\ m.time >= g
  BY <1>1, ClpTakes, ClpTakesAhead
<1>3. \/ refused /\ toAlp' = answered
      \/ ~refused /\ \E rollbacks \in AddLp(requests) : toAlp' = SendRollbacks(answered, rollbacks, tag)
  BY DEF ClpWrite
<1>4. answer.time = m.time
  BY DEF WriteResponse
<1>5. answer \in ToAlpMessages
  <2>1. refused \in BOOLEAN
    BY DEF IsRefused
  <2> HIDE DEF m, refused
  <2> QED
    BY <1>2, <2>1 DEF WriteResponse, Responses, ToAlpMessages
<1>6. tag \in Tags
  BY <1>2 DEF Tag, Tags
<1>7. ~refused => requests \in SUBSET [agent : Agents, time : Nat]
  <2>1. ~refused => periods = <<>> \/ Covering(periods, m.time) # 0
    BY DEF IsRefused
  <2> HIDE DEF m
  <2> QED
    BY <1>2, <2>1, RequestsType DEF IInv
<1>8. ~refused => \A q \in requests : q.time >= g
  <2> SUFFICES ASSUME ~refused, NEW q \in requests PROVE q.time >= g
    OBVIOUS
  <2>1. q.time >= m.time
    <3> HIDE DEF m
    <3> QED
      BY <1>2, RequestsAtLeast
  <2>2. q.time \in Nat
    BY <1>7
  <2> QED
    BY <1>2, <2>1, <2>2
<1> HIDE DEF m, answer, tag, requests, refused
<1>9. answered \in [Ranks -> Seq(ToAlpMessages)] /\ \A s \in Ranks : Ahead(g, answered[s])
  <2> HIDE DEF to, agent
  <2>1. toAlp \in [Ranks -> Seq(ToAlpMessages)] /\ \A s \in Ranks : Ahead(g, toAlp[s])
    BY DEF IInv, TypedMessages, Safe, QueuesAhead
  <2> QED
    BY <1>2, <1>4, <1>5, <2>1, AppendTo, AppendAhead
<1> HIDE DEF answered
<1>10. \A s \in Ranks : Ahead(g, toAlp'[s])
  <2>1. CASE refused /\ toAlp' = answered
    BY <1>9, <2>1
  <2>2. CASE ~refused /\ \E rollbacks \in AddLp(requests) : toAlp' = SendRollbacks(answered, rollbacks, tag)
    <3>1. PICK rollbacks \in AddLp(requests) : toAlp' = SendRollbacks(answered, rollbacks, tag)
      BY <2>2
    <3> QED
      BY <1>6, <1>7, <1>8, <1>9, <2>2, <3>1, RollbacksAhead
  <2> QED
    BY <1>3, <2>1, <2>2
<1> QED
  BY <1>1, <1>10, ClpKeepsGvt

\* Clp::ProcessMessage(WriteAntiMessage): it rolls reads back to its own time.
LEMMA ClpWriteAntiKeepsGvt ==
  ASSUME IInv, NEW g \in Nat, Safe(g), NEW r \in Ranks, ClpWriteAnti(r)
  PROVE  Safe(g)'
<1> DEFINE m        == Head(toClp[r])
           requests == ReadsOfUndone(periods, m.time)
           tag      == m.tag
<1>1. /\ toClp[r] # <<>> /\ Take(r) /\ m.type = "writeAnti"
      /\ UNCHANGED <<sendQueue, history>>
  BY DEF ClpWriteAnti, IsNext, alpVars, agentVars
<1>2. m \in ToClpMessages /\ m.time \in Nat /\ m.time >= g
  BY <1>1, ClpTakes, ClpTakesAhead
<1>3. \/ UNCHANGED toAlp
      \/ /\ CanUndo(periods, m.id.agent, m.time)
         /\ \E rollbacks \in AddLp(requests) : toAlp' = SendRollbacks(toAlp, rollbacks, tag)
  BY DEF ClpWriteAnti
<1>4. tag \in Tags
  BY <1>1, <1>2 DEF ToClpMessages, AntiMessages, Requests
<1>5. CanUndo(periods, m.id.agent, m.time) => requests \in SUBSET [agent : Agents, time : Nat]
  <2>1. CanUndo(periods, m.id.agent, m.time) => StartingAt(periods, m.time) # 0
    BY DEF CanUndo
  <2> HIDE DEF m
  <2> QED
    BY <1>2, <2>1, RequestsType DEF IInv
<1>6. \A q \in requests : q.time >= g
  <2>1. \A q \in requests : q.time = m.time
    BY DEF ReadsOfUndone
  <2> QED
    BY <1>2, <2>1
<1>7. toAlp \in [Ranks -> Seq(ToAlpMessages)] /\ \A s \in Ranks : Ahead(g, toAlp[s])
  BY DEF IInv, TypedMessages, Safe, QueuesAhead
<1> HIDE DEF m, requests, tag
<1>8. \A s \in Ranks : Ahead(g, toAlp'[s])
  <2>1. CASE UNCHANGED toAlp
    BY <1>7, <2>1
  <2>2. CASE /\ CanUndo(periods, m.id.agent, m.time)
             /\ \E rollbacks \in AddLp(requests) : toAlp' = SendRollbacks(toAlp, rollbacks, tag)
    <3>1. PICK rollbacks \in AddLp(requests) : toAlp' = SendRollbacks(toAlp, rollbacks, tag)
      BY <2>2
    <3> QED
      BY <1>4, <1>5, <1>6, <1>7, <2>2, <3>1, RollbacksAhead
  <2> QED
    BY <1>3, <2>1, <2>2
<1> QED
  BY <1>1, <1>8, ClpKeepsGvt

\* The two handlers of the ALP that leave the agents' times alone.
LEMMA AlpTakesKeepsGvt ==
  ASSUME IInv, NEW g \in Nat, Safe(g), NEW r \in Ranks,
         AlpResponse(r) \/ AlpIgnoreRollback(r)
  PROVE  Safe(g)'
<1>1. /\ toAlp[r] # <<>> /\ toAlp' = [toAlp EXCEPT ![r] = Tail(toAlp[r])]
      /\ UNCHANGED <<toClp, sendQueue, history>>
  BY DEF AlpResponse, AlpIgnoreRollback, IsNext, agentVars
<1>2. \A s \in Ranks : ToSet(toAlp'[s]) \subseteq ToSet(toAlp[s])
  BY <1>1, AlpTakesOne
<1>3. QueuesAhead(g)'
  BY <1>1, <1>2 DEF Safe, QueuesAhead, Ahead
<1>4. AgentsAhead(g)'
  BY <1>1, SameTimesKeep DEF Safe
<1> QED
  BY <1>3, <1>4 DEF Safe

\* Alp::ProcessRollback: an agent that does not fall goes back to where it may not ask for
\* a time before g, and undoes nothing earlier.
LEMMA AlpRollbackKeepsGvt ==
  ASSUME IInv, IInv', NEW g \in Nat, Safe(g), g \in {gvt, committed}, NEW r \in Ranks, AlpRollback(r),
         fallen' = {}
  PROVE  Safe(g)'
<1> DEFINE m == Head(toAlp[r])
<1>0. PICK past : past = {h \in history[m.agent] : h <= m.time}
  OBVIOUS
<1>1. /\ toAlp[r] # <<>> /\ m.type = "rollback" /\ m.time <= Lvt(m.agent)
      /\ toAlp' = [toAlp EXCEPT ![r] = Tail(toAlp[r])]
      /\ history' = [history EXCEPT ![m.agent] = past]
      /\ fallen' = IF \E x \in {gvt, committed} : EarliestRequest(Max(past)) < x /\ x <= m.time
                   THEN fallen \union {m.agent} ELSE fallen
      /\ UNCHANGED toClp
  BY <1>0 DEF AlpRollback, IsNext
<1>2. m \in ToAlpMessages /\ m \in ToSet(toAlp[r])
      /\ \A s \in Ranks : ToSet(toAlp'[s]) \subseteq ToSet(toAlp[s])
  BY <1>1, AlpTakesOne
<1>3. m.agent \in Agents /\ m.time \in Nat /\ m.time >= g
  BY <1>1, <1>2, MessageKinds DEF Safe, QueuesAhead, Ahead
<1>4. /\ RolledBackQueue(sendQueue[r], sendQueue'[r], m.agent, m.time)
      /\ \A s \in Ranks : s # r => sendQueue'[s] = sendQueue[s]
  BY AlpRollbackQueue
<1> HIDE DEF m
<1>5. PICK a \in Agents, time \in Nat : a = m.agent /\ time = m.time
  BY <1>3
<1>6. (\A b \in Agents : b # a => history'[b] = history[b]) /\ history'[a] = past
  BY <1>1, <1>5 DEF IInv, TypedAgents
<1>7. \A b \in Agents : b # a => Lvt(b)' = Lvt(b)
  BY <1>6 DEF Lvt
<1>8. PICK k \in Nat : k = Lvt(a)' /\ k = Max(past)
  <2>1. Lvt(a)' \in Nat
    BY Lvts
  <2> QED
    BY <1>6, <2>1 DEF Lvt
<1>9. EarliestRequest(k) >= g
  <2>1. ~(EarliestRequest(k) < g /\ g <= m.time)
    BY <1>1, <1>8
  <2>2. EarliestRequest(k) \in Nat
    BY Earliest
  <2> QED
    BY <1>3, <2>1, <2>2
<1>13. AgentsAhead(g)'
  <2> SUFFICES ASSUME NEW b \in Agents PROVE EarliestRequest(Lvt(b)') >= g
    BY DEF AgentsAhead, EarliestRequest
  <2>1. CASE b = a
    BY <1>8, <1>9, <2>1
  <2>2. CASE b # a
    BY <1>7, <2>2 DEF Safe, AgentsAhead
  <2> QED
    BY <2>1, <2>2
<1>14. \A s \in Ranks : Ahead(g, sendQueue'[s])
  <2>1. PICK kept \in Seq(ToClpMessages), antis \in Seq(ToClpMessages) :
          /\ sendQueue'[r] = kept \o antis
          /\ \A y \in ToSet(kept) : y \in ToSet(sendQueue[r])
          /\ \A y \in ToSet(antis) : y.time >= time
    BY <1>4, <1>5 DEF RolledBackQueue
  <2>2. ToSet(kept \o antis) = ToSet(kept) \union ToSet(antis)
    BY ConcatFacts
  <2>3. \A y \in ToSet(antis) : y.time >= g
    <3>1. \A y \in ToSet(antis) : y.time \in Nat
      <4>1. ToSet(antis) \subseteq ToClpMessages
        BY ToSetType
      <4> QED
        BY <4>1, MessageKinds
    <3> QED
      BY <1>3, <1>5, <2>1, <3>1
  <2> QED
    BY <1>4, <2>1, <2>2, <2>3 DEF Safe, QueuesAhead, Ahead
<1>15. QueuesAhead(g)'
  BY <1>1, <1>2, <1>14 DEF Safe, QueuesAhead, Ahead
<1> QED
  BY <1>13, <1>15 DEF Safe

-----------------------------------------------------------------------------
\* The GVT calculated is no later than anything on its way or any agent.
LEMMA ComputeGvtIsSafe ==
  ASSUME IInv, IInv', GvtInv, ComputeGvt
  PROVE  GvtInv'
<1> DEFINE lvts  == {Lvt(a) : a \in Agents}
           times == {m.time : m \in InTransit}
           all   == lvts \union times
<1>1. UNCHANGED <<toClp, toAlp, sendQueue, history, clpGvt, committed, fallen>>
  BY DEF ComputeGvt, clpVars, netVars, alpVars, agentVars, histVars
<1>2. all \in SUBSET Nat /\ all # {}
  <2>1. \A a \in Agents : Lvt(a) \in Nat
    BY Lvts
  <2>2. \A m \in InTransit : m.time \in Nat
    <3>1. \A m \in InTransit : \E r \in Ranks :
            m \in ToSet(toClp[r]) \union ToSet(toAlp[r]) \union ToSet(sendQueue[r])
      BY DEF InTransit
    <3>2. \A r \in Ranks : /\ ToSet(toClp[r]) \subseteq ToClpMessages
                           /\ ToSet(toAlp[r]) \subseteq ToAlpMessages
                           /\ ToSet(sendQueue[r]) \subseteq ToClpMessages
      BY InQueues
    <3>3. \A m \in ToAlpMessages : m.time \in Nat
      BY MessageKinds
    <3>4. \A m \in ToClpMessages : m.time \in Nat
      BY MessageKinds
    <3> QED
      BY <3>1, <3>2, <3>3, <3>4
  <2> QED
    BY <2>1, <2>2, Identities
<1>3. LowerBound = Min(all)
  BY DEF LowerBound
<1>4. /\ \A a \in Agents : Lvt(a) \in all
      /\ \A r \in Ranks :
           \A m \in ToSet(toClp[r]) \union ToSet(toAlp[r]) \union ToSet(sendQueue[r]) : m.time \in all
  BY DEF InTransit
<1> HIDE DEF lvts, times, all
<1>5. LowerBound \in Nat /\ \A t \in all : t \in Nat /\ LowerBound <= t
  BY <1>2, <1>3, MinOfSet
<1>6. gvt \in Nat /\ gvt' \in Nat
  BY Times DEF IInv, TypedGvt
<1>7. gvt' <= LowerBound
  BY <1>5, <1>6 DEF ComputeGvt
<1>8. PICK g \in Nat : g = gvt'
  BY <1>6
<1>9. QueuesAhead(g) /\ AgentsAhead(g)
  <2>1. \A t \in all : t >= g /\ t \in Nat
    BY <1>5, <1>7, <1>8
  <2>2. QueuesAhead(g)
    BY <1>4, <2>1 DEF QueuesAhead, Ahead
  <2>3. ASSUME NEW a \in Agents PROVE EarliestRequest(Lvt(a)) >= g
    <3>1. PICK l \in Nat : l = Lvt(a) /\ l >= g
      BY <1>4, <2>1
    <3>2. EarliestRequest(l) \in Nat /\ l <= EarliestRequest(l)
      BY Earliest
    <3> QED
      BY <3>1, <3>2
  <2> QED
    BY <2>2, <2>3 DEF AgentsAhead
<1>10. \A a \in Agents : Lvt(a)' = Lvt(a)
  BY <1>1 DEF Lvt
<1>12. Safe(gvt)'
  BY <1>1, <1>8, <1>9, <1>10 DEF Safe, QueuesAhead, AgentsAhead
<1>13. fallen = {} => Safe(committed)'
  BY <1>1, <1>10 DEF GvtInv, Safe, QueuesAhead, AgentsAhead
<1> QED
  BY <1>1, <1>12, <1>13 DEF GvtInv

\* The steps of the agents, the ALPs and the CLP.
ThreadsStep ==
  \/ \E a \in Agents : Agent(a)
  \/ \E r \in Ranks : AlpSend(r) \/ AlpMain(r) \/ ClpMain(r)

\* They do not set a GVT, and who has fallen stays so.
LEMMA ThreadsKeepTime ==
  ASSUME ThreadsStep
  PROVE  UNCHANGED <<gvt, clpGvt, committed>> /\ fallen \subseteq fallen'
<1>1. ASSUME NEW a \in Agents, Agent(a) PROVE UNCHANGED <<gvt, clpGvt, committed, fallen>>
  BY ZenonT(60), <1>1 DEF Agent, Issue, TimeWrap, Consume, clpVars, histVars
<1>2. ASSUME NEW r \in Ranks, AlpSend(r) \/ AlpResponse(r) \/ AlpIgnoreRollback(r) \/ AlpSetGvt(r)
      PROVE  UNCHANGED <<gvt, clpGvt, committed, fallen>>
  BY ZenonT(60), <1>2 DEF AlpSend, AlpResponse, AlpIgnoreRollback, AlpSetGvt, clpVars, histVars
<1>3. ASSUME NEW r \in Ranks, ClpMain(r) PROVE UNCHANGED <<gvt, clpGvt, committed, fallen>>
  BY ZenonT(60), <1>3 DEF ClpMain, ClpRead, ClpReadAnti, ClpWrite, ClpWriteAnti, histVars
<1>4. ASSUME NEW r \in Ranks, AlpRollback(r) PROVE UNCHANGED <<gvt, clpGvt, committed>> /\ fallen \subseteq fallen'
  BY <1>4 DEF AlpRollback, clpVars
<1> QED
  BY <1>1, <1>2, <1>3, <1>4 DEF ThreadsStep, AlpMain

\* They leave what is ahead of a GVT ahead of it, if no agent falls.
LEMMA ThreadsKeepGvt ==
  ASSUME IInv, IInv', NEW g \in Nat, Safe(g), g \in {gvt, committed}, ThreadsStep, fallen' = {}
  PROVE  Safe(g)'
<1>1. CASE \E a \in Agents : Agent(a)
  <2>1. PICK a \in Agents : Agent(a)
    BY <1>1
  <2>2. CASE Issue(a, "read", 1)
    BY <2>2, IssueKeepsGvt
  <2>3. CASE \E delay \in WriteDelays : Issue(a, "write", delay)
    BY <2>3, IssueKeepsGvt
  <2>4. CASE \E step \in WrapSteps : TimeWrap(a, step)
    <3>1. PICK time : /\ history' = [history EXCEPT ![a] = history[a] \union {time}]
                      /\ UNCHANGED <<toClp, toAlp, sendQueue>>
      BY <2>4 DEF TimeWrap, netVars, alpVars
    <3> QED
      BY <3>1, LaterKeepsGvt
  <2>5. CASE Consume(a)
    <3>1. PICK time : /\ history' = [history EXCEPT ![a] = history[a] \union {time}]
                      /\ UNCHANGED <<toClp, toAlp, sendQueue>>
      BY <2>5 DEF Consume, netVars, alpVars
    <3> QED
      BY <3>1, LaterKeepsGvt
  <2> QED
    BY <2>1, <2>2, <2>3, <2>4, <2>5 DEF Agent
<1>2. CASE \E r \in Ranks : AlpSend(r) \/ AlpMain(r) \/ ClpMain(r)
  <2>1. PICK r \in Ranks : AlpSend(r) \/ AlpMain(r) \/ ClpMain(r)
    BY <1>2
  <2>2. CASE AlpSend(r)
    BY <2>2, AlpSendKeepsGvt
  <2>3. CASE AlpMain(r)
    <3>1. CASE AlpSetGvt(r)
      <4>1. UNCHANGED <<toClp, toAlp, sendQueue, history>>
        BY <3>1 DEF AlpSetGvt, netVars, agentVars
      <4>2. AgentsAhead(g)'
        BY <4>1, SameTimesKeep DEF Safe
      <4>3. QueuesAhead(g)'
        BY <4>1 DEF Safe, QueuesAhead
      <4> QED
        BY <4>2, <4>3 DEF Safe
    <3> QED
      BY <2>3, <3>1, AlpTakesKeepsGvt, AlpRollbackKeepsGvt DEF AlpMain
  <2>4. CASE ClpMain(r)
    BY <2>4, ClpReadKeepsGvt, ClpReadAntiKeepsGvt, ClpWriteKeepsGvt, ClpWriteAntiKeepsGvt DEF ClpMain
  <2> QED
    BY <2>1, <2>2, <2>3, <2>4
<1> QED
  BY <1>1, <1>2 DEF ThreadsStep

\* And so does every step, of the last GVT computed and of the highest that the CLP has had.
LEMMA NextKeepsGvt ==
  ASSUME IInv, GvtInv, [Next]_vars
  PROVE  GvtInv'
<1>1. IInv'
  BY NextKeeps
<1>2. PICK g \in Nat, c \in Nat : g = gvt /\ c = committed
  BY Times DEF IInv, TypedGvt, GvtInv
<1>3. fallen = {} => Safe(g) /\ Safe(c)
  BY <1>2 DEF GvtInv
<1>4. CASE ThreadsStep
  <2>1. UNCHANGED <<gvt, clpGvt, committed>> /\ fallen \subseteq fallen'
    BY <1>4, ThreadsKeepTime
  <2>2. ASSUME fallen' = {} PROVE Safe(gvt)' /\ Safe(committed)'
    <3>1. Safe(g) /\ Safe(c)
      BY <1>3, <2>1, <2>2
    <3>2. Safe(g)'
      BY <1>1, <1>2, <1>4, <2>2, <3>1, ThreadsKeepGvt
    <3>3. Safe(c)'
      BY <1>1, <1>2, <1>4, <2>2, <3>1, ThreadsKeepGvt
    <3>4. g = gvt' /\ c = committed'
      BY <1>2, <2>1
    <3> QED
      BY <3>2, <3>3, <3>4 DEF Safe, QueuesAhead, AgentsAhead
  <2> QED
    BY <2>1, <2>2 DEF GvtInv
<1>5. CASE ClpSetGvt
  <2>1. /\ UNCHANGED <<toClp, toAlp, sendQueue, history, gvt, fallen>>
        /\ clpGvt' = gvt /\ committed' = Max({committed, gvt})
    BY <1>5 DEF ClpSetGvt, netVars, alpVars, agentVars
  <2>2. \A a \in Agents : Lvt(a)' = Lvt(a)
    BY <2>1 DEF Lvt
  <2>3. committed' \in Nat /\ g <= committed' /\ (committed' = g \/ committed' = c)
    BY <1>2, <2>1, MaxOfTwo
  <2>4. ASSUME fallen' = {} PROVE Safe(gvt)' /\ Safe(committed)'
    BY <1>2, <1>3, <2>1, <2>2, <2>3, <2>4 DEF Safe, QueuesAhead, AgentsAhead
  <2> QED
    BY <1>2, <2>1, <2>3, <2>4 DEF GvtInv
<1>6. CASE ComputeGvt
  BY <1>1, <1>6, ComputeGvtIsSafe
<1>7. CASE UNCHANGED vars
  <2>1. UNCHANGED <<toClp, toAlp, sendQueue, history, gvt, clpGvt, committed, fallen>>
    BY <1>7 DEF vars, clpVars, netVars, alpVars, agentVars, histVars
  <2>2. \A a \in Agents : Lvt(a)' = Lvt(a)
    BY <2>1 DEF Lvt
  <2> QED
    BY <2>1, <2>2 DEF GvtInv, Safe, QueuesAhead, AgentsAhead
<1> QED
  BY <1>4, <1>5, <1>6, <1>7 DEF Next, ThreadsStep

\* In the beginning all is at time 0.
LEMMA InitGvtInv == Init => GvtInv
<1> SUFFICES ASSUME Init PROVE GvtInv
  OBVIOUS
<1>1. \A a \in Agents : EarliestRequest(Lvt(a)) >= 0
  <2> SUFFICES ASSUME NEW a \in Agents PROVE EarliestRequest(Lvt(a)) >= 0
    OBVIOUS
  <2>1. {0} \in SUBSET (0 .. MaxTime) /\ 0 \in {0}
    BY Times
  <2>2. Max({0}) \in Nat
    BY <2>1, LatestOf
  <2>3. Lvt(a) \in Nat
    BY <2>2 DEF Init, Lvt
  <2>4. EarliestRequest(Lvt(a)) \in Nat
    BY <2>3, Earliest
  <2> QED
    BY <2>4
<1>2. \A r \in Ranks : ToSet(toClp[r]) = {} /\ ToSet(toAlp[r]) = {} /\ ToSet(sendQueue[r]) = {}
  BY DEF Init, ToSet
<1>3. gvt = 0 /\ clpGvt = 0 /\ committed = 0
  BY DEF Init
<1> QED
  BY <1>1, <1>2, <1>3 DEF GvtInv, Safe, QueuesAhead, Ahead, AgentsAhead

\* As long as no rollback has taken an agent to where it may ask for a time before a GVT that
\* the rollback was not before, no message on its way and no time an agent may ask for is
\* before the last GVT computed or before any the CLP has set, for any agents, jumps and
\* delays of writes.
THEOREM GvtInvariance == Spec => [](IInv /\ GvtInv)
<1>1. Init => IInv /\ GvtInv
  BY InitIInv, InitGvtInv
<1>2. IInv /\ GvtInv /\ [Next]_vars => (IInv /\ GvtInv)'
  <2> SUFFICES ASSUME IInv, GvtInv, [Next]_vars PROVE IInv' /\ GvtInv'
    OBVIOUS
  <2> QED
    BY NextKeeps, NextKeepsGvt
<1> QED
  BY <1>1, <1>2, PTL DEF Spec

\* What is ahead of a GVT that was set is ahead of the CLP's.
LEMMA AheadOfClp ==
  ASSUME IInv, GvtInv, fallen = {}, NEW r \in Ranks,
         NEW m \in ToSet(toClp[r]) \union ToSet(toAlp[r]) \union ToSet(sendQueue[r])
  PROVE  m.time >= clpGvt
<1>1. m.time >= committed
  BY DEF GvtInv, Safe, QueuesAhead, Ahead
<1>2. m.time \in Nat
  <2>1. m \in ToClpMessages \union ToAlpMessages
    BY InQueues
  <2> QED
    BY <2>1, MessageKinds
<1>3. clpGvt \in Nat /\ committed \in Nat /\ clpGvt <= committed
  BY Times DEF IInv, TypedGvt, GvtInv
<1> QED
  BY <1>1, <1>2, <1>3

\* No rollback and no anti-message on its way concerns a time before the CLP's GVT, in whatever
\* order GVT is computed, learnt and overtaken, unless a rollback has taken an agent to
\* where it may ask for a time before GVT (Clp::SetGvt, Clp::ProcessMessage,
\* Alp::ProcessRollback).
THEOREM CommittedStays == Spec => []NothingCommittedIsUndone
<1>1. IInv /\ GvtInv => NothingCommittedIsUndone
  BY AheadOfClp DEF NothingCommittedIsUndone
<1> QED
  BY <1>1, GvtInvariance, PTL

\* And no agent asks to read before the CLP's GVT, where it would get no answer
\* (Agent::ReadInt, Clp::ProcessMessage).
THEOREM NoneReadsBelowGvt == Spec => []NoReadBelowGvt
<1>1. IInv /\ GvtInv => NoReadBelowGvt
  BY AheadOfClp DEF NoReadBelowGvt
<1> QED
  BY <1>1, GvtInvariance, PTL

-----------------------------------------------------------------------------
(* Writes in force.  A write an ALP would still undo is in the CLP's list, on its way     *)
(* there, or refused with the refusal on its way back.                     *)

\* A write is in a list, at its time and under its agent.
Holds(list, value, agent, time) ==
  \E k \in 1 .. Len(list) :
     list[k].value = value /\ list[k].agent = agent /\ list[k].start = time

\* StateVariable::Read and PerformReadRollback leave the writes alone.
LEMMA ChangeReadsHolds ==
  ASSUME NEW values, NEW readers, NEW list \in Seq(PeriodsOf(values, readers)),
         NEW i \in 1 .. Len(list),
         NEW reads \in SUBSET [agent : readers, time : Nat],
         NEW v, NEW a, NEW t, Holds(list, v, a, t)
  PROVE  Holds([list EXCEPT ![i] = [list[i] EXCEPT !.reads = reads]], v, a, t)
<1> DEFINE p   == [list[i] EXCEPT !.reads = reads]
           new == [list EXCEPT ![i] = p]
<1>1. Len(list) \in Nat /\ list[i] \in PeriodsOf(values, readers)
  BY ListType
<1>2. /\ p \in PeriodsOf(values, readers)
      /\ p.value = list[i].value /\ p.agent = list[i].agent /\ p.start = list[i].start
  BY <1>1 DEF PeriodsOf
<1> HIDE DEF p
<1>3. /\ Len(new) = Len(list)
      /\ \A k \in 1 .. Len(list) : new[k] = IF k = i THEN p ELSE list[k]
  BY <1>2, ExceptPeriod
<1> HIDE DEF new
<1>4. Holds(new, v, a, t)
  BY <1>2, <1>3 DEF Holds
<1> QED
  BY <1>4 DEF new, p

\* StateVariable::Read.
LEMMA NoteReadHolds ==
  ASSUME NEW values, NEW readers, NEW list, ListInv(list, values, readers),
         NEW agent \in readers, NEW time \in Nat, Covering(list, time) # 0,
         NEW v, NEW a, NEW t, Holds(list, v, a, t)
  PROVE  Holds(NoteRead(list, agent, time), v, a, t)
<1> DEFINE i == Covering(list, time)
           reads == list[i].reads \union {[agent |-> agent, time |-> time]}
<1>1. list \in Seq(PeriodsOf(values, readers)) /\ i \in 1 .. Len(list)
  BY ListType, CoveringIsLast DEF ListInv
<1>2. NoteRead(list, agent, time) = [list EXCEPT ![i] = [list[i] EXCEPT !.reads = reads]]
  BY DEF NoteRead
<1> HIDE DEF i
<1>3. reads \in SUBSET [agent : readers, time : Nat]
  BY <1>1, ListType
<1> HIDE DEF reads
<1>4. Holds([list EXCEPT ![i] = [list[i] EXCEPT !.reads = reads]], v, a, t)
  BY <1>1, <1>3, ChangeReadsHolds
<1> QED
  BY <1>2, <1>4

\* StateVariable::PerformReadRollback.
LEMMA PerformReadRollbackHolds ==
  ASSUME NEW values, NEW readers, NEW list, ListInv(list, values, readers),
         NEW agent, NEW time \in Nat, Covering(list, time) # 0,
         NEW v, NEW a, NEW t, Holds(list, v, a, t)
  PROVE  Holds(PerformReadRollback(list, agent, time), v, a, t)
<1> DEFINE i == Covering(list, time)
           reads == list[i].reads \ {[agent |-> agent, time |-> time]}
<1>1. list \in Seq(PeriodsOf(values, readers)) /\ i \in 1 .. Len(list)
  BY ListType, CoveringIsLast DEF ListInv
<1>2. PerformReadRollback(list, agent, time) = [list EXCEPT ![i] = [list[i] EXCEPT !.reads = reads]]
  BY DEF PerformReadRollback
<1> HIDE DEF i
<1>3. reads \in SUBSET [agent : readers, time : Nat]
  BY <1>1, ListType
<1> HIDE DEF reads
<1>4. Holds([list EXCEPT ![i] = [list[i] EXCEPT !.reads = reads]], v, a, t)
  BY <1>1, <1>3, ChangeReadsHolds
<1> QED
  BY <1>2, <1>4

\* The same write, whatever its end and the reads noted with it.
SameWrite(p, q) == p.value = q.value /\ p.agent = q.agent /\ p.start = q.start

\* StateVariable::WriteWithRollback puts the write behind the period that covers it.
LEMMA WriteWithRollbackWrites ==
  ASSUME NEW values, NEW readers, NEW list, ListInv(list, values, readers),
         NEW agent \in LpId, NEW value \in values, NEW time \in Nat, time < Infinity,
         ~IsRefused(list, agent, time)
  PROVE  /\ list # <<>> => Covering(list, time) # 0
         /\ Len(WriteWithRollback(list, agent, value, time)) = Len(list) + 1
         /\ \A j \in 1 .. Covering(list, time) :
              SameWrite(WriteWithRollback(list, agent, value, time)[j], list[j])
         /\ SameWrite(WriteWithRollback(list, agent, value, time)[Covering(list, time) + 1],
                      Period(value, time, agent))
         /\ \A j \in Covering(list, time) + 1 .. Len(list) :
              SameWrite(WriteWithRollback(list, agent, value, time)[j + 1], list[j])
<1> DEFINE P      == PeriodsOf(values, readers)
           new    == WriteWithRollback(list, agent, value, time)
           i      == Covering(list, time)
           closed == [list[i] EXCEPT !.end = time, !.reads = @ \ ReadsFrom(list[i], time)]
           p      == [Period(value, time, agent) EXCEPT
                        !.end = IF i < Len(list) THEN list[i + 1].start ELSE @]
           cut    == [list EXCEPT ![i] = closed]
<1>1. /\ list \in Seq(P) /\ Len(list) \in Nat
      /\ list # <<>> <=> Len(list) # 0
      /\ \A k \in 1 .. Len(list) :
           /\ list[k] \in P
           /\ list[k].start \in Nat /\ list[k].end \in Nat
           /\ list[k].reads \in SUBSET [agent : readers, time : Nat]
  BY ListType DEF ListInv
<1>2. CASE list = <<>>
  <2>1. Len(list) = 0 /\ i \in 0 .. Len(list)
    BY <1>1, <1>2, CoveringIsLast
  <2>2. new = <<Period(value, time, agent)>>
    BY <1>2 DEF WriteWithRollback
  <2>3. Len(new) = 1 /\ new[1] = Period(value, time, agent)
    BY <2>2
  <2> HIDE DEF new, i
  <2>4. i = 0
    BY <2>1
  <2> QED
    BY <1>2, <2>1, <2>3, <2>4 DEF new, i, SameWrite
<1>3. CASE list # <<>>
  <2>1. i \in 1 .. Len(list)
    BY <1>1, <1>3, CoveringIsLast DEF ListInv, IsRefused
  <2>2. new = InsertAt(cut, i + 1, p)
    BY <1>3 DEF WriteWithRollback
  <2>3. closed \in P /\ SameWrite(closed, list[i])
    BY <1>1, <2>1 DEF PeriodsOf, SameWrite
  <2>4. i < Len(list) => i + 1 \in 1 .. Len(list)
    BY <1>1, <2>1
  <2>5. p \in P /\ SameWrite(p, Period(value, time, agent))
    BY <1>1, <2>1, <2>4, InfinityAssumption DEF PeriodsOf, Period, SameWrite
  <2> HIDE DEF i, closed, p
  <2>6. /\ cut \in Seq(P) /\ Len(cut) = Len(list)
        /\ \A j \in 1 .. Len(list) : cut[j] = IF j = i THEN closed ELSE list[j]
    BY <1>1, <2>1, <2>3, ExceptPeriod
  <2> HIDE DEF cut, new
  <2>7. /\ Len(new) = Len(list) + 1
        /\ \A j \in 1 .. Len(list) + 1 :
             new[j] = IF j < i + 1 THEN cut[j] ELSE IF j = i + 1 THEN p ELSE cut[j - 1]
    <3> DEFINE at == i + 1
    <3>1. at \in 1 .. Len(cut) + 1
      BY <1>1, <2>1, <2>6
    <3> HIDE DEF P, at
    <3>2. cut \in Seq(P) /\ p \in P
      BY <2>5, <2>6
    <3>3. IsInsertion(InsertAt(cut, at, p), cut, at, p)
      BY <3>1, <3>2, InsertAtIs
    <3> QED
      BY <2>2, <2>6, <3>3 DEF at, IsInsertion
  <2>8. \A j \in 1 .. Len(list) : SameWrite(cut[j], list[j])
    BY <2>3, <2>6 DEF SameWrite
  <2> HIDE DEF P
  <2>9. ASSUME NEW j \in 1 .. i PROVE SameWrite(new[j], list[j])
    <3>1. j \in 1 .. Len(list) /\ j < i + 1
      BY <1>1, <2>1
    <3> QED
      BY <2>7, <2>8, <3>1
  <2>10. SameWrite(new[i + 1], Period(value, time, agent))
    <3>1. i + 1 \in 1 .. Len(list) + 1 /\ ~(i + 1 < i + 1)
      BY <1>1, <2>1
    <3> QED
      BY <2>5, <2>7, <3>1
  <2>11. ASSUME NEW j \in i + 1 .. Len(list) PROVE SameWrite(new[j + 1], list[j])
    <3>1. /\ j \in 1 .. Len(list) /\ j + 1 \in 1 .. Len(list) + 1
          /\ ~(j + 1 < i + 1) /\ j + 1 # i + 1 /\ (j + 1) - 1 = j
      BY <1>1, <2>1
    <3> QED
      BY <2>7, <2>8, <3>1
  <2> QED
    BY <1>1, <2>1, <2>7, <2>9, <2>10, <2>11 DEF i, new
<1> QED
  BY <1>2, <1>3

\* So the write is in the list and the others stay.
LEMMA WriteWithRollbackHolds ==
  ASSUME NEW values, NEW readers, NEW list, ListInv(list, values, readers),
         NEW agent \in LpId, NEW value \in values, NEW time \in Nat, time < Infinity,
         ~IsRefused(list, agent, time)
  PROVE  /\ Holds(WriteWithRollback(list, agent, value, time), value, agent, time)
         /\ \A v, a, t : Holds(list, v, a, t)
                           => Holds(WriteWithRollback(list, agent, value, time), v, a, t)
<1>1. PICK new, i : new = WriteWithRollback(list, agent, value, time) /\ i = Covering(list, time)
  OBVIOUS
<1>2. /\ Len(new) = Len(list) + 1
      /\ \A j \in 1 .. i : SameWrite(new[j], list[j])
      /\ SameWrite(new[i + 1], Period(value, time, agent))
      /\ \A j \in i + 1 .. Len(list) : SameWrite(new[j + 1], list[j])
  BY <1>1, WriteWithRollbackWrites
<1>3. Len(list) \in Nat /\ i \in 0 .. Len(list)
  BY <1>1, ListType, CoveringIsLast DEF ListInv
<1>4. i + 1 \in 1 .. Len(list) + 1
  BY <1>3
<1>5. Holds(new, value, agent, time)
  BY <1>2, <1>4 DEF Holds, SameWrite, Period
<1>6. ASSUME NEW v, NEW a, NEW t, Holds(list, v, a, t) PROVE Holds(new, v, a, t)
  <2>1. PICK k \in 1 .. Len(list) : list[k].value = v /\ list[k].agent = a /\ list[k].start = t
    BY <1>6 DEF Holds
  <2>2. PICK j \in 1 .. Len(list) + 1 : SameWrite(new[j], list[k])
    <3>1. CASE k <= i
      <4>1. k \in 1 .. Len(list) + 1 /\ k \in 1 .. i
        BY <1>3, <3>1
      <4> QED
        BY <1>2, <4>1
    <3>2. CASE k > i
      <4>1. k + 1 \in 1 .. Len(list) + 1 /\ k \in i + 1 .. Len(list)
        BY <1>3, <3>2
      <4> QED
        BY <1>2, <4>1
    <3> QED
      BY <1>3, <3>1, <3>2
  <2> QED
    BY <1>2, <2>1, <2>2 DEF Holds, SameWrite
<1> QED
  BY <1>1, <1>5, <1>6

\* StateVariable::PerformWriteRollback takes out the first write of that time.
LEMMA PerformWriteRollbackWrites ==
  ASSUME NEW values, NEW readers, NEW list, ListInv(list, values, readers), NEW time \in Nat,
         StartingAt(list, time) # 0
  PROVE  /\ StartingAt(list, time) \in 1 .. Len(list)
         /\ Len(PerformWriteRollback(list, time)) = Len(list) - 1
         /\ \A k \in 1 .. Len(list) - 1 :
              SameWrite(PerformWriteRollback(list, time)[k],
                        list[IF k < StartingAt(list, time) THEN k ELSE k + 1])
<1> DEFINE P      == PeriodsOf(values, readers)
           i      == StartingAt(list, time)
           end    == IF i = Len(list) THEN Infinity ELSE list[i].end
           merged == IF i = 1 THEN list ELSE [list EXCEPT ![i - 1].end = end]
           new    == PerformWriteRollback(list, time)
<1>1. /\ list \in Seq(P) /\ Len(list) \in Nat
      /\ \A k \in 1 .. Len(list) :
           list[k] \in P /\ list[k].start \in Nat /\ list[k].end \in Nat
  BY ListType DEF ListInv
<1>2. i \in 1 .. Len(list) /\ list[i].start = time
  BY <1>1, StartingAtIsFirst DEF ListInv
<1>3. new = RemoveAt(merged, i)
  BY DEF PerformWriteRollback
<1>4. end \in Nat
  BY <1>1, <1>2, InfinityAssumption
<1>5. /\ merged \in Seq(P) /\ Len(merged) = Len(list)
      /\ \A k \in 1 .. Len(list) : SameWrite(merged[k], list[k])
  <2>1. CASE i = 1
    BY <1>1, <2>1 DEF SameWrite
  <2>2. CASE i # 1
    <3> DEFINE p == [list[i - 1] EXCEPT !.end = end]
    <3>1. i - 1 \in 1 .. Len(list)
      BY <1>1, <1>2, <2>2
    <3>2. p \in P /\ SameWrite(p, list[i - 1])
      BY <1>1, <1>4, <3>1 DEF PeriodsOf, SameWrite
    <3>3. merged = [list EXCEPT ![i - 1] = p]
      BY <2>2
    <3> DEFINE before == i - 1
    <3> HIDE DEF p, P, merged, end, i
    <3>4. before \in 1 .. Len(list)
      BY <3>1
    <3> HIDE DEF before
    <3>5. /\ [list EXCEPT ![before] = p] \in Seq(P)
          /\ Len([list EXCEPT ![before] = p]) = Len(list)
          /\ \A k \in 1 .. Len(list) :
               [list EXCEPT ![before] = p][k] = IF k = before THEN p ELSE list[k]
      BY <1>1, <3>2, <3>4, ExceptPeriod DEF P
    <3> QED
      BY <3>2, <3>3, <3>5 DEF before, SameWrite
  <2> QED
    BY <2>1, <2>2
<1> HIDE DEF i, merged, end, new, P
<1>6. /\ Len(new) = Len(list) - 1
      /\ \A k \in 1 .. Len(list) - 1 : new[k] = IF k < i THEN merged[k] ELSE merged[k + 1]
  <2>1. i \in 1 .. Len(merged)
    BY <1>2, <1>5
  <2>2. /\ Len(RemoveAt(merged, i)) = Len(merged) - 1
        /\ \A k \in 1 .. Len(merged) - 1 :
             RemoveAt(merged, i)[k] = IF k < i THEN merged[k] ELSE merged[k + 1]
    BY <1>5, <2>1, RemoveAtSeq
  <2> QED
    BY <1>3, <1>5, <2>2
<1>7. \A k \in 1 .. Len(list) - 1 : SameWrite(new[k], list[IF k < i THEN k ELSE k + 1])
  <2> SUFFICES ASSUME NEW k \in 1 .. Len(list) - 1
               PROVE  SameWrite(new[k], list[IF k < i THEN k ELSE k + 1])
    OBVIOUS
  <2>1. k \in 1 .. Len(list) /\ k + 1 \in 1 .. Len(list)
    BY <1>1
  <2> QED
    BY <1>5, <1>6, <2>1
<1> QED
  BY <1>2, <1>6, <1>7 DEF i, new

\* So a write is still there, unless it may be the one taken out.
LEMMA PerformWriteRollbackHolds ==
  ASSUME NEW values, NEW readers, NEW list, ListInv(list, values, readers), NEW time \in Nat,
         StartingAt(list, time) # 0,
         NEW v, NEW a, NEW t, Holds(list, v, a, t)
  PROVE  \/ Holds(PerformWriteRollback(list, time), v, a, t)
         \/ /\ t = time
            /\ list[StartingAt(list, time)].agent = a /\ list[StartingAt(list, time)].value = v
<1>1. PICK new, i : new = PerformWriteRollback(list, time) /\ i = StartingAt(list, time)
  OBVIOUS
<1>2. /\ i \in 1 .. Len(list) /\ list[i].start = time
      /\ Len(new) = Len(list) - 1
      /\ \A k \in 1 .. Len(list) - 1 : SameWrite(new[k], list[IF k < i THEN k ELSE k + 1])
  BY <1>1, PerformWriteRollbackWrites, StartingAtIsFirst DEF ListInv
<1>3. Len(list) \in Nat
  BY ListType DEF ListInv
<1>4. PICK k \in 1 .. Len(list) : list[k].value = v /\ list[k].agent = a /\ list[k].start = t
  BY DEF Holds
<1>5. CASE k = i
  BY <1>1, <1>2, <1>4, <1>5
<1>6. CASE k # i
  <2>1. PICK j \in 1 .. Len(list) - 1 : SameWrite(new[j], list[k])
    <3>1. CASE k < i
      <4>1. k \in 1 .. Len(list) - 1
        BY <1>2, <1>3, <3>1
      <4> QED
        BY <1>2, <3>1, <4>1
    <3>2. CASE k > i
      <4>1. k - 1 \in 1 .. Len(list) - 1 /\ ~(k - 1 < i) /\ (k - 1) + 1 = k
        BY <1>2, <1>3, <3>2
      <4> QED
        BY <1>2, <4>1
    <3> QED
      BY <1>2, <1>3, <1>6, <3>1, <3>2
  <2> QED
    BY <1>1, <1>2, <1>4, <2>1 DEF Holds, SameWrite
<1> QED
  BY <1>5, <1>6

\* A list is the tail of another, from f on, with the i-th period starting at the limit;
\* no period before f starts there.
IsTail(new, list, f, i, limit) ==
  /\ Len(new) = Len(list) - f + 1
  /\ \A k \in 1 .. Len(list) - f + 1 :
       /\ new[k].value = list[f + k - 1].value /\ new[k].agent = list[f + k - 1].agent
       /\ new[k].start = IF f + k - 1 = i THEN limit ELSE list[f + k - 1].start
  /\ \A k \in 1 .. Len(list) : list[k].start = limit => f <= k
  /\ f < i => list[f].start = limit

\* StateVariable::RemoveWritePeriods keeps a tail of the list, from the first period that
\* starts at GVT once the one that covers GVT does.
LEMMA RemoveWritePeriodsWrites ==
  ASSUME NEW values, NEW readers, NEW list, ListInv(list, values, readers),
         NEW limit \in Nat, limit < Infinity, Covering(list, limit) # 0
  PROVE  \E f \in 1 .. Covering(list, limit) :
           IsTail(RemoveWritePeriods(list, limit), list, f, Covering(list, limit), limit)
<1> DEFINE P   == PeriodsOf(values, readers)
           i   == Covering(list, limit)
           p   == [list[i] EXCEPT !.start = limit, !.reads = {r \in @ : r.time >= limit}]
           cut == [list EXCEPT ![i] = p]
           f   == StartingAt(cut, limit)
           new == SubSeq(cut, f, Len(cut))
<1>1. /\ list \in Seq(P) /\ Len(list) \in Nat
      /\ \A k \in 1 .. Len(list) :
           /\ list[k] \in P
           /\ list[k].start \in Nat /\ list[k].end \in Nat
           /\ list[k].reads \in SUBSET [agent : readers, time : Nat]
  BY ListType DEF ListInv
<1>2. i \in 1 .. Len(list) /\ list[i].start <= limit
  BY <1>1, CoveringIsLast DEF ListInv
<1>3. RemoveWritePeriods(list, limit) = new
  BY DEF RemoveWritePeriods
<1> HIDE DEF i
<1>4. /\ p \in P /\ p.start = limit /\ p.value = list[i].value /\ p.agent = list[i].agent
  BY <1>1, <1>2 DEF PeriodsOf
<1> HIDE DEF p
<1>5. /\ cut \in Seq(P) /\ Len(cut) = Len(list)
      /\ \A k \in 1 .. Len(list) : cut[k] = IF k = i THEN p ELSE list[k]
  BY <1>1, <1>2, <1>4, ExceptPeriod
<1> HIDE DEF cut
<1>6. /\ f \in 0 .. Len(cut) /\ (f # 0 => cut[f].start = limit)
      /\ \A k \in 1 .. Len(cut) : cut[k].start = limit => f # 0 /\ f <= k
  BY <1>5, StartingAtIsFirst
<1> HIDE DEF f
<1>7. cut[i].start = limit /\ i \in 1 .. Len(cut)
  BY <1>2, <1>4, <1>5
<1>8. f \in 1 .. i
  BY <1>2, <1>6, <1>7
<1> DEFINE n == Len(list) - f + 1
<1>9. f \in Nat /\ n \in Nat /\ n >= 1 /\ f >= 1 /\ f <= i
  BY <1>1, <1>2, <1>8
<1>10. /\ Len(new) = n
       /\ \A k \in 1 .. n : new[k] = cut[f + k - 1]
  <2>1. \A k \in f .. Len(cut) : cut[k] \in P
    BY <1>5, <1>9, ElementOfSeq
  <2>2. Len(cut) \in Nat /\ f \in 1 .. Len(cut) + 1
    BY <1>1, <1>2, <1>5, <1>8
  <2> HIDE DEF P
  <2> QED
    BY <1>5, <2>1, <2>2, SubSeqProperties
<1> HIDE DEF new, P
<1>11. ASSUME NEW k \in 1 .. n
       PROVE  /\ new[k].value = list[f + k - 1].value /\ new[k].agent = list[f + k - 1].agent
              /\ new[k].start = IF f + k - 1 = i THEN limit ELSE list[f + k - 1].start
  <2>1. f + k - 1 \in 1 .. Len(list)
    BY <1>1, <1>2, <1>8
  <2>2. PICK at \in 1 .. Len(list) : at = f + k - 1
    BY <2>1
  <2>3. new[k] = cut[at]
    BY <1>10, <2>2
  <2>4. /\ cut[at].value = list[at].value /\ cut[at].agent = list[at].agent
        /\ cut[at].start = IF at = i THEN limit ELSE list[at].start
    BY <1>4, <1>5
  <2> QED
    BY <2>2, <2>3, <2>4
<1>12. ASSUME NEW k \in 1 .. Len(list), list[k].start = limit PROVE f <= k
  <2>1. cut[k].start = limit
    BY <1>4, <1>5, <1>12
  <2> QED
    BY <1>5, <1>6, <2>1
<1>13. f < i => list[f].start = limit
  <2>1. f \in 1 .. Len(list)
    BY <1>1, <1>2, <1>8
  <2> QED
    BY <1>5, <1>6, <1>9, <2>1
<1>14. IsTail(new, list, f, i, limit)
  BY <1>10, <1>11, <1>12, <1>13 DEF IsTail
<1> QED
  BY <1>3, <1>8, <1>14 DEF i

\* So the writes from GVT on stay, also one at GVT.
LEMMA RemoveWritePeriodsHolds ==
  ASSUME NEW values, NEW readers, NEW list, ListInv(list, values, readers),
         NEW limit \in Nat, limit < Infinity,
         NEW v, NEW a, NEW t \in Nat, t >= limit, Holds(list, v, a, t)
  PROVE  Holds(RemoveWritePeriods(list, limit), v, a, t)
<1>1. PICK new, i : new = RemoveWritePeriods(list, limit) /\ i = Covering(list, limit)
  OBVIOUS
<1>2. /\ i \in 0 .. Len(list) /\ (i # 0 => list[i].start <= limit)
      /\ \A k \in 1 .. Len(list) : k > i => list[k].start > limit
  BY <1>1, CoveringIsLast DEF ListInv
<1>3. CASE i = 0
  BY <1>1, <1>3 DEF RemoveWritePeriods
<1>4. CASE i # 0
  <2>0. PICK f \in 1 .. i : IsTail(new, list, f, i, limit)
    BY <1>1, <1>4, RemoveWritePeriodsWrites
  <2>1. /\ Len(new) = Len(list) - f + 1
        /\ \A k \in 1 .. Len(list) - f + 1 :
             /\ new[k].value = list[f + k - 1].value /\ new[k].agent = list[f + k - 1].agent
             /\ new[k].start = IF f + k - 1 = i THEN limit ELSE list[f + k - 1].start
        /\ \A k \in 1 .. Len(list) : list[k].start = limit => f <= k
    BY <2>0 DEF IsTail
  <2>2. Len(list) \in Nat /\ \A k \in 1 .. Len(list) : list[k].start \in Nat
    BY ListType DEF ListInv
  <2>3. PICK k \in 1 .. Len(list) : list[k].value = v /\ list[k].agent = a /\ list[k].start = t
    BY DEF Holds
  <2>4. f <= k /\ (k = i => t = limit)
    <3>1. CASE k > i
      BY <1>2, <2>1, <3>1
    <3>2. CASE k <= i
      <4>1. i \in 1 .. Len(list) /\ list[k].start <= list[i].start
        BY <1>2, <1>4, <2>2, <3>2 DEF ListInv, InOrder
      <4>2. list[i].start \in Nat /\ t \in Nat /\ limit \in Nat /\ list[i].start <= limit /\ t <= list[i].start
        BY <1>2, <1>4, <2>2, <2>3, <4>1
      <4>3. t = limit
        BY <4>2
      <4> QED
        BY <2>1, <2>3, <4>3
    <3> QED
      BY <1>2, <3>1, <3>2
  <2>5. PICK at \in 1 .. Len(list) - f + 1 : f + at - 1 = k
    <3>1. /\ k - f + 1 \in 1 .. Len(list) - f + 1
          /\ f + (k - f + 1) - 1 = k
      BY <1>2, <2>1, <2>2, <2>4
    <3> QED
      BY <3>1
  <2>6. new[at].value = v /\ new[at].agent = a /\ new[at].start = t
    BY <2>1, <2>3, <2>4, <2>5
  <2>7. at \in 1 .. Len(new)
    BY <2>1
  <2> QED
    BY <1>1, <2>6, <2>7 DEF Holds
<1> QED
  BY <1>3, <1>4

-----------------------------------------------------------------------------
\* A write that is still to be undone, and an anti-message that takes it back.
Cancelling(sent) ==
  {p \in ToClpMessages \X ToClpMessages :
     /\ p[1].type = "write" /\ p[2].type = "writeAnti"
     /\ p[1].id.agent = p[2].id.agent /\ p[1].time = p[2].time
     /\ p[1] \in sent}

\* No anti-message that would take the write back is on its way from the ALP of rank r.
Stands(m, r) ==
  \A x \in ToSet(toClp[r]) \union ToSet(sendQueue[r]) :
    x.type = "writeAnti" /\ x.id.agent = m.id.agent => x.time # m.time

IsRefusal(x, m) == x.type = "writeResponse" /\ x.ok = FALSE /\ x.id = m.id

\* The write is on its way to the CLP, refused, in the CLP's list to stay, or stolen.
IsInSync(m, r) ==
  \/ m \in ToSet(toClp[r])
  \/ \E x \in ToSet(toAlp[r]) : IsRefusal(x, m)
  \/ Holds(periods, m.id, m.id.agent, m.time) /\ Stands(m, r)
  \/ m.id \in stolen

\* What an ALP has sent is its agents'.
Listed == \A r \in Ranks : \A m \in ToSet(sendList[r]) : m.id.agent.rank = r

\* An anti-message is sent before the write is repeated.
WriteAntisFirst ==
  \A r \in Ranks :
    /\ Avoids(sendQueue[r], Cancelling(ToClpMessages))
    /\ Avoids(toClp[r], Cancelling(ToSet(sendList[r])))
    /\ \A x \in ToSet(toClp[r]), y \in ToSet(sendQueue[r]) :
         <<x, y>> \notin Cancelling(ToSet(sendList[r]))

InSync ==
  \A r \in Ranks : \A m \in ToSet(sendList[r]) :
    m.type = "write" /\ m.time >= committed => IsInSync(m, r)

SyncInv == Listed /\ WriteAntisFirst /\ InSync

\* What Cancelling says.
LEMMA CancellingPairs ==
  ASSUME NEW x \in ToClpMessages, NEW y \in ToClpMessages, NEW sent
  PROVE  <<x, y>> \in Cancelling(sent) <=>
           /\ x.type = "write" /\ y.type = "writeAnti"
           /\ x.id.agent = y.id.agent /\ x.time = y.time
           /\ x \in sent
  BY DEF Cancelling

\* What holds of the pairs in a list is enough.
LEMMA AvoidsOn ==
  ASSUME NEW T, NEW s \in Seq(T), NEW R, NEW S, Avoids(s, S),
         \A x \in ToSet(s), y \in ToSet(s) : <<x, y>> \in R => <<x, y>> \in S
  PROVE  Avoids(s, R)
<1>1. Len(s) \in Nat /\ \A k \in 1 .. Len(s) : s[k] \in ToSet(s)
  BY LenProperties DEF ToSet
<1> QED
  BY <1>1 DEF Avoids

\* The CLP takes the first message of a queue: the order of the others stays, and no
\* anti-message for it is behind it.
LEMMA ClpTakesKeepsWriteOrder ==
  ASSUME IInv, SyncInv, NEW r \in Ranks, toClp[r] # <<>>, Take(r), UNCHANGED <<sendQueue, sendList>>
  PROVE  /\ Listed' /\ WriteAntisFirst'
         /\ \A s \in Ranks : ToSet(toClp'[s]) \subseteq ToSet(toClp[s])
         /\ Head(toClp[r]) \in ToSet(toClp[r])
         /\ \A s \in Ranks : \A x \in ToSet(toClp[s]) : x \in ToSet(toClp'[s]) \/ (s = r /\ x = Head(toClp[r]))
         /\ \A m \in ToSet(sendList[r]) : m = Head(toClp[r]) /\ m.type = "write" => Stands(m, r)'
<1> DEFINE m == Head(toClp[r])
           R == Cancelling(ToSet(sendList[r]))
<1>1. /\ toClp[r] \in Seq(ToClpMessages) /\ toClp \in [Ranks -> Seq(ToClpMessages)]
      /\ ToSet(toClp[r]) \subseteq ToClpMessages /\ ToSet(sendQueue[r]) \subseteq ToClpMessages
  BY InQueues DEF IInv, TypedMessages
<1>2. m \in ToClpMessages /\ ToSet(toClp[r]) = {m} \union ToSet(Tail(toClp[r]))
  BY <1>1, TailFacts
<1>3. Avoids(toClp[r], R) /\ \A x \in ToSet(toClp[r]), y \in ToSet(sendQueue[r]) : <<x, y>> \notin R
  BY DEF SyncInv, WriteAntisFirst
<1> HIDE DEF m, R
<1>4. Avoids(Tail(toClp[r]), R) /\ \A y \in ToSet(Tail(toClp[r])) : <<m, y>> \notin R
  BY <1>1, <1>3, AvoidsTail DEF m
<1>5. /\ toClp'[r] = Tail(toClp[r])
      /\ \A s \in Ranks : s # r => toClp'[s] = toClp[s]
  BY <1>1 DEF Take
<1>6. \A s \in Ranks : ToSet(toClp'[s]) \subseteq ToSet(toClp[s])
  BY <1>2, <1>5
<1>7. sendQueue' = sendQueue /\ sendList' = sendList
  OBVIOUS
<1>8. Listed'
  BY <1>7 DEF SyncInv, Listed
<1>9. WriteAntisFirst'
  <2> SUFFICES ASSUME NEW s \in Ranks
               PROVE  /\ Avoids(sendQueue[s], Cancelling(ToClpMessages))
                      /\ Avoids(toClp'[s], Cancelling(ToSet(sendList[s])))
                      /\ \A x \in ToSet(toClp'[s]), y \in ToSet(sendQueue[s]) :
                           <<x, y>> \notin Cancelling(ToSet(sendList[s]))
    BY <1>7 DEF WriteAntisFirst
  <2>1. /\ Avoids(sendQueue[s], Cancelling(ToClpMessages))
        /\ Avoids(toClp[s], Cancelling(ToSet(sendList[s])))
        /\ \A x \in ToSet(toClp[s]), y \in ToSet(sendQueue[s]) :
             <<x, y>> \notin Cancelling(ToSet(sendList[s]))
    BY DEF SyncInv, WriteAntisFirst
  <2>2. Avoids(toClp'[s], Cancelling(ToSet(sendList[s])))
    BY <1>4, <1>5, <2>1 DEF R
  <2> QED
    BY <1>6, <2>1, <2>2
<1>10. ASSUME NEW w \in ToSet(sendList[r]), w = m, w.type = "write"
       PROVE  Stands(w, r)'
  <2> SUFFICES ASSUME NEW x \in ToSet(toClp'[r]) \union ToSet(sendQueue[r]),
                      x.type = "writeAnti", x.id.agent = w.id.agent
               PROVE  x.time # w.time
    BY <1>7 DEF Stands
  <2>1. <<w, x>> \notin R
    BY <1>2, <1>3, <1>4, <1>5, <1>10
  <2>2. x \in ToClpMessages /\ w \in ToClpMessages
    BY <1>1, <1>2, <1>5, <1>10
  <2> QED
    BY <1>10, <2>1, <2>2, CancellingPairs DEF R
<1>11. \A s \in Ranks : \A x \in ToSet(toClp[s]) : x \in ToSet(toClp'[s]) \/ (s = r /\ x = m)
  BY <1>2, <1>5
<1>12. m \in ToSet(toClp[r])
  BY <1>2
<1> QED
  BY <1>6, <1>8, <1>9, <1>10, <1>11, <1>12 DEF m

\* A step of the CLP that leaves in the list the writes that stand, and answers a write
\* that it does not put there with a refusal.
LEMMA ClpTakesKeepsSync ==
  ASSUME IInv, SyncInv, NEW r \in Ranks, toClp[r] # <<>>, Take(r),
         UNCHANGED <<sendQueue, sendList, committed>>, stolen \subseteq stolen',
         \A s \in Ranks : ToSet(toAlp[s]) \subseteq ToSet(toAlp'[s]),
         ASSUME NEW m \in ToSet(sendList[r]), m = Head(toClp[r]), m.type = "write"
         PROVE  \/ \E x \in ToSet(toAlp'[r]) : IsRefusal(x, m)
                \/ Holds(periods', m.id, m.id.agent, m.time),
         ASSUME NEW s \in Ranks, NEW m \in ToSet(sendList[s]),
                m.type = "write", Holds(periods, m.id, m.id.agent, m.time), Stands(m, s)
         PROVE  Holds(periods', m.id, m.id.agent, m.time) \/ m.id \in stolen'
  PROVE  SyncInv'
<1>1. /\ Listed' /\ WriteAntisFirst'
      /\ \A s \in Ranks : ToSet(toClp'[s]) \subseteq ToSet(toClp[s])
      /\ \A s \in Ranks : \A x \in ToSet(toClp[s]) : x \in ToSet(toClp'[s]) \/ (s = r /\ x = Head(toClp[r]))
      /\ \A m \in ToSet(sendList[r]) : m = Head(toClp[r]) /\ m.type = "write" => Stands(m, r)'
  BY ClpTakesKeepsWriteOrder
<1>2. sendQueue' = sendQueue /\ sendList' = sendList /\ committed' = committed
  OBVIOUS
<1>3. InSync'
  <2> SUFFICES ASSUME NEW s \in Ranks, NEW m \in ToSet(sendList[s]),
                      m.type = "write", m.time >= committed
               PROVE  IsInSync(m, s)'
    BY <1>2 DEF InSync
  <2>1. IsInSync(m, s)
    BY DEF SyncInv, InSync
  <2>2. CASE m \in ToSet(toClp[s])
    <3>1. CASE m \in ToSet(toClp'[s])
      BY <3>1 DEF IsInSync
    <3>2. CASE m \notin ToSet(toClp'[s])
      <4>1. s = r /\ m = Head(toClp[r])
        BY <1>1, <2>2, <3>2
      <4>2. Stands(m, r)'
        BY <1>1, <4>1
      <4>3. \/ \E x \in ToSet(toAlp'[r]) : IsRefusal(x, m)
            \/ Holds(periods', m.id, m.id.agent, m.time)
        BY <4>1
      <4> QED
        BY <4>1, <4>2, <4>3 DEF IsInSync
    <3> QED
      BY <3>1, <3>2
  <2>3. CASE \E x \in ToSet(toAlp[s]) : IsRefusal(x, m)
    BY <2>3 DEF IsInSync
  <2>4. CASE Holds(periods, m.id, m.id.agent, m.time) /\ Stands(m, s)
    <3>1. Holds(periods', m.id, m.id.agent, m.time) \/ m.id \in stolen'
      BY <2>4
    <3>2. Stands(m, s)'
      BY <1>1, <1>2, <2>4 DEF Stands
    <3> QED
      BY <3>1, <3>2 DEF IsInSync
  <2>5. CASE m.id \in stolen
    BY <2>5 DEF IsInSync
  <2> QED
    BY <2>1, <2>2, <2>3, <2>4, <2>5 DEF IsInSync
<1> QED
  BY <1>1, <1>3 DEF SyncInv

\* What is appended to one of the queues to the ALPs.
LEMMA AnswerIsAdded ==
  ASSUME IInv, NEW to \in Ranks, NEW answer \in ToAlpMessages
  PROVE  /\ [toAlp EXCEPT ![to] = Append(toAlp[to], answer)] \in [Ranks -> Seq(ToAlpMessages)]
         /\ answer \in ToSet([toAlp EXCEPT ![to] = Append(toAlp[to], answer)][to])
         /\ \A s \in Ranks :
              ToSet(toAlp[s]) \subseteq ToSet([toAlp EXCEPT ![to] = Append(toAlp[to], answer)][s])
<1> DEFINE answered == [toAlp EXCEPT ![to] = Append(toAlp[to], answer)]
<1>1. toAlp \in [Ranks -> Seq(ToAlpMessages)] /\ toAlp[to] \in Seq(ToAlpMessages)
  BY DEF IInv, TypedMessages
<1>2. answered \in [Ranks -> Seq(ToAlpMessages)]
  BY <1>1, AppendTo
<1>3. ToSet(Append(toAlp[to], answer)) = ToSet(toAlp[to]) \union {answer}
  BY <1>1, AppendFacts
<1>4. /\ answered[to] = Append(toAlp[to], answer)
      /\ \A s \in Ranks : s # to => answered[s] = toAlp[s]
  BY <1>1
<1> HIDE DEF answered
<1>5. answer \in ToSet(answered[to]) /\ \A s \in Ranks : ToSet(toAlp[s]) \subseteq ToSet(answered[s])
  BY <1>3, <1>4
<1> QED
  BY <1>2, <1>5 DEF answered

\* Clp::ProcessMessage(SingleReadMessage).
LEMMA ClpReadKeepsSync ==
  ASSUME IInv, SyncInv, NEW r \in Ranks, ClpRead(r)
  PROVE  SyncInv'
<1> DEFINE m == Head(toClp[r])
           to == m.id.agent.rank
           answer == ReadResponse(m, ReadValue(periods, m.time))
<1>1. toClp[r] # <<>> /\ Take(r) /\ m.type = "read"
  BY DEF ClpRead, IsNext
<1>2. /\ m.id \in Ids /\ m.id.agent \in Agents /\ to \in Ranks /\ m.time \in Nat
      /\ m.time \in 0 .. MaxTime
  BY <1>1, ClpTakes
<1>3. /\ \/ periods' = periods /\ toAlp' = toAlp
         \/ /\ Covering(periods, m.time) # 0
            /\ periods' = NoteRead(periods, m.id.agent, m.time)
            /\ toAlp' = [toAlp EXCEPT ![to] = Append(toAlp[to], answer)]
      /\ UNCHANGED <<sendQueue, sendList, committed, stolen>>
  BY DEF ClpRead, alpVars, histVars
<1> HIDE DEF m, to
<1>4. Covering(periods, m.time) # 0 => answer \in ToAlpMessages
  <2>1. Covering(periods, m.time) # 0 => ReadValue(periods, m.time) \in Values
    <3>1. periods \in Seq(PeriodsOf(Values, Agents))
      BY DEF IInv, ListInv
    <3>2. Covering(periods, m.time) \in 0 .. Len(periods) /\ Len(periods) \in Nat
      BY <1>2, <3>1, CoveringIsLast, ListType
    <3>3. Covering(periods, m.time) # 0 =>
            periods[Covering(periods, m.time)] \in PeriodsOf(Values, Agents)
      BY <3>1, <3>2, ListType
    <3> QED
      BY <3>3 DEF ReadValue, PeriodsOf
  <2> QED
    BY <1>2, <2>1 DEF ReadResponse, Responses, ToAlpMessages
<1> HIDE DEF answer
<1>5. \A s \in Ranks : ToSet(toAlp[s]) \subseteq ToSet(toAlp'[s])
  BY <1>2, <1>3, <1>4, AnswerIsAdded
<1>6. ASSUME NEW v, NEW a, NEW t, Holds(periods, v, a, t) PROVE Holds(periods', v, a, t)
  <2>1. ListInv(periods, Values, Agents)
    BY DEF IInv
  <2>2. CASE periods' = periods
    BY <1>6, <2>2
  <2>3. CASE /\ Covering(periods, m.time) # 0
             /\ periods' = NoteRead(periods, m.id.agent, m.time)
    BY <1>2, <1>6, <2>1, <2>3, NoteReadHolds
  <2> QED
    BY <1>3, <2>2, <2>3
<1> QED
  BY <1>1, <1>3, <1>5, <1>6, ClpTakesKeepsSync DEF m

\* Clp::ProcessMessage(SingleReadAntiMessage).
LEMMA ClpReadAntiKeepsSync ==
  ASSUME IInv, SyncInv, NEW r \in Ranks, ClpReadAnti(r)
  PROVE  SyncInv'
<1> DEFINE m == Head(toClp[r])
<1>1. toClp[r] # <<>> /\ Take(r) /\ m.type = "readAnti"
  BY DEF ClpReadAnti, IsNext
<1>2. m.id.agent \in Agents /\ m.time \in Nat
  BY <1>1, ClpTakes
<1>3. /\ \/ periods' = periods
         \/ /\ Covering(periods, m.time) # 0
            /\ periods' = PerformReadRollback(periods, m.id.agent, m.time)
      /\ UNCHANGED <<toAlp, sendQueue, sendList, committed, stolen>>
  BY DEF ClpReadAnti, alpVars, histVars
<1> HIDE DEF m
<1>4. ASSUME NEW v, NEW a, NEW t, Holds(periods, v, a, t) PROVE Holds(periods', v, a, t)
  <2>1. ListInv(periods, Values, Agents)
    BY DEF IInv
  <2>2. CASE periods' = periods
    BY <1>4, <2>2
  <2>3. CASE /\ Covering(periods, m.time) # 0
             /\ periods' = PerformReadRollback(periods, m.id.agent, m.time)
    BY <1>2, <1>4, <2>1, <2>3, PerformReadRollbackHolds
  <2> QED
    BY <1>3, <2>2, <2>3
<1> QED
  BY <1>1, <1>3, <1>4, ClpTakesKeepsSync DEF m

\* Clp::ProcessMessage(WriteMessage): the write is in the list, or its refusal on its way.
LEMMA ClpWriteKeepsSync ==
  ASSUME IInv, ReadInv, SyncInv, NEW r \in Ranks, ClpWrite(r)
  PROVE  SyncInv'
<1> DEFINE m        == Head(toClp[r])
           agent    == m.id.agent
           to       == agent.rank
           refused  == IsRefused(periods, agent, m.time)
           requests == ReadsToRollBack(periods, m.time)
           answer   == WriteResponse(m, ~refused)
           tag      == Tag(m)
           answered == [toAlp EXCEPT ![to] = Append(toAlp[to], answer)]
<1>1. toClp[r] # <<>> /\ Take(r) /\ m.type = "write"
  BY DEF ClpWrite, IsNext
<1>2. /\ m.id \in Ids /\ agent \in Agents /\ agent \in LpId /\ to \in Ranks
      /\ m.time \in 0 .. MaxTime /\ m.time \in Nat /\ m.time < Infinity
  BY <1>1, ClpTakes
<1>3. /\ \/ refused /\ toAlp' = answered /\ UNCHANGED <<periods, lost>>
         \/ /\ ~refused
            /\ periods' = WriteWithRollback(periods, agent, m.id, m.time)
            /\ \E rollbacks \in AddLp(requests) :
                 /\ toAlp' = SendRollbacks(answered, rollbacks, tag)
                 /\ lost' = lost \union Forgotten(requests, rollbacks)
      /\ UNCHANGED <<sendQueue, sendList, committed, stolen>>
  BY DEF ClpWrite, alpVars
<1>4. to = r
  <2>1. m \in ToSet(toClp[r])
    BY <1>1, InQueues, TailFacts
  <2> QED
    BY <2>1 DEF ReadInv, Addressed
<1>5. /\ answer \in ToAlpMessages
      /\ refused => IsRefusal(answer, m)
  <2>1. refused \in BOOLEAN
    BY DEF IsRefused
  <2> HIDE DEF m, refused
  <2>2. answer \in ToAlpMessages
    BY <1>2, <2>1 DEF WriteResponse, Responses, ToAlpMessages
  <2>3. refused => IsRefusal(answer, m)
    BY <2>1 DEF WriteResponse, IsRefusal
  <2> QED
    BY <2>2, <2>3
<1>6. tag \in Tags
  BY <1>2 DEF Tag, Tags
<1>7. ~refused => requests \in SUBSET [agent : Agents, time : Nat]
  <2>1. ~refused => periods = <<>> \/ Covering(periods, m.time) # 0
    BY DEF IsRefused
  <2> HIDE DEF m
  <2> QED
    BY <1>2, <2>1, RequestsType DEF IInv
<1>8. ~refused =>
        /\ Holds(WriteWithRollback(periods, agent, m.id, m.time), m.id, agent, m.time)
        /\ \A v, a, t : Holds(periods, v, a, t)
                          => Holds(WriteWithRollback(periods, agent, m.id, m.time), v, a, t)
  <2> HIDE DEF m, agent
  <2> QED
    BY <1>2, WriteWithRollbackHolds DEF IInv, Values
<1> HIDE DEF answer, tag, requests, refused, to, agent
<1>9. /\ answered \in [Ranks -> Seq(ToAlpMessages)]
      /\ answer \in ToSet(answered[to])
      /\ \A s \in Ranks : ToSet(toAlp[s]) \subseteq ToSet(answered[s])
  BY <1>2, <1>5, AnswerIsAdded
<1> HIDE DEF answered, m
<1>10. CASE refused /\ toAlp' = answered /\ UNCHANGED <<periods, lost>>
  <2>1. \E x \in ToSet(toAlp'[r]) : IsRefusal(x, m)
    BY <1>4, <1>5, <1>9, <1>10
  <2>2. \A s \in Ranks : ToSet(toAlp[s]) \subseteq ToSet(toAlp'[s])
    BY <1>9, <1>10
  <2>3. periods' = periods
    BY <1>10
  <2> QED
    BY <1>1, <1>3, <2>1, <2>2, <2>3, ClpTakesKeepsSync DEF m
<1>11. CASE /\ ~refused
            /\ periods' = WriteWithRollback(periods, agent, m.id, m.time)
            /\ \E rollbacks \in AddLp(requests) :
                 /\ toAlp' = SendRollbacks(answered, rollbacks, tag)
                 /\ lost' = lost \union Forgotten(requests, rollbacks)
  <2>1. PICK rollbacks \in AddLp(requests) : toAlp' = SendRollbacks(answered, rollbacks, tag)
    BY <1>11
  <2>2. requests \in SUBSET [agent : Agents, time : Nat]
    BY <1>7, <1>11
  <2>3. \A s \in Ranks : ToSet(toAlp[s]) \subseteq ToSet(toAlp'[s])
    <3>1. \A s \in Ranks :
            GainsRollbacks(answered[s], SendRollbacks(answered, rollbacks, tag)[s], rollbacks, tag, s)
      BY <1>6, <1>9, <2>2, SendRollbacksAdds
    <3> QED
      BY <1>9, <2>1, <3>1 DEF GainsRollbacks
  <2>4. Holds(periods', m.id, m.id.agent, m.time)
    BY <1>8, <1>11 DEF agent
  <2>5. \A v, a, t : Holds(periods, v, a, t) => Holds(periods', v, a, t)
    BY <1>8, <1>11
  <2> QED
    BY <1>1, <1>3, <2>3, <2>4, <2>5, ClpTakesKeepsSync DEF m
<1> QED
  BY <1>3, <1>10, <1>11

\* Clp::ProcessMessage(WriteAntiMessage): what is taken out is of the agent that asks for
\* it, so it does not stand, or is stolen.
LEMMA ClpWriteAntiKeepsSync ==
  ASSUME IInv, ReadInv, SyncInv, NEW r \in Ranks, ClpWriteAnti(r)
  PROVE  SyncInv'
<1> DEFINE m        == Head(toClp[r])
           requests == ReadsOfUndone(periods, m.time)
           tag      == m.tag
           gone     == periods[StartingAt(periods, m.time)]
<1>1. toClp[r] # <<>> /\ Take(r) /\ m.type = "writeAnti"
  BY DEF ClpWriteAnti, IsNext
<1>2. m \in ToClpMessages /\ m.time \in Nat /\ m.id.agent \in Agents
  BY <1>1, ClpTakes
<1>3. /\ \/ UNCHANGED <<periods, toAlp, lost, stolen>>
         \/ /\ CanUndo(periods, m.id.agent, m.time)
            /\ periods' = PerformWriteRollback(periods, m.time)
            /\ stolen'  = IF gone.agent = m.id.agent THEN stolen ELSE stolen \union {gone.value}
            /\ \E rollbacks \in AddLp(requests) :
                 /\ toAlp' = SendRollbacks(toAlp, rollbacks, tag)
                 /\ lost' = lost \union Forgotten(requests, rollbacks)
      /\ UNCHANGED <<sendQueue, sendList, committed>>
  BY DEF ClpWriteAnti, alpVars
<1>4. m \in ToSet(toClp[r]) /\ m.id.agent.rank = r
  <2>1. m \in ToSet(toClp[r])
    BY <1>1, InQueues, TailFacts
  <2> QED
    BY <2>1 DEF ReadInv, Addressed
<1>5. tag \in Tags
  BY <1>1, <1>2 DEF ToClpMessages, AntiMessages, Requests
<1>6. CanUndo(periods, m.id.agent, m.time) => requests \in SUBSET [agent : Agents, time : Nat]
  <2>1. CanUndo(periods, m.id.agent, m.time) => StartingAt(periods, m.time) # 0
    BY DEF CanUndo
  <2> HIDE DEF m
  <2> QED
    BY <1>2, <2>1, RequestsType DEF IInv
<1> HIDE DEF m, requests, tag, gone
<1>7. CASE UNCHANGED <<periods, toAlp, lost, stolen>>
  BY <1>1, <1>3, <1>7, ClpTakesKeepsSync DEF m
<1>8. CASE /\ CanUndo(periods, m.id.agent, m.time)
           /\ periods' = PerformWriteRollback(periods, m.time)
           /\ stolen'  = IF gone.agent = m.id.agent THEN stolen ELSE stolen \union {gone.value}
           /\ \E rollbacks \in AddLp(requests) :
                /\ toAlp' = SendRollbacks(toAlp, rollbacks, tag)
                /\ lost' = lost \union Forgotten(requests, rollbacks)
  <2>1. PICK rollbacks \in AddLp(requests) : toAlp' = SendRollbacks(toAlp, rollbacks, tag)
    BY <1>8
  <2>2. requests \in SUBSET [agent : Agents, time : Nat]
    BY <1>6, <1>8
  <2>3. \A s \in Ranks : ToSet(toAlp[s]) \subseteq ToSet(toAlp'[s])
    <3>1. toAlp \in [Ranks -> Seq(ToAlpMessages)]
      BY DEF IInv, TypedMessages
    <3>2. \A s \in Ranks :
            GainsRollbacks(toAlp[s], SendRollbacks(toAlp, rollbacks, tag)[s], rollbacks, tag, s)
      BY <1>5, <2>2, <3>1, SendRollbacksAdds
    <3> QED
      BY <2>1, <3>2 DEF GainsRollbacks
  <2>4. ASSUME NEW s \in Ranks, NEW w \in ToSet(sendList[s]), w.type = "write",
               Holds(periods, w.id, w.id.agent, w.time), Stands(w, s)
        PROVE  Holds(periods', w.id, w.id.agent, w.time) \/ w.id \in stolen'
    <3>1. w.id.agent.rank = s
      BY DEF SyncInv, Listed
    <3>2. StartingAt(periods, m.time) # 0
      BY <1>8 DEF CanUndo
    <3>3. \/ Holds(periods', w.id, w.id.agent, w.time)
          \/ w.time = m.time /\ gone.agent = w.id.agent /\ gone.value = w.id
      BY <1>2, <1>8, <2>4, <3>2, PerformWriteRollbackHolds DEF IInv, gone
    <3>4. ASSUME w.time = m.time, m.id.agent = w.id.agent PROVE FALSE
      <4>1. m \in ToSet(toClp[s])
        BY <1>4, <3>1, <3>4
      <4> QED
        BY <1>1, <2>4, <3>4, <4>1 DEF Stands, m
    <3> QED
      BY <1>8, <3>3, <3>4
  <2>5. m.type # "write"
    BY <1>1 DEF m
  <2>6. stolen \subseteq stolen'
    BY <1>8
  <2> QED
    BY <1>1, <1>3, <2>3, <2>4, <2>5, <2>6, ClpTakesKeepsSync DEF m
<1> QED
  BY <1>3, <1>7, <1>8

\* Clp::SetGvt: what is dropped is committed.
LEMMA ClpSetGvtKeepsSync ==
  ASSUME IInv, ReadInv, SyncInv, ClpSetGvt
  PROVE  SyncInv'
<1>1. /\ periods' = RemoveWritePeriods(periods, gvt) /\ committed' = Max({committed, gvt})
      /\ UNCHANGED <<toClp, toAlp, sendQueue, sendList, stolen>>
  BY DEF ClpSetGvt, netVars, alpVars
<1>2. gvt \in Nat /\ gvt < Infinity /\ committed \in Nat
  BY Times, InfinityAssumption DEF IInv, TypedGvt, ReadInv, TypedReads
<1>3. committed' \in Nat /\ committed <= committed' /\ gvt <= committed'
  BY <1>1, <1>2, MaxOfTwo
<1>4. ASSUME NEW r \in Ranks, NEW m \in ToSet(sendList[r]), m.type = "write", m.time >= committed'
      PROVE  IsInSync(m, r)'
  <2>1. m.time \in Nat
    <3>1. sendList[r] \in Seq(Requests)
      BY DEF IInv, TypedMessages
    <3>2. m \in Requests
      BY <3>1, ToSetType
    <3> QED
      BY <3>2 DEF Requests
  <2>2. m.time >= committed /\ m.time >= gvt
    BY <1>2, <1>3, <1>4, <2>1
  <2>3. IsInSync(m, r)
    BY <1>4, <2>2 DEF SyncInv, InSync
  <2>4. Holds(periods, m.id, m.id.agent, m.time) => Holds(periods', m.id, m.id.agent, m.time)
    BY <1>1, <1>2, <2>1, <2>2, RemoveWritePeriodsHolds DEF IInv
  <2>5. Stands(m, r) => Stands(m, r)'
    BY <1>1 DEF Stands
  <2> QED
    BY <1>1, <2>3, <2>4, <2>5 DEF IsInSync
<1>5. InSync'
  BY <1>1, <1>4 DEF InSync
<1>6. Listed' /\ WriteAntisFirst'
  BY <1>1 DEF SyncInv, Listed, WriteAntisFirst
<1> QED
  BY <1>5, <1>6 DEF SyncInv

-----------------------------------------------------------------------------
\* What is on a send list.
LEMMA OnSendList ==
  ASSUME IInv, NEW r \in Ranks
  PROVE  /\ sendList[r] \in Seq(Requests) /\ sendList[r] \in Seq(ToClpMessages)
         /\ ToSet(sendList[r]) \subseteq Requests /\ ToSet(sendList[r]) \subseteq ToClpMessages
         /\ \A m \in ToSet(sendList[r]) : m.time \in Nat
<1>1. sendList[r] \in Seq(Requests) /\ Requests \subseteq ToClpMessages
  BY DEF IInv, TypedMessages, ToClpMessages
<1>2. sendList[r] \in Seq(ToClpMessages)
  BY <1>1, SeqMonotonic
<1>3. ToSet(sendList[r]) \subseteq Requests
  BY <1>1, ToSetType
<1>4. \A m \in Requests : m.time \in Nat
  BY MessageKinds DEF ToClpMessages
<1> QED
  BY <1>1, <1>2, <1>3, <1>4

\* Agent::ReadInt, WriteInt and their like: a request is no anti-message.
LEMMA IssueKeepsSync ==
  ASSUME IInv, IInv', SyncInv, NEW a \in Agents, NEW type \in {"read", "write"}, NEW delay,
         Issue(a, type, delay)
  PROVE  SyncInv'
<1> DEFINE m == Request(type, [agent |-> a, n |-> issued[a] + 1], Lvt(a) + delay)
           r == a.rank
<1>1. /\ sendQueue' = [sendQueue EXCEPT ![r] = Append(sendQueue[r], m)]
      /\ UNCHANGED <<periods, toClp, toAlp, sendList, committed, stolen>>
  BY DEF Issue, clpVars, netVars, histVars
<1>2. r \in Ranks /\ m.type = type
  BY Identities DEF Request
<1> HIDE DEF m, r
<1>3. /\ sendQueue'[r] = Append(sendQueue[r], m)
      /\ \A s \in Ranks : s # r => sendQueue'[s] = sendQueue[s]
  BY <1>1, <1>2 DEF IInv, TypedMessages
<1>4. sendQueue[r] \in Seq(ToClpMessages) /\ sendQueue'[r] \in Seq(ToClpMessages)
  BY <1>2 DEF IInv, TypedMessages
<1>5. m \in ToClpMessages
  <2>1. /\ Len(Append(sendQueue[r], m)) = Len(sendQueue[r]) + 1
        /\ Append(sendQueue[r], m)[Len(sendQueue[r]) + 1] = m
        /\ Len(sendQueue[r]) \in Nat
    BY <1>4, AppendProperties, LenProperties
  <2>2. Len(sendQueue[r]) + 1 \in 1 .. Len(sendQueue'[r])
    BY <1>3, <2>1
  <2> QED
    BY <1>3, <1>4, <2>1, <2>2, ElementOfSeq
<1>6. ToSet(sendQueue'[r]) = ToSet(sendQueue[r]) \union {m}
  BY <1>3, <1>4, <1>5, AppendFacts
<1>7. m.type # "writeAnti"
  BY <1>2
<1>8. \A s \in Ranks : \A y \in ToSet(sendQueue'[s]) : y \in ToSet(sendQueue[s]) \/ y = m
  BY <1>3, <1>6
<1>9. WriteAntisFirst'
  <2>1. \A x, sent : <<x, m>> \notin Cancelling(sent)
    BY <1>7 DEF Cancelling
  <2>2. Avoids(sendQueue'[r], Cancelling(ToClpMessages))
    <3>1. Avoids(sendQueue[r], Cancelling(ToClpMessages))
      BY <1>2 DEF SyncInv, WriteAntisFirst
    <3> QED
      BY <1>3, <1>4, <1>5, <2>1, <3>1, AvoidsAppend
  <2> SUFFICES ASSUME NEW s \in Ranks
               PROVE  /\ Avoids(sendQueue'[s], Cancelling(ToClpMessages))
                      /\ Avoids(toClp[s], Cancelling(ToSet(sendList[s])))
                      /\ \A x \in ToSet(toClp[s]), y \in ToSet(sendQueue'[s]) :
                           <<x, y>> \notin Cancelling(ToSet(sendList[s]))
    BY <1>1 DEF WriteAntisFirst
  <2>3. /\ Avoids(sendQueue[s], Cancelling(ToClpMessages))
        /\ Avoids(toClp[s], Cancelling(ToSet(sendList[s])))
        /\ \A x \in ToSet(toClp[s]), y \in ToSet(sendQueue[s]) :
             <<x, y>> \notin Cancelling(ToSet(sendList[s]))
    BY DEF SyncInv, WriteAntisFirst
  <2> QED
    BY <1>3, <1>8, <2>1, <2>2, <2>3
<1>10. InSync'
  <2> SUFFICES ASSUME NEW s \in Ranks, NEW w \in ToSet(sendList[s]),
                      w.type = "write", w.time >= committed
               PROVE  IsInSync(w, s)'
    BY <1>1 DEF InSync
  <2>1. IsInSync(w, s)
    BY DEF SyncInv, InSync
  <2>2. Stands(w, s) => Stands(w, s)'
    BY <1>1, <1>7, <1>8 DEF Stands
  <2> QED
    BY <1>1, <2>1, <2>2 DEF IsInSync
<1>11. Listed'
  BY <1>1 DEF SyncInv, Listed
<1> QED
  BY <1>9, <1>10, <1>11 DEF SyncInv

\* Alp::Send: the write is on its way, and no anti-message for it is behind it.
LEMMA AlpSendKeepsSync ==
  ASSUME IInv, ReadInv, SyncInv, NEW r \in Ranks, AlpSend(r)
  PROVE  SyncInv'
<1> DEFINE m == Head(sendQueue[r])
<1>1. /\ sendQueue[r] # <<>>
      /\ sendQueue' = [sendQueue EXCEPT ![r] = Tail(sendQueue[r])]
      /\ toClp' = [toClp EXCEPT ![r] = Append(toClp[r], m)]
      /\ IF m.type \in {"read", "write"}
         THEN sendList' = [sendList EXCEPT ![r] = Append(sendList[r], m)]
         ELSE sendList' = sendList
      /\ UNCHANGED <<periods, toAlp, committed, stolen>>
  BY DEF AlpSend, clpVars, histVars
<1>2. /\ sendQueue[r] \in Seq(ToClpMessages) /\ toClp[r] \in Seq(ToClpMessages)
      /\ sendQueue \in [Ranks -> Seq(ToClpMessages)] /\ toClp \in [Ranks -> Seq(ToClpMessages)]
      /\ sendList \in [Ranks -> Seq(Requests)]
  BY DEF IInv, TypedMessages
<1>3. /\ m \in ToClpMessages /\ m \in ToSet(sendQueue[r])
      /\ ToSet(sendQueue[r]) = {m} \union ToSet(Tail(sendQueue[r]))
  BY <1>1, <1>2, TailFacts
<1>4. m.id.agent.rank = r
  BY <1>3 DEF ReadInv, Addressed
<1>5. /\ Avoids(Tail(sendQueue[r]), Cancelling(ToClpMessages))
      /\ \A y \in ToSet(Tail(sendQueue[r])) : <<m, y>> \notin Cancelling(ToClpMessages)
  <2>1. Avoids(sendQueue[r], Cancelling(ToClpMessages))
    BY DEF SyncInv, WriteAntisFirst
  <2> QED
    BY <1>1, <1>2, <2>1, AvoidsTail
<1> HIDE DEF m
<1>6. /\ sendQueue'[r] = Tail(sendQueue[r]) /\ toClp'[r] = Append(toClp[r], m)
      /\ \A s \in Ranks : s # r =>
           sendQueue'[s] = sendQueue[s] /\ toClp'[s] = toClp[s] /\ sendList'[s] = sendList[s]
      /\ sendList'[r] = Append(sendList[r], m) \/ sendList'[r] = sendList[r]
  BY <1>1, <1>2
<1>7. ToSet(toClp'[r]) = ToSet(toClp[r]) \union {m}
  BY <1>2, <1>3, <1>6, AppendFacts
<1>8. ToSet(sendList'[r]) \subseteq ToSet(sendList[r]) \union {m}
  <2>1. sendList[r] \in Seq(ToClpMessages)
    BY OnSendList
  <2>2. ToSet(Append(sendList[r], m)) = ToSet(sendList[r]) \union {m}
    BY <1>3, <2>1, AppendFacts
  <2> QED
    BY <1>6, <2>2
<1>9. Listed'
  <2> SUFFICES ASSUME NEW s \in Ranks, NEW w \in ToSet(sendList'[s]) PROVE w.id.agent.rank = s
    BY DEF Listed
  <2> QED
    BY <1>4, <1>6, <1>8 DEF SyncInv, Listed
<1>10. ToSet(toClp[r]) \subseteq ToClpMessages /\ ToSet(sendQueue[r]) \subseteq ToClpMessages
  BY InQueues
\* It was not sent before, so that what is on its way is taken back as before.
<1>11. IsRequest(m) => \A x \in ToSet(toClp[r]) : IsRequest(x) => x.id # m.id
  BY <1>3 DEF ReadInv, SentOnce
<1>12. ASSUME NEW x \in ToSet(toClp[r]), NEW y \in ToClpMessages,
              <<x, y>> \in Cancelling(ToSet(sendList'[r]))
       PROVE  <<x, y>> \in Cancelling(ToSet(sendList[r]))
  <2>1. /\ x \in ToClpMessages /\ x.type = "write" /\ y.type = "writeAnti"
        /\ x.id.agent = y.id.agent /\ x.time = y.time /\ x \in ToSet(sendList'[r])
    BY <1>10, <1>12, CancellingPairs
  <2>2. x # m
    BY <1>11, <2>1 DEF IsRequest
  <2> QED
    BY <1>8, <2>1, <2>2, CancellingPairs
<1>13. \A x \in ToSet(toClp[r]), y \in ToSet(sendQueue[r]) :
         <<x, y>> \notin Cancelling(ToSet(sendList'[r]))
  BY <1>10, <1>12 DEF SyncInv, WriteAntisFirst
<1>14. Avoids(toClp'[r], Cancelling(ToSet(sendList'[r])))
  <2>1. Avoids(toClp[r], Cancelling(ToSet(sendList[r])))
    BY DEF SyncInv, WriteAntisFirst
  <2>2. Avoids(toClp[r], Cancelling(ToSet(sendList'[r])))
    BY <1>2, <1>10, <1>12, <2>1, AvoidsOn
  <2>3. \A x \in ToSet(toClp[r]) : <<x, m>> \notin Cancelling(ToSet(sendList'[r]))
    BY <1>3, <1>13
  <2> QED
    BY <1>2, <1>3, <1>6, <2>2, <2>3, AvoidsAppend
<1>15. ASSUME NEW x \in ToSet(toClp'[r]), NEW y \in ToSet(sendQueue'[r])
       PROVE  <<x, y>> \notin Cancelling(ToSet(sendList'[r]))
  <2>1. y \in ToSet(sendQueue[r])
    BY <1>3, <1>6
  <2>2. CASE x \in ToSet(toClp[r])
    BY <1>13, <2>1, <2>2
  <2>3. CASE x = m
    <3>1. <<m, y>> \notin Cancelling(ToClpMessages)
      BY <1>5, <1>6
    <3> QED
      BY <1>3, <1>10, <2>1, <2>3, <3>1, CancellingPairs
  <2> QED
    BY <1>7, <2>2, <2>3
<1>16. WriteAntisFirst'
  <2> SUFFICES ASSUME NEW s \in Ranks
               PROVE  /\ Avoids(sendQueue'[s], Cancelling(ToClpMessages))
                      /\ Avoids(toClp'[s], Cancelling(ToSet(sendList'[s])))
                      /\ \A x \in ToSet(toClp'[s]), y \in ToSet(sendQueue'[s]) :
                           <<x, y>> \notin Cancelling(ToSet(sendList'[s]))
    BY DEF WriteAntisFirst
  <2>1. CASE s = r
    BY <1>5, <1>6, <1>14, <1>15, <2>1
  <2>2. CASE s # r
    BY <1>6, <2>2 DEF SyncInv, WriteAntisFirst
  <2> QED
    BY <2>1, <2>2
<1>17. InSync'
  <2> SUFFICES ASSUME NEW s \in Ranks, NEW w \in ToSet(sendList'[s]),
                      w.type = "write", w.time >= committed
               PROVE  IsInSync(w, s)'
    BY <1>1 DEF InSync
  <2>1. CASE s = r /\ w = m
    BY <1>7, <2>1 DEF IsInSync
  <2>2. CASE s # r \/ w # m
    <3>1. w \in ToSet(sendList[s])
      BY <1>6, <1>8, <2>2
    <3>2. IsInSync(w, s)
      BY <3>1 DEF SyncInv, InSync
    <3>3. ToSet(toClp[s]) \subseteq ToSet(toClp'[s])
      BY <1>6, <1>7
    <3>4. ToSet(toClp'[s]) \union ToSet(sendQueue'[s]) \subseteq ToSet(toClp[s]) \union ToSet(sendQueue[s])
      BY <1>3, <1>6, <1>7
    <3>5. Stands(w, s) => Stands(w, s)'
      BY <3>4 DEF Stands
    <3> QED
      BY <1>1, <3>2, <3>3, <3>5 DEF IsInSync
  <2> QED
    BY <2>1, <2>2
<1> QED
  BY <1>9, <1>16, <1>17 DEF SyncInv

\* The fewer writes an ALP may still undo, the fewer anti-messages matter.
LEMMA FewerKeepWriteOrder ==
  ASSUME IInv, SyncInv, UNCHANGED <<toClp, sendQueue>>,
         \A r \in Ranks : ToSet(sendList'[r]) \subseteq ToSet(sendList[r])
  PROVE  Listed' /\ WriteAntisFirst'
<1>1. Listed'
  BY DEF SyncInv, Listed
<1>2. \A r \in Ranks : \A x, y : <<x, y>> \in Cancelling(ToSet(sendList'[r]))
                                   => <<x, y>> \in Cancelling(ToSet(sendList[r]))
  BY DEF Cancelling
<1>3. ASSUME NEW r \in Ranks
      PROVE  /\ Avoids(sendQueue[r], Cancelling(ToClpMessages))
             /\ Avoids(toClp[r], Cancelling(ToSet(sendList'[r])))
             /\ \A x \in ToSet(toClp[r]), y \in ToSet(sendQueue[r]) :
                  <<x, y>> \notin Cancelling(ToSet(sendList'[r]))
  <2>1. /\ Avoids(sendQueue[r], Cancelling(ToClpMessages))
        /\ Avoids(toClp[r], Cancelling(ToSet(sendList[r])))
        /\ \A x \in ToSet(toClp[r]), y \in ToSet(sendQueue[r]) :
             <<x, y>> \notin Cancelling(ToSet(sendList[r]))
    BY DEF SyncInv, WriteAntisFirst
  <2>2. toClp[r] \in Seq(ToClpMessages)
    BY InQueues
  <2>3. Avoids(toClp[r], Cancelling(ToSet(sendList'[r])))
    BY <1>2, <2>1, <2>2, AvoidsOn
  <2> QED
    BY <1>2, <2>1, <2>3
<1>4. WriteAntisFirst'
  BY <1>3 DEF WriteAntisFirst
<1> QED
  BY <1>1, <1>4

\* Alp::ProcessMessage of a response: a write whose refusal was taken is off the list.
LEMMA AlpResponseKeepsSync ==
  ASSUME IInv, SyncInv, NEW r \in Ranks, AlpResponse(r)
  PROVE  SyncInv'
<1> DEFINE m == Head(toAlp[r])
<1>1. /\ toAlp[r] # <<>>
      /\ toAlp' = [toAlp EXCEPT ![r] = Tail(toAlp[r])]
      /\ sendList' = IF m.type = "writeResponse" /\ ~m.ok
                     THEN [sendList EXCEPT ![r] = RemoveFromSendList(sendList[r], m)]
                     ELSE sendList
      /\ UNCHANGED <<periods, toClp, sendQueue, committed, stolen>>
  BY DEF AlpResponse, clpVars, histVars
<1>2. /\ ToSet(toAlp[r]) = {m} \union ToSet(toAlp'[r])
      /\ \A s \in Ranks : s # r => toAlp'[s] = toAlp[s]
  BY <1>1, AlpTakesOne
<1>3. /\ sendList[r] \in Seq(Requests) /\ sendList \in [Ranks -> Seq(Requests)]
  BY DEF IInv, TypedMessages
<1>4. ToSet(RemoveFromSendList(sendList[r], m)) = {s \in ToSet(sendList[r]) : s.id # m.id}
  <2> DEFINE gone == {s \in ToSet(sendList[r]) : s.id = m.id}
  <2>1. ToSet(sendList[r]) \ gone = {s \in ToSet(sendList[r]) : s.id # m.id}
    OBVIOUS
  <2>2. RemoveFromSendList(sendList[r], m) = Remaining(sendList[r], gone)
    BY DEF RemoveFromSendList
  <2> HIDE DEF gone, m
  <2>3. ToSet(Remaining(sendList[r], gone)) = ToSet(sendList[r]) \ gone
    BY <1>3, RemainingFacts
  <2> QED
    BY <2>1, <2>2, <2>3
<1> HIDE DEF m
<1>5. /\ \A s \in Ranks : ToSet(sendList'[s]) \subseteq ToSet(sendList[s])
      /\ m.type = "writeResponse" /\ ~m.ok => \A w \in ToSet(sendList'[r]) : w.id # m.id
  BY <1>1, <1>3, <1>4
<1>6. InSync'
  <2> SUFFICES ASSUME NEW s \in Ranks, NEW w \in ToSet(sendList'[s]),
                      w.type = "write", w.time >= committed
               PROVE  IsInSync(w, s)'
    BY <1>1 DEF InSync
  <2>1. IsInSync(w, s)
    BY <1>5 DEF SyncInv, InSync
  <2>2. (\E x \in ToSet(toAlp[s]) : IsRefusal(x, w)) => \E x \in ToSet(toAlp'[s]) : IsRefusal(x, w)
    <3> SUFFICES ASSUME NEW x \in ToSet(toAlp[s]), IsRefusal(x, w) PROVE x \in ToSet(toAlp'[s])
      OBVIOUS
    <3>1. CASE s # r
      BY <1>2, <3>1
    <3>2. CASE s = r
      <4>1. x # m
        BY <1>5, <3>2 DEF IsRefusal
      <4> QED
        BY <1>2, <3>2, <4>1
    <3> QED
      BY <3>1, <3>2
  <2>3. Stands(w, s) => Stands(w, s)'
    BY <1>1 DEF Stands
  <2> QED
    BY <1>1, <2>1, <2>2, <2>3 DEF IsInSync
<1> QED
  BY <1>1, <1>5, <1>6, FewerKeepWriteOrder DEF SyncInv

\* Alp::ProcessRollback when it returns early.
LEMMA AlpIgnoreRollbackKeepsSync ==
  ASSUME IInv, SyncInv, NEW r \in Ranks, AlpIgnoreRollback(r)
  PROVE  SyncInv'
<1> DEFINE m == Head(toAlp[r])
<1>1. /\ toAlp[r] # <<>> /\ m.type = "rollback"
      /\ toAlp' = [toAlp EXCEPT ![r] = Tail(toAlp[r])]
      /\ UNCHANGED <<periods, toClp, sendQueue, sendList, committed, stolen>>
  BY DEF AlpIgnoreRollback, IsNext, clpVars
<1>2. /\ ToSet(toAlp[r]) = {m} \union ToSet(toAlp'[r])
      /\ \A s \in Ranks : s # r => toAlp'[s] = toAlp[s]
  BY <1>1, AlpTakesOne
<1> HIDE DEF m
<1>3. InSync'
  <2> SUFFICES ASSUME NEW s \in Ranks, NEW w \in ToSet(sendList[s]),
                      w.type = "write", w.time >= committed
               PROVE  IsInSync(w, s)'
    BY <1>1 DEF InSync
  <2>1. IsInSync(w, s)
    BY DEF SyncInv, InSync
  <2>2. \A x \in ToSet(toAlp[s]) : IsRefusal(x, w) => x \in ToSet(toAlp'[s])
    BY <1>1, <1>2 DEF IsRefusal
  <2>3. Stands(w, s) => Stands(w, s)'
    BY <1>1 DEF Stands
  <2> QED
    BY <1>1, <2>1, <2>2, <2>3 DEF IsInSync
<1>4. \A s \in Ranks : ToSet(sendList'[s]) \subseteq ToSet(sendList[s])
  BY <1>1
<1> QED
  BY <1>1, <1>3, <1>4, FewerKeepWriteOrder DEF SyncInv

\* Alp::ProcessRollback: the anti-messages are for writes after the time of the rollback,
\* and those that stay are not after it.
LEMMA AlpRollbackKeepsSync ==
  ASSUME IInv, ReadInv, SyncInv, NEW r \in Ranks, AlpRollback(r)
  PROVE  SyncInv'
<1> DEFINE m       == Head(toAlp[r])
           a       == m.agent
           time    == m.time
           gone    == {s \in ToSet(sendList[r]) : IsRolledBack(s, a, time)}
<1>1. /\ toAlp[r] # <<>> /\ m.type = "rollback"
      /\ toAlp' = [toAlp EXCEPT ![r] = Tail(toAlp[r])]
      /\ sendList' = [sendList EXCEPT ![r] = Remaining(sendList[r], gone)]
      /\ UNCHANGED <<periods, toClp, committed, stolen>>
  BY DEF AlpRollback, IsNext, clpVars
<1>2. /\ m \in ToAlpMessages
      /\ ToSet(toAlp[r]) = {m} \union ToSet(toAlp'[r])
      /\ \A s \in Ranks : s # r => toAlp'[s] = toAlp[s]
  BY <1>1, AlpTakesOne
<1>3. a \in Agents /\ time \in Nat
  BY <1>1, <1>2, MessageKinds
<1>4. /\ RolledBackQueue(sendQueue[r], sendQueue'[r], a, time)
      /\ \A s \in Ranks : s # r => sendQueue'[s] = sendQueue[s]
  BY AlpRollbackQueue
<1>5. /\ \A s \in Ranks : ToSet(sendList'[s]) \subseteq ToSet(sendList[s])
      /\ \A w \in ToSet(sendList'[r]) : ~IsRolledBack(w, a, time)
  <2>1. \A w \in ToSet(sendList[r]) \ gone : ~IsRolledBack(w, a, time)
    OBVIOUS
  <2> HIDE DEF gone, a, time, m
  <2>2. sendList[r] \in Seq(Requests) /\ sendList \in [Ranks -> Seq(Requests)]
    BY DEF IInv, TypedMessages
  <2>3. ToSet(Remaining(sendList[r], gone)) = ToSet(sendList[r]) \ gone
    BY <2>2, RemainingFacts
  <2>4. /\ sendList'[r] = Remaining(sendList[r], gone)
        /\ \A s \in Ranks : s # r => sendList'[s] = sendList[s]
    BY <1>1, <2>2
  <2> QED
    BY <2>1, <2>3, <2>4
<1> HIDE DEF m, a, time, gone
<1>6. PICK kept \in Seq(ToClpMessages), antis \in Seq(ToClpMessages) :
        /\ sendQueue'[r] = kept \o antis
        /\ \E drop : kept = Remaining(sendQueue[r], drop)
        /\ \A y \in ToSet(kept) : y \in ToSet(sendQueue[r]) /\ ~IsRolledBack(y, a, time)
        /\ \A y \in ToSet(antis) :
             /\ y.type \in {"readAnti", "writeAnti"} /\ y.id.agent = a
             /\ y.time >= time /\ (y.type = "writeAnti" => y.time > time)
  BY <1>4 DEF RolledBackQueue
<1>7. ToSet(sendQueue'[r]) = ToSet(kept) \union ToSet(antis)
  BY <1>6, ConcatFacts
\* No new anti-message is for a write that stays.
<1>8. ASSUME NEW w \in ToClpMessages, w.type = "write", ~IsRolledBack(w, a, time),
             NEW y \in ToSet(antis), y.type = "writeAnti", y.id.agent = w.id.agent
      PROVE  y.time # w.time
  <2>1. w.time \in Nat /\ ~(w.time > time)
    BY <1>6, <1>8, MessageKinds DEF IsRolledBack
  <2>2. y.time > time
    BY <1>6, <1>8
  <2> QED
    BY <2>1, <2>2
<1>9. ToSet(antis) \subseteq ToClpMessages /\ ToSet(kept) \subseteq ToClpMessages
  BY <1>6, ToSetType
<1>10. Avoids(sendQueue'[r], Cancelling(ToClpMessages))
  <2> DEFINE R == Cancelling(ToClpMessages)
  <2>1. Avoids(kept, R)
    <3>1. sendQueue[r] \in Seq(ToClpMessages) /\ Avoids(sendQueue[r], R)
      BY InQueues DEF SyncInv, WriteAntisFirst
    <3> HIDE DEF R
    <3> QED
      BY <1>6, <3>1, AvoidsRemaining
  <2>2. Avoids(antis, R)
    <3>1. Len(antis) \in Nat /\ \A k \in 1 .. Len(antis) : antis[k] \in ToSet(antis)
      BY <1>6, LenProperties DEF ToSet
    <3>2. \A x \in ToSet(antis), y \in ToSet(antis) : <<x, y>> \notin R
      BY <1>6 DEF Cancelling
    <3> HIDE DEF R
    <3> QED
      BY <3>1, <3>2 DEF Avoids
  <2>3. \A x \in ToSet(kept), y \in ToSet(antis) : <<x, y>> \notin R
    BY <1>6, <1>8, <1>9, CancellingPairs
  <2> HIDE DEF R
  <2> QED
    BY <1>6, <2>1, <2>2, <2>3, AvoidsConcat DEF R
<1>11. \A s \in Ranks : \A x, y : <<x, y>> \in Cancelling(ToSet(sendList'[s]))
                                    => <<x, y>> \in Cancelling(ToSet(sendList[s]))
  BY <1>5 DEF Cancelling
<1>12. \A w \in ToSet(sendList'[r]) : w \in ToClpMessages
  BY <1>5, OnSendList
<1>13. ASSUME NEW s \in Ranks, NEW x \in ToSet(toClp[s]), NEW y \in ToSet(sendQueue'[s])
       PROVE  <<x, y>> \notin Cancelling(ToSet(sendList'[s]))
  <2>1. CASE y \in ToSet(sendQueue[s])
    BY <1>11, <2>1 DEF SyncInv, WriteAntisFirst
  <2>2. CASE y \notin ToSet(sendQueue[s])
    <3>1. s = r /\ y \in ToSet(antis)
      BY <1>4, <1>6, <1>7, <2>2
    <3>2. x \in ToClpMessages /\ y \in ToClpMessages
      BY <1>9, <3>1, InQueues
    <3> QED
      BY <1>5, <1>8, <3>1, <3>2, CancellingPairs
  <2> QED
    BY <2>1, <2>2
<1>14. WriteAntisFirst'
  <2> SUFFICES ASSUME NEW s \in Ranks
               PROVE  /\ Avoids(sendQueue'[s], Cancelling(ToClpMessages))
                      /\ Avoids(toClp[s], Cancelling(ToSet(sendList'[s])))
                      /\ \A x \in ToSet(toClp[s]), y \in ToSet(sendQueue'[s]) :
                           <<x, y>> \notin Cancelling(ToSet(sendList'[s]))
    BY <1>1 DEF WriteAntisFirst
  <2>1. Avoids(sendQueue[s], Cancelling(ToClpMessages)) /\ Avoids(toClp[s], Cancelling(ToSet(sendList[s])))
    BY DEF SyncInv, WriteAntisFirst
  <2>2. toClp[s] \in Seq(ToClpMessages)
    BY InQueues
  <2>3. Avoids(toClp[s], Cancelling(ToSet(sendList'[s])))
    BY <1>11, <2>1, <2>2, AvoidsOn
  <2>4. Avoids(sendQueue'[s], Cancelling(ToClpMessages))
    BY <1>4, <1>10, <2>1
  <2> QED
    BY <1>13, <2>3, <2>4
<1>15. InSync'
  <2> SUFFICES ASSUME NEW s \in Ranks, NEW w \in ToSet(sendList'[s]),
                      w.type = "write", w.time >= committed
               PROVE  IsInSync(w, s)'
    BY <1>1 DEF InSync
  <2>1. IsInSync(w, s)
    BY <1>5 DEF SyncInv, InSync
  <2>2. \A x \in ToSet(toAlp[s]) : IsRefusal(x, w) => x \in ToSet(toAlp'[s])
    BY <1>1, <1>2 DEF IsRefusal, m
  <2>3. Stands(w, s) => Stands(w, s)'
    <3> SUFFICES ASSUME Stands(w, s),
                        NEW x \in ToSet(toClp[s]) \union ToSet(sendQueue'[s]),
                        x.type = "writeAnti", x.id.agent = w.id.agent
                 PROVE  x.time # w.time
      BY <1>1 DEF Stands
    <3>1. CASE x \in ToSet(toClp[s]) \union ToSet(sendQueue[s])
      BY <3>1 DEF Stands
    <3>2. CASE x \notin ToSet(toClp[s]) \union ToSet(sendQueue[s])
      <4>1. s = r /\ x \in ToSet(antis)
        BY <1>4, <1>6, <1>7, <3>2
      <4> QED
        BY <1>5, <1>8, <1>12, <4>1
    <3> QED
      BY <3>1, <3>2
  <2> QED
    BY <1>1, <2>1, <2>2, <2>3 DEF IsInSync
<1>16. Listed'
  BY <1>5 DEF SyncInv, Listed
<1> QED
  BY <1>14, <1>15, <1>16 DEF SyncInv

\* Alp::SetGvt.
LEMMA AlpSetGvtKeepsSync ==
  ASSUME IInv, SyncInv, NEW r \in Ranks, AlpSetGvt(r)
  PROVE  SyncInv'
<1> DEFINE gone == {s \in ToSet(sendList[r]) : s.time < gvt}
<1>1. /\ sendList' = [sendList EXCEPT ![r] = Remaining(sendList[r], gone)]
      /\ UNCHANGED <<periods, toClp, toAlp, sendQueue, committed, stolen>>
  BY DEF AlpSetGvt, clpVars, netVars, histVars
<1> HIDE DEF gone
<1>2. \A s \in Ranks : ToSet(sendList'[s]) \subseteq ToSet(sendList[s])
  <2>1. sendList[r] \in Seq(Requests) /\ sendList \in [Ranks -> Seq(Requests)]
    BY DEF IInv, TypedMessages
  <2>2. ToSet(Remaining(sendList[r], gone)) = ToSet(sendList[r]) \ gone
    BY <2>1, RemainingFacts
  <2> QED
    BY <1>1, <2>1, <2>2
<1>3. \A s \in Ranks : \A w : IsInSync(w, s) => IsInSync(w, s)'
  BY <1>1 DEF IsInSync, Stands
<1>4. InSync'
  BY <1>1, <1>2, <1>3 DEF SyncInv, InSync
<1> QED
  BY <1>1, <1>2, <1>4, FewerKeepWriteOrder DEF SyncInv

\* Steps that touch neither the writes nor what is on its way.
LEMMA UnrelatedKeepsSync ==
  ASSUME SyncInv, UNCHANGED <<periods, toClp, toAlp, sendQueue, sendList, committed, stolen>>
  PROVE  SyncInv'
<1>1. Listed' /\ WriteAntisFirst'
  BY DEF SyncInv, Listed, WriteAntisFirst
<1>2. \A r \in Ranks : \A w : IsInSync(w, r) => IsInSync(w, r)'
  BY DEF IsInSync, Stands
<1>3. InSync'
  BY <1>2 DEF SyncInv, InSync
<1> QED
  BY <1>1, <1>3 DEF SyncInv

\* So no step of any thread takes a write out of step with the send lists.
LEMMA NextKeepsSync ==
  ASSUME IInv, ReadInv, SyncInv, [Next]_vars
  PROVE  SyncInv'
<1>1. IInv'
  BY NextKeeps
<1>2. CASE \E a \in Agents : Agent(a)
  <2>1. PICK a \in Agents : Agent(a)
    BY <1>2
  <2>2. CASE Issue(a, "read", 1)
    BY <1>1, <2>2, IssueKeepsSync
  <2>3. CASE \E delay \in WriteDelays : Issue(a, "write", delay)
    BY <1>1, <2>3, IssueKeepsSync
  <2>4. CASE \E step \in WrapSteps : TimeWrap(a, step)
    BY <2>4, UnrelatedKeepsSync DEF TimeWrap, clpVars, netVars, alpVars, histVars
  <2>5. CASE Consume(a)
    BY <2>5, UnrelatedKeepsSync DEF Consume, clpVars, netVars, alpVars
  <2> QED
    BY <2>1, <2>2, <2>3, <2>4, <2>5 DEF Agent
<1>3. CASE \E r \in Ranks : AlpSend(r) \/ AlpMain(r) \/ ClpMain(r)
  <2>1. PICK r \in Ranks : AlpSend(r) \/ AlpMain(r) \/ ClpMain(r)
    BY <1>3
  <2>2. CASE AlpSend(r)
    BY <2>2, AlpSendKeepsSync
  <2>3. CASE AlpMain(r)
    BY <2>3, AlpResponseKeepsSync, AlpIgnoreRollbackKeepsSync, AlpRollbackKeepsSync,
       AlpSetGvtKeepsSync DEF AlpMain
  <2>4. CASE ClpMain(r)
    BY <2>4, ClpReadKeepsSync, ClpReadAntiKeepsSync, ClpWriteKeepsSync, ClpWriteAntiKeepsSync
    DEF ClpMain
  <2> QED
    BY <2>1, <2>2, <2>3, <2>4
<1>4. CASE ClpSetGvt
  BY <1>4, ClpSetGvtKeepsSync
<1>5. CASE ComputeGvt
  BY <1>5, UnrelatedKeepsSync DEF ComputeGvt, clpVars, netVars, alpVars, histVars
<1>6. CASE UNCHANGED vars
  BY <1>6, UnrelatedKeepsSync DEF vars, clpVars, netVars, alpVars, histVars
<1> QED
  BY <1>2, <1>3, <1>4, <1>5, <1>6 DEF Next

\* In the beginning nothing was sent.
LEMMA InitSyncInv == Init => SyncInv
<1> SUFFICES ASSUME Init PROVE SyncInv
  OBVIOUS
<1>1. \A r \in Ranks : toClp[r] = <<>> /\ sendQueue[r] = <<>> /\ sendList[r] = <<>>
  BY DEF Init
<1>2. ToSet(<<>>) = {} /\ \A R : Avoids(<<>>, R)
  BY DEF ToSet, Avoids
<1> QED
  BY <1>1, <1>2 DEF SyncInv, Listed, WriteAntisFirst, InSync

\* A write that its ALP may still have to undo is on its way, refused, in the CLP's list
\* with no anti-message for it on its way, or was undone by another agent's
\* anti-message; and an anti-message is before the repetition of the write it takes back.
THEOREM SyncInvariance == Spec => [](IInv /\ ReadInv /\ SyncInv)
<1>1. Init => IInv /\ ReadInv /\ SyncInv
  BY InitIInv, InitReadInv, InitSyncInv
<1>2. IInv /\ ReadInv /\ SyncInv /\ [Next]_vars => (IInv /\ ReadInv /\ SyncInv)'
  <2> SUFFICES ASSUME IInv, ReadInv, SyncInv, [Next]_vars PROVE IInv' /\ ReadInv' /\ SyncInv'
    OBVIOUS
  <2> QED
    BY NextKeeps, NextKeepsReads, NextKeepsSync
<1> QED
  BY <1>1, <1>2, PTL DEF Spec

\* Whenever no message is on its way, every uncommitted write on a send list is in the CLP's
\* list, whatever was rolled back, repeated, refused, undone or truncated before, unless
\* another agent's anti-message undid it (HasSendList, StateVariable::PerformWriteRollback,
\* Alp::ProcessRollback).
THEOREM WritesStayInSync == Spec => []WritesInSync
<1>1. IInv /\ SyncInv => WritesInSync
  <2> SUFFICES ASSUME IInv, SyncInv, Quiet, NEW r \in Ranks, NEW m \in ToSet(sendList[r]),
                      m.type = "write", m.time >= committed, m.id \notin stolen
               PROVE  \E p \in ToSet(periods) : p.value = m.id
    BY DEF WritesInSync
  <2>1. ToSet(toClp[r]) = {} /\ ToSet(toAlp[r]) = {}
    BY DEF Quiet, ToSet
  <2>2. IsInSync(m, r)
    BY DEF SyncInv, InSync
  <2>3. Holds(periods, m.id, m.id.agent, m.time)
    BY <2>1, <2>2 DEF IsInSync
  <2> QED
    BY <2>3 DEF Holds, ToSet
<1> QED
  BY <1>1, SyncInvariance, PTL

-----------------------------------------------------------------------------
(* State migration (SharedState).  The CLP that has the variable undoes    *)
(* one period after the other, from the first; the CLP that gets it writes *)
(* them anew in the same order.  How far each has come is stated for every *)
(* n, and a loop that gets from n - 1 to n gets to the end of the list.    *)

\* A period with no reads noted.
Bare(p, end) ==
  [start |-> p.start, end |-> end, value |-> p.value, agent |-> p.agent, reads |-> {}]

\* The copy after n periods; the last of them has no end yet.
EndInCopy(list, n, k) == IF k = n THEN Infinity ELSE list[k].end

Copied(list, n) == [k \in 1 .. n |-> Bare(list[k], EndInCopy(list, n, k))]

\* The writes of a list are in the order in which WriteWithRollback lets them follow.
WritersInOrder(list) ==
  \A j, k \in 1 .. Len(list) : j < k =>
    /\ list[k].agent \in Agents
    /\ list[j].start = list[k].start => ~IsGreater(list[j].agent, list[k].agent)

\* What a bare period is like.
LEMMA BareFacts ==
  ASSUME NEW values, NEW readers, NEW p \in PeriodsOf(values, readers), NEW end \in Nat
  PROVE  /\ Bare(p, end) \in PeriodsOf(values, readers)
         /\ Bare(p, end).start = p.start /\ Bare(p, end).end = end
         /\ Bare(p, end).value = p.value /\ Bare(p, end).agent = p.agent
         /\ Bare(p, end).reads = {}
<1>1. /\ p.start \in Nat /\ p.end \in Nat /\ p.value \in values /\ p.agent \in LpId
  BY DEF PeriodsOf
<1>2. Bare(p, end) \in PeriodsOf(values, readers)
  BY <1>1 DEF Bare, PeriodsOf
<1> QED
  BY <1>2 DEF Bare

\* A new period is bare.
LEMMA BareIsNew ==
  ASSUME NEW p
  PROVE  Bare(p, Infinity) = Period(p.value, p.start, p.agent)
BY DEF Bare, Period

\* A period that ends and loses its reads.
Closed(x, end) == [x EXCEPT !.end = end, !.reads = {}]

\* A bare period that gets another end is bare.
LEMMA BareClosed ==
  ASSUME NEW p, NEW other, NEW end, NEW x, x = Bare(p, other)
  PROVE  Closed(x, end) = Bare(p, end)
<1>1. PICK start, value, agent : start = p.start /\ value = p.value /\ agent = p.agent
  OBVIOUS
<1>2. PICK y : y = [x EXCEPT !.end = end]
  OBVIOUS
<1>3. x = [start |-> start, end |-> other, value |-> value, agent |-> agent, reads |-> {}]
  BY <1>1 DEF Bare
<1>4. y = [start |-> start, end |-> end, value |-> value, agent |-> agent, reads |-> {}]
  BY <1>2, <1>3
<1>5. [y EXCEPT !.reads = {}] = [start |-> start, end |-> end, value |-> value, agent |-> agent, reads |-> {}]
  BY <1>4
<1>6. Closed(x, end) = [y EXCEPT !.reads = {}]
  BY <1>2 DEF Closed
<1> QED
  BY <1>1, <1>5, <1>6 DEF Bare

\* A period without its reads is bare.
LEMMA BareOf ==
  ASSUME NEW values, NEW readers, NEW p \in PeriodsOf(values, readers)
  PROVE  [p EXCEPT !.reads = {}] = Bare(p, p.end)
BY SMTT(30) DEF PeriodsOf, Bare

\* A copy is a list of periods.
LEMMA CopiedFacts ==
  ASSUME NEW values, NEW readers, NEW list \in Seq(PeriodsOf(values, readers)),
         NEW n \in Nat, n <= Len(list)
  PROVE  /\ Copied(list, n) \in Seq(PeriodsOf(values, readers)) /\ Len(Copied(list, n)) = n
         /\ \A k \in 1 .. n :
              /\ Copied(list, n)[k] = Bare(list[k], EndInCopy(list, n, k))
              /\ Copied(list, n)[k].start = list[k].start
              /\ Copied(list, n)[k].agent = list[k].agent
<1>1. \A k \in 1 .. n : list[k] \in PeriodsOf(values, readers) /\ list[k].end \in Nat
  BY ListType
<1>2. ASSUME NEW k \in 1 .. n, NEW end, end = EndInCopy(list, n, k)
      PROVE  /\ Bare(list[k], end) \in PeriodsOf(values, readers)
             /\ Bare(list[k], end).start = list[k].start /\ Bare(list[k], end).agent = list[k].agent
  <2>1. end \in Nat
    BY <1>1, <1>2, InfinityAssumption DEF EndInCopy
  <2>2. PICK p \in PeriodsOf(values, readers) : p = list[k]
    BY <1>1
  <2>3. /\ Bare(p, end) \in PeriodsOf(values, readers)
        /\ Bare(p, end).start = p.start /\ Bare(p, end).agent = p.agent
    BY <2>1, BareFacts
  <2> QED
    BY <2>2, <2>3
<1>3. Copied(list, n) \in [1 .. n -> PeriodsOf(values, readers)]
  BY <1>2 DEF Copied
<1>4. Copied(list, n) \in Seq(PeriodsOf(values, readers)) /\ Len(Copied(list, n)) = n
  BY <1>3
<1>5. \A k \in 1 .. n : Copied(list, n)[k] = Bare(list[k], EndInCopy(list, n, k))
  BY DEF Copied
<1> QED
  BY <1>2, <1>4, <1>5

\* SharedState::Insert, one period: it is not refused and comes last.
LEMMA InsertPeriodCopies ==
  ASSUME NEW values, NEW readers, NEW list, ListInv(list, values, readers),
         WritersInOrder(list), NEW l \in Nat, l + 1 <= Len(list)
  PROVE  InsertPeriod(Copied(list, l), list[l + 1]) = Copied(list, l + 1)
<1> DEFINE P == PeriodsOf(values, readers)
<1>1. /\ list \in Seq(P) /\ Len(list) \in Nat
      /\ \A k \in 1 .. Len(list) :
           /\ list[k] \in P /\ list[k].start \in Nat /\ list[k].end \in Nat
  BY ListType DEF ListInv
<1>2. PICK n \in Nat : n = l + 1
  OBVIOUS
<1>3. n \in 1 .. Len(list) /\ l <= Len(list)
  BY <1>1, <1>2
<1>4. PICK u \in Seq(P), v \in Seq(P), p \in P, q \in P :
        u = Copied(list, l) /\ v = Copied(list, n) /\ p = list[n]
        /\ q = Period(p.value, p.start, p.agent)
  <2>1. Copied(list, l) \in Seq(P) /\ Copied(list, n) \in Seq(P) /\ list[n] \in P
    BY <1>1, <1>2, <1>3, CopiedFacts
  <2>2. Period(list[n].value, list[n].start, list[n].agent) \in P
    BY <2>1, BareFacts, BareIsNew, InfinityAssumption
  <2> QED
    BY <2>1, <2>2
<1>5. /\ Len(u) = l
      /\ \A k \in 1 .. l :
           /\ u[k] = Bare(list[k], EndInCopy(list, l, k))
           /\ u[k].start = list[k].start /\ u[k].agent = list[k].agent
  <2>1. /\ Copied(list, l) \in Seq(P) /\ Len(Copied(list, l)) = l
        /\ \A k \in 1 .. l :
             /\ Copied(list, l)[k] = Bare(list[k], EndInCopy(list, l, k))
             /\ Copied(list, l)[k].start = list[k].start
             /\ Copied(list, l)[k].agent = list[k].agent
    <3>1. l <= Len(list)
      BY <1>3
    <3> QED
      BY <1>1, <3>1, CopiedFacts
  <2>2. u = Copied(list, l)
    BY <1>4
  <2> HIDE DEF P
  <2> QED
    BY <2>1, <2>2
<1>6. /\ Len(v) = n
      /\ \A k \in 1 .. n : v[k] = Bare(list[k], EndInCopy(list, n, k))
  <2>1. /\ Copied(list, n) \in Seq(P) /\ Len(Copied(list, n)) = n
        /\ \A k \in 1 .. n :
             /\ Copied(list, n)[k] = Bare(list[k], EndInCopy(list, n, k))
             /\ Copied(list, n)[k].start = list[k].start
             /\ Copied(list, n)[k].agent = list[k].agent
    <3>1. n <= Len(list)
      BY <1>1, <1>3
    <3> QED
      BY <1>1, <3>1, CopiedFacts
  <2>2. v = Copied(list, n)
    BY <1>4
  <2> HIDE DEF P
  <2> QED
    BY <2>1, <2>2
<1>7. /\ q = Bare(p, Infinity) /\ q \in P /\ p.start \in Nat
      /\ v[n] = q
  <2>1. q = Bare(p, Infinity) /\ q \in P
    BY <1>4, BareIsNew
  <2>2. v[n] = Bare(p, Infinity)
    BY <1>2, <1>4, <1>6 DEF EndInCopy
  <2> QED
    BY <1>1, <1>3, <1>4, <2>1, <2>2
<1>8. CASE l = 0
  <2>1. u = <<>>
    BY <1>5, <1>8, EmptySeq
  <2>2. InsertPeriod(u, p) = <<q>>
    BY <1>4, <2>1 DEF InsertPeriod, IsRefused, WriteWithRollback
  <2>3. <<q>> \in Seq(P) /\ Len(<<q>>) = 1 /\ <<q>>[1] = q
    BY <1>7
  <2>4. n = 1
    BY <1>2, <1>8
  <2> HIDE DEF P
  <2>5. <<q>> = v
    BY <1>4, <1>6, <1>7, <2>3, <2>4, SeqEqual
  <2> QED
    BY <1>2, <1>4, <2>2, <2>5
<1>9. CASE l # 0
  <2> DEFINE closed == [u[l] EXCEPT !.end = p.start, !.reads = @ \ ReadsFrom(u[l], p.start)]
             e      == [q EXCEPT !.end = IF l < Len(u) THEN u[l + 1].start ELSE @]
             cut    == [u EXCEPT ![l] = closed]
  <2>1. l \in 1 .. Len(list) /\ l \in 1 .. Len(u) /\ l \in 1 .. l /\ l \in 1 .. n /\ l # n
    BY <1>2, <1>3, <1>5, <1>9
  <2>2. u # <<>>
    BY <1>4, <2>1, EmptySeq
  <2>3. u[l].start = list[l].start /\ u[l].agent = list[l].agent
    BY <1>5, <2>1
  <2>4. /\ list[l].start <= p.start /\ list[l].start \in Nat
        /\ list[l].start = p.start => ~IsGreater(list[l].agent, p.agent)
        /\ list[l].end = p.start
    <3>1. list[l].start <= list[n].start
      BY <1>2, <1>3, <2>1 DEF ListInv, InOrder
    <3>2. list[l].start = list[n].start => ~IsGreater(list[l].agent, list[n].agent)
      BY <1>2, <1>3, <2>1 DEF WritersInOrder
    <3>3. list[l].end = list[n].start
      BY <1>2, <1>3, <2>1, Ends
    <3> QED
      BY <1>1, <1>4, <2>1, <3>1, <3>2, <3>3
  <2>5. Covering(u, p.start) = l
    <3>1. /\ Covering(u, p.start) \in 0 .. l
          /\ l > Covering(u, p.start) => u[l].start > p.start
      BY <1>4, <1>5, <1>7, <2>1, CoveringIsLast
    <3> QED
      BY <1>7, <2>3, <2>4, <3>1
  <2>6. ~IsRefused(u, p.agent, p.start)
    BY <1>9, <2>2, <2>3, <2>4, <2>5 DEF IsRefused
  <2>7. InsertPeriod(u, p) = InsertAt(cut, l + 1, e)
    BY <1>4, <2>2, <2>5, <2>6 DEF InsertPeriod, WriteWithRollback
  <2>8. e = q
    <3>1. ~(l < Len(u))
      BY <1>5
    <3>2. e = [q EXCEPT !.end = @]
      BY <3>1
    <3> QED
      BY <1>4, <3>2 DEF Period
  <2>9. closed = v[l] /\ closed \in P
    <3>1. u[l] = Bare(list[l], Infinity) /\ v[l] = Bare(list[l], list[l].end)
      BY <1>5, <1>6, <2>1 DEF EndInCopy
    <3>2. list[l] \in P
      BY <1>1, <2>1
    <3>3. closed = Bare(list[l], p.start)
      <4>1. PICK reads, x : reads = ReadsFrom(u[l], p.start) /\ x = u[l]
        OBVIOUS
      <4>2. x = Bare(list[l], Infinity) /\ x.reads \ reads = {}
        BY <3>1, <4>1 DEF Bare
      <4>3. PICK r : r = list[l]
        OBVIOUS
      <4>4. Closed(x, p.start) = Bare(r, p.start)
        <5>1. x = Bare(r, Infinity)
          BY <4>2, <4>3
        <5> HIDE DEF P, closed, e, cut
        <5> QED
          BY <5>1, BareClosed
      <4>5. closed = [x EXCEPT !.end = p.start, !.reads = x.reads \ reads]
        BY <4>1
      <4> HIDE DEF closed
      <4> QED
        BY <4>2, <4>3, <4>4, <4>5 DEF Closed
    <3>4. Bare(list[l], p.start) \in P
      BY <1>7, <3>2, BareFacts
    <3> QED
      BY <2>4, <3>1, <3>3, <3>4
  <2> HIDE DEF closed, e
  <2>10. /\ cut \in Seq(P) /\ Len(cut) = l
         /\ \A k \in 1 .. l : cut[k] = IF k = l THEN closed ELSE u[k]
    BY <1>4, <1>5, <2>1, <2>9, ExceptPeriod
  <2>11. \A k \in 1 .. l : cut[k] = v[k]
    <3> SUFFICES ASSUME NEW k \in 1 .. l, k # l PROVE u[k] = v[k]
      BY <2>9, <2>10
    <3>1. k \in 1 .. n /\ k # n
      BY <1>2
    <3> QED
      BY <1>5, <1>6, <3>1 DEF EndInCopy
  <2> HIDE DEF cut, P
  <2>12. /\ InsertAt(cut, n, e) \in Seq(P)
         /\ Len(InsertAt(cut, n, e)) = n
         /\ \A k \in 1 .. n :
              InsertAt(cut, n, e)[k] = IF k < n THEN cut[k] ELSE IF k = n THEN e ELSE cut[k - 1]
    <3>1. n \in 1 .. Len(cut) + 1 /\ e \in P /\ Len(cut) + 1 = n
      BY <1>2, <1>7, <2>8, <2>10
    <3>2. /\ InsertAt(cut, n, e) \in Seq(P)
          /\ Len(InsertAt(cut, n, e)) = Len(cut) + 1
          /\ \A k \in 1 .. Len(cut) + 1 :
               InsertAt(cut, n, e)[k] = IF k < n THEN cut[k] ELSE IF k = n THEN e ELSE cut[k - 1]
      <4>1. PICK c \in Seq(P), f \in P, at \in Nat : c = cut /\ f = e /\ at = n
        BY <2>10, <3>1
      <4>2. at \in 1 .. Len(c) + 1
        BY <3>1, <4>1
      <4>3. /\ InsertAt(c, at, f) \in Seq(P)
            /\ Len(InsertAt(c, at, f)) = Len(c) + 1
            /\ \A k \in 1 .. Len(c) + 1 :
                 InsertAt(c, at, f)[k] = IF k < at THEN c[k] ELSE IF k = at THEN f ELSE c[k - 1]
        BY <4>2, InsertAtSeq
      <4> QED
        BY <4>1, <4>3
    <3> QED
      BY <3>1, <3>2
  <2>13. \A k \in 1 .. n : InsertAt(cut, n, e)[k] = v[k]
    <3> SUFFICES ASSUME NEW k \in 1 .. n PROVE InsertAt(cut, n, e)[k] = v[k]
      OBVIOUS
    <3>1. CASE k = n
      BY <1>2, <1>7, <2>8, <2>12, <3>1
    <3>2. CASE k # n
      <4>1. k \in 1 .. l /\ k < n
        BY <1>2, <3>2
      <4> QED
        BY <2>11, <2>12, <4>1
    <3> QED
      BY <3>1, <3>2
  <2>14. InsertAt(cut, n, e) = v
    BY <1>4, <1>6, <2>12, <2>13, SeqEqual DEF P
  <2> QED
    BY <1>2, <1>4, <2>7, <2>14
<1> QED
  BY <1>8, <1>9


\* Two ways to get from one n to the next that start alike stay alike.
LEMMA StepByStep ==
  ASSUME NEW l \in Nat, NEW f, NEW g, f[0] = g[0],
         \A n \in 1 .. l : f[n - 1] = g[n - 1] => f[n] = g[n]
  PROVE  f[l] = g[l]
<1> DEFINE Bad == {n \in 0 .. l : f[n] # g[n]}
<1> SUFFICES ASSUME f[l] # g[l] PROVE FALSE
  OBVIOUS
<1>1. l \in Bad /\ Bad \in SUBSET Nat
  OBVIOUS
<1>2. PICK k \in Bad : \A n \in Bad : k <= n
  <2> HIDE DEF Bad
  <2> QED
    BY <1>1, MinOfSet
<1>3. k \in 0 .. l /\ f[k] # g[k]
  OBVIOUS
<1>4. k \in 1 .. l
  BY <1>3
<1>5. k - 1 \in 0 .. l /\ k - 1 \notin Bad
  <2> HIDE DEF Bad
  <2> QED
    BY <1>2, <1>4
<1>6. f[k - 1] = g[k - 1]
  BY <1>5
<1> QED
  BY <1>3, <1>4, <1>6

\* A copy of nothing.
LEMMA CopiedNothing == ASSUME NEW list PROVE Copied(list, 0) = <<>>
BY DEF Copied

\* SharedState::Insert: the other CLP gets a copy of every write.
LEMMA InsertCopies ==
  ASSUME NEW values, NEW readers, NEW list, ListInv(list, values, readers),
         WritersInOrder(list)
  PROVE  Insert(list) = [k \in DOMAIN list |-> [list[k] EXCEPT !.reads = {}]]
<1> DEFINE P == PeriodsOf(values, readers)
           After(f) == [n \in 0 .. Len(list) |->
                          IF n = 0 THEN <<>> ELSE InsertPeriod(f[n - 1], list[n])]
           f == CHOOSE x : x = After(x)
           g == [n \in 0 .. Len(list) |-> Copied(list, n)]
<1>1. /\ list \in Seq(P) /\ Len(list) \in Nat /\ DOMAIN list = 1 .. Len(list)
      /\ \A k \in 1 .. Len(list) : list[k] \in P
  BY ListType DEF ListInv
<1> HIDE DEF P
<1>2. \A n \in 1 .. Len(list) : InsertPeriod(Copied(list, n - 1), list[n]) = Copied(list, n)
  <2> SUFFICES ASSUME NEW n \in 1 .. Len(list)
               PROVE  InsertPeriod(Copied(list, n - 1), list[n]) = Copied(list, n)
    OBVIOUS
  <2>1. PICK l \in Nat : l = n - 1
    BY <1>1
  <2>2. l + 1 = n /\ l + 1 <= Len(list)
    BY <1>1, <2>1
  <2>3. InsertPeriod(Copied(list, l), list[l + 1]) = Copied(list, l + 1)
    BY <2>2, InsertPeriodCopies
  <2> QED
    BY <2>1, <2>2, <2>3
<1>3. g = After(g)
  <2>1. ASSUME NEW n \in 0 .. Len(list) PROVE g[n] = After(g)[n]
    <3>1. CASE n = 0
      BY <3>1, CopiedNothing
    <3>2. CASE n # 0
      <4>1. n \in 1 .. Len(list) /\ n - 1 \in 0 .. Len(list)
        BY <1>1, <3>2
      <4> QED
        BY <1>2, <3>2, <4>1
    <3> QED
      BY <3>1, <3>2
  <2>2. g = [n \in 0 .. Len(list) |-> g[n]] /\ After(g) = [n \in 0 .. Len(list) |-> After(g)[n]]
    OBVIOUS
  <2> HIDE DEF g, After
  <2> QED
    BY <2>1, <2>2
<1>4. f = After(f)
  <2> HIDE DEF g, After
  <2> QED
    BY <1>3, Zenon
<1>5. Insert(list) = f[Len(list)]
  BY DEF Insert
<1> HIDE DEF f, g
<1>6. f[Len(list)] = g[Len(list)]
  <2>1. /\ \A n \in 0 .. Len(list) :
             f[n] = IF n = 0 THEN <<>> ELSE InsertPeriod(f[n - 1], list[n])
        /\ \A n \in 0 .. Len(list) :
             g[n] = IF n = 0 THEN <<>> ELSE InsertPeriod(g[n - 1], list[n])
    BY <1>3, <1>4
  <2>2. f[0] = g[0]
    BY <1>1, <2>1
  <2>3. \A n \in 1 .. Len(list) : f[n - 1] = g[n - 1] => f[n] = g[n]
    <3> SUFFICES ASSUME NEW n \in 1 .. Len(list), f[n - 1] = g[n - 1] PROVE f[n] = g[n]
      OBVIOUS
    <3>1. n \in 0 .. Len(list) /\ n # 0
      BY <1>1
    <3> QED
      BY <2>1, <3>1
  <2> QED
    BY <1>1, <2>2, <2>3, StepByStep
<1>7. Insert(list) = Copied(list, Len(list))
  BY <1>1, <1>5, <1>6 DEF g
<1>8. \A k \in 1 .. Len(list) :
        Bare(list[k], EndInCopy(list, Len(list), k)) = [list[k] EXCEPT !.reads = {}]
  <2> SUFFICES ASSUME NEW k \in 1 .. Len(list)
               PROVE  Bare(list[k], EndInCopy(list, Len(list), k)) = [list[k] EXCEPT !.reads = {}]
    OBVIOUS
  <2>1. list[k].end = EndInCopy(list, Len(list), k)
    BY Ends DEF EndInCopy
  <2>2. [list[k] EXCEPT !.reads = {}] = Bare(list[k], list[k].end)
    <3>1. PICK p \in P : p = list[k]
      BY <1>1
    <3>2. [p EXCEPT !.reads = {}] = Bare(p, p.end)
      BY BareOf DEF P
    <3> QED
      BY <3>1, <3>2
  <2> QED
    BY <2>1, <2>2
<1> QED
  BY <1>1, <1>7, <1>8 DEF Copied

\* What is left after n periods were undone, and the reads to roll back by then.
Left(list, n) == SubSeq(list, n + 1, Len(list))

ReadsUpTo(list, readers, n) ==
  {q \in [agent : readers, time : Nat] :
     \E k \in 1 .. n : /\ q.time = list[k].start
                       /\ \E r \in list[k].reads : q.agent = r.agent}

Undone(list, readers, n) == [list |-> Left(list, n), requests |-> ReadsUpTo(list, readers, n)]

\* What is left of a list.
LEMMA LeftFacts ==
  ASSUME NEW S, NEW list \in Seq(S), NEW n \in Nat, n <= Len(list)
  PROVE  /\ Left(list, n) \in Seq(S) /\ Len(Left(list, n)) = Len(list) - n
         /\ \A k \in 1 .. Len(list) - n : Left(list, n)[k] = list[k + n]
<1> DEFINE new == SubSeq(list, n + 1, Len(list))
<1>1. Len(list) \in Nat
  OBVIOUS
<1>2. PICK m \in Int, l \in Int : m = n + 1 /\ l = Len(list)
  BY <1>1
<1>3. \A k \in m .. l : list[k] \in S
  BY <1>2
<1>4. /\ SubSeq(list, m, l) \in Seq(S)
      /\ Len(SubSeq(list, m, l)) = IF m <= l THEN l - m + 1 ELSE 0
      /\ \A k \in 1 .. l - m + 1 : SubSeq(list, m, l)[k] = list[m + k - 1]
  BY <1>3, SubSeqProperties
<1>5. (IF m <= l THEN l - m + 1 ELSE 0) = Len(list) - n
  BY <1>1, <1>2
<1>6. ASSUME NEW k \in 1 .. Len(list) - n PROVE SubSeq(list, m, l)[k] = list[k + n]
  <2>1. k \in 1 .. l - m + 1 /\ m + k - 1 = k + n
    BY <1>1, <1>2
  <2> QED
    BY <1>4, <2>1
<1> QED
  BY <1>2, <1>4, <1>5, <1>6 DEF Left

\* SharedState::RemoveWritePeriodList, one period: it is the first, is undone,
\* and its reads are asked back to its start.
LEMMA UndoPeriodUndoes ==
  ASSUME NEW values, NEW readers, NEW list \in Seq(PeriodsOf(values, readers)),
         NEW l \in Nat, l + 1 <= Len(list)
  PROVE  UndoPeriod(Undone(list, readers, l), list[l + 1]) = Undone(list, readers, l + 1)
<1> DEFINE P == PeriodsOf(values, readers)
<1>1. /\ Len(list) \in Nat
      /\ \A k \in 1 .. Len(list) :
           /\ list[k] \in P /\ list[k].start \in Nat
           /\ list[k].reads \in SUBSET [agent : readers, time : Nat]
  BY ListType
<1>2. PICK n \in Nat : n = l + 1
  OBVIOUS
<1>3. n \in 1 .. Len(list) /\ l <= Len(list)
  BY <1>1, <1>2
<1>4. PICK p \in P, t \in Nat : p = list[n] /\ t = p.start
  BY <1>1, <1>3
<1>5. PICK u \in Seq(P), v \in Seq(P) : u = Left(list, l) /\ v = Left(list, n)
  BY <1>3, LeftFacts
<1>6. /\ Len(u) = Len(list) - l
      /\ \A k \in 1 .. Len(list) - l : u[k] = list[k + l]
  BY <1>3, <1>5, LeftFacts
<1>7. /\ Len(v) = Len(list) - n
      /\ \A k \in 1 .. Len(list) - n : v[k] = list[k + n]
  <2>1. n <= Len(list)
    BY <1>1, <1>3
  <2> QED
    BY <1>5, <2>1, LeftFacts
<1>8. 1 \in 1 .. Len(u) /\ u[1] = p
  <2>1. 1 \in 1 .. Len(list) - l /\ 1 + l = n
    BY <1>1, <1>2, <1>3
  <2> QED
    BY <1>4, <1>6, <2>1
<1>9. StartingAt(u, t) = 1
  <2>1. /\ StartingAt(u, t) \in 0 .. Len(u)
        /\ \A k \in 1 .. Len(u) :
             u[k].start = t => StartingAt(u, t) # 0 /\ StartingAt(u, t) <= k
    BY <1>4, <1>5, StartingAtIsFirst
  <2>2. u[1].start = t
    BY <1>4, <1>8
  <2>3. StartingAt(u, t) # 0 /\ StartingAt(u, t) <= 1
    BY <1>8, <2>1, <2>2
  <2>4. Len(u) \in Nat
    BY <1>5
  <2>5. PICK s \in 0 .. Len(u) : s = StartingAt(u, t)
    BY <2>1
  <2> QED
    BY <2>3, <2>4, <2>5
<1>10. CanUndo(u, p.agent, t)
  BY <1>8, <1>9 DEF CanUndo, IsDifferent
<1>11. PerformWriteRollback(u, t) = RemoveAt(u, 1)
  BY <1>9 DEF PerformWriteRollback
<1> HIDE DEF P
<1>12. RemoveAt(u, 1) = v
  <2>1. /\ RemoveAt(u, 1) \in Seq(P) /\ Len(RemoveAt(u, 1)) = Len(u) - 1
        /\ \A k \in 1 .. Len(u) - 1 : RemoveAt(u, 1)[k] = IF k < 1 THEN u[k] ELSE u[k + 1]
    BY <1>8, RemoveAtSeq
  <2>2. Len(u) - 1 = Len(v)
    BY <1>1, <1>2, <1>6, <1>7
  <2>3. ASSUME NEW k \in 1 .. Len(v) PROVE RemoveAt(u, 1)[k] = v[k]
    <3>1. k \in 1 .. Len(list) - n /\ ~(k < 1) /\ k + 1 \in 1 .. Len(list) - l
          /\ k + 1 + l = k + n
      BY <1>1, <1>2, <1>7
    <3> QED
      BY <1>6, <1>7, <2>1, <2>2, <3>1
  <2> QED
    BY <2>1, <2>2, <2>3, SeqEqual
<1>13. ReadsOfUndone(u, t) = {[agent |-> r.agent, time |-> t] : r \in p.reads}
  BY <1>8, <1>9 DEF ReadsOfUndone
<1>14. ReadsUpTo(list, readers, n)
         = ReadsUpTo(list, readers, l) \union {[agent |-> r.agent, time |-> t] : r \in p.reads}
  <2> DEFINE asked == {[agent |-> r.agent, time |-> t] : r \in p.reads}
  <2>1. p.reads \in SUBSET [agent : readers, time : Nat] /\ t = list[n].start
    BY <1>1, <1>3, <1>4
  <2>2. ASSUME NEW q \in ReadsUpTo(list, readers, n)
        PROVE  q \in ReadsUpTo(list, readers, l) \union asked
    <3>1. PICK k \in 1 .. n : /\ q.time = list[k].start
                              /\ \E r \in list[k].reads : q.agent = r.agent
      BY <2>2 DEF ReadsUpTo
    <3>2. q \in [agent : readers, time : Nat] /\ q = [agent |-> q.agent, time |-> q.time]
      BY <2>2 DEF ReadsUpTo
    <3>3. CASE k = n
      BY <1>4, <3>1, <3>2, <3>3
    <3>4. CASE k # n
      <4>1. k \in 1 .. l
        BY <1>2, <3>4
      <4> QED
        BY <3>1, <3>2, <4>1 DEF ReadsUpTo
    <3> QED
      BY <3>3, <3>4
  <2>3. ASSUME NEW q \in ReadsUpTo(list, readers, l) PROVE q \in ReadsUpTo(list, readers, n)
    <3>1. 1 .. l \subseteq 1 .. n
      BY <1>2
    <3> QED
      BY <2>3, <3>1 DEF ReadsUpTo
  <2>4. ASSUME NEW q \in asked PROVE q \in ReadsUpTo(list, readers, n)
    <3>1. PICK r \in p.reads : q = [agent |-> r.agent, time |-> t]
      OBVIOUS
    <3>2. q \in [agent : readers, time : Nat] /\ q.time = t /\ q.agent = r.agent
      BY <2>1, <3>1
    <3>3. n \in 1 .. n
      BY <1>3
    <3> QED
      BY <1>4, <3>1, <3>2, <3>3 DEF ReadsUpTo
  <2> HIDE DEF asked
  <2>5. ReadsUpTo(list, readers, n) = ReadsUpTo(list, readers, l) \union asked
    BY <2>2, <2>3, <2>4
  <2> QED
    BY <2>5 DEF asked
<1>15. UndoPeriod([list |-> u, requests |-> ReadsUpTo(list, readers, l)], p)
         = [list |-> v, requests |-> ReadsUpTo(list, readers, n)]
  BY <1>4, <1>10, <1>11, <1>12, <1>13, <1>14 DEF UndoPeriod
<1> QED
  BY <1>2, <1>4, <1>5, <1>15 DEF Undone

\* SharedState::RemoveWritePeriodList: nothing is left, and every read is asked back.
LEMMA RemovesAll ==
  ASSUME NEW values, NEW readers, NEW list \in Seq(PeriodsOf(values, readers))
  PROVE  RemoveWritePeriodList(list) = [list     |-> <<>>,
                                        requests |-> ReadsUpTo(list, readers, Len(list))]
<1> DEFINE P == PeriodsOf(values, readers)
           first == [list |-> list, requests |-> {}]
           After(f) == [n \in 0 .. Len(list) |->
                          IF n = 0 THEN [list |-> list, requests |-> {}]
                          ELSE UndoPeriod(f[n - 1], list[n])]
           f == CHOOSE x : x = After(x)
           g == [n \in 0 .. Len(list) |-> Undone(list, readers, n)]
<1>1. Len(list) \in Nat
  BY ListType
<1>2. Undone(list, readers, 0) = first
  <2>1. Left(list, 0) = list
    BY <1>1, SubSeqFull DEF Left
  <2>2. ReadsUpTo(list, readers, 0) = {}
    BY DEF ReadsUpTo
  <2> QED
    BY <2>1, <2>2 DEF Undone
<1>3. \A n \in 1 .. Len(list) :
        UndoPeriod(Undone(list, readers, n - 1), list[n]) = Undone(list, readers, n)
  <2> SUFFICES ASSUME NEW n \in 1 .. Len(list)
               PROVE  UndoPeriod(Undone(list, readers, n - 1), list[n]) = Undone(list, readers, n)
    OBVIOUS
  <2>1. PICK l \in Nat : l = n - 1
    BY <1>1
  <2>2. l + 1 = n /\ l + 1 <= Len(list)
    BY <1>1, <2>1
  <2>3. UndoPeriod(Undone(list, readers, l), list[l + 1]) = Undone(list, readers, l + 1)
    BY <2>2, UndoPeriodUndoes
  <2> QED
    BY <2>1, <2>2, <2>3
<1>4. g = After(g)
  <2>1. ASSUME NEW n \in 0 .. Len(list) PROVE g[n] = After(g)[n]
    <3>1. CASE n = 0
      BY <1>2, <3>1
    <3>2. CASE n # 0
      <4>1. n \in 1 .. Len(list) /\ n - 1 \in 0 .. Len(list)
        BY <1>1, <3>2
      <4> QED
        BY <1>3, <3>2, <4>1
    <3> QED
      BY <3>1, <3>2
  <2>2. g = [n \in 0 .. Len(list) |-> g[n]] /\ After(g) = [n \in 0 .. Len(list) |-> After(g)[n]]
    OBVIOUS
  <2> HIDE DEF g, After
  <2> QED
    BY <2>1, <2>2
<1>5. f = After(f)
  <2> HIDE DEF g, After
  <2> QED
    BY <1>4, Zenon
<1>6. RemoveWritePeriodList(list) = f[Len(list)]
  BY DEF RemoveWritePeriodList
<1> HIDE DEF f, g, first
<1>7. f[Len(list)] = g[Len(list)]
  <2>1. /\ \A n \in 0 .. Len(list) :
             f[n] = IF n = 0 THEN first ELSE UndoPeriod(f[n - 1], list[n])
        /\ \A n \in 0 .. Len(list) :
             g[n] = IF n = 0 THEN first ELSE UndoPeriod(g[n - 1], list[n])
    BY <1>4, <1>5 DEF first
  <2>2. f[0] = g[0]
    BY <1>1, <2>1
  <2>3. \A n \in 1 .. Len(list) : f[n - 1] = g[n - 1] => f[n] = g[n]
    <3> SUFFICES ASSUME NEW n \in 1 .. Len(list), f[n - 1] = g[n - 1] PROVE f[n] = g[n]
      OBVIOUS
    <3>1. n \in 0 .. Len(list) /\ n # 0
      BY <1>1
    <3> QED
      BY <2>1, <3>1
  <2> QED
    BY <1>1, <2>2, <2>3, StepByStep
<1>8. Left(list, Len(list)) = <<>>
  BY <1>1, SubSeqEmpty DEF Left
<1> QED
  BY <1>1, <1>6, <1>7, <1>8 DEF g, Undone

\* RollbackList: whoever asked is in the list, or shares the key of one that is, and is
\* rolled back to the time asked for at the latest.
LEMMA AddLpTells ==
  ASSUME NEW readers \in SUBSET LpId, NEW requests \in SUBSET [agent : readers, time : Nat],
         NEW entries \in AddLp(requests), NEW q \in requests
  PROVE  \E a \in DOMAIN entries : IsSameKey(a, q.agent) /\ entries[a] \in Nat /\ entries[a] <= q.time
<1> DEFINE askers == {x.agent : x \in requests}
<1>1. PICK named \in SUBSET askers :
        /\ entries = [a \in named |-> EarliestFor(requests, a)]
        /\ \A a \in askers : \E b \in named : IsSameKey(a, b)
  BY DEF AddLp
<1>2. PICK b \in named : IsSameKey(q.agent, b)
  BY <1>1
<1> DEFINE times == {x.time : x \in {y \in requests : IsSameKey(y.agent, b)}}
<1>3. q.time \in times /\ times \in SUBSET Nat
  BY <1>2
<1>4. entries[b] = Min(times) /\ b \in DOMAIN entries
  BY <1>1, <1>2 DEF EarliestFor
<1>5. IsSameKey(b, q.agent)
  BY <1>2 DEF IsSameKey
<1> HIDE DEF times
<1>6. Min(times) \in Nat /\ Min(times) <= q.time
  BY <1>3, MinOfSet
<1> QED
  BY <1>4, <1>5, <1>6

\* Every period is an agent's, or the initial one at the head of the list.
WrittenByAgents(list) ==
  /\ WritersInOrder(list)
  /\ \A k \in 1 .. Len(list) : list[k].agent \in Agents \union {InitialAgent}

\* Among agents, "not greater" is transitive, as std::map needs it to be.
LEMMA NotGreater ==
  ASSUME NEW a \in Agents \union {InitialAgent}, NEW b \in Agents, NEW c \in Agents,
         ~IsGreater(a, b), ~IsGreater(b, c)
  PROVE  ~IsGreater(a, c)
<1>1. /\ b \in LpId /\ c \in LpId
      /\ b.id \in Nat /\ b.rank \in Nat /\ c.id \in Nat /\ c.rank \in Nat
  BY TimeWarpAssumption DEF LpId
<1>2. CASE a = InitialAgent
  BY <1>1, <1>2 DEF IsGreater, InitialAgent
<1>3. CASE a \in Agents
  <2>1. a.id \in Nat /\ a.rank \in Nat
    BY <1>3, TimeWarpAssumption DEF LpId
  <2> SUFFICES ASSUME IsGreater(a, c) PROVE FALSE
    OBVIOUS
  <2>2. IsSameKey(a, b)
    BY <1>1, <2>1 DEF IsSameKey, IsLess, IsGreater
  <2>3. IsSameKey(b, c)
    BY <1>1, <2>1 DEF IsSameKey, IsLess, IsGreater
  <2>4. IsSameKey(a, c)
    BY <1>3, <2>2, <2>3, TimeWarpAssumption
  <2> QED
    BY <1>1, <2>1, <2>4 DEF IsSameKey, IsLess, IsGreater
<1> QED
  BY <1>2, <1>3

\* Some of the periods of a list, in the same order.
LEMMA SelectedWrites ==
  ASSUME NEW list, NEW new, NEW h, Len(new) \in Nat, Len(list) \in Nat,
         \A k \in 1 .. Len(new) : h[k] \in 1 .. Len(list) /\ SameWrite(new[k], list[h[k]]),
         \A j, k \in 1 .. Len(new) : j < k => h[j] < h[k],
         WrittenByAgents(list)
  PROVE  WrittenByAgents(new)
<1>1. ASSUME NEW j \in 1 .. Len(new), NEW k \in 1 .. Len(new), j < k
      PROVE  /\ new[k].agent \in Agents
             /\ new[j].start = new[k].start => ~IsGreater(new[j].agent, new[k].agent)
  <2>1. h[j] \in 1 .. Len(list) /\ h[k] \in 1 .. Len(list) /\ h[j] < h[k]
    BY <1>1
  <2>2. /\ new[j].agent = list[h[j]].agent /\ new[j].start = list[h[j]].start
        /\ new[k].agent = list[h[k]].agent /\ new[k].start = list[h[k]].start
    BY DEF SameWrite
  <2>3. /\ list[h[k]].agent \in Agents
        /\ list[h[j]].start = list[h[k]].start => ~IsGreater(list[h[j]].agent, list[h[k]].agent)
    BY <2>1 DEF WrittenByAgents, WritersInOrder
  <2> QED
    BY <2>2, <2>3
<1>2. \A k \in 1 .. Len(new) : new[k].agent \in Agents \union {InitialAgent}
  BY DEF WrittenByAgents, SameWrite
<1>3. WritersInOrder(new)
  BY <1>1 DEF WritersInOrder
<1> QED
  BY <1>2, <1>3 DEF WrittenByAgents

\* StateVariable::Read and PerformReadRollback write nothing.
LEMMA ChangeReadsWriters ==
  ASSUME NEW values, NEW readers, NEW list \in Seq(PeriodsOf(values, readers)),
         NEW i \in 1 .. Len(list),
         NEW reads \in SUBSET [agent : readers, time : Nat], WrittenByAgents(list)
  PROVE  WrittenByAgents([list EXCEPT ![i] = [list[i] EXCEPT !.reads = reads]])
<1> DEFINE p   == [list[i] EXCEPT !.reads = reads]
           new == [list EXCEPT ![i] = p]
           h   == [k \in 1 .. Len(list) |-> k]
<1>1. Len(list) \in Nat /\ list[i] \in PeriodsOf(values, readers)
  BY ListType
<1>2. /\ p \in PeriodsOf(values, readers)
      /\ p.value = list[i].value /\ p.agent = list[i].agent /\ p.start = list[i].start
  BY <1>1 DEF PeriodsOf
<1> HIDE DEF p
<1>3. /\ Len(new) = Len(list)
      /\ \A k \in 1 .. Len(list) : new[k] = IF k = i THEN p ELSE list[k]
  BY <1>2, ExceptPeriod
<1> HIDE DEF new
<1>4. \A k \in 1 .. Len(new) : h[k] \in 1 .. Len(list) /\ SameWrite(new[k], list[h[k]])
  BY <1>2, <1>3 DEF SameWrite
<1>5. \A j, k \in 1 .. Len(new) : j < k => h[j] < h[k]
  BY <1>3
<1> HIDE DEF h
<1>6. WrittenByAgents(new)
  BY <1>1, <1>3, <1>4, <1>5, SelectedWrites
<1> QED
  BY <1>6 DEF new, p

\* StateVariable::Read.
LEMMA NoteReadWriters ==
  ASSUME NEW values, NEW readers, NEW list, ListInv(list, values, readers),
         NEW agent \in readers, NEW time \in Nat, Covering(list, time) # 0, WrittenByAgents(list)
  PROVE  WrittenByAgents(NoteRead(list, agent, time))
<1> DEFINE i == Covering(list, time)
           reads == list[i].reads \union {[agent |-> agent, time |-> time]}
<1>1. list \in Seq(PeriodsOf(values, readers)) /\ i \in 1 .. Len(list)
  BY ListType, CoveringIsLast DEF ListInv
<1>2. NoteRead(list, agent, time) = [list EXCEPT ![i] = [list[i] EXCEPT !.reads = reads]]
  BY DEF NoteRead
<1> HIDE DEF i
<1>3. reads \in SUBSET [agent : readers, time : Nat]
  BY <1>1, ListType
<1> HIDE DEF reads
<1>4. WrittenByAgents([list EXCEPT ![i] = [list[i] EXCEPT !.reads = reads]])
  BY <1>1, <1>3, ChangeReadsWriters
<1> QED
  BY <1>2, <1>4

\* StateVariable::PerformReadRollback.
LEMMA PerformReadRollbackWriters ==
  ASSUME NEW values, NEW readers, NEW list, ListInv(list, values, readers),
         NEW agent, NEW time \in Nat, Covering(list, time) # 0, WrittenByAgents(list)
  PROVE  WrittenByAgents(PerformReadRollback(list, agent, time))
<1> DEFINE i == Covering(list, time)
           reads == list[i].reads \ {[agent |-> agent, time |-> time]}
<1>1. list \in Seq(PeriodsOf(values, readers)) /\ i \in 1 .. Len(list)
  BY ListType, CoveringIsLast DEF ListInv
<1>2. PerformReadRollback(list, agent, time) = [list EXCEPT ![i] = [list[i] EXCEPT !.reads = reads]]
  BY DEF PerformReadRollback
<1> HIDE DEF i
<1>3. reads \in SUBSET [agent : readers, time : Nat]
  BY <1>1, ListType
<1> HIDE DEF reads
<1>4. WrittenByAgents([list EXCEPT ![i] = [list[i] EXCEPT !.reads = reads]])
  BY <1>1, <1>3, ChangeReadsWriters
<1> QED
  BY <1>2, <1>4

\* StateVariable::WriteWithRollback: a write that follows those of its time is not
\* a smaller agent's, or it is refused.
LEMMA WriteWithRollbackWriters ==
  ASSUME NEW values, NEW readers, NEW list, ListInv(list, values, readers),
         NEW agent \in Agents, NEW value \in values, NEW time \in Nat, time < Infinity,
         ~IsRefused(list, agent, time), WrittenByAgents(list)
  PROVE  WrittenByAgents(WriteWithRollback(list, agent, value, time))
<1>1. /\ Len(list) \in Nat /\ \A k \in 1 .. Len(list) : list[k].start \in Nat
      /\ list # <<>> <=> Len(list) # 0
  BY ListType DEF ListInv
<1>2. PICK i \in 0 .. Len(list) :
        /\ i = Covering(list, time)
        /\ i # 0 => list[i].start <= time
        /\ \A k \in 1 .. Len(list) : k > i => list[k].start > time
  BY CoveringIsLast DEF ListInv
<1>3. PICK new : new = WriteWithRollback(list, agent, value, time)
  OBVIOUS
<1>4. /\ list # <<>> => i # 0
      /\ Len(new) = Len(list) + 1
      /\ \A j \in 1 .. i : SameWrite(new[j], list[j])
      /\ SameWrite(new[i + 1], Period(value, time, agent))
      /\ \A j \in i + 1 .. Len(list) : SameWrite(new[j + 1], list[j])
  <2>1. agent \in LpId
    BY TimeWarpAssumption
  <2> QED
    BY <1>2, <1>3, <2>1, WriteWithRollbackWrites
<1>5. i # 0 => (list[i].start = time => ~IsGreater(list[i].agent, agent))
  BY <1>1, <1>2 DEF IsRefused
<1>6. /\ \A k \in 1 .. i : new[k].agent = list[k].agent /\ new[k].start = list[k].start
      /\ new[i + 1].agent = agent /\ new[i + 1].start = time
      /\ \A k \in i + 2 .. Len(list) + 1 :
           /\ k - 1 \in i + 1 .. Len(list) /\ k - 1 \in 1 .. Len(list)
           /\ new[k].agent = list[k - 1].agent /\ new[k].start = list[k - 1].start
  <2>1. \A k \in 1 .. i : new[k].agent = list[k].agent /\ new[k].start = list[k].start
    BY <1>4 DEF SameWrite
  <2>2. new[i + 1].agent = agent /\ new[i + 1].start = time
    BY <1>4 DEF SameWrite, Period
  <2>3. ASSUME NEW k \in i + 2 .. Len(list) + 1
        PROVE  /\ k - 1 \in i + 1 .. Len(list) /\ k - 1 \in 1 .. Len(list)
               /\ new[k].agent = list[k - 1].agent /\ new[k].start = list[k - 1].start
    <3>1. PICK j \in i + 1 .. Len(list) : j = k - 1
      BY <1>1, <1>2
    <3>2. k = j + 1 /\ j \in 1 .. Len(list)
      BY <1>1, <1>2, <3>1
    <3> QED
      BY <1>4, <3>1, <3>2 DEF SameWrite
  <2> QED
    BY <2>1, <2>2, <2>3
<1>7. \A k \in 1 .. Len(new) : k \in 1 .. i \/ k = i + 1 \/ k \in i + 2 .. Len(list) + 1
  BY <1>1, <1>2, <1>4
<1>8. \A k \in 1 .. i : k \in 1 .. Len(list)
  BY <1>1, <1>2
<1>9. \A k \in 1 .. Len(new) : new[k].agent \in Agents \union {InitialAgent}
  BY <1>6, <1>7, <1>8 DEF WrittenByAgents
<1>10. ASSUME NEW j \in 1 .. Len(new), NEW k \in 1 .. Len(new), j < k
       PROVE  /\ new[k].agent \in Agents
              /\ new[j].start = new[k].start => ~IsGreater(new[j].agent, new[k].agent)
  <2>1. CASE k \in 1 .. i
    <3>1. j \in 1 .. i
      BY <1>10, <2>1
    <3> QED
      BY <1>6, <1>8, <1>10, <2>1, <3>1 DEF WrittenByAgents, WritersInOrder
  <2>2. CASE k = i + 1
    <3>1. j \in 1 .. i /\ i \in 1 .. i /\ i # 0 /\ j \in 1 .. Len(list) /\ i \in 1 .. Len(list)
      BY <1>1, <1>2, <1>10, <2>2
    <3>2. CASE j = i
      BY <1>5, <1>6, <2>2, <3>1, <3>2
    <3>3. CASE j # i
      <4>1. j < i
        BY <3>1, <3>3
      <4>2. ASSUME list[j].start = time PROVE ~IsGreater(list[j].agent, agent)
        <5>1. list[i].start = time
          <6>1. list[j].start <= list[i].start /\ list[i].start <= time
            BY <1>2, <3>1, <4>1 DEF ListInv, InOrder
          <6> QED
            BY <1>1, <3>1, <4>2, <6>1
        <5>2. /\ list[i].agent \in Agents /\ ~IsGreater(list[j].agent, list[i].agent)
              /\ list[j].agent \in Agents \union {InitialAgent}
          BY <3>1, <4>1, <4>2, <5>1 DEF WrittenByAgents, WritersInOrder
        <5>3. ~IsGreater(list[i].agent, agent)
          BY <1>5, <3>1, <5>1
        <5> QED
          BY <5>2, <5>3, NotGreater
      <4> QED
        BY <1>6, <2>2, <3>1, <4>2
    <3> QED
      BY <3>2, <3>3
  <2>3. CASE k \in i + 2 .. Len(list) + 1
    <3>1. PICK l \in 1 .. Len(list) :
            l = k - 1 /\ l > i /\ new[k].agent = list[l].agent /\ new[k].start = list[l].start
      <4>1. k - 1 > i
        BY <1>1, <1>2, <2>3
      <4> QED
        BY <1>6, <2>3, <4>1
    <3>2. CASE j \in 1 .. i
      <4>1. j < l /\ j \in 1 .. Len(list)
        BY <1>8, <3>1, <3>2
      <4> QED
        BY <1>6, <3>1, <3>2, <4>1 DEF WrittenByAgents, WritersInOrder
    <3>3. CASE j = i + 1
      <4>1. new[j].start = time /\ list[l].start > time
        BY <1>2, <1>6, <3>1, <3>3
      <4>2. list[l].agent \in Agents
        <5>1. list # <<>>
          BY <1>1, <3>1
        <5>2. 1 \in 1 .. Len(list) /\ 1 < l
          BY <1>1, <1>2, <1>4, <3>1, <5>1
        <5> QED
          BY <3>1, <5>2 DEF WrittenByAgents, WritersInOrder
      <4>3. time # list[l].start
        BY <1>1, <3>1, <4>1
      <4> QED
        BY <3>1, <4>1, <4>2, <4>3
    <3>4. CASE j \in i + 2 .. Len(list) + 1
      <4>1. PICK e \in 1 .. Len(list) :
              e = j - 1 /\ new[j].agent = list[e].agent /\ new[j].start = list[e].start
        BY <1>6, <3>4
      <4>2. e < l
        BY <1>10, <3>1, <4>1
      <4> QED
        BY <3>1, <4>1, <4>2 DEF WrittenByAgents, WritersInOrder
    <3> QED
      BY <1>7, <3>2, <3>3, <3>4
  <2> QED
    BY <1>7, <2>1, <2>2, <2>3
<1>11. WritersInOrder(new)
  BY <1>10 DEF WritersInOrder
<1> QED
  BY <1>3, <1>9, <1>11 DEF WrittenByAgents

\* StateVariable::PerformWriteRollback.
LEMMA PerformWriteRollbackWriters ==
  ASSUME NEW values, NEW readers, NEW list, ListInv(list, values, readers), NEW time \in Nat,
         StartingAt(list, time) # 0, WrittenByAgents(list)
  PROVE  WrittenByAgents(PerformWriteRollback(list, time))
<1>1. PICK new, i : new = PerformWriteRollback(list, time) /\ i = StartingAt(list, time)
  OBVIOUS
<1>2. /\ i \in 1 .. Len(list) /\ Len(list) \in Nat /\ Len(new) = Len(list) - 1
      /\ \A k \in 1 .. Len(list) - 1 : SameWrite(new[k], list[IF k < i THEN k ELSE k + 1])
  BY <1>1, PerformWriteRollbackWrites, ListType DEF ListInv
<1> DEFINE h == [k \in 1 .. Len(new) |-> IF k < i THEN k ELSE k + 1]
<1>3. \A k \in 1 .. Len(new) : h[k] \in 1 .. Len(list) /\ SameWrite(new[k], list[h[k]])
  BY <1>2
<1>4. \A j, k \in 1 .. Len(new) : j < k => h[j] < h[k]
  BY <1>2
<1>5. Len(new) \in Nat
  BY <1>2
<1> HIDE DEF h
<1> QED
  BY <1>1, <1>2, <1>3, <1>4, <1>5, SelectedWrites

\* StateVariable::RemoveWritePeriods.
LEMMA RemoveWritePeriodsWriters ==
  ASSUME NEW values, NEW readers, NEW list, ListInv(list, values, readers),
         NEW limit \in Nat, limit < Infinity, WrittenByAgents(list)
  PROVE  WrittenByAgents(RemoveWritePeriods(list, limit))
<1>1. CASE Covering(list, limit) = 0
  BY <1>1 DEF RemoveWritePeriods
<1>2. CASE Covering(list, limit) # 0
  <2>1. /\ Len(list) \in Nat /\ \A k \in 1 .. Len(list) : list[k].start \in Nat
    BY ListType DEF ListInv
  <2>2. PICK i \in 1 .. Len(list) :
          /\ i = Covering(list, limit) /\ list[i].start <= limit
          /\ \A k \in 1 .. Len(list) : k > i => list[k].start > limit
    <3>1. /\ Covering(list, limit) \in 0 .. Len(list)
          /\ Covering(list, limit) # 0 => list[Covering(list, limit)].start <= limit
          /\ \A k \in 1 .. Len(list) : k > Covering(list, limit) => list[k].start > limit
      BY CoveringIsLast DEF ListInv
    <3>2. PICK i : i = Covering(list, limit)
      OBVIOUS
    <3>3. i \in 1 .. Len(list)
      BY <1>2, <2>1, <3>1, <3>2
    <3> QED
      BY <1>2, <3>1, <3>2, <3>3
  <2>3. PICK new : new = RemoveWritePeriods(list, limit)
    OBVIOUS
  <2>4. PICK f \in 1 .. i : IsTail(new, list, f, i, limit)
    BY <1>2, <2>2, <2>3, RemoveWritePeriodsWrites
  <2>5. Len(new) = Len(list) - f + 1 /\ Len(new) \in Nat
    BY <2>1, <2>2, <2>4 DEF IsTail
  <2>6. \A k \in 1 .. Len(new) :
          /\ f + k - 1 \in 1 .. Len(list) /\ new[k].agent = list[f + k - 1].agent
          /\ new[k].start = IF f + k - 1 = i THEN limit ELSE list[f + k - 1].start
    BY <2>1, <2>2, <2>4, <2>5 DEF IsTail
  <2>7. \A k \in 1 .. Len(new) : new[k].agent \in Agents \union {InitialAgent}
    BY <2>6 DEF WrittenByAgents
  <2>8. ASSUME NEW j \in 1 .. Len(new), NEW k \in 1 .. Len(new), j < k
        PROVE  /\ new[k].agent \in Agents
               /\ new[j].start = new[k].start => ~IsGreater(new[j].agent, new[k].agent)
    <3>1. PICK a \in 1 .. Len(list), b \in 1 .. Len(list) :
            /\ a = f + j - 1 /\ b = f + k - 1
            /\ new[j].agent = list[a].agent /\ new[k].agent = list[b].agent
            /\ new[j].start = IF a = i THEN limit ELSE list[a].start
            /\ new[k].start = IF b = i THEN limit ELSE list[b].start
      BY <2>6
    <3>2. a < b /\ f <= a
      BY SMTT(30), <2>8, <3>1
    <3>3. /\ list[b].agent \in Agents
          /\ list[a].start = list[b].start => ~IsGreater(list[a].agent, list[b].agent)
      BY <3>2 DEF WrittenByAgents, WritersInOrder
    <3>4. ASSUME new[j].start = new[k].start PROVE list[a].start = list[b].start
      <4>1. CASE a = i
        <5>1. list[b].start > limit /\ b # i
          BY <2>2, <3>2, <4>1
        <5> QED
          BY <2>1, <3>1, <3>4, <4>1, <5>1
      <4>2. CASE b = i
        <5>1. f < i /\ a # i
          BY <3>2, <4>2
        <5>2. list[f].start = limit /\ f \in 1 .. Len(list)
          BY <2>2, <2>4, <5>1 DEF IsTail
        <5>3. list[f].start <= list[i].start
          BY <5>1, <5>2 DEF ListInv, InOrder
        <5>4. list[i].start = limit
          BY <2>1, <2>2, <5>2, <5>3
        <5> QED
          BY <3>1, <3>4, <4>2, <5>1, <5>4
      <4>3. CASE a # i /\ b # i
        BY <3>1, <3>4, <4>3
      <4> QED
        BY <4>1, <4>2, <4>3
    <3> QED
      BY <3>1, <3>3, <3>4
  <2>9. WritersInOrder(new)
    BY <2>8 DEF WritersInOrder
  <2> QED
    BY <2>3, <2>7, <2>9 DEF WrittenByAgents
<1> QED
  BY <1>1, <1>2

\* So no step of any thread makes an agent write behind a greater one of the same time.
LEMMA NextKeepsWriters ==
  ASSUME IInv, WrittenByAgents(periods), [Next]_vars
  PROVE  WrittenByAgents(periods)'
<1>1. ListInv(periods, Values, Agents)
  BY DEF IInv
<1>2. ASSUME NEW r \in Ranks, ClpRead(r) PROVE WrittenByAgents(periods)'
  <2> DEFINE m == Head(toClp[r])
  <2>1. toClp[r] # <<>> /\ m.type = "read"
    BY <1>2 DEF ClpRead, IsNext
  <2>2. m.id.agent \in Agents /\ m.time \in Nat
    BY <1>2, <2>1, ClpTakes DEF ClpRead
  <2>3. \/ periods' = periods
        \/ /\ Covering(periods, m.time) # 0
           /\ periods' = NoteRead(periods, m.id.agent, m.time)
    BY <1>2 DEF ClpRead
  <2> HIDE DEF m
  <2> QED
    BY <1>1, <2>2, <2>3, NoteReadWriters
<1>3. ASSUME NEW r \in Ranks, ClpReadAnti(r) PROVE WrittenByAgents(periods)'
  <2> DEFINE m == Head(toClp[r])
  <2>1. toClp[r] # <<>> /\ m.type = "readAnti"
    BY <1>3 DEF ClpReadAnti, IsNext
  <2>2. m.id.agent \in Agents /\ m.time \in Nat
    BY <1>3, <2>1, ClpTakes DEF ClpReadAnti
  <2>3. \/ periods' = periods
        \/ /\ Covering(periods, m.time) # 0
           /\ periods' = PerformReadRollback(periods, m.id.agent, m.time)
    BY <1>3 DEF ClpReadAnti
  <2> HIDE DEF m
  <2> QED
    BY <1>1, <2>2, <2>3, PerformReadRollbackWriters
<1>4. ASSUME NEW r \in Ranks, ClpWrite(r) PROVE WrittenByAgents(periods)'
  <2> DEFINE m == Head(toClp[r])
  <2>1. toClp[r] # <<>> /\ m.type = "write"
    BY <1>4 DEF ClpWrite, IsNext
  <2>2. /\ m.id \in Ids /\ m.id.agent \in Agents /\ m.time \in Nat /\ m.time < Infinity
    BY <1>4, <2>1, ClpTakes DEF ClpWrite
  <2>3. \/ periods' = periods
        \/ /\ ~IsRefused(periods, m.id.agent, m.time)
           /\ periods' = WriteWithRollback(periods, m.id.agent, m.id, m.time)
    BY <1>4 DEF ClpWrite
  <2> HIDE DEF m
  <2>4. m.id \in Values
    BY <2>2 DEF Values
  <2> QED
    BY <1>1, <2>2, <2>3, <2>4, WriteWithRollbackWriters
<1>5. ASSUME NEW r \in Ranks, ClpWriteAnti(r) PROVE WrittenByAgents(periods)'
  <2> DEFINE m == Head(toClp[r])
  <2>1. toClp[r] # <<>> /\ m.type = "writeAnti"
    BY <1>5 DEF ClpWriteAnti, IsNext
  <2>2. m.time \in Nat
    BY <1>5, <2>1, ClpTakes DEF ClpWriteAnti
  <2>3. \/ periods' = periods
        \/ /\ StartingAt(periods, m.time) # 0
           /\ periods' = PerformWriteRollback(periods, m.time)
    BY <1>5 DEF ClpWriteAnti, CanUndo
  <2> HIDE DEF m
  <2> QED
    BY <1>1, <2>2, <2>3, PerformWriteRollbackWriters
<1>6. ASSUME ClpSetGvt PROVE WrittenByAgents(periods)'
  <2>1. periods' = RemoveWritePeriods(periods, gvt) /\ gvt \in Nat /\ gvt < Infinity
    BY <1>6, Times, InfinityAssumption DEF ClpSetGvt, IInv, TypedGvt
  <2> QED
    BY <1>1, <2>1, RemoveWritePeriodsWriters
<1>7. ASSUME UNCHANGED periods PROVE WrittenByAgents(periods)'
  BY <1>7
<1>8. CASE \E a \in Agents : Agent(a)
  BY <1>7, <1>8 DEF Agent, Issue, TimeWrap, Consume, clpVars
<1>9. CASE \E r \in Ranks : AlpSend(r) \/ AlpMain(r) \/ ClpMain(r)
  <2>1. PICK r \in Ranks : AlpSend(r) \/ AlpMain(r) \/ ClpMain(r)
    BY <1>9
  <2>2. CASE AlpSend(r)
    BY <1>7, <2>2 DEF AlpSend, clpVars
  <2>3. CASE AlpMain(r)
    BY <1>7, <2>3 DEF AlpMain, AlpResponse, AlpIgnoreRollback, AlpRollback, AlpSetGvt, clpVars
  <2>4. CASE ClpMain(r)
    BY <1>2, <1>3, <1>4, <1>5, <2>4 DEF ClpMain
  <2> QED
    BY <2>1, <2>2, <2>3, <2>4
<1>10. CASE ClpSetGvt
  BY <1>6, <1>10
<1>11. CASE ComputeGvt
  BY <1>7, <1>11 DEF ComputeGvt, clpVars
<1>12. CASE UNCHANGED vars
  BY <1>7, <1>12 DEF vars, clpVars
<1> QED
  BY <1>8, <1>9, <1>10, <1>11, <1>12 DEF Next

\* Among writes of one and the same time, none is of a smaller agent than one before it
\* (StateVariable::WriteWithRollback, PerformWriteRollback, RemoveWritePeriods).
THEOREM WriterInvariance == Spec => [](IInv /\ WrittenByAgents(periods))
<1>1. Init => WrittenByAgents(periods)
  <2> SUFFICES ASSUME Init PROVE WrittenByAgents(periods)
    OBVIOUS
  <2>1. Len(periods) = 1 /\ periods[1].agent = InitialAgent
    BY DEF Init, Period
  <2> QED
    BY <2>1 DEF WrittenByAgents, WritersInOrder
<1>2. IInv /\ WrittenByAgents(periods) /\ [Next]_vars => (IInv /\ WrittenByAgents(periods))'
  BY NextKeeps, NextKeepsWriters
<1> QED
  BY <1>1, <1>2, InitIInv, PTL DEF Spec

\* Whenever the CLP may migrate the variable, the other CLP gets every write with its
\* start, end and writer, and nothing is left behind (SharedState::Insert,
\* RemoveWritePeriodList).
THEOREM MigrationCopies == Spec => []MigrationKeepsWrites
<1>1. IInv /\ WrittenByAgents(periods) => MigrationKeepsWrites
  <2> SUFFICES ASSUME IInv, WrittenByAgents(periods) PROVE MigrationKeepsWrites
    OBVIOUS
  <2>1. ListInv(periods, Values, Agents)
    BY DEF IInv
  <2>2. Insert(periods) = [k \in DOMAIN periods |-> [periods[k] EXCEPT !.reads = {}]]
    BY <2>1, InsertCopies DEF WrittenByAgents
  <2>3. RemoveWritePeriodList(periods).list = <<>>
    <3>1. RemoveWritePeriodList(periods)
            = [list |-> <<>>, requests |-> ReadsUpTo(periods, Agents, Len(periods))]
      BY <2>1, RemovesAll DEF ListInv
    <3> QED
      BY <3>1
  <2> QED
    BY <2>2, <2>3 DEF MigrationKeepsWrites
<1> QED
  BY <1>1, WriterInvariance, PTL

\* And every reader is told to go back before the read the copy does not have, unless it
\* read at the very time of the write (RollbackList::SendRollbacksAfterStateMigration).
THEOREM MigrationTells == Spec => []MigrationTellsReaders
<1>1. IInv => MigrationTellsReaders
  <2> SUFFICES ASSUME IInv, NEW entries \in AddLp(RemoveWritePeriodList(periods).requests),
                      NEW i \in DOMAIN periods, NEW q \in periods[i].reads,
                      q.time > periods[i].start
               PROVE  \E a \in DOMAIN entries :
                        IsSameKey(a, q.agent) /\ TimeAfterMigration(entries[a]) <= q.time
    BY DEF MigrationTellsReaders
  <2>1. /\ periods \in Seq(PeriodsOf(Values, Agents)) /\ Len(periods) \in Nat
        /\ DOMAIN periods = 1 .. Len(periods)
        /\ \A k \in 1 .. Len(periods) :
             /\ periods[k].start \in Nat
             /\ periods[k].reads \in SUBSET [agent : Agents, time : Nat]
    BY ListType DEF IInv, ListInv
  <2>2. PICK requests : requests = ReadsUpTo(periods, Agents, Len(periods))
    OBVIOUS
  <2>3. entries \in AddLp(requests)
    <3>1. RemoveWritePeriodList(periods)
            = [list |-> <<>>, requests |-> ReadsUpTo(periods, Agents, Len(periods))]
      BY <2>1, RemovesAll
    <3> QED
      BY <2>2, <3>1
  <2>4. PICK p : p = [agent |-> q.agent, time |-> periods[i].start]
    OBVIOUS
  <2>5. q \in [agent : Agents, time : Nat] /\ periods[i].start \in Nat
    BY <2>1
  <2>6. p \in requests
    BY <2>1, <2>2, <2>4, <2>5 DEF ReadsUpTo
  <2>7. requests \in SUBSET [agent : Agents, time : Nat] /\ Agents \in SUBSET LpId
    BY <2>2, TimeWarpAssumption DEF ReadsUpTo
  <2>8. PICK a \in DOMAIN entries :
          IsSameKey(a, p.agent) /\ entries[a] \in Nat /\ entries[a] <= p.time
    BY <2>3, <2>6, <2>7, AddLpTells
  <2>9. TimeAfterMigration(entries[a]) <= q.time
    BY <2>4, <2>5, <2>8 DEF TimeAfterMigration
  <2> QED
    BY <2>4, <2>8, <2>9
<1> QED
  BY <1>1, Invariance, PTL
=============================================================================
