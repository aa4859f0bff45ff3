---------------------------- MODULE WritePeriods ----------------------------
(***************************************************************************)
(* The history of one shared state variable (SSV), as StateVariable.cpp    *)
(* and WritePeriod.cpp keep it: a list of write periods in time order,     *)
(* each with the value written, the agent that wrote it and the reads that *)
(* were answered from it.  Writing in the past, or undoing a write, takes  *)
(* the reads that became wrong out of the list and reports them; from the  *)
(* report, RollbackList builds the rollback messages.                      *)
(*                                                                         *)
(* This module is constant-level: each operation of the code is an         *)
(* operator from the old list to the new one and what else it returns.     *)
(* A value is any value of the model (the modules that use this one take   *)
(* the identity of the write message).  The two infinities of the code,    *)
(* ULONG_MAX (WritePeriod.cpp:16) and LONG_MAX (StateVariable.cpp:239),    *)
(* are one number here.                                                    *)
(***************************************************************************)
EXTENDS Integers, Sequences, SequencesExt, FiniteSetsExt

CONSTANT Infinity     \* a time above every timestamp

ASSUME InfinityAssumption == Infinity \in Nat

-----------------------------------------------------------------------------
(***************************************************************************)
(* LpId: an agent's identifier together with the rank of its ALP.  Every   *)
(* comparison but == is the conjunction of the comparisons of the fields.  *)
(***************************************************************************)
LpId == [id : Nat, rank : Nat]

IsLess(a, b)      == a.id < b.id /\ a.rank < b.rank      \* operator<
IsGreater(a, b)   == a.id > b.id /\ a.rank > b.rank      \* operator>
IsDifferent(a, b) == a.id # b.id /\ a.rank # b.rank      \* operator!=

\* What std::map and std::multimap take for "the same key".
IsSameKey(a, b) == ~IsLess(a, b) /\ ~IsLess(b, a)

-----------------------------------------------------------------------------
(***************************************************************************)
(* RollbackList::AddLp on each of a set of requests [agent, time]: one     *)
(* entry per key, with the earliest time asked for that key.  The agent    *)
(* named by the entry is the first that was added; requests come in the    *)
(* order of the multimap of reads, which for equal keys is the order of    *)
(* arrival and is not kept here, so any of them may be the first.          *)
(***************************************************************************)
EarliestFor(requests, a) ==
  Min({q.time : q \in {p \in requests : IsSameKey(p.agent, a)}})

AddLp(requests) ==
  LET askers == {q.agent : q \in requests}
      OnePerKey(named) ==
        /\ \A a, b \in named : a # b => ~IsSameKey(a, b)
        /\ \A a \in askers : \E b \in named : IsSameKey(a, b)
  IN {[a \in named |-> EarliestFor(requests, a)] :
        named \in {s \in SUBSET askers : OnePerKey(s)}}

-----------------------------------------------------------------------------
(***************************************************************************)
(* The list.                                                               *)
(***************************************************************************)
Period(value, time, agent) ==
  [start |-> time, end |-> Infinity, value |-> value, agent |-> agent, reads |-> {}]

\* The walk from the back to the first period that starts at or before time;
\* 0 when there is none.
Covering(list, time) == SelectLastInSeq(list, LAMBDA p : p.start <= time)

\* StateVariable::Read: the period read from, and the list with the read noted.
ReadValue(list, time) == list[Covering(list, time)].value

NoteRead(list, agent, time) ==
  [list EXCEPT ![Covering(list, time)].reads = @ \union {[agent |-> agent, time |-> time]}]

\* StateVariable::PerformReadRollback.
PerformReadRollback(list, agent, time) ==
  [list EXCEPT ![Covering(list, time)].reads = @ \ {[agent |-> agent, time |-> time]}]

\* A write is refused when nothing covers its time, and when the period that
\* covers it starts at that very time and belongs to a greater agent.
IsRefused(list, agent, time) ==
  LET i == Covering(list, time)
  IN /\ list # <<>>
     /\ i # 0 => list[i].start = time /\ IsGreater(list[i].agent, agent)

\* Variant of ReadsFrom that spares a read at that time.
ReadsAfter(period, time) == {r \in period.reads : r.time > time}

\* WritePeriod::RemoveReadsAfterInclusive.
ReadsFrom(period, time) == {r \in period.reads : r.time >= time}

\* Variant of ReadsToRollBack that spares a read at the time of the write.
ReadsToRollBackExclusive(list, time) ==
  IF list = <<>> THEN {} ELSE ReadsAfter(list[Covering(list, time)], time)

\* StateVariable::WriteWithRollback, of a write that is not refused: the reads
\* it invalidates...
ReadsToRollBack(list, time) ==
  IF list = <<>> THEN {} ELSE ReadsFrom(list[Covering(list, time)], time)

\* Variant of WriteWithRollback that leaves the new period without an end.
WritePeriodNotCut(list, agent, value, time) ==
  IF list = <<>> THEN <<Period(value, time, agent)>>
  ELSE LET i      == Covering(list, time)
           closed == [list[i] EXCEPT !.end = time,
                                     !.reads = @ \ ReadsFrom(list[i], time)]
       IN InsertAt([list EXCEPT ![i] = closed], i + 1, Period(value, time, agent))

\* ...and the list it leaves, the covering period cut in two.
WriteWithRollback(list, agent, value, time) ==
  IF list = <<>> THEN <<Period(value, time, agent)>>
  ELSE LET i      == Covering(list, time)
           closed == [list[i] EXCEPT !.end = time,
                                     !.reads = @ \ ReadsFrom(list[i], time)]
           new    == [Period(value, time, agent) EXCEPT
                        !.end = IF i < Len(list) THEN list[i + 1].start ELSE @]
       IN InsertAt([list EXCEPT ![i] = closed], i + 1, new)

(***************************************************************************)
(* StateVariable::PerformWriteRollback.  The walk goes forward and stops   *)
(* at the first period that starts at the time of the write; if that one   *)
(* is a different agent's, nothing is undone.                              *)
(***************************************************************************)
StartingAt(list, time) == SelectInSeq(list, LAMBDA p : p.start = time)

CanUndo(list, agent, time) ==
  LET i == StartingAt(list, time)
  IN i # 0 /\ ~IsDifferent(list[i].agent, agent)

\* WritePeriod::RemoveAllReads: the reads are rolled back to the time of the write.
ReadsOfUndone(list, time) ==
  {[agent |-> r.agent, time |-> time] : r \in list[StartingAt(list, time)].reads}

PerformWriteRollback(list, time) ==
  LET i      == StartingAt(list, time)
      end    == IF i = Len(list) THEN Infinity ELSE list[i].end
      merged == IF i = 1 THEN list ELSE [list EXCEPT ![i - 1].end = end]
  IN RemoveAt(merged, i)

(***************************************************************************)
(* StateVariable::RemoveWritePeriods: what was written before GVT is       *)
(* dropped, and the period that covers GVT is made to start at GVT.        *)
(***************************************************************************)
RemoveWritePeriods(list, gvt) ==
  LET i   == Covering(list, gvt)
      cut == [list EXCEPT ![i] = [list[i] EXCEPT !.start = gvt,
                                                 !.reads = {r \in @ : r.time >= gvt}]]
  IN IF i = 0 THEN list ELSE SubSeq(cut, StartingAt(cut, gvt), Len(cut))

-----------------------------------------------------------------------------
(***************************************************************************)
(* State migration: the CLP that has the variable undoes its periods one   *)
(* after the other and rolls their reads back; the CLP that gets a copy of *)
(* the list writes it anew, without the reads.                             *)
(***************************************************************************)
UndoPeriod(undone, p) ==
  IF CanUndo(undone.list, p.agent, p.start)
  THEN [list     |-> PerformWriteRollback(undone.list, p.start),
        requests |-> undone.requests \union ReadsOfUndone(undone.list, p.start)]
  ELSE undone

\* Variant of RemoveWritePeriodList that stops before the last period.
RemoveAllButLast(list) ==
  FoldLeft(UndoPeriod, [list |-> list, requests |-> {}], Front(list))

\* SharedState::RemoveWritePeriodList: what is left of the list, and the reads
\* to roll back, each to the start of its period.
RemoveWritePeriodList(list) ==
  LET after[n \in 0 .. Len(list)] ==
        IF n = 0 THEN [list |-> list, requests |-> {}] ELSE UndoPeriod(after[n - 1], list[n])
  IN after[Len(list)]

\* RollbackList::SendRollbacksAfterStateMigration goes to one after that.
TimeAfterMigration(time) == time + 1

InsertPeriod(list, p) ==
  IF IsRefused(list, p.agent, p.start) THEN list
  ELSE WriteWithRollback(list, p.agent, p.value, p.start)

\* Variant of Insert that starts with the latest period.
InsertBackwards(list) == FoldLeft(InsertPeriod, <<>>, Reverse(list))

\* SharedState::Insert.
Insert(list) ==
  LET after[n \in 0 .. Len(list)] ==
        IF n = 0 THEN <<>> ELSE InsertPeriod(after[n - 1], list[n])
  IN after[Len(list)]

-----------------------------------------------------------------------------
(***************************************************************************)
(* What the list must look like.                                           *)
(***************************************************************************)
IsWritePeriodList(list, values) ==
  list \in Seq([start : Nat, end : Nat, value : values, agent : LpId,
                reads : SUBSET [agent : LpId, time : Nat]])

\* The periods follow one another without gap or overlap, the last for ever.
IsPartition(list) ==
  /\ \A i \in 1 .. Len(list) :
       list[i].start <= list[i].end
  /\ \A i \in 1 .. Len(list) - 1 : list[i].end = list[i + 1].start
  /\ list # <<>> => Last(list).end = Infinity

\* A read is noted in the period in force at the time of the read.
ReadsAreInside(list) ==
  \A i \in 1 .. Len(list) : \A r \in list[i].reads :
     list[i].start <= r.time /\ r.time < list[i].end
=============================================================================
