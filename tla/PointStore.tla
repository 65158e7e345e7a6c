---------------------------- MODULE PointStore ----------------------------
(***************************************************************************)
(* Last-write-wins merge of a point batch into the points of one owner (a *)
(* node or an edge).  The store itself (store/sqlite.go) is not part of    *)
(* this source tree: the merge is modelled from spec section 4.1 and from  *)
(* what src/store/sqlite_test.go pins down:                                 *)
(*   - TestDbSqlite: a point with an older time leaves the stored point;   *)
(*   - TestDbSqliteBatchPoints: a batch of points of one type collapses to *)
(*     its latest point.                                                   *)
(* A point is reduced to its type (Type and Key together), its time and    *)
(* its value; an owner's points are a function from point type to the     *)
(* stored [time, value], NoPoint where none has been written.              *)
(***************************************************************************)
EXTENDS Naturals, Sequences

\* The zero point: what an owner holds for a type never written.  Every
\* point that is written carries a time >= 1.
NoPoint == [time |-> 0, value |-> 0]

\* The stored form of a written point.
Stored(p) == [time |-> p.time, value |-> p.value]

\* A point is applied iff its time is strictly greater than the stored
\* point's time; ties keep what is stored.
Newer(p, stored) == p.time > stored.time

\* Merge a batch point by point, in batch order.  Returns the owner's new
\* points and the subsequence of the batch that was applied (the points
\* reported to subscribers, spec 4.1).
RECURSIVE MergeFrom(_, _, _)
MergeFrom(pts, batch, applied) ==
  IF batch = <<>> THEN [points |-> pts, applied |-> applied]
  ELSE LET p == Head(batch)
       IN  IF Newer(p, pts[p.type])
           THEN MergeFrom([pts EXCEPT ![p.type] = Stored(p)], Tail(batch),
                          Append(applied, p))
           ELSE MergeFrom(pts, Tail(batch), applied)

UpsertPoints(pts, batch) == MergeFrom(pts, batch, <<>>)
=============================================================================
