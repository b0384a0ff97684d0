----------------------------- MODULE MCHistory -----------------------------
(***************************************************************************)
(* History for TLC: three ids, two of one kind, and stamps that collide.   *)
(***************************************************************************)
EXTENDS History

MCKindOf == [j \in Jobs |-> IF j = 2 THEN "mail" ELSE "fetch"]

Everything == [kind |-> None, status |-> None, since |-> None,
               until |-> None, limit |-> 1]
MCFilters ==
  {Everything,
   [Everything EXCEPT !.limit = 2],
   [Everything EXCEPT !.kind = "fetch", !.limit = 2],
   [Everything EXCEPT !.status = Pending],
   [Everything EXCEPT !.since = 0, !.until = 1, !.limit = None]}
=============================================================================
