----------------------------- MODULE MCUpvalues -----------------------------
(***************************************************************************)
(* Upvalues for TLC: at most six variables last at once.                   *)
(***************************************************************************)
EXTENDS Upvalues

MCVars == 1 .. 6
MCValues == {"a", "b"}

\* Which identity a variable has makes no difference, only which slots and
\* upvalues have the same one.
SameVariable ==
  LET all == home \o of
  IN  {<<i, j>> \in (1 .. Len(all)) \X (1 .. Len(all)) : i < j /\ all[i] = all[j]}

UpToRenaming ==
  <<stack, frames, closures, location, closed, open, pending, stranded, SameVariable>>
=============================================================================
