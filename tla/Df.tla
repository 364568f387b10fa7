--------------------------------- MODULE Df ---------------------------------
(***************************************************************************)
(* How DiskPrivate::DiskInfoByDf (DiskMonitor.cpp) reads the table that    *)
(* the command df prints, and what DiskMonitor sums from it.               *)
(*                                                                         *)
(* A row is what fscanf can tell apart: whether the file system starts     *)
(* with "/dev/", the three numbers (in kB), and its shape: "plain",        *)
(* "dash" (a column that is no number) or "space" (a mount point made of   *)
(* several words). The title line is not part of the table.                *)
(***************************************************************************)
EXTENDS Integers, Sequences, SequencesExt

DfRow == [dev : BOOLEAN, blocks : Nat, used : Nat, available : Nat,
          shape : {"plain", "dash", "space"}]

\* A plausible bug: the return value of fscanf is not looked at.
ReadRowSkipping(s, row) ==
  IF row.dev THEN [s EXCEPT !.disks = Append(@, row)] ELSE s

(* One evaluation of the loop condition, and the loop body: fscanf reads   *)
(* six tokens wherever it stands. A column that is no number ends the      *)
(* loop. So does, one row later, the second word of a mount point: it is   *)
(* taken for a file system and the next file system for a number.          *)
ReadRow(s, row) ==
  IF ~s.reading \/ row.shape = "dash" THEN [s EXCEPT !.reading = FALSE]
  ELSE [reading |-> row.shape # "space",
        disks   |-> IF row.dev THEN Append(s.disks, row) ELSE s.disks]

DiskInfoByDf(table) ==
  FoldLeft(ReadRow, [reading |-> TRUE, disks |-> <<>>], table).disks

\* The sums, in kB: the code divides each term by the kB of a TB.
DiskTotal(disks) == FoldLeft(LAMBDA sum, d : sum + d.blocks, 0, disks)
DiskUsed(disks)  == FoldLeft(LAMBDA sum, d : sum + d.used, 0, disks)
=============================================================================
