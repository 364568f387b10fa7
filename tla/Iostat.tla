------------------------------- MODULE Iostat -------------------------------
(***************************************************************************)
(* How DiskPrivate::DiskIO (DiskMonitor.cpp) turns one run of the command  *)
(* "iostat -d 1 2" into a read rate and a write rate.                      *)
(*                                                                         *)
(* A line of the command's output is abstracted to what sscanf finds in    *)
(* it: dev is the first word ("" on a blank line), rates the columns       *)
(* kB_read/s and kB_wrtn/s (<<>> on a line without numbers).               *)
(***************************************************************************)
EXTENDS Naturals, Sequences, SequencesExt

Banner == [dev |-> "Linux",  rates |-> <<>>]
Blank  == [dev |-> "",       rates |-> <<>>]
Title  == [dev |-> "Device", rates |-> <<>>]
Row(d, r, w) == [dev |-> d, rates |-> <<r, w>>]

\* The command prints the banner, a blank line and two reports, each made of
\* the title line, a line per device and `tail` blank lines (one or two,
\* depending on the version of sysstat).
Report(rows, tail) == <<Title>> \o rows \o [i \in 1..tail |-> Blank]
IostatOutput(first, second, tail) ==
  <<Banner, Blank>> \o Report(first, tail) \o Report(second, tail)

\* The shell prints nothing on stdout when iostat is not installed.
NotInstalled == <<>>

-----------------------------------------------------------------------------
(* The local variables of DiskIO before its reading loop. devName is an    *)
(* uninitialized array: dev0 is whatever the stack holds.                  *)
StartParse(dev0) ==
  [devName |-> dev0, data |-> <<0, 0>>, secondTime |-> FALSE,
   readIO |-> 0, writeIO |-> 0]

(* sscanf assigns only the fields it finds: the others keep the value that *)
(* an earlier line gave them.                                              *)
Sscanf(s, line) ==
  [s EXCEPT !.devName = IF line.dev = "" THEN @ ELSE line.dev,
            !.data    = IF line.rates = <<>> THEN @ ELSE line.rates]

\* A plausible bug: rows are added whether or not the second title was seen.
ReadLineIgnoringSecondTime(s, line) ==
  LET t == Sscanf(s, line) IN
  IF t.devName # "Device"
    THEN [t EXCEPT !.readIO = @ + t.data[1], !.writeIO = @ + t.data[2]]
    ELSE [t EXCEPT !.secondTime = TRUE]

(* One iteration of the loop that reads the pipe line by line.             *)
ReadLine(s, line) ==
  LET t == Sscanf(s, line) IN
  IF ~t.secondTime /\ t.devName = "Device"
    THEN [t EXCEPT !.secondTime = TRUE]
  ELSE IF t.secondTime /\ t.devName # "Device"
    THEN [t EXCEPT !.readIO = @ + t.data[1], !.writeIO = @ + t.data[2]]
  ELSE t

(* The rates DiskIO is about to store: three fgets drop the banner, the    *)
(* blank line and the first title, the loop reads the rest.                *)
ParseIostat(out, dev0) ==
  LET end == FoldLeft(ReadLine, StartParse(dev0), SubSeq(out, 4, Len(out)))
  IN  [read |-> end.readIO, write |-> end.writeIO]
=============================================================================
