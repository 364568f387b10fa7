------------------------------ MODULE CpuInfo ------------------------------
(***************************************************************************)
(* How CPUPrivate::GetCPUModelNameAndBaseClock (CPUMonitor.cpp) looks for  *)
(* the name and the clock of the processor in /proc/cpuinfo.               *)
(*                                                                         *)
(* A line is its key, as far as the two strncmp tell keys apart, and the   *)
(* text after its colon. A text is a sequence of character codes.          *)
(***************************************************************************)
EXTENDS Integers, Sequences, SequencesExt

Line(key, value) == [key |-> key, value |-> value]

IsSpace(c) == c = 32 \/ (c <= 13 /\ c >= 9)

\* A plausible bug: the line feed fgets keeps is the only character cut off.
StringTrimmedLineFeed(str) ==
  IF str # <<>> /\ Last(str) = 10 THEN Front(str) ELSE str

(* Two loops: the first moves end to the left over spaces, the second      *)
(* begin to the right, until they meet.                                    *)
StringTrimmed(str) ==
  LET end[n \in 0..Len(str)] ==
        IF n > 0 /\ IsSpace(str[n]) THEN end[n - 1] ELSE n
      begin[n \in 0..Len(str)] ==
        IF n < end[Len(str)] /\ IsSpace(str[n + 1]) THEN begin[n + 1] ELSE n
  IN  SubSeq(str, begin[0] + 1, end[Len(str)])

\* A plausible bug: the loop goes on after both have been found, and takes what the
\* last processor shows.
ScanLineToTheEnd(s, line) ==
  CASE line.key = "model name" -> [s EXCEPT !.modelName = StringTrimmed(line.value)]
    [] line.key = "cpu MHz" -> [s EXCEPT !.cpuMhz = StringTrimmed(line.value)]
    [] OTHER -> s

\* One iteration of the loop: nothing is read once two keys have been met.
ScanLine(s, line) ==
  CASE s.findNum = 2 -> s
    [] s.findNum # 2 /\ line.key = "model name" ->
         [s EXCEPT !.modelName = StringTrimmed(line.value), !.findNum = @ + 1]
    [] s.findNum # 2 /\ line.key = "cpu MHz" ->
         [s EXCEPT !.cpuMhz = StringTrimmed(line.value), !.findNum = @ + 1]
    [] OTHER -> s

(* feof is true only after an fgets that read nothing: that iteration sees *)
(* the empty buffer memset left.                                           *)
GetCPUModelNameAndBaseClock(file) ==
  FoldLeft(ScanLine, [modelName |-> <<>>, cpuMhz |-> <<>>, findNum |-> 0],
           Append(file, Line("", <<>>)))
=============================================================================
