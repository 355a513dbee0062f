------------------------------ MODULE RateLog -------------------------------
(***************************************************************************)
(* Utils::WriteFile: a file that keeps the last lines that were written to *)
(* it.  Each call reads the whole file, truncates it, takes lines off the  *)
(* front of what it has read until that is short enough, and writes it     *)
(* back with one line more.  The process may be killed anywhere.  What     *)
(* goes through the stream's buffer reaches the file with std::endl, but   *)
(* the old text may reach it before.                                       *)
(***************************************************************************)
EXTENDS Naturals, Sequences

CONSTANTS
  Lengths,   \* bound: the lengths of the lines that are written
  MaxSize,       \* MAX_RATE_RECORD
  MaxCalls   \* bound: the calls

(* Lines have lengths, and the file a bound. *)
ASSUME RateLogAssumption == Lengths \subseteq Nat /\ MaxSize \in Nat

VARIABLES
  file,     \* the lines of the file
  str,      \* those in memory
  doing,    \* what WriteFile does next, "none" outside it
  calls,    \* the lines that were to be written so far
  killed    \* since then a call was killed

logVars == <<file, str, doing, calls, killed>>

LogInit ==
  file = <<>> /\ str = <<>> /\ doing = "none" /\ calls = 0 /\ killed = FALSE

(* Where each of the lines ends, and so how long they are together. *)
Ends(lines) ==
  LET end[k \in 0 .. Len(lines)] ==
        IF k = 0 THEN 0 ELSE end[k - 1] + lines[k].length
  IN end
TextSize(lines) == Ends(lines)[Len(lines)]

(* ReadFileIntoString *)
Read ==
  /\ doing = "none" /\ calls < MaxCalls
  /\ str' = file
  /\ doing' = "open"
  /\ UNCHANGED <<file, calls, killed>>

(* OpenTrunc that opens the file to append to it (a mutant). *)
OpenAppend ==
  /\ doing = "open"
  /\ doing' = "cut" /\ calls' = calls + 1
  /\ UNCHANGED <<file, str, killed>>

(* If the file cannot be opened, WriteFile returns false. *)
OpenTrunc ==
  /\ doing = "open"
  /\ \/ file' = <<>> /\ doing' = "cut" /\ calls' = calls + 1
     \/ UNCHANGED <<file, calls>> /\ doing' = "none"
  /\ UNCHANGED <<str, killed>>

(* The first line is erased; a file of this function's has no other text. *)
Cut ==
  /\ doing = "cut"
  /\ IF TextSize(str) > MaxSize THEN str' = Tail(str) /\ UNCHANGED doing
     ELSE doing' = "write" /\ UNCHANGED str
  /\ UNCHANGED <<file, calls, killed>>

(* A write that the stream fails, which WriteFile does not look at, leaves the
   file as a Kill at this step does. *)
AppendLine(length) ==
  /\ doing = "write"
  /\ file' = file \o str \o <<[call |-> calls, length |-> length]>>
  /\ doing' = "none" /\ killed' = FALSE
  /\ UNCHANGED <<str, calls>>

Kill ==
  /\ doing # "none"
  /\ file' \in {file} \union (IF doing = "write" THEN {file \o str} ELSE {})
  /\ doing' = "none"
  /\ killed' = (killed \/ doing # "open")
  /\ str' = <<>>
  /\ UNCHANGED calls

LogNext ==
  Read \/ OpenTrunc \/ Cut \/ (\E length \in Lengths : AppendLine(length)) \/ Kill

LogSpec == LogInit /\ [][LogNext]_logVars

-----------------------------------------------------------------------------
(* Between calls the file holds whole lines in the order of their calls, none
   twice, no more of them than the bound and one line; the last is the newest,
   unless a call was killed after it had truncated the file, which can lose
   them all. *)
LogEndsWithNewest ==
  doing = "none" =>
    /\ \A k \in 1 .. Len(file) - 1 : file[k].call < file[k + 1].call
    /\ \A length \in Lengths :
         (\A other \in Lengths : other <= length) => TextSize(file) <= MaxSize + length
    /\ calls > 0 /\ ~killed => file # <<>> /\ file[Len(file)].call = calls
=============================================================================
