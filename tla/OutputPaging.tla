---------------------------- MODULE OutputPaging ----------------------------
(***************************************************************************)
(* get_run_result, get_watch_log and get_watch_result: a caller reads the  *)
(* output of a run page by page while it is still being written.  A page   *)
(* begins at the offset the caller asks for, the next_offset of the page   *)
(* before, and ends on a character boundary.                               *)
(*                                                                         *)
(* The output is either a "log", to which Agy appends bytes until it ends, *)
(* in the middle of a character if it is killed, or a "diff", which a      *)
(* finalizer writes from the start before it settles the watch, and which  *)
(* the next one writes again if it dies.  The text is its length in bytes  *)
(* and the offsets at which its characters begin and end; no character has *)
(* more than four bytes.                                                   *)
(***************************************************************************)
EXTENDS Naturals

CONSTANTS
    Total,          \* the length of the text in bytes
    Boundaries,     \* where its characters begin and end
    Limits,         \* the page sizes callers ask for
    MaxVersions     \* bound on the number of times a diff is written

ASSUME PagingAssumption ==
    /\ Total \in Nat
    /\ Boundaries \subseteq 0 .. Total
    /\ {0, Total} \subseteq Boundaries
    /\ \A b \in Boundaries \ {Total} : \E c \in Boundaries : b < c /\ c <= b + 4
    /\ Limits \subseteq Nat
    /\ MaxVersions \in Nat \ {0}

VARIABLES
    kind,           \* "log" or "diff"
    written,        \* the length of the file
    version,        \* how often the file has been begun
    output,         \* its writer: "none" yet or any more, or "writing"
    settled,        \* the record has a terminal status
    unfinished,     \* it was given one before the writer was done
    reader          \* the caller: program counter, offset, what it read before

pagingVars == <<kind, written, version, output, settled, unfinished, reader>>

\* Mutant: a page may be shorter than a character.
MinOfThree == 3

MIN_RESULT_CHUNK_BYTES == 4

PagingInit ==
    /\ kind \in {"log", "diff"}
    /\ written = 0
    /\ version = IF kind = "log" THEN 1 ELSE 0
    /\ output = IF kind = "log" THEN "writing" ELSE "none"
    /\ settled = FALSE
    /\ unfinished = FALSE
    /\ reader = [pc |-> "none", offset |-> 0, limit |-> 0, terminal |-> FALSE,
                 size |-> 0, early |-> FALSE, eof |-> FALSE]

(***************************************************************************)
(* The writers.                                                            *)
(***************************************************************************)
\* finalize_watch opens the diff, which empties it.
OpensDiff ==
    /\ kind = "diff" /\ output = "none" /\ ~settled
    /\ version < MaxVersions
    /\ version' = version + 1
    /\ written' = 0
    /\ output' = "writing"
    /\ UNCHANGED <<kind, settled, unfinished, reader>>

AppendsBytes ==
    /\ output = "writing"
    /\ \E n \in written + 1 .. Total : written' = n
    /\ UNCHANGED <<kind, version, output, settled, unfinished, reader>>

\* Agy ends, or is killed; the finalizer is killed.
WriterStops ==
    /\ output = "writing"
    /\ output' = "none"
    /\ UNCHANGED <<kind, written, version, settled, unfinished, reader>>

\* Mutant: the status is written before the diff is.
SettlesBeforeDiff ==
    /\ ~settled
    /\ settled' = TRUE
    /\ unfinished' = (kind = "log" /\ output = "writing")
    /\ UNCHANGED <<kind, written, version, output, reader>>

\* The status becomes terminal: once the writer is done; with Agy alive, when a
\* cleanup stays pending or a watch is cancelled, which finds no complete diff,
\* unless it has to wait for the lock that the finalizer holds.
Settles ==
    /\ ~settled
    /\ settled' = TRUE
    /\ \/ /\ kind = "log"
          /\ unfinished' = (output = "writing")
          /\ UNCHANGED output
       \/ /\ kind = "diff" /\ output = "writing" /\ written = Total
          /\ output' = "none"
          /\ UNCHANGED unfinished
       \/ /\ kind = "diff" /\ output = "none"
          /\ unfinished' = TRUE
          /\ UNCHANGED output
    /\ UNCHANGED <<kind, written, version, reader>>

(***************************************************************************)
(* The caller.                                                             *)
(***************************************************************************)
\* Somebody begins to read, at the start of the output.
StartsReading ==
    /\ reader.pc = "none"
    /\ reader' = [reader EXCEPT !.pc = "idle"]
    /\ UNCHANGED <<kind, written, version, output, settled, unfinished>>

\* The status is read first.
ReadsStatus(limit) ==
    /\ reader.pc = "idle" /\ ~reader.eof
    /\ limit >= MIN_RESULT_CHUNK_BYTES
    /\ reader' = [reader EXCEPT !.pc = "measure", !.limit = limit, !.terminal = settled,
                                !.early = @ \/ ~settled]
    /\ UNCHANGED <<kind, written, version, output, settled, unfinished>>

\* Nothing is read when the file ends at the offset.
MeasuresFile ==
    /\ reader.pc = "measure"
    /\ reader' = [reader EXCEPT
          !.pc = IF reader.offset < written THEN "read" ELSE "idle",
          !.size = written,
          !.eof = reader.offset >= written /\ reader.terminal]
    /\ UNCHANGED <<kind, written, version, output, settled, unfinished>>

\* Mutant: a page that ends inside a character is returned as it is.
EndsAnywhere(from, limit) == {n \in 0 .. Total : from < n /\ n <= from + limit /\ n <= written}

\* The ends of the whole characters of a page that begins at an offset.
PageEnds(from, limit) == {b \in Boundaries : from < b /\ b <= from + limit /\ b <= written}

\* What is read may be more than was measured.  A page in which no character
\* ends, or that begins within one, is refused, and asked for again.
ReadsPage ==
    /\ reader.pc = "read"
    /\ LET ends == PageEnds(reader.offset, reader.limit)
       IN  IF ends = {} \/ reader.offset \notin Boundaries
           THEN reader' = [reader EXCEPT !.pc = "idle"]
           ELSE \E end \in ends :
                   /\ \A b \in ends : b <= end
                   /\ reader' = [reader EXCEPT !.pc = "idle", !.offset = end,
                                     !.eof = end >= reader.size /\ reader.terminal]
    /\ UNCHANGED <<kind, written, version, output, settled, unfinished>>

ReaderStep == MeasuresFile \/ ReadsPage \/ \E limit \in Limits : ReadsStatus(limit)

PagingNext == OpensDiff \/ AppendsBytes \/ WriterStops \/ Settles \/ StartsReading \/ ReaderStep

PagingSpec == PagingInit /\ [][PagingNext]_pagingVars

\* The caller asks for the next page until it is told that there is none.
PagingFairness == WF_pagingVars(ReaderStep)

(***************************************************************************)
(* Properties.                                                             *)
(***************************************************************************)
\* Every variable stays in its domain.
PagingTypeOK ==
    /\ kind \in {"log", "diff"}
    /\ written \in 0 .. Total
    /\ version \in 0 .. MaxVersions
    /\ output \in {"none", "writing"}
    /\ settled \in BOOLEAN /\ unfinished \in BOOLEAN
    /\ reader \in [pc : {"none", "idle", "measure", "read"}, offset : 0 .. Total,
                   limit : Limits \cup {0}, terminal : BOOLEAN, size : 0 .. Total,
                   early : BOOLEAN, eof : BOOLEAN]

\* What a caller knows to be incomplete: the output of something that was still
\* at work when the outcome was decided, and a diff it began to read before.
Known == unfinished \/ (kind = "diff" /\ reader.early)

\* Why a caller that was told of the end has read it.  A terminal status that the
\* caller has seen means that the writer is done; what it has measured and where it
\* stands is in the file; and it asks for pages in which a character has room.
PagingInv ==
    /\ PagingTypeOK
    /\ settled /\ ~unfinished => output = "none" /\ (kind = "diff" => written = Total)
    /\ reader.terminal => settled
    /\ reader.pc \in {"measure", "read"} =>
          /\ reader.limit >= MIN_RESULT_CHUNK_BYTES
          /\ reader.early \/ reader.terminal
          /\ ~reader.eof
    /\ reader.offset \in Boundaries
    /\ kind = "log" => reader.offset <= written /\ reader.size <= written
    /\ ~settled /\ ~reader.early => reader.pc \in {"none", "idle"} /\ reader.offset = 0
    /\ reader.pc = "read" /\ reader.terminal /\ ~Known => reader.size = written
    /\ reader.eof => reader.terminal /\ (Known \/ reader.offset = written)

\* However pages and appended bytes interleave, the pages of a log, joined, are
\* whole characters of what is in the file.
PagesJoin ==
    /\ reader.offset \in Boundaries
    /\ kind = "log" => reader.offset <= written

\* A caller that was told that there is nothing more has everything, and nothing
\* will be added, although the status and the file are read at different times.
EofIsFinal == reader.eof /\ ~Known => reader.offset = written /\ output = "none"

\* While the file ends with a whole character, and the caller is not at its end,
\* each page brings it nearer, whatever page sizes it asks for.
PagesAdvance ==
    [][ReadsPage /\ reader.offset < written /\ written \in Boundaries
          => reader'.offset > reader.offset]_pagingVars

\* A caller that asks for page after page, of whatever size, gets to the end of
\* every output that ends with a whole character.
ReaderFinishes ==
    (reader.pc # "none" /\ settled /\ output = "none" /\ written \in Boundaries /\ ~Known)
        ~> (reader.eof \/ Known)
=============================================================================
