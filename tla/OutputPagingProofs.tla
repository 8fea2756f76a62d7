------------------------- MODULE OutputPagingProofs -------------------------
(***************************************************************************)
(* Reading page by page, for texts of any length and of any characters,    *)
(* and for any page sizes.                                                 *)
(***************************************************************************)
EXTENDS OutputPaging, TLAPS

USE PagingAssumption DEF MIN_RESULT_CHUNK_BYTES

\* The page sizes, and the one of a caller that has not asked yet, are numbers.
LEMMA LimitsAreNumbers == \A limit \in Limits \cup {0} : limit \in Nat
OBVIOUS

\* The ends of a page are after its beginning, in the text and in the file.
LEMMA PageEndsInFile ==
    ASSUME PagingTypeOK, NEW n \in PageEnds(reader.offset, reader.limit)
    PROVE  n \in Boundaries /\ n \in 0 .. Total /\ reader.offset < n /\ n <= written
BY DEF PageEnds

\* No action leaves the domains of the variables.
LEMMA PagingTypes == PagingTypeOK /\ [PagingNext]_pagingVars => PagingTypeOK'
<1> SUFFICES ASSUME PagingTypeOK, [PagingNext]_pagingVars PROVE PagingTypeOK'
  OBVIOUS
<1> USE DEF PagingTypeOK
<1>1. CASE OpensDiff
  BY <1>1 DEF OpensDiff
<1>2. CASE AppendsBytes
  BY <1>2 DEF AppendsBytes
<1>3. CASE WriterStops
  BY <1>3 DEF WriterStops
<1>4. CASE Settles
  BY <1>4 DEF Settles
<1>5. CASE StartsReading
  BY <1>5 DEF StartsReading
<1>6. ASSUME NEW limit \in Limits, ReadsStatus(limit) PROVE PagingTypeOK'
  BY <1>6 DEF ReadsStatus
<1>7. CASE MeasuresFile
  BY <1>7 DEF MeasuresFile
<1>8. CASE ReadsPage
  BY <1>8, PageEndsInFile DEF ReadsPage
<1>9. CASE UNCHANGED pagingVars
  BY <1>9 DEF pagingVars
<1>10. QED
  BY <1>1, <1>2, <1>3, <1>4, <1>5, <1>6, <1>7, <1>8, <1>9 DEF PagingNext, ReaderStep

\* PagingInv is inductive.
LEMMA PagingStep == PagingInv /\ [PagingNext]_pagingVars => PagingInv'
<1> SUFFICES ASSUME PagingInv, [PagingNext]_pagingVars PROVE PagingInv'
  OBVIOUS
<1>1. PagingTypeOK /\ PagingTypeOK'
  BY PagingTypes DEF PagingInv
<1> USE <1>1 DEF PagingInv, PagingTypeOK, Known
<1>2. CASE OpensDiff
  BY <1>2 DEF OpensDiff
<1>3. CASE AppendsBytes
  BY <1>3 DEF AppendsBytes
<1>4. CASE WriterStops
  BY <1>4 DEF WriterStops
<1>5. CASE Settles
  BY <1>5 DEF Settles
<1>6. CASE StartsReading
  BY <1>6 DEF StartsReading
<1>7. ASSUME NEW limit \in Limits, ReadsStatus(limit) PROVE PagingInv'
  BY <1>7 DEF ReadsStatus
<1>8. CASE MeasuresFile
  BY <1>8 DEF MeasuresFile
<1>9. CASE ReadsPage
  <2>1. UNCHANGED <<kind, written, version, output, settled, unfinished>>
    BY <1>9 DEF ReadsPage
  <2>2. CASE reader' = [reader EXCEPT !.pc = "idle"]
    BY <2>1, <2>2
  <2>3. ASSUME NEW end \in PageEnds(reader.offset, reader.limit),
               reader' = [reader EXCEPT !.pc = "idle", !.offset = end,
                              !.eof = end >= reader.size /\ reader.terminal]
        PROVE  PagingInv'
    <3>1. end \in Boundaries /\ end \in 0 .. Total /\ end <= written
      BY PageEndsInFile
    <3>2. reader.pc = "read"
      BY <1>9 DEF ReadsPage
    <3>3. reader'.eof => reader.terminal /\ end >= reader.size
      BY <2>3
    <3> QED
      BY <2>1, <2>3, <3>1, <3>2, <3>3
  <2> QED
    BY <1>9, <2>2, <2>3 DEF ReadsPage
<1>10. CASE UNCHANGED pagingVars
  BY <1>10 DEF pagingVars
<1>11. QED
  BY <1>2, <1>3, <1>4, <1>5, <1>6, <1>7, <1>8, <1>9, <1>10 DEF PagingNext, ReaderStep

\* PagingInv holds in every state.
THEOREM PagingInvariance == PagingSpec => []PagingInv
<1>1. PagingInit => PagingInv
  <2> SUFFICES ASSUME PagingInit PROVE PagingInv
    OBVIOUS
  <2>1. PagingTypeOK
    <3>1. version \in 0 .. MaxVersions /\ written \in 0 .. Total
      BY DEF PagingInit
    <3> QED
      BY <3>1 DEF PagingInit, PagingTypeOK
  <2>2. QED
    BY <2>1 DEF PagingInit, PagingInv
<1>2. QED
  BY <1>1, PagingStep, PTL DEF PagingSpec

\* The pages of a log, joined, are whole characters of what is in the file.
THEOREM LogPagesJoin == PagingSpec => []PagesJoin
<1>1. PagingInv => PagesJoin
  BY DEF PagingInv, PagesJoin
<1>2. QED
  BY <1>1, PagingInvariance, PTL

\* A caller that is told that there is nothing more has everything, and nothing
\* will be added.
THEOREM EndsAreFinal == PagingSpec => []EofIsFinal
<1>1. PagingInv => EofIsFinal
  BY DEF PagingInv, EofIsFinal, Known
<1>2. QED
  BY <1>1, PagingInvariance, PTL

\* Four bytes are enough: between two places where characters end there is one
\* that is at most four bytes after the first.
LEMMA NextBoundary ==
    ASSUME NEW b \in Boundaries, NEW to \in Boundaries, b < to
    PROVE  \E c \in Boundaries : b < c /\ c <= b + 4 /\ c <= to
<1>1. PICK c \in Boundaries : b < c /\ c <= b + 4
  OBVIOUS
<1>2. QED
  BY <1>1

\* A page of a text that is there is never refused, and brings the caller on.
THEOREM PagesBringOn == PagingSpec => PagesAdvance
<1> DEFINE Advance == ReadsPage /\ reader.offset < written /\ written \in Boundaries
                        => reader'.offset > reader.offset
<1>1. PagingInv => Advance
  <2> SUFFICES ASSUME PagingInv, ReadsPage, reader.offset < written, written \in Boundaries
               PROVE  reader'.offset > reader.offset
    OBVIOUS
  <2> USE DEF PagingInv, PagingTypeOK
  <2>1. PICK c \in Boundaries : reader.offset < c /\ c <= reader.offset + 4 /\ c <= written
    BY NextBoundary
  <2>2. c \in PageEnds(reader.offset, reader.limit)
    <3>1. reader.pc = "read"
      BY DEF ReadsPage
    <3>2. reader.limit \in Nat /\ reader.limit >= 4 /\ reader.offset \in Nat
      <4>1. reader.limit \in Limits \cup {0} /\ reader.offset \in 0 .. Total
        OBVIOUS
      <4>2. reader.limit >= 4
        BY <3>1
      <4>3. reader.offset \in Nat
        BY <4>1
      <4>4. reader.limit \in Nat
        BY <4>1, LimitsAreNumbers
      <4> QED
        BY <4>2, <4>3, <4>4
    <3>3. c \in Nat /\ c <= reader.offset + reader.limit
      BY <2>1, <3>2
    <3> QED
      BY <2>1, <3>3 DEF PageEnds
  <2>3. PICK end \in PageEnds(reader.offset, reader.limit) :
            reader' = [reader EXCEPT !.pc = "idle", !.offset = end,
                           !.eof = end >= reader.size /\ reader.terminal]
    BY <2>2 DEF ReadsPage
  <2>4. QED
    BY <2>3, PageEndsInFile
<1>2. QED
  BY <1>1, PagingInvariance, PTL DEF PagesAdvance
=============================================================================
