--------------------------- MODULE QueueDataProofs ---------------------------
(***************************************************************************)
(* What TLAPS proves of QueueData for every size of the log, of a batch, of *)
(* the page and of a row.                                                   *)
(***************************************************************************)
EXTENDS QueueData, SequenceTheorems, TLAPS

-----------------------------------------------------------------------------
(* The inductive invariant, in three parts.                                  *)

(* Where the reader is: read.sh starts a batch at a multiple of BATCH, what *)
(* earlier batches collected lies below it, and the rows in the page are    *)
(* the slots from i on.                                                     *)
Below(n) == \A a \in DOMAIN out : out[a].slot < n

Reading == rd \in {"show", "next"}

BatchPlace ==
    /\ array_element \in Slots
    /\ \E q \in Nat : i = BATCH * q
    /\ (rd \in {"script", "show", "next", "copy"} \/ (rd = "start" /\ index = 0))
         => Below(i)
    /\ rd \in {"start", "eof"} => Below(i + BATCH)
    /\ rd = "start" /\ index = 0 => queue_array_count = i
    /\ Reading =>
         /\ l = i + pos /\ queue_array_count = l /\ count = pos + 1
         /\ pos < BATCH /\ l \in Slots
         /\ pos = 0 => l + 1 \in Slots

PagePlace ==
    /\ rd \notin {"show", "next", "copy"} => buf = <<>>
    /\ rd = "show" => Len(buf) = pos
    /\ rd = "next" => Len(buf) = pos + 1
    /\ rd = "copy" => Len(buf) \in 1..BATCH
    /\ \A k \in DOMAIN buf : buf[k].slot = i + k - 1 /\ buf[k].pos = k - 1
    /\ rd = "show" /\ pos = 0 => page <= HEADER

PlaceInv == TypeOK /\ BatchPlace /\ PagePlace

(* What the slots hold: those written since array_element was last zeroed   *)
(* hold samples in the order they were taken, the others older ones.  A row *)
(* that was read is older than what is, or will be, written behind its      *)
(* slot; and a row that passed the test of l_next is a new one even if      *)
(* array_element was zeroed after the test.                                 *)
Written == IF writing THEN array_element + 1 ELSE array_element

LogOrdered ==
    \A s \in Slots :
      /\ log[s] <= sampled
      /\ s < Written => log[s] > 0
      /\ \A t \in Slots : s < t /\ t < Written => log[s] < log[t]

RowsOlder ==
    \A a \in DOMAIN Rows :
      /\ Rows[a].sample <= sampled
      /\ \A s \in Slots : Rows[a].slot < s /\ s < Written => Rows[a].sample < log[s]

NextRowNew ==
    rd = "show" /\ pos # 1 =>
      log[l] > 0 /\ \A a \in DOMAIN Rows : Rows[a].sample < log[l]

TimeInv == LogOrdered /\ RowsOlder /\ NextRowNew /\ RowsInTimeOrder

(* What a batch that is over has delivered.                                 *)
BatchOver == rd \in {"copy", "eof"} \/ (rd = "start" /\ index # 0)

Delivered ==
    \A s \in Slots : i <= s /\ s < i + BATCH /\ s < due =>
      \E a \in DOMAIN Rows : Rows[a].slot = s

CompleteInv == due <= array_element /\ (BatchOver /\ ~cut => Delivered)

-----------------------------------------------------------------------------
(* Sequences of rows.                                                       *)

LEMMA RowTyped ==
    ASSUME TypeOK, l \in Slots
    PROVE  /\ Row \in RowType
           /\ Row.slot = l /\ Row.sample = log[l] /\ Row.pos = pos
  BY DEF TypeOK, Row, RowType

LEMMA AppendRow ==
    ASSUME NEW s \in Seq(RowType), NEW r \in RowType
    PROVE  /\ Append(s, r) \in Seq(RowType)
           /\ Len(s) \in Nat
           /\ Len(Append(s, r)) = Len(s) + 1
           /\ DOMAIN s = 1..Len(s)
           /\ DOMAIN Append(s, r) = 1..Len(s)+1
           /\ \A k \in 1..Len(s) : Append(s, r)[k] = s[k]
           /\ Append(s, r)[Len(s) + 1] = r
  BY AppendProperties, LenProperties

LEMMA ConcatRows ==
    ASSUME NEW s \in Seq(RowType), NEW t \in Seq(RowType)
    PROVE  /\ s \o t \in Seq(RowType)
           /\ Len(s) \in Nat /\ Len(t) \in Nat
           /\ DOMAIN s = 1..Len(s) /\ DOMAIN t = 1..Len(t)
           /\ Len(s \o t) = Len(s) + Len(t)
           /\ DOMAIN (s \o t) = 1..Len(s) + Len(t)
           /\ \A k \in 1..Len(s) + Len(t) :
                (s \o t)[k] = IF k <= Len(s) THEN s[k] ELSE t[k - Len(s)]
           /\ \A k \in 1..Len(s) + Len(t) : (s \o t)[k] \in RowType
  <1>1. s \o t \in Seq(RowType)
    BY ConcatProperties
  <1>2. \A k \in 1..Len(s \o t) : (s \o t)[k] \in RowType
    BY <1>1, ElementOfSeq
  <1> QED
    BY <1>1, <1>2, ConcatProperties, LenProperties

(* Every row is one of those copied out or one of those in the page.        *)
LEMMA RowOfBoth ==
    ASSUME TypeOK, NEW a \in DOMAIN Rows
    PROVE  \/ a \in DOMAIN out /\ Rows[a] = out[a]
           \/ /\ a - Len(out) \in DOMAIN buf
              /\ Rows[a] = buf[a - Len(out)]
  BY ConcatRows DEF TypeOK, Rows

-----------------------------------------------------------------------------
(* The place of every row.                                                  *)

LEMMA PlaceInit == Init => PlaceInv
  <1> SUFFICES ASSUME Init PROVE PlaceInv
    OBVIOUS
  <1> USE LogAssumption
  <1>1. TypeOK
    <2>1. log \in [Slots -> Nat]
      BY DEF Init
    <2>2. <<>> \in Seq(RowType)
      BY EmptySeq
    <2>3. 1 \in 1..BATCH+1 /\ 0 \in Nat
      OBVIOUS
    <2> QED
      BY <2>1, <2>2, <2>3, Zenon DEF Init, TypeOK
  <1>2. BatchPlace
    <2>1. i = BATCH * 0
      BY DEF Init
    <2> QED
      BY <2>1 DEF Init, BatchPlace, Slots, Below, Reading
  <1>3. PagePlace
    BY DEF Init, PagePlace
  <1> QED
    BY <1>1, <1>2, <1>3 DEF PlaceInv

LEMMA PlaceWriter ==
    ASSUME PlaceInv, WriteRecord \/ MoveOn \/ ZeroElement
    PROVE  PlaceInv'
  <1> USE LogAssumption DEF PlaceInv
  <1>1. TypeOK'
    <2>1. CASE WriteRecord
      <3>1. log' \in [Slots -> Nat]
        <4>1. log' = [log EXCEPT ![array_element] = sampled + 1]
          BY <2>1 DEF WriteRecord
        <4>2. log \in [Slots -> Nat] /\ sampled \in Nat
          BY DEF TypeOK
        <4>3. sampled + 1 \in Nat
          BY <4>2
        <4> QED
          BY <4>1, <4>2, <4>3, Zenon
      <3>2. sampled' \in Nat
        BY <2>1 DEF TypeOK, WriteRecord
      <3>3. writing' \in BOOLEAN
        BY <2>1, Zenon DEF TypeOK, WriteRecord
      <3> QED
        BY <2>1, <3>1, <3>2, <3>3 DEF TypeOK, WriteRecord, fileVars
    <2>2. CASE MoveOn
      <3>1. array_element' \in Nat
        BY <2>2 DEF TypeOK, MoveOn
      <3>2. writing' \in BOOLEAN
        BY <2>2, Zenon DEF TypeOK, MoveOn
      <3> QED
        BY <2>2, <3>1, <3>2 DEF TypeOK, MoveOn, fileVars
    <2>3. CASE ZeroElement
      BY <2>3 DEF TypeOK, ZeroElement, fileVars
    <2> QED
      BY <2>1, <2>2, <2>3
  <1>2. array_element' \in Slots
    BY DEF WriteRecord, MoveOn, ZeroElement, BatchPlace, Slots
  <1>3. UNCHANGED <<fileVars, i, rd, out>>
    BY DEF WriteRecord, MoveOn, ZeroElement
  <1>4. BatchPlace'
    BY <1>2, <1>3 DEF BatchPlace, Below, Reading, fileVars
  <1>5. PagePlace'
    BY <1>3 DEF PagePlace, fileVars
  <1> QED
    BY <1>1, <1>4, <1>5

LEMMA PlaceInsmod ==
    ASSUME PlaceInv, Insmod
    PROVE  PlaceInv'
  <1> USE LogAssumption DEF PlaceInv
  <1>1. TypeOK'
    BY DEF TypeOK, Insmod, logVars
  <1>2. BatchPlace'
    <2>1. Below(i)' /\ \A a \in DOMAIN out : out[a].slot \in Nat
      <3>1. \A a \in DOMAIN out : out[a] \in RowType
        BY ElementOfSeq, LenProperties DEF TypeOK
      <3> QED
        BY <3>1 DEF BatchPlace, Insmod, Below, RowType
    <2>2. Below(i + BATCH)'
      BY <2>1 DEF Below, Insmod, TypeOK
    <2> QED
      BY <2>1, <2>2 DEF BatchPlace, Insmod, logVars, Reading
  <1>3. PagePlace'
    BY DEF PagePlace, Insmod
  <1> QED
    BY <1>1, <1>2, <1>3

LEMMA PlaceLStart ==
    ASSUME PlaceInv, LStart
    PROVE  PlaceInv'
  <1> USE LogAssumption DEF PlaceInv
  <1>1. TypeOK'
    <2>1. page' \in Nat /\ l' \in Nat /\ pos' \in Nat /\ count' \in 1..BATCH+1
      BY DEF TypeOK, LStart
    <2>2. rd' \in {"show", "eof"}
      BY DEF LStart
    <2> QED
      BY <2>1, <2>2 DEF TypeOK, LStart, logVars
  <1>2. BatchPlace'
    <2>1. UNCHANGED <<array_element, i, out, index, queue_array_count>>
      BY DEF LStart, logVars
    <2>2. \A n : Below(n)' <=> Below(n)
      BY <2>1 DEF Below
    <2>3. CASE index = 0 /\ array_element > queue_array_count
      <3>1. /\ rd' = "show" /\ l' = queue_array_count /\ count' = 1 /\ pos' = 0
            /\ queue_array_count = i /\ Below(i)
        BY <2>3 DEF LStart, BatchPlace
      <3>2. i \in Slots /\ i + 1 \in Slots /\ i = i + 0
        <4>1. array_element \in 0..QUEUE_SHOW_MAX-1 /\ i \in Nat
          BY DEF BatchPlace, TypeOK, Slots
        <4> QED
          BY <2>3, <3>1, <4>1 DEF Slots
      <3> QED
        BY <2>1, <2>2, <3>1, <3>2 DEF BatchPlace, Reading
    <2>4. CASE ~(index = 0 /\ array_element > queue_array_count)
      BY <2>1, <2>2, <2>4 DEF BatchPlace, LStart, Reading
    <2> QED
      BY <2>3, <2>4
  <1>3. PagePlace'
    <2>1. buf = <<>> /\ buf' = <<>> /\ Len(buf) = 0
      BY DEF PagePlace, LStart
    <2> QED
      BY <2>1 DEF PagePlace, LStart, TypeOK
  <1> QED
    BY <1>1, <1>2, <1>3

LEMMA PlaceLShow ==
    ASSUME PlaceInv, LShow
    PROVE  PlaceInv'
  <1> USE LogAssumption DEF PlaceInv
  <1>1. l \in Slots /\ Reading /\ Len(buf) = pos
    BY DEF LShow, BatchPlace, PagePlace, Reading
  <1>2. Append(buf, Row) \in Seq(RowType) /\ Len(Append(buf, Row)) = Len(buf) + 1
    BY <1>1, RowTyped, AppendRow DEF TypeOK
  <1>3. TypeOK'
    <2>1. page' \in Nat /\ buf' \in Seq(RowType)
      <3>1. page \in Nat /\ buf \in Seq(RowType)
        BY DEF TypeOK
      <3>2. \/ page' = page /\ buf' = buf
            \/ (\E size \in RowSizes : page' = page + size) /\ buf' = Append(buf, Row)
        BY DEF LShow
      <3> QED
        BY <1>2, <3>1, <3>2, SMTT(30)
    <2>2. cut' \in BOOLEAN /\ rd' \in {"next", "copy"}
      BY DEF TypeOK, LShow
    <2> QED
      BY <2>1, <2>2 DEF TypeOK, LShow, logVars
  <1>4. BatchPlace'
    BY DEF BatchPlace, LShow, logVars, Below, Reading
  <1>5. PagePlace'
    <2>1. CASE buf' = Append(buf, Row) /\ rd' = "next"
      <3>1. \A k \in DOMAIN buf' : buf'[k].slot = i + k - 1 /\ buf'[k].pos = k - 1
        <4>1. /\ DOMAIN buf' = 1..Len(buf)+1
              /\ DOMAIN buf = 1..Len(buf)
              /\ \A k \in 1..Len(buf) : buf'[k] = buf[k]
              /\ buf'[Len(buf) + 1] = Row
          BY <1>1, <2>1, RowTyped, AppendRow DEF TypeOK
        <4>2. Row.slot = i + pos /\ Row.pos = pos
          BY <1>1, RowTyped DEF BatchPlace
        <4>3. ASSUME NEW k \in DOMAIN buf'
              PROVE  buf'[k].slot = i + k - 1 /\ buf'[k].pos = k - 1
          <5>1. CASE k <= Len(buf)
            <6>1. k \in 1..Len(buf)
              BY <1>1, <4>1, <5>1 DEF TypeOK
            <6> QED
              BY <4>1, <6>1 DEF PagePlace
          <5>2. CASE k > Len(buf)
            <6>1. k = pos + 1
              BY <1>1, <4>1, <5>2 DEF TypeOK
            <6> QED
              BY <1>1, <4>1, <4>2, <6>1 DEF TypeOK
          <5> QED
            BY <1>1, <4>1, <5>1, <5>2 DEF TypeOK
        <4> QED
          BY <4>3
      <3> QED
        BY <1>1, <1>2, <2>1, <3>1 DEF PagePlace, LShow
    <2>2. CASE buf' = buf /\ rd' = "copy"
      <3>1. pos # 0
        <4> SUFFICES ASSUME pos = 0 PROVE FALSE
          OBVIOUS
        <4>1. PICK size \in RowSizes : ~(page + size < PAGE)
          BY <2>2 DEF LShow
        <4> QED
          BY <4>1 DEF LShow, PagePlace, TypeOK
      <3>2. Len(buf) \in 1..BATCH
        BY <1>1, <3>1 DEF BatchPlace, TypeOK
      <3> QED
        BY <2>2, <3>2 DEF PagePlace, LShow
    <2> QED
      BY <2>1, <2>2 DEF LShow
  <1> QED
    BY <1>3, <1>4, <1>5

LEMMA PlaceLNext ==
    ASSUME PlaceInv, LNext
    PROVE  PlaceInv'
  <1> USE LogAssumption DEF PlaceInv
  <1>1. UNCHANGED <<array_element, i, out, buf, page, index>>
    BY DEF LNext, logVars
  <1>2. TypeOK'
    BY SMTT(30) DEF TypeOK, BatchPlace, LNext, logVars, Reading
  <1>3. BatchPlace'
    <2>1. \A n : Below(n)' <=> Below(n)
      BY <1>1 DEF Below
    <2>2. CASE rd' = "copy"
      BY <1>1, <2>1, <2>2 DEF BatchPlace, LNext, Reading
    <2>3. CASE rd' = "show"
      <3>1. l' = l + 1 /\ pos' = pos + 1
        BY <2>3 DEF LNext
      <3>2. /\ l = i + pos /\ queue_array_count = l /\ count = pos + 1
            /\ l \in Slots /\ array_element \in Slots
            /\ pos = 0 => l + 1 \in Slots
        BY DEF BatchPlace, LNext, Reading
      <3>3. pos = 0 \/ (l + 1 < array_element /\ pos + 2 <= BATCH)
        BY <2>3, <3>2 DEF LNext, TypeOK
      <3>4. l + 1 \in Slots /\ pos + 1 < BATCH
        BY <3>2, <3>3 DEF Slots, TypeOK
      <3> QED
        <4>1. /\ l' = i' + pos' /\ queue_array_count' = l' /\ count' = pos' + 1
              /\ pos' < BATCH /\ l' \in Slots /\ pos' # 0
          BY <1>1, <3>1, <3>2, <3>4 DEF LNext, TypeOK
        <4> QED
          BY <1>1, <2>1, <2>3, <4>1 DEF BatchPlace, LNext
    <2> QED
      BY <2>2, <2>3 DEF LNext
  <1>4. PagePlace'
    <2>1. Len(buf) = pos + 1 /\ pos + 1 \in 1..BATCH
      BY DEF PagePlace, BatchPlace, LNext, Reading, TypeOK
    <2> QED
      BY <1>1, <2>1 DEF PagePlace, LNext, TypeOK
  <1> QED
    BY <1>2, <1>3, <1>4

LEMMA PlaceCopyOut ==
    ASSUME PlaceInv, CopyOut
    PROVE  PlaceInv'
  <1> USE LogAssumption DEF PlaceInv
  <1>1. TypeOK'
    BY ConcatRows, EmptySeq DEF TypeOK, CopyOut, logVars
  <1>2. BatchPlace'
    <2>1. Below(i + BATCH)'
      <3>1. ASSUME NEW a \in DOMAIN out'
            PROVE  out'[a].slot < i + BATCH
        <4>1. out' = Rows
          BY DEF CopyOut, Rows
        <4>2. CASE a \in DOMAIN out /\ Rows[a] = out[a]
          <5>1. out[a].slot < i /\ out[a] \in RowType
            BY <4>2, ElementOfSeq, LenProperties DEF CopyOut, BatchPlace, Below, TypeOK
          <5> QED
            BY <4>1, <4>2, <5>1 DEF TypeOK, RowType
        <4>3. CASE a - Len(out) \in DOMAIN buf /\ Rows[a] = buf[a - Len(out)]
          <5>1. DOMAIN buf = 1..Len(buf) /\ Len(buf) <= BATCH /\ Len(buf) \in Nat
            BY LenProperties DEF CopyOut, PagePlace, TypeOK
          <5>2. PICK k \in 1..Len(buf) : Rows[a] = buf[k]
            BY <4>3, <5>1
          <5>3. buf[k].slot = i + k - 1
            BY <5>1, <5>2 DEF PagePlace
          <5> QED
            BY <4>1, <5>1, <5>2, <5>3 DEF TypeOK
        <4> QED
          BY <4>1, <4>2, <4>3, RowOfBoth
      <3> QED
        BY <3>1 DEF Below, CopyOut
    <2>2. index' # 0
      BY DEF CopyOut, PagePlace
    <2> QED
      BY <2>1, <2>2 DEF BatchPlace, CopyOut, logVars, Reading
  <1>3. PagePlace'
    BY DEF PagePlace, CopyOut
  <1> QED
    BY <1>1, <1>2, <1>3

LEMMA PlaceRmmod ==
    ASSUME PlaceInv, Rmmod
    PROVE  PlaceInv'
  <1> USE LogAssumption DEF PlaceInv
  <1>1. TypeOK'
    <2>1. i' \in Nat /\ count' \in 1..BATCH+1
      BY DEF TypeOK, Rmmod
    <2> QED
      BY <2>1 DEF TypeOK, Rmmod, logVars
  <1>2. BatchPlace'
    <2>1. PICK q \in Nat : i = BATCH * q
      BY DEF BatchPlace
    <2>2. i' = BATCH * (q + 1) /\ q + 1 \in Nat
      BY <2>1 DEF Rmmod
    <2>3. Below(i)'
      BY DEF BatchPlace, Rmmod, Below
    <2> QED
      BY <2>2, <2>3 DEF BatchPlace, Rmmod, logVars, Reading
  <1>3. PagePlace'
    BY DEF PagePlace, Rmmod
  <1> QED
    BY <1>1, <1>2, <1>3

LEMMA PlaceNext == PlaceInv /\ [Next]_vars => PlaceInv'
  <1> SUFFICES ASSUME PlaceInv, [Next]_vars PROVE PlaceInv'
    OBVIOUS
  <1>1. CASE Next
    BY <1>1, PlaceWriter, PlaceInsmod, PlaceLStart, PlaceLShow, PlaceLNext,
       PlaceCopyOut, PlaceRmmod DEF Next
  <1>2. CASE UNCHANGED vars
    BY <1>2 DEF PlaceInv, TypeOK, BatchPlace, PagePlace, Below, Reading, vars,
       logVars, fileVars
  <1> QED
    BY <1>1, <1>2

LEMMA ModOfBatch ==
    ASSUME NEW b \in Nat, b > 0, NEW q \in Nat, NEW p \in 0..b-1
    PROVE  (b * q + p) % b = p
  OBVIOUS

-----------------------------------------------------------------------------
(* The rows collected so far change in one way only.                        *)

LEMMA RowsTyped ==
    ASSUME PlaceInv
    PROVE  /\ Rows \in Seq(RowType) /\ Len(Rows) \in Nat
           /\ DOMAIN Rows = 1..Len(Rows)
           /\ \A a \in DOMAIN Rows : /\ Rows[a].slot \in Nat /\ Rows[a].sample \in Nat
                                     /\ Rows[a].pos \in Nat
  <1>1. out \in Seq(RowType) /\ buf \in Seq(RowType)
    BY DEF PlaceInv, TypeOK
  <1>2. Rows \in Seq(RowType)
    BY <1>1, ConcatProperties DEF Rows
  <1>3. \A a \in 1..Len(Rows) : Rows[a] \in RowType
    BY <1>2, ElementOfSeq
  <1> QED
    BY <1>2, <1>3, LenProperties DEF RowType

(* What is already there lies before the slot that is read next.            *)
LEMMA SlotsBelow ==
    ASSUME PlaceInv, NEW a \in DOMAIN Rows
    PROVE  /\ rd = "show" => Rows[a].slot < l
           /\ rd = "next" => Rows[a].slot < l + 1
           /\ rd = "start" /\ index = 0 => Rows[a].slot < i
  <1> USE DEF PlaceInv
  <1>0. /\ i \in Nat /\ pos \in Nat /\ Rows[a].slot \in Nat
        /\ Reading => l = i + pos
    BY RowsTyped DEF TypeOK, BatchPlace
  <1>1. CASE a \in DOMAIN out /\ Rows[a] = out[a]
    <2>1. Reading \/ (rd = "start" /\ index = 0) => Rows[a].slot < i
      BY <1>1 DEF BatchPlace, Below, Reading
    <2> QED
      BY <1>0, <2>1 DEF Reading
  <1>2. CASE a - Len(out) \in DOMAIN buf /\ Rows[a] = buf[a - Len(out)]
    <2>1. DOMAIN buf = 1..Len(buf) /\ Len(buf) \in Nat
      BY LenProperties DEF TypeOK
    <2>2. PICK k \in 1..Len(buf) : Rows[a] = buf[k]
      BY <1>2, <2>1
    <2>3. Rows[a].slot = i + k - 1
      BY <2>1, <2>2 DEF PagePlace
    <2>4. rd # "start"
      <3> SUFFICES ASSUME rd = "start" PROVE FALSE
        OBVIOUS
      <3>1. Len(buf) = 0
        BY EmptySeq DEF PagePlace
      <3> QED
        BY <2>2, <3>1
    <2> QED
      BY <1>0, <2>2, <2>3, <2>4 DEF PagePlace, Reading
  <1> QED
    BY <1>1, <1>2, RowOfBoth

LEMMA RowsStep ==
    ASSUME PlaceInv, [Next]_vars
    PROVE  \/ Rows' = Rows
           \/ LShow /\ rd' = "next" /\ Rows' = Append(Rows, Row)
  <1> USE DEF PlaceInv
  <1>0. out \in Seq(RowType) /\ buf \in Seq(RowType) /\ <<>> \in Seq(RowType)
    BY EmptySeq DEF TypeOK
  <1>1. CASE LShow
    <2>1. CASE buf' = buf
      BY <1>1, <2>1 DEF LShow, Rows
    <2>2. CASE buf' = Append(buf, Row) /\ rd' = "next"
      <3>1. Row \in RowType
        BY <1>1, RowTyped DEF LShow, BatchPlace, Reading
      <3>2. <<Row>> \in Seq(RowType) /\ buf' = buf \o <<Row>>
        BY <1>0, <2>2, <3>1, AppendIsConcat
      <3>3. Rows' = (out \o buf) \o <<Row>>
        BY <1>0, <1>1, <3>2, ConcatAssociative DEF Rows, LShow
      <3>4. Rows \in Seq(RowType)
        BY <1>0, ConcatProperties DEF Rows
      <3> QED
        BY <1>1, <2>2, <3>1, <3>3, <3>4, AppendIsConcat DEF Rows
    <2> QED
      BY <1>1, <2>1, <2>2 DEF LShow
  <1>2. CASE CopyOut
    <2>1. Rows' = Rows \o <<>> /\ Rows \in Seq(RowType)
      BY <1>0, <1>2, ConcatProperties DEF CopyOut, Rows
    <2> QED
      BY <2>1, ConcatEmptySeq
  <1>3. CASE ~LShow /\ ~CopyOut
    BY <1>3 DEF Next, WriteRecord, MoveOn, ZeroElement, Insmod, LStart, LNext, Rmmod,
       vars, fileVars, Rows
  <1> QED
    BY <1>1, <1>2, <1>3

LEMMA RowAppended ==
    ASSUME PlaceInv, LShow, Rows' = Append(Rows, Row)
    PROVE  /\ DOMAIN Rows' = 1..Len(Rows)+1
           /\ \A a \in 1..Len(Rows) : Rows'[a] = Rows[a] /\ Rows[a].slot < l
           /\ Rows'[Len(Rows)+1] = Row
           /\ Row.slot = l /\ Row.sample = log[l] /\ Row.pos = pos
           /\ l \in Slots /\ l = i + pos /\ pos < BATCH
  <1>1. l \in Slots /\ l = i + pos /\ pos < BATCH
    BY DEF PlaceInv, LShow, BatchPlace, Reading
  <1>2. Row \in RowType /\ Row.slot = l /\ Row.sample = log[l] /\ Row.pos = pos
    BY <1>1, RowTyped DEF PlaceInv
  <1>3. \A a \in 1..Len(Rows) : Rows[a].slot < l
    BY RowsTyped, SlotsBelow DEF LShow
  <1> QED
    BY <1>1, <1>2, <1>3, RowsTyped, AppendRow

LEMMA InPlaceNext == PlaceInv /\ RowsInPlace /\ [Next]_vars => RowsInPlace'
  <1> SUFFICES ASSUME PlaceInv, RowsInPlace, [Next]_vars PROVE RowsInPlace'
    OBVIOUS
  <1>1. CASE Rows' = Rows
    BY <1>1 DEF RowsInPlace
  <1>2. CASE LShow /\ Rows' = Append(Rows, Row)
    <2> DEFINE n == Len(Rows)
    <2>1. /\ DOMAIN Rows' = 1..n+1 /\ n \in Nat /\ DOMAIN Rows = 1..n
          /\ \A a \in 1..n : /\ Rows'[a] = Rows[a] /\ Rows[a].slot < l
                            /\ Rows[a].slot \in Nat
          /\ Rows'[n+1].slot = l /\ Rows'[n+1].pos = pos
          /\ l \in Nat /\ pos \in Nat /\ i \in Nat
          /\ l = i + pos /\ pos < BATCH
      BY <1>2, RowAppended, RowsTyped DEF PlaceInv, TypeOK
    <2>2. l % BATCH = pos
      <3>1. PICK q \in Nat : i = BATCH * q
        BY DEF PlaceInv, BatchPlace
      <3>2. BATCH \in Nat /\ BATCH > 0
        BY LogAssumption
      <3>3. pos \in 0..BATCH-1
        BY <2>1, <3>2
      <3>4. (BATCH * q + pos) % BATCH = pos
        BY <3>2, <3>3, ModOfBatch, Zenon
      <3> QED
        BY <2>1, <3>1, <3>4, Zenon
    <2>3. pos > 0 => n > 0 /\ Rows[n].slot = l - 1
      <3> SUFFICES ASSUME pos > 0 PROVE n > 0 /\ Rows[n].slot = l - 1
        OBVIOUS
      <3>1. Len(buf) = pos /\ out \in Seq(RowType) /\ buf \in Seq(RowType)
        BY <1>2 DEF PlaceInv, PagePlace, LShow, TypeOK
      <3>2. n = Len(out) + pos /\ Len(out) \in Nat /\ n > Len(out)
        <4>1. Len(out) \in Nat /\ n = Len(out) + Len(buf)
          BY <3>1, ConcatRows, LenProperties DEF Rows
        <4> QED
          BY <2>1, <3>1, <4>1
      <3>3. Rows[n] = buf[pos] /\ pos \in DOMAIN buf
        BY <2>1, <3>1, <3>2, ConcatRows, SMTT(30) DEF Rows
      <3>4. buf[pos].slot = i + pos - 1
        BY <3>3 DEF PlaceInv, PagePlace
      <3> QED
        BY <2>1, <3>2, <3>3, <3>4
    <2>4. ASSUME NEW a \in 1..n
          PROVE  /\ \A b \in 1..n : a < b => Rows'[a].slot < Rows'[b].slot
                 /\ Rows'[a].slot < Rows'[n+1].slot
                 /\ Rows'[a].pos < BATCH
                 /\ Rows'[a].slot % BATCH = Rows'[a].pos
                 /\ Rows'[a].pos > 0 => a > 1 /\ Rows'[a-1].slot = Rows'[a].slot - 1
      <3>1. /\ \A b \in 1..n : a < b => Rows[a].slot < Rows[b].slot
            /\ Rows[a].pos < BATCH
            /\ Rows[a].slot % BATCH = Rows[a].pos
            /\ Rows[a].pos > 0 => a > 1 /\ Rows[a-1].slot = Rows[a].slot - 1
        BY <2>1 DEF RowsInPlace
      <3>2. a > 1 => a - 1 \in 1..n
        BY <2>1
      <3> QED
        BY <2>1, <3>1, <3>2
    <2>5. /\ Rows'[n+1].pos < BATCH
          /\ Rows'[n+1].slot % BATCH = Rows'[n+1].pos
          /\ Rows'[n+1].pos > 0 => n+1 > 1 /\ Rows'[(n+1)-1].slot = Rows'[n+1].slot - 1
      BY <2>1, <2>2, <2>3
    <2>6. \A a \in 1..n+1 : a \in 1..n \/ a = n+1
      BY <2>1
    <2>7. \A b \in 1..n+1 : ~(n+1 < b)
      BY <2>1
    <2> HIDE DEF n
    <2> QED
      BY <2>1, <2>4, <2>5, <2>6, <2>7 DEF RowsInPlace
  <1> QED
    BY <1>1, <1>2, RowsStep

-----------------------------------------------------------------------------
(* The theorems about the place of a row.                                   *)

LEMMA NoRows == Init => Rows = <<>> /\ DOMAIN Rows = {}
  BY ConcatEmptySeq, EmptySeq, ConcatRows DEF Init, Rows

(* For any size of the log, the batch, the page and the rows, the reading   *)
(* side keeps to the batch that read.sh asked for.                          *)
THEOREM PlaceInvariant == Spec => []PlaceInv
  BY PlaceInit, PlaceNext, PTL DEF Spec

(* The first call of l_next, which looks at no limit, never makes l_show    *)
(* read past queue_show_base_rbfgrad.                                       *)
THEOREM ReadsInArray == Spec => []RowsInArray
  <1>1. PlaceInv => RowsInArray
    BY DEF PlaceInv, BatchPlace, RowsInArray, Reading
  <1> QED
    BY <1>1, PlaceInvariant, PTL

(* The file that the batches of read.sh make up has no row twice, none out  *)
(* of place and no hole inside a batch.                                     *)
THEOREM FileInPlace == Spec => []RowsInPlace
  <1>1. Init => RowsInPlace
    BY NoRows DEF RowsInPlace
  <1> QED
    BY <1>1, PlaceInvariant, InPlaceNext, PTL DEF Spec

-----------------------------------------------------------------------------
(* The order of the samples.                                                *)

LEMMA LogOrderedNext ==
    ASSUME PlaceInv, LogOrdered, [Next]_vars
    PROVE  LogOrdered'
  <1>0. /\ log \in [Slots -> Nat] /\ sampled \in Nat
        /\ array_element \in Slots /\ QUEUE_SHOW_MAX \in Nat
    BY LogAssumption DEF PlaceInv, TypeOK, BatchPlace
  <1>1. CASE WriteRecord
    <2>1. /\ ~writing /\ writing' /\ sampled' = sampled + 1
          /\ log' = [log EXCEPT ![array_element] = sampled + 1]
          /\ array_element' = array_element
      BY <1>1 DEF WriteRecord
    <2> QED
      BY <1>0, <2>1 DEF LogOrdered, Written, Slots
  <1>2. CASE MoveOn \/ ZeroElement
    <2>1. UNCHANGED <<log, sampled>> /\ ~writing'
      BY <1>2 DEF MoveOn, ZeroElement, PlaceInv, TypeOK
    <2>2. Written' <= Written /\ Written' \in Nat /\ Written \in Nat
      BY <1>0, <1>2 DEF MoveOn, ZeroElement, Written, Slots
    <2>3. \A s \in Slots : s < Written' => s < Written
      BY <1>0, <2>2 DEF Slots
    <2> QED
      BY <2>1, <2>3 DEF LogOrdered
  <1>3. CASE ~WriteRecord /\ ~MoveOn /\ ~ZeroElement
    <2>1. UNCHANGED logVars
      BY <1>3 DEF Next, Insmod, LStart, LShow, LNext, CopyOut, Rmmod, vars
    <2> QED
      BY <2>1 DEF LogOrdered, Written, logVars
  <1> QED
    BY <1>1, <1>2, <1>3

LEMMA RowsOlderNext ==
    ASSUME PlaceInv, LogOrdered, RowsOlder, [Next]_vars
    PROVE  RowsOlder'
  <1>0. /\ log \in [Slots -> Nat] /\ sampled \in Nat
        /\ array_element \in Slots /\ QUEUE_SHOW_MAX \in Nat
    BY LogAssumption DEF PlaceInv, TypeOK, BatchPlace
  <1>1. CASE WriteRecord
    <2>1. /\ ~writing /\ writing' /\ sampled' = sampled + 1
          /\ log' = [log EXCEPT ![array_element] = sampled + 1]
          /\ array_element' = array_element
      BY <1>1 DEF WriteRecord
    <2>2. Rows' = Rows
      BY <1>1 DEF WriteRecord, fileVars, Rows
    <2> QED
      BY <1>0, <2>1, <2>2, RowsTyped, SMTT(30) DEF RowsOlder, Written, Slots
  <1>2. CASE MoveOn \/ ZeroElement
    <2>1. UNCHANGED <<log, sampled>> /\ Rows' = Rows
      BY <1>2 DEF MoveOn, ZeroElement, fileVars, Rows
    <2>2. Written' <= Written /\ Written' \in Nat /\ Written \in Nat
      BY <1>0, <1>2 DEF MoveOn, ZeroElement, Written, Slots
    <2>3. \A s \in Slots : s < Written' => s < Written
      BY <1>0, <2>2 DEF Slots
    <2> QED
      BY <2>1, <2>3 DEF RowsOlder
  <1>3. CASE ~WriteRecord /\ ~MoveOn /\ ~ZeroElement
    <2>1. UNCHANGED <<log, sampled>> /\ Written' = Written
      BY <1>3 DEF Next, Insmod, LStart, LShow, LNext, CopyOut, Rmmod, vars,
         logVars, Written
    <2>2. CASE Rows' = Rows
      BY <2>1, <2>2 DEF RowsOlder
    <2>3. CASE LShow /\ Rows' = Append(Rows, Row)
      <3> DEFINE n == Len(Rows)
      <3>1. /\ DOMAIN Rows' = 1..n+1 /\ n \in Nat /\ DOMAIN Rows = 1..n
            /\ \A a \in 1..n : Rows'[a] = Rows[a]
            /\ Rows'[n+1].slot = l /\ Rows'[n+1].sample = log[l] /\ l \in Slots
        BY <2>3, RowAppended, RowsTyped
      <3>2. /\ log[l] <= sampled
            /\ \A s \in Slots : l < s /\ s < Written => log[l] < log[s]
        BY <3>1 DEF LogOrdered
      <3>3. \A a \in 1..n+1 : a \in 1..n \/ a = n+1
        BY <3>1
      <3> HIDE DEF n
      <3> QED
        BY <2>1, <3>1, <3>2, <3>3 DEF RowsOlder
    <2> QED
      BY <2>2, <2>3, RowsStep
  <1> QED
    BY <1>1, <1>2, <1>3

LEMMA NextRowNewNext ==
    ASSUME PlaceInv, LogOrdered, RowsOlder, NextRowNew, [Next]_vars
    PROVE  NextRowNew'
  <1> SUFFICES ASSUME rd' = "show", pos' # 1
               PROVE  /\ log'[l'] > 0
                      /\ \A a \in DOMAIN Rows' : Rows'[a].sample < log'[l']
    BY DEF NextRowNew
  <1>0. /\ log \in [Slots -> Nat] /\ sampled \in Nat
        /\ array_element \in Slots /\ QUEUE_SHOW_MAX \in Nat
        /\ i \in Nat /\ pos \in Nat
    BY LogAssumption DEF PlaceInv, TypeOK, BatchPlace
  <1>1. CASE WriteRecord
    <2>1. /\ sampled' = sampled + 1 /\ rd = "show" /\ pos # 1 /\ l' = l
          /\ log' = [log EXCEPT ![array_element] = sampled + 1]
      BY <1>1 DEF WriteRecord, fileVars
    <2>2. Rows' = Rows
      BY <1>1 DEF WriteRecord, fileVars, Rows
    <2>3. /\ log[l] > 0 /\ \A a \in DOMAIN Rows : Rows[a].sample < log[l]
          /\ \A a \in DOMAIN Rows : Rows[a].sample <= sampled /\ Rows[a].sample \in Nat
          /\ l \in Slots
      BY <2>1, RowsTyped DEF NextRowNew, RowsOlder, PlaceInv, BatchPlace, Reading
    <2>4. CASE l = array_element
      <3>1. log'[l'] = sampled + 1
        BY <1>0, <2>1, <2>4
      <3> QED
        BY <1>0, <2>2, <2>3, <3>1
    <2>5. CASE l # array_element
      <3>1. log'[l'] = log[l]
        BY <1>0, <2>1, <2>3, <2>5
      <3> QED
        BY <2>2, <2>3, <3>1
    <2> QED
      BY <2>4, <2>5
  <1>2. CASE LStart
    <2>1. /\ rd = "start" /\ index = 0 /\ array_element > queue_array_count
          /\ l' = queue_array_count /\ log' = log
      BY <1>2 DEF LStart, logVars
    <2>2. queue_array_count = i
      BY <2>1 DEF PlaceInv, BatchPlace
    <2>3. Rows' = Rows
      BY <1>2 DEF LStart, Rows
    <2>4. i < Written /\ i \in Slots
      BY <1>0, <2>1, <2>2 DEF Written, Slots
    <2>5. \A a \in DOMAIN Rows : Rows[a].slot < i
      BY <2>1, SlotsBelow
    <2> QED
      BY <2>1, <2>2, <2>3, <2>4, <2>5 DEF LogOrdered, RowsOlder
  <1>3. CASE LNext
    <2>1. /\ rd = "next" /\ l' = l + 1 /\ pos' = pos + 1 /\ log' = log
          /\ pos # 0 => queue_array_count + 1 < array_element
      BY <1>0, <1>3 DEF LNext, logVars, PlaceInv, TypeOK
    <2>2. pos # 0
      BY <1>0, <2>1
    <2>3. queue_array_count = l /\ l \in Slots
      BY <2>1 DEF PlaceInv, BatchPlace, Reading
    <2>4. Rows' = Rows
      BY <1>3 DEF LNext, Rows
    <2>5. l + 1 < Written /\ l + 1 \in Slots
      BY <1>0, <2>1, <2>2, <2>3 DEF Written, Slots
    <2>6. \A a \in DOMAIN Rows : Rows[a].slot < l + 1
      BY <2>1, SlotsBelow
    <2> QED
      BY <2>1, <2>4, <2>5, <2>6 DEF LogOrdered, RowsOlder
  <1>4. CASE ~WriteRecord /\ ~LStart /\ ~LNext
    <2>1. UNCHANGED <<log, rd, pos, l>> /\ Rows' = Rows
      BY <1>4 DEF Next, MoveOn, ZeroElement, Insmod, LShow, CopyOut, Rmmod,
         vars, logVars, fileVars, Rows
    <2> QED
      BY <2>1 DEF NextRowNew
  <1> QED
    BY <1>1, <1>2, <1>3, <1>4

LEMMA InTimeNext ==
    ASSUME PlaceInv, NextRowNew, RowsInTimeOrder, [Next]_vars
    PROVE  RowsInTimeOrder'
  <1>1. CASE Rows' = Rows
    BY <1>1 DEF RowsInTimeOrder
  <1>2. CASE LShow /\ Rows' = Append(Rows, Row)
    <2> DEFINE n == Len(Rows)
    <2>1. /\ DOMAIN Rows' = 1..n+1 /\ n \in Nat /\ DOMAIN Rows = 1..n
          /\ \A a \in 1..n : Rows'[a] = Rows[a]
          /\ Rows'[n+1].sample = log[l] /\ Rows'[n+1].pos = pos
      BY <1>2, RowAppended, RowsTyped
    <2>2. pos # 1 => log[l] > 0 /\ \A a \in 1..n : Rows[a].sample < log[l]
      BY <1>2, <2>1 DEF NextRowNew, LShow
    <2>3. \A a \in 1..n+1 : a \in 1..n \/ a = n+1
      BY <2>1
    <2>4. \A b \in 1..n+1 : ~(n+1 < b)
      BY <2>1
    <2> HIDE DEF n
    <2> QED
      BY <2>1, <2>2, <2>3, <2>4 DEF RowsInTimeOrder
  <1> QED
    BY <1>1, <1>2, RowsStep

LEMMA TimeInit == Init => TimeInv
  BY NoRows DEF Init, TimeInv, LogOrdered, RowsOlder, NextRowNew, RowsInTimeOrder, Written,
     Slots

(* Every row is a sample, and a later row a later one, even when a reset or *)
(* a change zeroes array_element between l_next's test and l_show; except   *)
(* for the second row of a batch, which was not tested.                     *)
THEOREM FileInTimeOrder == Spec => []RowsInTimeOrder
  <1>1. PlaceInv /\ TimeInv /\ [Next]_vars => TimeInv'
    BY LogOrderedNext, RowsOlderNext, NextRowNewNext, InTimeNext DEF TimeInv
  <1>2. TimeInv => RowsInTimeOrder
    BY DEF TimeInv
  <1> QED
    BY <1>1, <1>2, TimeInit, PlaceInvariant, PTL DEF Spec

-----------------------------------------------------------------------------
(* What a batch delivers.                                                   *)

LEMMA DueNext ==
    ASSUME PlaceInv, due <= array_element, [Next]_vars
    PROVE  due' <= array_element'
  <1>1. due \in Nat /\ array_element \in Nat
    BY DEF PlaceInv, TypeOK
  <1> QED
    BY <1>1 DEF Next, WriteRecord, MoveOn, ZeroElement, Insmod, LStart, LShow, LNext,
       CopyOut, Rmmod, vars, logVars

(* The l_next that ends a batch leaves nothing that was due.                *)
LEMMA LastLNext ==
    ASSUME PlaceInv, due <= array_element, LNext, rd' = "copy"
    PROVE  Delivered'
  <1>1. /\ i \in Nat /\ pos \in Nat /\ l = i + pos /\ Len(buf) = pos + 1
        /\ queue_array_count = l /\ count = pos + 1
        /\ due \in Nat /\ array_element \in Nat /\ BATCH \in Nat
    BY LogAssumption DEF PlaceInv, TypeOK, BatchPlace, PagePlace, Reading, LNext
  <1>2. l + 1 >= array_element \/ pos + 2 > BATCH
    BY <1>1 DEF LNext
  <1>3. UNCHANGED <<i, due, out, buf>>
    BY DEF LNext
  <1>4. SUFFICES ASSUME NEW s \in Slots, i <= s, s < i + BATCH, s < due
                 PROVE  \E a \in DOMAIN Rows : Rows[a].slot = s
    BY <1>3 DEF Delivered, Rows
  <1>5. s \in Nat /\ s <= l
    BY <1>1, <1>2, <1>4, LogAssumption DEF Slots
  <1>6. s - i + 1 \in 1..Len(buf)
    BY <1>1, <1>4, <1>5
  <1>7. out \in Seq(RowType) /\ buf \in Seq(RowType)
    BY DEF PlaceInv, TypeOK
  <1>8. buf[s - i + 1].slot = s
    <2>1. buf[s - i + 1].slot = i + (s - i + 1) - 1
      BY <1>6, <1>7, LenProperties DEF PlaceInv, PagePlace
    <2> QED
      BY <1>1, <1>5, <2>1
  <1>9. /\ Len(out) + (s - i + 1) \in DOMAIN Rows
        /\ Rows[Len(out) + (s - i + 1)] = buf[s - i + 1]
    <2>1. Len(out) \in Nat /\ Len(buf) \in Nat
      BY <1>7, LenProperties
    <2>2. PICK k \in 1..Len(buf) : k = s - i + 1
      BY <1>6
    <2>3. Len(out) + k \in 1..Len(out) + Len(buf) /\ ~(Len(out) + k <= Len(out))
          /\ (Len(out) + k) - Len(out) = k
      BY <2>1
    <2> QED
      BY <1>7, <2>2, <2>3, ConcatRows DEF Rows
  <1> QED
    BY <1>8, <1>9

LEMMA CompleteNext == PlaceInv /\ CompleteInv /\ [Next]_vars => CompleteInv'
  <1> SUFFICES ASSUME PlaceInv, CompleteInv, [Next]_vars PROVE CompleteInv'
    OBVIOUS
  <1>1. due' <= array_element'
    BY DueNext DEF CompleteInv
  <1>2. ASSUME BatchOver', ~cut' PROVE Delivered'
    <2>1. CASE WriteRecord \/ MoveOn \/ ZeroElement
      <3>1. UNCHANGED <<rd, index, i, cut>> /\ Rows' = Rows /\ due' \in {due, 0}
        BY <2>1 DEF WriteRecord, MoveOn, ZeroElement, fileVars, Rows
      <3>2. Delivered
        BY <1>2, <3>1 DEF BatchOver, CompleteInv
      <3>3. \A s \in Slots : s < due' => s < due
        BY <3>1 DEF Slots, PlaceInv, TypeOK
      <3> QED
        BY <3>1, <3>2, <3>3 DEF Delivered
    <2>2. CASE LStart
      <3>1. UNCHANGED <<index, i, cut, due, array_element>> /\ Rows' = Rows
        BY <2>2 DEF LStart, Rows, logVars
      <3>2. rd = "start" /\ rd' = "eof"
        BY <1>2, <2>2 DEF LStart, BatchOver
      <3>3. CASE index # 0
        <4>1. Delivered
          BY <1>2, <3>1, <3>2, <3>3 DEF BatchOver, CompleteInv
        <4> QED
          BY <3>1, <4>1 DEF Delivered
      <3>4. CASE index = 0
        <4>1. queue_array_count = i
          BY <3>2, <3>4 DEF PlaceInv, BatchPlace
        <4>2. due <= i /\ i \in Nat /\ due \in Nat
          BY <2>2, <3>2, <3>4, <4>1 DEF LStart, PlaceInv, TypeOK, CompleteInv
        <4>3. \A s \in Slots : ~(i <= s /\ s < due)
          BY <4>2 DEF Slots
        <4> QED
          BY <3>1, <4>3 DEF Delivered
      <3> QED
        BY <3>3, <3>4
    <2>3. CASE LNext
      <3>1. rd' = "copy"
        BY <1>2, <2>3 DEF LNext, BatchOver
      <3> QED
        BY <2>3, <3>1, LastLNext DEF CompleteInv
    <2>4. CASE CopyOut
      <3>1. UNCHANGED <<i, due, cut>> /\ rd = "copy"
        BY <2>4 DEF CopyOut
      <3>2. Rows' = Rows
        BY <2>4, RowsStep DEF CopyOut, LShow
      <3>3. Delivered
        BY <1>2, <3>1 DEF BatchOver, CompleteInv
      <3> QED
        BY <3>1, <3>2, <3>3 DEF Delivered
    <2>5. CASE UNCHANGED vars
      <3>1. UNCHANGED <<rd, index, i, cut, due>> /\ Rows' = Rows
        BY <2>5 DEF vars, fileVars, Rows
      <3>2. Delivered
        BY <1>2, <3>1 DEF BatchOver, CompleteInv
      <3> QED
        BY <3>1, <3>2 DEF Delivered
    <2>6. CASE Insmod \/ LShow \/ Rmmod
      BY <1>2, <2>6 DEF Insmod, LShow, Rmmod, BatchOver
    <2> QED
      BY <2>1, <2>2, <2>3, <2>4, <2>5, <2>6 DEF Next
  <1> QED
    BY <1>1, <1>2 DEF CompleteInv

(* A batch that fits into the page delivers every record that was there     *)
(* when it started, whatever is recorded meanwhile.                         *)
THEOREM BatchDelivers == Spec => []CompleteUnlessCut
  <1>1. Init => CompleteInv
    BY DEF Init, CompleteInv, BatchOver
  <1>2. PlaceInv /\ CompleteInv => CompleteUnlessCut
    <2>1. ASSUME PlaceInv, rd = "eof"
          PROVE  Rows = out
      <3>1. buf = <<>> /\ out \in Seq(RowType)
        BY <2>1 DEF PlaceInv, PagePlace, TypeOK
      <3> QED
        BY <3>1, ConcatEmptySeq DEF Rows
    <2> QED
      BY <2>1 DEF CompleteInv, CompleteUnlessCut, BatchComplete, BatchOver, Delivered
  <1> QED
    BY <1>1, <1>2, CompleteNext, PlaceInvariant, PTL DEF Spec
==============================================================================
