------------------------------ MODULE QueueData ------------------------------
(***************************************************************************)
(* Reading the sampling log: queuedata/seqfile_queuedata_rbfgrad.c offers   *)
(* the records from queue_array_count on as /proc/data_seq_file, and        *)
(* queuedata/read.sh loads it once per batch, copies the file out with cat  *)
(* and unloads it.  rbfgrad_enqueue keeps appending records meanwhile, and  *)
(* a reset or a change zeroes array_element, without any lock in common.    *)
(*                                                                         *)
(* A record is the number of the sample it holds.  External: seq_read,      *)
(* which collects what l_show prints in one page, drops a row that does not *)
(* fit after l_next has already moved past it, and calls l_start with the   *)
(* index it has reached on the next read; and cat, which reads at least a   *)
(* page at a time until it is given nothing.                                *)
(***************************************************************************)
EXTENDS Integers, Sequences

CONSTANTS
    QUEUE_SHOW_MAX,  \* slots of queue_show_base_rbfgrad
    BATCH,           \* rows of one batch: 40 in l_next and in read.sh
    PAGE,            \* bytes of seq_read's buffer
    HEADER,          \* bytes of the heading
    RowSizes,        \* bytes a row may take
    MaxSamples       \* bound: samples recorded

ASSUME LogAssumption ==
    /\ QUEUE_SHOW_MAX \in Nat \ {0}
    /\ BATCH \in Nat /\ BATCH >= 2
    /\ PAGE \in Nat /\ HEADER \in Nat
    /\ RowSizes \subseteq Nat
    /\ \A s \in RowSizes : HEADER + s < PAGE
    /\ MaxSamples \in Nat

VARIABLES
    array_element,      \* array_element_rbfgrad
    log,                \* the sample each slot holds, 0 before the first
    sampled,            \* samples recorded so far
    writing,            \* a record is written and array_element not yet moved
    i,                  \* read.sh: where the batch starts
    rd,                 \* what happens next on the reading side
    index,              \* m->index of the open file
    pos,                \* the position l_next is given
    l,                  \* the record l_start or l_next returned last
    queue_array_count, count,
    page,               \* bytes of the page in use
    buf,                \* rows in it
    out,                \* rows cat has written
    due,                \* history: records this batch found when it started
    cut                 \* history: the page was too small for this batch

logVars  == <<array_element, log, sampled, writing>>
fileVars == <<index, pos, l, queue_array_count, count, page, buf>>
vars     == <<logVars, fileVars, i, rd, out, due, cut>>

Slots == 0..QUEUE_SHOW_MAX-1

Init ==
    /\ array_element = 0
    /\ log = [s \in Slots |-> 0]
    /\ sampled = 0 /\ writing = FALSE
    /\ i = 0 /\ rd = "script"
    /\ index = 0 /\ pos = 0 /\ l = 0
    /\ queue_array_count = 0 /\ count = 1
    /\ page = 0 /\ buf = <<>>
    /\ out = <<>>
    /\ due = 0 /\ cut = FALSE

-----------------------------------------------------------------------------
(* The writing side.                                                        *)

(* rbfgrad_enqueue fills the record ...                                     *)
WriteRecord ==
    /\ ~writing /\ sampled < MaxSamples
    /\ sampled' = sampled + 1
    /\ log' = [log EXCEPT ![array_element] = sampled + 1]
    /\ writing' = TRUE
    /\ UNCHANGED <<array_element, fileVars, i, rd, out, due, cut>>

(* Mutant: the log index is not kept inside the array.                      *)
MoveOn_NoCap ==
    /\ writing
    /\ array_element' = array_element + 1
    /\ writing' = FALSE
    /\ UNCHANGED <<log, sampled, fileVars, i, rd, out, due, cut>>

(* ... and then moves on, staying on the last slot once it is there.        *)
MoveOn ==
    /\ writing
    /\ array_element' = IF array_element < QUEUE_SHOW_MAX - 1
                        THEN array_element + 1 ELSE array_element
    /\ writing' = FALSE
    /\ UNCHANGED <<log, sampled, fileVars, i, rd, out, due, cut>>

(* rbfgrad_reset and rbfgrad_change, under the lock enqueue holds.          *)
ZeroElement ==
    /\ ~writing
    /\ array_element' = 0
    /\ due' = 0
    /\ UNCHANGED <<log, sampled, writing, fileVars, i, rd, out, cut>>

-----------------------------------------------------------------------------
(* The reading side.                                                        *)

(* read.sh: insmod ... queue_array_count=$i, then cat opens the file.       *)
Insmod ==
    /\ rd = "script" /\ i <= QUEUE_SHOW_MAX
    /\ queue_array_count' = i /\ count' = 1
    /\ index' = 0
    /\ rd' = "start"
    /\ due' = array_element
    /\ UNCHANGED <<logVars, pos, l, page, buf, i, out, cut>>

LStart ==
    /\ rd = "start"
    /\ IF index = 0 /\ array_element > queue_array_count
       THEN /\ rd' = "show"
            /\ l' = queue_array_count
            /\ count' = 1
            /\ pos' = 0
            /\ page' = IF queue_array_count = 0 THEN HEADER ELSE 0
       ELSE rd' = "eof" /\ UNCHANGED <<l, count, pos, page>>
    /\ UNCHANGED <<logVars, index, queue_array_count, buf, i, out, due, cut>>

Row == [slot |-> l, sample |-> log[l], pos |-> pos]

LShow ==
    /\ rd = "show"
    /\ \E size \in RowSizes :
         IF page + size < PAGE
         THEN /\ page' = page + size
              /\ buf' = Append(buf, Row)
              /\ rd' = "next"
              /\ UNCHANGED cut
         ELSE rd' = "copy" /\ cut' = TRUE /\ UNCHANGED <<page, buf>>
    /\ UNCHANGED <<logVars, index, pos, l, queue_array_count, count, i, out, due>>

(* Mutant: only the size of the batch ends it.                              *)
LNext_NoLimit ==
    /\ rd = "next"
    /\ queue_array_count' = queue_array_count + 1
    /\ count' = count + 1
    /\ IF pos # 0 /\ count' > BATCH
       THEN rd' = "copy" /\ UNCHANGED <<l, pos>>
       ELSE rd' = "show" /\ l' = l + 1 /\ pos' = pos + 1
    /\ UNCHANGED <<logVars, index, page, buf, i, out, due, cut>>

(* Mutant: the batch may have one row less.                                 *)
LNext_ShortBatch ==
    /\ rd = "next"
    /\ queue_array_count' = queue_array_count + 1
    /\ count' = count + 1
    /\ IF pos # 0 /\ (queue_array_count' >= array_element \/ count' >= BATCH)
       THEN rd' = "copy" /\ UNCHANGED <<l, pos>>
       ELSE rd' = "show" /\ l' = l + 1 /\ pos' = pos + 1
    /\ UNCHANGED <<logVars, index, page, buf, i, out, due, cut>>

(* The first call of a batch looks at neither limit.                        *)
LNext ==
    /\ rd = "next"
    /\ queue_array_count' = queue_array_count + 1
    /\ count' = count + 1
    /\ IF pos # 0 /\ (queue_array_count' >= array_element \/ count' > BATCH)
       THEN rd' = "copy" /\ UNCHANGED <<l, pos>>
       ELSE rd' = "show" /\ l' = l + 1 /\ pos' = pos + 1
    /\ UNCHANGED <<logVars, index, page, buf, i, out, due, cut>>

(* seq_read hands the page to cat, which reads again.                       *)
CopyOut ==
    /\ rd = "copy"
    /\ out' = out \o buf
    /\ buf' = <<>> /\ page' = 0
    /\ index' = Len(buf)
    /\ rd' = "start"
    /\ UNCHANGED <<logVars, pos, l, queue_array_count, count, i, due, cut>>

(* Mutant: the next batch starts on the last row of this one.               *)
Rmmod_Overlap ==
    /\ rd = "eof"
    /\ i' = i + BATCH - 1
    /\ rd' = "script"
    /\ index' = 0 /\ pos' = 0 /\ l' = 0
    /\ queue_array_count' = 0 /\ count' = 1
    /\ due' = 0 /\ cut' = FALSE
    /\ UNCHANGED <<logVars, page, buf, out>>

(* cat is done; read.sh unloads the module and goes on to the next batch.   *)
Rmmod ==
    /\ rd = "eof"
    /\ i' = i + BATCH
    /\ rd' = "script"
    /\ index' = 0 /\ pos' = 0 /\ l' = 0
    /\ queue_array_count' = 0 /\ count' = 1
    /\ due' = 0 /\ cut' = FALSE
    /\ UNCHANGED <<logVars, page, buf, out>>

Next ==
    \/ WriteRecord \/ MoveOn \/ ZeroElement
    \/ Insmod \/ LStart \/ LShow \/ LNext \/ CopyOut \/ Rmmod

Spec == Init /\ [][Next]_vars

-----------------------------------------------------------------------------
RowType == [slot : Nat, sample : Nat, pos : Nat]

(* Type correctness; a batch never counts beyond its size.                 *)
TypeOK ==
    /\ array_element \in Nat /\ log \in [Slots -> Nat]
    /\ sampled \in Nat /\ writing \in BOOLEAN
    /\ i \in Nat /\ rd \in {"script", "start", "show", "next", "copy", "eof"}
    /\ index \in Nat /\ pos \in Nat /\ l \in Nat
    /\ queue_array_count \in Nat /\ count \in 1..BATCH+1
    /\ page \in Nat
    /\ buf \in Seq(RowType) /\ out \in Seq(RowType)
    /\ due \in Nat /\ cut \in BOOLEAN

(* Although the first l_next of a batch is unchecked, l_show never reads    *)
(* past the array: array_element stops one short of its end.                *)
RowsInArray == rd = "show" => l \in Slots

Rows == out \o buf

(* The file read.sh puts together has no row twice and none out of place,   *)
(* whatever is recorded or zeroed while it is read, and no hole inside a    *)
(* batch: what a batch lacks is missing at its end.                         *)
RowsInPlace ==
    \A a \in DOMAIN Rows :
      /\ \A b \in DOMAIN Rows : a < b => Rows[a].slot < Rows[b].slot
      /\ Rows[a].pos < BATCH
      /\ Rows[a].slot % BATCH = Rows[a].pos
      /\ Rows[a].pos > 0 => a > 1 /\ Rows[a-1].slot = Rows[a].slot - 1

(* The rows are real samples in the order they were taken, even across a    *)
(* reset in the middle of a batch.  The one exception is the second row of  *)
(* a batch, which l_next returns without comparing it with array_element.   *)
RowsInTimeOrder ==
    \A b \in DOMAIN Rows : Rows[b].pos # 1 =>
      /\ Rows[b].sample > 0
      /\ \A a \in DOMAIN Rows : a < b => Rows[a].sample < Rows[b].sample

(* A batch delivers every record that was there when it started, up to the  *)
(* BATCH that read.sh then skips ...                                        *)
BatchComplete ==
    rd = "eof" => \A s \in Slots :
      i <= s /\ s < i + BATCH /\ s < due => \E a \in DOMAIN out : out[a].slot = s

(* ... if it fits into the page: neither the limits of l_next nor what is   *)
(* recorded meanwhile costs a row.                                          *)
CompleteUnlessCut == ~cut => BatchComplete
=============================================================================
