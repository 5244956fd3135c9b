----------------------------- MODULE TraceFifo -----------------------------
(***************************************************************************)
(* modules/tracepoint-probe-rbfgrad.c: a probe on the rbfgrad tracepoint    *)
(* puts each option record into a kfifo, and /proc/rbfgrad takes them out   *)
(* again, one per row; read_proc_rbfgrad_/read_proc_rbfgrad.c, or cat,      *)
(* reads the file.  The mutexes the file declares are never taken: a reader *)
(* may run beside the probe, beside another reader and beside the loading   *)
(* of the module, and all readers share one ctl_temp.                       *)
(*                                                                         *)
(* A byte is <<record, offset>>.  External: the kfifo, which copies as much *)
(* as there is room for and publishes it afterwards; the tracepoint, called *)
(* by one packet scheduler at a time; and seq_read, which calls start,      *)
(* next and show for one read and takes back the row that no longer fits.   *)
(***************************************************************************)
EXTENDS Integers, Sequences, FiniteSets

CONSTANTS
    BUF_SIZE,    \* bytes of the kfifo
    REC,         \* sizeof(struct tc_rbfgrad_qopt)
    MAX_TO_GET,  \* rows of one opening of the file
    Readers,     \* processes that read the file
    MaxRecords,  \* bound: calls of the tracepoint in one loading
    MaxOpens     \* bound: openings of the file in one loading

ASSUME FifoAssumption ==
    /\ REC \in Nat /\ REC >= 2
    /\ BUF_SIZE \in Nat /\ BUF_SIZE >= REC
    /\ MAX_TO_GET \in Nat \ {0}
    /\ IsFiniteSet(Readers)
    /\ MaxRecords \in Nat /\ MaxOpens \in Nat

VARIABLES
    phase,       \* of the module: out, probing, proc, alloc, ready, leaving, removed
    ring, in, out,
    put,         \* bytes the running probe has copied and not yet published
    seen,        \* records the tracepoint was called with
    ctl_temp,    \* the record all readers share
    rd,          \* where each reader is
    pos,         \* the position of each open file
    got,         \* bytes the running kfifo_out of each reader has copied
    buf,         \* the records whose rows are in each open file's buffer
    rows,        \* the records whose rows the readers were given
    opens,       \* openings of the file so far
    \* history
    last,        \* the byte kfifo_out took out last
    refused,     \* records of which nothing was stored
    torn,        \* records of which a part was stored
    misaligned,  \* such a part has been published since the fifo was empty
    cut,         \* records taken out for a row that did not fit
    raced        \* a reader met another one, or kfifo_alloc met anyone, at work

fifoVars == <<ring, in, out>>
readVars == <<ctl_temp, rd, pos, got, buf, rows, opens, last, cut, raced>>
vars == <<phase, fifoVars, put, seen, readVars, refused, torn, misaligned>>

NoByte  == <<0, 0>>
Offsets == 1..REC
Zeroed  == [i \in Offsets |-> NoByte]             \* ctl_init
Record(k) == [i \in Offsets |-> <<k, i>>]

(* The record a row begins with; 0 for the heading.                         *)
First(row) == row[1][1]

Least(a, b) == IF a <= b THEN a ELSE b

Init ==
    /\ phase = "out"
    /\ ring = [b \in 0..BUF_SIZE-1 |-> NoByte] /\ in = 0 /\ out = 0
    /\ put = 0 /\ seen = 0
    /\ ctl_temp = Zeroed
    /\ rd = [r \in Readers |-> "closed"]
    /\ pos = [r \in Readers |-> 0]
    /\ got = [r \in Readers |-> 0]
    /\ buf = [r \in Readers |-> {}]
    /\ rows = {} /\ opens = 0
    /\ last = NoByte /\ refused = {} /\ torn = {} /\ misaligned = FALSE
    /\ cut = {} /\ raced = FALSE

-----------------------------------------------------------------------------
(* Loading and unloading.  The probe is registered, and the file is there,  *)
(* before the fifo is allocated.                                            *)

Allocated == phase \in {"ready", "leaving", "removed"}

(* A reader that works on ctl_temp, and one that is in a call of seq_read.   *)
Using(r)  == rd[r] \in {"show", "next", "advance"}
Inside(r) == Using(r) \/ rd[r] = "return"

Module(from, to) == phase = from /\ phase' = to

RegisterProbe ==
    /\ Module("out", "probing")
    /\ UNCHANGED <<fifoVars, put, seen, readVars, refused, torn, misaligned>>

ProcCreate ==
    /\ Module("probing", "proc")
    /\ UNCHANGED <<fifoVars, put, seen, readVars, refused, torn, misaligned>>

(* kfifo_alloc: the fields are set first ...                                *)
KfifoReset ==
    /\ Module("proc", "alloc")
    /\ in' = 0 /\ out' = 0
    /\ misaligned' = FALSE
    /\ raced' = (raced \/ \E r \in Readers : rd[r] = "advance")
    /\ UNCHANGED <<ring, put, seen, ctl_temp, rd, pos, got, buf, rows, opens,
                   last, cut, refused, torn>>

(* ... and then the pointer to the ring and its size.  A copy of n bytes in *)
(* between goes through a null pointer.                                     *)
Faults(n) == phase = "alloc" /\ n > 0

KfifoAlloc ==
    /\ Module("alloc", "ready")
    /\ UNCHANGED <<fifoVars, put, seen, readVars, refused, torn, misaligned>>

(* Mutant: no tracepoint_synchronize_unregister.                            *)
ProbeDone_Unasked == TRUE

(* tracepoint_synchronize_unregister waits for a running probe.             *)
ProbeDone == put = 0

UnregisterProbe ==
    /\ ProbeDone
    /\ Module("ready", "leaving")
    /\ UNCHANGED <<fifoVars, put, seen, readVars, refused, torn, misaligned>>

(* remove_proc_entry waits for every call that is inside the file, and      *)
(* closes it for those who still have it open.                              *)
RemoveProc ==
    /\ Module("leaving", "removed")
    /\ \A r \in Readers : ~Inside(r)
    /\ rd' = [r \in Readers |-> "closed"]
    /\ pos' = [r \in Readers |-> 0]
    /\ UNCHANGED <<fifoVars, put, seen, ctl_temp, got, buf, rows, opens, last,
                   cut, raced, refused, torn, misaligned>>

(* The ring is given back with what is in it; the next loading of the       *)
(* module, and the history with it, starts afresh.                          *)
KfifoFree ==
    /\ Module("removed", "out")
    /\ in' = 0 /\ out' = 0
    /\ ring' = [b \in 0..BUF_SIZE-1 |-> NoByte]
    /\ ctl_temp' = Zeroed
    /\ rows' = {} /\ last' = NoByte /\ refused' = {} /\ torn' = {}
    /\ cut' = {} /\ misaligned' = FALSE /\ raced' = FALSE
    /\ seen' = 0 /\ opens' = 0
    /\ UNCHANGED <<put, rd, pos, got, buf>>

-----------------------------------------------------------------------------
(* probe_rbfgrad_output.  kfifo_in stores what fits.  A fifo that is not    *)
(* allocated claims to have one place, and stores nothing there.            *)

Room == (IF Allocated THEN BUF_SIZE ELSE 1) - (in - out)

(* Mutant: the fifo is taken to have room always.                           *)
Fitting_Always == REC

(* Less than no room counts as a huge one.                                  *)
Fitting == IF Room < 0 THEN REC ELSE Least(REC, Room)

ProbeCopy ==
    /\ phase \in {"probing", "proc", "alloc", "ready"} /\ put = 0
    /\ seen < MaxRecords
    /\ ~Faults(Fitting)
    /\ seen' = seen + 1
    /\ put' = Fitting
    /\ ring' = IF ~Allocated THEN ring ELSE
                 [b \in DOMAIN ring |->
                    LET j == ((b - in) % BUF_SIZE) + 1
                    IN  IF j <= put' THEN <<seen', j>> ELSE ring[b]]
    /\ refused' = IF put' = 0 THEN refused \cup {seen'} ELSE refused
    /\ torn' = IF put' \in 1..REC-1 THEN torn \cup {seen'} ELSE torn
    /\ UNCHANGED <<phase, in, out, readVars, misaligned>>

(* The probe faults; nothing more is claimed of the fifo.                   *)
ProbeFault ==
    /\ put = 0 /\ seen < MaxRecords
    /\ Faults(Fitting)
    /\ seen' = seen + 1
    /\ raced' = TRUE
    /\ UNCHANGED <<phase, fifoVars, put, ctl_temp, rd, pos, got, buf, rows, opens,
                   last, cut, refused, torn, misaligned>>

(* fifo->in += len                                                          *)
ProbePublish ==
    /\ put > 0
    /\ in' = in + put
    /\ put' = 0
    /\ misaligned' = (misaligned \/ put < REC)
    /\ UNCHANGED <<phase, ring, out, seen, readVars, refused, torn>>

-----------------------------------------------------------------------------
(* One reader.  A read of the file is start, then show and next until the   *)
(* buffer is full or next finds nothing.                                    *)

OpenFile(r) ==
    /\ phase \in {"proc", "alloc", "ready", "leaving"}
    /\ rd[r] = "closed" /\ opens < MaxOpens
    /\ opens' = opens + 1
    /\ rd' = [rd EXCEPT ![r] = "start"]
    /\ pos' = [pos EXCEPT ![r] = 0]
    /\ UNCHANGED <<phase, fifoVars, put, seen, ctl_temp, got, buf, rows, last,
                   cut, raced, refused, torn, misaligned>>

(* Mutant: a later read starts over with another heading.                   *)
Starts_Always(p) == TRUE

(* Only the first read of an opening gets anything.                         *)
Starts(p) == p = 0

(* rbfgrad_start: a row of zeros is the heading.                            *)
RbfgradStart(r) ==
    /\ rd[r] = "start"
    /\ ctl_temp' = Zeroed
    /\ rd' = [rd EXCEPT ![r] = IF Starts(pos[r]) THEN "show" ELSE "eof"]
    /\ raced' = (raced \/ \E s \in Readers \ {r} : Using(s))
    /\ UNCHANGED <<phase, fifoVars, put, seen, pos, got, buf, rows, opens, last,
                   cut, refused, torn, misaligned>>

(* rbfgrad_show.  The row fits, and there may or may not be room for more   *)
(* in the reader's own buffer; or it does not fit into the page, and is     *)
(* taken back although the fifo has given it away.                          *)
RbfgradShow(r) ==
    /\ rd[r] = "show"
    /\ \/ /\ buf' = [buf EXCEPT ![r] = buf[r] \cup {First(ctl_temp)}]
          /\ \E on \in {"next", "return"} : rd' = [rd EXCEPT ![r] = on]
          /\ UNCHANGED cut
       \/ /\ pos[r] > 0
          /\ rd' = [rd EXCEPT ![r] = "return"]
          /\ cut' = cut \cup {First(ctl_temp)}
          /\ UNCHANGED buf
    /\ UNCHANGED <<phase, fifoVars, put, seen, ctl_temp, pos, got, rows, opens,
                   last, raced, refused, torn, misaligned>>

(* What kfifo_out can give: out beyond in counts as a huge length.          *)
Ready == IF in < out THEN REC ELSE Least(REC, in - out)

(* Mutant: the copy stops at the end of the ring.                           *)
FromRing_NoWrap(n) ==
    [i \in Offsets |-> LET b == (out % BUF_SIZE) + i - 1
                       IN  IF i <= n /\ b < BUF_SIZE THEN ring[b] ELSE NoByte]

FromRing(n) == [i \in Offsets |-> IF i <= n THEN ring[(out + i - 1) % BUF_SIZE]
                                            ELSE NoByte]

Enough(p) == p >= MAX_TO_GET

(* rbfgrad_next up to the copy of kfifo_out ...                             *)
RbfgradNext(r) ==
    /\ rd[r] = "next"
    /\ ~Faults(Ready) \/ Enough(pos[r] + 1)
    /\ pos' = [pos EXCEPT ![r] = pos[r] + 1]
    /\ IF Enough(pos'[r]) \/ Ready = 0
       THEN /\ ctl_temp' = Zeroed
            /\ rd' = [rd EXCEPT ![r] = "return"]
            /\ UNCHANGED <<got, last>>
       ELSE /\ ctl_temp' = IF Allocated THEN FromRing(Ready) ELSE Zeroed
            /\ got' = [got EXCEPT ![r] = Ready]
            /\ rd' = [rd EXCEPT ![r] = "advance"]
            /\ last' = ctl_temp'[Ready]
    /\ UNCHANGED <<phase, fifoVars, put, seen, buf, rows, opens, cut, raced,
                   refused, torn, misaligned>>

(* The copy faults, and the reader is killed.                               *)
NextFault(r) ==
    /\ rd[r] = "next"
    /\ Faults(Ready) /\ ~Enough(pos[r] + 1)
    /\ ctl_temp' = Zeroed
    /\ rd' = [rd EXCEPT ![r] = "closed"]
    /\ pos' = [pos EXCEPT ![r] = 0]
    /\ buf' = [buf EXCEPT ![r] = {}]
    /\ raced' = TRUE
    /\ UNCHANGED <<phase, fifoVars, put, seen, got, rows, opens, last, cut, refused,
                   torn, misaligned>>

(* Mutant: a whole record is taken, however much there was.                 *)
Advanced_Whole(r) == out + REC

(* Mutant: the fifo is emptied.                                             *)
Advanced_Reset(r) == in

(* ... and the fifo->out += len after it.                                   *)
Advanced(r) == out + got[r]

KfifoAdvance(r) ==
    /\ rd[r] = "advance"
    /\ out' = Advanced(r)
    /\ got' = [got EXCEPT ![r] = 0]
    /\ rd' = [rd EXCEPT ![r] = "show"]
    /\ misaligned' = (misaligned /\ out' # in)
    /\ UNCHANGED <<phase, ring, in, put, seen, ctl_temp, pos, buf, rows, opens,
                   last, cut, raced, refused, torn>>

(* The read returns; read_proc_rbfgrad turns each row into a line of params *)
(* and reads again.                                                         *)
ReadReturns(r) ==
    /\ rd[r] = "return"
    /\ rows' = rows \cup buf[r]
    /\ buf' = [buf EXCEPT ![r] = {}]
    /\ pos' = [pos EXCEPT ![r] = 1]
    /\ rd' = [rd EXCEPT ![r] = "start"]
    /\ UNCHANGED <<phase, fifoVars, put, seen, ctl_temp, got, opens, last, cut,
                   raced, refused, torn, misaligned>>

CloseFile(r) ==
    /\ rd[r] = "eof"
    /\ rd' = [rd EXCEPT ![r] = "closed"]
    /\ pos' = [pos EXCEPT ![r] = 0]
    /\ UNCHANGED <<phase, fifoVars, put, seen, ctl_temp, got, buf, rows, opens,
                   last, cut, raced, refused, torn, misaligned>>

ModuleStep == \/ RegisterProbe \/ ProcCreate \/ KfifoReset \/ KfifoAlloc
              \/ UnregisterProbe \/ RemoveProc \/ KfifoFree
Probe == ProbeCopy \/ ProbeFault \/ ProbePublish
ReadStep(r) == \/ RbfgradStart(r) \/ RbfgradShow(r)
               \/ RbfgradNext(r) \/ NextFault(r) \/ KfifoAdvance(r)
               \/ ReadReturns(r) \/ CloseFile(r)

Next == ModuleStep \/ Probe \/ \E r \in Readers : OpenFile(r) \/ ReadStep(r)

Spec == Init /\ [][Next]_vars
(* A process that has the file open goes on reading it.                     *)
FairSpec == Spec /\ \A r \in Readers : WF_vars(ReadStep(r))

-----------------------------------------------------------------------------
(* Type correctness; a file position never passes MAX_TO_GET.              *)
TypeOK ==
    /\ phase \in {"out", "probing", "proc", "alloc", "ready", "leaving",
                  "removed"}
    /\ ring \in [0..BUF_SIZE-1 -> Nat \X Nat]
    /\ in \in Nat /\ out \in Nat
    /\ put \in 0..REC /\ seen \in Nat
    /\ ctl_temp \in [Offsets -> Nat \X Nat]
    /\ rd \in [Readers -> {"closed", "start", "show", "next", "advance",
                           "return", "eof"}]
    /\ pos \in [Readers -> 0..MAX_TO_GET]
    /\ got \in [Readers -> 0..REC]
    /\ buf \in [Readers -> SUBSET Nat] /\ rows \subseteq Nat
    /\ opens \in Nat
    /\ last \in Nat \X Nat
    /\ refused \subseteq Nat /\ torn \subseteq Nat /\ cut \subseteq Nat
    /\ misaligned \in BOOLEAN /\ raced \in BOOLEAN

(* With readers one after the other, and nobody in the middle of            *)
(* kfifo_alloc, the probe and a reader need no lock: the fifo never holds   *)
(* more than it has room for, nor less than nothing.                        *)
FifoBounded == ~raced => in - out \in 0..BUF_SIZE

Before(b, c) == b[1] < c[1] \/ (b[1] = c[1] /\ b[2] < c[2])

(* ... and whatever was stored in part, lost or cut, the bytes leave the    *)
(* fifo in the order in which the probe put them in, none of them twice.    *)
StreamInOrder ==
    [][\A r \in Readers :
         RbfgradNext(r) /\ rd'[r] = "advance" /\ ~raced =>
           \A i \in 1..got'[r] :
             ctl_temp'[i] # NoByte =>
               Before(IF i = 1 THEN last ELSE ctl_temp'[i-1], ctl_temp'[i])]_vars

Whole(row) == \E k \in 1..seen : row = Record(k)

(* A record that was stored in part shifts the rows after it, but only      *)
(* until a reader has emptied the fifo: from then on each row is again one  *)
(* whole record.                                                            *)
RowsRealign ==
    [][\A r \in Readers :
         RbfgradNext(r) /\ rd'[r] = "advance" /\ ~misaligned /\ ~raced
           => Whole(ctl_temp')]_vars

Printed == rows \cup UNION {buf[r] : r \in Readers}
InHand  == {First(ctl_temp) : r \in {s \in Readers : rd[s] = "show"}}
Stored  == {ring[b % BUF_SIZE][1] : b \in out..in-1}
Coming  == IF put > 0 THEN {seen} ELSE {}

(* As long as no record was stored in part, none disappears on its way:     *)
(* each is refused, in the fifo, in the hands of a reader, printed, or was  *)
(* cut off at the end of a page.                                            *)
RecordsAccounted ==
    ~raced /\ torn = {} =>
      1..seen \subseteq refused \cup Coming \cup Stored \cup InHand \cup Printed \cup cut

(* The fifo is freed only when nobody can be copying into or out of it.     *)
FreedUntouched ==
    phase \in {"removed", "out"} => put = 0 /\ \A r \in Readers : ~Using(r)

(* Whatever the probe keeps adding, a reader comes to the end of the file.  *)
ReadEnds == \A r \in Readers : rd[r] = "start" ~> rd[r] = "closed"
=============================================================================
