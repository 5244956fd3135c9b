--------------------------- MODULE TraceFifoProofs ---------------------------
(***************************************************************************)
(* What TLAPS proves of TraceFifo for every size of the fifo and of a       *)
(* record, and any number of readers, records and openings.                 *)
(***************************************************************************)
EXTENDS TraceFifo, TLAPS

-----------------------------------------------------------------------------
(* The inductive invariant, part by part.                                   *)

Cap == IF Allocated THEN BUF_SIZE ELSE 1

(* Without a race the probe never stores more than there is room for: the   *)
(* consumers can only make room.                                            *)
NeverOverfull == ~raced => in - out + put <= Cap

(* No probe runs once it is unregistered, no file is open before there is   *)
(* one, or after.                                                           *)
Quiet ==
    /\ phase \in {"out", "leaving", "removed"} => put = 0
    /\ phase \in {"out", "probing", "removed"} => \A r \in Readers : rd[r] = "closed"

(* A reader in the middle of a row has not come to the last one.            *)
BeforeLast == \A r \in Readers : Using(r) => pos[r] < MAX_TO_GET

(* Without a race there is one reader at work, and what it is taking out is *)
(* there.                                                                   *)
OneReader ==
    ~raced =>
      /\ \A r, s \in Readers : Using(r) /\ Using(s) => r = s
      /\ out <= in
      /\ \A r \in Readers : rd[r] = "advance" => got[r] \in 1..REC /\ got[r] <= in - out

(* ... and nobody takes anything out in the middle of kfifo_alloc.          *)
NoneInAlloc == ~raced /\ phase = "alloc" => \A r \in Readers : rd[r] # "advance"

CtlInv == TypeOK /\ NeverOverfull /\ Quiet /\ BeforeLast /\ OneReader /\ NoneInAlloc

(* The stream of bytes laid over the ring: its part from out to in is what  *)
(* the fifo holds.                                                          *)
Stream == [p \in Nat |-> ring[p % BUF_SIZE]]

(* The byte at p stands in a whole record between lo and hi.                *)
InRecord(p, lo, hi) ==
    /\ Stream[p][1] \in 1..seen /\ Stream[p][2] \in 1..REC
    /\ lo <= p - Stream[p][2] + 1 /\ p - Stream[p][2] + REC <= hi
    /\ \A i \in 1..REC : Stream[p - Stream[p][2] + i] = <<Stream[p][1], i>>

(* Unless a part of a record was published, the fifo holds whole records,   *)
(* beginning with the first byte of one; a reader takes one at a time.      *)
Aligned ==
    ~raced /\ ~misaligned =>
      /\ ~Allocated => in = out
      /\ \A p \in out..in-1 : InRecord(p, out, in-1)
      /\ in > out => Stream[out][2] = 1
      /\ \A r \in Readers : rd[r] = "advance" => got[r] = REC

(* What the probe has copied waits behind the end of the stream.            *)
Pending ==
    /\ put > 0 => seen > 0
    /\ ~raced /\ put = REC => \A i \in 1..REC : Stream[in + i - 1] = <<seen, i>>

(* A part of a record is noted as torn before it can do harm; before the    *)
(* fifo is allocated every record is torn or refused.                       *)
TornKnown ==
    /\ put \in 1..REC-1 => torn # {}
    /\ misaligned => torn # {}
    /\ ~raced /\ ~Allocated /\ torn = {} => seen = 0

(* The reader that takes out bytes holds the first of them.                 *)
Holding ==
    ~raced /\ Allocated =>
      \A r \in Readers : rd[r] = "advance" => ctl_temp[1] = Stream[out]

StoreInv == CtlInv /\ Aligned /\ Pending /\ TornKnown /\ Holding

(* The numbers in the ring are those of records seen, and an unallocated    *)
(* fifo stores nothing.                                                     *)
OldBytes ==
    /\ \A b \in 0..BUF_SIZE-1 : ring[b][1] <= seen
    /\ last[1] <= seen
    /\ ~Allocated => \A b \in 0..BUF_SIZE-1 : ring[b] = NoByte

(* The stream is in order, and everything in it comes after last.           *)
Ordered ==
    ~raced /\ Allocated =>
      /\ \A b, c \in out..in+put-1 :
           b < c /\ Stream[c] # NoByte => Before(Stream[b], Stream[c])
      /\ \A r \in Readers : rd[r] = "advance" => last = Stream[out + got[r] - 1]
      /\ (\A r \in Readers : rd[r] # "advance") =>
            \A c \in out..in+put-1 : Stream[c] # NoByte => Before(last, Stream[c])

OrderInv == CtlInv /\ OldBytes /\ Ordered

-----------------------------------------------------------------------------
(* The control: phases, places of the readers and lengths.                  *)

LEMMA CtlInit == Init => CtlInv
  <1> SUFFICES ASSUME Init PROVE CtlInv
    OBVIOUS
  <1>0. 0 \in Nat /\ 0 \in 0..REC /\ 0 \in 0..MAX_TO_GET /\ NoByte \in Nat \X Nat
    BY FifoAssumption DEF NoByte
  <1>1. TypeOK
    BY <1>0 DEF Init, TypeOK, Zeroed
  <1>2. NeverOverfull
    BY FifoAssumption DEF Init, NeverOverfull, Cap, Allocated
  <1>3. Quiet /\ BeforeLast
    BY DEF Init, Quiet, BeforeLast, Using
  <1>4. OneReader /\ NoneInAlloc
    BY DEF Init, OneReader, NoneInAlloc, Using
  <1> QED
    BY <1>1, <1>2, <1>3, <1>4 DEF CtlInv

(* What the probe can store, and what a reader can take out.                *)
LEMMA FittingIs ==
  ASSUME CtlInv, put = 0
  PROVE  Fitting \in 0..REC /\ (~raced => in - out + Fitting <= Cap)
  <1>1. in \in Nat /\ out \in Nat /\ (~raced => in - out + put <= Cap)
    BY DEF CtlInv, TypeOK, NeverOverfull
  <1>2. Room \in Int /\ Room = Cap - (in - out)
    BY <1>1, FifoAssumption DEF Room, Cap
  <1>3. Fitting \in 0..REC
    BY <1>2, FifoAssumption DEF Fitting, Least
  <1>4. ASSUME ~raced PROVE in - out + Fitting <= Cap
    <2>1. Room >= 0
      BY <1>1, <1>2, <1>4, FifoAssumption DEF Cap
    <2>2. Fitting <= Room
      BY <1>2, <2>1, FifoAssumption DEF Fitting, Least
    <2> QED
      BY <1>1, <1>2, <1>3, <2>2, FifoAssumption DEF Cap
  <1> QED
    BY <1>3, <1>4

LEMMA ReadyIs ==
  ASSUME CtlInv
  PROVE  Ready \in 0..REC /\ (out <= in => Ready <= in - out)
  BY FifoAssumption DEF CtlInv, TypeOK, Ready, Least

LEMMA ZeroedType == Zeroed \in [Offsets -> Nat \X Nat]
  BY DEF Zeroed, NoByte

LEMMA FromRingType ==
  ASSUME CtlInv, NEW n \in Int
  PROVE  FromRing(n) \in [Offsets -> Nat \X Nat]
  <1>1. \A i \in Offsets : (out + i - 1) % BUF_SIZE \in 0..BUF_SIZE-1
    BY FifoAssumption, SMTT(30) DEF CtlInv, TypeOK, Offsets
  <1>2. \A i \in Offsets : ring[(out + i - 1) % BUF_SIZE] \in Nat \X Nat
    BY <1>1 DEF CtlInv, TypeOK
  <1>3. NoByte \in Nat \X Nat
    BY DEF NoByte
  <1>4. \A i \in Offsets :
          (IF i <= n THEN ring[(out + i - 1) % BUF_SIZE] ELSE NoByte) \in Nat \X Nat
    BY <1>2, <1>3
  <1> QED
    BY <1>4, Zenon DEF FromRing

LEMMA FirstIs == ASSUME TypeOK PROVE First(ctl_temp) \in Nat
  <1>1. 1 \in Offsets
    BY FifoAssumption DEF Offsets
  <1>2. ctl_temp[1] \in Nat \X Nat
    BY <1>1 DEF TypeOK
  <1> QED
    BY <1>2 DEF First

(* The types, for each kind of step.                                        *)
LEMMA TypeModule == CtlInv /\ ModuleStep => TypeOK'
  <1> SUFFICES ASSUME CtlInv, ModuleStep PROVE TypeOK'
    OBVIOUS
  <1> USE DEF CtlInv, TypeOK, fifoVars, readVars, Module
  <1>0. 0 \in Nat /\ 0 \in 0..REC /\ 0 \in 0..MAX_TO_GET /\ NoByte \in Nat \X Nat
    BY FifoAssumption DEF NoByte
  <1>1. CASE RegisterProbe
    BY <1>1 DEF RegisterProbe
  <1>2. CASE ProcCreate
    BY <1>2 DEF ProcCreate
  <1>3. CASE KfifoReset
    <2>1. raced' \in BOOLEAN /\ misaligned' \in BOOLEAN
      BY <1>3, Zenon DEF KfifoReset
    <2> QED
      BY <1>0, <1>3, <2>1 DEF KfifoReset
  <1>a. CASE KfifoAlloc
    BY <1>a DEF KfifoAlloc
  <1>4. CASE UnregisterProbe
    BY <1>4 DEF UnregisterProbe
  <1>5. CASE RemoveProc
    <2>1. rd' \in [Readers -> {"closed"}] /\ pos' \in [Readers -> 0..MAX_TO_GET]
      BY <1>0, <1>5 DEF RemoveProc
    <2> QED
      BY <1>5, <2>1 DEF RemoveProc
  <1>6. CASE KfifoFree
    <2>1. ring' \in [0..BUF_SIZE-1 -> Nat \X Nat] /\ last' \in Nat \X Nat
      BY <1>0, <1>6 DEF KfifoFree
    <2> QED
      BY <1>0, <1>6, <2>1, ZeroedType DEF KfifoFree
  <1> QED
    BY <1>1, <1>2, <1>3, <1>a, <1>4, <1>5, <1>6 DEF ModuleStep

LEMMA TypeProbe == CtlInv /\ Probe => TypeOK'
  <1> SUFFICES ASSUME CtlInv, Probe PROVE TypeOK'
    OBVIOUS
  <1> USE DEF CtlInv, TypeOK, fifoVars, readVars
  <1>1. CASE ProbeCopy
    <2>1. put' \in 0..REC
      BY <1>1, FittingIs DEF ProbeCopy
    <2>2. seen' \in Nat
      BY <1>1 DEF ProbeCopy
    <2>3. ring' \in [0..BUF_SIZE-1 -> Nat \X Nat]
      <3> DEFINE new(b) == LET j == ((b - in) % BUF_SIZE) + 1
                           IN  IF j <= put' THEN <<seen', j>> ELSE ring[b]
      <3>1. \A b \in 0..BUF_SIZE-1 : ((b - in) % BUF_SIZE) + 1 \in Nat
        BY FifoAssumption
      <3>2. \A b \in 0..BUF_SIZE-1 : new(b) \in Nat \X Nat
        BY <2>2, <3>1
      <3>3. ring' = ring \/ ring' = [b \in DOMAIN ring |-> new(b)]
        BY <1>1, Zenon DEF ProbeCopy
      <3>4. DOMAIN ring = 0..BUF_SIZE-1
        OBVIOUS
      <3> HIDE DEF new
      <3> QED
        BY <3>2, <3>3, <3>4
    <2>4. refused' \subseteq Nat /\ torn' \subseteq Nat
      BY <1>1, <2>2 DEF ProbeCopy
    <2> QED
      BY <1>1, <2>1, <2>2, <2>3, <2>4 DEF ProbeCopy
  <1>2. CASE ProbePublish
    <2>1. misaligned' \in BOOLEAN
      BY <1>2, Zenon DEF ProbePublish
    <2>2. in' \in Nat /\ put' \in 0..REC
      BY <1>2, FifoAssumption DEF ProbePublish
    <2> QED
      BY <1>2, <2>1, <2>2 DEF ProbePublish
  <1>3. CASE ProbeFault
    BY <1>3 DEF ProbeFault
  <1> QED
    BY <1>1, <1>2, <1>3 DEF Probe

LEMMA TypeReader ==
  ASSUME CtlInv, NEW r \in Readers, OpenFile(r) \/ ReadStep(r)
  PROVE  TypeOK'
  <1>f. First(ctl_temp) \in Nat
    BY FirstIs DEF CtlInv
  <1> USE DEF CtlInv, TypeOK, fifoVars, readVars
  <1>0. 0 \in Nat /\ 0 \in 0..REC /\ 0 \in 0..MAX_TO_GET /\ 1 \in 0..MAX_TO_GET
    BY FifoAssumption
  <1>1. CASE OpenFile(r)
    <2>1. pos' \in [Readers -> 0..MAX_TO_GET]
      BY <1>0, <1>1, Zenon DEF OpenFile
    <2> QED
      BY <1>1, <2>1, SMTT(30) DEF OpenFile
  <1>2. CASE RbfgradStart(r)
    <2>1. raced' \in BOOLEAN
      BY <1>2, Zenon DEF RbfgradStart
    <2>2. rd' \in [Readers -> {"closed", "start", "show", "next", "advance", "return", "eof"}]
      BY <1>2 DEF RbfgradStart
    <2> QED
      BY <1>2, <2>1, <2>2, ZeroedType DEF RbfgradStart
  <1>3. CASE RbfgradShow(r)
    <2>1. buf' \in [Readers -> SUBSET Nat] /\ cut' \subseteq Nat
      <3>1. buf[r] \cup {First(ctl_temp)} \in SUBSET Nat /\ cut \cup {First(ctl_temp)} \subseteq Nat
        BY <1>f
      <3>2. \/ buf' = [buf EXCEPT ![r] = buf[r] \cup {First(ctl_temp)}] /\ cut' = cut
            \/ buf' = buf /\ cut' = cut \cup {First(ctl_temp)}
        BY <1>3, Zenon DEF RbfgradShow
      <3>3. [buf EXCEPT ![r] = buf[r] \cup {First(ctl_temp)}] \in [Readers -> SUBSET Nat]
        BY <3>1, Zenon
      <3> QED
        BY <3>1, <3>2, <3>3, Zenon
    <2>2. rd' \in [Readers -> {"closed", "start", "show", "next", "advance", "return", "eof"}]
      BY <1>3 DEF RbfgradShow
    <2> QED
      BY <1>3, <2>1, <2>2 DEF RbfgradShow
  <1>4. CASE RbfgradNext(r)
    <2>1. pos[r] \in 0..MAX_TO_GET /\ pos[r] < MAX_TO_GET
      BY <1>4 DEF RbfgradNext, BeforeLast, Using
    <2>2. pos[r] + 1 \in 0..MAX_TO_GET
      BY <2>1, FifoAssumption
    <2>3. pos' \in [Readers -> 0..MAX_TO_GET]
      BY <1>4, <2>2, Zenon DEF RbfgradNext
    <2>4. CASE Enough(pos'[r]) \/ Ready = 0
      <3>1. /\ ctl_temp' = Zeroed /\ rd' = [rd EXCEPT ![r] = "return"]
            /\ got' = got /\ last' = last
        BY <1>4, <2>4 DEF RbfgradNext
      <3> QED
        BY <1>4, <2>3, <3>1, ZeroedType DEF RbfgradNext
    <2>5. CASE ~(Enough(pos'[r]) \/ Ready = 0)
      <3>1. /\ ctl_temp' = IF Allocated THEN FromRing(Ready) ELSE Zeroed
            /\ rd' = [rd EXCEPT ![r] = "advance"]
            /\ got' = [got EXCEPT ![r] = Ready] /\ last' = ctl_temp'[Ready]
        BY <1>4, <2>5 DEF RbfgradNext
      <3>2. Ready \in 0..REC /\ Ready \in Offsets /\ Ready \in Int
        BY <2>5, ReadyIs, SMTT(30) DEF Offsets
      <3>3. ctl_temp' \in [Offsets -> Nat \X Nat]
        BY <3>1, <3>2, FromRingType, ZeroedType
      <3>4. last' \in Nat \X Nat
        BY <3>1, <3>2, <3>3
      <3>5. got' \in [Readers -> 0..REC]
        BY <3>1, <3>2, Zenon
      <3> QED
        BY <1>4, <2>3, <3>1, <3>3, <3>4, <3>5 DEF RbfgradNext
    <2> QED
      BY <2>4, <2>5
  <1>5. CASE KfifoAdvance(r)
    <2>1. out' \in Nat
      BY <1>5 DEF KfifoAdvance, Advanced
    <2>2. got' \in [Readers -> 0..REC]
      BY <1>0, <1>5, Zenon DEF KfifoAdvance
    <2>3. misaligned' \in BOOLEAN
      BY <1>5, Zenon DEF KfifoAdvance
    <2> QED
      BY <1>5, <2>1, <2>2, <2>3 DEF KfifoAdvance
  <1>6. CASE ReadReturns(r)
    <2>1. pos' \in [Readers -> 0..MAX_TO_GET]
      BY <1>0, <1>6, Zenon DEF ReadReturns
    <2>2. buf' \in [Readers -> SUBSET Nat] /\ rows' \subseteq Nat
      BY <1>6 DEF ReadReturns
    <2> QED
      BY <1>6, <2>1, <2>2 DEF ReadReturns
  <1>7. CASE CloseFile(r)
    <2>1. pos' \in [Readers -> 0..MAX_TO_GET]
      BY <1>0, <1>7, Zenon DEF CloseFile
    <2> QED
      BY <1>7, <2>1 DEF CloseFile
  <1>8. CASE NextFault(r)
    <2>1. pos' \in [Readers -> 0..MAX_TO_GET]
      BY <1>0, <1>8, Zenon DEF NextFault
    <2>2. buf' \in [Readers -> SUBSET Nat]
      BY <1>8 DEF NextFault
    <2> QED
      BY <1>8, <2>1, <2>2, ZeroedType DEF NextFault
  <1> QED
    BY <1>1, <1>2, <1>3, <1>4, <1>5, <1>6, <1>7, <1>8 DEF ReadStep

LEMMA TypeNext == CtlInv /\ [Next]_vars => TypeOK'
  <1>1. CtlInv /\ UNCHANGED vars => TypeOK'
    BY DEF CtlInv, TypeOK, vars, fifoVars, readVars
  <1> QED
    BY <1>1, TypeModule, TypeProbe, TypeReader DEF Next

(* A race, once noted, stays noted until the module is loaded again.        *)
LEMMA RacedStays ==
  ASSUME [Next]_vars, ~raced'
  PROVE  ~raced \/ KfifoFree
  <1>1. CASE ModuleStep
    BY <1>1, Zenon DEF ModuleStep, RegisterProbe, ProcCreate, KfifoReset, KfifoAlloc, UnregisterProbe,
       RemoveProc, readVars
  <1>2. CASE Probe
    BY <1>2, Zenon DEF Probe, ProbeCopy, ProbeFault, ProbePublish, readVars
  <1>3. ASSUME NEW r \in Readers, OpenFile(r) \/ ReadStep(r) PROVE ~raced
    BY <1>3, Zenon DEF ReadStep, OpenFile, RbfgradStart, RbfgradShow, RbfgradNext,
       NextFault, KfifoAdvance, ReadReturns, CloseFile
  <1>4. CASE UNCHANGED vars
    BY <1>4, Zenon DEF vars, readVars
  <1> QED
    BY <1>1, <1>2, <1>3, <1>4, Zenon DEF Next

(* A fault is noted as a race.                                              *)
Fault == ProbeFault \/ \E r \in Readers : NextFault(r)

LEMMA FaultIs == ASSUME Fault PROVE raced'
  BY Zenon DEF Fault, ProbeFault, NextFault

LEMMA OverfullNext == CtlInv /\ [Next]_vars => NeverOverfull'
  <1> SUFFICES ASSUME CtlInv, [Next]_vars, ~raced' PROVE in' - out' + put' <= Cap'
    BY Zenon DEF NeverOverfull
  <1>t. in \in Nat /\ out \in Nat /\ put \in 0..REC
    BY DEF CtlInv, TypeOK
  <1>2. CASE KfifoFree
    <2>1. put = 0
      BY <1>2 DEF CtlInv, Quiet, KfifoFree, Module
    <2> QED
      BY <1>2, <2>1, FifoAssumption DEF KfifoFree, Module, Cap, Allocated
  <1>r. CASE ~KfifoFree
    <2>n. ~raced
      BY <1>r, RacedStays, Zenon
    <2>0. out <= in /\ in - out + put <= Cap
      BY <2>n, Zenon DEF CtlInv, OneReader, NeverOverfull
    <2>1. CASE KfifoReset
      <3>1. in' = 0 /\ out' = 0 /\ put' = put /\ Cap = 1 /\ Cap' = 1
        BY <2>1 DEF KfifoReset, Module, Cap, Allocated
      <3> QED
        BY <1>t, <2>0, <3>1
    <2>2. CASE KfifoAlloc
      <3>1. in' = in /\ out' = out /\ put' = put /\ Cap = 1 /\ Cap' = BUF_SIZE
        BY <2>2 DEF KfifoAlloc, fifoVars, Module, Cap, Allocated
      <3> QED
        BY <1>t, <2>0, <3>1, FifoAssumption
    <2>3. CASE ProbeCopy
      <3>1. in' = in /\ out' = out /\ phase' = phase /\ put' = Fitting
        BY <2>3 DEF ProbeCopy
      <3>2. in - out + Fitting <= Cap
        BY <2>n, <2>3, FittingIs DEF ProbeCopy
      <3> QED
        BY <3>1, <3>2 DEF Cap, Allocated
    <2>4. CASE ProbePublish
      <3>1. in' = in + put /\ out' = out /\ phase' = phase /\ put' = 0
        BY <2>4 DEF ProbePublish
      <3> QED
        BY <1>t, <2>0, <3>1 DEF Cap, Allocated
    <2>5. ASSUME NEW r \in Readers, KfifoAdvance(r) PROVE in' - out' + put' <= Cap'
      <3>1. in' = in /\ out' = out + got[r] /\ phase' = phase /\ put' = put
        BY <2>5 DEF KfifoAdvance, Advanced
      <3>2. got[r] \in 0..REC
        BY DEF CtlInv, TypeOK
      <3> QED
        BY <1>t, <2>0, <3>1, <3>2, FifoAssumption DEF Cap, Allocated
    <2>6. ASSUME in' = in, out' = out, put' = put, Allocated' = Allocated
          PROVE  in' - out' + put' <= Cap'
      BY <2>0, <2>6 DEF Cap
    <2>7. CASE UNCHANGED vars
      BY <2>6, <2>7 DEF vars, fifoVars, Allocated
    <2>8. CASE RegisterProbe \/ ProcCreate \/ UnregisterProbe \/ RemoveProc
      BY <2>6, <2>8 DEF RegisterProbe, ProcCreate, UnregisterProbe, RemoveProc,
         Module, fifoVars, Allocated
    <2>9. ASSUME NEW r \in Readers,
                 \/ OpenFile(r) \/ RbfgradStart(r) \/ RbfgradShow(r)
                 \/ RbfgradNext(r) \/ ReadReturns(r) \/ CloseFile(r)
          PROVE  in' - out' + put' <= Cap'
      BY <2>6, <2>9 DEF OpenFile, RbfgradStart, RbfgradShow, RbfgradNext, ReadReturns,
         CloseFile, fifoVars, Allocated
    <2>10. ~Fault
      BY FaultIs
    <2> QED
      BY <1>r, <2>1, <2>2, <2>3, <2>4, <2>5, <2>7, <2>8, <2>9, <2>10
      DEF Next, ModuleStep, Probe, ReadStep, Fault
  <1> QED
    BY <1>2, <1>r

LEMMA QuietNext == CtlInv /\ [Next]_vars => Quiet'
  <1> SUFFICES ASSUME CtlInv, [Next]_vars PROVE Quiet'
    OBVIOUS
  <1> USE DEF CtlInv, TypeOK, Quiet
  <1>1. CASE ModuleStep
    BY <1>1 DEF ModuleStep, RegisterProbe, ProcCreate, KfifoReset, KfifoAlloc,
       UnregisterProbe, RemoveProc, KfifoFree, Module, ProbeDone, readVars
  <1>2. CASE Probe
    BY <1>2 DEF Probe, ProbeCopy, ProbeFault, ProbePublish, readVars
  <1>3. ASSUME NEW r \in Readers, OpenFile(r) PROVE Quiet'
    BY <1>3 DEF OpenFile
  <1>4. ASSUME NEW r \in Readers, ReadStep(r) PROVE Quiet'
    BY <1>4 DEF ReadStep, RbfgradStart, RbfgradShow, RbfgradNext, NextFault,
       KfifoAdvance, ReadReturns, CloseFile
  <1>5. CASE UNCHANGED vars
    BY <1>5 DEF vars, readVars
  <1> QED
    BY <1>1, <1>2, <1>3, <1>4, <1>5 DEF Next

LEMMA BeforeLastNext == CtlInv /\ [Next]_vars => BeforeLast'
  <1> SUFFICES ASSUME CtlInv, [Next]_vars PROVE BeforeLast'
    OBVIOUS
  <1> USE DEF BeforeLast, Using
  <1>0. /\ \A s \in Readers : rd[s] \in {"show", "next", "advance"} => pos[s] < MAX_TO_GET
        /\ rd \in [Readers -> {"closed", "start", "show", "next", "advance", "return", "eof"}]
        /\ pos \in [Readers -> 0..MAX_TO_GET]
    BY DEF CtlInv, TypeOK
  <1>1. CASE ModuleStep
    BY <1>0, <1>1 DEF ModuleStep, RegisterProbe, ProcCreate, KfifoReset, KfifoAlloc,
       UnregisterProbe, RemoveProc, KfifoFree, readVars
  <1>2. CASE Probe
    BY <1>0, <1>2 DEF Probe, ProbeCopy, ProbeFault, ProbePublish, readVars
  <1>3. ASSUME NEW r \in Readers, OpenFile(r) PROVE BeforeLast'
    BY <1>0, <1>3 DEF OpenFile
  <1>4. ASSUME NEW r \in Readers, RbfgradStart(r) PROVE BeforeLast'
    BY <1>0, <1>4, FifoAssumption DEF RbfgradStart, Starts
  <1>5. ASSUME NEW r \in Readers, RbfgradShow(r) PROVE BeforeLast'
    BY <1>0, <1>5 DEF RbfgradShow
  <1>6. ASSUME NEW r \in Readers, RbfgradNext(r) PROVE BeforeLast'
    <2>1. pos' = [pos EXCEPT ![r] = pos[r] + 1]
      BY <1>6 DEF RbfgradNext
    <2>2. \/ rd' = [rd EXCEPT ![r] = "return"]
          \/ rd' = [rd EXCEPT ![r] = "advance"] /\ ~(pos'[r] >= MAX_TO_GET)
      BY <1>6 DEF RbfgradNext, Enough
    <2> QED
      BY <1>0, <2>1, <2>2, FifoAssumption
  <1>7. ASSUME NEW r \in Readers, KfifoAdvance(r) PROVE BeforeLast'
    BY <1>0, <1>7 DEF KfifoAdvance
  <1>8. ASSUME NEW r \in Readers, ReadReturns(r) \/ CloseFile(r) PROVE BeforeLast'
    BY <1>0, <1>8 DEF ReadReturns, CloseFile
  <1>9. CASE UNCHANGED vars
    BY <1>0, <1>9 DEF vars, readVars
  <1>10. ASSUME NEW r \in Readers, NextFault(r) PROVE BeforeLast'
    BY <1>0, <1>10 DEF NextFault
  <1> QED
    BY <1>1, <1>2, <1>3, <1>4, <1>5, <1>6, <1>7, <1>8, <1>9, <1>10 DEF Next, ReadStep

LEMMA OneReaderNext == CtlInv /\ [Next]_vars => OneReader'
  <1> SUFFICES ASSUME CtlInv, [Next]_vars, ~raced'
               PROVE  /\ \A r, s \in Readers : Using(r)' /\ Using(s)' => r = s
                      /\ out' <= in'
                      /\ \A r \in Readers : rd'[r] = "advance" =>
                           got'[r] \in 1..REC /\ got'[r] <= in' - out'
    BY Zenon DEF OneReader
  <1> USE DEF Using
  <1>0. /\ in \in Nat /\ out \in Nat /\ put \in 0..REC /\ got \in [Readers -> 0..REC]
        /\ rd \in [Readers -> {"closed", "start", "show", "next", "advance", "return", "eof"}]
    BY DEF CtlInv, TypeOK
  <1>f. CASE KfifoFree
    <2>1. \A s \in Readers : rd'[s] = "closed"
      BY <1>f DEF KfifoFree, Module, CtlInv, Quiet
    <2>2. out' <= in'
      BY <1>f DEF KfifoFree
    <2> QED
      BY <2>1, <2>2
  <1>r. CASE ~KfifoFree
    <2>0. /\ \A r, s \in Readers : Using(r) /\ Using(s) => r = s
          /\ out <= in
          /\ \A r \in Readers : rd[r] = "advance" => got[r] \in 1..REC /\ got[r] <= in - out
      BY <1>r, RacedStays, Zenon DEF CtlInv, OneReader
    <2>1. CASE KfifoReset
      <3>1. \A s \in Readers : rd[s] # "advance"
        BY <2>1, Zenon DEF KfifoReset
      <3>2. rd' = rd /\ in' = 0 /\ out' = 0
        BY <2>1 DEF KfifoReset
      <3> QED
        BY <2>0, <3>1, <3>2
    <2>2. CASE RegisterProbe \/ ProcCreate \/ KfifoAlloc \/ UnregisterProbe
      <3>1. rd' = rd /\ in' = in /\ out' = out /\ got' = got
        BY <2>2 DEF RegisterProbe, ProcCreate, KfifoAlloc, UnregisterProbe, fifoVars,
           readVars
      <3> QED
        BY <2>0, <3>1
    <2>3. CASE RemoveProc
      <3>1. rd' = [s \in Readers |-> "closed"] /\ in' = in /\ out' = out
        BY <2>3 DEF RemoveProc, fifoVars
      <3> QED
        BY <2>0, <3>1
    <2>4. CASE ProbeCopy
      <3>1. rd' = rd /\ in' = in /\ out' = out /\ got' = got
        BY <2>4 DEF ProbeCopy, readVars
      <3> QED
        BY <2>0, <3>1
    <2>5. CASE ProbePublish
      <3>1. rd' = rd /\ in' = in + put /\ out' = out /\ got' = got
        BY <2>5 DEF ProbePublish, readVars
      <3> QED
        BY <1>0, <2>0, <3>1
    <2>6. ASSUME NEW r \in Readers, OpenFile(r) \/ RbfgradShow(r) \/ ReadReturns(r) \/ CloseFile(r)
          PROVE  \A s \in Readers : Using(s)' => Using(s)
      BY <1>0, <2>6 DEF OpenFile, RbfgradShow, ReadReturns, CloseFile
    <2>7. ASSUME NEW r \in Readers, OpenFile(r) \/ RbfgradShow(r) \/ ReadReturns(r) \/ CloseFile(r)
          PROVE  /\ in' = in /\ out' = out /\ got' = got
                 /\ \A s \in Readers : rd'[s] = "advance" => rd[s] = "advance"
      BY <1>0, <2>7 DEF OpenFile, RbfgradShow, ReadReturns, CloseFile, fifoVars
    <2>8. ASSUME NEW r \in Readers, OpenFile(r) \/ RbfgradShow(r) \/ ReadReturns(r) \/ CloseFile(r)
          PROVE  /\ \A t, s \in Readers : Using(t)' /\ Using(s)' => t = s
                 /\ out' <= in'
                 /\ \A t \in Readers : rd'[t] = "advance" =>
                      got'[t] \in 1..REC /\ got'[t] <= in' - out'
      <3>1. \A s \in Readers : Using(s)' => Using(s)
        BY <2>6, <2>8
      <3>2. /\ in' = in /\ out' = out /\ got' = got
            /\ \A s \in Readers : rd'[s] = "advance" => rd[s] = "advance"
        BY <2>7, <2>8
      <3> HIDE DEF Using
      <3> QED
        BY <2>0, <3>1, <3>2
    <2>9. ASSUME NEW r \in Readers, RbfgradStart(r)
          PROVE  /\ \A t, s \in Readers : Using(t)' /\ Using(s)' => t = s
                 /\ out' <= in'
                 /\ \A t \in Readers : rd'[t] = "advance" =>
                      got'[t] \in 1..REC /\ got'[t] <= in' - out'
      <3>1. \A s \in Readers \ {r} : ~Using(s)
        BY <2>9, Zenon DEF RbfgradStart
      <3>2. /\ in' = in /\ out' = out /\ got' = got
            /\ \E to \in {"show", "eof"} : rd' = [rd EXCEPT ![r] = to]
        BY <2>9 DEF RbfgradStart, fifoVars
      <3> QED
        BY <1>0, <2>0, <3>1, <3>2
    <2>10. ASSUME NEW r \in Readers, RbfgradNext(r)
          PROVE  /\ \A t, s \in Readers : Using(t)' /\ Using(s)' => t = s
                 /\ out' <= in'
                 /\ \A t \in Readers : rd'[t] = "advance" =>
                      got'[t] \in 1..REC /\ got'[t] <= in' - out'
      <3>1. in' = in /\ out' = out /\ rd[r] = "next"
        BY <2>10 DEF RbfgradNext, fifoVars
      <3>2. \/ rd' = [rd EXCEPT ![r] = "return"] /\ got' = got
            \/ /\ rd' = [rd EXCEPT ![r] = "advance"] /\ Ready # 0
               /\ got' = [got EXCEPT ![r] = Ready]
        BY <2>10 DEF RbfgradNext
      <3>3. Ready \in 0..REC /\ Ready <= in - out
        BY <2>0, ReadyIs
      <3>4. \A s \in Readers \ {r} : ~Using(s)
        BY <2>0, <3>1
      <3> QED
        BY <1>0, <2>0, <3>1, <3>2, <3>3, <3>4
    <2>11. ASSUME NEW r \in Readers, KfifoAdvance(r)
          PROVE  /\ \A t, s \in Readers : Using(t)' /\ Using(s)' => t = s
                 /\ out' <= in'
                 /\ \A t \in Readers : rd'[t] = "advance" =>
                      got'[t] \in 1..REC /\ got'[t] <= in' - out'
      <3>1. /\ in' = in /\ out' = out + got[r] /\ rd[r] = "advance"
            /\ rd' = [rd EXCEPT ![r] = "show"]
        BY <2>11 DEF KfifoAdvance, Advanced
      <3>4. \A s \in Readers \ {r} : ~Using(s)
        BY <2>0, <3>1
      <3> QED
        BY <1>0, <2>0, <3>1, <3>4
    <2>12. CASE UNCHANGED vars
      <3>1. rd' = rd /\ in' = in /\ out' = out /\ got' = got
        BY <2>12 DEF vars, fifoVars, readVars
      <3> QED
        BY <2>0, <3>1
    <2>13. ~Fault
      BY FaultIs
    <2> HIDE DEF Using
    <2> QED
      BY <1>r, <2>1, <2>2, <2>3, <2>4, <2>5, <2>8, <2>9, <2>10, <2>11, <2>12, <2>13
      DEF Next, ModuleStep, Probe, ReadStep, Fault
  <1> QED
    BY <1>f, <1>r

LEMMA NoneInAllocNext == CtlInv /\ [Next]_vars => NoneInAlloc'
  <1> SUFFICES ASSUME CtlInv, [Next]_vars, ~raced', phase' = "alloc",
                      NEW r \in Readers, rd'[r] = "advance"
               PROVE  FALSE
    BY Zenon DEF NoneInAlloc
  <1>0. rd \in [Readers -> {"closed", "start", "show", "next", "advance", "return", "eof"}]
    BY DEF CtlInv, TypeOK
  <1>1. ~KfifoFree
    BY DEF KfifoFree, Module
  <1>2. ~raced
    BY <1>1, RacedStays, Zenon
  <1>3. CASE ModuleStep
    <2>1. KfifoReset
      BY <1>3 DEF ModuleStep, RegisterProbe, ProcCreate, KfifoAlloc, UnregisterProbe,
         RemoveProc, KfifoFree, Module
    <2>2. \A s \in Readers : rd[s] # "advance"
      BY <2>1, Zenon DEF KfifoReset
    <2>3. rd' = rd
      BY <2>1 DEF KfifoReset
    <2> QED
      BY <2>2, <2>3
  <1>4. CASE ~ModuleStep
    <2>0. phase = "alloc"
      BY <1>4 DEF Next, Probe, ProbeCopy, ProbeFault, ProbePublish, OpenFile, ReadStep,
         RbfgradStart, RbfgradShow, RbfgradNext, NextFault, KfifoAdvance, ReadReturns,
         CloseFile, vars
    <2>1. \A s \in Readers : rd[s] # "advance"
      BY <1>2, <2>0, Zenon DEF CtlInv, NoneInAlloc
    <2>2. CASE Probe \/ UNCHANGED vars
      BY <2>1, <2>2 DEF Probe, ProbeCopy, ProbeFault, ProbePublish, vars, readVars
    <2>3. ASSUME NEW s \in Readers,
                 \/ OpenFile(s) \/ RbfgradStart(s) \/ RbfgradShow(s) \/ NextFault(s)
                 \/ KfifoAdvance(s) \/ ReadReturns(s) \/ CloseFile(s)
          PROVE  FALSE
      BY <1>0, <2>1, <2>3 DEF OpenFile, RbfgradStart, RbfgradShow, NextFault,
         KfifoAdvance, ReadReturns, CloseFile
    <2>4. ASSUME NEW s \in Readers, RbfgradNext(s) PROVE FALSE
      <3>1. Ready \in 0..REC /\ pos' = [pos EXCEPT ![s] = pos[s] + 1]
        BY <2>4, ReadyIs DEF RbfgradNext
      <3>2. pos'[s] = pos[s] + 1
        BY <3>1 DEF CtlInv, TypeOK
      <3>3. Enough(pos'[s]) \/ Ready = 0
        BY <2>0, <2>4, <3>1, <3>2 DEF RbfgradNext, Faults
      <3>4. rd' = [rd EXCEPT ![s] = "return"]
        BY <2>4, <3>3 DEF RbfgradNext
      <3> QED
        BY <1>0, <2>1, <3>4
    <2> QED
      BY <1>4, <2>2, <2>3, <2>4 DEF Next, ReadStep
  <1> QED
    BY <1>3, <1>4

LEMMA CtlNext == CtlInv /\ [Next]_vars => CtlInv'
  BY TypeNext, OverfullNext, QuietNext, BeforeLastNext, OneReaderNext, NoneInAllocNext,
     Zenon DEF CtlInv

(* probe_rbfgrad_output, rbfgrad_next and the loading and unloading of the  *)
(* module keep the control in order in every interleaving.                  *)
THEOREM ControlInvariant == Spec => []CtlInv
  BY CtlInit, CtlNext, PTL DEF Spec

(* Without a race the kfifo of probe_rbfgrad_output and rbfgrad_next never  *)
(* holds more than BUF_SIZE bytes, nor less than none.                      *)
THEOREM FifoCorrect == Spec => []FifoBounded
  <1>1. CtlInv => FifoBounded
    <2> SUFFICES ASSUME CtlInv, ~raced PROVE in - out \in 0..BUF_SIZE
      BY Zenon DEF FifoBounded
    <2>1. out <= in /\ in - out + put <= Cap
      BY Zenon DEF CtlInv, OneReader, NeverOverfull
    <2> QED
      BY <2>1, FifoAssumption DEF CtlInv, TypeOK, Cap
  <1> QED
    BY <1>1, ControlInvariant, PTL

(* When kfifo_free gives the ring back, no probe and no reader is at work   *)
(* on it: unregistering and remove_proc_entry have waited for them.         *)
THEOREM FreeCorrect == Spec => []FreedUntouched
  <1>1. CtlInv => FreedUntouched
    BY DEF CtlInv, TypeOK, Quiet, FreedUntouched, Using
  <1> QED
    BY <1>1, ControlInvariant, PTL

-----------------------------------------------------------------------------
(* The ring.                                                                *)

LEMMA ModUnique ==
  ASSUME NEW b \in Nat, b > 0, NEW q \in Int, NEW r \in 0..b-1
  PROVE  (b * q + r) % b = r
  OBVIOUS

LEMMA ModForm ==
  ASSUME NEW b \in Nat, b > 0, NEW p \in Nat
  PROVE  \E q \in Int : p = b * q + (p % b)
  <1>1. p \div b \in Int /\ p = b * (p \div b) + (p % b)
    OBVIOUS
  <1> QED
    BY <1>1

(* The place of the byte at p, counted from n.                              *)
LEMMA RingPlace ==
  ASSUME NEW p \in Nat, NEW n \in Nat
  PROVE  /\ p % BUF_SIZE \in 0..BUF_SIZE-1
         /\ n <= p /\ p < n + BUF_SIZE => ((p % BUF_SIZE) - n) % BUF_SIZE = p - n
         /\ p < n /\ n - p <= BUF_SIZE =>
              ((p % BUF_SIZE) - n) % BUF_SIZE = p - n + BUF_SIZE
  <1>0. BUF_SIZE \in Nat /\ BUF_SIZE > 0
    BY FifoAssumption
  <1>1. PICK q \in Int : p = BUF_SIZE * q + (p % BUF_SIZE)
    BY <1>0, ModForm
  <1>2. p % BUF_SIZE \in 0..BUF_SIZE-1
    BY <1>0
  <1>3. (p % BUF_SIZE) - n = BUF_SIZE * (-q) + (p - n)
    BY <1>0, <1>1, <1>2
  <1>4. (p % BUF_SIZE) - n = BUF_SIZE * (-q - 1) + (p - n + BUF_SIZE)
    BY <1>0, <1>1, <1>2
  <1>5. ASSUME n <= p, p < n + BUF_SIZE PROVE ((p % BUF_SIZE) - n) % BUF_SIZE = p - n
    <2>1. p - n \in 0..BUF_SIZE-1 /\ -q \in Int
      BY <1>0, <1>5
    <2>2. (BUF_SIZE * (-q) + (p - n)) % BUF_SIZE = p - n
      BY <1>0, <2>1, ModUnique
    <2> QED
      BY <1>3, <2>2, Zenon
  <1>6. ASSUME p < n, n - p <= BUF_SIZE
        PROVE  ((p % BUF_SIZE) - n) % BUF_SIZE = p - n + BUF_SIZE
    <2>1. p - n + BUF_SIZE \in 0..BUF_SIZE-1 /\ -q - 1 \in Int
      BY <1>0, <1>6
    <2>2. (BUF_SIZE * (-q - 1) + (p - n + BUF_SIZE)) % BUF_SIZE = p - n + BUF_SIZE
      BY <1>0, <2>1, ModUnique
    <2> QED
      BY <1>4, <2>2, Zenon
  <1> QED
    BY <1>2, <1>5, <1>6

LEMMA StreamType == ASSUME TypeOK PROVE Stream \in [Nat -> Nat \X Nat]
  <1>1. \A p \in Nat : p % BUF_SIZE \in 0..BUF_SIZE-1
    BY FifoAssumption
  <1> QED
    BY <1>1 DEF TypeOK, Stream

(* kfifo_in overwrites nothing that is in the fifo, and lays the new bytes  *)
(* behind it.                                                               *)
LEMMA CopyKeeps ==
  ASSUME CtlInv, ProbeCopy, Allocated, out <= in, ~raced
  PROVE  /\ put' \in 0..REC /\ in - out + put' <= BUF_SIZE
         /\ \A p \in out..in-1 : Stream'[p] = Stream[p]
         /\ \A p \in in..in+put'-1 : Stream'[p] = <<seen + 1, p - in + 1>>
  <1>0. /\ in \in Nat /\ out \in Nat /\ BUF_SIZE \in Nat /\ seen' = seen + 1
        /\ DOMAIN ring = 0..BUF_SIZE-1 /\ put' = Fitting
    BY FifoAssumption DEF CtlInv, TypeOK, ProbeCopy
  <1>1. put' \in 0..REC /\ in - out + put' <= BUF_SIZE
    BY <1>0, FittingIs DEF ProbeCopy, Cap
  <1>2. ring' = [b \in DOMAIN ring |->
                   LET j == ((b - in) % BUF_SIZE) + 1
                   IN  IF j <= put' THEN <<seen', j>> ELSE ring[b]]
    BY Zenon DEF ProbeCopy
  <1>3. \A b \in 0..BUF_SIZE-1 :
          ring'[b] = IF ((b - in) % BUF_SIZE) + 1 <= put'
                     THEN <<seen + 1, ((b - in) % BUF_SIZE) + 1>> ELSE ring[b]
    BY <1>0, <1>2, Zenon
  <1>4. \A p \in Nat : Stream[p] = ring[p % BUF_SIZE] /\ Stream'[p] = ring'[p % BUF_SIZE]
    BY DEF Stream
  <1>5. ASSUME NEW p \in out..in-1 PROVE Stream'[p] = Stream[p]
    <2>1. p \in Nat /\ p < in /\ in - p <= BUF_SIZE
      BY <1>0, <1>1, FifoAssumption
    <2>2. /\ p % BUF_SIZE \in 0..BUF_SIZE-1
          /\ ((p % BUF_SIZE) - in) % BUF_SIZE = p - in + BUF_SIZE
      BY <1>0, <2>1, RingPlace
    <2>3. ~(p - in + BUF_SIZE + 1 <= put')
      BY <1>0, <1>1, FifoAssumption
    <2>4. ring'[p % BUF_SIZE] = ring[p % BUF_SIZE]
      BY <1>3, <2>2, <2>3, Zenon
    <2> QED
      BY <1>4, <2>1, <2>4, Zenon
  <1>6. ASSUME NEW p \in in..in+put'-1 PROVE Stream'[p] = <<seen + 1, p - in + 1>>
    <2>1. p \in Nat /\ in <= p /\ p < in + BUF_SIZE
      BY <1>0, <1>1, FifoAssumption
    <2>2. /\ p % BUF_SIZE \in 0..BUF_SIZE-1
          /\ ((p % BUF_SIZE) - in) % BUF_SIZE = p - in
      BY <1>0, <2>1, RingPlace
    <2>3. p - in + 1 <= put'
      BY <1>0, <1>1, FifoAssumption
    <2>4. ring'[p % BUF_SIZE] = <<seen + 1, p - in + 1>>
      BY <1>3, <2>2, <2>3, Zenon
    <2> QED
      BY <1>4, <2>1, <2>4, Zenon
  <1> QED
    BY <1>1, <1>5, <1>6

-----------------------------------------------------------------------------
(* Whole records.                                                           *)

(* The steps that leave the fifo and what is taken out of it alone.         *)
Aside == \/ RegisterProbe \/ ProcCreate \/ UnregisterProbe \/ RemoveProc
         \/ \E r \in Readers : \/ OpenFile(r) \/ RbfgradStart(r) \/ RbfgradShow(r)
                               \/ ReadReturns(r) \/ CloseFile(r)
         \/ UNCHANGED vars

LEMMA AsideKeeps ==
  ASSUME CtlInv, Aside
  PROVE  /\ in' = in /\ out' = out /\ put' = put /\ seen' = seen /\ got' = got
         /\ Stream' = Stream /\ Allocated' = Allocated /\ torn' = torn /\ last' = last
         /\ ring' = ring /\ refused' = refused
         /\ \A s \in Readers : rd'[s] = "advance" => rd[s] = "advance"
         /\ misaligned' = misaligned
  <1>0. rd \in [Readers -> {"closed", "start", "show", "next", "advance", "return", "eof"}]
    BY DEF CtlInv, TypeOK
  <1>1. CASE RegisterProbe \/ ProcCreate \/ UnregisterProbe \/ RemoveProc
    BY <1>1 DEF RegisterProbe, ProcCreate, UnregisterProbe, RemoveProc, Module,
       fifoVars, readVars, Allocated, Stream
  <1>2. ASSUME NEW r \in Readers, OpenFile(r) \/ RbfgradStart(r) \/ RbfgradShow(r)
                                  \/ ReadReturns(r) \/ CloseFile(r)
        PROVE  /\ in' = in /\ out' = out /\ put' = put /\ seen' = seen /\ got' = got
               /\ Stream' = Stream /\ Allocated' = Allocated /\ torn' = torn /\ last' = last
               /\ ring' = ring /\ refused' = refused
               /\ misaligned' = misaligned
    BY <1>2 DEF OpenFile, RbfgradStart, RbfgradShow, ReadReturns, CloseFile,
       fifoVars, Allocated, Stream
  <1>3. ASSUME NEW r \in Readers, OpenFile(r) \/ RbfgradStart(r) \/ RbfgradShow(r)
                                  \/ ReadReturns(r) \/ CloseFile(r)
        PROVE  \A s \in Readers : rd'[s] = "advance" => rd[s] = "advance"
    BY <1>0, <1>3 DEF OpenFile, RbfgradStart, RbfgradShow, ReadReturns, CloseFile
  <1>4. CASE UNCHANGED vars
    BY <1>4 DEF vars, fifoVars, readVars, Allocated, Stream
  <1> QED
    BY <1>1, <1>2, <1>3, <1>4 DEF Aside

LEMMA Steps ==
  ASSUME [Next]_vars
  PROVE  \/ Aside \/ KfifoReset \/ KfifoAlloc \/ KfifoFree
         \/ ProbeCopy \/ ProbePublish \/ Fault
         \/ \E r \in Readers : RbfgradNext(r) \/ KfifoAdvance(r)
  BY Zenon DEF Next, Aside, ModuleStep, Probe, ReadStep, Fault

(* The second half of kfifo_alloc: the fifo has room, nothing else changes. *)
LEMMA AllocKeeps ==
  ASSUME CtlInv, KfifoAlloc
  PROVE  /\ in' = in /\ out' = out /\ put' = put /\ seen' = seen /\ got' = got
         /\ Stream' = Stream /\ torn' = torn /\ last' = last /\ ring' = ring /\ rd' = rd
         /\ ~Allocated /\ Allocated'
  BY DEF KfifoAlloc, Module, Allocated, fifoVars, readVars, Stream

LEMMA AllocFlags ==
  ASSUME CtlInv, KfifoAlloc
  PROVE  /\ ~raced' => ~raced
         /\ misaligned' => misaligned
         /\ ~misaligned' => ~misaligned
         /\ ~raced => \A r \in Readers : rd[r] # "advance"
  <1>1. phase = "alloc"
    BY DEF KfifoAlloc, Module
  <1> QED
    BY <1>1, Zenon DEF KfifoAlloc, readVars, CtlInv, NoneInAlloc

(* What a fault leaves as it was.                                           *)
LEMMA FaultKeeps ==
  ASSUME CtlInv, Fault
  PROVE  /\ put' = put /\ torn' = torn /\ last' = last /\ ring' = ring
         /\ Allocated' = Allocated /\ (seen' = seen \/ seen' = seen + 1)
         /\ misaligned' => misaligned
  <1>1. /\ put' = put /\ torn' = torn /\ last' = last /\ ring' = ring
        /\ Allocated' = Allocated /\ (seen' = seen \/ seen' = seen + 1)
    BY DEF Fault, ProbeFault, NextFault, fifoVars, Allocated
  <1>2. misaligned' => misaligned
    BY Zenon DEF Fault, ProbeFault, NextFault
  <1> QED
    BY <1>1, <1>2

LEMMA AsideNotFree == ASSUME CtlInv, Aside, ~raced' PROVE ~raced
  <1>1. CASE RegisterProbe \/ ProcCreate \/ UnregisterProbe \/ RemoveProc
    BY <1>1, Zenon DEF RegisterProbe, ProcCreate, UnregisterProbe, RemoveProc, readVars
  <1>2. ASSUME NEW r \in Readers, OpenFile(r) \/ RbfgradStart(r) \/ RbfgradShow(r)
                                  \/ ReadReturns(r) \/ CloseFile(r)
        PROVE  ~raced
    BY <1>2, Zenon DEF OpenFile, RbfgradStart, RbfgradShow, ReadReturns, CloseFile
  <1>3. CASE UNCHANGED vars
    BY <1>3, Zenon DEF vars, readVars
  <1> QED
    BY <1>1, <1>2, <1>3, Zenon DEF Aside

(* What ~raced gives.                                                       *)
LEMMA Unraced ==
  ASSUME CtlInv, ~raced
  PROVE  /\ in \in Nat /\ out \in Nat /\ put \in 0..REC /\ seen \in Nat
         /\ out <= in /\ in - out + put <= Cap
         /\ \A r, s \in Readers : Using(r) /\ Using(s) => r = s
         /\ \A r \in Readers : rd[r] = "advance" => got[r] \in 1..REC /\ got[r] <= in - out
         /\ Stream \in [Nat -> Nat \X Nat]
         /\ rd \in [Readers -> {"closed", "start", "show", "next", "advance", "return", "eof"}]
         /\ got \in [Readers -> 0..REC]
  <1>1. /\ \A r, s \in Readers : Using(r) /\ Using(s) => r = s
        /\ out <= in /\ in - out + put <= Cap
        /\ \A r \in Readers : rd[r] = "advance" => got[r] \in 1..REC /\ got[r] <= in - out
    BY Zenon DEF CtlInv, OneReader, NeverOverfull
  <1>2. Stream \in [Nat -> Nat \X Nat]
    BY StreamType DEF CtlInv
  <1>3. /\ in \in Nat /\ out \in Nat /\ put \in 0..REC /\ seen \in Nat
        /\ rd \in [Readers -> {"closed", "start", "show", "next", "advance", "return", "eof"}]
        /\ got \in [Readers -> 0..REC]
    BY DEF CtlInv, TypeOK
  <1> QED
    BY <1>1, <1>2, <1>3, Zenon

LEMMA AlignedNext == StoreInv /\ [Next]_vars => Aligned'
  <1> SUFFICES ASSUME StoreInv, [Next]_vars, ~raced', ~misaligned'
               PROVE  /\ ~Allocated' => in' = out'
                      /\ \A p \in out'..in'-1 : InRecord(p, out, in-1)'
                      /\ in' > out' => Stream'[out'][2] = 1
                      /\ \A r \in Readers : rd'[r] = "advance" => got'[r] = REC
    BY Zenon DEF Aligned
  <1>0. CtlInv /\ REC \in Nat /\ REC >= 2
    BY FifoAssumption DEF StoreInv
  <1>1. CASE Aside
    <2>1. ~raced
      BY <1>0, <1>1, AsideNotFree
    <2>2. ~misaligned
      BY <1>0, <1>1, AsideKeeps, Zenon
    <2>3. /\ ~Allocated => in = out
          /\ \A p \in out..in-1 : InRecord(p, out, in-1)
          /\ in > out => Stream[out][2] = 1
          /\ \A r \in Readers : rd[r] = "advance" => got[r] = REC
      BY <2>1, <2>2, Zenon DEF StoreInv, Aligned
    <2>4. /\ in' = in /\ out' = out /\ seen' = seen /\ got' = got
          /\ Stream' = Stream /\ Allocated' = Allocated
          /\ \A s \in Readers : rd'[s] = "advance" => rd[s] = "advance"
      BY <1>0, <1>1, AsideKeeps
    <2> QED
      BY <2>3, <2>4, Zenon DEF InRecord
  <1>2. CASE KfifoReset
    <2>1. \A s \in Readers : rd[s] # "advance"
      BY <1>2, Zenon DEF KfifoReset
    <2>2. rd' = rd /\ in' = 0 /\ out' = 0
      BY <1>2 DEF KfifoReset
    <2> QED
      BY <2>1, <2>2
  <1>a. CASE KfifoAlloc
    <2>1. ~raced /\ ~misaligned
      BY <1>0, <1>a, AllocFlags, Zenon
    <2>2. \A s \in Readers : rd[s] # "advance"
      BY <1>0, <1>a, <2>1, AllocFlags, Zenon
    <2>3. rd' = rd /\ in' = in /\ out' = out /\ ~Allocated /\ Allocated'
      BY <1>0, <1>a, AllocKeeps
    <2>4. in = out
      BY <2>1, <2>3, Zenon DEF StoreInv, Aligned
    <2>5. in \in Nat
      BY <1>0 DEF CtlInv, TypeOK
    <2> QED
      BY <2>2, <2>3, <2>4, <2>5
  <1>b. ~Fault
    BY FaultIs
  <1>3. CASE KfifoFree
    <2>1. \A s \in Readers : rd'[s] = "closed"
      BY <1>0, <1>3 DEF KfifoFree, Module, CtlInv, Quiet
    <2>2. in' = 0 /\ out' = 0
      BY <1>3 DEF KfifoFree
    <2> QED
      BY <2>1, <2>2
  <1>4. CASE ProbeCopy
    <2>1. ~raced /\ ~misaligned
      BY <1>4, Zenon DEF ProbeCopy, readVars
    <2>2. /\ in' = in /\ out' = out /\ seen' = seen + 1 /\ got' = got /\ rd' = rd
          /\ Allocated' = Allocated
      BY <1>4 DEF ProbeCopy, readVars, Allocated
    <2>3. /\ ~Allocated => in = out
          /\ \A p \in out..in-1 : InRecord(p, out, in-1)
          /\ in > out => Stream[out][2] = 1
          /\ \A r \in Readers : rd[r] = "advance" => got[r] = REC
      BY <2>1, Zenon DEF StoreInv, Aligned
    <2>4. in \in Nat /\ out \in Nat /\ out <= in /\ seen \in Nat /\ Stream \in [Nat -> Nat \X Nat]
      BY <1>0, <2>1, Unraced
    <2>5. CASE ~Allocated
      BY <2>2, <2>3, <2>4, <2>5
    <2>6. CASE Allocated
      <3>1. \A p \in out..in-1 : Stream'[p] = Stream[p]
        BY <1>0, <1>4, <2>1, <2>4, <2>6, CopyKeeps
      <3>2. ASSUME NEW p \in out..in-1 PROVE InRecord(p, out, in-1)'
        <4>1. /\ Stream[p][1] \in 1..seen /\ Stream[p][2] \in 1..REC
              /\ out <= p - Stream[p][2] + 1 /\ p - Stream[p][2] + REC <= in - 1
              /\ \A i \in 1..REC : Stream[p - Stream[p][2] + i] = <<Stream[p][1], i>>
          BY <2>3 DEF InRecord
        <4>2. \A i \in 1..REC : p - Stream[p][2] + i \in out..in-1
          BY <1>0, <2>4, <4>1, SMTT(30)
        <4>3. \A i \in 1..REC : Stream'[p - Stream[p][2] + i] = <<Stream[p][1], i>>
          BY <3>1, <4>1, <4>2
        <4>4. Stream'[p] = Stream[p]
          BY <3>1
        <4>5. Stream[p][1] \in 1..seen+1
          BY <2>4, <4>1
        <4> QED
          BY <2>2, <4>1, <4>3, <4>4, <4>5 DEF InRecord
      <3>3. in > out => Stream'[out] = Stream[out]
        BY <2>4, <3>1
      <3> QED
        BY <2>2, <2>3, <2>6, <3>2, <3>3
    <2> QED
      BY <2>5, <2>6
  <1>5. CASE ProbePublish
    <2>1. ~raced /\ ~misaligned /\ ~(put < REC)
      BY <1>5, Zenon DEF ProbePublish, readVars
    <2>2. /\ in' = in + put /\ out' = out /\ seen' = seen /\ got' = got /\ rd' = rd
          /\ Allocated' = Allocated /\ Stream' = Stream
      BY <1>5 DEF ProbePublish, readVars, Allocated, Stream
    <2>3. /\ ~Allocated => in = out
          /\ \A p \in out..in-1 : InRecord(p, out, in-1)
          /\ in > out => Stream[out][2] = 1
          /\ \A r \in Readers : rd[r] = "advance" => got[r] = REC
      BY <2>1, Zenon DEF StoreInv, Aligned
    <2>4. /\ in \in Nat /\ out \in Nat /\ out <= in /\ seen \in Nat /\ Stream \in [Nat -> Nat \X Nat]
          /\ put \in 0..REC /\ in - out + put <= Cap
      BY <1>0, <2>1, Unraced
    <2>5. put = REC
      BY <1>0, <2>1, <2>4
    <2>6. Allocated
      BY <1>0, <2>4, <2>5 DEF Cap
    <2>7. /\ \A i \in 1..REC : Stream[in + i - 1] = <<seen, i>>
          /\ seen > 0
      <3>1. put > 0
        BY <1>5 DEF ProbePublish
      <3> QED
        BY <2>1, <2>5, <3>1, Zenon DEF StoreInv, Pending
    <2>8. ASSUME NEW p \in out..in+REC-1 PROVE InRecord(p, out, in-1)'
      <3>1. CASE p < in
        <4>1. /\ Stream[p][1] \in 1..seen /\ Stream[p][2] \in 1..REC
              /\ out <= p - Stream[p][2] + 1 /\ p - Stream[p][2] + REC <= in - 1
              /\ \A i \in 1..REC : Stream[p - Stream[p][2] + i] = <<Stream[p][1], i>>
          <5>1. p \in out..in-1
            BY <2>4, <3>1
          <5>2. InRecord(p, out, in-1)
            BY <2>3, <5>1, Zenon
          <5> QED
            BY <5>2, Zenon DEF InRecord
        <4>2. p - Stream[p][2] + REC <= in + put - 1
          BY <1>0, <2>4, <4>1
        <4> QED
          BY <2>2, <2>4, <4>1, <4>2, SMTT(30) DEF InRecord
      <3>2. CASE p >= in
        <4>1. p - in + 1 \in 1..REC /\ in + (p - in + 1) - 1 = p
          BY <1>0, <2>4, <3>2
        <4>2. Stream[p] = <<seen, p - in + 1>>
          <5>1. Stream[in + (p - in + 1) - 1] = <<seen, p - in + 1>>
            BY <2>7, <4>1, Zenon
          <5> QED
            BY <4>1, <5>1, Zenon
        <4>3. Stream[p][1] = seen /\ Stream[p][2] = p - in + 1
          BY <4>2
        <4>4. \A i \in 1..REC : p - Stream[p][2] + i = in + i - 1
          BY <1>0, <2>4, <4>1, <4>3
        <4>5. \A i \in 1..REC : Stream[p - Stream[p][2] + i] = <<seen, i>>
          BY <2>7, <4>4
        <4>6. out <= p - Stream[p][2] + 1 /\ p - Stream[p][2] + REC <= in + put - 1
          BY <1>0, <2>4, <2>5, <4>1, <4>3
        <4>7. Stream[p][1] \in 1..seen
          BY <2>4, <2>7, <4>3
        <4> QED
          BY <2>2, <2>4, <4>1, <4>3, <4>5, <4>6, <4>7 DEF InRecord
      <3> QED
        BY <1>0, <2>4, <3>1, <3>2
    <2>9. Stream[out][2] = 1
      <3>1. CASE in > out
        BY <2>3, <3>1
      <3>2. CASE in = out
        <4>1. Stream[in + 1 - 1] = <<seen, 1>>
          BY <1>0, <2>7
        <4>2. in + 1 - 1 = out
          BY <2>4, <3>2
        <4> QED
          BY <4>1, <4>2
      <3> QED
        BY <2>4, <3>1, <3>2
    <2> QED
      <3>1. out'..in'-1 = out..in+REC-1
        <4>1. out' = out /\ in' - 1 = in + REC - 1
          BY <1>0, <2>2, <2>4, <2>5
        <4> QED
          BY <4>1, Zenon
      <3>2. \A p \in out'..in'-1 : InRecord(p, out, in-1)'
        BY <2>8, <3>1, Zenon
      <3> QED
        BY <2>2, <2>3, <2>6, <2>9, <3>2
  <1>6. ASSUME NEW r \in Readers, RbfgradNext(r)
        PROVE  /\ ~Allocated' => in' = out'
               /\ \A p \in out'..in'-1 : InRecord(p, out, in-1)'
               /\ in' > out' => Stream'[out'][2] = 1
               /\ \A s \in Readers : rd'[s] = "advance" => got'[s] = REC
    <2>1. ~raced /\ ~misaligned
      BY <1>6, Zenon DEF RbfgradNext
    <2>2. /\ in' = in /\ out' = out /\ seen' = seen
          /\ Allocated' = Allocated /\ Stream' = Stream
      BY <1>6 DEF RbfgradNext, fifoVars, Allocated, Stream
    <2>3. /\ ~Allocated => in = out
          /\ \A p \in out..in-1 : InRecord(p, out, in-1)
          /\ in > out => Stream[out][2] = 1
          /\ \A s \in Readers : rd[s] = "advance" => got[s] = REC
      BY <2>1, Zenon DEF StoreInv, Aligned
    <2>4. /\ in \in Nat /\ out \in Nat /\ out <= in /\ Stream \in [Nat -> Nat \X Nat]
          /\ rd \in [Readers -> {"closed", "start", "show", "next", "advance", "return", "eof"}]
          /\ got \in [Readers -> 0..REC]
      BY <1>0, <2>1, Unraced
    <2>5. Ready # 0 => Ready = REC
      <3>1. CASE in = out
        BY <1>0, <2>4, <3>1 DEF Ready, Least
      <3>2. CASE in > out
        <4>1. InRecord(out, out, in-1) /\ Stream[out][2] = 1
          BY <2>3, <2>4, <3>2
        <4>2. out - 1 + REC <= in - 1
          BY <4>1 DEF InRecord
        <4> QED
          BY <1>0, <2>4, <4>2 DEF Ready, Least
      <3> QED
        BY <2>4, <3>1, <3>2
    <2>6. \/ rd' = [rd EXCEPT ![r] = "return"] /\ got' = got
          \/ /\ rd' = [rd EXCEPT ![r] = "advance"] /\ Ready # 0
             /\ got' = [got EXCEPT ![r] = Ready]
      BY <1>6 DEF RbfgradNext
    <2>7. \A s \in Readers : rd'[s] = "advance" => got'[s] = REC
      BY <2>3, <2>4, <2>5, <2>6
    <2> QED
      BY <2>2, <2>3, <2>7, Zenon DEF InRecord
  <1>7. ASSUME NEW r \in Readers, KfifoAdvance(r)
        PROVE  /\ ~Allocated' => in' = out'
               /\ \A p \in out'..in'-1 : InRecord(p, out, in-1)'
               /\ in' > out' => Stream'[out'][2] = 1
               /\ \A s \in Readers : rd'[s] = "advance" => got'[s] = REC
    <2>1. ~raced
      BY <1>7, Zenon DEF KfifoAdvance
    <2>2. /\ in' = in /\ out' = out + got[r] /\ seen' = seen /\ rd[r] = "advance"
          /\ Allocated' = Allocated /\ Stream' = Stream /\ rd' = [rd EXCEPT ![r] = "show"]
      BY <1>7 DEF KfifoAdvance, Advanced, Allocated, Stream
    <2>3. /\ in \in Nat /\ out \in Nat /\ out <= in /\ Stream \in [Nat -> Nat \X Nat]
          /\ rd \in [Readers -> {"closed", "start", "show", "next", "advance", "return", "eof"}]
          /\ \A s, t \in Readers : Using(s) /\ Using(t) => s = t
          /\ got[r] \in 1..REC /\ got[r] <= in - out
      BY <1>0, <2>1, <2>2, Unraced
    <2>4. \A s \in Readers : rd'[s] # "advance"
      BY <2>2, <2>3 DEF Using
    <2>5. CASE out' = in
      BY <2>2, <2>3, <2>4, <2>5, SMTT(30)
    <2>6. CASE out' # in
      <3>1. ~misaligned
        BY <1>7, <2>6, Zenon DEF KfifoAdvance
      <3>2. /\ ~Allocated => in = out
            /\ \A p \in out..in-1 : InRecord(p, out, in-1)
            /\ in > out => Stream[out][2] = 1
            /\ got[r] = REC
        BY <2>1, <2>2, <3>1, Zenon DEF StoreInv, Aligned
      <3>3. Allocated /\ in > out
        BY <2>3, <3>2
      <3>4. \A i \in 1..REC : Stream[out - 1 + i][2] = i
        <4>1. InRecord(out, out, in-1) /\ Stream[out][2] = 1
          BY <2>3, <3>2, <3>3
        <4>2. \A i \in 1..REC : Stream[out - 1 + i] = <<Stream[out][1], i>>
          BY <4>1 DEF InRecord
        <4> QED
          BY <4>2
      <3>5. ASSUME NEW p \in out+REC..in-1
            PROVE  out + REC <= p - Stream[p][2] + 1 /\ InRecord(p, out, in-1)
        <4> DEFINE o == Stream[p][2]
                   f == p - o + 1
        <4>0. InRecord(p, out, in-1) /\ p \in Nat
          BY <1>0, <2>3, <3>2
        <4>1. o \in 1..REC /\ out <= f /\ Stream[p - o + 1] = <<Stream[p][1], 1>>
          BY <1>0, <4>0 DEF InRecord
        <4>2. Stream[f][2] = 1 /\ f \in Int
          BY <4>0, <4>1
        <4>3. ASSUME f < out + REC PROVE FALSE
          <5>1. f - out + 1 \in 1..REC /\ out - 1 + (f - out + 1) = f
            BY <1>0, <2>3, <4>0, <4>1, <4>3, SMTT(30)
          <5>2. Stream[out - 1 + (f - out + 1)][2] = f - out + 1
            BY <3>4, <5>1, Zenon
          <5>3. Stream[f][2] = f - out + 1
            BY <5>1, <5>2, Zenon
          <5>4. f = out
            <6> HIDE DEF f
            <6>1. f - out + 1 = 1
              BY <4>2, <5>3, Zenon
            <6> QED
              BY <2>3, <4>2, <6>1
          <5> QED
            BY <1>0, <2>3, <4>0, <4>1, <5>4
        <4>4. f \in Int
          BY <4>0, <4>1
        <4> HIDE DEF f
        <4>5. out + REC <= f
          BY <1>0, <2>3, <4>3, <4>4
        <4> QED
          BY <4>0, <4>5 DEF f
      <3>6. ASSUME NEW p \in out+REC..in-1 PROVE InRecord(p, out, in-1)'
        <4>1. out + REC <= p - Stream[p][2] + 1 /\ InRecord(p, out, in-1)
          BY <3>5
        <4> QED
          BY <2>2, <3>2, <4>1 DEF InRecord
      <3>7. in > out + REC => Stream[out + REC][2] = 1
        <4> SUFFICES ASSUME in > out + REC PROVE Stream[out + REC][2] = 1
          OBVIOUS
        <4>1. out + REC \in out+REC..in-1
          BY <1>0, <2>3
        <4>2. out + REC <= (out + REC) - Stream[out + REC][2] + 1 /\ InRecord(out + REC, out, in-1)
          BY <3>5, <4>1
        <4>3. Stream[out + REC][2] \in 1..REC
          BY <4>2 DEF InRecord
        <4> QED
          BY <1>0, <2>3, <4>2, <4>3
      <3> QED
        BY <2>2, <2>4, <3>2, <3>3, <3>6, <3>7
    <2> QED
      BY <2>5, <2>6
  <1> QED
    BY <1>1, <1>2, <1>a, <1>b, <1>3, <1>4, <1>5, <1>6, <1>7, Steps

LEMMA PendingNext == StoreInv /\ [Next]_vars => Pending'
  <1> SUFFICES ASSUME StoreInv, [Next]_vars PROVE Pending'
    OBVIOUS
  <1>0. CtlInv /\ REC \in Nat /\ REC >= 2
    BY FifoAssumption DEF StoreInv
  <1>t. seen \in Nat /\ put \in 0..REC /\ (put > 0 => seen > 0)
    BY <1>0 DEF StoreInv, Pending, CtlInv, TypeOK
  <1>p. ASSUME ~raced, put = REC PROVE \A i \in 1..REC : Stream[in + i - 1] = <<seen, i>>
    BY <1>p, Zenon DEF StoreInv, Pending
  <1>s. (put' > 0 => seen' > 0)
    <2>1. CASE Aside
      BY <1>0, <1>t, <2>1, AsideKeeps
    <2>2. CASE KfifoFree
      BY <1>0, <2>2 DEF KfifoFree, Module, CtlInv, Quiet
    <2>3. CASE ProbeCopy
      BY <1>t, <2>3 DEF ProbeCopy
    <2>4. CASE KfifoReset \/ KfifoAlloc \/ ProbePublish
               \/ \E r \in Readers : RbfgradNext(r) \/ KfifoAdvance(r)
      BY <1>t, <2>4 DEF KfifoReset, KfifoAlloc, ProbePublish, RbfgradNext, KfifoAdvance
    <2>5. CASE Fault
      BY <1>0, <1>t, <2>5, FaultKeeps
    <2> QED
      BY <2>1, <2>2, <2>3, <2>4, <2>5, Steps
  <1>q. ASSUME ~raced', put' = REC PROVE \A i \in 1..REC : Stream'[in' + i - 1] = <<seen', i>>
    <2>1. CASE Aside
      <3>1. ~raced
        BY <1>0, <1>q, <2>1, AsideNotFree
      <3>2. in' = in /\ put' = put /\ seen' = seen /\ Stream' = Stream
        BY <1>0, <2>1, AsideKeeps
      <3> QED
        BY <1>p, <1>q, <3>1, <3>2
    <2>2. CASE KfifoFree
      <3>1. put' = 0
        BY <1>0, <2>2 DEF KfifoFree, Module, CtlInv, Quiet
      <3> QED
        BY <1>0, <1>q, <3>1
    <2>3. CASE KfifoReset \/ KfifoAlloc
      <3>1. ~raced
        BY <1>q, <2>3, Zenon DEF KfifoReset, KfifoAlloc, readVars
      <3>2. put = put' /\ ~Allocated
        BY <2>3 DEF KfifoReset, KfifoAlloc, Module, Allocated
      <3>3. in \in Nat /\ out \in Nat /\ out <= in /\ in - out + put <= Cap
        BY <1>0, <3>1, Unraced
      <3> QED
        BY <1>0, <1>q, <3>2, <3>3 DEF Cap
    <2>4. CASE ProbeCopy
      <3>1. ~raced
        BY <1>q, <2>4, Zenon DEF ProbeCopy, readVars
      <3>2. in \in Nat /\ out \in Nat /\ out <= in
        BY <1>0, <3>1, Unraced
      <3>3. in' = in /\ seen' = seen + 1 /\ put' = Fitting /\ put = 0
        BY <2>4 DEF ProbeCopy
      <3>4. in - out + Fitting <= Cap
        BY <1>0, <3>1, <3>3, FittingIs
      <3>5. Allocated
        BY <1>0, <1>q, <3>2, <3>3, <3>4 DEF Cap
      <3>6. \A p \in in..in+put'-1 : Stream'[p] = <<seen + 1, p - in + 1>>
        BY <1>0, <2>4, <3>1, <3>2, <3>5, CopyKeeps
      <3>7. ASSUME NEW i \in 1..REC PROVE Stream'[in + i - 1] = <<seen + 1, i>>
        <4>1. in + i - 1 \in in..in+put'-1 /\ (in + i - 1) - in + 1 = i
          BY <1>0, <1>q, <3>2
        <4>2. Stream'[in + i - 1] = <<seen + 1, (in + i - 1) - in + 1>>
          BY <3>6, <4>1, Zenon
        <4> QED
          BY <4>1, <4>2, Zenon
      <3> QED
        BY <3>3, <3>7, Zenon
    <2>5. CASE ProbePublish
      BY <1>0, <1>q, <2>5 DEF ProbePublish
    <2>6. ASSUME NEW r \in Readers, RbfgradNext(r) \/ KfifoAdvance(r)
          PROVE  \A i \in 1..REC : Stream'[in' + i - 1] = <<seen', i>>
      <3>1. ~raced
        BY <1>q, <2>6, Zenon DEF RbfgradNext, KfifoAdvance
      <3>2. in' = in /\ put' = put /\ seen' = seen /\ Stream' = Stream
        BY <2>6 DEF RbfgradNext, KfifoAdvance, fifoVars, Stream
      <3> QED
        BY <1>p, <1>q, <3>1, <3>2
    <2>7. ~Fault
      BY <1>q, FaultIs
    <2> QED
      BY <2>1, <2>2, <2>3, <2>4, <2>5, <2>6, <2>7, Steps
  <1> QED
    BY <1>s, <1>q, Zenon DEF Pending

LEMMA TornNext == StoreInv /\ [Next]_vars => TornKnown'
  <1> SUFFICES ASSUME StoreInv, [Next]_vars PROVE TornKnown'
    OBVIOUS
  <1>0. CtlInv /\ REC \in Nat /\ REC >= 2 /\ put \in 0..REC
    BY FifoAssumption DEF StoreInv, CtlInv, TypeOK
  <1>t. /\ put \in 1..REC-1 => torn # {}
        /\ misaligned => torn # {}
        /\ ~raced /\ ~Allocated /\ torn = {} => seen = 0
    BY Zenon DEF StoreInv, TornKnown
  <1>1. CASE Aside
    <2>1. ~raced' => ~raced
      BY <1>0, <1>1, AsideNotFree, Zenon
    <2>2. put' = put /\ seen' = seen /\ Allocated' = Allocated /\ torn' = torn
      BY <1>0, <1>1, AsideKeeps
    <2>3. misaligned' = misaligned
      BY <1>0, <1>1, AsideKeeps, Zenon
    <2> QED
      BY <1>t, <2>1, <2>2, <2>3, Zenon DEF TornKnown
  <1>2. CASE KfifoReset
    <2>1. put' = put /\ torn' = torn /\ seen' = seen /\ ~Allocated
      BY <1>2 DEF KfifoReset, Module, Allocated
    <2>2. ~misaligned' /\ (~raced' => ~raced)
      BY <1>2, Zenon DEF KfifoReset
    <2> QED
      BY <1>t, <2>1, <2>2, Zenon DEF TornKnown
  <1>a. CASE KfifoAlloc
    <2>1. Allocated' /\ put' = put /\ torn' = torn
      BY <1>0, <1>a, AllocKeeps
    <2>2. misaligned' => misaligned
      BY <1>0, <1>a, AllocFlags, Zenon
    <2> QED
      BY <1>t, <2>1, <2>2, Zenon DEF TornKnown
  <1>b. CASE Fault
    <2>1. put' = put /\ torn' = torn
      BY <1>0, <1>b, FaultKeeps
    <2>2. raced' /\ (misaligned' => misaligned)
      BY <1>0, <1>b, FaultIs, FaultKeeps, Zenon
    <2> QED
      BY <1>t, <2>1, <2>2, Zenon DEF TornKnown
  <1>3. CASE KfifoFree
    <2>1. put' = 0 /\ seen' = 0
      BY <1>0, <1>3 DEF KfifoFree, Module, CtlInv, Quiet
    <2>2. put' \notin 1..REC-1
      BY <1>0, <2>1
    <2>3. ~misaligned'
      BY <1>3, Zenon DEF KfifoFree
    <2> QED
      BY <2>1, <2>2, <2>3, Zenon DEF TornKnown
  <1>4. CASE ProbeCopy
    <2>1. (misaligned' => misaligned) /\ (~raced' => ~raced)
      BY <1>4, Zenon DEF ProbeCopy, readVars
    <2>2. /\ put' = Fitting /\ put = 0 /\ Allocated' = Allocated
          /\ torn' = IF put' \in 1..REC-1 THEN torn \cup {seen'} ELSE torn
      BY <1>4 DEF ProbeCopy, Allocated
    <2>3. torn \subseteq torn' /\ (put' \in 1..REC-1 => torn' # {})
      BY <2>2
    <2>4. ASSUME ~raced, ~Allocated, torn' = {} PROVE FALSE
      <3>1. torn = {}
        BY <2>3, <2>4
      <3>2. ~misaligned
        BY <1>t, <3>1, Zenon
      <3>3. in = out
        BY <2>4, <3>2, Zenon DEF StoreInv, Aligned
      <3>4. in \in Nat /\ out \in Nat
        BY <1>0 DEF CtlInv, TypeOK
      <3>5. Fitting = 1
        BY <1>0, <2>4, <3>3, <3>4 DEF Fitting, Least, Room
      <3> QED
        BY <1>0, <2>2, <2>3, <2>4, <3>5
    <2>5. misaligned => torn' # {}
      BY <1>t, <2>3, Zenon
    <2> QED
      BY <2>1, <2>2, <2>3, <2>4, <2>5, Zenon DEF TornKnown
  <1>5. CASE ProbePublish
    <2>1. (misaligned' => misaligned \/ put < REC) /\ (~raced' => ~raced)
      BY <1>5, Zenon DEF ProbePublish, readVars
    <2>2. put > 0 /\ put' = 0 /\ torn' = torn /\ seen' = seen /\ Allocated' = Allocated
      BY <1>5 DEF ProbePublish, Allocated
    <2>3. (put < REC => put \in 1..REC-1) /\ put' \notin 1..REC-1
      BY <1>0, <2>2
    <2> QED
      BY <1>t, <2>1, <2>2, <2>3, Zenon DEF TornKnown
  <1>6. ASSUME NEW r \in Readers, RbfgradNext(r) \/ KfifoAdvance(r) PROVE TornKnown'
    <2>1. (misaligned' => misaligned) /\ (~raced' => ~raced)
      <3>1. CASE RbfgradNext(r)
        BY <3>1, Zenon DEF RbfgradNext
      <3>2. CASE KfifoAdvance(r)
        BY <3>2, Zenon DEF KfifoAdvance
      <3> QED
        BY <1>6, <3>1, <3>2, Zenon
    <2>2. put' = put /\ torn' = torn /\ seen' = seen /\ Allocated' = Allocated
      BY <1>6 DEF RbfgradNext, KfifoAdvance, Allocated
    <2> QED
      BY <1>t, <2>1, <2>2, Zenon DEF TornKnown
  <1> QED
    BY <1>1, <1>2, <1>a, <1>b, <1>3, <1>4, <1>5, <1>6, Steps, Zenon

LEMMA HoldingNext == StoreInv /\ [Next]_vars => Holding'
  <1> SUFFICES ASSUME StoreInv, [Next]_vars, ~raced', Allocated',
                      NEW r \in Readers, rd'[r] = "advance"
               PROVE  ctl_temp'[1] = Stream'[out']
    BY Zenon DEF Holding
  <1>0. CtlInv /\ REC \in Nat /\ REC >= 2
    BY FifoAssumption DEF StoreInv
  <1>h. ASSUME ~raced, Allocated, rd[r] = "advance" PROVE ctl_temp[1] = Stream[out]
    BY <1>h, Zenon DEF StoreInv, Holding
  <1>1. CASE Aside
    <2>1. ~raced
      BY <1>0, <1>1, AsideNotFree
    <2>2. out' = out /\ Stream' = Stream /\ Allocated /\ rd[r] = "advance"
      BY <1>0, <1>1, AsideKeeps
    <2>3. ASSUME NEW s \in Readers, RbfgradStart(s) PROVE FALSE
      <3>1. s # r
        BY <2>2, <2>3 DEF RbfgradStart
      <3>2. ~Using(r)
        BY <2>3, <3>1, Zenon DEF RbfgradStart
      <3> QED
        BY <2>2, <3>2 DEF Using
    <2>4. ctl_temp' = ctl_temp
      BY <1>1, <2>3, Zenon DEF Aside, RegisterProbe, ProcCreate, UnregisterProbe,
         RemoveProc, OpenFile, RbfgradShow, ReadReturns, CloseFile, vars, readVars
    <2> QED
      BY <1>h, <2>1, <2>2, <2>4
  <1>2. ~KfifoReset /\ ~Fault
    BY FaultIs DEF KfifoReset, Module, Allocated
  <1>a. CASE KfifoAlloc
    <2>1. rd[r] # "advance"
      BY <1>0, <1>a, AllocFlags, Zenon
    <2>2. rd' = rd
      BY <1>0, <1>a, AllocKeeps
    <2> QED
      BY <2>1, <2>2
  <1>3. CASE KfifoFree
    BY <1>3 DEF KfifoFree, Module, Allocated
  <1>4. CASE ProbeCopy
    <2>1. ~raced
      BY <1>4, Zenon DEF ProbeCopy, readVars
    <2>2. rd' = rd /\ ctl_temp' = ctl_temp /\ out' = out /\ Allocated
      BY <1>4 DEF ProbeCopy, readVars, Allocated
    <2>3. in \in Nat /\ out \in Nat /\ out <= in /\ got[r] \in 1..REC /\ got[r] <= in - out
      BY <1>0, <2>1, <2>2, Unraced
    <2>4. out \in out..in-1
      BY <1>0, <2>3
    <2>5. Stream'[out] = Stream[out]
      BY <1>0, <1>4, <2>1, <2>2, <2>3, <2>4, CopyKeeps
    <2> QED
      BY <1>h, <2>1, <2>2, <2>5
  <1>5. CASE ProbePublish
    <2>1. ~raced
      BY <1>5, Zenon DEF ProbePublish, readVars
    <2>2. rd' = rd /\ ctl_temp' = ctl_temp /\ out' = out /\ Allocated /\ Stream' = Stream
      BY <1>5 DEF ProbePublish, readVars, Allocated, Stream
    <2> QED
      BY <1>h, <2>1, <2>2
  <1>6. ASSUME NEW s \in Readers, RbfgradNext(s) PROVE ctl_temp'[1] = Stream'[out']
    <2>1. ~raced
      BY <1>6, Zenon DEF RbfgradNext
    <2>2. out' = out /\ Stream' = Stream /\ Allocated /\ rd[s] = "next"
      BY <1>6 DEF RbfgradNext, fifoVars, Allocated, Stream
    <2>3. /\ rd \in [Readers -> {"closed", "start", "show", "next", "advance", "return", "eof"}]
          /\ \A t, u \in Readers : Using(t) /\ Using(u) => t = u
          /\ out \in Nat
      BY <1>0, <2>1, Unraced
    <2>4. r = s
      <3>1. r # s => rd[r] = "advance"
        BY <1>6, <2>3 DEF RbfgradNext
      <3> QED
        BY <2>2, <2>3, <3>1 DEF Using
    <2>5. ctl_temp' = FromRing(Ready) /\ Ready # 0
      BY <1>6, <2>2, <2>3, <2>4 DEF RbfgradNext
    <2>6. Ready \in 0..REC
      BY <1>0, ReadyIs
    <2>7. 1 \in Offsets /\ 1 <= Ready /\ out + 1 - 1 = out
      BY <1>0, <2>3, <2>5, <2>6 DEF Offsets
    <2>8. FromRing(Ready)[1] = ring[(out + 1 - 1) % BUF_SIZE]
      BY <2>7, Zenon DEF FromRing
    <2>9. Stream[out] = ring[out % BUF_SIZE]
      BY <2>3 DEF Stream
    <2>10. ring[(out + 1 - 1) % BUF_SIZE] = ring[out % BUF_SIZE]
      BY <2>7, Zenon
    <2> QED
      BY <2>2, <2>5, <2>8, <2>9, <2>10, Zenon
  <1>7. ASSUME NEW s \in Readers, KfifoAdvance(s) PROVE ctl_temp'[1] = Stream'[out']
    <2>1. ~raced
      BY <1>7, Zenon DEF KfifoAdvance
    <2>2. rd[s] = "advance" /\ rd' = [rd EXCEPT ![s] = "show"]
      BY <1>7 DEF KfifoAdvance
    <2>3. /\ rd \in [Readers -> {"closed", "start", "show", "next", "advance", "return", "eof"}]
          /\ \A t, u \in Readers : Using(t) /\ Using(u) => t = u
      BY <1>0, <2>1, Unraced
    <2> QED
      BY <2>2, <2>3 DEF Using
  <1> QED
    BY <1>1, <1>2, <1>a, <1>3, <1>4, <1>5, <1>6, <1>7, Steps

LEMMA StoreInit == Init => StoreInv
  <1> SUFFICES ASSUME Init PROVE StoreInv
    OBVIOUS
  <1>0. in = 0 /\ out = 0 /\ put = 0 /\ seen = 0 /\ ~Allocated
    BY DEF Init, Allocated
  <1>1. \A r \in Readers : rd[r] # "advance"
    BY DEF Init
  <1>2. 0 # REC /\ 0 \notin 1..REC-1 /\ ~(0 > 0) /\ (0..0-1 = {})
    BY FifoAssumption
  <1>3. Aligned
    BY <1>0, <1>1, <1>2 DEF Aligned
  <1>4. Pending
    BY <1>0, <1>2, Zenon DEF Pending
  <1>5. TornKnown
    BY <1>0, <1>2, Zenon DEF TornKnown, Init
  <1>6. Holding
    BY <1>0, Zenon DEF Holding
  <1> QED
    BY <1>3, <1>4, <1>5, <1>6, CtlInit DEF StoreInv

(* What is stored, what is being stored and what is being taken out fit     *)
(* together whatever probe_rbfgrad_output and rbfgrad_next do.              *)
THEOREM StoreInvariant == Spec => []StoreInv
  <1>1. StoreInv /\ [Next]_vars => StoreInv'
    BY CtlNext, AlignedNext, PendingNext, TornNext, HoldingNext, Zenon DEF StoreInv
  <1> QED
    BY StoreInit, <1>1, PTL DEF Spec

(* After a record that was stored in part, the rows rbfgrad_next fills in   *)
(* are again whole records as soon as a reader has emptied the fifo.        *)
THEOREM RealignCorrect == Spec => RowsRealign
  <1>1. StoreInv /\ [Next]_vars =>
          [\A r \in Readers :
             RbfgradNext(r) /\ rd'[r] = "advance" /\ ~misaligned /\ ~raced
               => Whole(ctl_temp')]_vars
    <2> SUFFICES ASSUME StoreInv, NEW r \in Readers, RbfgradNext(r), rd'[r] = "advance",
                        ~misaligned, ~raced
                 PROVE  Whole(ctl_temp')
      BY Zenon
    <2>0. CtlInv /\ REC \in Nat /\ REC >= 2
      BY FifoAssumption DEF StoreInv
    <2>1. /\ ~Allocated => in = out
          /\ \A p \in out..in-1 : InRecord(p, out, in-1)
          /\ in > out => Stream[out][2] = 1
      BY Zenon DEF StoreInv, Aligned
    <2>2. /\ in \in Nat /\ out \in Nat /\ out <= in /\ Stream \in [Nat -> Nat \X Nat]
          /\ rd \in [Readers -> {"closed", "start", "show", "next", "advance", "return", "eof"}]
      BY <2>0, Unraced
    <2>3. /\ Ready # 0
          /\ ctl_temp' = IF Allocated THEN FromRing(Ready) ELSE Zeroed
      BY <2>2 DEF RbfgradNext
    <2>4. in > out
      BY <2>0, <2>2, <2>3 DEF Ready, Least
    <2>5. Allocated
      BY <2>1, <2>2, <2>4
    <2>6. InRecord(out, out, in-1) /\ Stream[out][2] = 1
      BY <2>1, <2>2, <2>4
    <2> DEFINE k == Stream[out][1]
    <2>7. /\ k \in 1..seen /\ out - 1 + REC <= in - 1
          /\ \A i \in 1..REC : Stream[out - 1 + i] = <<k, i>>
      BY <2>6 DEF InRecord
    <2>8. Ready = REC
      BY <2>0, <2>2, <2>7 DEF Ready, Least
    <2>9. \A i \in Offsets : ring[(out + i - 1) % BUF_SIZE] = <<k, i>>
      <3> TAKE i \in Offsets
      <3>1. i \in 1..REC /\ out + i - 1 \in Nat /\ out - 1 + i = out + i - 1
        BY <2>0, <2>2 DEF Offsets
      <3>2. Stream[out + i - 1] = ring[(out + i - 1) % BUF_SIZE]
        BY <3>1, Zenon DEF Stream
      <3>3. Stream[out - 1 + i] = <<k, i>>
        BY <2>7, <3>1, Zenon
      <3> QED
        BY <3>1, <3>2, <3>3, Zenon
    <2>10. \A i \in Offsets : i <= REC
      BY <2>0 DEF Offsets
    <2> HIDE DEF k
    <2>11. FromRing(REC) = Record(k)
      BY <2>9, <2>10, Zenon DEF FromRing, Record
    <2>12. ctl_temp' = Record(k)
      BY <2>3, <2>5, <2>8, <2>11
    <2> QED
      BY <2>7, <2>12 DEF Whole
  <1> QED
    BY StoreInvariant, <1>1, PTL DEF Spec, RowsRealign

-----------------------------------------------------------------------------
(* No record is lost on its way.                                            *)

(* What the readers have, or had.                                           *)
Hands == InHand \cup Printed \cup cut

LEMMA StoredIs == ASSUME TypeOK PROVE Stored = {Stream[p][1] : p \in out..in-1}
  <1>1. \A p \in out..in-1 : p \in Nat
    BY DEF TypeOK
  <1>2. \A p \in Nat : Stream[p] = ring[p % BUF_SIZE]
    BY Zenon DEF Stream
  <1>3. \A p \in out..in-1 : Stream[p][1] = ring[p % BUF_SIZE][1]
    BY <1>1, <1>2, Zenon
  <1> QED
    BY <1>3, Zenon DEF Stored

LEMMA HandsKeep ==
  ASSUME CtlInv, Aside, ~raced, ~raced', NEW x \in Hands
  PROVE  x \in Hands'
  <1>0. /\ rd \in [Readers -> {"closed", "start", "show", "next", "advance", "return", "eof"}]
        /\ buf \in [Readers -> SUBSET Nat]
    BY DEF CtlInv, TypeOK
  <1> DEFINE f == First(ctl_temp)
  <1>h. (x = f /\ \E s \in Readers : rd[s] = "show") \/ x \in Printed \/ x \in cut
    BY DEF Hands, InHand
  <1>p. x \in Printed => x \in rows \/ \E s \in Readers : x \in buf[s]
    BY DEF Printed
  <1>q. ASSUME \/ x \in rows' \/ (\E s \in Readers : x \in buf'[s]) \/ x \in cut'
               \/ x = f /\ f' = f /\ (\E s \in Readers : rd'[s] = "show")
        PROVE  x \in Hands'
    BY <1>q DEF Hands, InHand, Printed
  <1> HIDE DEF f
  <1>1. CASE RegisterProbe \/ ProcCreate \/ UnregisterProbe \/ UNCHANGED vars
    <2>1. rd' = rd /\ f' = f /\ buf' = buf /\ rows' = rows /\ cut' = cut
      BY <1>1 DEF RegisterProbe, ProcCreate, UnregisterProbe, vars, readVars, f, First
    <2> QED
      BY <1>h, <1>p, <1>q, <2>1
  <1>2. CASE RemoveProc
    <2>1. buf' = buf /\ rows' = rows /\ cut' = cut
      BY <1>2 DEF RemoveProc
    <2>2. \A s \in Readers : rd[s] # "show"
      BY <1>2 DEF RemoveProc, Inside, Using
    <2> QED
      BY <1>h, <1>p, <1>q, <2>1, <2>2
  <1>3. ASSUME NEW r \in Readers, OpenFile(r) \/ CloseFile(r) PROVE x \in Hands'
    <2>1. f' = f /\ buf' = buf /\ rows' = rows /\ cut' = cut
      BY <1>3 DEF OpenFile, CloseFile, f, First
    <2>2. \A s \in Readers : rd[s] = "show" => rd'[s] = "show"
      BY <1>0, <1>3 DEF OpenFile, CloseFile
    <2> QED
      BY <1>h, <1>p, <1>q, <2>1, <2>2
  <1>4. ASSUME NEW r \in Readers, RbfgradStart(r) PROVE x \in Hands'
    <2>1. buf' = buf /\ rows' = rows /\ cut' = cut /\ rd[r] = "start"
      BY <1>4 DEF RbfgradStart
    <2>2. \A s \in Readers \ {r} : ~Using(s)
      BY <1>4, Zenon DEF RbfgradStart
    <2>3. \A s \in Readers : rd[s] # "show"
      BY <2>1, <2>2 DEF Using
    <2> QED
      BY <1>h, <1>p, <1>q, <2>1, <2>3
  <1>5. ASSUME NEW r \in Readers, RbfgradShow(r) PROVE x \in Hands'
    <2>1. rows' = rows
      BY <1>5 DEF RbfgradShow
    <2>2. \/ buf' = [buf EXCEPT ![r] = buf[r] \cup {f}] /\ cut' = cut
          \/ buf' = buf /\ cut' = cut \cup {f}
      BY <1>5, Zenon DEF RbfgradShow, f
    <2>3. /\ \A s \in Readers : buf[s] \subseteq buf'[s]
          /\ cut \subseteq cut' /\ (f \in buf'[r] \/ f \in cut')
      BY <1>0, <2>2
    <2> QED
      BY <1>h, <1>p, <1>q, <2>1, <2>3
  <1>6. ASSUME NEW r \in Readers, ReadReturns(r) PROVE x \in Hands'
    <2>1. f' = f /\ cut' = cut /\ rows' = rows \cup buf[r]
      BY <1>6 DEF ReadReturns, f, First
    <2>2. \A s \in Readers : s = r \/ buf'[s] = buf[s]
      BY <1>0, <1>6 DEF ReadReturns
    <2>3. \A s \in Readers : rd[s] = "show" => rd'[s] = "show"
      BY <1>0, <1>6 DEF ReadReturns
    <2> QED
      BY <1>h, <1>p, <1>q, <2>1, <2>2, <2>3
  <1> QED
    BY <1>1, <1>2, <1>3, <1>4, <1>5, <1>6 DEF Aside

LEMMA AccountedNext == StoreInv /\ RecordsAccounted /\ [Next]_vars => RecordsAccounted'
  <1> SUFFICES ASSUME StoreInv, RecordsAccounted, [Next]_vars, ~raced', torn' = {},
                      NEW k \in 1..seen'
               PROVE  k \in refused' \/ k \in Coming' \/ k \in Stored' \/ k \in Hands'
    BY Zenon DEF RecordsAccounted, Hands
  <1>0. CtlInv /\ REC \in Nat /\ REC >= 2 /\ TypeOK /\ TypeOK' /\ seen \in Nat /\ put \in 0..REC
    BY TypeNext, FifoAssumption DEF StoreInv, CtlInv, TypeOK
  <1>k. ASSUME ~raced, torn = {}, k \in 1..seen
        PROVE  k \in refused \/ k \in Coming \/ k \in Stored \/ k \in Hands
    BY <1>k, Zenon DEF RecordsAccounted, Hands
  <1>t. /\ put \in 1..REC-1 => torn # {}
        /\ misaligned => torn # {}
        /\ ~raced /\ ~Allocated /\ torn = {} => seen = 0
    BY Zenon DEF StoreInv, TornKnown
  <1>s. Stored = {Stream[p][1] : p \in out..in-1} /\ Stored' = {Stream'[p][1] : p \in out'..in'-1}
    <2>1. Stored = {Stream[p][1] : p \in out..in-1}
      BY <1>0, StoredIs, Zenon
    <2>2. \A p \in out'..in'-1 : p \in Nat
      BY <1>0 DEF TypeOK
    <2>3. \A p \in Nat : Stream'[p] = ring'[p % BUF_SIZE]
      BY Zenon DEF Stream
    <2>4. \A p \in out'..in'-1 : Stream'[p][1] = ring'[p % BUF_SIZE][1]
      BY <2>2, <2>3, Zenon
    <2>5. Stored' = {Stream'[p][1] : p \in out'..in'-1}
      BY <2>4, Zenon DEF Stored
    <2> QED
      BY <2>1, <2>5
  <1>1. CASE Aside
    <2>1. ~raced
      BY <1>0, <1>1, AsideNotFree
    <2>2. /\ in' = in /\ out' = out /\ put' = put /\ seen' = seen
          /\ Stream' = Stream /\ torn' = torn /\ refused' = refused
      BY <1>0, <1>1, AsideKeeps
    <2>3. Coming' = Coming /\ Stored' = Stored
      BY <1>s, <2>2 DEF Coming
    <2>4. k \in Hands => k \in Hands'
      BY <1>0, <1>1, <2>1, HandsKeep
    <2> QED
      BY <1>k, <2>1, <2>2, <2>3, <2>4
  <1>2. CASE KfifoReset \/ KfifoAlloc
    <2>1. ~raced
      BY <1>2, Zenon DEF KfifoReset, KfifoAlloc, readVars
    <2>2. seen' = seen /\ torn' = torn /\ ~Allocated
      BY <1>2 DEF KfifoReset, KfifoAlloc, Module, Allocated
    <2>3. seen = 0
      BY <1>t, <2>1, <2>2, Zenon
    <2> QED
      BY <2>2, <2>3
  <1>3. CASE KfifoFree
    <2>1. seen' = 0
      BY <1>3 DEF KfifoFree
    <2> QED
      BY <2>1
  <1>4. CASE ProbeCopy
    <2>1. ~raced
      BY <1>4, Zenon DEF ProbeCopy, readVars
    <2>2. /\ in' = in /\ out' = out /\ put = 0 /\ seen' = seen + 1
          /\ torn' = IF put' \in 1..REC-1 THEN torn \cup {seen'} ELSE torn
          /\ refused' = IF put' = 0 THEN refused \cup {seen'} ELSE refused
      BY <1>4 DEF ProbeCopy
    <2>3. torn = {} /\ refused \subseteq refused'
      BY <2>2
    <2>4. Hands' = Hands
      BY <1>4 DEF ProbeCopy, readVars, Hands, InHand, Printed, First
    <2>5. CASE k = seen'
      BY <1>0, <2>2, <2>5 DEF Coming, TypeOK
    <2>6. CASE k # seen'
      <3>1. k \in 1..seen
        BY <1>0, <2>2, <2>6
      <3>2. k \notin Coming
        BY <2>2 DEF Coming
      <3>3. Allocated
        <4>1. seen # 0
          BY <3>1
        <4> QED
          BY <1>t, <2>1, <2>3, <4>1, Zenon
      <3>4. out <= in
        BY <1>0, <2>1, Unraced
      <3>5. \A p \in out..in-1 : Stream'[p] = Stream[p]
        BY <1>0, <1>4, <2>1, <3>3, <3>4, CopyKeeps
      <3>6. k \in Stored => k \in Stored'
        BY <1>s, <2>2, <3>5
      <3> QED
        BY <1>k, <2>1, <2>3, <2>4, <3>1, <3>2, <3>6
    <2> QED
      BY <2>5, <2>6
  <1>5. CASE ProbePublish
    <2>1. ~raced
      BY <1>5, Zenon DEF ProbePublish, readVars
    <2>2. /\ in' = in + put /\ out' = out /\ put > 0 /\ seen' = seen
          /\ torn' = torn /\ refused' = refused /\ Stream' = Stream
      BY <1>5 DEF ProbePublish, Stream
    <2>3. Hands' = Hands
      BY <1>5 DEF ProbePublish, readVars, Hands, InHand, Printed, First
    <2>4. put = REC
      BY <1>0, <1>t, <2>2
    <2>5. Stream[in] = <<seen, 1>>
      <3>1. \A i \in 1..REC : Stream[in + i - 1] = <<seen, i>>
        BY <2>1, <2>4, Zenon DEF StoreInv, Pending
      <3>2. 1 \in 1..REC /\ in + 1 - 1 = in
        BY <1>0 DEF TypeOK
      <3>3. Stream[in + 1 - 1] = <<seen, 1>>
        BY <3>1, <3>2, Zenon
      <3> QED
        BY <3>2, <3>3, Zenon
    <2>6. in \in Nat /\ out \in Nat /\ out <= in
      BY <1>0, <2>1, Unraced
    <2>7. k \in Coming => k \in Stored'
      <3>1. k \in Coming => k = seen
        BY DEF Coming
      <3>2. in \in out'..in'-1 /\ Stream'[in][1] = seen
        BY <1>0, <2>2, <2>5, <2>6
      <3> QED
        BY <1>s, <3>1, <3>2
    <2>8. k \in Stored => k \in Stored'
      <3>1. \A p \in out..in-1 : p \in out'..in'-1
        BY <1>0, <2>2, <2>6
      <3> QED
        BY <1>s, <2>2, <3>1, Zenon
    <2> QED
      BY <1>k, <2>1, <2>2, <2>3, <2>7, <2>8
  <1>6. ASSUME NEW r \in Readers, RbfgradNext(r) \/ KfifoAdvance(r)
        PROVE  k \in refused' \/ k \in Coming' \/ k \in Stored' \/ k \in Hands'
    <2>1. ~raced
      <3>1. CASE RbfgradNext(r)
        BY <3>1, Zenon DEF RbfgradNext
      <3>2. CASE KfifoAdvance(r)
        BY <3>2, Zenon DEF KfifoAdvance
      <3> QED
        BY <1>6, <3>1, <3>2
    <2>2. /\ in' = in /\ put' = put /\ seen' = seen /\ torn' = torn /\ Stream' = Stream
          /\ refused' = refused /\ buf' = buf /\ rows' = rows /\ cut' = cut
          /\ rd[r] \in {"next", "advance"}
      BY <1>6 DEF RbfgradNext, KfifoAdvance, fifoVars, Stream
    <2>3. Coming' = Coming
      BY <2>2 DEF Coming
    <2>4. \A s \in Readers : rd[s] # "show"
      <3>1. \A s, t \in Readers : Using(s) /\ Using(t) => s = t
        BY <1>0, <2>1, Unraced
      <3> QED
        BY <2>2, <3>1 DEF Using
    <2>5. k \in Hands => k \in Hands'
      BY <2>2, <2>4 DEF Hands, InHand, Printed
    <2>6. CASE RbfgradNext(r)
      <3>1. out' = out
        BY <2>6 DEF RbfgradNext, fifoVars
      <3>2. Stored' = Stored
        BY <1>s, <2>2, <3>1
      <3> QED
        BY <1>k, <2>1, <2>2, <2>3, <2>5, <3>2
    <2>7. CASE KfifoAdvance(r)
      <3>1. /\ rd[r] = "advance" /\ out' = out + got[r] /\ ctl_temp' = ctl_temp
            /\ rd' = [rd EXCEPT ![r] = "show"]
        BY <2>7 DEF KfifoAdvance, Advanced
      <3>2. /\ in \in Nat /\ out \in Nat /\ out <= in
            /\ got[r] \in 1..REC /\ got[r] <= in - out
            /\ rd \in [Readers -> {"closed", "start", "show", "next", "advance", "return", "eof"}]
        BY <1>0, <2>1, <3>1, Unraced
      <3>3. Allocated
        <4>1. seen # 0
          BY <2>2
        <4> QED
          BY <1>t, <2>1, <2>2, <4>1, Zenon
      <3>4. ~misaligned
        BY <1>t, <2>2, Zenon
      <3>5. /\ \A p \in out..in-1 : InRecord(p, out, in-1)
            /\ in > out => Stream[out][2] = 1
            /\ got[r] = REC
        BY <2>1, <3>1, <3>4, Zenon DEF StoreInv, Aligned
      <3>6. ctl_temp[1] = Stream[out]
        BY <2>1, <3>1, <3>3, Zenon DEF StoreInv, Holding
      <3>7. First(ctl_temp) \in Hands'
        <4>1. First(ctl_temp') \in InHand'
          BY <3>1, <3>2 DEF InHand
        <4> QED
          BY <3>1, <4>1 DEF Hands
      <3>8. ASSUME NEW p \in out..in-1, p < out + REC PROVE Stream[p][1] = First(ctl_temp)
        <4>1. InRecord(out, out, in-1) /\ Stream[out][2] = 1
          BY <3>2, <3>5
        <4>2. \A i \in 1..REC : Stream[out - 1 + i] = <<Stream[out][1], i>>
          BY <4>1 DEF InRecord
        <4>3. p - out + 1 \in 1..REC /\ out - 1 + (p - out + 1) = p
          BY <1>0, <3>2, <3>8
        <4>4. Stream[out - 1 + (p - out + 1)] = <<Stream[out][1], p - out + 1>>
          BY <4>2, <4>3, Zenon
        <4>5. Stream[p] = <<Stream[out][1], p - out + 1>>
          BY <4>3, <4>4, Zenon
        <4> QED
          BY <3>6, <4>5 DEF First
      <3>9. k \in Stored => k \in Stored' \/ k \in Hands'
        <4> SUFFICES ASSUME NEW p \in out..in-1, k = Stream[p][1]
                     PROVE  k \in Stored' \/ k \in Hands'
          BY <1>s
        <4>1. CASE p < out + REC
          BY <3>7, <3>8, <4>1
        <4>2. CASE ~(p < out + REC)
          <5>1. p \in out'..in'-1
            BY <1>0, <2>2, <3>1, <3>2, <3>5, <4>2
          <5> QED
            BY <1>s, <2>2, <5>1
        <4> QED
          BY <4>1, <4>2
      <3> QED
        BY <1>k, <2>1, <2>2, <2>3, <2>5, <3>9
    <2> QED
      BY <1>6, <2>6, <2>7
  <1>b. ~Fault
    BY FaultIs
  <1> QED
    BY <1>1, <1>2, <1>3, <1>4, <1>5, <1>6, <1>b, Steps

(* As long as no record was stored in part, every record the tracepoint has *)
(* passed to probe_rbfgrad_output is refused, in the fifo, with a reader,   *)
(* printed, or cut off at the end of a page.                                *)
THEOREM AccountCorrect == Spec => []RecordsAccounted
  <1>1. Init => RecordsAccounted
    BY DEF Init, RecordsAccounted
  <1> QED
    BY <1>1, AccountedNext, StoreInvariant, PTL DEF Spec

-----------------------------------------------------------------------------
(* The order of the bytes.                                                  *)

(* What kfifo_out copies is the stream from out on.                         *)
LEMMA FromRingIs ==
  ASSUME TypeOK, NEW n \in 1..REC, NEW i \in 1..n
  PROVE  FromRing(n)[i] = Stream[out + i - 1]
  <1>0. REC \in Nat /\ out \in Nat
    BY FifoAssumption DEF TypeOK
  <1>1. i \in Offsets /\ i <= n /\ out + i - 1 \in Nat
    BY <1>0 DEF Offsets
  <1>2. FromRing(n)[i] = ring[(out + i - 1) % BUF_SIZE]
    BY <1>1, Zenon DEF FromRing
  <1> QED
    BY <1>1, <1>2, Zenon DEF Stream

LEMMA StreamOld ==
  ASSUME TypeOK, OldBytes
  PROVE  /\ \A p \in Nat : Stream[p][1] <= seen
         /\ ~Allocated => \A p \in Nat : Stream[p] = NoByte
  <1>1. \A p \in Nat : p % BUF_SIZE \in 0..BUF_SIZE-1
    BY FifoAssumption
  <1>2. \A p \in Nat : Stream[p] = ring[p % BUF_SIZE]
    BY Zenon DEF Stream
  <1> QED
    BY <1>1, <1>2, Zenon DEF OldBytes

LEMMA OldNext == OrderInv /\ [Next]_vars => OldBytes'
  <1> SUFFICES ASSUME OrderInv, [Next]_vars PROVE OldBytes'
    OBVIOUS
  <1>0. CtlInv /\ TypeOK /\ seen \in Nat /\ OldBytes
    BY DEF OrderInv, CtlInv, TypeOK
  <1>1. CASE Aside
    BY <1>0, <1>1, AsideKeeps DEF OldBytes
  <1>2. CASE KfifoReset
    BY <1>0, <1>2 DEF KfifoReset, OldBytes, Module, Allocated
  <1>a. CASE KfifoAlloc
    BY <1>0, <1>a, AllocKeeps DEF OldBytes
  <1>b. CASE Fault
    <2>1. /\ ring' = ring /\ last' = last /\ Allocated' = Allocated
          /\ seen' = seen \/ seen' = seen + 1
      BY <1>0, <1>b, FaultKeeps
    <2>2. \A b \in 0..BUF_SIZE-1 : ring[b] \in Nat \X Nat /\ ring[b][1] <= seen
      BY <1>0 DEF OldBytes, TypeOK
    <2>3. last[1] \in Nat /\ last[1] <= seen
      BY <1>0 DEF OldBytes, TypeOK
    <2>4. (\A b \in 0..BUF_SIZE-1 : ring'[b][1] <= seen') /\ last'[1] <= seen'
      BY <1>0, <2>1, <2>2, <2>3
    <2> QED
      BY <1>0, <2>1, <2>4 DEF OldBytes
  <1>3. CASE KfifoFree
    BY <1>0, <1>3 DEF KfifoFree, OldBytes, NoByte
  <1>4. CASE ProbeCopy
    <2>1. last' = last /\ seen' = seen + 1 /\ Allocated' = Allocated
      BY <1>4 DEF ProbeCopy, readVars, Allocated
    <2>2. last[1] \in Nat
      BY <1>0 DEF TypeOK
    <2>3. last'[1] <= seen'
      BY <1>0, <2>1, <2>2 DEF OldBytes
    <2>4. CASE ~Allocated
      <3>1. ring' = ring
        BY <1>4, <2>4 DEF ProbeCopy
      <3>2. \A b \in 0..BUF_SIZE-1 : ring[b] \in Nat \X Nat /\ ring[b][1] <= seen
        BY <1>0 DEF OldBytes, TypeOK
      <3>3. \A b \in 0..BUF_SIZE-1 : ring'[b][1] <= seen'
        BY <1>0, <2>1, <3>1, <3>2
      <3> QED
        BY <1>0, <2>1, <2>3, <3>1, <3>3 DEF OldBytes
    <2>5. CASE Allocated
      <3>1. ring' = [b \in DOMAIN ring |->
                       LET j == ((b - in) % BUF_SIZE) + 1
                       IN  IF j <= put' THEN <<seen', j>> ELSE ring[b]]
        BY <1>4, <2>5, Zenon DEF ProbeCopy
      <3>2. DOMAIN ring = 0..BUF_SIZE-1
        BY <1>0 DEF TypeOK
      <3>3. \A b \in 0..BUF_SIZE-1 : ring'[b] = ring[b] \/ \E j : ring'[b] = <<seen', j>>
        BY <3>1, <3>2, Zenon
      <3>4. \A b \in 0..BUF_SIZE-1 : ring[b] \in Nat \X Nat /\ ring[b][1] <= seen
        BY <1>0 DEF OldBytes, TypeOK
      <3>5. \A b \in 0..BUF_SIZE-1 : ring'[b][1] <= seen'
        BY <1>0, <2>1, <3>3, <3>4
      <3> QED
        BY <2>1, <2>3, <2>5, <3>5 DEF OldBytes
    <2> QED
      BY <2>4, <2>5
  <1>5. CASE ProbePublish
    BY <1>0, <1>5 DEF ProbePublish, readVars, OldBytes, Allocated
  <1>6. ASSUME NEW r \in Readers, RbfgradNext(r) PROVE OldBytes'
    <2>1. ring' = ring /\ seen' = seen /\ Allocated' = Allocated
      BY <1>6 DEF RbfgradNext, fifoVars, Allocated
    <2>2. \/ last' = last
          \/ /\ Ready # 0 /\ last' = ctl_temp'[Ready]
             /\ ctl_temp' = IF Allocated THEN FromRing(Ready) ELSE Zeroed
      BY <1>6 DEF RbfgradNext
    <2>3. CASE last' = last
      BY <1>0, <2>1, <2>3 DEF OldBytes
    <2>4. CASE Ready # 0 /\ last' = ctl_temp'[Ready]
               /\ ctl_temp' = IF Allocated THEN FromRing(Ready) ELSE Zeroed
      <3>1. Ready \in 1..REC /\ Ready \in 1..Ready /\ Ready \in Offsets
        BY <1>0, <2>4, ReadyIs DEF Offsets
      <3>2. CASE Allocated
        <4>1. last' = Stream[out + Ready - 1]
          BY <1>0, <2>4, <3>1, <3>2, FromRingIs
        <4>2. out + Ready - 1 \in Nat
          BY <1>0, <3>1 DEF TypeOK
        <4>3. last'[1] <= seen
          BY <1>0, <4>1, <4>2, StreamOld
        <4> QED
          BY <1>0, <2>1, <4>3 DEF OldBytes
      <3>3. CASE ~Allocated
        <4>1. last' = NoByte
          BY <2>4, <3>1, <3>3, Zenon DEF Zeroed
        <4>2. last'[1] <= seen
          BY <1>0, <4>1 DEF NoByte
        <4> QED
          BY <1>0, <2>1, <4>2 DEF OldBytes
      <3> QED
        BY <3>2, <3>3
    <2> QED
      BY <2>2, <2>3, <2>4
  <1>7. ASSUME NEW r \in Readers, KfifoAdvance(r) PROVE OldBytes'
    BY <1>0, <1>7 DEF KfifoAdvance, OldBytes, Allocated
  <1> QED
    BY <1>1, <1>2, <1>a, <1>b, <1>3, <1>4, <1>5, <1>6, <1>7, Steps

LEMMA AsideAdvance ==
  ASSUME CtlInv, Aside, NEW s \in Readers, rd[s] = "advance"
  PROVE  rd'[s] = "advance"
  <1>0. rd \in [Readers -> {"closed", "start", "show", "next", "advance", "return", "eof"}]
    BY DEF CtlInv, TypeOK
  <1>1. CASE RemoveProc
    BY <1>1 DEF RemoveProc, Inside, Using
  <1>2. CASE RegisterProbe \/ ProcCreate \/ UnregisterProbe \/ UNCHANGED vars
    BY <1>2 DEF RegisterProbe, ProcCreate, UnregisterProbe, vars, readVars
  <1>3. ASSUME NEW r \in Readers, OpenFile(r) \/ RbfgradStart(r) \/ RbfgradShow(r)
                                  \/ ReadReturns(r) \/ CloseFile(r)
        PROVE  rd'[s] = "advance"
    BY <1>0, <1>3 DEF OpenFile, RbfgradStart, RbfgradShow, ReadReturns, CloseFile
  <1> QED
    BY <1>1, <1>2, <1>3 DEF Aside

LEMMA OrderedNext == OrderInv /\ [Next]_vars => Ordered'
  <1> DEFINE Follows == \A b, c \in out..in+put-1 :
                          b < c /\ Stream[c] # NoByte => Before(Stream[b], Stream[c])
             Taken == \A r \in Readers : rd[r] = "advance" => last = Stream[out + got[r] - 1]
             Fresh == (\A r \in Readers : rd[r] # "advance") =>
                        \A c \in out..in+put-1 : Stream[c] # NoByte => Before(last, Stream[c])
  <1> SUFFICES ASSUME OrderInv, [Next]_vars, ~raced', Allocated'
               PROVE  Follows' /\ Taken' /\ Fresh'
    BY Zenon DEF Ordered
  <1>0. CtlInv /\ TypeOK /\ OldBytes /\ REC \in Nat /\ REC >= 2
    BY FifoAssumption DEF OrderInv, CtlInv
  <1>h. ASSUME ~raced, Allocated PROVE Follows /\ Taken /\ Fresh
    BY <1>h, Zenon DEF OrderInv, Ordered
  <1>1. CASE Aside
    <2>1. ~raced
      BY <1>0, <1>1, AsideNotFree
    <2>2. /\ in' = in /\ out' = out /\ put' = put /\ got' = got /\ last' = last
          /\ Stream' = Stream /\ Allocated
          /\ \A s \in Readers : rd'[s] = "advance" => rd[s] = "advance"
      BY <1>0, <1>1, AsideKeeps
    <2>3. \A s \in Readers : rd[s] = "advance" => rd'[s] = "advance"
      BY <1>0, <1>1, AsideAdvance
    <2>4. Follows /\ Taken /\ Fresh
      BY <1>h, <2>1, <2>2
    <2>5. Follows'
      <3>1. ASSUME NEW b \in out'..in'+put'-1, NEW c \in out'..in'+put'-1,
                   b < c, Stream'[c] # NoByte
            PROVE  Before(Stream'[b], Stream'[c])
        <4>1. b \in out..in+put-1 /\ c \in out..in+put-1
          BY <2>2, Zenon
        <4>2. Before(Stream[b], Stream[c])
          BY <2>2, <2>4, <3>1, <4>1, Zenon
        <4> QED
          BY <2>2, <4>2, Zenon
      <3>2. \A b, c \in out'..in'+put'-1 :
              b < c /\ Stream'[c] # NoByte => Before(Stream'[b], Stream'[c])
        BY <3>1, Zenon
      <3> QED
        BY <3>2, Zenon DEF Before
    <2>6. Taken'
      BY <2>2, <2>4, Zenon
    <2>7. Fresh'
      BY <2>2, <2>3, <2>4, Zenon DEF Before
    <2> QED
      BY <2>5, <2>6, <2>7
  <1>b. ~KfifoReset /\ ~Fault
    BY FaultIs DEF KfifoReset, Module, Allocated
  <1>2. CASE KfifoAlloc
    <2>1. \A s \in Readers : rd[s] # "advance"
      BY <1>0, <1>2, AllocFlags, Zenon
    <2>2. /\ rd' = rd /\ in' = in /\ out' = out /\ put' = put /\ Stream' = Stream
          /\ ~Allocated
      BY <1>0, <1>2, AllocKeeps
    <2>3. put \in 0..REC /\ in \in Nat /\ out \in Nat
      BY <1>0 DEF TypeOK
    <2>4. \A c \in out'..in'+put'-1 : Stream'[c] = NoByte
      <3>1. \A c \in Nat : Stream[c] = NoByte
        BY <1>0, <2>2, StreamOld
      <3>2. \A c \in out..in+put-1 : c \in Nat
        BY <2>3
      <3> QED
        BY <2>2, <3>1, <3>2
    <2> QED
      BY <2>1, <2>2, <2>4, Zenon
  <1>3. CASE KfifoFree
    BY <1>3 DEF KfifoFree, Module, Allocated
  <1>4. CASE ProbeCopy
    <2>1. ~raced
      BY <1>4, Zenon DEF ProbeCopy, readVars
    <2>2. /\ in' = in /\ out' = out /\ put = 0 /\ got' = got /\ last' = last
          /\ rd' = rd /\ Allocated
      BY <1>4 DEF ProbeCopy, readVars, Allocated
    <2>3. /\ in \in Nat /\ out \in Nat /\ out <= in /\ seen \in Nat
          /\ \A s \in Readers : rd[s] = "advance" => got[s] \in 1..REC /\ got[s] <= in - out
          /\ Stream \in [Nat -> Nat \X Nat]
      BY <1>0, <2>1, Unraced
    <2>4. Follows /\ Taken /\ Fresh
      BY <1>h, <2>1, <2>2
    <2>5. /\ put' \in 0..REC
          /\ \A p \in out..in-1 : Stream'[p] = Stream[p]
          /\ \A p \in in..in+put'-1 : Stream'[p] = <<seen + 1, p - in + 1>>
      BY <1>0, <1>4, <2>1, <2>2, <2>3, CopyKeeps
    <2>m. PICK n \in 0..REC : put' = n
      BY <2>5
    <2>n. /\ n \in Int /\ in \in Int /\ out \in Int
          /\ \A p \in in..in+n-1 : Stream'[p] = <<seen + 1, p - in + 1>>
      BY <1>0, <2>3, <2>5, <2>m, SMTT(30)
    <2>6. \A p \in out..in-1 : p \in Nat /\ Stream[p][1] <= seen /\ Stream[p][1] \in Nat
      BY <1>0, <2>3, StreamOld
    <2>7. last[1] <= seen /\ last[1] \in Nat
      BY <1>0 DEF OldBytes, TypeOK
    <2>8. in+put-1 = in-1
      BY <2>2, <2>3
    <2>9. ASSUME NEW b \in out..in+n-1, NEW c \in out..in+n-1, b < c,
                 Stream'[c] # NoByte
          PROVE  Before(Stream'[b], Stream'[c])
      <3>1. CASE c < in
        <4>1. b \in out..in-1 /\ c \in out..in-1
          BY <2>3, <2>5, <2>9, <3>1
        <4>2. Stream'[b] = Stream[b] /\ Stream'[c] = Stream[c]
          BY <2>5, <4>1
        <4>3. b \in out..in+put-1 /\ c \in out..in+put-1
          BY <2>8, <4>1, Zenon
        <4>4. Before(Stream[b], Stream[c])
          BY <2>4, <2>9, <4>2, <4>3, Zenon
        <4> QED
          BY <4>2, <4>4, Zenon
      <3>2. CASE c >= in
        <4>0. c \in in..in+n-1
          BY <2>n, <3>2
        <4>1. Stream'[c] = <<seen + 1, c - in + 1>>
          BY <2>n, <4>0, Zenon
        <4>2. CASE b < in
          <5>1. Stream'[b] = Stream[b] /\ Stream[b][1] <= seen /\ Stream[b][1] \in Nat
            BY <2>3, <2>5, <2>6, <4>2, SMTT(30)
          <5>2. Stream'[b][1] < Stream'[c][1]
            BY <2>3, <4>1, <5>1
          <5> QED
            BY <5>2, Zenon DEF Before
        <4>3. CASE b >= in
          <5>0. b \in in..in+n-1
            BY <2>n, <4>3
          <5>1. Stream'[b] = <<seen + 1, b - in + 1>>
            BY <2>n, <5>0, Zenon
          <5>2. Stream'[b][1] = Stream'[c][1] /\ Stream'[b][2] < Stream'[c][2]
            BY <2>3, <2>5, <2>9, <4>1, <5>1
          <5> QED
            BY <5>2, Zenon DEF Before
        <4> QED
          BY <2>3, <2>5, <4>2, <4>3
      <3> QED
        BY <2>3, <2>5, <3>1, <3>2
    <2>10. Follows'
      <3>1. \A b, c \in out..in+n-1 :
              b < c /\ Stream'[c] # NoByte => Before(Stream'[b], Stream'[c])
        BY <2>9, Zenon
      <3> QED
        BY <2>2, <2>m, <3>1, Zenon DEF Before
    <2>11. Taken'
      <3> SUFFICES ASSUME NEW s \in Readers, rd[s] = "advance"
                   PROVE  last = Stream'[out + got[s] - 1]
        BY <2>2, Zenon
      <3>1. out + got[s] - 1 \in out..in-1
        BY <1>0, <2>3, SMTT(30)
      <3>2. Stream'[out + got[s] - 1] = Stream[out + got[s] - 1]
        BY <2>5, <3>1, Zenon
      <3> QED
        BY <2>4, <3>2, Zenon
    <2>12. ASSUME \A s \in Readers : rd[s] # "advance", NEW c \in out..in+n-1,
                  Stream'[c] # NoByte
           PROVE  Before(last, Stream'[c])
      <3>1. CASE c < in
        <4>1. c \in out..in-1
          BY <2>3, <2>5, <3>1
        <4>2. Stream'[c] = Stream[c] /\ c \in out..in+put-1
          BY <2>5, <2>8, <4>1, Zenon
        <4>3. Before(last, Stream[c])
          BY <2>4, <2>12, <4>2, Zenon
        <4> QED
          BY <4>2, <4>3, Zenon
      <3>2. CASE c >= in
        <4>0. c \in in..in+n-1
          BY <2>n, <3>2
        <4>1. Stream'[c] = <<seen + 1, c - in + 1>>
          BY <2>n, <4>0, Zenon
        <4>2. last[1] < Stream'[c][1]
          BY <2>3, <2>7, <4>1, SMTT(30)
        <4> QED
          BY <4>2, Zenon DEF Before
      <3> QED
        BY <2>3, <2>5, <3>1, <3>2
    <2>13. Fresh'
      <3>1. (\A s \in Readers : rd[s] # "advance") =>
              \A c \in out..in+n-1 : Stream'[c] # NoByte => Before(last, Stream'[c])
        BY <2>12, Zenon
      <3> QED
        BY <2>2, <2>m, <3>1, Zenon DEF Before
    <2> QED
      BY <2>10, <2>11, <2>13
  <1>5. CASE ProbePublish
    <2>1. ~raced
      BY <1>5, Zenon DEF ProbePublish, readVars
    <2>2. /\ in' = in + put /\ out' = out /\ put' = 0 /\ got' = got /\ last' = last
          /\ rd' = rd /\ Allocated /\ Stream' = Stream
      BY <1>5 DEF ProbePublish, readVars, Allocated, Stream
    <2>3. in \in Nat /\ put \in 0..REC
      BY <1>0 DEF TypeOK
    <2>4. Follows /\ Taken /\ Fresh
      BY <1>h, <2>1, <2>2
    <2>5. in'+put'-1 = in+put-1
      BY <1>0, <2>2, <2>3
    <2>6. Follows'
      <3>1. ASSUME NEW b \in out'..in'+put'-1, NEW c \in out'..in'+put'-1,
                   b < c, Stream'[c] # NoByte
            PROVE  Before(Stream'[b], Stream'[c])
        <4>1. b \in out..in+put-1 /\ c \in out..in+put-1
          BY <2>2, <2>5, Zenon
        <4>2. Before(Stream[b], Stream[c])
          BY <2>2, <2>4, <3>1, <4>1, Zenon
        <4> QED
          BY <2>2, <4>2, Zenon
      <3>2. \A b, c \in out'..in'+put'-1 :
              b < c /\ Stream'[c] # NoByte => Before(Stream'[b], Stream'[c])
        BY <3>1, Zenon
      <3> QED
        BY <3>2, Zenon DEF Before
    <2>7. Taken'
      BY <2>2, <2>4, Zenon
    <2>8. Fresh'
      BY <2>2, <2>4, <2>5, Zenon DEF Before
    <2> QED
      BY <2>6, <2>7, <2>8
  <1>6. ASSUME NEW r \in Readers, RbfgradNext(r) PROVE Follows' /\ Taken' /\ Fresh'
    <2>1. ~raced
      BY <1>6, Zenon DEF RbfgradNext
    <2>2. in' = in /\ out' = out /\ put' = put /\ Allocated /\ Stream' = Stream /\ rd[r] = "next"
      BY <1>6 DEF RbfgradNext, fifoVars, Allocated, Stream
    <2>3. /\ in \in Nat /\ out \in Nat /\ out <= in
          /\ rd \in [Readers -> {"closed", "start", "show", "next", "advance", "return", "eof"}]
          /\ got \in [Readers -> 0..REC]
          /\ \A s, t \in Readers : Using(s) /\ Using(t) => s = t
      BY <1>0, <2>1, Unraced
    <2>4. Follows /\ Taken /\ Fresh
      BY <1>h, <2>1, <2>2
    <2>5. \A s \in Readers : rd[s] # "advance"
      BY <2>2, <2>3 DEF Using
    <2>6. Follows'
      <3>1. ASSUME NEW b \in out'..in'+put'-1, NEW c \in out'..in'+put'-1,
                   b < c, Stream'[c] # NoByte
            PROVE  Before(Stream'[b], Stream'[c])
        <4>1. b \in out..in+put-1 /\ c \in out..in+put-1
          BY <2>2, Zenon
        <4>2. Before(Stream[b], Stream[c])
          BY <2>2, <2>4, <3>1, <4>1, Zenon
        <4> QED
          BY <2>2, <4>2, Zenon
      <3>2. \A b, c \in out'..in'+put'-1 :
              b < c /\ Stream'[c] # NoByte => Before(Stream'[b], Stream'[c])
        BY <3>1, Zenon
      <3> QED
        BY <3>2, Zenon DEF Before
    <2>7. \/ rd' = [rd EXCEPT ![r] = "return"] /\ last' = last
          \/ /\ rd' = [rd EXCEPT ![r] = "advance"] /\ Ready # 0
             /\ got' = [got EXCEPT ![r] = Ready] /\ last' = FromRing(Ready)[Ready]
      BY <1>6, <2>2 DEF RbfgradNext
    <2>8. CASE rd' = [rd EXCEPT ![r] = "return"] /\ last' = last
      <3>1. \A s \in Readers : rd'[s] # "advance"
        BY <2>3, <2>5, <2>8
      <3>2. Taken'
        BY <3>1, Zenon
      <3>3. Fresh'
        BY <2>2, <2>4, <2>5, <2>8, Zenon DEF Before
      <3> QED
        BY <2>6, <3>2, <3>3
    <2>9. CASE /\ rd' = [rd EXCEPT ![r] = "advance"] /\ Ready # 0
               /\ got' = [got EXCEPT ![r] = Ready] /\ last' = FromRing(Ready)[Ready]
      <3>1. Ready \in 1..REC /\ Ready \in 1..Ready
        BY <1>0, <2>9, ReadyIs
      <3>2. last' = Stream[out + Ready - 1]
        BY <1>0, <2>9, <3>1, FromRingIs
      <3>3. rd'[r] = "advance" /\ got'[r] = Ready
        BY <2>3, <2>9
      <3>4. \A s \in Readers : rd'[s] = "advance" => s = r
        BY <2>3, <2>5, <2>9
      <3>5. Taken'
        BY <2>2, <3>2, <3>3, <3>4, Zenon
      <3>6. Fresh'
        BY <3>3, Zenon
      <3> QED
        BY <2>6, <3>5, <3>6
    <2> QED
      BY <2>7, <2>8, <2>9
  <1>7. ASSUME NEW r \in Readers, KfifoAdvance(r) PROVE Follows' /\ Taken' /\ Fresh'
    <2>1. ~raced
      BY <1>7, Zenon DEF KfifoAdvance
    <2>2. /\ in' = in /\ out' = out + got[r] /\ put' = put /\ Allocated /\ Stream' = Stream
          /\ rd[r] = "advance" /\ rd' = [rd EXCEPT ![r] = "show"] /\ last' = last
      BY <1>7 DEF KfifoAdvance, Advanced, Allocated, Stream
    <2>3. /\ in \in Nat /\ out \in Nat /\ out <= in /\ put \in 0..REC
          /\ rd \in [Readers -> {"closed", "start", "show", "next", "advance", "return", "eof"}]
          /\ \A s, t \in Readers : Using(s) /\ Using(t) => s = t
          /\ got[r] \in 1..REC /\ got[r] <= in - out
      BY <1>0, <2>1, <2>2, Unraced
    <2>4. Follows /\ Taken /\ Fresh
      BY <1>h, <2>1, <2>2
    <2>5. \A s \in Readers : rd'[s] # "advance"
      BY <2>2, <2>3 DEF Using
    <2>6. Taken'
      BY <2>5, Zenon
    <2>7. \A c \in out'..in'+put'-1 :
            c \in out..in+put-1 /\ out + got[r] - 1 < c /\ out + got[r] - 1 \in out..in+put-1
      BY <1>0, <2>2, <2>3
    <2>8. Follows'
      <3>1. ASSUME NEW b \in out'..in'+put'-1, NEW c \in out'..in'+put'-1,
                   b < c, Stream'[c] # NoByte
            PROVE  Before(Stream'[b], Stream'[c])
        <4>1. b \in out..in+put-1 /\ c \in out..in+put-1
          BY <2>7, Zenon
        <4>2. Before(Stream[b], Stream[c])
          BY <2>2, <2>4, <3>1, <4>1, Zenon
        <4> QED
          BY <2>2, <4>2, Zenon
      <3>2. \A b, c \in out'..in'+put'-1 :
              b < c /\ Stream'[c] # NoByte => Before(Stream'[b], Stream'[c])
        BY <3>1, Zenon
      <3> QED
        BY <3>2, Zenon DEF Before
    <2>9. last = Stream[out + got[r] - 1]
      BY <2>2, <2>4, Zenon
    <2>10. Fresh'
      <3>1. ASSUME NEW c \in out'..in'+put'-1, Stream[c] # NoByte PROVE Before(last, Stream[c])
        BY <2>4, <2>7, <2>9, <3>1, Zenon
      <3> QED
        BY <2>2, <3>1, Zenon DEF Before
    <2> QED
      BY <2>6, <2>8, <2>10
  <1> QED
    BY <1>1, <1>2, <1>b, <1>3, <1>4, <1>5, <1>6, <1>7, Steps, Zenon

(* The bytes kfifo_in has laid into the ring are in the order of the calls  *)
(* of probe_rbfgrad_output, and come after those already taken out.         *)
THEOREM OrderInvariant == Spec => []OrderInv
  <1>1. Init => OrderInv
    <2> SUFFICES ASSUME Init PROVE OrderInv
      OBVIOUS
    <2>1. OldBytes
      BY DEF Init, OldBytes, NoByte
    <2>2. Ordered
      BY Zenon DEF Init, Ordered, Allocated
    <2> QED
      BY <2>1, <2>2, CtlInit DEF OrderInv
  <1>2. OrderInv /\ [Next]_vars => OrderInv'
    BY CtlNext, OldNext, OrderedNext, Zenon DEF OrderInv
  <1> QED
    BY <1>1, <1>2, PTL DEF Spec

(* Whatever was stored in part, lost or cut, rbfgrad_next takes the bytes   *)
(* out in the order in which the probe has put them in, none twice.         *)
THEOREM OrderCorrect == Spec => StreamInOrder
  <1>1. OrderInv /\ [Next]_vars =>
          [\A r \in Readers :
             RbfgradNext(r) /\ rd'[r] = "advance" /\ ~raced =>
               \A i \in 1..got'[r] :
                 ctl_temp'[i] # NoByte =>
                   Before(IF i = 1 THEN last ELSE ctl_temp'[i-1], ctl_temp'[i])]_vars
    <2> SUFFICES ASSUME OrderInv, NEW r \in Readers, RbfgradNext(r), rd'[r] = "advance",
                        ~raced, NEW i \in 1..got'[r], ctl_temp'[i] # NoByte
                 PROVE  Before(IF i = 1 THEN last ELSE ctl_temp'[i-1], ctl_temp'[i])
      BY Zenon
    <2>0. CtlInv /\ TypeOK /\ REC \in Nat /\ REC >= 2
      BY FifoAssumption DEF OrderInv, CtlInv
    <2>1. /\ in \in Nat /\ out \in Nat /\ out <= in /\ put \in 0..REC
          /\ rd \in [Readers -> {"closed", "start", "show", "next", "advance", "return", "eof"}]
          /\ got \in [Readers -> 0..REC]
          /\ \A s, t \in Readers : Using(s) /\ Using(t) => s = t
      BY <2>0, Unraced
    <2>2. /\ Ready # 0 /\ got'[r] = Ready /\ rd[r] = "next"
          /\ ctl_temp' = IF Allocated THEN FromRing(Ready) ELSE Zeroed
      BY <2>1 DEF RbfgradNext
    <2>3. Ready \in 1..REC /\ Ready <= in - out /\ i \in 1..Ready /\ i \in Offsets
      BY <2>0, <2>1, <2>2, ReadyIs DEF Offsets
    <2>4. Allocated
      <3>1. ASSUME ~Allocated PROVE FALSE
        <4>1. ctl_temp' = Zeroed
          BY <2>2, <3>1
        <4>2. ctl_temp'[i] = NoByte
          BY <2>3, <4>1, Zenon DEF Zeroed
        <4> QED
          BY <4>2
      <3> QED
        BY <3>1
    <2>5. /\ \A b, c \in out..in+put-1 :
               b < c /\ Stream[c] # NoByte => Before(Stream[b], Stream[c])
          /\ (\A s \in Readers : rd[s] # "advance") =>
               \A c \in out..in+put-1 : Stream[c] # NoByte => Before(last, Stream[c])
      BY <2>4, Zenon DEF OrderInv, Ordered
    <2>6. \A s \in Readers : rd[s] # "advance"
      BY <2>1, <2>2 DEF Using
    <2>7. \A n \in 1..Ready : ctl_temp'[n] = Stream[out + n - 1]
      BY <2>0, <2>2, <2>3, <2>4, FromRingIs
    <2>8. out + i - 1 \in out..in+put-1
      BY <2>0, <2>1, <2>3
    <2>9. CASE i = 1
      <3>1. Before(last, ctl_temp'[i])
        BY <2>3, <2>5, <2>6, <2>7, <2>8, Zenon
      <3> QED
        BY <2>9, <3>1, Zenon
    <2>10. CASE i # 1
      <3>1. /\ i - 1 \in 1..Ready /\ out + (i - 1) - 1 \in out..in+put-1
            /\ out + (i - 1) - 1 < out + i - 1
        BY <2>0, <2>1, <2>3, <2>10
      <3>2. ctl_temp'[i-1] = Stream[out + (i - 1) - 1]
        BY <2>7, <3>1, Zenon
      <3>3. ctl_temp'[i] = Stream[out + i - 1]
        BY <2>3, <2>7, Zenon
      <3>4. Before(Stream[out + (i - 1) - 1], Stream[out + i - 1])
        BY <2>5, <2>8, <3>1, <3>3, Zenon
      <3> QED
        BY <2>10, <3>2, <3>3, <3>4, Zenon
    <2> QED
      BY <2>9, <2>10
  <1> QED
    BY OrderInvariant, <1>1, PTL DEF Spec, StreamInOrder
==============================================================================
