------------------------- MODULE RbfgradQdiscProofs -------------------------
(***************************************************************************)
(* What TLAPS proves of RbfgradQdisc for every value of its constants.      *)
(***************************************************************************)
EXTENDS RbfgradQdisc, TLAPS

(* A packet's length, and what bfifo counts of it, are numbers.             *)
LEMMA LenFacts ==
    ASSUME NEW len \in Lens
    PROVE  len \in Nat /\ ChildBytes(len) \in Nat
BY LensAssumption DEF ChildBytes

(* Shifting a window of integers gives one.                                 *)
LEMMA ShiftType ==
    ASSUME NEW w \in [Window -> Int], NEW x \in Int
    PROVE  Shift(w, x) \in [Window -> Int]
BY SamAssumption DEF Shift, Window

(* A sample keeps the log, the counters and the windows well typed.         *)
LEMMA SampleType ==
    ASSUME TypeOK, Sample
    PROVE  /\ cyc_count' \in 0..CYC_MAX-1
           /\ array_element' \in Slots
           /\ rec' \in [Slots -> RecType]
           /\ e_k' \in Int /\ e_k_1' \in Int /\ e_k_2' \in Int
           /\ proba' \in [Window -> Int]
           /\ queue_len' \in [Window -> Int]
<1>1. CASE cyc_count + 1 = CYC_MAX
  <2>1. WriteLog /\ UpdateHistory /\ cyc_count' = 0
    BY <1>1 DEF Sample
  <2>2. cyc_count' \in 0..CYC_MAX-1
    BY <2>1, CycAssumption
  <2>3. array_element' \in Slots
    BY <2>1, ShowAssumption DEF TypeOK, WriteLog, NextElement, Slots
  <2>4. rec' \in [Slots -> RecType]
    BY <2>1 DEF TypeOK, WriteLog, RecType
  <2>5. cfg.q_ref \in Int
    BY DEF TypeOK, CfgType
  <2>6. e_k' \in Int /\ e_k_1' \in Int /\ e_k_2' \in Int
    BY <2>1, <2>5 DEF TypeOK, UpdateHistory
  <2>7. proba' \in [Window -> Int] /\ queue_len' \in [Window -> Int]
    BY <2>1, ShiftType DEF TypeOK, UpdateHistory
  <2> QED BY <2>2, <2>3, <2>4, <2>6, <2>7
<1>2. CASE cyc_count + 1 # CYC_MAX
  <2>1. cyc_count' = cyc_count + 1 /\ UNCHANGED <<rec, array_element, histVars>>
    BY <1>2 DEF Sample
  <2>2. cyc_count' \in 0..CYC_MAX-1
    BY <1>2, <2>1, CycAssumption DEF TypeOK
  <2> QED BY <2>1, <2>2 DEF TypeOK, histVars
<1> QED BY <1>1, <1>2

(* What is left when one packet is taken out of a queue.                    *)
LEMMA RemoveAtFacts ==
    ASSUME NEW s \in Seq(Lens), NEW i \in 1..Len(s)
    PROVE  /\ RemoveAt(s, i) \in Seq(Lens)
           /\ Len(RemoveAt(s, i)) = Len(s) - 1
           /\ s[i] \in Lens
<1>1. s[i] \in Lens
  OBVIOUS
<1>2. SubSeq(s, 1, i-1) \in Seq(Lens) /\ Len(SubSeq(s, 1, i-1)) = i - 1
  OBVIOUS
<1>3. SubSeq(s, i+1, Len(s)) \in Seq(Lens) /\ Len(SubSeq(s, i+1, Len(s))) = Len(s) - i
  OBVIOUS
<1>4. ASSUME NEW a \in Seq(Lens), NEW b \in Seq(Lens)
      PROVE  a \o b \in Seq(Lens) /\ Len(a \o b) = Len(a) + Len(b)
  OBVIOUS
<1>5. RemoveAt(s, i) = SubSeq(s, 1, i-1) \o SubSeq(s, i+1, Len(s))
  BY DEF RemoveAt
<1>6. Len(RemoveAt(s, i)) = (i - 1) + (Len(s) - i) /\ RemoveAt(s, i) \in Seq(Lens)
  BY <1>2, <1>3, <1>4, <1>5
<1> QED BY <1>1, <1>6

(* Every option set gives well-typed windows.                               *)
LEMMA SetWindowsType ==
    ASSUME NEW c \in CfgType, SetWindows(c)
    PROVE  /\ proba' \in [Window -> Int]
           /\ queue_len' \in [Window -> Int]
BY DEF SetWindows, CfgType

(* Taking a packet out of the child keeps the types.                        *)
LEMMA TakePacketType ==
    ASSUME TypeOK, NEW i \in 1..Len(queue), NEW stage \in {"taken", "dropped"},
           TakePacket(i, stage)
    PROVE  TypeOK'
<1>1. queue' \in Seq(Lens) /\ queue[i] \in Lens
  BY RemoveAtFacts DEF TakePacket, TypeOK
<1>2. queue[i] \in Nat /\ ChildBytes(queue[i]) \in Nat
  BY <1>1, LenFacts
<1>3. child_backlog' \in Int /\ op_len' \in Nat
  BY <1>2 DEF TakePacket, TypeOK
<1>4. op' \in {"none"} \cup Judged \cup HalfWay \cup Changing
  BY DEF TakePacket, HalfWay
<1> QED BY <1>1, <1>3, <1>4 DEF TakePacket, TypeOK, schVars, statVars, histVars,
        parmVars, logVars, dumpVars

(* The child a configuration asks for.                                      *)
LEMMA NewChildType ==
    /\ NoopQdisc \in ChildType
    /\ \A n \in Nat : Bfifo(n) \in ChildType
BY DEF NoopQdisc, Bfifo, ChildType

(* Purging the child leaves it empty and adds what it held to departed.     *)
LEMMA PurgeType ==
    ASSUME TypeOK, PurgeChild
    PROVE  /\ queue' = <<>> /\ queue' \in Seq(Lens) /\ Len(queue') = 0
           /\ child_backlog' \in Int
           /\ departed' \in Nat
           /\ Len(queue) \in Nat
BY DEF TypeOK, PurgeChild

(* The log and the sampling period start at a legal value: 0.               *)
LEMMA ZeroSlot == 0 \in Slots /\ 0 \in 0..CYC_MAX-1
BY ShowAssumption, CycAssumption DEF Slots

(* The state before the first qdisc is created is well typed.               *)
LEMMA InitType == Init => TypeOK
<1> SUFFICES ASSUME Init PROVE TypeOK
  OBVIOUS
<1>1. rec \in [Slots -> RecType]
  BY DEF Init, RecType
<1>2. cfg \in CfgType /\ child \in ChildType
  BY NewChildType DEF Init, ZeroCfg, CfgType
<1>3. queue \in Seq(Lens)
  BY DEF Init
<1>4. proba \in [Window -> Int] /\ queue_len \in [Window -> Int]
  BY DEF Init
<1> QED BY <1>1, <1>2, <1>3, <1>4, ZeroSlot DEF Init, TypeOK

(* The rest of an enqueue keeps the types.                                  *)
LEMMA EnqueueTailType == TypeOK /\ RbfgradEnqueueTail => TypeOK'
<1> SUFFICES ASSUME TypeOK, RbfgradEnqueueTail PROVE TypeOK'
  OBVIOUS
<1>1. /\ cyc_count' \in 0..CYC_MAX-1
      /\ array_element' \in Slots
      /\ rec' \in [Slots -> RecType]
      /\ e_k' \in Int /\ e_k_1' \in Int /\ e_k_2' \in Int
      /\ proba' \in [Window -> Int]
      /\ queue_len' \in [Window -> Int]
      /\ UNCHANGED <<live, cfg, qlen, backlog, child, other, p_k, p_k_1,
                     pkg_number, dumping, dump_val, disturbed>>
  BY SampleType DEF RbfgradEnqueueTail, dumpVars
<1> USE DEF HalfWay, Judged, Changing
<1>2. CASE CongestionDrop
  BY <1>1, <1>2 DEF CongestionDrop, TypeOK
<1>3. CASE Forward
  <2>1. overlimits' \in Nat /\ prob_mark' \in Nat /\ UNCHANGED prob_drop
    BY <1>3 DEF Forward, MarkOrPass, TypeOK
  <2>2. CASE \E len \in Lens : QueuePacket(len)
    <3> PICK len \in Lens : QueuePacket(len)
      BY <2>2
    <3>1. queue' \in Seq(Lens)
      BY DEF QueuePacket, TypeOK
    <3>2. child_backlog' \in Int /\ op_len' \in Nat
      BY LenFacts DEF QueuePacket, TypeOK
    <3> QED BY <1>1, <2>1, <3>1, <3>2 DEF QueuePacket, TypeOK
  <2>3. CASE \E len \in Lens : RefusePacket(len)
    BY <1>1, <2>1, <2>3 DEF RefusePacket, TypeOK
  <2>4. CASE StealPacket
    BY <1>1, <2>1, <2>4 DEF StealPacket, TypeOK
  <2> QED BY <1>3, <2>2, <2>3, <2>4 DEF Forward
<1> QED BY <1>2, <1>3 DEF RbfgradEnqueueTail

(* Counting the packet in the parent keeps the types.                       *)
LEMMA CountType ==
    ASSUME TypeOK, CountQueued \/ CountTaken \/ CountDropped
    PROVE  TypeOK'
<1> USE DEF childVars, statVars, histVars, parmVars, logVars, dumpVars, TypeOK
<1>1. CASE CountQueued
  BY <1>1 DEF CountQueued
<1>2. CASE CountTaken
  BY <1>2 DEF CountTaken
<1>3. CASE CountDropped
  BY <1>3 DEF CountDropped
<1> QED BY <1>1, <1>2, <1>3

(* So do the stores of a change that goes on.                               *)
LEMMA ChangeType ==
    ASSUME TypeOK, ChangeP \/ ChangeErrors \/ ChangeWindows
    PROVE  TypeOK'
<1> USE DEF schVars, childVars, statVars, histVars, parmVars, logVars, dumpVars,
            Changing
<1>1. cfg.p_init \in Int
  BY DEF TypeOK, CfgType
<1>2. CASE ChangeP
  BY <1>1, <1>2 DEF ChangeP, TypeOK
<1>3. CASE ChangeErrors
  BY <1>3 DEF ChangeErrors, SetErrors, TypeOK
<1>4. CASE ChangeWindows
  <2>1. proba' \in [Window -> Int] /\ queue_len' \in [Window -> Int]
    BY <1>4, SetWindowsType DEF ChangeWindows, TypeOK
  <2> QED BY <1>4, <2>1, ZeroSlot DEF ChangeWindows, TypeOK
<1> QED BY <1>2, <1>3, <1>4

(* No operation of the qdisc, no store of the controller and no dump leaves *)
(* the state ill-typed.                                                     *)
LEMMA NextType == TypeOK /\ [Next]_vars => TypeOK'
<1> SUFFICES ASSUME TypeOK, [Next]_vars PROVE TypeOK'
  OBVIOUS
<1> USE DEF schVars, childVars, statVars, histVars, parmVars, logVars,
           dumpVars
<1>1. CASE RbfgradEnqueue
  <2>1. op' \in Judged
    BY <1>1 DEF RbfgradEnqueue, RbfgradAction, Judged
  <2> QED BY <1>1, <2>1 DEF RbfgradEnqueue, TypeOK
<1>2. CASE RbfgradEnqueueTail
  BY <1>2, EnqueueTailType
<1>3. CASE RbfgradDequeue \/ RbfgradDrop
  BY <1>3, TakePacketType DEF RbfgradDequeue, RbfgradDrop
<1>4. CASE CountQueued \/ CountTaken \/ CountDropped
  BY <1>4, CountType
<1>5. CASE RbfgradReset
  <2>1. disturbed' \in BOOLEAN
    BY <1>5 DEF RbfgradReset
  <2> QED BY <1>5, <2>1, PurgeType, ZeroSlot DEF RbfgradReset, opVars, TypeOK
<1>6. CASE \E c \in Configs : RbfgradInit(c)
  <2> PICK c \in Configs : RbfgradInit(c)
    BY <1>6
  <2>1. c \in CfgType /\ c.limit \in Nat
    BY CfgAssumption DEF CfgType
  <2>2. child' \in ChildType
    BY <2>1, NewChildType DEF RbfgradInit
  <2>3. /\ proba' \in [Window -> Int] /\ queue_len' \in [Window -> Int]
        /\ p_k' \in Int
    BY <2>1, SetWindowsType DEF RbfgradInit, CfgType
  <2>4. live' \in BOOLEAN /\ disturbed' \in BOOLEAN
    BY DEF RbfgradInit
  <2> QED BY <2>1, <2>2, <2>3, <2>4, ZeroSlot DEF RbfgradInit, SetErrors, opVars, TypeOK
<1>7. CASE \E c \in Configs : RbfgradChange(c)
  <2> PICK c \in Configs : RbfgradChange(c)
    BY <1>7
  <2>1. c \in CfgType /\ c.limit \in Nat
    BY CfgAssumption DEF CfgType
  <2>2. /\ child' \in ChildType /\ queue' \in Seq(Lens)
        /\ child_backlog' \in Int /\ qlen' \in Int /\ departed' \in Nat
    BY <2>1, NewChildType, PurgeType DEF RbfgradChange, ReplaceChild, TypeOK
  <2>3. disturbed' \in BOOLEAN
    BY DEF RbfgradChange, ReplaceChild, TypeOK
  <2> QED BY <2>1, <2>2, <2>3 DEF RbfgradChange, Changing, TypeOK
<1>8. CASE \E n \in Children : RbfgradGraft(n)
  <2>1. disturbed' \in BOOLEAN
    BY <1>8 DEF RbfgradGraft, ReplaceChild
  <2> QED BY <1>8, <2>1, PurgeType, ChildAssumption
          DEF RbfgradGraft, ReplaceChild, opVars, TypeOK
<1>9. CASE RbfgradDumpRead \/ RbfgradDumpStore
  <2>1. CASE RbfgradDumpRead
    BY <2>1 DEF RbfgradDumpRead, opVars, TypeOK
  <2>2. CASE RbfgradDumpStore
    <3>1. dump_val' \in Int /\ backlog' \in Int
      BY <2>2 DEF RbfgradDumpStore, TypeOK
    <3>2. dumping' \in BOOLEAN /\ disturbed' \in BOOLEAN
      BY <2>2 DEF RbfgradDumpStore
    <3>3. UNCHANGED <<live, cfg, qlen, drops, overlimits, childVars, statVars,
                      parmVars, logVars, pkg_number, op, op_len, departed>>
      BY <2>2 DEF RbfgradDumpStore, opVars
    <3> QED BY <3>1, <3>2, <3>3 DEF TypeOK
  <2> QED BY <1>9, <2>1, <2>2
<1>10. CASE RbfgradDestroy
  <2>1. live' \in BOOLEAN /\ disturbed' \in BOOLEAN
    BY <1>10 DEF RbfgradDestroy
  <2> QED BY <1>10, <2>1, PurgeType, ZeroSlot DEF RbfgradDestroy, opVars, TypeOK
<1>11. CASE StoreP \/ StoreP1
  BY <1>11, ProbsAssumption DEF StoreP, StoreP1, opVars, TypeOK
<1>12. CASE ChangeP \/ ChangeErrors \/ ChangeWindows
  BY <1>12, ChangeType
<1>13. CASE UNCHANGED vars
  BY <1>13 DEF vars, opVars, TypeOK
<1> QED BY <1>1, <1>2, <1>3, <1>4, <1>5, <1>6, <1>7, <1>8, <1>9, <1>10,
           <1>11, <1>12, <1>13 DEF Next, DataPath, Control

(* The state of the qdisc is always well typed; in particular               *)
(* array_element never runs past the log and cyc_count never skips CYC_MAX. *)
THEOREM TypeCorrect == Spec => []TypeOK
BY InitType, NextType, PTL DEF Spec

-----------------------------------------------------------------------------
(* Accounting.  The conjuncts depend on each other: a purge moves the       *)
(* child's packets to departed, so conservation needs qlen = Len(queue),    *)
(* and init leaves the root lock alone, so it needs to know that nothing    *)
(* was under way when the previous instance went away.                      *)
IdleWhenFreed == live \/ op = "none"

AccountInv ==
    IdleWhenFreed /\ QlenMatchesChild /\ PacketsConserved /\ CountersAgree

(* What is counted at each stage.                                           *)
LEMMA StageFacts ==
    ASSUME TypeOK
    PROVE  /\ Uncounted \in Int
           /\ op = "queued" => Uncounted = -1
           /\ op \in {"taken", "dropped"} => Uncounted = 1
           /\ op \in {"none"} \cup Judged \cup Changing => Uncounted = 0
BY DEF TypeOK, Uncounted, Judged, HalfWay, Changing

(* The rest of an enqueue keeps the accounts: exactly one counter or the    *)
(* child takes the packet.                                                  *)
LEMMA EnqueueTailAccounts ==
    TypeOK /\ AccountInv /\ RbfgradEnqueueTail => AccountInv'
<1> SUFFICES ASSUME TypeOK, AccountInv, RbfgradEnqueueTail PROVE AccountInv'
  OBVIOUS
<1>1. /\ live' = live /\ IdleWhenFreed' /\ op \in Judged
      /\ UNCHANGED <<pkg_number, qlen, other>>
  BY DEF RbfgradEnqueueTail, AccountInv, IdleWhenFreed, Judged
<1>2. /\ drops \in Nat /\ overlimits \in Nat /\ prob_drop \in Nat
      /\ prob_mark \in Nat /\ pdrop \in Nat /\ other \in Nat
      /\ departed \in Nat /\ pkg_number \in Nat /\ qlen \in Int
      /\ Len(queue) \in Nat
  BY DEF TypeOK
<1>3. qlen = Len(queue)
  BY <1>1, <1>2, StageFacts DEF AccountInv, QlenMatchesChild
<1>4. live => pkg_number = departed + qlen + prob_drop + pdrop + other + 1
  BY <1>1 DEF AccountInv, PacketsConserved, Xstats
<1>5. drops = prob_drop + pdrop + other /\ overlimits = prob_drop + prob_mark
  BY DEF AccountInv, CountersAgree, Xstats
<1>6. ASSUME op' = "none", queue' = queue PROVE QlenMatchesChild'
  BY <1>1, <1>2, <1>3, <1>6 DEF QlenMatchesChild, Uncounted
<1> USE DEF PacketsConserved, CountersAgree, Xstats, Judged
<1>7. CASE CongestionDrop
  <2>1. QlenMatchesChild'
    BY <1>6, <1>7 DEF CongestionDrop
  <2>2. PacketsConserved'
    BY <1>1, <1>2, <1>4, <1>7 DEF CongestionDrop
  <2>3. CountersAgree'
    BY <1>1, <1>2, <1>5, <1>7 DEF CongestionDrop
  <2> QED BY <1>1, <2>1, <2>2, <2>3 DEF AccountInv
<1>8. CASE Forward
  <2>1. UNCHANGED prob_drop
    BY <1>8 DEF Forward
  <2>2. overlimits' = prob_drop' + prob_mark'
    BY <1>2, <1>5, <1>8, <2>1 DEF Forward, MarkOrPass
  <2>3. CASE \E len \in Lens : QueuePacket(len)
    <3>1. /\ Len(queue') = Len(queue) + 1 /\ op' = "queued"
          /\ UNCHANGED <<drops, pdrop, departed>>
      BY <2>3 DEF QueuePacket, TypeOK
    <3>2. QlenMatchesChild'
      BY <1>1, <1>2, <1>3, <3>1 DEF QlenMatchesChild, Uncounted
    <3>3. PacketsConserved'
      BY <1>1, <1>2, <1>4, <2>1, <3>1
    <3>4. CountersAgree'
      BY <1>1, <1>2, <1>5, <2>1, <2>2, <3>1
    <3> QED BY <1>1, <3>2, <3>3, <3>4 DEF AccountInv
  <2>4. CASE \E len \in Lens : RefusePacket(len)
    <3>1. /\ op' = "none" /\ pdrop' = pdrop + 1 /\ drops' = drops + 1
          /\ UNCHANGED <<queue, departed>>
      BY <2>4 DEF RefusePacket
    <3>2. PacketsConserved'
      BY <1>1, <1>2, <1>4, <2>1, <3>1
    <3>3. CountersAgree'
      BY <1>1, <1>2, <1>5, <2>1, <2>2, <3>1
    <3> QED BY <1>1, <1>6, <3>1, <3>2, <3>3 DEF AccountInv
  <2>5. CASE StealPacket
    <3>1. /\ op' = "none" /\ departed' = departed + 1
          /\ UNCHANGED <<queue, drops, pdrop>>
      BY <2>5 DEF StealPacket
    <3>2. PacketsConserved'
      BY <1>1, <1>2, <1>4, <2>1, <3>1
    <3>3. CountersAgree'
      BY <1>1, <1>2, <1>5, <2>1, <2>2, <3>1
    <3> QED BY <1>1, <1>6, <3>1, <3>2, <3>3 DEF AccountInv
  <2> QED BY <1>8, <2>3, <2>4, <2>5 DEF Forward
<1> QED BY <1>7, <1>8 DEF RbfgradEnqueueTail

(* Counting the packet in hand closes the gap between child and parent.     *)
LEMMA CountAccounts ==
    ASSUME TypeOK, AccountInv, CountQueued \/ CountTaken \/ CountDropped
    PROVE  AccountInv'
<1> USE DEF TypeOK, AccountInv, IdleWhenFreed, QlenMatchesChild,
            PacketsConserved, CountersAgree, Xstats, childVars, statVars, Judged,
            Uncounted
<1>1. CASE CountQueued
  BY <1>1 DEF CountQueued
<1>2. CASE CountTaken
  BY <1>2 DEF CountTaken
<1>3. CASE CountDropped
  BY <1>3 DEF CountDropped
<1> QED BY <1>1, <1>2, <1>3

(* The accounts hold together, whatever the order of packets, resets,       *)
(* changes, grafts, dumps and controller stores.                            *)
THEOREM AccountsInvariant == Spec => []AccountInv
<1>1. Init => AccountInv
  BY DEF Init, AccountInv, IdleWhenFreed, QlenMatchesChild, PacketsConserved,
         CountersAgree, Xstats, Uncounted, Judged
<1>2. TypeOK /\ AccountInv /\ [Next]_vars => AccountInv'
  <2> SUFFICES ASSUME TypeOK, AccountInv, [Next]_vars PROVE AccountInv'
    OBVIOUS
  <2>0. op = "none" => qlen = Len(queue)
    BY StageFacts DEF TypeOK, AccountInv, QlenMatchesChild
  <2> USE DEF schVars, childVars, statVars, opVars, TypeOK, AccountInv,
              IdleWhenFreed, QlenMatchesChild, PacketsConserved, CountersAgree,
              Xstats, Judged, Changing
  <2>1. CASE RbfgradEnqueue
    <3>1. op' \in Judged
      BY <2>1 DEF RbfgradEnqueue, RbfgradAction
    <3> QED BY <2>0, <2>1, <3>1 DEF RbfgradEnqueue, RootLockFree, Uncounted
  <2>2. CASE RbfgradEnqueueTail
    BY <2>2, EnqueueTailAccounts
  <2>3. CASE RbfgradDequeue \/ RbfgradDrop
    <3>1. PICK i \in 1..Len(queue), stage \in {"taken", "dropped"} : TakePacket(i, stage)
      BY <2>3 DEF RbfgradDequeue, RbfgradDrop
    <3>2. Len(queue') = Len(queue) - 1
      BY <3>1, RemoveAtFacts DEF TakePacket
    <3>3. live /\ op = "none" /\ op' \in {"taken", "dropped"}
      BY <2>3, <3>1 DEF RbfgradDequeue, RbfgradDrop, RootLockFree, TakePacket
    <3>4. UNCHANGED <<live, qlen, drops, overlimits, prob_drop, prob_mark, pdrop,
                      other, pkg_number, departed>>
      BY <3>1 DEF TakePacket
    <3>5. QlenMatchesChild'
      BY <2>0, <3>2, <3>3, <3>4 DEF Uncounted
    <3>6. PacketsConserved'
      BY <3>3, <3>4
    <3>7. CountersAgree' /\ IdleWhenFreed'
      BY <3>3, <3>4
    <3> QED BY <3>5, <3>6, <3>7
  <2>4. CASE CountQueued \/ CountTaken \/ CountDropped
    BY <2>4, CountAccounts
  <2>5. CASE RbfgradReset
    BY <2>0, <2>5, PurgeType DEF RbfgradReset, PurgeChild, RootLockFree, Uncounted
  <2>6. CASE \E c \in Configs : RbfgradInit(c)
    BY <2>6 DEF RbfgradInit, Uncounted
  <2>7. ASSUME NEW n, ReplaceChild(n), RootLockFree,
               op' \in {"none", "set_p_k"},
               UNCHANGED <<live, drops, overlimits, statVars, pkg_number>>
        PROVE  AccountInv'
    BY <2>0, <2>7, PurgeType, SMTT(30) DEF ReplaceChild, PurgeChild, RootLockFree, Uncounted
  <2>8. CASE \E c \in Configs : RbfgradChange(c)
    <3> PICK c \in Configs : RbfgradChange(c)
      BY <2>8
    <3>1. CASE c.limit > 0
      BY <2>7, <3>1 DEF RbfgradChange
    <3>2. CASE ~(c.limit > 0)
      BY <2>0, <3>2 DEF RbfgradChange, RootLockFree, Uncounted
    <3> QED BY <3>1, <3>2
  <2>9. CASE \E n \in Children : RbfgradGraft(n)
    BY <2>7, <2>9 DEF RbfgradGraft, RootLockFree
  <2>10. CASE ChangeP \/ ChangeErrors \/ ChangeWindows
    <3>1. /\ op \in Changing /\ op' \in {"none"} \cup Changing
          /\ UNCHANGED <<live, qlen, drops, overlimits, queue, statVars,
                         pkg_number, departed>>
      BY <2>10 DEF ChangeP, ChangeErrors, ChangeWindows
    <3> QED BY <3>1 DEF Uncounted
  <2>11. CASE \/ RbfgradDumpRead \/ RbfgradDumpStore \/ StoreP \/ StoreP1
              \/ UNCHANGED vars
    <3>1. UNCHANGED <<live, qlen, drops, overlimits, queue, statVars,
                      pkg_number, op, departed>>
      BY <2>11 DEF RbfgradDumpRead, RbfgradDumpStore, StoreP, StoreP1, vars
    <3> QED BY <3>1 DEF Uncounted
  <2>12. CASE RbfgradDestroy
    <3>1. op' = "none" /\ live' = FALSE /\ UNCHANGED <<drops, overlimits>>
      BY <2>12 DEF RbfgradDestroy, RootLockFree
    <3>2. qlen' = Len(queue')
      BY <2>12, PurgeType DEF RbfgradDestroy
    <3> QED BY <2>12, <3>1, <3>2 DEF RbfgradDestroy, Uncounted
  <2> QED BY <2>1, <2>2, <2>3, <2>4, <2>5, <2>6, <2>8, <2>9, <2>10,
             <2>11, <2>12 DEF Next, DataPath, Control
<1> QED BY <1>1, <1>2, TypeCorrect, PTL DEF Spec

(* Every packet handed to rbfgrad_enqueue since init is accounted for       *)
(* exactly once, and q.qlen is the length of the child's queue.             *)
THEOREM AccountsCorrect == Spec => [](QlenMatchesChild /\ PacketsConserved)
BY AccountsInvariant, PTL DEF AccountInv

(* The totals tc prints agree with the extended statistics beside them, on  *)
(* every path through enqueue and drop.                                     *)
THEOREM TotalsCorrect == Spec => []CountersAgree
BY AccountsInvariant, PTL DEF AccountInv

-----------------------------------------------------------------------------
(* Refinement.  A packet in hand counts where the child has put it, so the  *)
(* child's half of an operation is the step of the lossy queue and the      *)
(* parent's half leaves it alone.  The swap of a child, which subtracts the *)
(* old child's length from q.qlen, is a purge because q.qlen is that length.*)

(* The rest of an enqueue accepts a packet, loses one, or hands it over to  *)
(* the child without any trace.                                             *)
LEMMA EnqueueTailRefines ==
    ASSUME TypeOK, RbfgradEnqueueTail
    PROVE  [LQ!Step]_LQ!lqVars
<1> USE DEF LQ!Step, LQ!lqVars, Uncounted, Judged
<1>1. qlen' = qlen /\ qlen \in Int /\ drops \in Nat /\ op \in Judged
  BY DEF RbfgradEnqueueTail, TypeOK
<1>2. CASE CongestionDrop
  BY <1>1, <1>2 DEF CongestionDrop, LQ!Lose
<1>3. CASE Forward
  <2>1. CASE \E len \in Lens : QueuePacket(len)
    BY <1>1, <2>1 DEF QueuePacket, LQ!Accept
  <2>2. CASE \E len \in Lens : RefusePacket(len)
    BY <1>1, <2>2 DEF RefusePacket, LQ!Lose
  <2>3. CASE StealPacket
    BY <1>1, <2>3 DEF StealPacket
  <2> QED BY <1>3, <2>1, <2>2, <2>3 DEF Forward
<1> QED BY <1>2, <1>3 DEF RbfgradEnqueueTail

(* For every instance the qdisc is a queue that loses packets: what leaves  *)
(* is what enqueue accepted, once and unaltered, q.qlen is what is left of  *)
(* it through every swap of the child, and qstats.drops counts a loss once. *)
THEOREM RefinesLossyQueue == Spec => ImplementsLossyQueue
<1>1. Init => LQ!Empty
  <2> SUFFICES ASSUME Init PROVE LQ!Empty
    OBVIOUS
  <2>1. queue = <<>> /\ qlen = 0 /\ drops = 0 /\ op = "none"
    BY DEF Init
  <2>2. Uncounted = 0
    BY <2>1 DEF Uncounted
  <2> QED BY <2>1, <2>2 DEF LQ!Empty
<1>2. TypeOK /\ AccountInv /\ [Next]_vars => [LQ!Step]_LQ!lqVars
  <2> SUFFICES ASSUME TypeOK, AccountInv, [Next]_vars
               PROVE  [LQ!Step]_LQ!lqVars
    OBVIOUS
  <2>0. /\ op = "none" => qlen = Len(queue)
        /\ qlen \in Int /\ drops \in Nat /\ Len(queue) \in Nat
    BY StageFacts DEF TypeOK, AccountInv, QlenMatchesChild
  <2> USE DEF schVars, childVars, opVars, LQ!Step, LQ!lqVars, Uncounted, Judged,
              Changing
  <2>1. CASE RbfgradEnqueue
    <3>1. op' \in Judged /\ op = "none"
      BY <2>1 DEF RbfgradEnqueue, RbfgradAction, RootLockFree
    <3> QED BY <2>1, <3>1 DEF RbfgradEnqueue
  <2>2. CASE RbfgradEnqueueTail
    BY <2>2, EnqueueTailRefines
  <2>3. CASE RbfgradDequeue
    <3>1. PICK i \in 1..Len(queue) : TakePacket(i, "taken")
      BY <2>3 DEF RbfgradDequeue
    <3>2. /\ op = "none" /\ op' = "taken" /\ qlen' = qlen /\ drops' = drops
          /\ queue' = RemoveAt(queue, i)
      BY <2>3, <3>1 DEF RbfgradDequeue, RootLockFree, TakePacket
    <3>3. Uncounted = 0 /\ Uncounted' = 1
      BY <3>2
    <3> HIDE DEF Uncounted
    <3>4. qlen' - Uncounted' = qlen - Uncounted - 1
      BY <2>0, <3>2, <3>3
    <3>5. queue' = LQ!RemoveAt(queue, i)
      BY <3>2 DEF RemoveAt, LQ!RemoveAt
    <3>6. LQ!Leave
      BY <3>4, <3>5, Zenon DEF LQ!Leave
    <3>7. drops' + (IF op' = "dropped" THEN 1 ELSE 0)
          = drops + (IF op = "dropped" THEN 1 ELSE 0)
      BY <2>0, <3>2
    <3> QED BY <3>6, <3>7 DEF LQ!Give
  <2>4. CASE RbfgradDrop
    <3>1. PICK i \in 1..Len(queue) : TakePacket(i, "dropped")
      BY <2>4 DEF RbfgradDrop
    <3>2. /\ op = "none" /\ op' = "dropped" /\ qlen' = qlen /\ drops' = drops
          /\ queue' = RemoveAt(queue, i)
      BY <2>4, <3>1 DEF RbfgradDrop, RootLockFree, TakePacket
    <3>3. Uncounted = 0 /\ Uncounted' = 1
      BY <3>2
    <3> HIDE DEF Uncounted
    <3>4. qlen' - Uncounted' = qlen - Uncounted - 1
      BY <2>0, <3>2, <3>3
    <3>5. queue' = LQ!RemoveAt(queue, i)
      BY <3>2 DEF RemoveAt, LQ!RemoveAt
    <3>6. LQ!Leave
      BY <3>4, <3>5, Zenon DEF LQ!Leave
    <3>7. drops' + (IF op' = "dropped" THEN 1 ELSE 0)
          = drops + (IF op = "dropped" THEN 1 ELSE 0) + 1
      BY <2>0, <3>2
    <3> QED BY <3>6, <3>7 DEF LQ!Drop
  <2>5. CASE CountQueued \/ CountTaken \/ CountDropped
    BY <2>0, <2>5 DEF CountQueued, CountTaken, CountDropped
  <2>6. CASE RbfgradReset \/ RbfgradDestroy
    BY <2>6 DEF RbfgradReset, RbfgradDestroy, PurgeChild, RootLockFree, LQ!Purge
  <2>7. CASE \E c \in Configs : RbfgradInit(c)
    <3>1. op = "none"
      BY <2>7 DEF RbfgradInit, AccountInv, IdleWhenFreed
    <3>2. op' = "none" /\ queue' = <<>> /\ qlen' = 0 /\ drops' = 0
      BY <2>7, <3>1 DEF RbfgradInit
    <3>3. Uncounted' = 0
      BY <3>2
    <3> HIDE DEF Uncounted
    <3>4. qlen' - Uncounted' = 0
      BY <3>2, <3>3
    <3>5. drops' + (IF op' = "dropped" THEN 1 ELSE 0) = 0
      BY <3>2
    <3>6. LQ!Renew
      BY <3>2, <3>4, <3>5, Zenon DEF LQ!Renew
    <3> QED BY <3>6
  <2>8. ASSUME NEW n, ReplaceChild(n), RootLockFree,
               op' \in {"none", "set_p_k"}, UNCHANGED drops
        PROVE  LQ!Purge
    BY <2>0, <2>8 DEF ReplaceChild, PurgeChild, RootLockFree, LQ!Purge
  <2>9. CASE \E c \in Configs : RbfgradChange(c)
    BY <2>8, <2>9 DEF RbfgradChange, RootLockFree
  <2>10. CASE \E n \in Children : RbfgradGraft(n)
    BY <2>8, <2>10 DEF RbfgradGraft, RootLockFree
  <2>11. CASE ChangeP \/ ChangeErrors \/ ChangeWindows
    BY <2>11 DEF ChangeP, ChangeErrors, ChangeWindows
  <2>12. CASE \/ RbfgradDumpRead \/ RbfgradDumpStore \/ StoreP \/ StoreP1
              \/ UNCHANGED vars
    BY <2>12 DEF RbfgradDumpRead, RbfgradDumpStore, StoreP, StoreP1, vars
  <2> QED BY <2>1, <2>2, <2>3, <2>4, <2>5, <2>6, <2>7, <2>9, <2>10, <2>11, <2>12
          DEF Next, DataPath, Control
<1> QED BY <1>1, <1>2, TypeCorrect, AccountsInvariant, PTL
        DEF Spec, ImplementsLossyQueue, LQ!Spec

-----------------------------------------------------------------------------
(* Sampling.  e_k is what the record before array_element was taken from,   *)
(* which is why the next record continues the chain.  A change has cleared  *)
(* the errors when it comes to the windows.                                 *)
ErrorsCleared == op = "set_windows" => e_k = 0 /\ e_k_1 = 0 /\ e_k_2 = 0

SampleInv ==
    /\ IdleWhenFreed /\ ErrorsCleared
    /\ ErrorsMatchWindow /\ LogErrorLag /\ LogHeadCurrent

(* A sample shifts the errors and the window together.                      *)
LEMMA ShiftKeepsErrors ==
    ASSUME TypeOK, UpdateHistory, cfg' = cfg,
           ErrorAt(e_k, 0), ErrorAt(e_k_1, 1)
    PROVE  ErrorAt(e_k, 0)' /\ ErrorAt(e_k_1, 1)' /\ ErrorAt(e_k_2, 2)'
<1>1. \A i \in Window : queue_len'[i] = IF i = 0 THEN qlen ELSE queue_len[i-1]
  BY DEF UpdateHistory, Shift
<1>2. 0 \in Window /\ 1 \in Window /\ 2 \in Window
  BY SamAssumption DEF Window
<1>3. ErrorAt(e_k, 0)'
  BY <1>1, <1>2 DEF ErrorAt, UpdateHistory
<1>4. ASSUME NEW e \in Int, NEW i \in {0, 1}, ErrorAt(e, i)
      PROVE  \/ e = queue_len'[i+1] - cfg.q_ref
             \/ e = 0 /\ \A j \in Window : j >= i+1 => queue_len'[j] = 0
  <2>1. queue_len'[i+1] = queue_len[i]
    BY <1>1, <1>2
  <2>2. ASSUME \A j \in Window : j >= i => queue_len[j] = 0
        PROVE  \A j \in Window : j >= i+1 => queue_len'[j] = 0
    <3> TAKE j \in Window
    <3> HAVE j >= i+1
    <3>1. j # 0 /\ j-1 \in Window /\ j-1 >= i
      BY SamAssumption DEF Window
    <3> QED BY <1>1, <2>2, <3>1
  <2> QED BY <1>4, <2>1, <2>2 DEF ErrorAt
<1>5. ErrorAt(e_k_1, 1)'
  <2>1. e_k \in Int
    BY DEF TypeOK
  <2>2. \/ e_k = queue_len'[0+1] - cfg.q_ref
        \/ e_k = 0 /\ \A j \in Window : j >= 0+1 => queue_len'[j] = 0
    BY <1>4, <2>1
  <2> QED BY <2>2 DEF ErrorAt, UpdateHistory
<1>6. ErrorAt(e_k_2, 2)'
  <2>1. e_k_1 \in Int
    BY DEF TypeOK
  <2>2. \/ e_k_1 = queue_len'[1+1] - cfg.q_ref
        \/ e_k_1 = 0 /\ \A j \in Window : j >= 1+1 => queue_len'[j] = 0
    BY <1>4, <2>1
  <2> QED BY <2>2 DEF ErrorAt, UpdateHistory
<1> QED BY <1>3, <1>5, <1>6

(* A sample extends the chain of records by one, or overwrites the last     *)
(* slot, which is outside it.                                               *)
LEMMA WriteKeepsLog ==
    ASSUME TypeOK, live, op \notin Changing, LogErrorLag, LogHeadCurrent, WriteLog,
           UpdateHistory, UNCHANGED <<live, cfg>>
    PROVE  LogErrorLag' /\ LogHeadCurrent'
<1> DEFINE a == array_element
<1>1. a \in Slots /\ rec \in [Slots -> RecType] /\ e_k \in Int /\ qlen \in Int
      /\ cfg.q_ref \in Int
  BY DEF TypeOK, CfgType
<1>2. rec'[a] = [length |-> qlen, e_k |-> e_k]
      /\ \A i \in Slots : i # a => rec'[i] = rec[i]
  BY <1>1 DEF WriteLog
<1>3. LogErrorLag'
  <2> SUFFICES ASSUME NEW i \in Slots, i + 1 < array_element'
               PROVE  rec'[i+1].e_k = rec'[i].length - cfg.q_ref
    BY DEF LogErrorLag
  <2>1. i + 1 \in Slots /\ i # a /\ i + 1 <= a
    BY <1>1, ShowAssumption DEF WriteLog, NextElement, Slots
  <2>2. CASE i + 1 = a
    <3>1. a \in 1..QUEUE_SHOW_MAX-2
      BY <1>1, <2>2, ShowAssumption DEF WriteLog, NextElement, Slots
    <3>2. rec[i].length - cfg.q_ref = e_k
      BY <1>1, <2>1, <2>2, <3>1 DEF LogHeadCurrent, Slots
    <3> QED BY <1>2, <2>1, <2>2, <3>2
  <2>3. CASE i + 1 < a
    BY <1>1, <1>2, <2>1, <2>3 DEF LogErrorLag, Slots
  <2> QED BY <1>1, <2>1, <2>2, <2>3 DEF Slots
<1>4. LogHeadCurrent'
  <2> SUFFICES ASSUME array_element' \in 1..QUEUE_SHOW_MAX-2
               PROVE  rec'[array_element' - 1].length - cfg.q_ref = e_k'
    BY DEF LogHeadCurrent
  <2>1. array_element' = a + 1
    BY <1>1, ShowAssumption DEF WriteLog, NextElement, Slots
  <2>2. array_element' - 1 = a
    BY <1>1, <2>1 DEF Slots
  <2> QED BY <1>2, <2>2 DEF UpdateHistory
<1> QED BY <1>3, <1>4

(* Errors, window and log stay in step, whatever the interleaving of        *)
(* samples, resets, changes and controller stores.                          *)
THEOREM SamplesInvariant == Spec => []SampleInv
<1>1. Init => SampleInv
  BY DEF Init, SampleInv, IdleWhenFreed, ErrorsCleared, ErrorsMatchWindow,
         LogErrorLag, LogHeadCurrent
<1>2. TypeOK /\ SampleInv /\ [Next]_vars => SampleInv'
  <2> SUFFICES ASSUME TypeOK, SampleInv, [Next]_vars PROVE SampleInv'
    OBVIOUS
  <2>1. CASE RbfgradEnqueueTail
    <3>0. op' \in {"none", "queued"}
      BY <2>1 DEF RbfgradEnqueueTail, CongestionDrop, Forward, QueuePacket,
         RefusePacket, StealPacket
    <3>1. /\ live /\ op \notin Changing /\ UNCHANGED <<live, cfg>> /\ Sample
          /\ op' \notin Changing /\ ErrorsCleared' /\ IdleWhenFreed'
      BY <2>1, <3>0 DEF RbfgradEnqueueTail, SampleInv, IdleWhenFreed,
         ErrorsCleared, Judged, Changing
    <3>2. CASE cyc_count + 1 = CYC_MAX
      <4>1. WriteLog /\ UpdateHistory
        BY <3>1, <3>2 DEF Sample
      <4>2. ErrorsMatchWindow'
        BY <3>1, <4>1, ShiftKeepsErrors DEF SampleInv, ErrorsMatchWindow
      <4>3. LogErrorLag' /\ LogHeadCurrent'
        BY <3>1, <4>1, WriteKeepsLog DEF SampleInv
      <4> QED BY <3>1, <4>2, <4>3 DEF SampleInv
    <3>3. CASE cyc_count + 1 # CYC_MAX
      <4>1. UNCHANGED <<rec, array_element, histVars>>
        BY <3>1, <3>3 DEF Sample
      <4>2. ErrorsMatchWindow' /\ LogErrorLag' /\ LogHeadCurrent'
        BY <3>1, <4>1 DEF histVars, SampleInv, ErrorsMatchWindow, ErrorAt,
           LogErrorLag, LogHeadCurrent
      <4> QED BY <3>1, <4>2 DEF SampleInv
    <3> QED BY <3>2, <3>3
  <2>2. ASSUME e_k' = 0, e_k_1' = 0, e_k_2' = 0,
               queue_len' = [i \in Window |-> 0], array_element' = 0
        PROVE  ErrorsMatchWindow' /\ LogErrorLag' /\ LogHeadCurrent'
    <3>1. ErrorAt(e_k, 0)' /\ ErrorAt(e_k_1, 1)' /\ ErrorAt(e_k_2, 2)'
      BY <2>2 DEF ErrorAt
    <3>2. \A i \in Slots : ~(i + 1 < array_element')
      BY <2>2, ShowAssumption DEF Slots
    <3> QED BY <2>2, <3>1, <3>2 DEF ErrorsMatchWindow, LogErrorLag, LogHeadCurrent
  <2>3. CASE \E c \in Configs : RbfgradInit(c)
    BY <2>2, <2>3 DEF RbfgradInit, SetErrors, SetWindows, opVars, SampleInv,
       IdleWhenFreed, ErrorsCleared
  <2>4. CASE \/ \E c \in Configs : RbfgradChange(c)
             \/ ChangeP \/ ChangeErrors
    <3>1. /\ op' \in Changing /\ live' = live
          /\ live \/ op # "none"
          /\ op' = "set_windows" => e_k' = 0 /\ e_k_1' = 0 /\ e_k_2' = 0
      BY <2>4 DEF RbfgradChange, RootLockFree, ChangeP, ChangeErrors, SetErrors,
         Changing
    <3>2. IdleWhenFreed'
      BY <3>1 DEF SampleInv, IdleWhenFreed
    <3>3. ErrorsCleared'
      BY <3>1 DEF ErrorsCleared
    <3> QED BY <3>1, <3>2, <3>3 DEF SampleInv, ErrorsMatchWindow, LogErrorLag,
            LogHeadCurrent
  <2>5. CASE ChangeWindows
    <3>1. /\ e_k' = 0 /\ e_k_1' = 0 /\ e_k_2' = 0
          /\ queue_len' = [i \in Window |-> 0] /\ array_element' = 0 /\ op' = "none"
      BY <2>5 DEF ChangeWindows, SetWindows, SampleInv, ErrorsCleared
    <3> QED BY <2>2, <3>1 DEF SampleInv, IdleWhenFreed, ErrorsCleared
  <2>6. CASE RbfgradReset \/ RbfgradDestroy
    <3>1. /\ array_element' = 0 /\ op = "none" /\ op' = op /\ live
          /\ UNCHANGED <<cfg, histVars>>
      BY <2>6 DEF RbfgradReset, RbfgradDestroy, RootLockFree, parmVars, opVars
    <3>2. \A i \in Slots : ~(i + 1 < array_element')
      BY <3>1, ShowAssumption DEF Slots
    <3>3. LogErrorLag' /\ LogHeadCurrent'
      BY <3>1, <3>2 DEF LogErrorLag, LogHeadCurrent
    <3>4. ErrorsMatchWindow'
      BY <3>1 DEF SampleInv, ErrorsMatchWindow, ErrorAt, histVars, Changing
    <3> QED BY <3>1, <3>3, <3>4 DEF SampleInv, IdleWhenFreed, ErrorsCleared
  <2>7. CASE \/ RbfgradEnqueue \/ RbfgradDequeue \/ RbfgradDrop
             \/ CountQueued \/ CountTaken \/ CountDropped
             \/ \E n \in Children : RbfgradGraft(n)
             \/ RbfgradDumpRead \/ RbfgradDumpStore \/ StoreP \/ StoreP1
             \/ UNCHANGED vars
    <3>1. /\ UNCHANGED <<live, cfg, histVars, rec, array_element>>
          /\ \/ op' = op
             \/ live /\ op \notin Changing /\ op' \notin Changing
             \/ op' = "none" /\ op \in HalfWay
      BY <2>7 DEF RbfgradEnqueue, RbfgradAction, RbfgradDequeue, RbfgradDrop,
         TakePacket, CountQueued, CountTaken, CountDropped, RbfgradGraft,
         RbfgradDumpRead, RbfgradDumpStore, StoreP, StoreP1, vars, parmVars,
         logVars, opVars, RootLockFree, Changing, HalfWay
    <3>2. op' \in Changing => op' = op
      BY <3>1 DEF Changing
    <3>3. op \in Changing => op' = op
      BY <3>1 DEF Changing, HalfWay
    <3> QED BY <3>1, <3>2, <3>3 DEF histVars, SampleInv, IdleWhenFreed, ErrorsCleared,
            ErrorsMatchWindow, ErrorAt, LogErrorLag, LogHeadCurrent, Changing
  <2> QED BY <2>1, <2>3, <2>4, <2>5, <2>6, <2>7 DEF Next, DataPath, Control
<1> QED BY <1>1, <1>2, TypeCorrect, PTL DEF Spec

(* The errors the controller reads are those of the youngest samples of its *)
(* window.                                                                  *)
THEOREM SamplesCorrect == Spec => []ErrorsMatchWindow
BY SamplesInvariant, PTL DEF SampleInv

(* The log is one unbroken chain of samples taken under one configuration.  *)
THEOREM LogCorrect == Spec => []LogErrorLag
BY SamplesInvariant, PTL DEF SampleInv
=============================================================================
