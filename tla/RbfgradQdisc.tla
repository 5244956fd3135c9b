---------------------------- MODULE RbfgradQdisc ----------------------------
(***************************************************************************)
(* The rbfgrad queueing discipline of modules/sch_rbfgrad.c: what the       *)
(* kernel calls on it (enqueue, dequeue, drop, reset, init, change, graft,  *)
(* dump, destroy) and the two doubles the controller thread stores into it. *)
(*                                                                         *)
(* Locks.  enqueue, dequeue, drop, reset, change and graft hold the root    *)
(* lock of the qdisc; init, change, graft, reset, dump and destroy hold     *)
(* RTNL.  dump takes no root lock and the controller thread takes no lock   *)
(* at all, so an operation is cut into steps where those two can tell: the  *)
(* child's part of a packet operation from the parent's, and the stores of  *)
(* rbfgrad_set_parms.                                                       *)
(*                                                                         *)
(* Probabilities are integers in units of 1/RAND_MAX: certainty is          *)
(* RAND_MAX, and RAND_MAX is the largest int, as in rbfgrad.h.              *)
(***************************************************************************)
EXTENDS Integers, Sequences, SequencesExt

CONSTANTS
    CYC_MAX,         \* packets between two samples of the queue length
    QUEUE_SHOW_MAX,  \* slots of queue_show_base_rbfgrad
    SAM_NUM,         \* samples the controller looks back on
    RAND_MAX,        \* largest int
    Configs,         \* the option sets user space may send
    Children,        \* the qdiscs user space may graft, as [kind, limit]
    Lens,            \* packet lengths in bytes
    Probs,           \* values the controller may store into p_k and p_k_1
    Dumps,           \* whether user space asks for dumps
    MaxPkts          \* bound: packets offered after one init

CfgType == [limit : Nat, ecn : BOOLEAN, q_ref : Int,
            p_init : Int, p_min : Int, p_max : Int,
            kp : Int, ki : Int, kd : Int]

ChildType == [kind : {"noop", "bfifo", "prio"}, limit : Nat]

ASSUME CycAssumption   == CYC_MAX \in Nat \ {0}
ASSUME ShowAssumption  == QUEUE_SHOW_MAX \in Nat \ {0}
ASSUME SamAssumption   == SAM_NUM \in Nat /\ SAM_NUM >= 3
ASSUME RandAssumption  == RAND_MAX \in Nat
ASSUME CfgAssumption   == Configs \subseteq CfgType
ASSUME ChildAssumption == Children \subseteq ChildType
ASSUME LensAssumption  == Lens \subseteq Nat \ {0}
ASSUME ProbsAssumption == Probs \subseteq Int
ASSUME DumpsAssumption == Dumps \in BOOLEAN
ASSUME BoundAssumption == MaxPkts \in Nat

VARIABLES
    live,        \* the qdisc is installed
    cfg,         \* q->flags, q->limit and the settable part of q->parms
    \* struct Qdisc
    qlen, backlog, drops, overlimits,
    \* q->qdisc: what it is, the lengths of the packets it holds, its backlog
    child, queue, child_backlog,
    \* q->stats
    prob_drop, prob_mark, pdrop, other,
    \* q->parms: the variables enqueue reads or writes
    p_k, p_k_1, e_k, e_k_1, e_k_2, proba, queue_len,
    \* module globals: the sampling log, and the packets offered since init
    cyc_count, array_element, rec, pkg_number,
    op,          \* how far the holder of the root lock has come
    op_len,      \* the packet that is in the child's count or in the parent's
    dumping,     \* a dump is in progress ...
    dump_val,    \* ... and has read this backlog of the child
    departed,    \* history: packets dequeued, purged or consumed by the child
    disturbed    \* history: a swapped child or a dump has spoilt backlog

schVars   == <<qlen, backlog, drops, overlimits>>
childVars == <<child, queue, child_backlog>>
statVars  == <<prob_drop, prob_mark, pdrop, other>>
histVars  == <<e_k, e_k_1, e_k_2, proba, queue_len>>
parmVars  == <<p_k, p_k_1, histVars>>
opVars    == <<op, op_len>>
dumpVars  == <<dumping, dump_val>>
logVars   == <<cyc_count, array_element, rec>>

vars == <<live, cfg, schVars, childVars, statVars, parmVars, logVars,
          pkg_number, opVars, dumpVars, departed, disturbed>>

Window == 0..SAM_NUM-1
Slots  == 0..QUEUE_SHOW_MAX-1

(* The fields of struct queue_show that tie one record to the next.         *)
RecType == [length : Int, e_k : Int]

ZeroCfg == [limit |-> 0, ecn |-> FALSE, q_ref |-> 0,
            p_init |-> 0, p_min |-> 0, p_max |-> 0,
            kp |-> 0, ki |-> 0, kd |-> 0]

NoopQdisc == [kind |-> "noop", limit |-> 0]
Bfifo(limit) == [kind |-> "bfifo", limit |-> limit]

Init ==
    /\ live = FALSE
    /\ cfg = ZeroCfg
    /\ qlen = 0 /\ backlog = 0 /\ drops = 0 /\ overlimits = 0
    /\ child = NoopQdisc /\ queue = <<>> /\ child_backlog = 0
    /\ prob_drop = 0 /\ prob_mark = 0 /\ pdrop = 0 /\ other = 0
    /\ p_k = 0 /\ p_k_1 = 0
    /\ e_k = 0 /\ e_k_1 = 0 /\ e_k_2 = 0
    /\ proba = [i \in Window |-> 0]
    /\ queue_len = [i \in Window |-> 0]
    /\ cyc_count = 0 /\ array_element = 0
    /\ rec = [i \in Slots |-> [length |-> 0, e_k |-> 0]]
    /\ pkg_number = 0
    /\ op = "none" /\ op_len = 0
    /\ dumping = FALSE /\ dump_val = 0
    /\ departed = 0 /\ disturbed = FALSE

(* Where an operation under the root lock can be: past the decision on a    *)
(* packet, between the child and the counters of the parent, or in          *)
(* rbfgrad_set_parms.                                                       *)
Judged   == {"prob_mark", "dont_mark"}
HalfWay  == {"queued", "taken", "dropped"}
Changing == {"set_p_k", "set_errors", "set_windows"}

RootLockFree == live /\ op = "none"
RtnlFree     == ~dumping /\ op \notin Changing

-----------------------------------------------------------------------------
(* The marking decision, rbfgrad_cmp_prob and rbfgrad_action.               *)

INT_MIN == -RAND_MAX - 1

(* abs(net_random()): abs() of the smallest int is the smallest int.        *)
Randoms == (0..RAND_MAX) \cup {INT_MIN}

(* (int)(p_k * RAND_MAX): a product no int can hold converts to INT_MIN.    *)
CurrentP(p) == IF p \in INT_MIN..RAND_MAX THEN p ELSE INT_MIN

RbfgradAction(r, p) == IF r < CurrentP(p) THEN "prob_mark" ELSE "dont_mark"

(* rbfgrad_enqueue up to the decision: p_k is read here ...                 *)
RbfgradEnqueue ==
    /\ RootLockFree
    /\ pkg_number < MaxPkts
    /\ pkg_number' = pkg_number + 1
    /\ \E r \in Randoms : op' = RbfgradAction(r, p_k)
    /\ UNCHANGED <<live, cfg, schVars, childVars, statVars, parmVars, logVars,
                   op_len, dumpVars, departed, disturbed>>

-----------------------------------------------------------------------------
(* ... and the rest of rbfgrad_enqueue.  Every CYC_MAX packets the state of *)
(* the queue before this packet is logged, and the window shifts.           *)

Shift(w, x) == [i \in Window |-> IF i = 0 THEN x ELSE w[i-1]]

(* Mutant: the newest error is shifted in before the older ones.            *)
UpdateHistory_ErrorFirst ==
    /\ proba'     = Shift(proba, p_k_1)
    /\ queue_len' = Shift(queue_len, qlen)
    /\ e_k_2' = e_k_1
    /\ e_k'   = qlen - cfg.q_ref
    /\ e_k_1' = e_k'

UpdateHistory ==
    /\ proba'     = Shift(proba, p_k_1)
    /\ queue_len' = Shift(queue_len, qlen)
    /\ e_k_2' = e_k_1
    /\ e_k_1' = e_k
    /\ e_k'   = qlen - cfg.q_ref

(* Mutant: the log index is not kept inside the array.                      *)
NextElement_NoCap(a) == a + 1

NextElement(a) == IF a < QUEUE_SHOW_MAX - 1 THEN a + 1 ELSE a

(* Mutant: the error of this sample is logged, not the one before.          *)
WriteLog_NewError ==
    /\ rec' = [rec EXCEPT ![array_element] =
                 [length |-> qlen, e_k |-> qlen - cfg.q_ref]]
    /\ array_element' = NextElement(array_element)

WriteLog ==
    /\ rec' = [rec EXCEPT ![array_element] = [length |-> qlen, e_k |-> e_k]]
    /\ array_element' = NextElement(array_element)

Sample ==
    IF cyc_count + 1 = CYC_MAX
    THEN WriteLog /\ UpdateHistory /\ cyc_count' = 0
    ELSE cyc_count' = cyc_count + 1 /\ UNCHANGED <<rec, array_element, histVars>>

(* Mutant: the packet is freed without counting it in qstats.               *)
CongestionDrop_Uncounted ==
    /\ op = "prob_mark"
    /\ \E ce \in BOOLEAN : ~cfg.ecn \/ ~ce
    /\ op' = "none"
    /\ overlimits' = overlimits + 1
    /\ prob_drop' = prob_drop + 1
    /\ UNCHANGED <<drops, queue, child_backlog, prob_mark, pdrop, op_len,
                   departed>>

(* The packet is dropped early: not ECN mode, or the packet refuses CE.     *)
CongestionDrop ==
    /\ op = "prob_mark"
    /\ \E ce \in BOOLEAN : ~cfg.ecn \/ ~ce
    /\ op' = "none"
    /\ overlimits' = overlimits + 1
    /\ prob_drop' = prob_drop + 1
    /\ drops' = drops + 1
    /\ UNCHANGED <<queue, child_backlog, prob_mark, pdrop, op_len, departed>>

(* The packet goes on to the child: unmarked, or with CE set.               *)
MarkOrPass ==
    \/ /\ op = "dont_mark"
       /\ UNCHANGED <<overlimits, prob_mark>>
    \/ /\ op = "prob_mark" /\ cfg.ecn
       /\ overlimits' = overlimits + 1
       /\ prob_mark' = prob_mark + 1

(* bfifo accepts while the bytes fit, noop refuses, and a classful child    *)
(* with filters may accept, refuse or keep a packet for itself.             *)
ChildAccepts(len) ==
    \/ child.kind = "prio"
    \/ child.kind = "bfifo" /\ child_backlog + len <= child.limit
ChildRefuses(len) == child.kind = "prio" \/ ~ChildAccepts(len)
ChildSteals == child.kind = "prio"

(* bfifo gives its first packet and drops its last; a classful child gives  *)
(* or drops the one its bands say.                                          *)
ChildGives(i) == i \in 1..Len(queue) /\ (child.kind = "prio" \/ i = 1)
ChildDrops(i) == i \in 1..Len(queue) /\ (child.kind = "prio" \/ i = Len(queue))

(* Only bfifo keeps a qstats.backlog of its own.                            *)
ChildBytes(len) == IF child.kind = "bfifo" THEN len ELSE 0

(* NET_XMIT_SUCCESS: the child has the packet, the parent not yet.          *)
QueuePacket(len) ==
    /\ ChildAccepts(len)
    /\ queue' = Append(queue, len)
    /\ child_backlog' = child_backlog + ChildBytes(len)
    /\ op' = "queued" /\ op_len' = len
    /\ UNCHANGED <<drops, pdrop, departed>>

(* Mutant: a refused packet is not counted as a pdrop.                      *)
RefusePacket_NoPdrop(len) ==
    /\ ChildRefuses(len)
    /\ op' = "none"
    /\ drops' = drops + 1
    /\ UNCHANGED <<queue, child_backlog, pdrop, op_len, departed>>

(* a return value that net_xmit_drop_count counts *)
RefusePacket(len) ==
    /\ ChildRefuses(len)
    /\ op' = "none"
    /\ pdrop' = pdrop + 1
    /\ drops' = drops + 1
    /\ UNCHANGED <<queue, child_backlog, op_len, departed>>

(* __NET_XMIT_STOLEN *)
StealPacket ==
    /\ ChildSteals
    /\ op' = "none"
    /\ departed' = departed + 1
    /\ UNCHANGED <<queue, child_backlog, drops, pdrop, op_len>>

Forward ==
    /\ MarkOrPass
    /\ \/ \E len \in Lens : QueuePacket(len) \/ RefusePacket(len)
       \/ StealPacket
    /\ UNCHANGED prob_drop

RbfgradEnqueueTail ==
    /\ op \in Judged
    /\ Sample
    /\ CongestionDrop \/ Forward
    /\ UNCHANGED <<live, cfg, qlen, backlog, child, other, p_k, p_k_1,
                   pkg_number, dumpVars, disturbed>>

(* Mutant: the bytes of an accepted packet are not added.                   *)
CountQueued_NoBacklog ==
    /\ op = "queued"
    /\ qlen' = qlen + 1
    /\ op' = "none" /\ op_len' = 0
    /\ UNCHANGED <<live, cfg, backlog, drops, overlimits, childVars, statVars,
                   parmVars, logVars, pkg_number, dumpVars, departed, disturbed>>

CountQueued ==
    /\ op = "queued"
    /\ qlen' = qlen + 1
    /\ backlog' = backlog + op_len
    /\ op' = "none" /\ op_len' = 0
    /\ UNCHANGED <<live, cfg, drops, overlimits, childVars, statVars, parmVars,
                   logVars, pkg_number, dumpVars, departed, disturbed>>

-----------------------------------------------------------------------------
(* The child hands out its i-th packet, which is the caller's from here on. *)
TakePacket(i, stage) ==
    /\ queue' = RemoveAt(queue, i)
    /\ child_backlog' = child_backlog - ChildBytes(queue[i])
    /\ op' = stage /\ op_len' = queue[i]
    /\ UNCHANGED <<live, cfg, schVars, child, statVars, parmVars, logVars,
                   pkg_number, dumpVars, departed, disturbed>>

RbfgradDequeue ==
    /\ RootLockFree
    /\ \E i \in 1..Len(queue) : ChildGives(i) /\ TakePacket(i, "taken")

CountTaken ==
    /\ op = "taken"
    /\ backlog' = backlog - op_len
    /\ qlen' = qlen - 1
    /\ departed' = departed + 1
    /\ op' = "none" /\ op_len' = 0
    /\ UNCHANGED <<live, cfg, drops, overlimits, childVars, statVars, parmVars,
                   logVars, pkg_number, dumpVars, disturbed>>

RbfgradDrop ==
    /\ RootLockFree
    /\ \E i \in 1..Len(queue) : ChildDrops(i) /\ TakePacket(i, "dropped")

CountDropped ==
    /\ op = "dropped"
    /\ backlog' = backlog - op_len
    /\ other' = other + 1
    /\ drops' = drops + 1
    /\ qlen' = qlen - 1
    /\ op' = "none" /\ op_len' = 0
    /\ UNCHANGED <<live, cfg, overlimits, childVars, prob_drop, prob_mark, pdrop,
                   parmVars, logVars, pkg_number, dumpVars, departed, disturbed>>

(* The child's packets are freed.                                           *)
PurgeChild ==
    /\ queue' = <<>>
    /\ child_backlog' = 0
    /\ departed' = departed + Len(queue)

RbfgradReset ==
    /\ RootLockFree /\ RtnlFree
    /\ PurgeChild
    /\ backlog' = 0
    /\ qlen' = 0
    /\ array_element' = 0
    /\ disturbed' = FALSE
    /\ UNCHANGED <<live, cfg, drops, overlimits, child, statVars, parmVars,
                   cyc_count, rec, pkg_number, opVars, dumpVars>>

-----------------------------------------------------------------------------
(* rbfgrad_set_parms in the order of its stores; p_k_1 is not among them.   *)

SetErrors     == e_k' = 0 /\ e_k_1' = 0 /\ e_k_2' = 0
SetWindows(c) == /\ proba' = [i \in Window |-> c.p_init]
                 /\ queue_len' = [i \in Window |-> 0]

(* Mutant: the packets of the old child stay in the parent's length.        *)
ReplaceChild_KeepsLength(new) ==
    /\ child' = new
    /\ PurgeChild
    /\ UNCHANGED qlen
    /\ disturbed' = (disturbed \/ queue # <<>>)

(* A new child takes the place of the old one: qdisc_tree_decrease_qlen     *)
(* corrects the length of the parent, not its backlog.                      *)
ReplaceChild(new) ==
    /\ child' = new
    /\ PurgeChild
    /\ qlen' = qlen - Len(queue)
    /\ disturbed' = (disturbed \/ queue # <<>>)

(* rbfgrad_change once its arguments parse and the new child is allocated;  *)
(* every earlier return leaves the qdisc as it was.  Here: the lock, the    *)
(* child and the options, the limits of p_k among them ...                  *)
RbfgradChange(c) ==
    /\ RootLockFree /\ RtnlFree
    /\ cfg' = c
    /\ IF c.limit > 0 THEN ReplaceChild(Bfifo(c.limit))
                      ELSE UNCHANGED <<childVars, qlen, departed, disturbed>>
    /\ op' = "set_p_k"
    /\ UNCHANGED <<live, backlog, drops, overlimits, statVars, parmVars, logVars,
                   pkg_number, op_len, dumpVars>>

(* ... then p_k ...                                                         *)
ChangeP ==
    /\ op = "set_p_k"
    /\ p_k' = cfg.p_init
    /\ op' = "set_errors"
    /\ UNCHANGED <<live, cfg, schVars, childVars, statVars, p_k_1, histVars,
                   logVars, pkg_number, op_len, dumpVars, departed, disturbed>>

(* ... the errors ...                                                       *)
ChangeErrors ==
    /\ op = "set_errors"
    /\ SetErrors
    /\ op' = "set_windows"
    /\ UNCHANGED <<live, cfg, schVars, childVars, statVars, p_k, p_k_1, proba,
                   queue_len, logVars, pkg_number, op_len, dumpVars, departed,
                   disturbed>>

(* ... the windows, the log and the unlock.                                 *)
ChangeWindows ==
    /\ op = "set_windows"
    /\ SetWindows(cfg)
    /\ array_element' = 0
    /\ op' = "none"
    /\ UNCHANGED <<live, cfg, schVars, childVars, statVars, p_k, p_k_1, e_k,
                   e_k_1, e_k_2, cyc_count, rec, pkg_number, op_len, dumpVars,
                   departed, disturbed>>

RbfgradGraft(new) ==
    /\ RootLockFree /\ RtnlFree
    /\ ReplaceChild(new)
    /\ UNCHANGED <<live, cfg, backlog, drops, overlimits, statVars, parmVars,
                   logVars, pkg_number, opVars, dumpVars>>

(* rbfgrad_dump reads the child's backlog and stores it, without the root   *)
(* lock.                                                                    *)
RbfgradDumpRead ==
    /\ Dumps
    /\ live /\ RtnlFree
    /\ dumping' = TRUE
    /\ dump_val' = child_backlog
    /\ UNCHANGED <<live, cfg, schVars, childVars, statVars, parmVars, logVars,
                   pkg_number, opVars, departed, disturbed>>

(* The store spoils the count when it meets a packet operation half way,    *)
(* when the child's backlog has moved since it was read, or when the child  *)
(* keeps none; otherwise it makes the count exact.                          *)
RbfgradDumpStore ==
    /\ dumping
    /\ backlog' = dump_val
    /\ dumping' = FALSE
    /\ dump_val' = 0
    /\ disturbed' = \/ op \in HalfWay
                    \/ dump_val # child_backlog
                    \/ child.kind = "prio" /\ queue # <<>>
    /\ UNCHANGED <<live, cfg, qlen, drops, overlimits, childVars, statVars,
                   parmVars, logVars, pkg_number, opVars, departed>>

(* What rbfgrad_dump_stats reports; forced_drop and forced_mark are never   *)
(* written.                                                                 *)
Xstats == [early |-> prob_drop, pdrop |-> pdrop, other |-> other,
           marked |-> prob_mark]

-----------------------------------------------------------------------------
(* rbfgrad_init on zeroed private data, its change succeeding.              *)
RbfgradInit(c) ==
    /\ ~live /\ RtnlFree
    /\ live' = TRUE
    /\ cfg' = c
    /\ child' = IF c.limit > 0 THEN Bfifo(c.limit) ELSE NoopQdisc
    /\ queue' = <<>> /\ child_backlog' = 0
    /\ qlen' = 0 /\ backlog' = 0 /\ drops' = 0 /\ overlimits' = 0
    /\ prob_drop' = 0 /\ prob_mark' = 0 /\ pdrop' = 0 /\ other' = 0
    /\ p_k' = c.p_init /\ p_k_1' = 0 /\ SetErrors /\ SetWindows(c)
    /\ cyc_count' = 0 /\ array_element' = 0
    /\ pkg_number' = 0
    /\ departed' = 0 /\ disturbed' = FALSE
    /\ UNCHANGED <<rec, opVars, dumpVars>>

(* qdisc_destroy: rbfgrad_reset, then rbfgrad_destroy; the rest is freed    *)
(* memory.                                                                  *)
RbfgradDestroy ==
    /\ RootLockFree /\ RtnlFree
    /\ live' = FALSE
    /\ PurgeChild
    /\ backlog' = 0
    /\ qlen' = 0
    /\ array_element' = 0
    /\ disturbed' = FALSE
    /\ UNCHANGED <<cfg, drops, overlimits, child, statVars, parmVars,
                   cyc_count, rec, pkg_number, opVars, dumpVars>>

-----------------------------------------------------------------------------
(* The controller thread's stores, at any time and of any value; module     *)
(* RbfgradAqm says which.                                                   *)
StoreP ==
    /\ live
    /\ p_k' \in Probs
    /\ UNCHANGED <<live, cfg, schVars, childVars, statVars, p_k_1, histVars,
                   logVars, pkg_number, opVars, dumpVars, departed, disturbed>>

StoreP1 ==
    /\ live
    /\ p_k_1' \in Probs
    /\ UNCHANGED <<live, cfg, schVars, childVars, statVars, p_k, histVars,
                   logVars, pkg_number, opVars, dumpVars, departed, disturbed>>

DataPath == \/ RbfgradEnqueue \/ RbfgradEnqueueTail \/ CountQueued
            \/ RbfgradDequeue \/ CountTaken
            \/ RbfgradDrop \/ CountDropped

Control ==
    \/ RbfgradReset
    \/ \E c \in Configs : RbfgradInit(c) \/ RbfgradChange(c)
    \/ ChangeP \/ ChangeErrors \/ ChangeWindows
    \/ \E n \in Children : RbfgradGraft(n)
    \/ RbfgradDumpRead \/ RbfgradDumpStore
    \/ RbfgradDestroy

Next == DataPath \/ Control \/ StoreP \/ StoreP1

Spec == Init /\ [][Next]_vars

-----------------------------------------------------------------------------
(* Type correctness; the log index stays inside the log, whatever is       *)
(* sampled, reset and changed.                                             *)
TypeOK ==
    /\ live \in BOOLEAN
    /\ cfg \in CfgType
    /\ qlen \in Int /\ backlog \in Int
    /\ drops \in Nat /\ overlimits \in Nat
    /\ child \in ChildType
    /\ queue \in Seq(Lens)
    /\ child_backlog \in Int
    /\ prob_drop \in Nat /\ prob_mark \in Nat /\ pdrop \in Nat /\ other \in Nat
    /\ p_k \in Int /\ p_k_1 \in Int
    /\ e_k \in Int /\ e_k_1 \in Int /\ e_k_2 \in Int
    /\ proba \in [Window -> Int]
    /\ queue_len \in [Window -> Int]
    /\ cyc_count \in 0..CYC_MAX-1
    /\ array_element \in Slots
    /\ rec \in [Slots -> RecType]
    /\ pkg_number \in Nat
    /\ op \in {"none"} \cup Judged \cup HalfWay \cup Changing
    /\ op_len \in Nat
    /\ dumping \in BOOLEAN /\ dump_val \in Int
    /\ departed \in Nat /\ disturbed \in BOOLEAN

(* The packets the parent counts and the child no longer has, or the other  *)
(* way round.                                                               *)
Uncounted == IF op = "queued" THEN -1
             ELSE IF op \in {"taken", "dropped"} THEN 1 ELSE 0

(* sch->q.qlen, which every branch of the data path and every swap of the   *)
(* child adjusts on its own, is the number of packets the child holds, but  *)
(* for the one in the hands of an operation.                                *)
QlenMatchesChild == qlen = Len(queue) + Uncounted

(* Every packet offered since init is in exactly one place: still counted   *)
(* in q.qlen, gone, dropped early, refused by the child, dropped by drop(), *)
(* or the one being enqueued.                                               *)
PacketsConserved ==
    live => pkg_number = departed + qlen + Xstats.early + Xstats.pdrop
                         + Xstats.other
                         + (IF op \in Judged \cup {"queued"} THEN 1 ELSE 0)

(* The drops and overlimits tc shows are the sums of the extended           *)
(* statistics it shows beside them.                                         *)
CountersAgree ==
    /\ drops = Xstats.early + Xstats.pdrop + Xstats.other
    /\ overlimits = Xstats.early + Xstats.marked

(* qstats.backlog is the number of bytes the child holds, but for those in  *)
(* the hands of an operation, in whatever order packets, resets and dumps   *)
(* come.  What can make it wrong, and keep it wrong until a reset or a      *)
(* later dump, is named by disturbed: a child swapped with packets in it,   *)
(* and a dump whose unlocked store meets or overlaps a packet operation.    *)
BacklogExact ==
    live /\ ~disturbed => backlog = SumFunction(queue) + Uncounted * op_len

(* The three errors the controller reads belong to the three youngest       *)
(* queue lengths of its window, except in the middle of a change; after     *)
(* rbfgrad_set_parms both are zero until enough samples have been taken.    *)
ErrorAt(e, i) ==
    \/ e = queue_len[i] - cfg.q_ref
    \/ e = 0 /\ \A j \in Window : j >= i => queue_len[j] = 0

ErrorsMatchWindow ==
    live /\ op \notin Changing =>
      ErrorAt(e_k, 0) /\ ErrorAt(e_k_1, 1) /\ ErrorAt(e_k_2, 2)

(* In the part of the log that has been recorded since array_element was    *)
(* last zeroed, each record carries the error of the record before it: no   *)
(* sample is lost, duplicated or mixed with those of another configuration. *)
LogErrorLag ==
    live /\ op \notin Changing =>
            \A i \in Slots :
              i + 1 < array_element => rec[i+1].e_k = rec[i].length - cfg.q_ref

(* The youngest record is the one e_k was computed from, unless the log is  *)
(* full and its last slot is being overwritten; makes LogErrorLag           *)
(* inductive.                                                               *)
LogHeadCurrent ==
    live /\ op \notin Changing /\ array_element \in 1..QUEUE_SHOW_MAX-2 =>
      rec[array_element - 1].length - cfg.q_ref = e_k

-----------------------------------------------------------------------------
(* The packet in hand counts where the child has put it.                    *)
LQ == INSTANCE LossyQueue
        WITH Packets <- Lens, q <- queue, len <- qlen - Uncounted,
             lost <- drops + (IF op = "dropped" THEN 1 ELSE 0)

(* To the layers around it, and for all its early drops, marks, swapped     *)
(* children and unlocked stores, the qdisc is a queue that loses packets:   *)
(* what leaves is what enqueue accepted, once and unaltered (in which order *)
(* is the child's affair), q.qlen is what is left of it, and qstats.drops   *)
(* counts a loss once.                                                      *)
ImplementsLossyQueue == LQ!Spec
=============================================================================
