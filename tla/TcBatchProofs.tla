---------------------------- MODULE TcBatchProofs ----------------------------
(***************************************************************************)
(* What TLAPS proves of TcBatch for any set of interfaces and of names, any *)
(* option lists, and batches and mishaps without a bound.                   *)
(***************************************************************************)
EXTENDS TcBatch, FiniteSetTheorems, SequenceTheorems, WellFoundedInduction, TLAPS

------------------------------------------------------------------------------
(* The inductive invariant, in parts.                                       *)

(* The socket holds messages of requests that were sent, and a dump in      *)
(* progress belongs to one of them.                                         *)
SocketInv ==
  /\ rx \in Seq(Message)
  /\ kdump # NoDump => kdump.seq > 0 /\ kdump.of # "none"

TypeInv == TypeOK /\ SocketInv

(* Where a command is and what it has come to.                              *)
ControlInv ==
  /\ done \in BOOLEAN /\ undone \in BOOLEAN
  /\ pc \in {"links", "resolve", "talk", "list"} => verdict = "none"
  /\ pc \in {"links", "resolve", "talk"} => shown = <<>>
  /\ pc \in {"links", "resolve"} => cmd.op # "fatal" /\ ~Complains(cmd)
  /\ pc = "list" => cmd.op = "list"
  /\ pc = "talk" => cmd.op # "list"
  /\ verdict = "ok" => done
  /\ undone => ret = 1 \/ (pc = "talk" /\ ~done)

(* The answer to the last request that is in the queue, and how it ends.    *)
Ending(m) == Mine(m) /\ m.kind \in {"ack", "done"}

AckInv ==
  pc = "talk" =>
    /\ skerr \/ \E k \in DOMAIN rx : Mine(rx[k]) /\ rx[k].kind = "ack"
    /\ \A k \in DOMAIN rx : Mine(rx[k]) /\ rx[k].kind = "ack" => rx[k].err = ~done

EndInv ==
  pc \in {"links", "list"} =>
    /\ seq > 0
    /\ \/ skerr
       \/ \E k \in DOMAIN rx : Ending(rx[k])
       \/ kdump.seq = seq /\ \E k \in DOMAIN rx : Mine(rx[k])

(* A dump that is being read: refused, or all of it is accounted for and    *)
(* its end comes last.                                                      *)
Wanted == IF pc = "links" THEN "link" ELSE "row"
WantedOf == IF pc = "links" THEN "links" ELSE "rows"

Has(i) ==
  IF pc = "links" THEN links[i] # NoName
  ELSE filter \in {0, i} => \E a \in DOMAIN shown : shown[a].idx = i

InQueue(i) ==
  \E k \in DOMAIN rx : Mine(rx[k]) /\ rx[k].kind = Wanted /\ rx[k].idx = i

DumpRefused ==
  kdump.seq # seq /\ \A k \in DOMAIN rx : Mine(rx[k]) => rx[k].kind = "ack"

DumpGoesOn ==
  /\ \A k \in DOMAIN rx : Mine(rx[k]) => rx[k].kind \in {Wanted, "done"}
  /\ kdump.seq = seq => kdump.of = WantedOf
  /\ \A k \in DOMAIN rx : Mine(rx[k]) /\ rx[k].kind = "done" =>
       kdump.seq # seq /\ \A n \in DOMAIN rx : k < n => ~Mine(rx[n])
  /\ \A i \in Index : Has(i) \/ InQueue(i) \/ (kdump.seq = seq /\ i \in kdump.todo)

DumpInv == pc \in {"links", "list"} => DumpRefused \/ DumpGoesOn

(* The names tc knows were once names.                                      *)
NameInv ==
  /\ \A i \in Index : links[i] # NoName => <<links[i], i>> \in had
  /\ \A k \in DOMAIN rx : rx[k].kind = "link" => <<rx[k].name, rx[k].idx>> \in had
  /\ icache.idx # 0 => <<icache.name, icache.idx>> \in had
  /\ \A i \in Index : <<ifname[i], i>> \in had
  /\ mapped => \A i \in Index : links[i] # NoName
  /\ pc = "list" => mapped

(* The rows of a listing: in the order of their indices, with what the      *)
(* kernel has.                                                              *)
RowInv ==
  pc = "list" =>
    /\ \A k \in DOMAIN rx : Mine(rx[k]) /\ rx[k].kind = "row" =>
         /\ rx[k].q = Dumped(qdisc[rx[k].idx])
         /\ \A n \in DOMAIN rx : k < n /\ Mine(rx[n]) /\ rx[n].kind = "row" =>
              rx[k].idx < rx[n].idx
         /\ kdump.seq = seq => \A t \in kdump.todo : rx[k].idx < t
         /\ \A a \in DOMAIN shown : shown[a].idx < rx[k].idx
    /\ kdump.seq = seq =>
         \A a \in DOMAIN shown, t \in kdump.todo : shown[a].idx < t

Qdiscs == [kind : {"pfifo_fast", "rbfgrad"}, opt : [Option -> Int]]

ShownRow == [idx : Index, q : Qdiscs, name : Name \cup {NoName, Unknown}]

ShownInv ==
  /\ shown \in Seq(ShownRow)
  /\ \A a \in DOMAIN shown :
       /\ shown[a].q = Dumped(qdisc[shown[a].idx])
       /\ filter \in {0, shown[a].idx}
       /\ \A b \in DOMAIN shown : a < b => shown[a].idx < shown[b].idx
  /\ verdict = "ok" /\ cmd.op = "list" =>
       \A i \in Index : filter \in {0, i} => \E a \in DOMAIN shown : shown[a].idx = i

OptionInv ==
  /\ typedFor \in [Index -> Typed \cup {NoOptions}]
  /\ \A i \in Index : qdisc[i].kind = "rbfgrad" =>
       /\ qdisc[i].opt = Parsed(typedFor[i])
       /\ Parsed(typedFor[i])["q_ref"] > 0

------------------------------------------------------------------------------
(* Numbers, messages and pieces of a dump.                                  *)

LEMMA LeastIs ==
  ASSUME NEW S, S \subseteq Nat, S # {}
  PROVE  Least(S) \in S /\ \A y \in S : Least(S) <= y
  <1>1. PICK x \in S : \A y \in S : ~(<<y, x>> \in OpToRel(<, Nat))
    BY NatLessThanWellFounded, WFMin, Zenon
  <1>2. \A y \in S : x <= y
    <2>1. \A y, z \in Nat : y < z => <<y, z>> \in OpToRel(<, Nat)
      BY Zenon DEF OpToRel
    <2>2. \A y \in S : ~(y < x)
      BY <1>1, <2>1, Zenon
    <2> QED
      BY <2>2
  <1> QED
    BY <1>2 DEF Least

LEMMA MessageForm ==
  ASSUME NEW m \in Message
  PROVE  /\ m.seq \in Nat /\ m.kind \in {"done", "ack", "link", "row"}
         /\ m.kind = "ack" => m.err \in BOOLEAN
         /\ m.kind \in {"link", "row"} => m.idx \in Index
         /\ m.kind = "link" => m.name \in Name
         /\ m.kind = "row" => m.q \in Qdiscs
  BY DEF Message, Qdiscs

Dump == [seq : Nat, of : {"none", "links", "rows"}, todo : SUBSET Index]

LEMMA DumpedForm ==
  ASSUME NEW q \in Qdiscs
  PROVE  Dumped(q) \in Qdiscs
  <1>1. q.opt \in [Option -> Int] /\ q.kind \in {"pfifo_fast", "rbfgrad"}
    BY DEF Qdiscs
  <1>2. [q.opt EXCEPT !["p_min"] = 0, !["ecn"] = 0] \in [Option -> Int]
    <2>1. 0 \in Int
      OBVIOUS
    <2> QED
      BY <1>1, <2>1, Zenon
  <1> QED
    BY <1>1, <1>2 DEF Dumped, Qdiscs

(* What the kernel queues for a dump d, and what is left of the dump.       *)
LEMMA PieceForm ==
  ASSUME TypeOK, NEW d \in Dump
  PROVE  /\ Piece(d) \in Message /\ Piece(d).seq = d.seq
         /\ Piece(d).kind \in {"done", "link", "row"}
         /\ d.todo = {} => Piece(d).kind = "done" /\ Rest(d) = NoDump
         /\ d.todo # {} =>
              /\ Piece(d).idx \in d.todo /\ Piece(d).idx \in Index
              /\ \A t \in d.todo : Piece(d).idx <= t
              /\ Piece(d).kind = IF d.of = "links" THEN "link" ELSE "row"
              /\ d.of = "links" => Piece(d).name = ifname[Piece(d).idx]
              /\ d.of # "links" => Piece(d).q = Dumped(qdisc[Piece(d).idx])
              /\ Rest(d) \in Dump
              /\ Rest(d).seq = d.seq /\ Rest(d).of = d.of
              /\ Rest(d).todo = d.todo \ {Piece(d).idx}
  <1>0. d.seq \in Nat /\ d.of \in {"none", "links", "rows"} /\ d.todo \subseteq Index
    BY DEF Dump
  <1>1. CASE d.todo = {}
    BY <1>0, <1>1 DEF Piece, Rest, Message
  <1>2. CASE d.todo # {}
    <2> DEFINE i == Least(d.todo)
    <2>1. i \in d.todo /\ \A t \in d.todo : i <= t
      BY <1>0, <1>2, LeastIs, IndexAssumption
    <2>2. i \in Index
      BY <1>0, <2>1
    <2>3. /\ Rest(d) = [d EXCEPT !.todo = d.todo \ {i}]
          /\ Rest(d) \in Dump
          /\ Rest(d).seq = d.seq /\ Rest(d).of = d.of /\ Rest(d).todo = d.todo \ {i}
      BY <1>0, <1>2 DEF Rest, Dump
    <2>4. CASE d.of = "links"
      <3>1. Piece(d) = [seq |-> d.seq, kind |-> "link", idx |-> i, name |-> ifname[i]]
        BY <1>2, <2>4 DEF Piece
      <3>2. ifname[i] \in Name
        BY <2>2 DEF TypeOK
      <3> HIDE DEF i
      <3> QED
        BY <1>0, <1>2, <2>1, <2>2, <2>3, <2>4, <3>1, <3>2 DEF Message
    <2>5. CASE d.of # "links"
      <3>1. Piece(d) = [seq |-> d.seq, kind |-> "row", idx |-> i, q |-> Dumped(qdisc[i])]
        BY <1>2, <2>5 DEF Piece
      <3>2. Dumped(qdisc[i]) \in Qdiscs
        BY <2>2, DumpedForm DEF TypeOK, Qdiscs
      <3> HIDE DEF i
      <3> QED
        BY <1>0, <1>2, <2>1, <2>2, <2>3, <2>5, <3>1, <3>2 DEF Message, Qdiscs
    <2> QED
      BY <2>4, <2>5
  <1> QED
    BY <1>1, <1>2

(* The queue after one more message ...                                     *)
LEMMA QueueAppend ==
  ASSUME NEW s \in Seq(Message), NEW m \in Message
  PROVE  /\ Append(s, m) \in Seq(Message)
         /\ DOMAIN s \subseteq DOMAIN Append(s, m)
         /\ \A k \in DOMAIN s : Append(s, m)[k] = s[k]
         /\ Len(s) + 1 \in DOMAIN Append(s, m)
         /\ Append(s, m)[Len(s) + 1] = m
         /\ \A k \in DOMAIN Append(s, m) : k \in Nat /\ k <= Len(s) + 1
         /\ \A k \in DOMAIN Append(s, m) : k \in DOMAIN s \/ k = Len(s) + 1
  <1>1. /\ Append(s, m) \in Seq(Message) /\ Len(s) \in Nat
        /\ DOMAIN s = 1..Len(s) /\ DOMAIN Append(s, m) = 1..Len(s)+1
        /\ \A k \in 1..Len(s) : Append(s, m)[k] = s[k]
        /\ Append(s, m)[Len(s) + 1] = m
    BY AppendProperties, LenProperties
  <1> QED
    BY <1>1

(* ... and without its first one.                                           *)
LEMMA QueueTail ==
  ASSUME NEW s \in Seq(Message), s # <<>>
  PROVE  /\ Tail(s) \in Seq(Message) /\ Head(s) \in Message
         /\ Head(s) = s[1] /\ 1 \in DOMAIN s
         /\ \A k \in DOMAIN Tail(s) : k \in Nat /\ k + 1 \in DOMAIN s /\ Tail(s)[k] = s[k+1]
         /\ \A k \in DOMAIN s : k \in Nat /\ (k = 1 \/ (k - 1 \in DOMAIN Tail(s) /\ Tail(s)[k-1] = s[k]))
  <1>1. /\ Tail(s) \in Seq(Message) /\ Head(s) \in Message /\ Head(s) = s[1]
        /\ Len(s) \in Nat /\ Len(s) > 0 /\ DOMAIN s = 1..Len(s)
        /\ Len(Tail(s)) = Len(s) - 1 /\ DOMAIN Tail(s) = 1..Len(s) - 1
        /\ \A k \in 1..Len(Tail(s)) : Tail(s)[k] = s[k+1]
    <2>1. Tail(s) \in Seq(Message) /\ Head(s) \in Message
          /\ Len(Tail(s)) = Len(s) - 1
          /\ \A k \in 1..Len(Tail(s)) : Tail(s)[k] = s[k+1]
      BY HeadTailProperties
    <2>2. Len(s) \in Nat /\ Len(s) > 0 /\ DOMAIN s = 1..Len(s)
      BY EmptySeq, LenProperties
    <2>3. DOMAIN Tail(s) = 1..Len(Tail(s))
      BY <2>1, LenProperties
    <2> QED
      BY <2>1, <2>2, <2>3
  <1> QED
    BY <1>1

------------------------------------------------------------------------------
(* The socket.                                                              *)

LEMMA SocketForm ==
  ASSUME TypeInv
  PROVE  /\ rx \in Seq(Message) /\ seq \in Nat /\ kdump \in Dump
         /\ kdump.seq \in Nat /\ kdump.seq <= seq
         /\ skerr \in BOOLEAN
         /\ kdump # NoDump => kdump.seq > 0 /\ kdump.of \in {"links", "rows"}
         /\ NoDump \in Dump /\ NoDump.seq = 0
         /\ \A k \in DOMAIN rx : rx[k] \in Message /\ rx[k].seq <= seq /\ k \in Nat
  <1>1. seq \in Nat /\ kdump.seq \in 0..seq /\ kdump \in Dump /\ skerr \in BOOLEAN
    BY DEF TypeInv, TypeOK, Dump
  <1>2. rx \in Seq(Message) /\ \A k \in DOMAIN rx : rx[k] \in Message /\ rx[k].seq <= seq
    BY DEF TypeInv, TypeOK, SocketInv
  <1>3. \A k \in DOMAIN rx : k \in Nat
    BY <1>2, LenProperties
  <1>4. kdump # NoDump => kdump.seq > 0 /\ kdump.of \in {"links", "rows"}
    BY <1>1 DEF TypeInv, SocketInv, Dump
  <1>5. NoDump \in Dump /\ NoDump.seq = 0
    BY DEF NoDump, Dump
  <1> QED
    BY <1>1, <1>2, <1>3, <1>4, <1>5

(* A rest of a dump keeps its number, and is a dump.                        *)
LEMMA RestForm ==
  ASSUME TypeInv, NEW d \in Dump, d.of # "none"
  PROVE  /\ Rest(d) \in Dump
         /\ Rest(d) = NoDump \/ (Rest(d).seq = d.seq /\ Rest(d).of = d.of)
         /\ Rest(d).of # "none" \/ Rest(d) = NoDump
  <1>1. TypeOK
    BY DEF TypeInv
  <1> QED
    BY <1>1, PieceForm, SocketForm

LEMMA RecvForm ==
  ASSUME TypeInv, Recv
  PROVE  /\ 1 \in DOMAIN rx /\ Head(rx) = rx[1] /\ Head(rx) \in Message
         /\ rx' \in Seq(Message)
         /\ \A k \in DOMAIN rx : k = 1 \/ (k - 1 \in DOMAIN rx' /\ rx'[k-1] = rx[k])
         /\ \A k \in DOMAIN rx' :
              /\ k \in Nat
              /\ \/ k + 1 \in DOMAIN rx /\ rx'[k] = rx[k+1]
                 \/ /\ kdump # NoDump /\ kdump' = Rest(kdump) /\ rx'[k] = Piece(kdump)
                    /\ \A n \in DOMAIN rx' : n <= k
         /\ \/ kdump' = kdump /\ (kdump # NoDump => skerr')
            \/ /\ kdump # NoDump /\ kdump' = Rest(kdump)
               /\ \E k \in DOMAIN rx' : rx'[k] = Piece(kdump)
         /\ skerr' \in BOOLEAN
  <1>0. rx \in Seq(Message) /\ rx # <<>> /\ kdump \in Dump /\ TypeOK
    BY SocketForm DEF Recv, TypeInv
  <1>1. /\ Tail(rx) \in Seq(Message) /\ Head(rx) \in Message
        /\ Head(rx) = rx[1] /\ 1 \in DOMAIN rx
        /\ \A k \in DOMAIN Tail(rx) :
             k \in Nat /\ k + 1 \in DOMAIN rx /\ Tail(rx)[k] = rx[k+1]
        /\ \A k \in DOMAIN rx :
             k = 1 \/ (k - 1 \in DOMAIN Tail(rx) /\ Tail(rx)[k-1] = rx[k])
    BY <1>0, QueueTail
  <1>2. skerr' \in BOOLEAN
    BY SocketForm DEF Recv
  <1>3. CASE rx' = Tail(rx)
    <2>1. kdump' = kdump /\ (kdump # NoDump => skerr')
      <3>1. \A m \in Message : Append(Tail(rx), m) # Tail(rx)
        <4> TAKE m \in Message
        <4>1. /\ Len(Append(Tail(rx), m)) = Len(Tail(rx)) + 1
              /\ Len(Tail(rx)) \in Nat
          BY <1>1, AppendProperties, LenProperties
        <4>2. Len(Append(Tail(rx), m)) # Len(Tail(rx))
          BY <4>1
        <4> QED
          BY <4>2, Zenon
      <3>2. Piece(kdump) \in Message
        BY <1>0, PieceForm
      <3> QED
        BY <1>3, <3>1, <3>2 DEF Recv
    <2> QED
      BY <1>1, <1>2, <1>3, <2>1
  <1>4. CASE kdump # NoDump /\ rx' = Append(Tail(rx), Piece(kdump)) /\ kdump' = Rest(kdump)
    <2>1. Piece(kdump) \in Message
      BY <1>0, PieceForm
    <2>2. /\ rx' \in Seq(Message)
          /\ DOMAIN Tail(rx) \subseteq DOMAIN rx'
          /\ \A k \in DOMAIN Tail(rx) : rx'[k] = Tail(rx)[k]
          /\ Len(Tail(rx)) + 1 \in DOMAIN rx'
          /\ rx'[Len(Tail(rx)) + 1] = Piece(kdump)
          /\ \A k \in DOMAIN rx' : k \in Nat /\ k <= Len(Tail(rx)) + 1
          /\ \A k \in DOMAIN rx' : k \in DOMAIN Tail(rx) \/ k = Len(Tail(rx)) + 1
      BY <1>1, <1>4, <2>1, QueueAppend
    <2>3. \A k \in DOMAIN rx : k = 1 \/ (k - 1 \in DOMAIN rx' /\ rx'[k-1] = rx[k])
      BY <1>1, <2>2
    <2>4. \A k \in DOMAIN rx' :
              /\ k \in Nat
              /\ \/ k + 1 \in DOMAIN rx /\ rx'[k] = rx[k+1]
                 \/ /\ kdump # NoDump /\ kdump' = Rest(kdump) /\ rx'[k] = Piece(kdump)
                    /\ \A n \in DOMAIN rx' : n <= k
      BY <1>1, <1>4, <2>2
    <2> QED
      BY <1>1, <1>2, <1>4, <2>2, <2>3, <2>4
  <1> QED
    BY <1>3, <1>4 DEF Recv

LEMMA RecvType ==
  ASSUME TypeInv, Recv, seq' = seq
  PROVE  /\ \A k \in DOMAIN rx' : rx'[k] \in Message /\ rx'[k].seq <= seq'
         /\ kdump' \in [seq : 0 .. seq', of : {"none", "links", "rows"},
                        todo : SUBSET Index]
         /\ SocketInv'
         /\ skerr' \in BOOLEAN
  <1>0. TypeOK /\ kdump \in Dump /\ kdump.seq \in Nat /\ kdump.seq <= seq /\ seq \in Nat
        /\ (kdump # NoDump => kdump.seq > 0 /\ kdump.of \in {"links", "rows"})
    BY SocketForm DEF TypeInv
  <1>1. \A k \in DOMAIN rx' : rx'[k] \in Message /\ rx'[k].seq <= seq
    BY <1>0, RecvForm, SocketForm, PieceForm
  <1>2. kdump' \in Dump /\ kdump'.seq \in Nat /\ kdump'.seq <= seq
        /\ (kdump' # NoDump => kdump'.seq > 0 /\ kdump'.of # "none")
    <2>1. CASE kdump' = kdump
      BY <1>0, <2>1
    <2>2. CASE kdump # NoDump /\ kdump' = Rest(kdump)
      BY <1>0, <2>2, RestForm, SocketForm
    <2> QED
      BY <2>1, <2>2, RecvForm
  <1>3. kdump' \in [seq : 0 .. seq, of : {"none", "links", "rows"}, todo : SUBSET Index]
    BY <1>0, <1>2 DEF Dump
  <1> QED
    BY <1>1, <1>2, <1>3, RecvForm DEF SocketInv

LEMMA SendDumpForm ==
  ASSUME TypeInv, NEW of \in {"links", "rows"}, SendDump(of)
  PROVE  /\ seq' = seq + 1 /\ rx' \in Seq(Message) /\ skerr' = skerr
         /\ \A k \in DOMAIN rx : k \in DOMAIN rx' /\ rx'[k] = rx[k] /\ rx[k].seq # seq'
         /\ \E last \in DOMAIN rx' :
              /\ \A k \in DOMAIN rx' : k = last \/ k \in DOMAIN rx
              /\ rx'[last].seq = seq'
              /\ \/ kdump' = kdump /\ rx'[last].kind = "ack"
                 \/ \E d \in Dump : /\ d = [seq |-> seq + 1, of |-> of, todo |-> Index]
                                   /\ rx'[last] = Piece(d) /\ kdump' = Rest(d)
  <1>0. /\ rx \in Seq(Message) /\ seq \in Nat /\ TypeOK
        /\ \A k \in DOMAIN rx : rx[k].seq <= seq /\ rx[k].seq \in Nat
    BY SocketForm, MessageForm DEF TypeInv
  <1>1. [seq |-> seq + 1, of |-> of, todo |-> Index] \in Dump
    BY <1>0 DEF Dump
  <1>2. \A k \in DOMAIN rx : rx[k].seq # seq + 1
    BY <1>0
  <1>3. CASE kdump = NoDump
    <2> DEFINE d == [seq |-> seq + 1, of |-> of, todo |-> Index]
    <2>1. Piece(d) \in Message /\ Piece(d).seq = seq + 1
      BY <1>0, <1>1, PieceForm
    <2>2. seq' = seq + 1 /\ rx' = Append(rx, Piece(d)) /\ kdump' = Rest(d) /\ skerr' = skerr
      BY <1>3 DEF SendDump
    <2> HIDE DEF d
    <2>3. /\ rx' \in Seq(Message) /\ Len(rx) + 1 \in DOMAIN rx'
          /\ rx'[Len(rx) + 1] = Piece(d)
          /\ \A k \in DOMAIN rx : k \in DOMAIN rx' /\ rx'[k] = rx[k]
          /\ \A k \in DOMAIN rx' : k \in DOMAIN rx \/ k = Len(rx) + 1
      BY <1>0, <2>1, <2>2, QueueAppend
    <2>4. d \in Dump /\ d = [seq |-> seq + 1, of |-> of, todo |-> Index]
      BY <1>1 DEF d
    <2> QED
      BY <1>2, <2>1, <2>2, <2>3, <2>4
  <1>4. CASE kdump # NoDump
    <2> DEFINE m == Ack(seq + 1, TRUE)
    <2>1. m \in Message /\ m.seq = seq + 1 /\ m.kind = "ack"
      BY <1>0 DEF Ack, Message
    <2>2. seq' = seq + 1 /\ rx' = Append(rx, m) /\ kdump' = kdump /\ skerr' = skerr
      BY <1>4 DEF SendDump
    <2> HIDE DEF m
    <2>3. /\ rx' \in Seq(Message) /\ Len(rx) + 1 \in DOMAIN rx'
          /\ rx'[Len(rx) + 1] = m
          /\ \A k \in DOMAIN rx : k \in DOMAIN rx' /\ rx'[k] = rx[k]
          /\ \A k \in DOMAIN rx' : k \in DOMAIN rx \/ k = Len(rx) + 1
      BY <1>0, <2>1, <2>2, QueueAppend
    <2> QED
      BY <1>2, <2>1, <2>2, <2>3
  <1> QED
    BY <1>3, <1>4

LEMMA SendDumpType ==
  ASSUME TypeInv, NEW of \in {"links", "rows"}, SendDump(of)
  PROVE  /\ seq' \in Nat
         /\ \A k \in DOMAIN rx' : rx'[k] \in Message /\ rx'[k].seq <= seq'
         /\ kdump' \in [seq : 0 .. seq', of : {"none", "links", "rows"},
                        todo : SUBSET Index]
         /\ SocketInv'
         /\ skerr' \in BOOLEAN
  <1>0. /\ seq \in Nat /\ kdump \in Dump /\ kdump.seq \in Nat /\ kdump.seq <= seq
        /\ (kdump # NoDump => kdump.seq > 0 /\ kdump.of \in {"links", "rows"})
        /\ NoDump.seq = 0 /\ skerr \in BOOLEAN
    BY SocketForm
  <1>1. /\ seq' = seq + 1 /\ rx' \in Seq(Message) /\ skerr' = skerr
        /\ \A k \in DOMAIN rx' : rx'[k] \in Message
    <2>1. seq' = seq + 1 /\ rx' \in Seq(Message) /\ skerr' = skerr
      BY SendDumpForm
    <2>2. \A k \in 1..Len(rx') : rx'[k] \in Message
      BY <2>1, ElementOfSeq
    <2> QED
      BY <2>1, <2>2, LenProperties
  <1>2. \A k \in DOMAIN rx' : rx'[k].seq <= seq'
    <2>1. \A k \in DOMAIN rx : rx[k].seq <= seq /\ rx[k].seq \in Nat
      BY SocketForm, MessageForm
    <2> QED
      BY <1>0, <1>1, <2>1, SendDumpForm
  <1>3. /\ kdump' \in Dump /\ kdump'.seq \in Nat /\ kdump'.seq <= seq'
        /\ (kdump' # NoDump => kdump'.seq > 0 /\ kdump'.of # "none")
    <2>1. CASE kdump' = kdump
      BY <1>0, <1>1, <2>1
    <2>2. ASSUME NEW d \in Dump, d = [seq |-> seq + 1, of |-> of, todo |-> Index],
                 kdump' = Rest(d)
          PROVE  /\ kdump' \in Dump /\ kdump'.seq \in Nat /\ kdump'.seq <= seq'
                 /\ (kdump' # NoDump => kdump'.seq > 0 /\ kdump'.of # "none")
      <3>1. d.seq = seq + 1 /\ d.of # "none"
        BY <2>2
      <3> QED
        BY <1>0, <1>1, <2>2, <3>1, RestForm
    <2> QED
      BY <2>1, <2>2, SendDumpForm
  <1>4. kdump' \in [seq : 0 .. seq', of : {"none", "links", "rows"}, todo : SUBSET Index]
    BY <1>0, <1>1, <1>3 DEF Dump
  <1> QED
    BY <1>0, <1>1, <1>2, <1>3, <1>4 DEF SocketInv

------------------------------------------------------------------------------
(* Words, lines and options.                                                *)

LEMMA LineForm ==
  ASSUME NEW c \in Line
  PROVE  /\ c.op \in {"add", "change", "replace", "link", "delete", "list", "garbled",
                      "fatal"}
         /\ c.dev \in Word
         /\ c.op \in {"add", "change", "replace", "link"} => c.typed \in Typed
         /\ c.typed \in Typed \cup {NoOptions}
  <1>1. CASE c \in [op : {"add", "change", "replace", "link"}, dev : Word, typed : Typed]
    BY <1>1
  <1>2. CASE c \in [op : {"delete", "list"}, dev : Word, typed : {NoOptions}]
    BY <1>2
  <1>3. CASE c \in [op : {"garbled", "fatal"}, dev : {NoDev}, typed : {NoOptions}]
    BY <1>3 DEF Word
  <1> QED
    BY <1>1, <1>2, <1>3 DEF Line

LEMMA NoLineForm == NoLine \in Line /\ NoLine.op = "garbled"
  BY DEF NoLine, Line

LEMMA ParsedForm ==
  ASSUME NEW t \in Typed \cup {NoOptions}
  PROVE  Parsed(t) \in [Option -> Int]
  <1>1. \A o \in DOMAIN t : t[o] \in Int
    BY TypedAssumption DEF NoOptions
  <1> QED
    BY <1>1 DEF Parsed

LEMMA DefaultForm == Default \in Qdiscs /\ Default.kind = "pfifo_fast"
  BY ParsedForm DEF Default, Qdiscs

(* The four ways in which ll_name_to_index finds an index.                  *)
LEMMA NameToIndexForm ==
  ASSUME TypeOK, NEW n
  PROVE  /\ NameToIndex(n) \in Nat
         /\ \/ icache.idx # 0 /\ icache.name = n /\ NameToIndex(n) = icache.idx
            \/ NameToIndex(n) \in Index /\ links[NameToIndex(n)] = n
            \/ NameToIndex(n) \in Index /\ ifname[NameToIndex(n)] = n
            \/ n \in DOMAIN IfNumber /\ NameToIndex(n) = IfNumber[n]
            \/ NameToIndex(n) = 0
         /\ (\E i \in Index : links[i] = n) => NameToIndex(n) \in Index
  <1>0. icache.idx \in Index \cup {0} /\ Index \subseteq Nat
    BY IndexAssumption DEF TypeOK
  <1>1. CASE icache.idx # 0 /\ icache.name = n
    <2>1. NameToIndex(n) = icache.idx
      BY <1>1 DEF NameToIndex
    <2> QED
      BY <1>0, <1>1, <2>1
  <1>2. CASE ~(icache.idx # 0 /\ icache.name = n) /\ \E i \in Index : links[i] = n
    <2> DEFINE S == {i \in Index : links[i] = n}
    <2>1. NameToIndex(n) = Least(S)
      BY <1>2 DEF NameToIndex
    <2>2. S \subseteq Nat /\ S # {}
      BY <1>0, <1>2
    <2>3. Least(S) \in S
      BY <2>2, LeastIs
    <2> QED
      BY <1>0, <2>1, <2>3
  <1>3. CASE /\ ~(icache.idx # 0 /\ icache.name = n)
             /\ ~\E i \in Index : links[i] = n
             /\ \E i \in Index : ifname[i] = n
    <2>1. NameToIndex(n) = CHOOSE i \in Index : ifname[i] = n
      BY <1>3 DEF NameToIndex
    <2> QED
      BY <1>0, <1>3, <2>1
  <1>4. CASE /\ ~(icache.idx # 0 /\ icache.name = n)
             /\ ~\E i \in Index : links[i] = n
             /\ ~\E i \in Index : ifname[i] = n
    <2>1. NameToIndex(n) = IF n \in DOMAIN IfNumber THEN IfNumber[n] ELSE 0
      BY <1>4 DEF NameToIndex
    <2> QED
      BY <1>4, <2>1, NumberAssumption
  <1> QED
    BY <1>1, <1>2, <1>3, <1>4

LEMMA LookUpForm ==
  ASSUME TypeOK, LookUp
  PROVE  /\ icache' \in [name : Name \cup {NoName}, idx : Index \cup {0}]
         /\ DevIndex \in Nat
  <1>1. DevIndex \in Nat
    BY NameToIndexForm DEF DevIndex
  <1>2. Cached(cmd.dev) \in [name : Name \cup {NoName}, idx : Index \cup {0}]
    <2>1. CASE \E i \in Index : links[i] = cmd.dev
      <3>1. cmd.dev \in Name \cup {NoName}
        BY <2>1 DEF TypeOK
      <3>2. NameToIndex(cmd.dev) \in Index
        BY <2>1, NameToIndexForm
      <3> QED
        BY <2>1, <3>1, <3>2 DEF Cached
    <2>2. CASE ~\E i \in Index : links[i] = cmd.dev
      BY <2>2 DEF Cached, TypeOK
    <2> QED
      BY <2>1, <2>2
  <1> QED
    BY <1>1, <1>2 DEF LookUp, TypeOK

------------------------------------------------------------------------------
(* Types.                                                                   *)

LEMMA OutcomeForm ==
  ASSUME TypeOK, Succeeded \/ Failed \/ Exit
  PROVE  pc' \in {"line", "over"} /\ ret' \in 0 .. 1 /\ cmd' \in Line
  BY NoLineForm DEF Succeeded, Failed, Exit, TypeOK

LEMMA TypeInit == Init => TypeInv
  <1> SUFFICES ASSUME Init PROVE TypeInv
    OBVIOUS
  <1>1. /\ cmd \in Line /\ left \in 0..MaxLines /\ seq \in Nat /\ ret \in 0..1
        /\ filter \in Nat
    BY NoLineForm, BoundAssumption DEF Init
  <1>2. /\ links \in [Index -> Name \cup {NoName}]
        /\ icache \in [name : Name \cup {NoName}, idx : Index \cup {0}]
        /\ ifname \in [Index -> Name]
    BY NameAssumption DEF Init
  <1>3. qdisc \in [Index -> Qdiscs]
    BY DefaultForm DEF Init
  <1>4. rx \in Seq(Message) /\ DOMAIN rx = {}
    BY EmptySeq, LenProperties DEF Init
  <1>5. kdump \in [seq : 0 .. seq, of : {"none", "links", "rows"}, todo : SUBSET Index]
    BY DEF Init, NoDump
  <1>6. /\ pc \in {"line", "links", "resolve", "talk", "list", "over"}
        /\ force \in BOOLEAN /\ mapped \in BOOLEAN /\ skerr \in BOOLEAN
    BY DEF Init
  <1>7. kdump = NoDump
    BY DEF Init
  <1> QED
    BY <1>1, <1>2, <1>3, <1>4, <1>5, <1>6, <1>7 DEF TypeInv, TypeOK, SocketInv, Qdiscs

(* The actions that leave the socket alone.                                 *)
LEMMA TypeQuiet ==
  ASSUME TypeInv, ReadLine \/ EndOfFile \/ NoDevice \/ Rename \/ UNCHANGED vars
  PROVE  TypeInv'
  <1> USE DEF TypeInv
  <1>1. UNCHANGED socket /\ seq' = seq
    BY DEF ReadLine, EndOfFile, NoDevice, Rename, vars, socket
  <1>2. UNCHANGED <<force, llmap, filter, qdisc>>
    BY DEF ReadLine, EndOfFile, NoDevice, Rename, vars, llmap
  <1>3. SocketInv'
    BY <1>1 DEF SocketInv, socket
  <1>4. pc' \in {"line", "links", "resolve", "talk", "list", "over"} /\ ret' \in 0 .. 1
    BY OutcomeForm DEF ReadLine, EndOfFile, NoDevice, Rename, vars, TypeOK
  <1>5. cmd' \in Line
    <2>1. CASE ReadLine
      BY <2>1, OutcomeForm DEF ReadLine
    <2>2. CASE EndOfFile
      BY <2>2, NoLineForm DEF EndOfFile
    <2>3. CASE NoDevice
      BY <2>3, OutcomeForm DEF NoDevice
    <2>4. CASE Rename \/ UNCHANGED vars
      BY <2>4 DEF Rename, vars, TypeOK
    <2> QED
      BY <2>1, <2>2, <2>3, <2>4
  <1>6. left' \in 0 .. MaxLines
    <2>1. left \in 0 .. MaxLines /\ (left' = left \/ (left > 0 /\ left' = left - 1))
      BY DEF ReadLine, EndOfFile, NoDevice, Rename, vars, TypeOK
    <2> QED
      BY <2>1, BoundAssumption
  <1>7. ifname' \in [Index -> Name]
    BY DEF ReadLine, EndOfFile, NoDevice, Rename, vars, TypeOK
  <1> QED
    BY <1>1, <1>2, <1>3, <1>4, <1>5, <1>6, <1>7 DEF TypeOK, socket, llmap

(* The actions that wait for an answer.                                     *)
LEMMA TypeReceive ==
  ASSUME TypeInv, RememberLinks \/ Talk \/ List
  PROVE  TypeInv'
  <1> USE DEF TypeInv
  <1>1. UNCHANGED <<force, left, seq, icache, filter, ifname, qdisc>>
    BY DEF RememberLinks, Talk, List, llmap
  <1>2. RecvError \/ Recv
    BY DEF RememberLinks, Talk, List
  <1>3. /\ \A k \in DOMAIN rx' : rx'[k] \in Message /\ rx'[k].seq <= seq'
        /\ kdump' \in [seq : 0 .. seq', of : {"none", "links", "rows"},
                       todo : SUBSET Index]
        /\ SocketInv'
        /\ skerr' \in BOOLEAN
    <2>1. CASE RecvError
      <3>1. rx' = rx /\ kdump' = kdump /\ seq' = seq /\ skerr' = FALSE
        BY <1>1, <2>1 DEF RecvError
      <3> QED
        BY <3>1 DEF TypeOK, SocketInv
    <2>2. CASE Recv
      BY <1>1, <2>2, RecvType
    <2> QED
      BY <1>2, <2>1, <2>2
  <1>4. /\ pc' \in {"line", "links", "resolve", "talk", "list", "over"} /\ ret' \in 0 .. 1
        /\ cmd' \in Line
    <2>1. CASE Succeeded \/ Failed \/ Exit
      BY <2>1, OutcomeForm
    <2>2. CASE UNCHANGED <<cmd, ret>> /\ (pc' = pc \/ pc' = "resolve")
      BY <2>2 DEF TypeOK
    <2> QED
      BY <2>1, <2>2 DEF RememberLinks, Talk, List
  <1>5. mapped' \in BOOLEAN
    BY DEF RememberLinks, Talk, List, llmap, TypeOK
  <1>6. links' \in [Index -> Name \cup {NoName}]
    <2>1. CASE links' = links
      BY <2>1 DEF TypeOK
    <2>2. CASE /\ Recv /\ Head(rx).kind = "link"
               /\ links' = [links EXCEPT ![Head(rx).idx] = Head(rx).name]
      <3>1. Head(rx).name \in Name
        BY <2>2, RecvForm, MessageForm
      <3> QED
        BY <2>2, <3>1 DEF TypeOK
    <2> QED
      BY <2>1, <2>2 DEF RememberLinks, Talk, List, llmap
  <1> QED
    BY <1>1, <1>3, <1>4, <1>5, <1>6 DEF TypeOK

LEMMA TypeSendDump ==
  ASSUME TypeInv, InitMap \/ QdiscList
  PROVE  TypeInv'
  <1> USE DEF TypeInv
  <1>1. PICK of \in {"links", "rows"} : SendDump(of)
    BY DEF InitMap, QdiscList
  <1>2. UNCHANGED <<force, left, cmd, ret, links, mapped, ifname, qdisc>>
    BY DEF InitMap, QdiscList, llmap
  <1>3. /\ icache' \in [name : Name \cup {NoName}, idx : Index \cup {0}]
        /\ filter' \in Nat
    BY LookUpForm DEF InitMap, QdiscList, llmap, TypeOK
  <1>4. pc' \in {"links", "list"}
    BY DEF InitMap, QdiscList
  <1> QED
    BY <1>1, <1>2, <1>3, <1>4, SendDumpType DEF TypeOK

(* What the end of tc_qdisc_modify does to the kernel and the socket.       *)
LEMMA SendModifyForm ==
  ASSUME TypeInv, NEW i, SendModify(i)
  PROVE  /\ seq' = seq + 1 /\ rx' \in Seq(Message) /\ kdump' = kdump
         /\ done' \in BOOLEAN /\ (done' <=> Executes(cmd, i))
         /\ \A k \in DOMAIN rx : k \in DOMAIN rx' /\ rx'[k] = rx[k] /\ rx[k].seq # seq'
         /\ \/ skerr' = TRUE /\ rx' = rx
            \/ /\ skerr' = skerr
               /\ \E last \in DOMAIN rx' :
                    /\ \A k \in DOMAIN rx' : k = last \/ k \in DOMAIN rx
                    /\ rx'[last] \in Message
                    /\ rx'[last].seq = seq' /\ rx'[last].kind = "ack"
                    /\ rx'[last].err = ~done'
  <1>0. /\ rx \in Seq(Message) /\ seq \in Nat
        /\ \A k \in DOMAIN rx : rx[k].seq <= seq /\ rx[k].seq \in Nat
    BY SocketForm, MessageForm
  <1>1. seq' = seq + 1 /\ kdump' = kdump /\ \A k \in DOMAIN rx : rx[k].seq # seq + 1
    BY <1>0 DEF SendModify
  <1>2. done' \in BOOLEAN /\ (done' <=> Executes(cmd, i))
    BY DEF SendModify, Executes
  <1>3. CASE skerr' = TRUE /\ rx' = rx
    BY <1>0, <1>1, <1>2, <1>3
  <1>4. CASE rx' = Append(rx, Ack(seq + 1, ~Executes(cmd, i))) /\ skerr' = skerr
    <2>1. PICK m : m = Ack(seq + 1, ~Executes(cmd, i))
      OBVIOUS
    <2>2. m \in Message /\ m.seq = seq + 1 /\ m.kind = "ack" /\ m.err = ~done'
      <3>1. m = [seq |-> seq + 1, kind |-> "ack", err |-> ~Executes(cmd, i)]
        BY <2>1 DEF Ack
      <3>2. (~Executes(cmd, i)) \in BOOLEAN /\ (~Executes(cmd, i)) = ~done'
        BY <1>2
      <3>3. m \in [seq : Nat, kind : {"ack"}, err : BOOLEAN]
        BY <1>0, <3>1, <3>2
      <3> QED
        BY <3>1, <3>2, <3>3 DEF Message
    <2>3. rx' = Append(rx, m)
      BY <1>4, <2>1
    <2>4. /\ rx' \in Seq(Message) /\ Len(rx) + 1 \in DOMAIN rx'
          /\ rx'[Len(rx) + 1] = m
          /\ \A k \in DOMAIN rx : k \in DOMAIN rx' /\ rx'[k] = rx[k]
          /\ \A k \in DOMAIN rx' : k \in DOMAIN rx \/ k = Len(rx) + 1
      BY <1>0, <2>2, <2>3, QueueAppend
    <2> QED
      BY <1>1, <1>2, <1>4, <2>2, <2>4
  <1> QED
    BY <1>3, <1>4 DEF SendModify

LEMMA TypeModify ==
  ASSUME TypeInv, QdiscModify
  PROVE  TypeInv'
  <1> USE DEF TypeInv
  <1>0. SendModify(DevIndex) /\ LookUp
    BY DEF QdiscModify
  <1>1. UNCHANGED <<force, left, cmd, ret, links, mapped, filter, ifname>> /\ pc' = "talk"
    BY DEF QdiscModify
  <1>2. icache' \in [name : Name \cup {NoName}, idx : Index \cup {0}]
    BY <1>0, LookUpForm
  <1>3. /\ seq' \in Nat /\ rx' \in Seq(Message) /\ kdump' = kdump /\ skerr' \in BOOLEAN
        /\ \A k \in DOMAIN rx' : rx'[k] \in Message /\ rx'[k].seq <= seq'
    <2>1. /\ seq \in Nat /\ skerr \in BOOLEAN
          /\ \A k \in DOMAIN rx : rx[k] \in Message /\ rx[k].seq <= seq /\ rx[k].seq \in Nat
      BY SocketForm, MessageForm
    <2>2. /\ seq' = seq + 1 /\ rx' \in Seq(Message) /\ kdump' = kdump
          /\ \A k \in DOMAIN rx : k \in DOMAIN rx' /\ rx'[k] = rx[k]
          /\ \/ skerr' = TRUE /\ rx' = rx
             \/ /\ skerr' = skerr
                /\ \E last \in DOMAIN rx' :
                     /\ \A k \in DOMAIN rx' : k = last \/ k \in DOMAIN rx
                     /\ rx'[last] \in Message /\ rx'[last].seq = seq'
      BY <1>0, SendModifyForm
    <2>3. skerr' \in BOOLEAN
      BY <2>1, <2>2
    <2>4. seq' \in Nat /\ seq < seq'
      BY <2>1, <2>2
    <2>5. \A k \in DOMAIN rx' : rx'[k] \in Message /\ rx'[k].seq <= seq'
      BY <2>1, <2>2, <2>4
    <2> QED
      BY <2>2, <2>3, <2>4, <2>5
  <1>4. kdump' \in [seq : 0 .. seq', of : {"none", "links", "rows"}, todo : SUBSET Index]
    <2>0. kdump \in Dump /\ kdump.seq \in Nat /\ kdump.seq <= seq /\ seq \in Nat
      BY SocketForm
    <2>1. kdump.seq \in 0 .. seq'
      <3>1. seq' = seq + 1
        BY <1>0, SendModifyForm
      <3> QED
        BY <2>0, <3>1
    <2> QED
      BY <1>3, <2>0, <2>1 DEF Dump
  <1>5. SocketInv'
    BY <1>3 DEF SocketInv
  <1>6. qdisc' \in [Index -> Qdiscs]
    <2>0. qdisc \in [Index -> Qdiscs]
      BY DEF TypeOK, Qdiscs
    <2>1. [kind |-> "rbfgrad", opt |-> Parsed(cmd.typed)] \in Qdiscs
      BY LineForm, ParsedForm DEF TypeOK, Qdiscs
    <2>2. \/ qdisc' = qdisc
          \/ qdisc' = [qdisc EXCEPT ![DevIndex] = Default]
          \/ qdisc' = [qdisc EXCEPT ![DevIndex] =
                         [kind |-> "rbfgrad", opt |-> Parsed(cmd.typed)]]
      BY <1>0 DEF SendModify
    <2> QED
      BY <2>0, <2>1, <2>2, DefaultForm
  <1> QED
    BY <1>1, <1>2, <1>3, <1>4, <1>5, <1>6 DEF TypeOK, Qdiscs

LEMMA TypeNext == TypeInv /\ [Next]_vars => TypeInv'
  BY TypeQuiet, TypeReceive, TypeSendDump, TypeModify DEF Next, Tc

------------------------------------------------------------------------------
(* Control.                                                                 *)

(* Acknowledgements in the queue say what the kernel did.                   *)
LEMMA TalkOutcome ==
  ASSUME TypeInv, ControlInv, AckInv, Talk
  PROVE  \/ Failed
         \/ Succeeded /\ done
         \/ UNCHANGED <<pc, cmd, verdict, ret>>
  <1>1. ASSUME Recv, Mine(Head(rx)), Head(rx).kind = "ack", ~Head(rx).err PROVE done
    <2>1. 1 \in DOMAIN rx /\ Head(rx) = rx[1]
      BY <1>1, RecvForm
    <2>2. Head(rx).err = ~done
      BY <1>1, <2>1 DEF AckInv, Talk
    <2> QED
      BY <1>1, <2>2 DEF ControlInv
  <1> QED
    BY <1>1 DEF Talk

LEMMA ControlNext ==
  ASSUME TypeInv, ControlInv, AckInv, [Next]_vars
  PROVE  ControlInv'
  <1>1. CASE ReadLine
    <2>1. shown' = <<>> /\ done' = FALSE /\ pc = "line"
      BY <1>1 DEF ReadLine
    <2>2. CASE (Exit \/ Failed) /\ undone' = TRUE
      <3>1. pc' \in {"line", "over"} /\ verdict' = "failed" /\ ret' = 1
        BY <2>2 DEF Exit, Failed
      <3> QED
        BY <2>1, <2>2, <3>1 DEF ControlInv
    <2>3. ASSUME NEW c \in Line, c.op # "fatal", ~Complains(c), cmd' = c, pc' = "resolve",
                 verdict' = "none", UNCHANGED <<ret, undone>>
          PROVE  ControlInv'
      BY <2>1, <2>3 DEF ControlInv
    <2> QED
      BY <1>1, <2>2, <2>3 DEF ReadLine
  <1>2. CASE EndOfFile
    BY <1>2 DEF EndOfFile, ControlInv, history
  <1>3. CASE InitMap
    BY <1>3 DEF InitMap, ControlInv, history
  <1>4. CASE RememberLinks
    <2>1. CASE Exit /\ undone' = TRUE
      <3>1. pc' = "over" /\ verdict' = "failed" /\ ret' = 1 /\ done' = done
        BY <1>4, <2>1 DEF Exit, RememberLinks
      <3> QED
        BY <2>1, <3>1 DEF ControlInv
    <2>2. CASE pc' \in {"links", "resolve"} /\ UNCHANGED <<cmd, ret, verdict, undone>>
      BY <1>4, <2>2 DEF RememberLinks, ControlInv
    <2> QED
      BY <1>4, <2>1, <2>2 DEF RememberLinks
  <1>5. CASE NoDevice
    <2>1. pc' \in {"line", "over"} /\ verdict' = "failed" /\ ret' = 1 /\ undone' = TRUE
          /\ done' = done
      BY <1>5 DEF NoDevice, Failed
    <2> QED
      BY <2>1 DEF ControlInv
  <1>6. CASE QdiscModify
    <2>1. /\ pc = "resolve" /\ pc' = "talk" /\ cmd.op # "list"
          /\ UNCHANGED <<cmd, ret, shown, verdict>>
      BY <1>6 DEF QdiscModify, CanResolve
    <2>2. done' \in BOOLEAN /\ undone' \in BOOLEAN /\ (undone' <=> undone \/ ~done')
      <3>1. done' = Executes(cmd, DevIndex) /\ undone' = (undone \/ ~Executes(cmd, DevIndex))
        BY <1>6 DEF QdiscModify, SendModify
      <3> QED
        BY <3>1 DEF Executes
    <2> QED
      BY <2>1, <2>2 DEF ControlInv
  <1>7. CASE QdiscList
    BY <1>7 DEF QdiscList, CanResolve, ControlInv
  <1>8. CASE Talk
    <2>1. UNCHANGED <<done, undone, shown>> /\ pc = "talk"
      BY <1>8 DEF Talk
    <2>2. CASE Failed
      <3>1. pc' \in {"line", "over"} /\ verdict' = "failed" /\ ret' = 1
        BY <2>2 DEF Failed
      <3> QED
        BY <2>1, <3>1 DEF ControlInv
    <2>3. CASE Succeeded /\ done
      BY <2>1, <2>3 DEF ControlInv, Succeeded
    <2>4. CASE UNCHANGED <<pc, cmd, verdict, ret>>
      BY <2>1, <2>4 DEF ControlInv
    <2> QED
      BY <1>8, <2>2, <2>3, <2>4, TalkOutcome
  <1>9. CASE List
    <2>1. CASE Failed /\ undone' = TRUE /\ done' = done
      <3>1. pc' \in {"line", "over"} /\ verdict' = "failed" /\ ret' = 1
        BY <2>1 DEF Failed
      <3> QED
        BY <2>1, <3>1 DEF ControlInv
    <2>2. CASE Succeeded /\ done' = TRUE /\ undone' = undone
      BY <1>9, <2>2 DEF ControlInv, Succeeded, List
    <2>3. CASE UNCHANGED <<pc, cmd, ret, verdict, done, undone>>
      BY <1>9, <2>3 DEF ControlInv, List
    <2> QED
      BY <1>9, <2>1, <2>2, <2>3 DEF List
  <1>10. CASE Rename \/ UNCHANGED vars
    BY <1>10 DEF Rename, vars, ControlInv
  <1> QED
    BY <1>1, <1>2, <1>3, <1>4, <1>5, <1>6, <1>7, <1>8, <1>9, <1>10 DEF Next, Tc

LEMMA AckNext ==
  ASSUME TypeInv, ControlInv, AckInv, [Next]_vars
  PROVE  AckInv'
  <1> SUFFICES ASSUME pc' = "talk"
               PROVE  /\ skerr' \/ \E k \in DOMAIN rx' : /\ rx'[k].seq = seq'
                                                       /\ rx'[k].kind = "ack"
                      /\ \A k \in DOMAIN rx' : rx'[k].seq = seq' /\ rx'[k].kind = "ack"
                                               => rx'[k].err = ~done'
    BY DEF AckInv, Mine
  <1>1. CASE QdiscModify
    <2>1. SendModify(DevIndex)
      BY <1>1 DEF QdiscModify
    <2>2. CASE skerr' = TRUE /\ rx' = rx
      BY <2>1, <2>2, SendModifyForm
    <2>3. ASSUME NEW last \in DOMAIN rx',
                 \A k \in DOMAIN rx' : k = last \/ k \in DOMAIN rx,
                 rx'[last].seq = seq', rx'[last].kind = "ack", rx'[last].err = ~done'
          PROVE  /\ \E k \in DOMAIN rx' : rx'[k].seq = seq' /\ rx'[k].kind = "ack"
                 /\ \A k \in DOMAIN rx' : rx'[k].seq = seq' /\ rx'[k].kind = "ack"
                                          => rx'[k].err = ~done'
      BY <2>1, <2>3, SendModifyForm
    <2> QED
      BY <2>1, <2>2, <2>3, SendModifyForm
  <1>2. CASE Talk
    <2>1. /\ Recv /\ UNCHANGED <<seq, done>> /\ pc = "talk"
          /\ ~(Mine(Head(rx)) /\ Head(rx).kind = "ack")
      BY <1>2 DEF Talk, Failed, Succeeded
    <2>2. 1 \in DOMAIN rx /\ ~(rx[1].seq = seq /\ rx[1].kind = "ack")
      BY <2>1, RecvForm DEF Mine
    <2>3. \E k \in DOMAIN rx : rx[k].seq = seq /\ rx[k].kind = "ack"
      BY <2>1 DEF AckInv, Recv, Mine
    <2>4. \E k \in DOMAIN rx' : rx'[k].seq = seq' /\ rx'[k].kind = "ack"
      BY <2>1, <2>2, <2>3, RecvForm
    <2>5. Piece(kdump).kind # "ack"
      BY SocketForm, PieceForm DEF TypeInv
    <2>6. ASSUME NEW k \in DOMAIN rx', rx'[k].seq = seq', rx'[k].kind = "ack"
          PROVE  rx'[k].err = ~done'
      <3>1. k + 1 \in DOMAIN rx /\ rx'[k] = rx[k + 1]
        BY <2>1, <2>5, <2>6, RecvForm
      <3> QED
        BY <2>1, <2>6, <3>1 DEF AckInv, Mine
    <2> QED
      BY <2>4, <2>6
  <1>3. CASE Rename \/ UNCHANGED vars
    BY <1>3 DEF Rename, vars, socket, AckInv, Mine
  <1>4. CASE ReadLine \/ EndOfFile \/ InitMap \/ RememberLinks \/ NoDevice \/ QdiscList \/ List
    BY <1>4 DEF ReadLine, EndOfFile, InitMap, RememberLinks, NoDevice, QdiscList, List,
       Failed, Succeeded, Exit
  <1> QED
    BY <1>1, <1>2, <1>3, <1>4 DEF Next, Tc

LEMMA EndNext ==
  ASSUME TypeInv, EndInv, [Next]_vars
  PROVE  EndInv'
  <1> DEFINE Ends == \/ skerr
                     \/ \E k \in DOMAIN rx : rx[k].seq = seq /\ rx[k].kind \in {"ack", "done"}
                     \/ kdump.seq = seq /\ \E k \in DOMAIN rx : rx[k].seq = seq
  <1>0. pc \in {"links", "list"} => seq > 0 /\ Ends
    BY DEF EndInv, Ending, Mine
  <1> SUFFICES ASSUME pc' \in {"links", "list"}
               PROVE  seq' > 0 /\ Ends'
    BY DEF EndInv, Ending, Mine
  <1>1. CASE InitMap \/ QdiscList
    <2>1. PICK of \in {"links", "rows"} : SendDump(of)
      BY <1>1 DEF InitMap, QdiscList
    <2>2. PICK last \in DOMAIN rx' :
              /\ rx'[last].seq = seq'
              /\ \/ rx'[last].kind = "ack"
                 \/ \E d \in Dump : /\ d = [seq |-> seq + 1, of |-> of, todo |-> Index]
                                   /\ rx'[last] = Piece(d) /\ kdump' = Rest(d)
      BY <2>1, SendDumpForm
    <2>3. seq' = seq + 1 /\ seq \in Nat /\ TypeOK
      BY <2>1, SendDumpForm, SocketForm DEF TypeInv
    <2>4. seq' > 0
      BY <2>3
    <2>5. CASE rx'[last].kind = "ack"
      BY <2>2, <2>4, <2>5
    <2>6. ASSUME NEW d \in Dump, d = [seq |-> seq + 1, of |-> of, todo |-> Index],
                 rx'[last] = Piece(d), kdump' = Rest(d)
          PROVE  Ends'
      <3>1. d.seq = seq'
        BY <2>3, <2>6
      <3>2. CASE d.todo = {}
        BY <2>2, <2>3, <2>6, <3>2, PieceForm
      <3>3. CASE d.todo # {}
        <4>1. kdump'.seq = seq'
          BY <2>3, <2>6, <3>1, <3>3, PieceForm
        <4> QED
          BY <2>2, <4>1
      <3> QED
        BY <3>2, <3>3
    <2> QED
      BY <2>2, <2>4, <2>5, <2>6
  <1>2. CASE RememberLinks \/ List
    <2>1. /\ Recv /\ seq' = seq /\ pc \in {"links", "list"} /\ ~Ending(Head(rx))
      BY <1>2 DEF RememberLinks, List, Exit, Failed, Succeeded, Refusal, Ending
    <2>2. ~(rx[1].seq = seq /\ rx[1].kind \in {"ack", "done"})
      BY <2>1, RecvForm DEF Ending, Mine
    <2>3. ~skerr /\ seq > 0 /\ Ends
      BY <1>0, <2>1 DEF Recv
    <2>4. CASE \E k \in DOMAIN rx : rx[k].seq = seq /\ rx[k].kind \in {"ack", "done"}
      BY <2>1, <2>2, <2>3, <2>4, RecvForm
    <2>5. CASE kdump.seq = seq
      <3>1. kdump # NoDump
        BY <2>3, <2>5, SocketForm
      <3>2. CASE skerr'
        BY <2>1, <2>3, <3>2
      <3>3. CASE kdump' = Rest(kdump) /\ \E k \in DOMAIN rx' : rx'[k] = Piece(kdump)
        <4>1. TypeOK /\ kdump \in Dump
          BY SocketForm DEF TypeInv
        <4>2. PICK k \in DOMAIN rx' : rx'[k] = Piece(kdump)
          BY <3>3
        <4>3. rx'[k].seq = seq'
          BY <2>1, <2>5, <4>1, <4>2, PieceForm
        <4>4. CASE kdump.todo = {}
          BY <2>1, <2>3, <4>1, <4>2, <4>3, <4>4, PieceForm
        <4>5. CASE kdump.todo # {}
          <5>1. kdump'.seq = seq'
            BY <2>1, <2>5, <3>3, <4>1, <4>5, PieceForm
          <5> QED
            BY <2>1, <2>3, <4>3, <5>1
        <4> QED
          BY <4>4, <4>5
      <3> QED
        BY <2>1, <3>1, <3>2, <3>3, RecvForm
    <2> QED
      BY <2>3, <2>4, <2>5
  <1>3. CASE Rename \/ UNCHANGED vars
    BY <1>0, <1>3 DEF Rename, vars, socket
  <1>4. CASE ReadLine \/ EndOfFile \/ NoDevice \/ QdiscModify \/ Talk
    BY <1>4 DEF ReadLine, EndOfFile, NoDevice, QdiscModify, Talk, Failed, Succeeded, Exit
  <1> QED
    BY <1>1, <1>2, <1>3, <1>4 DEF Next, Tc

------------------------------------------------------------------------------
(* Dumps.                                                                   *)

(* When the end of the dump arrives, nothing of it is missing.              *)
LEMMA DoneLast ==
  ASSUME TypeInv, DumpInv, pc \in {"links", "list"},
         Recv, Mine(Head(rx)), Head(rx).kind = "done"
  PROVE  \A i \in Index : Has(i)
  <1>1. 1 \in DOMAIN rx /\ Mine(rx[1]) /\ rx[1].kind = "done"
    BY RecvForm
  <1>2. DumpGoesOn
    BY <1>1 DEF DumpInv, DumpRefused
  <1>3. /\ kdump.seq # seq /\ \A n \in DOMAIN rx : 1 < n => ~Mine(rx[n])
        /\ \A i \in Index : Has(i) \/ InQueue(i)
    BY <1>1, <1>2 DEF DumpGoesOn
  <1>4. \A n \in DOMAIN rx : n = 1 \/ 1 < n
    <2>1. \A n \in DOMAIN rx : n \in Nat /\ n \in 1..Len(rx)
      BY SocketForm, LenProperties
    <2> QED
      BY <2>1
  <1>5. \A i \in Index : ~InQueue(i)
    <2>1. rx[1].kind # Wanted
      BY <1>1 DEF Wanted
    <2> QED
      BY <1>3, <1>4, <2>1 DEF InQueue
  <1> QED
    BY <1>3, <1>5

LEMMA PrintedForm ==
  ASSUME TypeOK, shown \in Seq(ShownRow), NEW m \in Message, m.kind = "row"
  PROVE  \/ filter \notin {0, m.idx} /\ shown \o Printed(m) = shown
         \/ /\ filter \in {0, m.idx}
            /\ \E r \in ShownRow : /\ shown \o Printed(m) = Append(shown, r)
                                  /\ r.idx = m.idx /\ r.q = m.q
  <1>1. CASE filter # 0 /\ filter # m.idx
    BY <1>1, ConcatEmptySeq DEF Printed
  <1>2. CASE ~(filter # 0 /\ filter # m.idx)
    <2> DEFINE r == [idx |-> m.idx, q |-> m.q,
                     name |-> IF filter = 0 THEN IndexToName(m.idx) ELSE NoName]
    <2>1. m.idx \in Index /\ m.q \in Qdiscs
      BY MessageForm
    <2>2. IndexToName(m.idx) \in Name \cup {NoName, Unknown}
      BY <2>1 DEF IndexToName, TypeOK
    <2>3. r \in ShownRow /\ r.idx = m.idx /\ r.q = m.q
      BY <2>1, <2>2 DEF ShownRow
    <2>4. Printed(m) = <<r>>
      BY <1>2 DEF Printed
    <2> HIDE DEF r
    <2>5. shown \o <<r>> = Append(shown, r)
      BY <2>3, AppendIsConcat
    <2> QED
      BY <1>2, <2>3, <2>4, <2>5
  <1> QED
    BY <1>1, <1>2

LEMMA ShownAppend ==
  ASSUME NEW s \in Seq(ShownRow), NEW r \in ShownRow
  PROVE  /\ Append(s, r) \in Seq(ShownRow)
         /\ \A a \in DOMAIN s : a \in DOMAIN Append(s, r) /\ Append(s, r)[a] = s[a]
         /\ Len(s) + 1 \in DOMAIN Append(s, r) /\ Append(s, r)[Len(s) + 1] = r
         /\ \A a \in DOMAIN Append(s, r) :
              a \in Nat /\ a <= Len(s) + 1 /\ (a \in DOMAIN s \/ a = Len(s) + 1)
  <1>1. /\ Append(s, r) \in Seq(ShownRow) /\ Len(s) \in Nat
        /\ DOMAIN s = 1..Len(s) /\ DOMAIN Append(s, r) = 1..Len(s)+1
        /\ \A k \in 1..Len(s) : Append(s, r)[k] = s[k]
        /\ Append(s, r)[Len(s) + 1] = r
    BY AppendProperties, LenProperties
  <1> QED
    BY <1>1

(* What one received message does to a listing.                             *)
LEMMA ListForm ==
  ASSUME TypeInv, ShownInv, List, Recv
  PROVE  \/ shown' = shown /\ ~(Mine(rx[1]) /\ rx[1].kind = "row" /\ filter \in {0, rx[1].idx})
         \/ /\ Mine(rx[1]) /\ rx[1].kind = "row" /\ filter \in {0, rx[1].idx}
            /\ \E r \in ShownRow : /\ shown' = Append(shown, r)
                                  /\ r.idx = rx[1].idx /\ r.q = rx[1].q
  <1>1. rx[1] \in Message /\ Head(rx) = rx[1]
    BY RecvForm
  <1>2. shown \in Seq(ShownRow) /\ TypeOK
    BY DEF ShownInv, TypeInv
  <1>3. \/ shown' = shown /\ ~(Mine(rx[1]) /\ rx[1].kind = "row")
        \/ Mine(rx[1]) /\ rx[1].kind = "row" /\ shown' = shown \o Printed(rx[1])
    <2>1. ~RecvError
      BY DEF Recv, RecvError
    <2> QED
      BY <1>1, <2>1 DEF List, Refusal
  <1> QED
    BY <1>1, <1>2, <1>3, PrintedForm

LEMMA HasKept ==
  ASSUME TypeInv, ShownInv, NEW i \in Index, pc' = pc, Recv,
         RememberLinks \/ List
  PROVE  /\ Has(i) => Has(i)'
         /\ Mine(rx[1]) /\ rx[1].kind = Wanted /\ rx[1].idx = i => Has(i)'
  <1>0. rx[1] \in Message /\ Head(rx) = rx[1]
    BY RecvForm
  <1>1. CASE RememberLinks
    <2>1. pc = "links" /\ links \in [Index -> Name \cup {NoName}]
      BY <1>1 DEF RememberLinks, TypeInv, TypeOK
    <2>2. \/ links' = links /\ ~(Mine(rx[1]) /\ rx[1].kind = "link")
          \/ /\ Mine(rx[1]) /\ rx[1].kind = "link"
             /\ links' = [links EXCEPT ![rx[1].idx] = rx[1].name]
      BY <1>0, <1>1, <2>1 DEF RememberLinks, Exit, RecvError, Recv
    <2>3. rx[1].kind = "link" => rx[1].name # NoName
      BY <1>0, MessageForm, NameAssumption DEF NoName
    <2> QED
      BY <2>1, <2>2, <2>3 DEF Has, Wanted
  <1>2. CASE List
    <2>1. pc = "list" /\ filter' = filter /\ shown \in Seq(ShownRow)
      BY <1>2 DEF List, ShownInv
    <2>2. CASE shown' = shown /\ ~(Mine(rx[1]) /\ rx[1].kind = "row" /\ filter \in {0, rx[1].idx})
      BY <2>1, <2>2 DEF Has, Wanted
    <2>3. ASSUME NEW r \in ShownRow, shown' = Append(shown, r), r.idx = rx[1].idx
          PROVE  /\ Has(i) => Has(i)'
                 /\ Mine(rx[1]) /\ rx[1].kind = Wanted /\ rx[1].idx = i => Has(i)'
      BY <2>1, <2>3, ShownAppend DEF Has, Wanted
    <2> QED
      BY <1>2, <2>2, <2>3, ListForm
  <1> QED
    BY <1>1, <1>2

LEMMA DumpSent ==
  ASSUME TypeInv, InitMap \/ QdiscList
  PROVE  DumpInv'
  <1>1. PICK of \in {"links", "rows"} : SendDump(of) /\ of = WantedOf'
    BY DEF InitMap, QdiscList, WantedOf
  <1>2. PICK last \in DOMAIN rx' :
          /\ \A k \in DOMAIN rx' : k = last \/ k \in DOMAIN rx
          /\ rx'[last].seq = seq'
          /\ \/ kdump' = kdump /\ rx'[last].kind = "ack"
             \/ \E d \in Dump : /\ d = [seq |-> seq + 1, of |-> of, todo |-> Index]
                               /\ rx'[last] = Piece(d) /\ kdump' = Rest(d)
    BY <1>1, SendDumpForm
  <1>3. /\ seq' = seq + 1 /\ seq \in Nat /\ kdump.seq \in Nat /\ kdump.seq <= seq
        /\ \A k \in DOMAIN rx' : rx'[k].seq = seq' => k = last
        /\ NoDump.seq = 0 /\ TypeOK
    BY <1>1, <1>2, SendDumpForm, SocketForm DEF TypeInv
  <1>4. CASE kdump' = kdump /\ rx'[last].kind = "ack"
    <2>1. kdump'.seq # seq'
      BY <1>3, <1>4
    <2> QED
      BY <1>3, <1>4, <2>1 DEF DumpInv, DumpRefused, Mine
  <1>5. ASSUME NEW d \in Dump, d = [seq |-> seq + 1, of |-> of, todo |-> Index],
               rx'[last] = Piece(d), kdump' = Rest(d)
        PROVE  DumpInv'
    <2>1. d.seq = seq' /\ d.of = WantedOf' /\ d.todo = Index
      BY <1>1, <1>3, <1>5
    <2>2. rx'[last].kind \in {Wanted', "done"}
      BY <1>3, <1>5, <2>1, PieceForm DEF Wanted, WantedOf
    <2>3. kdump'.seq = seq' => kdump'.of = WantedOf'
      BY <1>3, <1>5, <2>1, PieceForm
    <2>4. rx'[last].kind = "done" => kdump'.seq # seq'
      BY <1>3, <1>5, <2>1, PieceForm
    <2>5. ASSUME NEW i \in Index
          PROVE  InQueue(i)' \/ (kdump'.seq = seq' /\ i \in kdump'.todo)
      <3>1. /\ rx'[last].kind = Wanted' /\ kdump'.seq = seq'
            /\ kdump'.todo = Index \ {rx'[last].idx}
        BY <1>3, <1>5, <2>1, PieceForm DEF Wanted, WantedOf
      <3> QED
        BY <1>2, <3>1 DEF InQueue, Mine
    <2>6. \A n \in DOMAIN rx' : last < n => rx'[n].seq # seq'
      <3>1. \A n \in DOMAIN rx' : n \in Nat
        <4>1. rx' \in Seq(Message)
          BY <1>1, SendDumpForm
        <4> QED
          BY <4>1, LenProperties
      <3> QED
        BY <1>3, <3>1
    <2> QED
      BY <1>3, <2>2, <2>3, <2>4, <2>5, <2>6 DEF DumpInv, DumpGoesOn, Mine
  <1> QED
    BY <1>2, <1>4, <1>5

LEMMA DumpRead ==
  ASSUME TypeInv, EndInv, DumpInv, ShownInv, RememberLinks \/ List,
         pc' \in {"links", "list"}
  PROVE  DumpInv'
  <1>1. /\ Recv /\ seq' = seq /\ pc \in {"links", "list"} /\ pc' = pc
        /\ ~Ending(Head(rx))
    BY DEF RememberLinks, List, Exit, Failed, Succeeded, Refusal, Ending
  <1>2. /\ rx[1] \in Message /\ ~(rx[1].seq = seq /\ rx[1].kind \in {"ack", "done"})
        /\ 1 \in DOMAIN rx
    BY <1>1, RecvForm DEF Ending, Mine
  <1>3. /\ TypeOK /\ kdump \in Dump /\ NoDump.seq = 0 /\ seq > 0 /\ seq \in Nat
        /\ \A k \in DOMAIN rx : k \in Nat
    BY <1>1, SocketForm DEF TypeInv, EndInv
  <1>4. Piece(kdump).seq = kdump.seq /\ Piece(kdump).kind \in {"done", "link", "row"}
    BY <1>3, PieceForm
  <1>5. kdump'.seq = seq => kdump.seq = seq /\ kdump'.of = kdump.of
    <2>1. CASE kdump' = kdump
      BY <2>1
    <2>2. CASE kdump # NoDump /\ kdump' = Rest(kdump)
      BY <1>3, <2>2, PieceForm
    <2> QED
      BY <1>1, <2>1, <2>2, RecvForm
  <1>6. CASE DumpRefused
    <2>1. kdump'.seq # seq /\ kdump.seq # seq
      BY <1>5, <1>6 DEF DumpRefused
    <2>2. \A k \in DOMAIN rx' : rx'[k].seq = seq => rx'[k].kind = "ack"
      BY <1>1, <1>4, <1>6, <2>1, RecvForm DEF DumpRefused, Mine
    <2> QED
      BY <1>1, <2>1, <2>2 DEF DumpInv, DumpRefused, Mine
  <1>7. CASE DumpGoesOn
    <2>0. Wanted' = Wanted /\ WantedOf' = WantedOf /\ Wanted \in {"link", "row"}
          /\ (WantedOf = "links" <=> Wanted = "link")
      BY <1>1 DEF Wanted, WantedOf
    <2>1. ASSUME NEW k \in DOMAIN rx', rx'[k].seq = seq
          PROVE  rx'[k].kind \in {Wanted, "done"}
      <3>1. CASE k + 1 \in DOMAIN rx /\ rx'[k] = rx[k+1]
        BY <1>7, <2>1, <3>1 DEF DumpGoesOn, Mine
      <3>2. CASE rx'[k] = Piece(kdump)
        <4>1. kdump.seq = seq /\ kdump.of = WantedOf
          BY <1>4, <1>7, <2>1, <3>2 DEF DumpGoesOn
        <4> QED
          BY <1>3, <2>0, <3>2, <4>1, PieceForm
      <3> QED
        BY <1>1, <3>1, <3>2, RecvForm
    <2>2. kdump'.seq = seq => kdump'.of = WantedOf
      BY <1>5, <1>7 DEF DumpGoesOn
    <2>3. ASSUME NEW k \in DOMAIN rx', rx'[k].seq = seq, rx'[k].kind = "done"
          PROVE  kdump'.seq # seq /\ \A n \in DOMAIN rx' : k < n => rx'[n].seq # seq
      <3>1. CASE k + 1 \in DOMAIN rx /\ rx'[k] = rx[k+1]
        <4>1. /\ kdump.seq # seq
              /\ \A n \in DOMAIN rx : k + 1 < n => rx[n].seq # seq
          BY <1>7, <2>3, <3>1 DEF DumpGoesOn, Mine
        <4>2. ASSUME NEW n \in DOMAIN rx', k < n PROVE rx'[n].seq # seq
          <5>1. k \in Nat /\ n \in Nat
            BY <1>1, RecvForm
          <5>2. k + 1 < n + 1
            BY <4>2, <5>1
          <5> QED
            BY <1>1, <1>4, <4>1, <5>2, RecvForm
        <4> QED
          BY <1>5, <4>1, <4>2
      <3>2. CASE /\ kdump # NoDump /\ kdump' = Rest(kdump) /\ rx'[k] = Piece(kdump)
                 /\ \A n \in DOMAIN rx' : n <= k
        <4>1. kdump.todo = {}
          BY <1>3, <2>3, <3>2, PieceForm
        <4>2. kdump'.seq # seq
          BY <1>3, <3>2, <4>1, PieceForm
        <4>3. \A n \in DOMAIN rx' : ~(k < n)
          <5>1. \A n \in DOMAIN rx' : n \in Nat
            BY <1>1, RecvForm
          <5> QED
            BY <3>2, <5>1
        <4> QED
          BY <4>2, <4>3
      <3> QED
        BY <1>1, <3>1, <3>2, RecvForm
    <2>4. ASSUME NEW i \in Index
          PROVE  Has(i)' \/ InQueue(i)' \/ (kdump'.seq = seq /\ i \in kdump'.todo)
      <3>1. CASE Has(i)
        BY <1>1, <3>1, HasKept
      <3>2. CASE InQueue(i)
        <4>1. PICK k \in DOMAIN rx : Mine(rx[k]) /\ rx[k].kind = Wanted /\ rx[k].idx = i
          BY <3>2 DEF InQueue
        <4>2. CASE k = 1
          BY <1>1, <4>1, <4>2, HasKept
        <4>3. CASE k # 1
          <5>1. k - 1 \in DOMAIN rx' /\ rx'[k-1] = rx[k]
            BY <1>1, <4>3, RecvForm
          <5> QED
            BY <1>1, <2>0, <4>1, <5>1 DEF InQueue, Mine
        <4> QED
          BY <4>2, <4>3
      <3>3. CASE kdump.seq = seq /\ i \in kdump.todo
        <4>1. CASE kdump' = kdump
          BY <3>3, <4>1
        <4>2. ASSUME kdump' = Rest(kdump), NEW k \in DOMAIN rx', rx'[k] = Piece(kdump)
              PROVE  InQueue(i)' \/ (kdump'.seq = seq /\ i \in kdump'.todo)
          <5>1. /\ rx'[k].seq = seq /\ rx'[k].kind = Wanted
                /\ kdump'.seq = seq /\ kdump'.todo = kdump.todo \ {rx'[k].idx}
            <6>1. kdump.of = WantedOf /\ kdump.todo # {}
              BY <1>7, <3>3 DEF DumpGoesOn
            <6> QED
              BY <1>3, <2>0, <3>3, <4>2, <6>1, PieceForm
          <5> QED
            BY <1>1, <2>0, <3>3, <5>1 DEF InQueue, Mine
        <4> QED
          BY <1>1, <4>1, <4>2, RecvForm
      <3> QED
        BY <1>7, <3>1, <3>2, <3>3 DEF DumpGoesOn
    <2> QED
      BY <1>1, <2>0, <2>1, <2>2, <2>3, <2>4 DEF DumpInv, DumpGoesOn, Mine
  <1> QED
    BY <1>1, <1>6, <1>7 DEF DumpInv

LEMMA DumpNext ==
  ASSUME TypeInv, EndInv, DumpInv, ShownInv, [Next]_vars
  PROVE  DumpInv'
  <1>1. CASE Rename \/ UNCHANGED vars
    <2>1. UNCHANGED <<pc, seq, rx, kdump, links, filter, shown>>
      BY <1>1 DEF Rename, vars, socket, llmap
    <2> QED
      BY <2>1 DEF DumpInv, DumpRefused, DumpGoesOn, Mine, Wanted, WantedOf, Has, InQueue
  <1>2. CASE ReadLine \/ EndOfFile \/ NoDevice \/ QdiscModify \/ Talk
    <2>1. pc' \notin {"links", "list"}
      BY <1>2 DEF ReadLine, EndOfFile, NoDevice, QdiscModify, Talk, Failed, Succeeded, Exit
    <2> QED
      BY <2>1 DEF DumpInv
  <1>3. CASE InitMap \/ QdiscList
    BY <1>3, DumpSent
  <1>4. CASE RememberLinks \/ List
    <2>1. CASE pc' \in {"links", "list"}
      BY <1>4, <2>1, DumpRead
    <2>2. CASE pc' \notin {"links", "list"}
      BY <2>2 DEF DumpInv
    <2> QED
      BY <2>1, <2>2
  <1> QED
    BY <1>1, <1>2, <1>3, <1>4 DEF Next, Tc

------------------------------------------------------------------------------
(* Names.                                                                   *)

(* Links that enter the queue carry a name of the moment.                   *)
LEMMA LinksQueued ==
  ASSUME TypeInv, NameInv, [Next]_vars, NEW k \in DOMAIN rx', rx'[k].kind = "link"
  PROVE  <<rx'[k].name, rx'[k].idx>> \in had'
  <1>0. had \subseteq had' /\ TypeOK
    BY DEF TypeInv, Next, Tc, ReadLine, EndOfFile, InitMap, RememberLinks, NoDevice,
       QdiscModify, QdiscList, Talk, List, Rename, vars, history
  <1>1. \A n \in DOMAIN rx : rx[n].kind = "link" => <<rx[n].name, rx[n].idx>> \in had'
    BY <1>0 DEF NameInv
  <1>2. ASSUME NEW d \in Dump, Piece(d).kind = "link"
        PROVE  <<Piece(d).name, Piece(d).idx>> \in had'
    <2>1. /\ Piece(d).idx \in Index /\ Piece(d).name = ifname[Piece(d).idx]
      BY <1>0, <1>2, PieceForm
    <2> QED
      BY <1>0, <2>1 DEF NameInv
  <1>3. CASE InitMap \/ QdiscList
    <2>1. PICK of \in {"links", "rows"} : SendDump(of)
      BY <1>3 DEF InitMap, QdiscList
    <2>2. PICK last \in DOMAIN rx' :
              /\ \A n \in DOMAIN rx' : n = last \/ n \in DOMAIN rx
              /\ \/ rx'[last].kind = "ack"
                 \/ \E d \in Dump : rx'[last] = Piece(d)
      BY <2>1, SendDumpForm
    <2>3. CASE k = last
      BY <1>2, <2>2, <2>3
    <2>4. CASE k \in DOMAIN rx
      <3>1. rx'[k] = rx[k]
        BY <2>1, <2>4, SendDumpForm
      <3> QED
        BY <1>1, <2>4, <3>1
    <2> QED
      BY <2>2, <2>3, <2>4
  <1>4. CASE QdiscModify
    <2>1. SendModify(DevIndex)
      BY <1>4 DEF QdiscModify
    <2>2. k \in DOMAIN rx /\ rx'[k] = rx[k]
      BY <2>1, SendModifyForm
    <2> QED
      BY <1>1, <2>2
  <1>5. CASE Recv
    BY <1>1, <1>2, <1>5, RecvForm, SocketForm
  <1>6. CASE rx' = rx
    BY <1>1, <1>6
  <1> QED
    BY <1>3, <1>4, <1>5, <1>6 DEF Next, Tc, ReadLine, EndOfFile, RememberLinks, NoDevice,
       Talk, List, Rename, vars, socket, RecvError

(* What ll_name_to_index finds is a name the index has had.                 *)
LEMMA LookUpHad ==
  ASSUME TypeInv, NameInv, CanResolve, LookUp
  PROVE  /\ icache'.idx # 0 => <<icache'.name, icache'.idx>> \in had
         /\ cmd.dev # NoDev =>
              \/ <<cmd.dev, DevIndex>> \in had
              \/ cmd.dev \in DOMAIN IfNumber /\ DevIndex = IfNumber[cmd.dev]
  <1>1. CASE cmd.dev = NoDev
    BY <1>1 DEF LookUp, NameInv
  <1>2. CASE cmd.dev # NoDev
    <2> DEFINE n == cmd.dev
    <2>0. /\ TypeOK /\ DevIndex # 0 /\ DevIndex = NameToIndex(n)
          /\ \A i \in Index : <<links[i], i>> \in had
          /\ \A i \in Index : <<ifname[i], i>> \in had
          /\ icache.idx # 0 => <<icache.name, icache.idx>> \in had
      BY <1>2 DEF LookUp, DevIndex, NameInv, CanResolve, TypeInv
    <2>1. \/ <<n, NameToIndex(n)>> \in had
          \/ n \in DOMAIN IfNumber /\ NameToIndex(n) = IfNumber[n]
      BY <2>0, NameToIndexForm
    <2>2. (\E i \in Index : links[i] = n) => <<n, NameToIndex(n)>> \in had
      <3> SUFFICES ASSUME \E i \in Index : links[i] = n
                   PROVE  <<n, NameToIndex(n)>> \in had
        OBVIOUS
      <3>1. CASE icache.idx # 0 /\ icache.name = n
        BY <2>0, <3>1 DEF NameToIndex
      <3>2. CASE ~(icache.idx # 0 /\ icache.name = n)
        <4> DEFINE S == {i \in Index : links[i] = n}
        <4>1. NameToIndex(n) = Least(S)
          BY <3>2 DEF NameToIndex
        <4>2. Least(S) \in S
          BY LeastIs, IndexAssumption
        <4> QED
          BY <2>0, <4>1, <4>2
      <3> QED
        BY <3>1, <3>2
    <2>3. \/ icache' = icache
          \/ icache'.name = n /\ icache'.idx = NameToIndex(n) /\ \E i \in Index : links[i] = n
      BY <1>2 DEF LookUp, Cached
    <2> QED
      BY <2>0, <2>1, <2>2, <2>3
  <1> QED
    BY <1>1, <1>2

LEMMA NameNext ==
  ASSUME TypeInv, DumpInv, NameInv, [Next]_vars
  PROVE  NameInv'
  <1>1. \A k \in DOMAIN rx' : rx'[k].kind = "link" => <<rx'[k].name, rx'[k].idx>> \in had'
    BY LinksQueued
  <1>2. CASE Rename
    <2>1. UNCHANGED <<pc, llmap>>
      BY <1>2 DEF Rename
    <2>2. PICK i \in Index, n \in Name : /\ ifname' = [ifname EXCEPT ![i] = n]
                                        /\ had' = had \cup {<<n, i>>}
      BY <1>2 DEF Rename
    <2>3. ifname \in [Index -> Name]
      BY DEF TypeInv, TypeOK
    <2>4. \A j \in Index : <<ifname'[j], j>> \in had'
      BY <2>2, <2>3 DEF NameInv
    <2> QED
      BY <1>1, <2>1, <2>2, <2>4 DEF NameInv, llmap
  <1>3. CASE RememberLinks
    <2>0. UNCHANGED <<icache, ifname, had>> /\ pc = "links" /\ pc' # "list"
          /\ links \in [Index -> Name \cup {NoName}]
      BY <1>3 DEF RememberLinks, Exit, TypeInv, TypeOK
    <2>1. CASE UNCHANGED <<links, mapped>>
      BY <1>1, <2>0, <2>1 DEF NameInv
    <2>2. CASE Recv /\ Mine(Head(rx)) /\ Head(rx).kind = "done" /\ links' = links
      <3>1. \A i \in Index : links[i] # NoName
        BY <2>0, <2>2, DoneLast DEF Has
      <3> QED
        BY <1>1, <2>0, <2>2, <3>1 DEF NameInv
    <2>3. CASE /\ Recv /\ Head(rx).kind = "link" /\ mapped' = mapped
               /\ links' = [links EXCEPT ![Head(rx).idx] = Head(rx).name]
      <3>1. 1 \in DOMAIN rx /\ Head(rx) = rx[1] /\ rx[1] \in Message
        BY <2>3, RecvForm
      <3>2. rx[1].idx \in Index /\ rx[1].name # NoName
        BY <2>3, <3>1, MessageForm, NameAssumption DEF NoName
      <3>3. <<rx[1].name, rx[1].idx>> \in had
        BY <2>3, <3>1 DEF NameInv
      <3>4. \A i \in Index : links'[i] = IF i = rx[1].idx THEN rx[1].name ELSE links[i]
        BY <2>0, <2>3, <3>1
      <3> QED
        BY <1>1, <2>0, <2>3, <3>2, <3>3, <3>4 DEF NameInv
    <2> QED
      BY <1>3, <2>1, <2>2, <2>3 DEF RememberLinks
  <1>4. CASE QdiscModify \/ QdiscList
    <2>1. UNCHANGED <<links, mapped, ifname, had>> /\ CanResolve /\ LookUp
      BY <1>4 DEF QdiscModify, QdiscList
    <2>2. pc' = "list" => mapped
      BY <1>4 DEF QdiscModify, QdiscList, CanResolve
    <2>3. icache'.idx # 0 => <<icache'.name, icache'.idx>> \in had
      BY <2>1, LookUpHad
    <2> QED
      BY <1>1, <2>1, <2>2, <2>3 DEF NameInv
  <1>5. CASE \/ ReadLine \/ EndOfFile \/ InitMap \/ NoDevice \/ Talk \/ List
             \/ UNCHANGED vars
    <2>1. UNCHANGED <<links, mapped, icache, ifname, had>> /\ (pc' = "list" => pc = "list")
      BY <1>5 DEF ReadLine, EndOfFile, InitMap, NoDevice, Talk, List, vars, llmap, history,
         Exit, Failed, Succeeded
    <2> QED
      BY <1>1, <2>1 DEF NameInv
  <1> QED
    BY <1>2, <1>3, <1>4, <1>5 DEF Next, Tc

LEMMA UsedNext ==
  ASSUME TypeInv, NameInv, OnceNamed, [Next]_vars
  PROVE  OnceNamed'
  <1>0. had \subseteq had'
    BY DEF Next, Tc, ReadLine, EndOfFile, InitMap, RememberLinks, NoDevice,
       QdiscModify, QdiscList, Talk, List, Rename, vars, history
  <1>1. CASE used' = used
    BY <1>0, <1>1 DEF OnceNamed
  <1>2. CASE QdiscModify \/ QdiscList
    <2>1. CanResolve /\ LookUp
      BY <1>2 DEF QdiscModify, QdiscList
    <2>2. CASE cmd.dev = NoDev
      BY <1>1, <2>1, <2>2 DEF LookUp
    <2>3. CASE cmd.dev # NoDev
      <3>1. used' = used \cup {<<cmd.dev, DevIndex>>}
        BY <2>1, <2>3 DEF LookUp
      <3>2. \/ <<cmd.dev, DevIndex>> \in had
            \/ cmd.dev \in DOMAIN IfNumber /\ DevIndex = IfNumber[cmd.dev]
        BY <2>1, <2>3, LookUpHad
      <3> QED
        BY <1>0, <3>1, <3>2 DEF OnceNamed
    <2> QED
      BY <2>2, <2>3
  <1>3. CASE List /\ used' # used
    <2>1. /\ Recv /\ Mine(Head(rx)) /\ Head(rx).kind = "row" /\ pc = "list"
          /\ used' = used \cup {<<IndexToName(Head(rx).idx), Head(rx).idx>>}
      BY <1>3 DEF List
    <2>2. Head(rx).idx \in Index
      BY <2>1, RecvForm, MessageForm
    <2>3. /\ links[Head(rx).idx] # NoName
          /\ <<links[Head(rx).idx], Head(rx).idx>> \in had
      BY <2>1, <2>2 DEF NameInv
    <2>4. IndexToName(Head(rx).idx) = links[Head(rx).idx]
      BY <2>3 DEF IndexToName
    <2> QED
      BY <1>0, <2>1, <2>3, <2>4 DEF OnceNamed
  <1> QED
    BY <1>1, <1>2, <1>3 DEF Next, Tc, ReadLine, EndOfFile, InitMap, RememberLinks, NoDevice,
       Talk, Rename, vars, history

------------------------------------------------------------------------------
(* Rows.                                                                    *)

LEMMA RowSent ==
  ASSUME TypeInv, ControlInv, QdiscList
  PROVE  RowInv'
  <1>1. SendDump("rows") /\ UNCHANGED <<shown, qdisc>> /\ shown = <<>>
    BY DEF QdiscList, CanResolve, ControlInv
  <1>2. PICK last \in DOMAIN rx' :
          /\ \A k \in DOMAIN rx' : k = last \/ k \in DOMAIN rx
          /\ \/ rx'[last].kind = "ack"
             \/ \E d \in Dump : /\ d = [seq |-> seq + 1, of |-> "rows", todo |-> Index]
                               /\ rx'[last] = Piece(d) /\ kdump' = Rest(d)
    BY <1>1, SendDumpForm
  <1>3. /\ \A k \in DOMAIN rx' : rx'[k].seq = seq' => k = last
        /\ \A k \in DOMAIN rx' : k \in Nat /\ TypeOK /\ Index \subseteq Nat
    <2>1. rx' \in Seq(Message)
      BY <1>1, SendDumpForm
    <2> QED
      BY <1>1, <1>2, <2>1, SendDumpForm, LenProperties, IndexAssumption DEF TypeInv
  <1>4. DOMAIN shown' = {}
    BY <1>1
  <1>5. ASSUME rx'[last].kind = "row"
        PROVE  /\ rx'[last].q = Dumped(qdisc'[rx'[last].idx])
               /\ \A t \in kdump'.todo : rx'[last].idx < t
    <2>1. PICK d \in Dump : /\ d = [seq |-> seq + 1, of |-> "rows", todo |-> Index]
                            /\ rx'[last] = Piece(d) /\ kdump' = Rest(d)
      BY <1>2, <1>5
    <2>2. d.todo = Index /\ d.of # "links"
      BY <2>1
    <2>3. d.todo # {}
      BY <1>3, <1>2, <1>5, <2>1, PieceForm
    <2>4. /\ rx'[last].q = Dumped(qdisc[rx'[last].idx]) /\ rx'[last].idx \in Index
          /\ \A t \in Index : rx'[last].idx <= t
          /\ kdump'.todo = Index \ {rx'[last].idx}
      BY <1>2, <1>3, <2>1, <2>2, <2>3, PieceForm
    <2>5. \A t \in kdump'.todo : rx'[last].idx < t
      BY <1>2, <1>3, <2>4
    <2> QED
      BY <1>1, <2>4, <2>5
  <1>6. \A n \in DOMAIN rx' : rx'[n].seq = seq' => ~(last < n)
    BY <1>3
  <1> QED
    BY <1>3, <1>4, <1>5, <1>6 DEF RowInv, Mine

LEMMA RowRead ==
  ASSUME TypeInv, EndInv, RowInv, ShownInv, List, pc' = "list"
  PROVE  RowInv'
  <1>1. Recv /\ UNCHANGED <<seq, qdisc>> /\ pc = "list"
    BY DEF List, Failed, Succeeded
  <1>2. /\ TypeOK /\ kdump \in Dump /\ NoDump.seq = 0 /\ seq > 0 /\ seq \in Nat
        /\ Index \subseteq Nat
        /\ 1 \in DOMAIN rx /\ \A k \in DOMAIN rx' : k \in Nat
    BY <1>1, SocketForm, RecvForm, IndexAssumption DEF TypeInv, EndInv
  <1>3. kdump'.seq = seq =>
          kdump.seq = seq /\ kdump'.todo \subseteq kdump.todo /\ kdump'.of = kdump.of
    <2>1. CASE kdump' = kdump
      BY <2>1
    <2>2. CASE kdump # NoDump /\ kdump' = Rest(kdump)
      BY <1>2, <2>2, PieceForm
    <2> QED
      BY <1>1, <2>1, <2>2, RecvForm
  (* The rows shown afterwards.                                             *)
  <1>4. ASSUME NEW a \in DOMAIN shown'
        PROVE  \/ a \in DOMAIN shown /\ shown'[a].idx = shown[a].idx
               \/ Mine(rx[1]) /\ rx[1].kind = "row" /\ shown'[a].idx = rx[1].idx
    <2>1. CASE shown' = shown
      BY <2>1
    <2>2. ASSUME NEW r \in ShownRow, shown' = Append(shown, r), r.idx = rx[1].idx
          PROVE  \/ a \in DOMAIN shown /\ shown'[a].idx = shown[a].idx
                 \/ shown'[a].idx = rx[1].idx
      <3>1. shown \in Seq(ShownRow)
        BY DEF ShownInv
      <3> QED
        BY <2>2, <3>1, ShownAppend
    <2> QED
      BY <1>1, <2>1, <2>2, ListForm
  (* The row of a new piece.                                                *)
  <1>5. ASSUME kdump.seq = seq, Piece(kdump).kind = "row"
        PROVE  /\ Piece(kdump).idx \in kdump.todo
               /\ Piece(kdump).q = Dumped(qdisc[Piece(kdump).idx])
               /\ Rest(kdump).seq = seq => \A t \in Rest(kdump).todo : Piece(kdump).idx < t
    <2>1. kdump.todo # {} /\ kdump.of # "links"
      BY <1>2, <1>5, PieceForm
    <2>2. /\ Piece(kdump).idx \in kdump.todo /\ Piece(kdump).idx \in Index
          /\ Piece(kdump).q = Dumped(qdisc[Piece(kdump).idx])
          /\ \A t \in kdump.todo : Piece(kdump).idx <= t
          /\ Rest(kdump).todo = kdump.todo \ {Piece(kdump).idx}
      BY <1>2, <2>1, PieceForm
    <2>3. kdump.todo \subseteq Nat
      BY <1>2 DEF Dump
    <2>4. \A t \in Rest(kdump).todo : Piece(kdump).idx < t
      BY <2>2, <2>3
    <2> QED
      BY <2>2, <2>4
  <1>6. Piece(kdump).seq = kdump.seq
    BY <1>2, PieceForm
  <1>7. ASSUME NEW k \in DOMAIN rx', rx'[k].seq = seq, rx'[k].kind = "row"
        PROVE  /\ rx'[k].q = Dumped(qdisc[rx'[k].idx])
               /\ \A n \in DOMAIN rx' : k < n /\ rx'[n].seq = seq /\ rx'[n].kind = "row"
                     => rx'[k].idx < rx'[n].idx
               /\ kdump'.seq = seq => \A t \in kdump'.todo : rx'[k].idx < t
               /\ \A a \in DOMAIN shown' : shown'[a].idx < rx'[k].idx
    <2>1. CASE k + 1 \in DOMAIN rx /\ rx'[k] = rx[k+1]
      <3>1. /\ rx[k+1].q = Dumped(qdisc[rx[k+1].idx])
            /\ \A n \in DOMAIN rx : k + 1 < n /\ rx[n].seq = seq /\ rx[n].kind = "row"
                  => rx[k+1].idx < rx[n].idx
            /\ kdump.seq = seq => \A t \in kdump.todo : rx[k+1].idx < t
            /\ \A a \in DOMAIN shown : shown[a].idx < rx[k+1].idx
        BY <1>1, <1>7, <2>1 DEF RowInv, Mine
      <3>2. ASSUME NEW n \in DOMAIN rx', k < n, rx'[n].seq = seq, rx'[n].kind = "row"
            PROVE  rx'[k].idx < rx'[n].idx
        <4>1. CASE n + 1 \in DOMAIN rx /\ rx'[n] = rx[n+1]
          <5>1. k + 1 < n + 1
            BY <1>2, <3>2
          <5> QED
            BY <2>1, <3>1, <3>2, <4>1, <5>1
        <4>2. CASE rx'[n] = Piece(kdump)
          BY <1>5, <1>6, <2>1, <3>1, <3>2, <4>2
        <4> QED
          BY <1>1, <4>1, <4>2, RecvForm
      <3>3. rx[1].seq = seq /\ rx[1].kind = "row" => rx[1].idx < rx[k+1].idx
        <4>1. 1 < k + 1
          <5>1. k \in 1..Len(rx')
            <6>1. rx' \in Seq(Message)
              BY <1>1, RecvForm
            <6> QED
              BY <6>1, LenProperties
          <5> QED
            BY <1>2, <5>1
        <4> QED
          BY <1>1, <1>2, <1>7, <2>1, <4>1 DEF RowInv, Mine
      <3> QED
        BY <1>3, <1>4, <2>1, <3>1, <3>2, <3>3 DEF Mine
    <2>2. CASE /\ kdump' = Rest(kdump) /\ rx'[k] = Piece(kdump)
               /\ \A n \in DOMAIN rx' : n <= k
      <3>1. kdump.seq = seq /\ Piece(kdump).kind = "row"
        BY <1>6, <1>7, <2>2
      <3>2. \A n \in DOMAIN rx' : ~(k < n)
        BY <1>2, <2>2
      <3>3. \A a \in DOMAIN shown : shown[a].idx < Piece(kdump).idx
        BY <1>1, <1>5, <3>1 DEF RowInv
      <3>4. rx[1].seq = seq /\ rx[1].kind = "row" => rx[1].idx < Piece(kdump).idx
        BY <1>1, <1>2, <1>5, <3>1 DEF RowInv, Mine
      <3> QED
        BY <1>4, <1>5, <2>2, <3>1, <3>2, <3>3, <3>4 DEF Mine
    <2> QED
      BY <1>1, <2>1, <2>2, RecvForm
  <1>8. ASSUME kdump'.seq = seq, NEW a \in DOMAIN shown', NEW t \in kdump'.todo
        PROVE  shown'[a].idx < t
    <2>1. kdump.seq = seq /\ t \in kdump.todo
      BY <1>3, <1>8
    <2> QED
      BY <1>1, <1>2, <1>4, <2>1 DEF RowInv, Mine
  <1> QED
    BY <1>1, <1>7, <1>8 DEF RowInv, Mine

LEMMA RowNext ==
  ASSUME TypeInv, ControlInv, EndInv, RowInv, ShownInv, [Next]_vars
  PROVE  RowInv'
  <1>1. CASE QdiscList
    BY <1>1, RowSent
  <1>2. CASE List
    <2>1. CASE pc' = "list"
      BY <1>2, <2>1, RowRead
    <2>2. CASE pc' # "list"
      BY <2>2 DEF RowInv
    <2> QED
      BY <2>1, <2>2
  <1>3. CASE Rename \/ UNCHANGED vars
    <2>1. UNCHANGED <<pc, seq, rx, kdump, shown, qdisc>>
      BY <1>3 DEF Rename, vars, socket
    <2> QED
      BY <2>1 DEF RowInv, Mine
  <1>4. CASE ReadLine \/ EndOfFile \/ InitMap \/ RememberLinks \/ NoDevice \/ QdiscModify \/ Talk
    <2>1. pc' # "list"
      BY <1>4 DEF ReadLine, EndOfFile, InitMap, RememberLinks, NoDevice, QdiscModify, Talk,
         Failed, Succeeded, Exit
    <2> QED
      BY <2>1 DEF RowInv
  <1> QED
    BY <1>1, <1>2, <1>3, <1>4 DEF Next, Tc

LEMMA ShownNext ==
  ASSUME TypeInv, ControlInv, DumpInv, RowInv, ShownInv, [Next]_vars
  PROVE  ShownInv'
  <1>0. shown \in Seq(ShownRow) /\ <<>> \in Seq(ShownRow) /\ DOMAIN <<>> = {}
    BY EmptySeq DEF ShownInv
  <1>1. CASE shown' = <<>> /\ verdict' # "ok"
    BY <1>0, <1>1 DEF ShownInv
  <1>2. CASE ReadLine
    BY <1>1, <1>2 DEF ReadLine, Exit, Failed
  <1>3. CASE InitMap \/ RememberLinks \/ NoDevice \/ QdiscModify \/ QdiscList
    <2>1. shown' = <<>> /\ verdict' # "ok"
      <3>1. pc \in {"links", "resolve"} /\ shown' = shown
        BY <1>3 DEF InitMap, RememberLinks, NoDevice, QdiscModify, QdiscList, CanResolve
      <3>2. shown = <<>> /\ verdict = "none"
        BY <3>1 DEF ControlInv
      <3>3. verdict' \in {verdict, "failed"}
        BY <1>3 DEF InitMap, RememberLinks, NoDevice, QdiscModify, QdiscList, Exit, Failed,
           history
      <3> QED
        BY <3>1, <3>2, <3>3
    <2> QED
      BY <1>1, <2>1
  <1>4. CASE Talk
    <2>1. UNCHANGED <<shown, qdisc, filter>> /\ cmd.op # "list"
      BY <1>4 DEF Talk, ControlInv
    <2>2. ~(verdict' = "ok" /\ cmd'.op = "list")
      <3>1. verdict = "none"
        BY <1>4 DEF Talk, ControlInv
      <3> QED
        BY <1>4, <2>1, <3>1 DEF Talk, Failed, Succeeded
    <2> QED
      BY <2>1, <2>2 DEF ShownInv
  <1>5. CASE EndOfFile
    <2>1. UNCHANGED <<shown, qdisc, filter>> /\ cmd'.op # "list"
      BY <1>5, NoLineForm DEF EndOfFile
    <2> QED
      BY <2>1 DEF ShownInv
  <1>6. CASE Rename \/ UNCHANGED vars
    <2>1. UNCHANGED <<shown, qdisc, filter, verdict, cmd>>
      BY <1>6 DEF Rename, vars
    <2> QED
      BY <2>1 DEF ShownInv
  <1>7. CASE List
    <2>0. UNCHANGED <<qdisc, filter>> /\ pc = "list" /\ verdict = "none"
      BY <1>7 DEF List, ControlInv
    <2>1. ASSUME verdict' = "ok", NEW i \in Index, filter' \in {0, i}
          PROVE  \E a \in DOMAIN shown' : shown'[a].idx = i
      <3>1. /\ Recv /\ Mine(Head(rx)) /\ Head(rx).kind = "done" /\ shown' = shown
        BY <1>7, <2>0, <2>1 DEF List, Failed, Succeeded
      <3>2. Has(i)
        BY <2>0, <3>1, DoneLast
      <3> QED
        BY <2>0, <2>1, <3>1, <3>2 DEF Has
    <2>2. CASE shown' = shown
      BY <2>0, <2>1, <2>2 DEF ShownInv
    <2>3. ASSUME NEW r \in ShownRow, shown' = Append(shown, r), Recv,
                 Mine(rx[1]), rx[1].kind = "row", filter \in {0, rx[1].idx},
                 r.idx = rx[1].idx, r.q = rx[1].q
          PROVE  ShownInv'
      <3> DEFINE n == Len(shown) + 1
      <3>1. /\ shown' \in Seq(ShownRow)
            /\ \A a \in DOMAIN shown : a \in DOMAIN shown' /\ shown'[a] = shown[a]
            /\ n \in DOMAIN shown' /\ shown'[n] = r
            /\ \A a \in DOMAIN shown' : a \in Nat /\ a <= n /\ (a \in DOMAIN shown \/ a = n)
        BY <1>0, <2>3, ShownAppend
      <3>2. /\ r.q = Dumped(qdisc[r.idx]) /\ \A a \in DOMAIN shown : shown[a].idx < r.idx
        BY <2>0, <2>3, RecvForm DEF RowInv
      <3>3. \A a \in DOMAIN shown' : ~(n < a)
        BY <3>1
      <3> HIDE DEF n
      <3>4. ASSUME NEW a \in DOMAIN shown'
            PROVE  /\ shown'[a].q = Dumped(qdisc'[shown'[a].idx])
                   /\ filter' \in {0, shown'[a].idx}
                   /\ \A b \in DOMAIN shown' : a < b => shown'[a].idx < shown'[b].idx
        <4>1. CASE a \in DOMAIN shown
          BY <2>0, <3>1, <3>2, <4>1 DEF ShownInv
        <4>2. CASE a = n
          BY <2>0, <2>3, <3>1, <3>2, <3>3, <4>2
        <4> QED
          BY <3>1, <4>1, <4>2
      <3> QED
        BY <2>1, <3>1, <3>4 DEF ShownInv
    <2>4. CASE RecvError
      BY <1>7, <2>2, <2>4 DEF List, Recv, RecvError
    <2> QED
      BY <1>7, <2>2, <2>3, <2>4, ListForm DEF List
  <1> QED
    BY <1>2, <1>3, <1>4, <1>5, <1>6, <1>7 DEF Next, Tc

LEMMA OptionNext ==
  ASSUME TypeInv, ControlInv, OptionInv, [Next]_vars
  PROVE  OptionInv'
  <1>1. CASE UNCHANGED <<qdisc, typedFor>>
    BY <1>1 DEF OptionInv
  <1>2. CASE QdiscModify
    <2> DEFINE i == DevIndex
    <2>1. /\ SendModify(i) /\ cmd.op # "list" /\ cmd \in Line
          /\ cmd.op # "fatal" /\ ~Complains(cmd)
          /\ qdisc \in [Index -> Qdiscs]
      BY <1>2 DEF QdiscModify, CanResolve, ControlInv, TypeInv, TypeOK, Qdiscs
    <2>2. CASE ~Executes(cmd, i)
      BY <1>1, <2>1, <2>2 DEF SendModify
    <2>3. CASE Executes(cmd, i)
      <3>1. i \in Index /\ typedFor' = [typedFor EXCEPT ![i] = cmd.typed]
        BY <2>1, <2>3 DEF SendModify, Executes
      <3>0. typedFor' \in [Index -> Typed \cup {NoOptions}] /\ typedFor'[i] = cmd.typed
            /\ \A j \in Index : j # i => typedFor'[j] = typedFor[j]
        BY <2>1, <3>1, LineForm DEF OptionInv
      <3>2. CASE cmd.op = "delete"
        <4>1. qdisc' = [qdisc EXCEPT ![i] = Default]
          BY <2>1, <2>3, <3>2 DEF SendModify
        <4>2. ASSUME NEW j \in Index, qdisc'[j].kind = "rbfgrad"
              PROVE  j # i /\ qdisc'[j] = qdisc[j]
          BY <2>1, <4>1, <4>2, DefaultForm
        <4> HIDE DEF i
        <4> QED
          BY <3>0, <4>2 DEF OptionInv
      <3>3. CASE cmd.op # "delete"
        <4>1. qdisc' = [qdisc EXCEPT ![i] = [kind |-> "rbfgrad", opt |-> Parsed(cmd.typed)]]
          BY <2>1, <2>3, <3>3 DEF SendModify
        <4>2. cmd.typed \in Typed /\ ~Refused(cmd.typed)
          <5>1. cmd.op \in {"add", "change", "replace", "link"}
            BY <2>1, <3>3, LineForm DEF Complains
          <5> QED
            BY <2>1, <5>1, LineForm DEF Complains
        <4>3. Parsed(cmd.typed)["q_ref"] > 0
          <5>1. Parsed(cmd.typed) \in [Option -> Int] /\ "q_ref" \in Option
            BY <4>2, ParsedForm DEF Option
          <5> QED
            BY <4>2, <5>1 DEF Refused
        <4> HIDE DEF i
        <4> QED
          BY <2>1, <3>0, <3>1, <4>1, <4>3 DEF OptionInv
      <3> QED
        BY <3>2, <3>3
    <2> QED
      BY <2>2, <2>3
  <1> QED
    BY <1>1, <1>2 DEF Next, Tc, ReadLine, EndOfFile, InitMap, RememberLinks, NoDevice,
       QdiscList, Talk, List, Rename, vars, history

------------------------------------------------------------------------------
(* The theorems.                                                            *)

BatchInv ==
  /\ TypeInv /\ ControlInv /\ AckInv /\ EndInv /\ DumpInv /\ NameInv /\ OnceNamed
  /\ RowInv /\ ShownInv /\ OptionInv

LEMMA BatchInit == Init => BatchInv
  <1> SUFFICES ASSUME Init PROVE BatchInv
    OBVIOUS
  <1>1. TypeInv
    BY TypeInit
  <1>2. ControlInv /\ AckInv /\ EndInv /\ DumpInv /\ RowInv
    BY DEF Init, ControlInv, AckInv, EndInv, DumpInv, RowInv
  <1>3. NameInv /\ OnceNamed
    <2>1. /\ \A i \in Index : links[i] = NoName
          /\ \A i \in Index : <<ifname[i], i>> \in had
          /\ icache.idx = 0 /\ mapped = FALSE /\ used = {} /\ pc = "line"
      BY DEF Init
    <2>2. DOMAIN rx = {}
      BY EmptySeq, LenProperties DEF Init
    <2> QED
      BY <2>1, <2>2 DEF NameInv, OnceNamed
  <1>4. ShownInv
    BY EmptySeq DEF Init, ShownInv
  <1>5. OptionInv
    <2>1. \A i \in Index : qdisc[i].kind # "rbfgrad"
      BY DefaultForm DEF Init
    <2>2. typedFor \in [Index -> Typed \cup {NoOptions}]
      BY DEF Init
    <2> QED
      BY <2>1, <2>2 DEF OptionInv
  <1> QED
    BY <1>1, <1>2, <1>3, <1>4, <1>5 DEF BatchInv

(* The invariant that holds the queue, the dump in progress, the names and  *)
(* the rows together is kept by every step of tc, of the kernel and of the  *)
(* other administrator.                                                     *)
THEOREM BatchInvariant == Spec => []BatchInv
  <1>1. BatchInv /\ [Next]_vars => BatchInv'
    BY TypeNext, ControlNext, AckNext, EndNext, DumpNext, NameNext, UsedNext, RowNext,
       ShownNext, OptionNext DEF BatchInv
  <1> QED
    BY <1>1, BatchInit, PTL DEF Spec

(* Type correctness: no message in the queue is from the future.            *)
THEOREM BatchTypeCorrect == Spec => []TypeOK
  <1>1. BatchInv => TypeOK
    BY DEF BatchInv, TypeInv
  <1> QED
    BY <1>1, BatchInvariant, PTL

(* rtnl_talk and rtnl_dump_filter_l never take an old answer for the answer *)
(* to their own request: what tc calls a success, the kernel did.           *)
THEOREM SuccessCorrect == Spec => []SuccessIsReal
  <1>1. BatchInv => SuccessIsReal
    BY DEF BatchInv, ControlInv, SuccessIsReal
  <1> QED
    BY <1>1, BatchInvariant, PTL

(* An exit status of 0 means that every line of the batch was carried out,  *)
(* with -force as well as without.                                          *)
THEOREM ExitCorrect == Spec => []ExitZeroMeansDone
  <1>1. BatchInv => ExitZeroMeansDone
    BY DEF BatchInv, ControlInv, ExitZeroMeansDone
  <1> QED
    BY <1>1, BatchInvariant, PTL

(* tc never blocks in recvmsg with nothing on the way.                      *)
THEOREM AnswerCorrect == Spec => []AnswerComes
  <1>1. BatchInv => AnswerComes
    BY DEF BatchInv, AckInv, EndInv, Ending, Mine, AnswerComes
  <1> QED
    BY <1>1, BatchInvariant, PTL

(* However interfaces are renamed, a name and an index that tc puts         *)
(* together belonged together once.                                         *)
THEOREM NamesCorrect == Spec => []OnceNamed
  <1>1. BatchInv => OnceNamed
    BY DEF BatchInv
  <1> QED
    BY <1>1, BatchInvariant, PTL

(* What is printed for an rbfgrad qdisc is what was typed for it in the     *)
(* last command that the kernel executed.                                   *)
THEOREM OptionsCorrect == Spec => []ShownAsTyped
  <1>1. BatchInv => ShownAsTyped
    <2> SUFFICES ASSUME BatchInv, NEW k \in DOMAIN shown, shown[k].q.kind = "rbfgrad"
                 PROVE  /\ shown[k].q.opt["q_ref"] > 0
                        /\ \A o \in DOMAIN typedFor[shown[k].idx] \cap Answered :
                             shown[k].q.opt[o] = typedFor[shown[k].idx][o]
      BY DEF ShownAsTyped
    <2> DEFINE i == shown[k].idx
               t == typedFor[i]
    <2>1. shown[k].q = Dumped(qdisc[i]) /\ shown[k] \in ShownRow
      BY ElementOfSeq, LenProperties DEF BatchInv, ShownInv
    <2>2. i \in Index
      BY <2>1 DEF ShownRow
    <2>3. qdisc[i] \in Qdiscs
      BY <2>2 DEF BatchInv, TypeInv, TypeOK, Qdiscs
    <2>4. qdisc[i].kind = "rbfgrad"
      BY <2>1, <2>3 DEF Dumped, Qdiscs
    <2>5. qdisc[i].opt = Parsed(t) /\ Parsed(t)["q_ref"] > 0
          /\ t \in Typed \cup {NoOptions}
      BY <2>2, <2>4 DEF BatchInv, OptionInv
    <2> HIDE DEF t, i
    <2>6. shown[k].q.opt = [Parsed(t) EXCEPT !["p_min"] = 0, !["ecn"] = 0]
      BY <2>1, <2>3, <2>4, <2>5 DEF Dumped, Qdiscs
    <2>7. Parsed(t) = [o \in Option |-> IF o \in DOMAIN t THEN t[o] ELSE 0]
      BY DEF Parsed
    <2>8. \A o \in Option : shown[k].q.opt[o] =
            IF o \in {"p_min", "ecn"} THEN 0 ELSE IF o \in DOMAIN t THEN t[o] ELSE 0
      BY <2>6, <2>7
    <2>9. shown[k].q.opt["q_ref"] = Parsed(t)["q_ref"]
      BY <2>6, <2>7 DEF Option
    <2>10. \A o \in DOMAIN t \cap Answered : shown[k].q.opt[o] = t[o]
      BY <2>8 DEF Answered, Option
    <2> QED
      BY <2>5, <2>9, <2>10 DEF t, i
  <1> QED
    BY <1>1, BatchInvariant, PTL

(* A listing that succeeds has each interface once, or the one that was     *)
(* asked for, with what the kernel has for it.                              *)
THEOREM ListingCorrect == Spec => []ListingExact
  <1>1. BatchInv => ListingExact
    <2> SUFFICES ASSUME BatchInv, verdict = "ok", cmd.op = "list"
                 PROVE  LET rows == {shown[k] : k \in DOMAIN shown} IN
                        /\ {r.idx : r \in rows}
                             = IF filter = 0 THEN Index ELSE {filter} \cap Index
                        /\ Len(shown) = Cardinality({r.idx : r \in rows})
                        /\ \A r \in rows : r.q = Dumped(qdisc[r.idx])
      BY DEF ListingExact
    <2> DEFINE rows == {shown[k] : k \in DOMAIN shown}
               n == Len(shown)
               S == {r.idx : r \in rows}
    <2>0. /\ n \in Nat /\ DOMAIN shown = 1..n
          /\ \A k \in DOMAIN shown : shown[k] \in ShownRow /\ shown[k].idx \in Index
          /\ \A a \in DOMAIN shown :
               /\ shown[a].q = Dumped(qdisc[shown[a].idx])
               /\ filter \in {0, shown[a].idx}
               /\ \A b \in DOMAIN shown : a < b => shown[a].idx < shown[b].idx
          /\ \A i \in Index : filter \in {0, i} => \E a \in DOMAIN shown : shown[a].idx = i
      <3>1. shown \in Seq(ShownRow)
        BY DEF BatchInv, ShownInv
      <3>2. \A k \in 1..Len(shown) : shown[k] \in ShownRow
        BY <3>1, ElementOfSeq
      <3>3. \A k \in 1..Len(shown) : shown[k].idx \in Index
        BY <3>2 DEF ShownRow
      <3> QED
        BY <3>1, <3>2, <3>3, LenProperties DEF BatchInv, ShownInv
    <2>1. S = IF filter = 0 THEN Index ELSE {filter} \cap Index
      BY <2>0
    <2>2. n = Cardinality(S)
      <3> DEFINE f == [k \in 1..n |-> shown[k].idx]
      <3>1. S = {shown[k].idx : k \in 1..n}
        BY <2>0
      <3>2. f \in [1..n -> S]
        BY <3>1
      <3>3. \A a, b \in 1..n : f[a] = f[b] => a = b
        <4> SUFFICES ASSUME NEW a \in 1..n, NEW b \in 1..n, shown[a].idx = shown[b].idx
                     PROVE  a = b
          OBVIOUS
        <4>1. shown[a].idx \in Nat /\ a \in DOMAIN shown /\ b \in DOMAIN shown
          BY <2>0, IndexAssumption
        <4>2. ~(a < b) /\ ~(b < a)
          BY <2>0, <4>1
        <4> QED
          BY <4>2
      <3>4. \A x \in S : \E a \in 1..n : f[a] = x
        BY <3>1
      <3>5. f \in Bijection(1..n, S)
        BY <3>2, <3>3, <3>4 DEF Bijection, Injection, Surjection, IsInjective
      <3>6. IsFiniteSet(1..n) /\ Cardinality(1..n) = n
        <4>1. n \in Int /\ 1 \in Int /\ (IF 1 > n THEN 0 ELSE n - 1 + 1) = n
          BY <2>0
        <4>2. IsFiniteSet(1..n) /\ Cardinality(1..n) = IF 1 > n THEN 0 ELSE n - 1 + 1
          BY <4>1, FS_Interval, Zenon
        <4> QED
          BY <4>1, <4>2
      <3>7. ExistsBijection(1..n, S)
        BY <3>5 DEF ExistsBijection
      <3> QED
        BY <3>6, <3>7, FS_Bijection
    <2>3. \A r \in rows : r.q = Dumped(qdisc[r.idx])
      BY <2>0
    <2> QED
      BY <2>1, <2>2, <2>3
  <1> QED
    BY <1>1, BatchInvariant, PTL
==============================================================================
