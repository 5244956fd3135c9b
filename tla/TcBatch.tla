------------------------------- MODULE TcBatch -------------------------------
(***************************************************************************)
(* A batch of "tc qdisc" commands: the loop of batch() in tc/tc.c, the     *)
(* rbfgrad option parser and printer, the interface cache of lib/ll_map.c  *)
(* and the request/reply protocol of lib/libnetlink.c, all of them over    *)
(* ONE netlink socket whose receive queue outlives a command.  A command   *)
(* that gives up early (a receive error) leaves its replies in the queue,  *)
(* and the kernel leaves its half finished dump in progress, for the       *)
(* commands after it.                                                      *)
(*                                                                         *)
(* tc is one thread.  The kernel executes a request inside sendmsg and     *)
(* queues the reply; a dump is produced piece by piece, the first piece in *)
(* sendmsg and one more in each recvmsg.  Another administrator may rename *)
(* interfaces at any time.                                                 *)
(***************************************************************************)
EXTENDS Integers, Sequences, FiniteSets

CONSTANTS
  Index,        \* the interface indices of the machine
  Name,         \* the names an interface can have
  FirstName,    \* the name of each interface when the batch starts
  IfNumber,     \* the words "if<n>" a user may type, with the n of each
  Typed,        \* the option lists a user may type after "rbfgrad"
  MaxLines,     \* bound: lines of the batch file
  MaxMishaps    \* bound: renames by another administrator and replies the
                \* kernel has no memory for, together

ASSUME IndexAssumption == Index \subseteq Nat \ {0} /\ IsFiniteSet(Index)
ASSUME NameAssumption ==
  /\ FirstName \in [Index -> Name]
  /\ \A i, j \in Index : FirstName[i] = FirstName[j] => i = j
  /\ "no name" \notin Name    \* NoName below
ASSUME NumberAssumption == \A w \in DOMAIN IfNumber : IfNumber[w] \in Nat
ASSUME TypedAssumption == \A t \in Typed : \A o \in DOMAIN t : t[o] \in Int
ASSUME BoundAssumption == MaxLines \in Nat /\ MaxMishaps \in Nat

VARIABLES
  pc,       \* "line", "links", "resolve", "talk", "list" or "over"
  force,    \* the option -force
  left,     \* lines that may still be read
  cmd,      \* the line being executed
  ret,      \* the exit status of tc
  seq,      \* rth.seq: number of the last request sent
  links,    \* idx_head: the remembered name of each index
  mapped,   \* ll_init_map's "initialized"
  icache,   \* the last name found by ll_name_to_index, with its index
  filter,   \* filter_ifindex of tc_qdisc.c
  shown,    \* the rows the current listing has printed
  rx,       \* the receive queue of the socket
  skerr,    \* the error that the next recvmsg returns
  kdump,    \* the dump in progress on the socket
  ifname,   \* the kernel's interfaces
  qdisc,    \* the root qdisc of each interface
  budget,   \* mishaps that may still happen
  had,      \* history: every name each index has had
  used,     \* history: the names and indices tc has put together
  done,     \* history: the kernel executed the current request
  verdict,  \* history: what tc made of the last line
  undone,   \* history: some line was not carried out
  typedFor  \* history: the options of the last executed command, by index

vars == <<pc, force, left, cmd, ret, seq, links, mapped, icache, filter, shown,
          rx, skerr, kdump, ifname, qdisc, budget, had, used, done, verdict,
          undone, typedFor>>
socket == <<rx, skerr, kdump>>
llmap == <<links, mapped, icache>>
history == <<had, used, done, verdict, undone, typedFor>>

NoDev == "no dev"
NoName == "no name"
Unknown == "if%d"
NoOptions == [o \in {} |-> 0]
NoDump == [seq |-> 0, of |-> "none", todo |-> {}]

\* The members of struct tc_rbfgrad_qopt, as far as they behave differently.
Option == {"limit", "q_ref", "p_min", "p_max", "ecn"}

NoLine == [op |-> "garbled", dev |-> NoDev, typed |-> NoOptions]

Word == Name \cup DOMAIN IfNumber \cup {NoDev}

\* The lines of a batch file.  A garbled line has a word that tc complains
\* about; a fatal one makes invarg, duparg or NEXT_ARG call exit.  The word
\* "help" only prints: usage() returns and the line goes on without the word.
Line == [op : {"add", "change", "replace", "link"}, dev : Word, typed : Typed]
          \cup [op : {"delete", "list"}, dev : Word, typed : {NoOptions}]
          \cup [op : {"garbled", "fatal"}, dev : {NoDev}, typed : {NoOptions}]

Least(S) == CHOOSE x \in S : \A y \in S : x <= y

------------------------------------------------------------------------------
(* The option parser and printer of tc, and the kernel's dump               *)

\* What rbfgrad_parse_opt sends: opt is cleared first, so that an option that
\* was not typed is 0.  The defaults it assigns are those of local variables
\* that only the messages after the parsing look at.
\* Mutant: the branch for p_max stores where the one for p_min does.
Parsed_MaxIntoMin(typed) ==
  [o \in Option |-> IF o = "p_min" /\ "p_max" \in DOMAIN typed THEN typed["p_max"]
                    ELSE IF o \in DOMAIN typed \ {"p_max"} THEN typed[o] ELSE 0]
Parsed(typed) == [o \in Option |-> IF o \in DOMAIN typed THEN typed[o] ELSE 0]

\* The only value that rbfgrad_parse_opt refuses; the checks of p_init, p_max
\* and p_min that follow look at the local variables and only print.
Refused(typed) == Parsed(typed)["q_ref"] <= 0

\* rbfgrad_dump leaves p_init, p_min and the flags of the answer at 0, and
\* rbfgrad_print_opt prints what it gets.
Dumped(q) ==
  IF q.kind = "rbfgrad"
  THEN [q EXCEPT !.opt = [@ EXCEPT !["p_min"] = 0, !["ecn"] = 0]]
  ELSE q

Default == [kind |-> "pfifo_fast", opt |-> Parsed(NoOptions)]

------------------------------------------------------------------------------
(* The kernel's side of the socket                                         *)

\* The next piece of dump d: a row for the least index left, or the end.
Piece(d) ==
  IF d.todo = {} THEN [seq |-> d.seq, kind |-> "done"]
  ELSE LET i == Least(d.todo) IN
       IF d.of = "links"
       THEN [seq |-> d.seq, kind |-> "link", idx |-> i, name |-> ifname[i]]
       ELSE [seq |-> d.seq, kind |-> "row", idx |-> i, q |-> Dumped(qdisc[i])]

Rest(d) == IF d.todo = {} THEN NoDump ELSE [d EXCEPT !.todo = @ \ {Least(@)}]

Ack(s, err) == [seq |-> s, kind |-> "ack", err |-> err]

\* A dump request: refused (EBUSY) while a dump is in progress.
SendDump(of) ==
  LET d == [seq |-> seq + 1, of |-> of, todo |-> Index] IN
  /\ seq' = seq + 1
  /\ IF kdump = NoDump
     THEN /\ rx' = Append(rx, Piece(d))
          /\ kdump' = Rest(d)
     ELSE /\ rx' = Append(rx, Ack(seq + 1, TRUE))
          /\ UNCHANGED kdump
  /\ UNCHANGED <<skerr, budget>>

\* recvmsg with a message: it is taken, and a dump in progress goes on, unless
\* there is no memory for its next piece.
Recv ==
  /\ ~skerr /\ rx # <<>>
  /\ \/ /\ kdump = NoDump
        /\ rx' = Tail(rx)
        /\ UNCHANGED <<kdump, skerr, budget>>
     \/ /\ kdump # NoDump
        /\ rx' = Append(Tail(rx), Piece(kdump))
        /\ kdump' = Rest(kdump)
        /\ UNCHANGED <<skerr, budget>>
     \/ /\ kdump # NoDump /\ budget > 0
        /\ rx' = Tail(rx)
        /\ skerr' = TRUE
        /\ budget' = budget - 1
        /\ UNCHANGED kdump

\* recvmsg with an error other than EINTR and EAGAIN, which the loops retry.
RecvError == skerr /\ skerr' = FALSE /\ UNCHANGED <<rx, kdump, budget>>

\* Whether the kernel executes request c for interface i.
Executes(c, i) ==
  /\ i \in Index
  /\ CASE c.op = "add" -> qdisc[i] = Default
       [] c.op = "replace" -> TRUE
       [] OTHER -> qdisc[i] # Default

\* The kernel executes a request for interface i inside sendmsg, and then
\* acknowledges it if there is memory for the answer.
SendModify(i) ==
  LET ok == Executes(cmd, i) IN
  /\ seq' = seq + 1
  /\ done' = ok
  /\ undone' = (undone \/ ~ok)
  /\ qdisc' = IF ~ok THEN qdisc
              ELSE [qdisc EXCEPT ![i] =
                      IF cmd.op = "delete" THEN Default
                      ELSE [kind |-> "rbfgrad", opt |-> Parsed(cmd.typed)]]
  /\ typedFor' = IF ok THEN [typedFor EXCEPT ![i] = cmd.typed] ELSE typedFor
  /\ \/ /\ rx' = Append(rx, Ack(seq + 1, ~ok))
        /\ UNCHANGED <<skerr, budget>>
     \/ /\ budget > 0
        /\ skerr' = TRUE
        /\ budget' = budget - 1
        /\ UNCHANGED rx
  /\ UNCHANGED kdump

\* Another administrator gives interface i a name that is free.  What happens
\* after tc has exited is left out.
Rename ==
  /\ pc # "over"
  /\ budget > 0
  /\ \E i \in Index, n \in Name :
       /\ \A j \in Index : ifname[j] # n
       /\ ifname' = [ifname EXCEPT ![i] = n]
       /\ had' = had \cup {<<n, i>>}
  /\ budget' = budget - 1
  /\ UNCHANGED <<pc, force, left, cmd, ret, seq, llmap, filter, shown, socket,
                 qdisc, used, done, verdict, undone, typedFor>>

------------------------------------------------------------------------------
(* The loop of batch()                                                     *)

\* do_cmd returned 0.
Succeeded ==
  /\ pc' = "line"
  /\ verdict' = "ok"
  /\ UNCHANGED <<ret, cmd>>

\* do_cmd returned something else.
Failed_Forgiven ==
  /\ pc' = IF force THEN "line" ELSE "over"
  /\ verdict' = "failed"
  /\ ret' = IF force THEN ret ELSE 1
  /\ cmd' = NoLine
Failed ==
  /\ pc' = IF force THEN "line" ELSE "over"
  /\ verdict' = "failed"
  /\ ret' = 1
  /\ cmd' = NoLine

\* exit() from inside a command, whatever -force says.
Exit ==
  /\ pc' = "over"
  /\ verdict' = "failed"
  /\ ret' = 1
  /\ cmd' = NoLine

\* The parsing of the arguments in tc_qdisc_modify returns with an error: a
\* word is wrong or the option parser refuses.  ("delete" is typed without a
\* kind here, so that it has no options to parse.)
Complains(c) ==
  \/ c.op = "garbled"
  \/ c.op \in {"add", "change", "replace", "link"} /\ Refused(c.typed)

\* getcmdline, makeargs and do_cmd.
ReadLine ==
  /\ pc = "line" /\ left > 0
  /\ \E c \in Line :
       \/ c.op = "fatal" /\ Exit /\ undone' = TRUE
       \/ Complains(c) /\ Failed /\ undone' = TRUE
       \/ /\ c.op # "fatal" /\ ~Complains(c)
          /\ cmd' = c
          /\ pc' = "resolve"
          /\ verdict' = "none"
          /\ UNCHANGED <<ret, undone>>
  /\ shown' = <<>>
  /\ done' = FALSE
  /\ left' = left - 1
  /\ UNCHANGED <<force, seq, llmap, filter, socket, ifname, qdisc, budget, had,
                 used, typedFor>>

\* The end of the file: rtnl_close and exit.
EndOfFile ==
  /\ pc = "line"
  /\ pc' = "over"
  /\ cmd' = NoLine
  /\ UNCHANGED <<force, left, ret, seq, llmap, filter, shown, socket,
                 ifname, qdisc, budget, history>>

------------------------------------------------------------------------------
(* lib/ll_map.c                                                            *)

\* ll_init_map sends the request for the names of all interfaces, once.
InitMap ==
  /\ pc = "resolve" /\ ~mapped
  /\ cmd.dev # NoDev \/ cmd.op = "list"
  /\ SendDump("links")
  /\ pc' = "links"
  /\ UNCHANGED <<force, left, cmd, ret, llmap, filter, shown, ifname, qdisc,
                 history>>

\* ll_name_to_index: the last answer, the remembered names, the kernel, and
\* the number in a word "if<n>".
NameToIndex_AnyCached(n) ==
  IF icache.idx # 0 THEN icache.idx
  ELSE IF \E i \in Index : links[i] = n
       THEN Least({i \in Index : links[i] = n}) ELSE 0
NameToIndex(n) ==
  IF icache.idx # 0 /\ icache.name = n THEN icache.idx
  ELSE IF \E i \in Index : links[i] = n
  THEN Least({i \in Index : links[i] = n})
  ELSE IF \E i \in Index : ifname[i] = n
  THEN CHOOSE i \in Index : ifname[i] = n
  ELSE IF n \in DOMAIN IfNumber THEN IfNumber[n] ELSE 0

\* Only what was found among the remembered names is cached.
Cached(n) ==
  IF \E i \in Index : links[i] = n
  THEN [name |-> n, idx |-> NameToIndex(n)] ELSE icache

\* ll_index_to_name.
IndexToName(i) == IF links[i] = NoName THEN Unknown ELSE links[i]

\* Whether a message is an answer to the last request: rtnl_talk compares with
\* the number it has just sent, rtnl_dump_filter_l with rth->dump, which is
\* that of the request before it.
Mine_Any(m) == TRUE
Mine(m) == m.seq = seq

\* rtnl_dump_filter_l with ll_remember_index.  A failure ends tc.
RememberLinks ==
  /\ pc = "links"
  /\ \/ /\ RecvError
        /\ Exit /\ undone' = TRUE
        /\ UNCHANGED <<links, mapped>>
     \/ /\ Recv
        /\ LET m == Head(rx) IN
           \/ /\ Mine(m) /\ m.kind = "ack"
              /\ Exit /\ undone' = TRUE
              /\ UNCHANGED <<links, mapped>>
           \/ /\ Mine(m) /\ m.kind = "done"
              /\ pc' = "resolve" /\ mapped' = TRUE
              /\ UNCHANGED <<links, cmd, ret, verdict, undone>>
           \/ /\ Mine(m) => m.kind \notin {"ack", "done"}
              /\ links' = IF Mine(m) /\ m.kind = "link"
                          THEN [links EXCEPT ![m.idx] = m.name] ELSE links
              /\ UNCHANGED <<pc, cmd, mapped, ret, verdict, undone>>
  /\ UNCHANGED <<force, left, seq, icache, filter, shown, ifname, qdisc,
                 had, used, done, typedFor>>

------------------------------------------------------------------------------
(* tc_qdisc_modify and tc_qdisc_list                                       *)

\* The device of the command is looked up once the map is there.
CanResolve ==
  /\ pc = "resolve"
  /\ mapped \/ (cmd.dev = NoDev /\ cmd.op # "list")

DevIndex == IF cmd.dev = NoDev THEN 0 ELSE NameToIndex(cmd.dev)

LookUp ==
  /\ cmd.dev # NoDev => DevIndex # 0
  /\ icache' = IF cmd.dev = NoDev THEN icache ELSE Cached(cmd.dev)
  /\ used' = IF cmd.dev = NoDev THEN used
             ELSE used \cup {<<cmd.dev, DevIndex>>}

\* Cannot find device.
NoDevice ==
  /\ CanResolve
  /\ cmd.dev # NoDev /\ DevIndex = 0
  /\ Failed /\ undone' = TRUE
  /\ UNCHANGED <<force, left, seq, llmap, filter, shown, socket, ifname, qdisc,
                 budget, had, used, done, typedFor>>

\* The end of tc_qdisc_modify.
QdiscModify ==
  /\ CanResolve /\ cmd.op # "list"
  /\ LookUp
  /\ SendModify(DevIndex)
  /\ pc' = "talk"
  /\ UNCHANGED <<force, left, cmd, ret, links, mapped, filter, shown, ifname,
                 had, verdict>>

\* tc_qdisc_list, which also sets the filter; it stays set for the listings
\* after this one.
QdiscList ==
  /\ CanResolve /\ cmd.op = "list"
  /\ LookUp
  /\ SendDump("rows")
  /\ filter' = IF DevIndex = 0 THEN filter ELSE DevIndex
  /\ pc' = "list"
  /\ UNCHANGED <<force, left, cmd, ret, links, mapped, shown, ifname, qdisc,
                 had, done, verdict, undone, typedFor>>

\* rtnl_talk after its sendmsg.
Talk ==
  /\ pc = "talk"
  /\ \/ RecvError /\ Failed
     \/ /\ Recv
        /\ LET m == Head(rx) IN
           \/ /\ Mine(m) /\ m.kind = "ack"
              /\ IF m.err THEN Failed ELSE Succeeded
           \/ /\ ~(Mine(m) /\ m.kind = "ack")
              /\ UNCHANGED <<pc, cmd, verdict, ret>>
  /\ UNCHANGED <<force, left, seq, llmap, filter, shown, ifname, qdisc,
                 had, used, done, undone, typedFor>>

\* What print_qdisc prints of a row, if anything.
Printed_Unfiltered(m) ==
  << [idx |-> m.idx, q |-> m.q,
      name |-> IF filter = 0 THEN IndexToName(m.idx) ELSE NoName] >>
Printed(m) ==
  IF filter # 0 /\ filter # m.idx THEN <<>>
  ELSE << [idx |-> m.idx, q |-> m.q,
           name |-> IF filter = 0 THEN IndexToName(m.idx) ELSE NoName] >>

\* An error instead of rows ends the dump.
Refusal_Ignored(m) == FALSE
Refusal(m) == m.kind = "ack"

\* rtnl_dump_filter_l with print_qdisc.
List ==
  /\ pc = "list"
  /\ \/ /\ RecvError
        /\ Failed /\ undone' = TRUE
        /\ UNCHANGED <<shown, done, used>>
     \/ /\ Recv
        /\ LET m == Head(rx) IN
           \/ /\ Mine(m) /\ Refusal(m)
              /\ Failed /\ undone' = TRUE
              /\ UNCHANGED <<shown, done, used>>
           \/ /\ Mine(m) /\ m.kind = "done"
              /\ Succeeded /\ done' = TRUE
              /\ UNCHANGED <<shown, used, undone>>
           \/ /\ Mine(m) => ~Refusal(m) /\ m.kind # "done"
              /\ shown' = IF Mine(m) /\ m.kind = "row"
                          THEN shown \o Printed(m) ELSE shown
              /\ used' = IF shown' = shown \/ filter # 0 THEN used
                         ELSE used \cup {<<IndexToName(m.idx), m.idx>>}
              /\ UNCHANGED <<pc, cmd, ret, verdict, done, undone>>
  /\ UNCHANGED <<force, left, seq, llmap, filter, ifname, qdisc, had,
                 typedFor>>

------------------------------------------------------------------------------

Init ==
  /\ pc = "line" /\ force \in BOOLEAN /\ left = MaxLines
  /\ cmd = NoLine
  /\ ret = 0 /\ seq = 0
  /\ links = [i \in Index |-> NoName] /\ mapped = FALSE
  /\ icache = [name |-> NoName, idx |-> 0]
  /\ filter = 0 /\ shown = <<>>
  /\ rx = <<>> /\ skerr = FALSE /\ kdump = NoDump
  /\ ifname = FirstName
  /\ qdisc = [i \in Index |-> Default]
  /\ budget = MaxMishaps
  /\ had = {<<FirstName[i], i>> : i \in Index}
  /\ used = {} /\ done = FALSE /\ verdict = "none" /\ undone = FALSE
  /\ typedFor = [i \in Index |-> NoOptions]

Tc == \/ ReadLine \/ EndOfFile \/ InitMap \/ RememberLinks
      \/ NoDevice \/ QdiscModify \/ QdiscList \/ Talk \/ List

Next == Tc \/ Rename

Spec == Init /\ [][Next]_vars

------------------------------------------------------------------------------

Message ==
  [seq : Nat, kind : {"done"}]
    \cup [seq : Nat, kind : {"ack"}, err : BOOLEAN]
    \cup [seq : Nat, kind : {"link"}, idx : Index, name : Name]
    \cup [seq : Nat, kind : {"row"}, idx : Index,
          q : [kind : {"pfifo_fast", "rbfgrad"}, opt : [Option -> Int]]]

\* Type correctness; the queue never holds a message from a request that has
\* not been sent yet.
TypeOK ==
  /\ pc \in {"line", "links", "resolve", "talk", "list", "over"}
  /\ force \in BOOLEAN /\ mapped \in BOOLEAN /\ skerr \in BOOLEAN
  /\ left \in 0 .. MaxLines /\ cmd \in Line /\ ret \in 0 .. 1 /\ seq \in Nat
  /\ links \in [Index -> Name \cup {NoName}]
  /\ icache \in [name : Name \cup {NoName}, idx : Index \cup {0}]
  /\ filter \in Nat
  /\ \A k \in DOMAIN rx : rx[k] \in Message /\ rx[k].seq <= seq
  /\ kdump \in [seq : 0 .. seq, of : {"none", "links", "rows"},
                todo : SUBSET Index]
  /\ ifname \in [Index -> Name]
  /\ qdisc \in [Index -> [kind : {"pfifo_fast", "rbfgrad"},
                          opt : [Option -> Int]]]

\* A command that reports success was carried out by the kernel, this very
\* request and not an earlier one whose answer came late: rtnl_talk and
\* rtnl_dump_filter_l skip what is left over in the queue.  (The converse does
\* not hold: a request whose acknowledgement is lost was executed and fails.)
SuccessIsReal == verdict = "ok" => done

\* tc exits with 0 only when every line was carried out, with or without
\* -force; batch() remembers a failure to the end.
ExitZeroMeansDone == pc = "over" /\ ret = 0 => ~undone

\* A listing that succeeds has one row for each interface, or one for the last
\* interface any listing of the batch named (filter_ifindex is never reset),
\* with what the kernel has for it at that moment: nothing of an earlier dump
\* that was broken off, nothing twice.
ListingExact ==
  verdict = "ok" /\ cmd.op = "list" =>
    LET rows == {shown[k] : k \in DOMAIN shown} IN
    /\ {r.idx : r \in rows}
         = IF filter = 0 THEN Index ELSE {filter} \cap Index
    /\ Len(shown) = Cardinality({r.idx : r \in rows})
    /\ \A r \in rows : r.q = Dumped(qdisc[r.idx])

\* What rbfgrad_dump answers with of an option that was typed.
Answered == {"limit", "q_ref", "p_max"}

\* A listing shows an rbfgrad qdisc with the values typed in the last command
\* that the kernel executed for that very interface, with a reference queue
\* length that is positive: not with those of a command that was refused, of
\* one for another interface, or of an earlier one whose rows came late.
\* Nothing is claimed of options that were not typed, nor of p_min and ecn,
\* which rbfgrad_dump leaves out of its answer.
ShownAsTyped ==
  \A k \in DOMAIN shown :
    shown[k].q.kind = "rbfgrad" =>
      LET t == typedFor[shown[k].idx]
          opt == shown[k].q.opt IN
      /\ opt["q_ref"] > 0
      /\ \A o \in DOMAIN t \cap Answered : opt[o] = t[o]

\* However interfaces are renamed meanwhile, tc acts on an index for a typed
\* name, and prints a name for an index, only where the two belonged together
\* at some time of the batch (or the word is "if<n>" itself).
OnceNamed ==
  \A u \in used : \/ u \in had
                  \/ u[1] \in DOMAIN IfNumber /\ u[2] = IfNumber[u[1]]

\* tc never waits for a message that will not come, whatever replies were lost
\* and whatever earlier requests have left over: recvmsg has an error for it, or
\* an answer to its last request is in the queue.
AnswerComes ==
  pc \in {"links", "talk", "list"} =>
    skerr \/ \E k \in DOMAIN rx : rx[k].seq = seq
==============================================================================
