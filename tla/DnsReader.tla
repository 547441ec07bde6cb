------------------------------ MODULE DnsReader --------------------------------
(***************************************************************************)
(* parse() of DnsMessage.cpp, which reads every packet that arrives on the *)
(* multicast port: names of labels and pointers to earlier names, records  *)
(* whose data has a length of its own, and four counts that need not agree *)
(* with what follows.  A step is one turn of the loop of readName(), or    *)
(* the fixed fields between two names.  What the names and records say is  *)
(* left out: where the reader is and which bytes it touches is not.        *)
(***************************************************************************)
EXTENDS Integers

CONSTANTS Packet  \* records of a size and the bytes 0 .. size - 1

VARIABLES
  packet,   \* data and size
  status,   \* "start", "name", "fields", "done", or "failed": nullopt
  item,     \* whose name is read: "question", "record" or its "target"
  left,     \* how many questions, answers, authorities, additionals to read
  pos, end, \* the caller's *pos, the end of the record's data
  p, jumped, jumps, total,  \* of readName()
  read      \* the bytes the last step read (history)

name == <<p, jumped, jumps, total>>
vars == <<packet, status, item, left, pos, end, name, read>>

Byte == 0 .. 255
AnyPacket == UNION {[size : {n}, byte : [0 .. n - 1 -> Byte]] : n \in Nat}
Size == packet.size
At(i) == packet.byte[i]
Be16(i) == 256 * At(i) + At(i + 1)

kPtr == 12
kSrv == 33
Section == 1 .. 4
MaxJumps == 32
MaxName  == 255

TypeOK ==
  /\ packet \in Packet
  /\ status \in {"start", "name", "fields", "done", "failed"}
  /\ item \in {"question", "record", "target"}
  /\ left \in [Section -> Nat]
  /\ pos \in Nat /\ end \in Nat
  /\ p \in Nat /\ jumped \in BOOLEAN /\ jumps \in Nat /\ total \in Nat
  /\ read \subseteq Nat

Init ==
  /\ packet \in Packet
  /\ status = "start" /\ item = "question"
  /\ left = [s \in Section |-> 0]
  /\ pos = 0 /\ end = 0
  /\ p = 0 /\ jumped = FALSE /\ jumps = 0 /\ total = 0
  /\ read = {}

Fail == status' = "failed" /\ UNCHANGED <<packet, item, left, pos, end, name>>

\* readName() is called with the position at.
BeginName(i, at) ==
  /\ status' = "name" /\ item' = i
  /\ pos' = at /\ p' = at
  /\ jumped' = FALSE /\ jumps' = 0 /\ total' = 0

\* The loops of parse(): the next question, else the next record, else the end.
NextItem(todo, at) ==
  /\ left' = todo
  /\ \/ todo[1] > 0 /\ BeginName("question", at)
     \/ todo[1] = 0 /\ (\E s \in Section : todo[s] > 0) /\ BeginName("record", at)
     \/ /\ \A s \in Section : todo[s] = 0
        /\ status' = "done" /\ pos' = at
        /\ UNCHANGED <<item, name>>

\* The item is read: it counts for the first section that still lacks one.
Counted(at) ==
  \E s \in Section :
    /\ left[s] > 0 /\ \A t \in 1 .. s - 1 : left[t] = 0
    /\ NextItem([left EXCEPT ![s] = @ - 1], at)

Header ==
  /\ status = "start"
  /\ IF Size < 12 THEN Fail /\ read' = {}
     ELSE /\ NextItem([s \in Section |-> Be16(2 + 2 * s)], 12)
          /\ read' = 0 .. 11
          /\ UNCHANGED <<packet, end>>

\* One turn of readName().
Pointer ==
  /\ status = "name" /\ p < Size /\ At(p) >= 192
  /\ IF p + 1 >= Size \/ jumps + 1 > MaxJumps THEN Fail /\ read' = {p}
     ELSE /\ pos' = IF jumped THEN pos ELSE p + 2
          /\ jumped' = TRUE /\ jumps' = jumps + 1
          /\ p' = 256 * (At(p) - 192) + At(p + 1)
          /\ read' = {p, p + 1}
          /\ UNCHANGED <<packet, status, item, left, end, total>>

Label ==
  /\ status = "name" /\ p < Size /\ 0 < At(p) /\ At(p) < 64
  /\ IF p + 1 + At(p) > Size \/ total + At(p) + 1 > MaxName THEN Fail /\ read' = {p}
     ELSE /\ total' = total + At(p) + 1
          /\ p' = p + 1 + At(p)
          /\ read' = p .. p + At(p)
          /\ UNCHANGED <<packet, status, item, left, pos, end, jumped, jumps>>

EndOfName ==
  /\ status = "name" /\ p < Size /\ At(p) = 0
  /\ status' = "fields"
  /\ pos' = IF jumped THEN pos ELSE p + 1
  /\ read' = {p}
  /\ UNCHANGED <<packet, item, left, end, name>>

\* Beyond the packet, or a label of an extended type.
BadName ==
  /\ status = "name"
  /\ \/ p >= Size /\ read' = {}
     \/ p < Size /\ 64 <= At(p) /\ At(p) < 192 /\ read' = {p}
  /\ Fail

QuestionFields ==
  /\ status = "fields" /\ item = "question"
  /\ IF pos + 4 > Size THEN Fail /\ read' = {}
     ELSE /\ Counted(pos + 4)
          /\ read' = pos .. pos + 3
          /\ UNCHANGED <<packet, end>>

\* readRecord() after the name: type, class, TTL and length, then the data.
RecordFields ==
  /\ status = "fields" /\ item = "record"
  /\ IF pos + 10 > Size THEN Fail /\ read' = {}
     ELSE LET type  == Be16(pos)
              rdlen == Be16(pos + 8)
              data  == pos + 10
          IN  IF data + rdlen > Size \/ (type = kSrv /\ rdlen < 7)
              THEN Fail /\ read' = pos .. pos + 9
              ELSE /\ UNCHANGED packet
                   /\ end' = data + rdlen
                   /\ \/ /\ type = kPtr
                         /\ BeginName("target", data) /\ UNCHANGED left
                         /\ read' = pos .. pos + 9
                      \/ /\ type = kSrv
                         /\ BeginName("target", data + 6) /\ UNCHANGED left
                         /\ read' = pos .. pos + 15
                      \/ /\ type \notin {kPtr, kSrv}
                         /\ Counted(data + rdlen)
                         /\ read' = pos .. data + rdlen - 1

\* readRecord() after the target: it must end within the record's data.
TargetEnd ==
  /\ status = "fields" /\ item = "target"
  /\ IF pos > end THEN Fail
     ELSE Counted(end) /\ UNCHANGED <<packet, end>>
  /\ read' = {}

Next ==
  \/ Header
  \/ Pointer \/ Label \/ EndOfName \/ BadName
  \/ QuestionFields \/ RecordFields \/ TargetEnd

Spec == Init /\ [][Next]_vars

-----------------------------------------------------------------------------
(* Properties.                                                             *)

\* Wherever pointers, lengths and counts lead: no step reads a byte that is not
\* in the packet (parse() gets data and size, and indexes data itself).
ReadsInside == read \subseteq 0 .. Size - 1

\* The jump limit and the length limit bound a name also when its pointers form a
\* circle: what NameAdvances raises with every turn stays below a bound.
NameIsBounded == jumps <= MaxJumps /\ total <= MaxName

\* Every turn of readName() that goes on raises one of the two, so that a name has
\* at most MaxJumps + MaxName turns.
NameAdvances ==
  [][status = "name" /\ status' = "name" => jumps' + total' > jumps + total]_vars

\* No pointer takes the caller back: what was read as one item is not read again
\* as the next one.
PosNeverGoesBack == [][pos' >= pos]_vars
=============================================================================
