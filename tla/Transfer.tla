------------------------------ MODULE Transfer ------------------------------
(***************************************************************************)
(* The way of a text from a local file to the space of a node and back:    *)
(* filesystem_getBlocksFromStr and filesystem_getAllFileContent of         *)
(* src/FileSystem, the packets of src/utils/socket.c, and the mapped space *)
(* of src/Nodo, where a block ends with a zero byte.                       *)
(*                                                                         *)
(* A byte is a character, a digit of the size that heads a packet, or      *)
(* zero.  send and recv take as many bytes as they like, at least one, and *)
(* the connection may be lost between any two.                             *)
(***************************************************************************)
EXTENDS Integers, Sequences, FiniteSetsExt

CONSTANTS
    Char, Newline, \* the characters of a text, and the one that ends a line
    BlockSize,     \* NODE_BLOCK_SIZE and BLOCK_SIZE
    Base,          \* the values of a byte of the size
    Places,        \* how many blocks the node has
    MaxLength      \* bound on the length of the text

ASSUME TransferAssumption ==
    /\ Newline \in Char /\ {"zero", "old", "junk"} \cap Char = {}
    /\ BlockSize \in Nat \ {0} /\ Base \in Nat \ {0, 1} /\ BlockSize < Base * Base
    /\ Places \in Nat \ {0} /\ MaxLength \in Nat

VARIABLES
    text,    \* the content of the local file
    i,       \* where the next block starts
    pieces,  \* the blocks cut: where each starts and ends
    phase,   \* "cut", "set", "setting", "get", "getting", "done"; "cutoff" and
             \* "failed" when it cannot go on
    places,  \* the block of the node each piece went to, until it is read back
    out, wire,   \* the bytes of the packet not sent yet, and those on their way
    head, body,  \* what has been received of the size and of the data
    space,   \* the bytes of the node's file, and the one after them
    content  \* what was read back

cutVars  == <<text, i, pieces>>
wireVars == <<out, wire, head, body>>
vars == <<cutVars, phase, places, wireVars, space, content>>

Init ==
    /\ \E l \in 0 .. MaxLength : text \in [1 .. l -> Char]
    /\ i = 0 /\ pieces = <<>> /\ phase = "cut" /\ places = <<>>
    /\ out = <<>> /\ wire = <<>> /\ head = <<>> /\ body = <<>>
    /\ space = [a \in 0 .. Places * BlockSize |-> "old"] /\ content = <<>>

----------------------------------------------------------------------------
(* filesystem_getBlocksFromStr, a turn of its loop at a time.               *)

AddBlock(last) == pieces' = Append(pieces, [from |-> i, to |-> last])

\* The ends of lines in the next BlockSize bytes; the first byte is not looked at.
LineEnds == {j \in i + 1 .. i + BlockSize - 1 : text[j + 1] = Newline}

CutLast ==
    /\ phase = "cut" /\ i + BlockSize > Len(text) /\ AddBlock(Len(text))
    /\ phase' = IF Len(pieces') > Places THEN "failed" ELSE "set"
    /\ UNCHANGED <<text, i, places, wireVars, space, content>>

\* With no end of line among them the loop goes on for ever, and so nothing changes.
CutAt(ends) ==
    /\ phase = "cut" /\ i + BlockSize <= Len(text) /\ ends # {}
    /\ AddBlock(Max(ends) + 1) /\ i' = Max(ends) + 1
    /\ UNCHANGED <<text, phase, places, wireVars, space, content>>

\* Mutants of Cut: one byte more, one less, the end of the line twice.
CutMore == CutAt({j \in i + 1 .. i + BlockSize : j < Len(text) /\ text[j + 1] = Newline})
CutLess == CutAt(LineEnds \ {i + 1})
CutTwice ==
    /\ phase = "cut" /\ i + BlockSize <= Len(text) /\ LineEnds # {}
    /\ AddBlock(Max(LineEnds) + 1) /\ i' = Max(LineEnds)
    /\ UNCHANGED <<text, phase, places, wireVars, space, content>>

Cut == CutAt(LineEnds)

----------------------------------------------------------------------------
(* Packets: the size in network order, then the data.                       *)

Packet(data) == <<Len(data) \div Base, Len(data) % Base>> \o data

\* socket_recv_integer turns what it has received around, all of it or not: the bytes
\* that did not come are zero.
Size ==
    (IF Len(head) > 0 THEN head[1] * Base ELSE 0) + (IF Len(head) > 1 THEN head[2] ELSE 0)

\* socket_send.
Send ==
    /\ \E k \in 1 .. Len(out) :
         wire' = wire \o SubSeq(out, 1, k) /\ out' = SubSeq(out, k + 1, Len(out))
    /\ UNCHANGED <<cutVars, phase, places, head, body, space, content>>

Took(k) == wire' = SubSeq(wire, k + 1, Len(wire)) /\ UNCHANGED out

\* socket_recv of the size.
RecvSize ==
    /\ Len(head) < 2
    /\ \E k \in 1 .. Min({2 - Len(head), Len(wire)}) :
         head' = head \o SubSeq(wire, 1, k) /\ Took(k)
    /\ UNCHANGED <<cutVars, phase, places, body, space, content>>

\* The address of the block of the piece that is sent.
Address == places[Len(places)] * BlockSize

\* socket_recv of the data: to memory, or to where the block is.
RecvData ==
    /\ Len(head) = 2
    /\ \E k \in 1 .. Min({Size - Len(body), Len(wire)}) :
         /\ body' = body \o SubSeq(wire, 1, k) /\ Took(k)
         /\ space' = IF phase # "setting" THEN space
                     ELSE [a \in DOMAIN space |->
                             IF a - Address - Len(body) \in 0 .. k - 1
                             THEN wire[a - Address - Len(body) + 1] ELSE space[a]]
    /\ UNCHANGED <<cutVars, phase, places, head, content>>

Received == Len(head) = 2 /\ Len(body) = Size

----------------------------------------------------------------------------
(* connections_node_sendBlock and node_setBlockFromPacket.                  *)

SetNext ==
    /\ phase = "set" /\ phase' = "setting"
    /\ \E p \in 0 .. Places - 1 :
         /\ \A n \in DOMAIN places : places[n] # p
         /\ places' = Append(places, p)
    /\ LET piece == pieces[Len(places) + 1]
       IN  out' = Packet(SubSeq(text, piece.from + 1, piece.to))
    /\ UNCHANGED <<cutVars, wire, head, body, space, content>>

Zero == space' = [space EXCEPT ![Address + Size] = "zero"]
Stored ==
    /\ phase = "setting" /\ Received
    /\ phase' = IF Len(places) = Len(pieces) THEN "get" ELSE "set"
    /\ head' = <<>> /\ body' = <<>>
    /\ UNCHANGED <<cutVars, places, out, wire, content>>

\* A mutant of SetEnds: the end is not written.
SetOpenEnd == Stored /\ UNCHANGED space

\* The zero after the data, at the place its size says.
SetEnds == Stored /\ Zero

\* The connection is lost: the zero is written all the same, where what came of the
\* size says.
Lost ==
    /\ phase \in {"setting", "getting"}
    /\ phase' = IF phase = "setting" THEN "cutoff" ELSE "failed"
    /\ out' = <<>> /\ wire' = <<>>
    /\ IF phase = "setting" THEN Zero ELSE UNCHANGED space
    /\ UNCHANGED <<cutVars, places, head, body, content>>

----------------------------------------------------------------------------
(* connections_node_getBlock and node_getBlock, for every block in turn.    *)

BlockAt(p) == [k \in 1 .. BlockSize |-> space[p * BlockSize + k - 1]]

\* strlen of the copy: without a zero it goes on after it.
Strings(copy) ==
    LET zeros == {k \in 1 .. BlockSize : copy[k] = "zero"}
    IN  IF zeros # {} THEN {SubSeq(copy, 1, Min(zeros) - 1)} ELSE {copy, Append(copy, "junk")}

GetNext ==
    /\ phase = "get" /\ places # <<>> /\ phase' = "getting"
    /\ \E s \in Strings(BlockAt(Head(places))) : out' = Packet(s)
    /\ places' = Tail(places)
    /\ UNCHANGED <<cutVars, wire, head, body, space, content>>

\* filesystem_getAllFileContent joins them.
GetEnds ==
    /\ phase = "getting" /\ Received
    /\ content' = content \o body /\ head' = <<>> /\ body' = <<>>
    /\ phase' = IF places = <<>> THEN "done" ELSE "get"
    /\ UNCHANGED <<cutVars, places, out, wire, space>>

----------------------------------------------------------------------------
Next ==
    \/ CutLast \/ Cut \/ SetNext \/ SetEnds \/ GetNext \/ GetEnds \/ Lost
    \/ Send \/ RecvSize \/ RecvData

Spec == Init /\ [][Next]_vars /\ WF_vars(CutLast \/ Cut)

----------------------------------------------------------------------------
(* Properties. *)

Length(n) == pieces[n].to - pieces[n].from

\* A piece that fills its block leaves no place for the zero byte.
SomeFull == \E n \in DOMAIN pieces : Length(n) = BlockSize

\* The pieces follow each other from the start of the text, fit in a block and end where
\* a line does; at the end they are the whole text (filesystem.c:739).
CutIsExact ==
    /\ \A n \in DOMAIN pieces :
         /\ pieces[n].from = (IF n = 1 THEN 0 ELSE pieces[n - 1].to)
         /\ Length(n) \in 0 .. BlockSize
         /\ pieces[n].to = Len(text) \/ text[pieces[n].to] = Newline
    /\ phase # "cut" => pieces[Len(pieces)].to = Len(text)

\* The cutting ends when every line is shorter than a block.
LinesAreShort ==
    \A a \in 1 .. Len(text) - BlockSize + 2 :
        \E b \in a .. a + BlockSize - 2 : text[b] = Newline
CuttingEnds == LinesAreShort => <>(phase # "cut")

\* What is read back is the text, however the packets were divided, unless a piece fills
\* its block.
TextComesBack == phase = "done" /\ ~SomeFull => content = text

\* A block that is set changes no other, even when the connection is lost in the middle
\* of a size, unless it fills its own (node.c:198).
OthersAreKept ==
    ~SomeFull /\ phase \in {"set", "setting", "cutoff"} =>
        \A a \in DOMAIN space : space[a] # "old" =>
            \E n \in DOMAIN places : a \in places[n] * BlockSize .. (places[n] + 1) * BlockSize - 1
=============================================================================
