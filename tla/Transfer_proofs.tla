--------------------------- MODULE Transfer_proofs ---------------------------
(* Theorems about Transfer, for every text and every size of a block. *)
EXTENDS Transfer, SequenceTheorems, WellFoundedInduction, TLAPS

\* A byte of the node's file, or on its way: of the text, of a size, or of none of these.
Marks == {"zero", "old", "junk"}
Byte  == Char \cup Marks \cup (0 .. Base - 1)
Phases == {"cut", "set", "setting", "get", "getting", "done", "cutoff", "failed"}

\* Types: of the cutting, and of what is stored, sent and received.
CutTypes ==
    /\ text \in Seq(Char) /\ i \in Nat /\ phase \in Phases
    /\ pieces \in Seq([from : Nat, to : Nat])
WireTypes ==
    /\ places \in Seq(0 .. Places - 1)
    /\ out \in Seq(Byte) /\ wire \in Seq(Byte) /\ head \in Seq(Byte) /\ body \in Seq(Byte)
    /\ space \in [0 .. Places * BlockSize -> Byte] /\ content \in Seq(Byte)

\* Where the n-th piece ends, and the next one starts.
End(n) == IF n = 0 THEN 0 ELSE pieces[n].to

\* The pieces are cut one after the other, at ends of lines.
CutBook ==
    /\ \A n \in DOMAIN pieces :
         /\ pieces[n].from = End(n - 1) /\ pieces[n].to \in 0 .. Len(text)
         /\ Length(n) \in 0 .. BlockSize
         /\ pieces[n].to = Len(text) \/ text[pieces[n].to] = Newline
    /\ phase = "cut" => i = End(Len(pieces)) /\ i <= Len(text)
    /\ phase # "cut" => pieces # <<>> /\ pieces[Len(pieces)].to = Len(text)

\* The pieces set so far, each in a block of its own.
PlaceBook ==
    /\ phase = "cut" => places = <<>>
    /\ phase \in {"set", "setting", "cutoff"} =>
         \A m, n \in DOMAIN places : places[m] = places[n] => m = n
    /\ phase = "set" => Len(places) < Len(pieces)
    /\ phase \in {"setting", "cutoff"} => Len(places) \in 1 .. Len(pieces)
    /\ phase = "get" => Len(places) \in 1 .. Len(pieces)
    /\ phase = "getting" => Len(places) < Len(pieces)

\* The bytes of a piece, and the piece that is on its way.
Piece(n) == SubSeq(text, pieces[n].from + 1, pieces[n].to)
Sent == IF phase = "setting" THEN Len(places) ELSE Len(pieces) - Len(places)

\* What was received, what is on its way and what is not sent yet make up one packet.
StreamBook ==
    /\ Len(head) \in 0 .. 2 /\ (Len(head) < 2 => body = <<>>)
    /\ IF phase \in {"setting", "getting"}
       THEN head \o body \o wire \o out = Packet(Piece(Sent))
       ELSE wire = <<>> /\ out = <<>>
    /\ phase \in {"cut", "set", "get", "done"} => head = <<>> /\ body = <<>>
    /\ phase \in {"cutoff", "failed"} => Size \in Int

\* Block p holds the n-th piece and the zero that ends it.
Holds(n, p) ==
    /\ \A k \in 1 .. Length(n) : space[p * BlockSize + k - 1] = text[pieces[n].from + k]
    /\ space[p * BlockSize + Length(n)] = "zero"

\* The bytes that were written are in the blocks of the pieces set.
Used ==
    \A a \in DOMAIN space : space[a] # "old" =>
        \E n \in DOMAIN places : a \in places[n] * BlockSize .. (places[n] + 1) * BlockSize - 1

\* What the node's file holds.
SpaceBook ==
    /\ phase = "cut" => \A a \in DOMAIN space : space[a] = "old"
    /\ phase \in {"set", "setting", "cutoff"} => Used
    /\ phase = "set" => \A n \in DOMAIN places : Holds(n, places[n])
    /\ phase = "setting" =>
         /\ \A n \in 1 .. Len(places) - 1 : Holds(n, places[n])
         /\ \A k \in 1 .. Len(body) : space[Address + k - 1] = body[k]
    /\ phase \in {"get", "getting"} =>
         \A n \in DOMAIN places : Holds(Len(pieces) - Len(places) + n, places[n])

\* What was read back.
ContentBook ==
    /\ phase \in {"cut", "set", "setting"} => content = <<>>
    /\ phase = "get" => content = SubSeq(text, 1, End(Len(pieces) - Len(places)))
    /\ phase = "getting" => content = SubSeq(text, 1, End(Len(pieces) - Len(places) - 1))
    /\ phase = "done" => content = text

\* The invariant.  A piece that fills its block spoils what comes after it.
Carried == WireTypes /\ PlaceBook /\ StreamBook /\ SpaceBook /\ ContentBook
IInv    == CutTypes /\ CutBook /\ (SomeFull \/ Carried)

----------------------------------------------------------------------------
\* A set of naturals that is not empty has a least one, and a greatest one when it
\* is bounded.
LEMMA LeastOf ==
    ASSUME NEW S \in SUBSET Nat, S # {}
    PROVE  Min(S) \in S /\ \A m \in S : Min(S) <= m
  <1>1. \E n \in S : \A m \in S : <<m, n>> \notin OpToRel(<, Nat)
    BY NatLessThanWellFounded, WFMin
  <1>2. PICK n \in S : \A m \in S : ~(m < n)
    <2>1. \A m, n \in S : m < n => <<m, n>> \in OpToRel(<, Nat)
      BY DEF OpToRel
    <2> QED BY <1>1, <2>1
  <1>3. \A m \in S : n <= m
    BY <1>2
  <1> QED BY <1>3 DEF Min
LEMMA GreatestOf ==
    ASSUME NEW S \in SUBSET Nat, S # {}, NEW b \in Nat, \A m \in S : m <= b
    PROVE  Max(S) \in S /\ \A m \in S : m <= Max(S)
  <1> DEFINE T == {b - m : m \in S}
  <1>1. T \in SUBSET Nat /\ T # {}
    <2>1. \A m \in S : b - m \in Nat
      OBVIOUS
    <2> QED BY <2>1
  <1>2. Min(T) \in T /\ \A k \in T : Min(T) <= k
    BY <1>1, LeastOf
  <1>3. PICK n \in S : Min(T) = b - n
    BY <1>2
  <1>4. \A m \in S : m <= n
    <2> SUFFICES ASSUME NEW m \in S PROVE m <= n
      OBVIOUS
    <2>1. b - m \in T
      OBVIOUS
    <2>2. b - n <= b - m
      BY <1>2, <1>3, <2>1
    <2>3. m \in Nat /\ n \in Nat
      OBVIOUS
    <2> QED BY <2>2, <2>3
  <1> QED BY <1>4 DEF Max

\* The less of two numbers.
LEMMA LeastOfTwo ==
    ASSUME NEW a \in Int, NEW b \in Int
    PROVE  Min({a, b}) \in Int /\ Min({a, b}) <= a /\ Min({a, b}) <= b
  <1>1. \E x \in {a, b} : \A y \in {a, b} : x <= y
    OBVIOUS
  <1>2. Min({a, b}) \in {a, b} /\ \A y \in {a, b} : Min({a, b}) <= y
    BY <1>1 DEF Min
  <1> QED BY <1>2

\* A number, its quotient and the remainder.
LEMMA DivMod ==
    ASSUME NEW n \in Nat, NEW b \in Nat, b > 0
    PROVE  n = b * (n \div b) + (n % b)
  OBVIOUS

\* The two digits of a size.
LEMMA Digits ==
    ASSUME NEW n \in Nat, n < Base * Base
    PROVE  /\ n \div Base \in 0 .. Base - 1 /\ n % Base \in 0 .. Base - 1
           /\ (n \div Base) * Base + (n % Base) = n /\ (n \div Base) * Base <= n
  <1>1. Base \in Nat /\ Base > 0
    BY TransferAssumption DEF TransferAssumption
  <1>2. n % Base \in 0 .. Base - 1 /\ n \div Base \in Nat
    BY <1>1
  <1>3. n = Base * (n \div Base) + (n % Base)
    BY <1>1, DivMod
  <1>4. Base * (n \div Base) = (n \div Base) * Base
    BY <1>1, <1>2
  <1>5. n \div Base < Base
    <2> SUFFICES ASSUME Base <= n \div Base PROVE FALSE
      BY <1>1, <1>2
    <2>1. Base * Base <= Base * (n \div Base)
      BY <1>1, <1>2
    <2> QED BY <1>1, <1>2, <1>3, <2>1
  <1> QED BY <1>1, <1>2, <1>3, <1>4, <1>5

\* The bytes of the block at a place are in the node's file, and in no other block.
LEMMA Blocks ==
    ASSUME NEW p \in 0 .. Places - 1, NEW x \in 0 .. BlockSize - 1
    PROVE  /\ p * BlockSize \in Nat /\ (p + 1) * BlockSize = p * BlockSize + BlockSize
           /\ p * BlockSize + x \in 0 .. Places * BlockSize
           /\ \A q \in 0 .. Places - 1, y \in 0 .. BlockSize - 1 :
                q # p => p * BlockSize + x # q * BlockSize + y
  <1>0. Places \in Nat /\ BlockSize \in Nat
    BY TransferAssumption DEF TransferAssumption
  <1>1. \A a, b \in Nat : a < b => a * BlockSize + BlockSize <= b * BlockSize
    <2> SUFFICES ASSUME NEW a \in Nat, NEW b \in Nat, a < b
                 PROVE  a * BlockSize + BlockSize <= b * BlockSize
      OBVIOUS
    <2>1. a * BlockSize + BlockSize = (a + 1) * BlockSize
      BY <1>0
    <2>2. (a + 1) * BlockSize <= b * BlockSize
      BY <1>0
    <2> QED BY <2>1, <2>2
  <1>2. p \in Nat /\ p < Places /\ p * BlockSize \in Nat /\ Places * BlockSize \in Nat
    BY <1>0
  <1>3. (p + 1) * BlockSize = p * BlockSize + BlockSize
    BY <1>0, <1>2
  <1>4. p * BlockSize + BlockSize <= Places * BlockSize
    BY <1>0, <1>1, <1>2
  <1>5. ASSUME NEW q \in 0 .. Places - 1, NEW y \in 0 .. BlockSize - 1, q # p
        PROVE  p * BlockSize + x # q * BlockSize + y
    <2>1. q \in Nat /\ q * BlockSize \in Nat
      BY <1>0
    <2>2. CASE p < q
      <3>1. p * BlockSize + BlockSize <= q * BlockSize
        BY <1>1, <1>2, <2>1, <2>2
      <3> QED BY <1>0, <1>2, <2>1, <3>1
    <2>3. CASE q < p
      <3>1. q * BlockSize + BlockSize <= p * BlockSize
        BY <1>1, <1>2, <2>1, <2>3
      <3> QED BY <1>0, <1>2, <2>1, <3>1
    <2> QED BY <1>2, <1>5, <2>1, <2>2, <2>3
  <1> QED BY <1>0, <1>2, <1>3, <1>4, <1>5

----------------------------------------------------------------------------
\* What the cutting does to the sequence of pieces.
LEMMA CutNext ==
    ASSUME CutTypes, CutBook, phase = "cut", NEW e \in Nat, e <= Len(text),
           e - i \in 0 .. BlockSize, e = Len(text) \/ text[e] = Newline,
           AddBlock(e)
    PROVE  /\ pieces' \in Seq([from : Nat, to : Nat]) /\ Len(pieces') = Len(pieces) + 1
           /\ pieces'[Len(pieces')].to = e
           /\ \A n \in DOMAIN pieces : n \in DOMAIN pieces' /\ pieces'[n] = pieces[n]
           /\ \A n \in DOMAIN pieces' :
                /\ pieces'[n].from = IF n = 1 THEN 0 ELSE pieces'[n - 1].to
                /\ pieces'[n].to \in 0 .. Len(text)
                /\ pieces'[n].to - pieces'[n].from \in 0 .. BlockSize
                /\ pieces'[n].to = Len(text) \/ text[pieces'[n].to] = Newline
  <1> DEFINE piece == [from |-> i, to |-> e]
  <1>1. /\ pieces \in Seq([from : Nat, to : Nat]) /\ piece \in [from : Nat, to : Nat]
        /\ Len(text) \in Nat /\ pieces' = Append(pieces, piece)
    BY DEF CutTypes, AddBlock
  <1>2. piece.from = i /\ piece.to = e
    OBVIOUS
  <1> HIDE DEF piece
  <1>3. /\ pieces' \in Seq([from : Nat, to : Nat]) /\ Len(pieces') = Len(pieces) + 1
        /\ \A n \in 1 .. Len(pieces) : pieces'[n] = pieces[n]
        /\ pieces'[Len(pieces) + 1] = piece
    BY <1>1, AppendProperties
  <1>4. Len(pieces) \in Nat /\ DOMAIN pieces = 1 .. Len(pieces)
        /\ DOMAIN pieces' = 1 .. Len(pieces) + 1
    BY <1>1, <1>3, LenProperties
  <1>5. i = IF Len(pieces) = 0 THEN 0 ELSE pieces[Len(pieces)].to
    BY DEF CutBook, End
  <1>6. ASSUME NEW n \in 1 .. Len(pieces)
        PROVE  /\ pieces'[n].from = IF n = 1 THEN 0 ELSE pieces'[n - 1].to
               /\ pieces'[n].to \in 0 .. Len(text)
               /\ pieces'[n].to - pieces'[n].from \in 0 .. BlockSize
               /\ pieces'[n].to = Len(text) \/ text[pieces'[n].to] = Newline
    <2>1. n \in DOMAIN pieces /\ pieces'[n] = pieces[n] /\ (n # 1 => pieces'[n - 1] = pieces[n - 1])
      <3>1. n # 1 => n - 1 \in 1 .. Len(pieces)
        BY <1>4
      <3> QED BY <1>3, <1>4, <3>1
    <2>2. /\ pieces[n].from = (IF n = 1 THEN 0 ELSE pieces[n - 1].to)
          /\ pieces[n].to \in 0 .. Len(text)
          /\ pieces[n].to - pieces[n].from \in 0 .. BlockSize
          /\ pieces[n].to = Len(text) \/ text[pieces[n].to] = Newline
      BY <1>4, <2>1 DEF CutBook, End, Length
    <2> QED BY <2>1, <2>2
  <1>7. ASSUME NEW n, n = Len(pieces) + 1
        PROVE  /\ pieces'[n].from = IF n = 1 THEN 0 ELSE pieces'[n - 1].to
               /\ pieces'[n].to \in 0 .. Len(text)
               /\ pieces'[n].to - pieces'[n].from \in 0 .. BlockSize
               /\ pieces'[n].to = Len(text) \/ text[pieces'[n].to] = Newline
    <2>1. pieces'[n].from = i /\ pieces'[n].to = e
      BY <1>2, <1>3, <1>7
    <2>2. i = IF n = 1 THEN 0 ELSE pieces'[n - 1].to
      BY <1>3, <1>4, <1>5, <1>7
    <2>3. e \in 0 .. Len(text)
      BY <1>1
    <2> QED BY <2>1, <2>2, <2>3
  <1>8. ASSUME NEW n \in DOMAIN pieces'
        PROVE  /\ pieces'[n].from = IF n = 1 THEN 0 ELSE pieces'[n - 1].to
               /\ pieces'[n].to \in 0 .. Len(text)
               /\ pieces'[n].to - pieces'[n].from \in 0 .. BlockSize
               /\ pieces'[n].to = Len(text) \/ text[pieces'[n].to] = Newline
    <2>1. n \in 1 .. Len(pieces) \/ n = Len(pieces) + 1
      BY <1>4
    <2> QED BY <1>6, <1>7, <2>1
  <1>9. pieces'[Len(pieces')].to = e
    BY <1>2, <1>3
  <1>10. \A n \in DOMAIN pieces : n \in DOMAIN pieces' /\ pieces'[n] = pieces[n]
    BY <1>3, <1>4
  <1> QED BY <1>3, <1>8, <1>9, <1>10

\* The cutting at the end of the last line of the next bytes, when there is one.
LEMMA CutLine ==
    ASSUME CutTypes, CutBook, Cut
    PROVE  /\ i' \in Nat /\ i' <= Len(text) /\ i' - i \in 0 .. BlockSize
           /\ text[i'] = Newline /\ AddBlock(i')
  <1>1. /\ phase = "cut" /\ i + BlockSize <= Len(text) /\ LineEnds # {}
        /\ AddBlock(Max(LineEnds) + 1) /\ i' = Max(LineEnds) + 1
    BY DEF Cut, CutAt
  <1>2. i \in Nat /\ BlockSize \in Nat /\ Len(text) \in Nat
    BY TransferAssumption DEF TransferAssumption, CutTypes
  <1>3. LineEnds \in SUBSET Nat /\ \A m \in LineEnds : m <= i + BlockSize
    BY <1>2 DEF LineEnds
  <1>4. Max(LineEnds) \in LineEnds
    <2>1. i + BlockSize \in Nat
      BY <1>2
    <2> QED BY <1>1, <1>3, <2>1, GreatestOf
  <1>5. Max(LineEnds) \in i + 1 .. i + BlockSize - 1 /\ text[Max(LineEnds) + 1] = Newline
    BY <1>4 DEF LineEnds
  <1> QED BY <1>1, <1>2, <1>5

\* The pieces follow each other and are the text.
LEMMA StepCut ==
    ASSUME CutTypes, CutBook, [Next]_vars
    PROVE  CutTypes' /\ CutBook'
  <1>0. i \in Nat /\ BlockSize \in Nat /\ Len(text) \in Nat /\ Len(pieces) \in Nat
    BY TransferAssumption DEF TransferAssumption, CutTypes
  <1>1. CASE CutLast
    <2>1. /\ phase = "cut" /\ i + BlockSize > Len(text) /\ AddBlock(Len(text))
          /\ UNCHANGED <<text, i>> /\ phase' \in {"set", "failed"}
      BY <1>1 DEF CutLast
    <2>2. i <= Len(text)
      BY <2>1 DEF CutBook
    <2>3. /\ pieces' \in Seq([from : Nat, to : Nat]) /\ Len(pieces') = Len(pieces) + 1
          /\ pieces'[Len(pieces')].to = Len(text)
          /\ \A n \in DOMAIN pieces' :
                /\ pieces'[n].from = IF n = 1 THEN 0 ELSE pieces'[n - 1].to
                /\ pieces'[n].to \in 0 .. Len(text)
                /\ pieces'[n].to - pieces'[n].from \in 0 .. BlockSize
                /\ pieces'[n].to = Len(text) \/ text[pieces'[n].to] = Newline
      BY <1>0, <2>1, <2>2, CutNext
    <2>4. CutTypes'
      BY <2>1, <2>3 DEF CutTypes, Phases
    <2>5. DOMAIN pieces' = 1 .. Len(pieces') /\ pieces' # <<>>
      BY <1>0, <2>3
    <2> QED BY <2>1, <2>3, <2>4, <2>5 DEF CutBook, End, Length
  <1>2. CASE Cut
    <2>1. phase = "cut" /\ UNCHANGED <<text, phase>>
      BY <1>2 DEF Cut, CutAt
    <2>2. /\ i' \in Nat /\ i' <= Len(text) /\ i' - i \in 0 .. BlockSize
          /\ text[i'] = Newline /\ AddBlock(i')
      BY <1>2, CutLine
    <2>4. /\ pieces' \in Seq([from : Nat, to : Nat]) /\ Len(pieces') = Len(pieces) + 1
          /\ pieces'[Len(pieces')].to = i'
          /\ \A n \in DOMAIN pieces' :
                /\ pieces'[n].from = IF n = 1 THEN 0 ELSE pieces'[n - 1].to
                /\ pieces'[n].to \in 0 .. Len(text)
                /\ pieces'[n].to - pieces'[n].from \in 0 .. BlockSize
                /\ pieces'[n].to = Len(text) \/ text[pieces'[n].to] = Newline
      <3> DEFINE e == i'
      <3>1. e \in Nat /\ e <= Len(text) /\ e - i \in 0 .. BlockSize /\ text[e] = Newline /\ AddBlock(e)
        BY <2>2
      <3> HIDE DEF e
      <3>2. /\ pieces' \in Seq([from : Nat, to : Nat]) /\ Len(pieces') = Len(pieces) + 1
            /\ pieces'[Len(pieces')].to = e
            /\ \A n \in DOMAIN pieces' :
                /\ pieces'[n].from = IF n = 1 THEN 0 ELSE pieces'[n - 1].to
                /\ pieces'[n].to \in 0 .. Len(text)
                /\ pieces'[n].to - pieces'[n].from \in 0 .. BlockSize
                /\ pieces'[n].to = Len(text) \/ text[pieces'[n].to] = Newline
        BY <2>1, <3>1, CutNext
      <3> QED BY <3>2 DEF e
    <2>5. CutTypes'
      BY <2>1, <2>2, <2>4 DEF CutTypes
    <2>6. Len(pieces') # 0 /\ DOMAIN pieces' = 1 .. Len(pieces')
      BY <1>0, <2>4
    <2> QED BY <2>1, <2>2, <2>4, <2>5, <2>6 DEF CutBook, End, Length
  <1>3. CASE UNCHANGED cutVars /\ (phase' = phase \/ (phase # "cut" /\ phase' \in Phases \ {"cut"}))
    <2>1. UNCHANGED <<text, i, pieces>>
      BY <1>3 DEF cutVars
    <2> QED BY <1>3, <2>1 DEF CutTypes, CutBook, End, Length
  <1>4. CASE SetNext \/ SetEnds \/ GetNext \/ GetEnds \/ Lost
    BY <1>3, <1>4 DEF SetNext, SetEnds, Stored, GetNext, GetEnds, Lost, Phases
  <1>5. CASE Send \/ RecvSize \/ RecvData \/ UNCHANGED vars
    BY <1>3, <1>5 DEF Send, RecvSize, RecvData, vars
  <1> QED BY <1>1, <1>2, <1>4, <1>5 DEF Next

\* Nothing is cut at first.
LEMMA InitCut == Init => CutTypes /\ CutBook
  <1> SUFFICES ASSUME Init PROVE CutTypes /\ CutBook
    OBVIOUS
  <1>1. PICK l \in 0 .. MaxLength : text \in [1 .. l -> Char]
    BY DEF Init
  <1>2. l \in Nat /\ text \in Seq(Char)
    BY <1>1, TransferAssumption DEF TransferAssumption
  <1>3. Len(text) \in Nat
    BY <1>2
  <1>4. i = 0 /\ pieces = <<>> /\ phase = "cut" /\ Len(pieces) = 0 /\ DOMAIN pieces = {}
    BY DEF Init
  <1>5. pieces \in Seq([from : Nat, to : Nat])
    BY <1>4
  <1> QED BY <1>2, <1>3, <1>4, <1>5 DEF CutTypes, CutBook, End, Phases

\* A text is cut where lines end, into pieces that fit in a block, and no byte of it is
\* lost or cut twice (filesystem_getBlocksFromStr), whatever the text and the size of a
\* block.
THEOREM CutsAreExact == Spec => []CutIsExact
  <1> DEFINE CInv == CutTypes /\ CutBook
  <1>1. Init => CInv
    BY InitCut
  <1>2. CInv /\ [Next]_vars => CInv'
    BY StepCut
  <1>3. CInv => CutIsExact
    <2> SUFFICES ASSUME CInv PROVE CutIsExact
      OBVIOUS
    <2>1. \A n \in DOMAIN pieces : (n = 1 <=> n - 1 = 0)
      BY DEF CutTypes
    <2> QED BY <2>1 DEF CutBook, CutIsExact, End
  <1> QED BY <1>1, <1>2, <1>3, PTL DEF Spec

----------------------------------------------------------------------------
\* The bytes of sequences, one after the other.
LEMMA Joined ==
    ASSUME NEW s \in Seq(Byte), NEW t \in Seq(Byte)
    PROVE  /\ s \o t \in Seq(Byte) /\ Len(s \o t) = Len(s) + Len(t)
           /\ \A k \in 1 .. Len(s) : (s \o t)[k] = s[k]
           /\ \A k \in 1 .. Len(t) : (s \o t)[Len(s) + k] = t[k]
           /\ Len(s) \in Nat /\ Len(t) \in Nat
  <1>1. /\ s \o t \in Seq(Byte) /\ Len(s \o t) = Len(s) + Len(t)
        /\ \A k \in 1 .. Len(s) + Len(t) : (s \o t)[k] = IF k <= Len(s) THEN s[k] ELSE t[k - Len(s)]
    BY ConcatProperties
  <1>2. Len(s) \in Nat /\ Len(t) \in Nat
    OBVIOUS
  <1>3. \A k \in 1 .. Len(s) : k \in 1 .. Len(s) + Len(t) /\ k <= Len(s)
    BY <1>2
  <1>4. ASSUME NEW k \in 1 .. Len(t) PROVE (s \o t)[Len(s) + k] = t[k]
    <2> DEFINE m == Len(s) + k
    <2>1. m \in 1 .. Len(s) + Len(t) /\ ~(m <= Len(s)) /\ m - Len(s) = k
      BY <1>2
    <2> HIDE DEF m
    <2>2. (s \o t)[m] = t[m - Len(s)]
      BY <1>1, <2>1
    <2> QED BY <2>1, <2>2 DEF m
  <1> QED BY <1>1, <1>2, <1>3, <1>4
\* The bytes of s are in q, after the first d bytes.
Inside(s, q, d) == \A k \in 1 .. Len(s) : q[d + k] = s[k]
LEMMA JoinedFour ==
    ASSUME NEW s \in Seq(Byte), NEW t \in Seq(Byte), NEW u \in Seq(Byte), NEW v \in Seq(Byte)
    PROVE  /\ Len(s \o t \o u \o v) = Len(s) + Len(t) + Len(u) + Len(v)
           /\ Inside(s, s \o t \o u \o v, 0)
           /\ Inside(t, s \o t \o u \o v, Len(s))
           /\ Inside(u, s \o t \o u \o v, Len(s) + Len(t))
  <1> DEFINE st == s \o t
             stu == st \o u
             all == stu \o v
  <1>0. Len(s) \in Nat /\ Len(t) \in Nat /\ Len(u) \in Nat /\ Len(v) \in Nat
    OBVIOUS
  <1>1. /\ st \in Seq(Byte) /\ Len(st) = Len(s) + Len(t)
        /\ \A k \in 1 .. Len(s) : st[k] = s[k]
        /\ \A k \in 1 .. Len(t) : st[Len(s) + k] = t[k]
    BY Joined
  <1> HIDE DEF st
  <1>2. /\ stu \in Seq(Byte) /\ Len(stu) = Len(st) + Len(u)
        /\ \A k \in 1 .. Len(st) : stu[k] = st[k]
        /\ \A k \in 1 .. Len(u) : stu[Len(st) + k] = u[k]
    BY <1>1, Joined
  <1> HIDE DEF stu
  <1>3. /\ Len(all) = Len(stu) + Len(v)
        /\ \A k \in 1 .. Len(stu) : all[k] = stu[k]
    BY <1>2, Joined
  <1> HIDE DEF all
  <1>4. Len(all) = Len(s) + Len(t) + Len(u) + Len(v)
    BY <1>0, <1>1, <1>2, <1>3
  <1>5. ASSUME NEW k \in 1 .. Len(s) PROVE all[k] = s[k]
    <2>1. k \in 1 .. Len(st) /\ k \in 1 .. Len(stu)
      BY <1>0, <1>1, <1>2
    <2> QED BY <1>1, <1>2, <1>3, <2>1
  <1>6. ASSUME NEW k \in 1 .. Len(t) PROVE all[Len(s) + k] = t[k]
    <2>1. Len(s) + k \in 1 .. Len(st) /\ Len(s) + k \in 1 .. Len(stu)
      BY <1>0, <1>1, <1>2
    <2> QED BY <1>1, <1>2, <1>3, <2>1
  <1>7. ASSUME NEW k \in 1 .. Len(u) PROVE all[Len(s) + Len(t) + k] = u[k]
    <2>1. Len(st) + k \in 1 .. Len(stu)
      BY <1>0, <1>1, <1>2
    <2> QED BY <1>1, <1>2, <1>3, <2>1
  <1>8. Inside(s, all, 0) /\ Inside(t, all, Len(s)) /\ Inside(u, all, Len(s) + Len(t))
    BY <1>5, <1>6, <1>7 DEF Inside
  <1>9. all = s \o t \o u \o v
    BY DEF all, stu, st
  <1> QED BY <1>4, <1>8, <1>9

\* The bytes of a piece.
LEMMA PieceBytes ==
    ASSUME CutTypes, CutBook, NEW n \in DOMAIN pieces
    PROVE  /\ Piece(n) \in Seq(Char) /\ Len(Piece(n)) = Length(n) /\ Length(n) \in 0 .. BlockSize
           /\ pieces[n].from \in Nat /\ pieces[n].to \in 0 .. Len(text)
           /\ pieces[n].from = End(n - 1) /\ pieces[n].to = End(n)
           /\ \A k \in 1 .. Length(n) : Piece(n)[k] = text[pieces[n].from + k]
           /\ Len(text) \in Nat /\ DOMAIN text = 1 .. Len(text)
  <1>0. pieces \in Seq([from : Nat, to : Nat]) /\ text \in Seq(Char)
    BY DEF CutTypes
  <1>1. /\ n \in Nat \ {0} /\ pieces[n] \in [from : Nat, to : Nat] /\ Len(text) \in Nat
        /\ text \in Seq(Char) /\ DOMAIN text = 1 .. Len(text)
    <2>1. Len(text) \in Nat /\ DOMAIN text = 1 .. Len(text)
      BY <1>0
    <2>2. Len(pieces) \in Nat /\ DOMAIN pieces = 1 .. Len(pieces)
      BY <1>0
    <2>4. n \in 1 .. Len(pieces)
      BY <2>2
    <2>3. pieces[n] \in [from : Nat, to : Nat]
      BY <1>0, <2>4, ElementOfSeq
    <2>5. n \in Nat /\ n # 0
      BY <2>2, <2>4
    <2> QED BY <1>0, <2>1, <2>3, <2>5
  <1>2. /\ pieces[n].from = End(n - 1) /\ pieces[n].to \in 0 .. Len(text)
        /\ Length(n) \in 0 .. BlockSize
    BY DEF CutBook
  <1>3. pieces[n].from \in Nat /\ pieces[n].to \in Nat /\ Length(n) = pieces[n].to - pieces[n].from
    BY <1>1 DEF Length
  <1>4. \A k \in pieces[n].from + 1 .. pieces[n].to : text[k] \in Char
    BY <1>1, <1>2, <1>3
  <1>5. /\ Piece(n) \in Seq(Char)
        /\ Len(Piece(n)) = IF pieces[n].from + 1 <= pieces[n].to
                           THEN pieces[n].to - (pieces[n].from + 1) + 1 ELSE 0
        /\ \A k \in 1 .. pieces[n].to - (pieces[n].from + 1) + 1 :
             Piece(n)[k] = text[pieces[n].from + 1 + k - 1]
    <2>1. pieces[n].from + 1 \in Int /\ pieces[n].to \in Int
      BY <1>3
    <2> QED BY <1>4, <2>1, SubSeqProperties DEF Piece
  <1>6. Length(n) >= 0
    BY <1>2
  <1>7. Len(Piece(n)) = Length(n)
    BY <1>3, <1>5, <1>6
  <1>8. \A k \in 1 .. Length(n) : Piece(n)[k] = text[pieces[n].from + k]
    <2> SUFFICES ASSUME NEW k \in 1 .. Length(n) PROVE Piece(n)[k] = text[pieces[n].from + k]
      OBVIOUS
    <2>1. k \in 1 .. pieces[n].to - (pieces[n].from + 1) + 1
      BY <1>3
    <2>2. pieces[n].from + 1 + k - 1 = pieces[n].from + k
      BY <1>3
    <2> QED BY <1>5, <2>1, <2>2
  <1>9. pieces[n].to = End(n)
    BY <1>1 DEF End
  <1> QED BY <1>1, <1>2, <1>3, <1>5, <1>7, <1>8, <1>9

\* A packet: the two digits of a size, and so many bytes.
LEMMA PacketBytes ==
    ASSUME CutTypes, CutBook, NEW n \in DOMAIN pieces
    PROVE  /\ Packet(Piece(n)) \in Seq(Byte) /\ Len(Packet(Piece(n))) = Length(n) + 2
           /\ Packet(Piece(n))[1] = Length(n) \div Base
           /\ Packet(Piece(n))[2] = Length(n) % Base
           /\ \A k \in 1 .. Length(n) : Packet(Piece(n))[2 + k] = Piece(n)[k]
           /\ Length(n) \div Base \in 0 .. Base - 1 /\ Length(n) % Base \in 0 .. Base - 1
           /\ (Length(n) \div Base) * Base + (Length(n) % Base) = Length(n)
           /\ (Length(n) \div Base) * Base <= Length(n)
  <1>1. /\ Piece(n) \in Seq(Char) /\ Len(Piece(n)) = Length(n) /\ Length(n) \in 0 .. BlockSize
    BY PieceBytes
  <1>2. /\ BlockSize \in Nat /\ Base \in Nat /\ BlockSize < Base * Base /\ Base * Base \in Nat
    BY TransferAssumption DEF TransferAssumption
  <1>3. Length(n) \in Nat /\ Length(n) < Base * Base
    BY <1>1, <1>2
  <1>4. /\ Length(n) \div Base \in 0 .. Base - 1 /\ Length(n) % Base \in 0 .. Base - 1
        /\ (Length(n) \div Base) * Base + (Length(n) % Base) = Length(n)
        /\ (Length(n) \div Base) * Base <= Length(n)
    BY <1>3, Digits
  <1> DEFINE size == <<Length(n) \div Base, Length(n) % Base>>
  <1>5. /\ size \in Seq(Byte) /\ Len(size) = 2
        /\ size[1] = Length(n) \div Base /\ size[2] = Length(n) % Base
    <2>1. Length(n) \div Base \in Byte /\ Length(n) % Base \in Byte
      BY <1>4 DEF Byte
    <2> QED BY <2>1
  <1>6. Piece(n) \in Seq(Byte)
    <2>1. Char \subseteq Byte
      BY DEF Byte
    <2> QED BY <1>1, <2>1, SeqMonotonic
  <1>7. Packet(Piece(n)) = size \o Piece(n)
    BY <1>1 DEF Packet
  <1> HIDE DEF size
  <1>8. /\ size \o Piece(n) \in Seq(Byte) /\ Len(size \o Piece(n)) = Len(size) + Len(Piece(n))
        /\ \A k \in 1 .. Len(size) : (size \o Piece(n))[k] = size[k]
        /\ \A k \in 1 .. Len(Piece(n)) : (size \o Piece(n))[Len(size) + k] = Piece(n)[k]
    BY <1>5, <1>6, Joined
  <1>9. 1 \in 1 .. Len(size) /\ 2 \in 1 .. Len(size) /\ 2 + Length(n) = Length(n) + 2
    BY <1>3, <1>5
  <1>10. \A k \in 1 .. Length(n) : Packet(Piece(n))[2 + k] = Piece(n)[k]
    BY <1>1, <1>5, <1>7, <1>8
  <1> QED BY <1>1, <1>4, <1>5, <1>7, <1>8, <1>9, <1>10

\* The bytes received, those on their way and those not sent yet.
LEMMA WireBytes ==
    ASSUME WireTypes
    PROVE  LET p == head \o body \o wire \o out
           IN  /\ Len(p) = Len(head) + Len(body) + Len(wire) + Len(out)
               /\ Inside(head, p, 0) /\ Inside(body, p, Len(head))
               /\ Inside(wire, p, Len(head) + Len(body))
  <1>1. /\ head \in Seq(Byte) /\ body \in Seq(Byte) /\ wire \in Seq(Byte) /\ out \in Seq(Byte)
    BY DEF WireTypes
  <1> QED BY <1>1, JoinedFour

\* What the receiver can tell from what came of a packet.
LEMMA Parse ==
    ASSUME CutTypes, CutBook, WireTypes, NEW n \in DOMAIN pieces,
           Len(head) \in 0 .. 2, Len(head) < 2 => body = <<>>,
           head \o body \o wire \o out = Packet(Piece(n))
    PROVE  /\ Size \in 0 .. Length(n) /\ Len(head) + Len(body) + Len(wire) + Len(out) = Length(n) + 2
           /\ Len(head) = 2 => /\ Size = Length(n) /\ Len(body) + Len(wire) <= Length(n)
                               /\ \A k \in 1 .. Len(body) : body[k] = Piece(n)[k]
                               /\ \A k \in 1 .. Len(wire) : wire[k] = Piece(n)[Len(body) + k]
  <1> DEFINE p == Packet(Piece(n))
  <1>1. /\ head \in Seq(Byte) /\ body \in Seq(Byte) /\ wire \in Seq(Byte) /\ out \in Seq(Byte)
    BY DEF WireTypes
  <1>2. Len(head) \in Nat /\ Len(body) \in Nat /\ Len(wire) \in Nat /\ Len(out) \in Nat
    BY <1>1, LenProperties
  <1>3. /\ Len(p) = Length(n) + 2
        /\ p[1] = Length(n) \div Base /\ p[2] = Length(n) % Base
        /\ \A k \in 1 .. Length(n) : p[2 + k] = Piece(n)[k]
        /\ Length(n) \div Base \in 0 .. Base - 1 /\ Length(n) % Base \in 0 .. Base - 1
        /\ (Length(n) \div Base) * Base + (Length(n) % Base) = Length(n)
        /\ (Length(n) \div Base) * Base <= Length(n)
    BY PacketBytes
  <1>4. Length(n) \in Nat /\ Base \in Nat
    BY PieceBytes, TransferAssumption DEF TransferAssumption
  <1>5. p = head \o body \o wire \o out
    OBVIOUS
  <1> HIDE DEF p
  <1>6. /\ Len(p) = Len(head) + Len(body) + Len(wire) + Len(out)
        /\ \A k \in 1 .. Len(head) : p[k] = head[k]
        /\ \A k \in 1 .. Len(body) : p[Len(head) + k] = body[k]
        /\ \A k \in 1 .. Len(wire) : p[Len(head) + Len(body) + k] = wire[k]
    <2>1. /\ Len(p) = Len(head) + Len(body) + Len(wire) + Len(out)
          /\ Inside(head, p, 0) /\ Inside(body, p, Len(head))
          /\ Inside(wire, p, Len(head) + Len(body))
      BY <1>5, WireBytes
    <2> QED BY <2>1 DEF Inside
  <1>8. Len(head) + Len(body) + Len(wire) + Len(out) = Length(n) + 2
    BY <1>3, <1>6
  <1>12. /\ Len(head) > 0 => head[1] = Length(n) \div Base
         /\ Len(head) > 1 => head[2] = Length(n) % Base
    <2>1. Len(head) > 0 => 1 \in 1 .. Len(head)
      BY <1>2
    <2>2. Len(head) > 1 => 2 \in 1 .. Len(head)
      BY <1>2
    <2> QED BY <1>3, <1>6, <2>1, <2>2
  <1>13. Size \in 0 .. Length(n)
    <2> DEFINE q == Length(n) \div Base
               r == Length(n) % Base
    <2>0. q * Base + r = Length(n) /\ q * Base <= Length(n)
          /\ q \in 0 .. Base - 1 /\ r \in 0 .. Base - 1
      BY <1>3
    <2>2. Size = (IF Len(head) > 0 THEN q * Base ELSE 0) + (IF Len(head) > 1 THEN r ELSE 0)
      BY <1>12 DEF Size
    <2> HIDE DEF q, r
    <2>1. /\ q \in Nat /\ r \in Nat /\ q * Base + r = Length(n) /\ q * Base <= Length(n)
          /\ q * Base \in Nat
      BY <1>4, <2>0
    <2> QED BY <1>2, <1>4, <2>1, <2>2
  <1>14. ASSUME Len(head) = 2
         PROVE  /\ Size = Length(n) /\ Len(body) + Len(wire) <= Length(n)
                /\ \A k \in 1 .. Len(body) : body[k] = Piece(n)[k]
                /\ \A k \in 1 .. Len(wire) : wire[k] = Piece(n)[Len(body) + k]
    <2>1. Size = Length(n)
      <3>1. Size = head[1] * Base + head[2]
        BY <1>14 DEF Size
      <3> QED BY <1>3, <1>12, <1>14, <3>1
    <2>2. Len(body) + Len(wire) <= Length(n)
      BY <1>2, <1>4, <1>8, <1>14
    <2>3. \A k \in 1 .. Len(body) : body[k] = Piece(n)[k]
      <3> SUFFICES ASSUME NEW k \in 1 .. Len(body) PROVE body[k] = Piece(n)[k]
        OBVIOUS
      <3>1. k \in 1 .. Length(n)
        BY <1>2, <1>4, <2>2
      <3> QED BY <1>3, <1>6, <1>14, <3>1
    <2>4. \A k \in 1 .. Len(wire) : wire[k] = Piece(n)[Len(body) + k]
      <3> SUFFICES ASSUME NEW k \in 1 .. Len(wire) PROVE wire[k] = Piece(n)[Len(body) + k]
        OBVIOUS
      <3>1. Len(body) + k \in 1 .. Length(n) /\ 2 + Len(body) + k = 2 + (Len(body) + k)
        BY <1>2, <1>4, <2>2
      <3>2. wire[k] = p[2 + Len(body) + k]
        BY <1>6, <1>14
      <3> QED BY <1>3, <3>1, <3>2
    <2> QED BY <2>1, <2>2, <2>3, <2>4
  <1> QED BY <1>8, <1>13, <1>14

----------------------------------------------------------------------------
\* The first bytes of a sequence and the rest of them.
LEMMA Parted ==
    ASSUME NEW z \in Seq(Byte), NEW k \in 1 .. Len(z)
    PROVE  /\ SubSeq(z, 1, k) \in Seq(Byte) /\ SubSeq(z, k + 1, Len(z)) \in Seq(Byte)
           /\ Len(SubSeq(z, 1, k)) = k
           /\ \A x \in 1 .. k : SubSeq(z, 1, k)[x] = z[x]
           /\ SubSeq(z, 1, k) \o SubSeq(z, k + 1, Len(z)) = z
  <1>1. /\ Len(z) \in Nat /\ k \in Nat /\ 1 \in Int /\ k \in Int /\ k + 1 \in Int
        /\ Len(z) \in Int /\ 1 \in 1 .. Len(z) + 1 /\ k \in 1 - 1 .. Len(z) /\ Len(z) \in k .. Len(z)
    OBVIOUS
  <1>2. \A x \in 1 .. Len(z) : z[x] \in Byte
    OBVIOUS
  <1>3. (\A x \in 1 .. k : z[x] \in Byte) /\ (\A x \in k + 1 .. Len(z) : z[x] \in Byte)
    BY <1>1, <1>2
  <1>4. /\ SubSeq(z, 1, k) \in Seq(Byte) /\ Len(SubSeq(z, 1, k)) = IF 1 <= k THEN k - 1 + 1 ELSE 0
        /\ \A x \in 1 .. k - 1 + 1 : SubSeq(z, 1, k)[x] = z[1 + x - 1]
    BY <1>1, <1>3, SubSeqProperties
  <1>5. SubSeq(z, k + 1, Len(z)) \in Seq(Byte)
    BY <1>1, <1>3, SubSeqProperties
  <1>6. SubSeq(z, 1, k) \o SubSeq(z, k + 1, Len(z)) = SubSeq(z, 1, Len(z))
    BY <1>1, ConcatAdjacentSubSeq
  <1>7. SubSeq(z, 1, Len(z)) = z
    BY SubSeqFull
  <1>8. Len(SubSeq(z, 1, k)) = k
    BY <1>1, <1>4
  <1>9. \A x \in 1 .. k : SubSeq(z, 1, k)[x] = z[x]
    <2> SUFFICES ASSUME NEW x \in 1 .. k PROVE SubSeq(z, 1, k)[x] = z[x]
      OBVIOUS
    <2>1. x \in 1 .. k - 1 + 1 /\ 1 + x - 1 = x
      BY <1>1
    <2> QED BY <1>4, <2>1
  <1> QED BY <1>4, <1>5, <1>6, <1>7, <1>8, <1>9

\* Three sequences, one after the other.
LEMMA Grouped ==
    \A s, t, u \in Seq(Byte) : (s \o t) \o u = s \o (t \o u)
  BY ConcatAssociative

\* Bytes that move from the front of a sequence to the end of the one before it.
LEMMA Moved ==
    ASSUME NEW x \in Seq(Byte), NEW z \in Seq(Byte), NEW k \in 1 .. Len(z)
    PROVE  /\ x \o SubSeq(z, 1, k) \in Seq(Byte)
           /\ (x \o SubSeq(z, 1, k)) \o SubSeq(z, k + 1, Len(z)) = x \o z
  <1> DEFINE s == SubSeq(z, 1, k)
             t == SubSeq(z, k + 1, Len(z))
  <1>1. s \in Seq(Byte) /\ t \in Seq(Byte) /\ s \o t = z
    BY Parted
  <1> HIDE DEF s, t
  <1>2. (x \o s) \o t = x \o (s \o t)
    BY <1>1, Grouped
  <1>3. x \o s \in Seq(Byte)
    BY <1>1, ConcatProperties
  <1>4. x \o s \in Seq(Byte) /\ (x \o s) \o t = x \o z
    BY <1>1, <1>2, <1>3
  <1> QED BY <1>4 DEF s, t

\* The packet stays the same while its bytes move.
LEMMA SendMoves ==
    ASSUME WireTypes, Send
    PROVE  /\ wire' \in Seq(Byte) /\ out' \in Seq(Byte)
           /\ head \o body \o wire' \o out' = head \o body \o wire \o out
  <1>1. PICK k \in 1 .. Len(out) :
           wire' = wire \o SubSeq(out, 1, k) /\ out' = SubSeq(out, k + 1, Len(out))
    BY DEF Send
  <1>2. /\ head \in Seq(Byte) /\ body \in Seq(Byte) /\ wire \in Seq(Byte) /\ out \in Seq(Byte)
    BY DEF WireTypes
  <1> DEFINE s == SubSeq(out, 1, k)
             t == SubSeq(out, k + 1, Len(out))
             hb == head \o body
  <1>3. s \in Seq(Byte) /\ t \in Seq(Byte) /\ s \o t = out
    BY <1>2, Parted
  <1>4. hb \in Seq(Byte)
    BY <1>2, ConcatProperties
  <1>5. wire' = wire \o s /\ out' = t
    BY <1>1
  <1> HIDE DEF s, t, hb
  <1>6. wire \o s \in Seq(Byte) /\ hb \o wire \in Seq(Byte)
    BY <1>2, <1>3, <1>4, ConcatProperties
  <1>7. hb \o (wire \o s) = (hb \o wire) \o s
    <2>1. hb \in Seq(Byte) /\ wire \in Seq(Byte) /\ s \in Seq(Byte)
      BY <1>2, <1>3, <1>4
    <2> QED BY <2>1, Grouped
  <1>8. ((hb \o wire) \o s) \o t = (hb \o wire) \o (s \o t)
    <2> DEFINE hw == hb \o wire
    <2>1. hw \in Seq(Byte) /\ s \in Seq(Byte) /\ t \in Seq(Byte)
      BY <1>3, <1>6
    <2> HIDE DEF hw
    <2>2. (hw \o s) \o t = hw \o (s \o t)
      BY <2>1, Grouped
    <2> QED BY <2>2 DEF hw
  <1>9. hb \o wire' \o out' = hb \o wire \o out
    BY <1>3, <1>5, <1>7, <1>8
  <1> QED BY <1>3, <1>5, <1>6, <1>9 DEF hb
LEMMA SizeMoves ==
    ASSUME WireTypes, body = <<>>, NEW k \in 1 .. Len(wire),
           head' = head \o SubSeq(wire, 1, k), Took(k), body' = body
    PROVE  /\ head' \in Seq(Byte) /\ wire' \in Seq(Byte) /\ out' \in Seq(Byte)
           /\ Len(head') = Len(head) + k
           /\ head' \o body' \o wire' \o out' = head \o body \o wire \o out
  <1>1. /\ head \in Seq(Byte) /\ wire \in Seq(Byte) /\ out \in Seq(Byte)
    BY DEF WireTypes
  <1> DEFINE s == SubSeq(wire, 1, k)
             t == SubSeq(wire, k + 1, Len(wire))
             h == head'
  <1>2. s \in Seq(Byte) /\ t \in Seq(Byte) /\ Len(s) = k
    BY <1>1, Parted
  <1>3. head \o s \in Seq(Byte) /\ (head \o s) \o t = head \o wire
    BY <1>1, Moved
  <1>4. h = head \o s /\ wire' = t /\ out' = out
    BY DEF Took
  <1>5. Len(head \o s) = Len(head) + Len(s)
    BY <1>1, <1>2, ConcatProperties
  <1> HIDE DEF s, t, h
  <1>6. h \o <<>> = h /\ head \o <<>> = head
    BY <1>1, <1>3, <1>4, ConcatEmptySeq
  <1>7. h \o t = head \o wire
    BY <1>3, <1>4
  <1>8. h \o <<>> \o t \o out = head \o <<>> \o wire \o out
    BY <1>6, <1>7
  <1>9. body' = <<>> /\ body = <<>> /\ h = head'
    BY DEF h
  <1> QED BY <1>1, <1>2, <1>3, <1>4, <1>5, <1>8, <1>9
LEMMA DataMoves ==
    ASSUME WireTypes, NEW k \in 1 .. Len(wire),
           body' = body \o SubSeq(wire, 1, k), Took(k), head' = head
    PROVE  /\ body' \in Seq(Byte) /\ wire' \in Seq(Byte) /\ out' \in Seq(Byte)
           /\ Len(body') = Len(body) + k
           /\ \A x \in 1 .. Len(body) : body'[x] = body[x]
           /\ \A x \in 1 .. k : body'[Len(body) + x] = wire[x]
           /\ head' \o body' \o wire' \o out' = head \o body \o wire \o out
  <1>1. /\ head \in Seq(Byte) /\ body \in Seq(Byte) /\ wire \in Seq(Byte) /\ out \in Seq(Byte)
    BY DEF WireTypes
  <1> DEFINE s == SubSeq(wire, 1, k)
             t == SubSeq(wire, k + 1, Len(wire))
             b == body'
  <1>2. /\ s \in Seq(Byte) /\ t \in Seq(Byte) /\ Len(s) = k
        /\ \A x \in 1 .. k : s[x] = wire[x]
    BY <1>1, Parted
  <1>3. body \o s \in Seq(Byte) /\ (body \o s) \o t = body \o wire
    BY <1>1, Moved
  <1>4. b = body \o s /\ wire' = t /\ out' = out
    BY DEF Took
  <1> HIDE DEF s, t, b
  <1>5. Len(body \o s) = Len(body) + Len(s)
    BY <1>1, <1>2, Joined
  <1>6. \A x \in 1 .. Len(body) : (body \o s)[x] = body[x]
    BY <1>1, <1>2, Joined
  <1>7. \A x \in 1 .. Len(s) : (body \o s)[Len(body) + x] = s[x]
    BY <1>1, <1>2, Joined
  <1>8. (head \o b) \o t = head \o (b \o t)
    <2>1. head \in Seq(Byte) /\ b \in Seq(Byte) /\ t \in Seq(Byte)
      BY <1>1, <1>2, <1>3, <1>4
    <2> QED BY <2>1, Grouped
  <1>11. (head \o body) \o wire = head \o (body \o wire)
    BY <1>1, Grouped
  <1>9. head \o b \o t \o out = head \o body \o wire \o out
    BY <1>3, <1>4, <1>8, <1>11
  <1>10. b = body'
    BY DEF b
  <1> QED BY <1>1, <1>2, <1>3, <1>4, <1>5, <1>6, <1>7, <1>9, <1>10

----------------------------------------------------------------------------
\* A piece that fills its block is not cut again.
LEMMA StaysFull ==
    ASSUME CutTypes, CutBook, [Next]_vars, SomeFull
    PROVE  SomeFull'
  <1>1. PICK n \in DOMAIN pieces : Length(n) = BlockSize
    BY DEF SomeFull
  <1>2. CASE CutLast \/ Cut
    <2>0. i \in Nat /\ Len(text) \in Nat /\ BlockSize \in Nat
      BY TransferAssumption DEF TransferAssumption, CutTypes
    <2>1. phase = "cut"
      BY <1>2 DEF CutLast, Cut, CutAt
    <2>2. PICK e \in Nat : /\ e <= Len(text) /\ e - i \in 0 .. BlockSize
                           /\ e = Len(text) \/ text[e] = Newline
                           /\ AddBlock(e)
      <3>1. CASE CutLast
        <4>1. i <= Len(text) /\ i + BlockSize > Len(text) /\ AddBlock(Len(text))
          BY <2>1, <3>1 DEF CutBook, CutLast
        <4> QED BY <2>0, <4>1
      <3>2. CASE Cut
        BY <3>2, CutLine
      <3> QED BY <1>2, <3>1, <3>2
    <2>3. \A m \in DOMAIN pieces : m \in DOMAIN pieces' /\ pieces'[m] = pieces[m]
      BY <2>1, <2>2, CutNext
    <2> QED BY <1>1, <2>3 DEF SomeFull, Length
  <1>3. CASE pieces' = pieces
    BY <1>3 DEF SomeFull, Length
  <1>4. CASE ~(CutLast \/ Cut)
    <2>1. UNCHANGED cutVars
      BY <1>4 DEF Next, SetNext, SetEnds, Stored, GetNext, GetEnds, Lost, Send, RecvSize, RecvData, vars
    <2> QED BY <1>3, <2>1 DEF cutVars
  <1> QED BY <1>2, <1>4

\* The piece that is on its way, its size and the bytes of it that came.
LEMMA Flow ==
    ASSUME CutTypes, CutBook, Carried, phase \in {"setting", "getting"}
    PROVE  /\ Sent \in DOMAIN pieces /\ Sent \in Nat
           /\ Size \in 0 .. Length(Sent) /\ Length(Sent) \in 0 .. BlockSize
           /\ Len(head) = 2 =>
                /\ Size = Length(Sent) /\ Len(body) + Len(wire) <= Length(Sent)
                /\ \A k \in 1 .. Len(body) : body[k] = text[pieces[Sent].from + k]
                /\ \A k \in 1 .. Len(wire) : wire[k] = text[pieces[Sent].from + Len(body) + k]
                /\ Len(body) = Length(Sent) => wire = <<>> /\ out = <<>> /\ body = Piece(Sent)
           /\ Len(head) \in 0 .. 2 /\ (Len(head) < 2 => body = <<>>)
           /\ head \o body \o wire \o out = Packet(Piece(Sent))
  <1>1. WireTypes /\ PlaceBook /\ StreamBook
    BY DEF Carried
  <1>2. Len(places) \in Nat /\ Len(pieces) \in Nat /\ DOMAIN pieces = 1 .. Len(pieces)
    BY <1>1 DEF WireTypes, CutTypes
  <1>3. Sent \in DOMAIN pieces /\ Sent \in Nat
    <2>1. CASE phase = "setting"
      BY <1>1, <1>2, <2>1 DEF PlaceBook, Sent
    <2>2. CASE phase = "getting"
      <3>1. Len(places) < Len(pieces)
        BY <1>1, <2>2 DEF PlaceBook
      <3> QED BY <1>2, <2>2, <3>1 DEF Sent
    <2> QED BY <2>1, <2>2
  <1>4. /\ Len(head) \in 0 .. 2 /\ (Len(head) < 2 => body = <<>>)
        /\ head \o body \o wire \o out = Packet(Piece(Sent))
    BY <1>1 DEF StreamBook
  <1> DEFINE n == Sent
  <1>5. n \in DOMAIN pieces /\ head \o body \o wire \o out = Packet(Piece(n))
    BY <1>3, <1>4
  <1> HIDE DEF n
  <1>6. /\ Size \in 0 .. Length(n) /\ Len(head) + Len(body) + Len(wire) + Len(out) = Length(n) + 2
        /\ Len(head) = 2 => /\ Size = Length(n) /\ Len(body) + Len(wire) <= Length(n)
                            /\ \A k \in 1 .. Len(body) : body[k] = Piece(n)[k]
                            /\ \A k \in 1 .. Len(wire) : wire[k] = Piece(n)[Len(body) + k]
    BY <1>1, <1>4, <1>5, Parse
  <1>7. /\ Piece(n) \in Seq(Char) /\ Len(Piece(n)) = Length(n) /\ Length(n) \in 0 .. BlockSize
        /\ \A k \in 1 .. Length(n) : Piece(n)[k] = text[pieces[n].from + k]
        /\ pieces[n].from \in Nat
    BY <1>5, PieceBytes
  <1>8. /\ head \in Seq(Byte) /\ body \in Seq(Byte) /\ wire \in Seq(Byte) /\ out \in Seq(Byte)
    BY <1>1 DEF WireTypes
  <1>9. Len(head) \in Nat /\ Len(body) \in Nat /\ Len(wire) \in Nat /\ Len(out) \in Nat
    BY <1>8, LenProperties
  <1>10. Length(n) \in Nat
    BY <1>7, TransferAssumption DEF TransferAssumption
  <1>11. ASSUME Len(head) = 2
         PROVE  /\ \A k \in 1 .. Len(body) : body[k] = text[pieces[n].from + k]
                /\ \A k \in 1 .. Len(wire) : wire[k] = text[pieces[n].from + Len(body) + k]
                /\ Len(body) = Length(n) => wire = <<>> /\ out = <<>> /\ body = Piece(n)
    <2>1. \A k \in 1 .. Len(body) : k \in 1 .. Length(n)
      BY <1>6, <1>9, <1>10, <1>11
    <2>2. \A k \in 1 .. Len(wire) : /\ Len(body) + k \in 1 .. Length(n)
                                    /\ pieces[n].from + (Len(body) + k) = pieces[n].from + Len(body) + k
      BY <1>6, <1>7, <1>9, <1>10, <1>11
    <2>3. ASSUME Len(body) = Length(n) PROVE wire = <<>> /\ out = <<>> /\ body = Piece(n)
      <3>1. Len(wire) = 0 /\ Len(out) = 0
        BY <1>6, <1>9, <1>10, <1>11, <2>3
      <3>2. wire = <<>> /\ out = <<>>
        BY <1>8, <3>1, EmptySeq
      <3>3. Piece(n) \in Seq(Byte)
        <4>1. Char \subseteq Byte
          BY DEF Byte
        <4> QED BY <1>7, <4>1, SeqMonotonic
      <3>4. body = Piece(n)
        BY <1>6, <1>7, <1>8, <1>11, <2>3, <3>3, SeqEqual
      <3> QED BY <3>2, <3>4
    <2>4. \A k \in 1 .. Len(body) : body[k] = text[pieces[n].from + k]
      BY <1>6, <1>7, <1>11, <2>1
    <2>5. \A k \in 1 .. Len(wire) : wire[k] = text[pieces[n].from + Len(body) + k]
      BY <1>6, <1>7, <1>11, <2>2
    <2> QED BY <2>3, <2>4, <2>5
  <1>12. n = Sent
    BY DEF n
  <1> QED BY <1>3, <1>4, <1>6, <1>7, <1>11, <1>12

\* A piece that does not fill its block.
LEMMA Fits ==
    ASSUME CutTypes, CutBook, ~SomeFull, NEW n \in DOMAIN pieces
    PROVE  Length(n) \in 0 .. BlockSize - 1 /\ BlockSize \in Nat
  <1>1. Length(n) # BlockSize
    BY DEF SomeFull
  <1>2. Length(n) \in 0 .. BlockSize
    BY PieceBytes
  <1> QED BY <1>1, <1>2, TransferAssumption DEF TransferAssumption

----------------------------------------------------------------------------
\* How many pieces there are, and how many were set.
LEMMA Counts ==
    ASSUME CutTypes, WireTypes
    PROVE  /\ Len(pieces) \in Nat /\ DOMAIN pieces = 1 .. Len(pieces)
           /\ Len(places) \in Nat /\ DOMAIN places = 1 .. Len(places)
           /\ \A n \in 1 .. Len(places) : places[n] \in 0 .. Places - 1
  <1>1. Len(pieces) \in Nat /\ DOMAIN pieces = 1 .. Len(pieces)
    BY DEF CutTypes
  <1>2. places \in Seq(0 .. Places - 1)
    BY DEF WireTypes
  <1>3. Len(places) \in Nat /\ DOMAIN places = 1 .. Len(places)
    BY <1>2
  <1>4. \A n \in 1 .. Len(places) : places[n] \in 0 .. Places - 1
    BY <1>2, ElementOfSeq
  <1> QED BY <1>1, <1>3, <1>4

\* A block that is written leaves the others as they are.
LEMMA InBlock ==
    ASSUME CutTypes, CutBook, WireTypes, PlaceBook, ~SomeFull, phase = "setting",
           UNCHANGED <<text, pieces, places>>, DOMAIN space' = DOMAIN space,
           \A a \in DOMAIN space : a - Address \notin 0 .. BlockSize - 1 => space'[a] = space[a]
    PROVE  /\ \A n \in 1 .. Len(places) - 1 : Holds(n, places[n]) => Holds(n, places[n])'
           /\ Used => Used'
  <1>1. /\ places \in Seq(0 .. Places - 1) /\ space \in [0 .. Places * BlockSize -> Byte]
    BY DEF WireTypes
  <1>2. Len(places) \in 1 .. Len(pieces)
    BY DEF PlaceBook
  <1>3. /\ Len(pieces) \in Nat /\ DOMAIN pieces = 1 .. Len(pieces)
        /\ Len(places) \in Nat /\ DOMAIN places = 1 .. Len(places)
        /\ \A n \in 1 .. Len(places) : places[n] \in 0 .. Places - 1
    BY Counts
  <1> DEFINE p == places[Len(places)]
  <1>4. p \in 0 .. Places - 1 /\ Len(places) \in DOMAIN places
    <2>1. Len(places) \in 1 .. Len(places)
      BY <1>2, <1>3
    <2> QED BY <1>3, <2>1
  <1>5. Address = p * BlockSize
    BY DEF Address
  <1> HIDE DEF p
  <1>6. Places \in Nat /\ BlockSize \in Nat /\ BlockSize > 0
    BY TransferAssumption DEF TransferAssumption
  <1>7. p * BlockSize \in Nat /\ (p + 1) * BlockSize = p * BlockSize + BlockSize
    BY <1>4, <1>6, Blocks
  <1>8. ASSUME NEW n \in 1 .. Len(places) - 1, Holds(n, places[n])
        PROVE  Holds(n, places[n])'
    <2>0. n \in 1 .. Len(places) /\ n \in 1 .. Len(pieces) /\ n # Len(places)
      <3>1. \A a, b \in Nat : a \in 1 .. b =>
               \A m \in 1 .. a - 1 : m \in 1 .. a /\ m \in 1 .. b /\ m # a
        OBVIOUS
      <3>2. Len(places) \in Nat /\ Len(pieces) \in Nat
        BY <1>3
      <3> QED BY <1>2, <3>1, <3>2
    <2>1. n \in DOMAIN places /\ n \in DOMAIN pieces
      BY <1>3, <2>0
    <2>2. places[n] \in 0 .. Places - 1 /\ places[n] # p
      <3>1. \A m \in DOMAIN places : places[m] = places[n] => m = n
        BY <2>1 DEF PlaceBook
      <3> QED BY <1>3, <1>4, <2>0, <3>1 DEF p
    <2>3. Length(n) \in 0 .. BlockSize - 1
      BY <2>1, Fits
    <2> DEFINE q == places[n]
    <2>4. ASSUME NEW x \in 0 .. BlockSize - 1
          PROVE  space'[q * BlockSize + x] = space[q * BlockSize + x]
      <3>1. q * BlockSize + x \in DOMAIN space /\ q * BlockSize \in Nat
        BY <1>1, <2>2, Blocks
      <3>2. \A y \in 0 .. BlockSize - 1 : q * BlockSize + x # p * BlockSize + y
        BY <1>4, <2>2, Blocks
      <3> DEFINE a == q * BlockSize + x
      <3>3. a \in Int /\ a \in DOMAIN space
        BY <1>6, <3>1
      <3> HIDE DEF a
      <3>4. a - p * BlockSize \notin 0 .. BlockSize - 1
        <4> SUFFICES ASSUME a - p * BlockSize \in 0 .. BlockSize - 1 PROVE FALSE
          OBVIOUS
        <4>1. a = p * BlockSize + (a - p * BlockSize)
          BY <1>7, <3>3
        <4> QED BY <3>2, <4>1 DEF a
      <3>5. space'[a] = space[a]
        BY <1>5, <3>3, <3>4
      <3> QED BY <3>5 DEF a
    <2>5. q * BlockSize \in Nat
      BY <1>6, <2>2, <2>3, Blocks
    <2>6. \A k \in 1 .. Length(n) : space'[q * BlockSize + k - 1] = space[q * BlockSize + k - 1]
      <3> SUFFICES ASSUME NEW k \in 1 .. Length(n)
                   PROVE  space'[q * BlockSize + k - 1] = space[q * BlockSize + k - 1]
        OBVIOUS
      <3>1. k - 1 \in 0 .. BlockSize - 1 /\ q * BlockSize + (k - 1) = q * BlockSize + k - 1
        BY <1>6, <2>3, <2>5
      <3> QED BY <2>4, <3>1
    <2>7. space'[q * BlockSize + Length(n)] = space[q * BlockSize + Length(n)]
      BY <2>3, <2>4
    <2> QED BY <1>8, <2>6, <2>7 DEF Holds, Length
  <1>9. ASSUME Used PROVE Used'
    <2> SUFFICES ASSUME NEW a \in DOMAIN space, space'[a] # "old"
                 PROVE  \E n \in DOMAIN places :
                          a \in places[n] * BlockSize .. (places[n] + 1) * BlockSize - 1
      BY DEF Used
    <2>1. CASE a - Address \in 0 .. BlockSize - 1
      <3>1. a \in Int
        BY <1>1, <1>6
      <3>2. a \in p * BlockSize .. (p + 1) * BlockSize - 1
        BY <1>5, <1>6, <1>7, <2>1, <3>1
      <3> QED BY <1>4, <3>2 DEF p
    <2>2. CASE a - Address \notin 0 .. BlockSize - 1
      <3>1. space[a] # "old"
        BY <2>2
      <3> QED BY <1>9, <3>1 DEF Used
    <2> QED BY <2>1, <2>2
  <1> QED BY <1>8, <1>9

\* The zero that ends a block, at the place its size says.
LEMMA ZeroInBlock ==
    ASSUME CutTypes, CutBook, Carried, ~SomeFull, phase = "setting",
           UNCHANGED <<text, pieces, places>>, Zero
    PROVE  /\ space' \in [0 .. Places * BlockSize -> Byte]
           /\ \A n \in 1 .. Len(places) - 1 : Holds(n, places[n])'
           /\ Used'
           /\ space'[Address + Size] = "zero"
           /\ \A x \in 0 .. Size - 1 : space'[Address + x] = space[Address + x]
  <1>1. WireTypes /\ PlaceBook /\ SpaceBook
    BY DEF Carried
  <1>2. /\ places \in Seq(0 .. Places - 1) /\ space \in [0 .. Places * BlockSize -> Byte]
    BY <1>1 DEF WireTypes
  <1>3. /\ Len(places) \in 1 .. Len(places) 
        /\ \A n \in 1 .. Len(places) : places[n] \in 0 .. Places - 1
    <2>1. Len(places) \in 1 .. Len(pieces)
      BY <1>1 DEF PlaceBook
    <2> QED BY <1>1, <2>1, Counts
  <1> DEFINE p == places[Len(places)]
             s == Size
             b == Address
  <1>4. p \in 0 .. Places - 1 /\ b = p * BlockSize
    BY <1>3 DEF Address
  <1>5. s \in 0 .. BlockSize - 1 /\ BlockSize \in Nat
    <2>1. Sent \in DOMAIN pieces /\ s \in 0 .. Length(Sent)
      BY Flow
    <2>2. Length(Sent) \in 0 .. BlockSize - 1 /\ BlockSize \in Nat
      BY <2>1, Fits
    <2> QED BY <2>1, <2>2
  <1> HIDE DEF p
  <1>6. b \in Nat /\ b + s \in 0 .. Places * BlockSize
        /\ \A x \in 0 .. BlockSize - 1 : b + x \in 0 .. Places * BlockSize
    BY <1>4, <1>5, Blocks
  <1>7. space' = [space EXCEPT ![b + s] = "zero"]
    BY DEF Zero
  <1> HIDE DEF s, b
  <1>8. "zero" \in Byte
    BY DEF Byte, Marks
  <1>9. space' \in [0 .. Places * BlockSize -> Byte] /\ space'[b + s] = "zero"
        /\ \A a \in DOMAIN space : a # b + s => space'[a] = space[a]
    BY <1>2, <1>6, <1>7, <1>8
  <1>10. \A a \in DOMAIN space : a - b \notin 0 .. BlockSize - 1 => space'[a] = space[a]
    <2> SUFFICES ASSUME NEW a \in DOMAIN space, a = b + s PROVE a - b \in 0 .. BlockSize - 1
      BY <1>9
    <2> QED BY <1>5, <1>6
  <1>11. \A x \in 0 .. s - 1 : space'[b + x] = space[b + x]
    <2> SUFFICES ASSUME NEW x \in 0 .. s - 1 PROVE space'[b + x] = space[b + x]
      OBVIOUS
    <2>1. x \in 0 .. BlockSize - 1 /\ b + x # b + s
      BY <1>5, <1>6
    <2>2. b + x \in DOMAIN space
      BY <1>2, <1>6, <2>1
    <2> QED BY <1>9, <2>1, <2>2
  <1>12. b = Address /\ s = Size
    BY DEF b, s
  <1>13. /\ \A n \in 1 .. Len(places) - 1 : Holds(n, places[n]) => Holds(n, places[n])'
         /\ Used => Used'
    <2>1. DOMAIN space' = DOMAIN space
      BY <1>2, <1>9
    <2>2. \A a \in DOMAIN space : a - Address \notin 0 .. BlockSize - 1 => space'[a] = space[a]
      BY <1>10, <1>12
    <2> QED BY <1>1, <2>1, <2>2, InBlock
  <1>14. Used /\ \A n \in 1 .. Len(places) - 1 : Holds(n, places[n])
    BY <1>1 DEF SpaceBook
  <1> QED BY <1>9, <1>11, <1>12, <1>13, <1>14

----------------------------------------------------------------------------
\* Nothing of what is carried is lost by the cutting.
LEMMA CutCarries ==
    ASSUME CutTypes, CutBook, Carried, CutLast \/ Cut
    PROVE  Carried'
  <1>1. WireTypes /\ PlaceBook /\ StreamBook /\ SpaceBook /\ ContentBook
    BY DEF Carried
  <1>2. /\ phase = "cut" /\ UNCHANGED <<text, places, wireVars, space, content>>
        /\ phase' \in {"cut", "set", "failed"}
    BY DEF CutLast, Cut, CutAt
  <1>3. UNCHANGED <<out, wire, head, body>>
    BY <1>2 DEF wireVars
  <1>4. places = <<>> /\ DOMAIN places = {} /\ Len(places) = 0
    BY <1>1, <1>2 DEF PlaceBook
  <1>5. phase' = "set" => Len(pieces') > 0
    <2>1. CASE CutLast
      <3>1. pieces \in Seq([from : Nat, to : Nat]) /\ i \in Nat /\ Len(text) \in Nat
        BY DEF CutTypes
      <3>2. Len(pieces') = Len(pieces) + 1
        <4>1. [from |-> i, to |-> Len(text)] \in [from : Nat, to : Nat]
          BY <3>1
        <4> QED BY <2>1, <3>1, <4>1, AppendProperties DEF CutLast, AddBlock
      <3>3. Len(pieces) \in Nat
        BY <3>1
      <3> QED BY <3>2, <3>3
    <2>2. CASE Cut
      BY <1>2, <2>2 DEF Cut, CutAt
    <2> QED BY <2>1, <2>2
  <1>6. wire = <<>> /\ out = <<>> /\ head = <<>> /\ body = <<>> /\ Len(head) \in 0 .. 2
    BY <1>1, <1>2 DEF StreamBook
  <1>7. \A a \in DOMAIN space : space[a] = "old"
    BY <1>1, <1>2 DEF SpaceBook
  <1>8. WireTypes'
    BY <1>1, <1>2, <1>3 DEF WireTypes
  <1>9. PlaceBook'
    BY <1>2, <1>4, <1>5 DEF PlaceBook
  <1>10. StreamBook'
    <2>1. Size' = 0
      BY <1>3, <1>6 DEF Size
    <2> QED BY <1>2, <1>3, <1>6, <2>1 DEF StreamBook
  <1>11. SpaceBook'
    BY <1>2, <1>4, <1>7 DEF SpaceBook, Used
  <1>12. ContentBook'
    BY <1>1, <1>2 DEF ContentBook
  <1> QED BY <1>8, <1>9, <1>10, <1>11, <1>12 DEF Carried

\* Bytes are sent.
LEMMA SendCarries ==
    ASSUME CutTypes, CutBook, Carried, Send
    PROVE  Carried'
  <1>1. WireTypes /\ PlaceBook /\ StreamBook /\ SpaceBook /\ ContentBook
    BY DEF Carried
  <1>2. UNCHANGED <<text, pieces, phase, places, head, body, space, content>> /\ out # <<>>
    <2>1. Len(<<>>) = 0
      OBVIOUS
    <2> QED BY <2>1 DEF Send, cutVars
  <1>3. /\ wire' \in Seq(Byte) /\ out' \in Seq(Byte)
        /\ head \o body \o wire' \o out' = head \o body \o wire \o out
    BY <1>1, SendMoves
  <1>4. phase \in {"setting", "getting"}
    BY <1>1, <1>2 DEF StreamBook
  <1>5. WireTypes'
    BY <1>1, <1>2, <1>3 DEF WireTypes
  <1>6. PlaceBook'
    BY <1>1, <1>2 DEF PlaceBook
  <1>7. StreamBook'
    <2>1. /\ head \o body \o wire \o out = Packet(Piece(Sent))
          /\ Len(head) \in 0 .. 2 /\ (Len(head) < 2 => body = <<>>)
      BY <1>1, <1>4 DEF StreamBook
    <2>2. Packet(Piece(Sent))' = Packet(Piece(Sent))
      BY <1>2 DEF Packet, Piece, Sent
    <2>3. (head \o body \o wire \o out = Packet(Piece(Sent)))'
      BY <1>2, <1>3, <2>1, <2>2
    <2> QED BY <1>2, <1>4, <2>1, <2>3 DEF StreamBook
  <1>8. SpaceBook'
    BY <1>1, <1>2 DEF SpaceBook, Used, Holds, Length, Address
  <1>9. ContentBook'
    BY <1>1, <1>2 DEF ContentBook, End
  <1> QED BY <1>5, <1>6, <1>7, <1>8, <1>9 DEF Carried

\* Bytes of the size are received.
LEMMA SizeCarries ==
    ASSUME CutTypes, CutBook, Carried, RecvSize
    PROVE  Carried'
  <1>1. WireTypes /\ PlaceBook /\ StreamBook /\ SpaceBook /\ ContentBook
    BY DEF Carried
  <1>2. UNCHANGED <<text, pieces, phase, places, body, space, content, out>> /\ Len(head) < 2
    BY DEF RecvSize, cutVars, Took
  <1>3. wire \in Seq(Byte) /\ head \in Seq(Byte)
    BY <1>1 DEF WireTypes
  <1>4. Len(wire) \in Nat /\ Len(head) \in Nat
    BY <1>3, LenProperties
  <1>5. PICK k \in 1 .. Min({2 - Len(head), Len(wire)}) :
          head' = head \o SubSeq(wire, 1, k) /\ Took(k)
    BY DEF RecvSize
  <1>6. k \in 1 .. Len(wire) /\ Len(head) + k <= 2
    <2>1. 2 - Len(head) \in Int /\ Len(wire) \in Int
      BY <1>4
    <2>2. /\ Min({2 - Len(head), Len(wire)}) \in Int
          /\ Min({2 - Len(head), Len(wire)}) <= 2 - Len(head)
          /\ Min({2 - Len(head), Len(wire)}) <= Len(wire)
      BY <2>1, LeastOfTwo
    <2> QED BY <1>4, <2>2
  <1>7. body = <<>> /\ Len(head) \in 0 .. 2
    BY <1>1, <1>2 DEF StreamBook
  <1>8. /\ head' \in Seq(Byte) /\ wire' \in Seq(Byte) /\ out' \in Seq(Byte)
        /\ Len(head') = Len(head) + k
        /\ head' \o body' \o wire' \o out' = head \o body \o wire \o out
    BY <1>1, <1>2, <1>5, <1>6, <1>7, SizeMoves
  <1>9. phase \in {"setting", "getting"}
    <2>1. wire # <<>>
      BY <1>4, <1>6
    <2> QED BY <1>1, <2>1 DEF StreamBook
  <1>10. WireTypes'
    BY <1>1, <1>2, <1>8 DEF WireTypes
  <1>11. PlaceBook'
    BY <1>1, <1>2 DEF PlaceBook
  <1>12. StreamBook'
    <2>1. head \o body \o wire \o out = Packet(Piece(Sent))
      BY <1>1, <1>9 DEF StreamBook
    <2>2. Packet(Piece(Sent))' = Packet(Piece(Sent))
      BY <1>2 DEF Packet, Piece, Sent
    <2>3. (head \o body \o wire \o out = Packet(Piece(Sent)))'
      BY <1>8, <2>1, <2>2
    <2>4. Len(head') \in 0 .. 2 /\ body' = <<>>
      BY <1>2, <1>4, <1>6, <1>7, <1>8
    <2> QED BY <1>2, <1>9, <2>3, <2>4 DEF StreamBook
  <1>13. SpaceBook'
    BY <1>1, <1>2 DEF SpaceBook, Used, Holds, Length, Address
  <1>14. ContentBook'
    BY <1>1, <1>2 DEF ContentBook, End
  <1> QED BY <1>10, <1>11, <1>12, <1>13, <1>14 DEF Carried

\* Bytes of the data are received.
LEMMA DataCarries ==
    ASSUME CutTypes, CutBook, Carried, ~SomeFull, RecvData
    PROVE  Carried'
  <1>1. WireTypes /\ PlaceBook /\ StreamBook /\ SpaceBook /\ ContentBook
    BY DEF Carried
  <1>2. UNCHANGED <<text, pieces, phase, places, head, content, out>> /\ Len(head) = 2
    BY DEF RecvData, cutVars, Took
  <1>3. wire \in Seq(Byte) /\ body \in Seq(Byte) /\ Len(wire) \in Nat /\ Len(body) \in Nat
    <2>1. wire \in Seq(Byte) /\ body \in Seq(Byte)
      BY <1>1 DEF WireTypes
    <2> QED BY <2>1, LenProperties
  <1>4. PICK k \in 1 .. Min({Size - Len(body), Len(wire)}) :
          /\ body' = body \o SubSeq(wire, 1, k) /\ Took(k)
          /\ space' = IF phase # "setting" THEN space
                      ELSE [a \in DOMAIN space |->
                              IF a - Address - Len(body) \in 0 .. k - 1
                              THEN wire[a - Address - Len(body) + 1] ELSE space[a]]
    BY DEF RecvData
  <1>5. Size \in Int
    <2>1. CASE phase \in {"setting", "getting"}
      <3>1. Size \in 0 .. Length(Sent) /\ Length(Sent) \in 0 .. BlockSize
        BY <2>1, Flow
      <3> QED BY <3>1, TransferAssumption DEF TransferAssumption
    <2>2. CASE phase \in {"cutoff", "failed"}
      BY <1>1, <2>2 DEF StreamBook
    <2>3. CASE phase \in {"cut", "set", "get", "done"}
      <3>1. Len(<<>>) # 2
        OBVIOUS
      <3> QED BY <1>1, <1>2, <2>3, <3>1 DEF StreamBook
    <2>4. phase \in Phases
      BY DEF CutTypes
    <2> QED BY <2>1, <2>2, <2>3, <2>4 DEF Phases
  <1>6. k \in 1 .. Len(wire) /\ Len(body) + k <= Size
    <2>1. Size - Len(body) \in Int /\ Len(wire) \in Int
      BY <1>3, <1>5
    <2>2. /\ Min({Size - Len(body), Len(wire)}) \in Int
          /\ Min({Size - Len(body), Len(wire)}) <= Size - Len(body)
          /\ Min({Size - Len(body), Len(wire)}) <= Len(wire)
      BY <2>1, LeastOfTwo
    <2> QED BY <1>3, <1>5, <2>2
  <1>7. phase \in {"setting", "getting"}
    <2>1. wire # <<>>
      BY <1>3, <1>6
    <2> QED BY <1>1, <2>1 DEF StreamBook
  <1>8. /\ body' \in Seq(Byte) /\ wire' \in Seq(Byte) /\ out' \in Seq(Byte)
        /\ Len(body') = Len(body) + k
        /\ \A x \in 1 .. Len(body) : body'[x] = body[x]
        /\ \A x \in 1 .. k : body'[Len(body) + x] = wire[x]
        /\ head' \o body' \o wire' \o out' = head \o body \o wire \o out
    BY <1>1, <1>2, <1>4, <1>6, DataMoves
  <1>9. Size \in 0 .. BlockSize - 1 /\ BlockSize \in Nat
    <2>1. Sent \in DOMAIN pieces /\ Size \in 0 .. Length(Sent)
      BY <1>7, Flow
    <2>2. Length(Sent) \in 0 .. BlockSize - 1 /\ BlockSize \in Nat
      BY <2>1, Fits
    <2> QED BY <2>1, <2>2
  <1>10. PlaceBook'
    BY <1>1, <1>2 DEF PlaceBook
  <1>11. StreamBook'
    <2>1. head \o body \o wire \o out = Packet(Piece(Sent))
      BY <1>1, <1>7 DEF StreamBook
    <2>2. Packet(Piece(Sent))' = Packet(Piece(Sent))
      BY <1>2 DEF Packet, Piece, Sent
    <2>3. (head \o body \o wire \o out = Packet(Piece(Sent)))'
      BY <1>8, <2>1, <2>2
    <2> QED BY <1>2, <1>7, <2>3 DEF StreamBook
  <1>12. ContentBook'
    BY <1>1, <1>2 DEF ContentBook, End
  <1>13. CASE phase = "getting"
    <2>1. space' = space
      BY <1>4, <1>13
    <2>2. WireTypes'
      BY <1>1, <1>2, <1>8, <2>1 DEF WireTypes
    <2>3. SpaceBook'
      BY <1>1, <1>2, <1>13, <2>1 DEF SpaceBook, Holds, Length
    <2> QED BY <1>10, <1>11, <1>12, <2>2, <2>3 DEF Carried
  <1>14. CASE phase = "setting"
    <2> DEFINE p == places[Len(places)]
               b == Address
               l == Len(body)
    <2>1. p \in 0 .. Places - 1 /\ b = p * BlockSize
      <3>1. Len(places) \in 1 .. Len(pieces) /\ Len(places) \in Nat
        BY <1>1, <1>14, Counts DEF PlaceBook
      <3>2. Len(places) \in 1 .. Len(places)
        BY <3>1
      <3> QED BY <1>1, <3>2, Counts DEF Address
    <2> HIDE DEF p
    <2>2. /\ b \in Nat
          /\ \A x \in 0 .. BlockSize - 1 : b + x \in 0 .. Places * BlockSize
      BY <1>9, <2>1, Blocks
    <2>3. /\ DOMAIN space = 0 .. Places * BlockSize /\ Places * BlockSize \in Int
          /\ \A a \in DOMAIN space : space[a] \in Byte
      BY <1>1, <1>9, TransferAssumption DEF WireTypes, TransferAssumption
    <2>4. space' = [a \in DOMAIN space |->
                      IF a - b - l \in 0 .. k - 1 THEN wire[a - b - l + 1] ELSE space[a]]
      BY <1>4, <1>14
    <2>5. l \in Nat /\ k \in Nat /\ l + k <= BlockSize - 1
      BY <1>3, <1>6, <1>9
    <2> HIDE DEF b, l
    <2>6. \A a \in DOMAIN space : a - b \notin 0 .. BlockSize - 1 => space'[a] = space[a]
      <3> SUFFICES ASSUME NEW a \in DOMAIN space, a - b - l \in 0 .. k - 1
                   PROVE  a - b \in 0 .. BlockSize - 1
        BY <2>4
      <3>1. a \in Int
        BY <2>3
      <3> QED BY <1>9, <2>2, <2>5, <3>1
    <2>7. space' \in [0 .. Places * BlockSize -> Byte]
      <3> SUFFICES ASSUME NEW a \in DOMAIN space PROVE space'[a] \in Byte
        BY <2>3, <2>4
      <3>1. CASE a - b - l \in 0 .. k - 1
        <4>1. a \in Int
          BY <2>3
        <4>2. a - b - l + 1 \in 1 .. Len(wire)
          BY <1>3, <1>6, <2>2, <2>5, <3>1, <4>1
        <4>3. wire[a - b - l + 1] \in Byte
          BY <1>3, <4>2, ElementOfSeq
        <4> QED BY <2>4, <3>1, <4>3
      <3>2. CASE a - b - l \notin 0 .. k - 1
        BY <2>3, <2>4, <3>2
      <3> QED BY <3>1, <3>2
    <2>8. ASSUME NEW x \in 1 .. l + k PROVE space'[b + x - 1] = body'[x]
      <3> DEFINE a == b + x - 1
      <3>1. a \in DOMAIN space /\ x \in Int /\ a \in Int /\ a - b - l = x - 1 - l
        <4>1. x - 1 \in 0 .. BlockSize - 1 /\ b + (x - 1) = b + x - 1
          BY <1>9, <2>2, <2>5
        <4> QED BY <2>2, <2>3, <2>5, <4>1
      <3>2. CASE x <= l
        <4>1. x - 1 - l \notin 0 .. k - 1 /\ x \in 1 .. l
          BY <2>5, <3>1, <3>2
        <4>2. space[a] = body[x]
          BY <1>1, <1>14, <4>1 DEF SpaceBook, b, l
        <4>3. body'[x] = body[x]
          BY <1>8, <4>1 DEF l
        <4> HIDE DEF a
        <4>4. space'[a] = space[a]
          BY <2>4, <3>1, <4>1
        <4>5. space'[a] = body'[x]
          BY <4>2, <4>3, <4>4
        <4> QED BY <4>5 DEF a
      <3>3. CASE x > l
        <4> DEFINE y == x - l
        <4>1. x - 1 - l \in 0 .. k - 1 /\ y \in 1 .. k /\ x - 1 - l + 1 = y /\ l + y = x
          BY <2>5, <3>1, <3>3
        <4> HIDE DEF y, a
        <4>2. space'[a] = wire[y]
          BY <2>4, <3>1, <4>1
        <4>3. body'[l + y] = wire[y]
          BY <1>8, <4>1 DEF l
        <4>4. space'[a] = body'[x]
          BY <4>1, <4>2, <4>3
        <4> QED BY <4>4 DEF a
      <3> QED BY <2>5, <3>1, <3>2, <3>3
    <2>9. Used' /\ \A n \in 1 .. Len(places) - 1 : Holds(n, places[n])'
      <3>1. DOMAIN space' = DOMAIN space
        BY <2>4
      <3>2. \A a \in DOMAIN space : a - Address \notin 0 .. BlockSize - 1 => space'[a] = space[a]
        BY <2>6 DEF b
      <3>3. /\ \A n \in 1 .. Len(places) - 1 : Holds(n, places[n]) => Holds(n, places[n])'
            /\ Used => Used'
        BY <1>1, <1>2, <1>14, <3>1, <3>2, InBlock
      <3> QED BY <1>1, <1>14, <3>3 DEF SpaceBook
    <2>10. \A x \in 1 .. Len(body') : space'[Address' + x - 1] = body'[x]
      <3>1. Len(body') = l + k /\ Address' = b
        BY <1>2, <1>8 DEF l, b, Address
      <3> QED BY <2>8, <3>1
    <2>11. SpaceBook'
      BY <1>2, <1>14, <2>9, <2>10 DEF SpaceBook
    <2>12. WireTypes'
      BY <1>1, <1>2, <1>8, <2>7 DEF WireTypes
    <2> QED BY <1>10, <1>11, <1>12, <2>11, <2>12 DEF Carried
  <1> QED BY <1>7, <1>13, <1>14

\* A block is asked to be set.
LEMMA SetNextCarries ==
    ASSUME CutTypes, CutBook, Carried, SetNext
    PROVE  Carried'
  <1>1. WireTypes /\ PlaceBook /\ StreamBook /\ SpaceBook /\ ContentBook
    BY DEF Carried
  <1>2. /\ UNCHANGED <<text, pieces, wire, head, body, space, content>>
        /\ phase = "set" /\ phase' = "setting"
    BY DEF SetNext, cutVars
  <1>3. PICK p \in 0 .. Places - 1 :
          (\A n \in DOMAIN places : places[n] # p) /\ places' = Append(places, p)
    BY DEF SetNext
  <1> DEFINE l == Len(places)
  <1>4. /\ Len(pieces) \in Nat /\ DOMAIN pieces = 1 .. Len(pieces)
        /\ l \in Nat /\ DOMAIN places = 1 .. l
        /\ \A n \in 1 .. l : places[n] \in 0 .. Places - 1
    BY <1>1, Counts
  <1>5. places \in Seq(0 .. Places - 1)
    BY <1>1 DEF WireTypes
  <1>6. /\ places' \in Seq(0 .. Places - 1) /\ Len(places') = l + 1
        /\ \A n \in 1 .. l : places'[n] = places[n]
        /\ places'[l + 1] = p
    BY <1>3, <1>5, AppendProperties
  <1>7. DOMAIN places' = 1 .. l + 1
    BY <1>6, LenProperties
  <1>8. l < Len(pieces)
    BY <1>1, <1>2 DEF PlaceBook
  <1>9. wire = <<>> /\ out = <<>> /\ head = <<>> /\ body = <<>>
    BY <1>1, <1>2 DEF StreamBook
  <1> DEFINE n == l + 1
  <1>10. n \in DOMAIN pieces
    BY <1>4, <1>8
  <1>11. out' = Packet(Piece(n))
    BY DEF SetNext, Piece
  <1>12. Packet(Piece(n)) \in Seq(Byte)
    BY <1>10, PacketBytes
  <1>13. Sent' = n
    BY <1>2, <1>6 DEF Sent
  <1> HIDE DEF n, l
  <1>14. WireTypes'
    BY <1>1, <1>2, <1>6, <1>11, <1>12 DEF WireTypes
  <1>15. PlaceBook'
    <2>1. Len(places') \in 1 .. Len(pieces')
      BY <1>2, <1>4, <1>6, <1>8
    <2>2. \A m, o \in DOMAIN places' : places'[m] = places'[o] => m = o
      <3> SUFFICES ASSUME NEW m \in 1 .. l + 1, NEW o \in 1 .. l + 1, places'[m] = places'[o]
                   PROVE  m = o
        BY <1>7
      <3>1. \A q \in 1 .. l + 1 : q \in 1 .. l \/ q = l + 1
        BY <1>4
      <3>2. \A q, r \in 1 .. l : places[q] = places[r] => q = r
        BY <1>1, <1>2, <1>4 DEF PlaceBook
      <3>3. \A q \in 1 .. l : places'[q] # p
        BY <1>3, <1>4, <1>6
      <3> QED BY <1>6, <3>1, <3>2, <3>3
    <2> QED BY <1>2, <2>1, <2>2 DEF PlaceBook
  <1>16. StreamBook'
    <2>1. <<>> \o <<>> \o <<>> \o out' = out'
      <3>1. out' \in Seq(Byte)
        BY <1>11, <1>12
      <3>2. <<>> \o <<>> = <<>>
        OBVIOUS
      <3> QED BY <3>1, <3>2, ConcatEmptySeq
    <2>2. (Packet(Piece(Sent)))' = Packet(Piece(n))
      BY <1>2, <1>13 DEF Packet, Piece
    <2>3. (head \o body \o wire \o out = Packet(Piece(Sent)))'
      BY <1>2, <1>9, <1>11, <2>1, <2>2
    <2>4. Len(<<>>) = 0
      OBVIOUS
    <2> QED BY <1>2, <1>9, <2>3, <2>4 DEF StreamBook
  <1>17. SpaceBook'
    <2>1. Used'
      <3> SUFFICES ASSUME NEW a \in DOMAIN space, space[a] # "old"
                   PROVE  \E m \in DOMAIN places' :
                            a \in places'[m] * BlockSize .. (places'[m] + 1) * BlockSize - 1
        BY <1>2 DEF Used
      <3>1. PICK m \in DOMAIN places :
              a \in places[m] * BlockSize .. (places[m] + 1) * BlockSize - 1
        BY <1>1, <1>2 DEF SpaceBook, Used
      <3>2. m \in 1 .. l /\ m \in DOMAIN places'
        BY <1>4, <1>7
      <3> QED BY <1>6, <3>1, <3>2
    <2>2. \A m \in 1 .. Len(places') - 1 : Holds(m, places[m])'
      <3> SUFFICES ASSUME NEW m \in 1 .. l PROVE Holds(m, places[m])'
        BY <1>4, <1>6
      <3>1. Holds(m, places[m])
        BY <1>1, <1>2, <1>4 DEF SpaceBook
      <3>2. places'[m] = places[m]
        BY <1>6
      <3> QED BY <1>2, <3>1, <3>2 DEF Holds, Length
    <2>3. \A k \in 1 .. Len(body') : FALSE
      <3>1. Len(<<>>) = 0
        OBVIOUS
      <3> QED BY <1>2, <1>9, <3>1
    <2> QED BY <1>2, <2>1, <2>2, <2>3 DEF SpaceBook
  <1>18. ContentBook'
    BY <1>1, <1>2 DEF ContentBook
  <1> QED BY <1>14, <1>15, <1>16, <1>17, <1>18 DEF Carried

\* A block is set.
LEMMA SetEndsCarries ==
    ASSUME CutTypes, CutBook, Carried, ~SomeFull, SetEnds
    PROVE  Carried'
  <1>1. WireTypes /\ PlaceBook /\ StreamBook /\ SpaceBook /\ ContentBook
    BY DEF Carried
  <1>2. /\ UNCHANGED <<text, pieces, places, out, wire, content>>
        /\ phase = "setting" /\ head' = <<>> /\ body' = <<>> /\ Zero
        /\ Len(head) = 2 /\ Len(body) = Size
        /\ phase' = IF Len(places) = Len(pieces) THEN "get" ELSE "set"
    BY DEF SetEnds, Stored, Received, cutVars
  <1> DEFINE l == Len(places)
             s == Size
             b == Address
  <1>3. /\ Len(pieces) \in Nat /\ l \in Nat /\ DOMAIN places = 1 .. l
        /\ l \in 1 .. Len(pieces)
    BY <1>1, <1>2, Counts DEF PlaceBook
  <1>4. Sent = l
    BY <1>2 DEF Sent
  <1>5. /\ s = Length(l) /\ s \in 0 .. BlockSize - 1 /\ BlockSize \in Nat
        /\ \A k \in 1 .. Len(body) : body[k] = text[pieces[l].from + k]
        /\ wire = <<>> /\ out = <<>>
    <2>1. /\ l \in DOMAIN pieces /\ s = Length(l)
          /\ \A k \in 1 .. Len(body) : body[k] = text[pieces[l].from + k]
          /\ wire = <<>> /\ out = <<>>
      BY <1>2, <1>4, Flow
    <2>2. s \in 0 .. BlockSize - 1 /\ BlockSize \in Nat
      BY <2>1, Fits
    <2> QED BY <2>1, <2>2
  <1>6. /\ space' \in [0 .. Places * BlockSize -> Byte]
        /\ \A n \in 1 .. l - 1 : Holds(n, places[n])'
        /\ Used'
        /\ space'[b + s] = "zero"
        /\ \A x \in 0 .. s - 1 : space'[b + x] = space[b + x]
    BY <1>2, ZeroInBlock
  <1>7. b = places[l] * BlockSize /\ b \in Nat
    <2>1. l \in 1 .. l
      BY <1>3
    <2>2. places[l] \in 0 .. Places - 1
      BY <1>1, <2>1, Counts
    <2>3. places[l] * BlockSize \in Nat
      <3>1. 0 \in 0 .. BlockSize - 1
        BY <1>5
      <3> QED BY <2>2, <3>1, Blocks
    <2> QED BY <2>3 DEF Address
  <1>8. \A k \in 1 .. s : space'[b + k - 1] = text[pieces[l].from + k]
    <2> SUFFICES ASSUME NEW k \in 1 .. s PROVE space'[b + k - 1] = text[pieces[l].from + k]
      OBVIOUS
    <2>1. k - 1 \in 0 .. s - 1 /\ b + (k - 1) = b + k - 1
      BY <1>5, <1>7
    <2>2. space'[b + k - 1] = space[b + k - 1]
      BY <1>6, <2>1
    <2>3. k \in 1 .. Len(body)
      BY <1>2
    <2>4. space[b + k - 1] = body[k]
      BY <1>1, <1>2, <2>3 DEF SpaceBook
    <2> QED BY <1>5, <2>2, <2>3, <2>4
  <1> HIDE DEF s, b, l
  <1>9. Holds(l, places[l])'
    <2>1. l' = l /\ Length(l)' = s /\ (places[l])' = places[l] /\ (pieces[l])' = pieces[l]
      BY <1>2, <1>5 DEF l, Length
    <2> QED BY <1>2, <1>6, <1>7, <1>8, <2>1 DEF Holds
  <1>10. \A n \in 1 .. l : Holds(n, places[n])'
    <2>1. \A n \in 1 .. l : n \in 1 .. l - 1 \/ n = l
      BY <1>3
    <2>2. l' = l
      BY <1>2 DEF l
    <2> QED BY <1>6, <1>9, <2>1, <2>2
  <1>11. WireTypes'
    BY <1>1, <1>2, <1>6 DEF WireTypes
  <1>12. PlaceBook'
    <2>1. l < Len(pieces) \/ l = Len(pieces)
      BY <1>3
    <2> QED BY <1>1, <1>2, <1>3, <2>1 DEF PlaceBook, l
  <1>13. StreamBook'
    <2>1. Len(<<>>) = 0
      OBVIOUS
    <2> QED BY <1>2, <1>5, <2>1 DEF StreamBook
  <1>14. SpaceBook'
    <2>1. ASSUME phase' = "set" PROVE \A n \in DOMAIN places' : Holds(n, places[n])'
      BY <1>2, <1>3, <1>10
    <2>2. ASSUME phase' = "get"
          PROVE  \A n \in DOMAIN places' : Holds(Len(pieces) - Len(places) + n, places[n])'
      <3> SUFFICES ASSUME NEW n \in 1 .. l
                   PROVE  Holds(Len(pieces) - Len(places) + n, places[n])'
        BY <1>2, <1>3
      <3>1. Len(pieces') - Len(places') + n = n
        BY <1>2, <1>3, <2>2 DEF l
      <3>2. Holds(n, places[n])'
        BY <1>10
      <3> QED BY <3>1, <3>2
    <2> QED BY <1>2, <1>6, <2>1, <2>2 DEF SpaceBook
  <1>15. ContentBook'
    <2>1. content = <<>>
      BY <1>1, <1>2 DEF ContentBook
    <2>2. ASSUME Len(places) = Len(pieces) PROVE SubSeq(text, 1, End(Len(pieces) - Len(places))) = <<>>
      <3>1. Len(pieces) - Len(places) = 0
        BY <1>3, <2>2
      <3>2. End(Len(pieces) - Len(places)) = 0
        BY <3>1 DEF End
      <3> QED BY <3>2, SubSeqEmpty
    <2> QED BY <1>2, <2>1, <2>2 DEF ContentBook, End
  <1> QED BY <1>11, <1>12, <1>13, <1>14, <1>15 DEF Carried

\* The connection is lost.
LEMMA LostCarries ==
    ASSUME CutTypes, CutBook, Carried, ~SomeFull, Lost
    PROVE  Carried'
  <1>1. WireTypes /\ PlaceBook /\ StreamBook /\ SpaceBook /\ ContentBook
    BY DEF Carried
  <1>2. /\ UNCHANGED <<text, pieces, places, head, body, content>>
        /\ phase \in {"setting", "getting"} /\ out' = <<>> /\ wire' = <<>>
        /\ phase' = IF phase = "setting" THEN "cutoff" ELSE "failed"
        /\ IF phase = "setting" THEN Zero ELSE UNCHANGED space
    BY DEF Lost, cutVars
  <1>3. <<>> \in Seq(Byte)
    BY EmptySeq
  <1>4. space' \in [0 .. Places * BlockSize -> Byte] /\ (phase' = "cutoff" => Used')
    <2>1. CASE phase = "setting"
      BY <1>2, <2>1, ZeroInBlock
    <2>2. CASE phase # "setting"
      BY <1>1, <1>2, <2>2 DEF WireTypes
    <2> QED BY <2>1, <2>2
  <1>5. WireTypes'
    BY <1>1, <1>2, <1>3, <1>4 DEF WireTypes
  <1>6. PlaceBook'
    BY <1>1, <1>2 DEF PlaceBook
  <1>7. StreamBook'
    <2>1. Size \in Int
      <3>1. Size \in 0 .. Length(Sent) /\ Length(Sent) \in 0 .. BlockSize
        BY <1>2, Flow
      <3> QED BY <3>1, TransferAssumption DEF TransferAssumption
    <2>2. Size' = Size
      BY <1>2 DEF Size
    <2> QED BY <1>1, <1>2, <2>1, <2>2 DEF StreamBook
  <1>8. SpaceBook'
    BY <1>2, <1>4 DEF SpaceBook
  <1>9. ContentBook'
    BY <1>2 DEF ContentBook
  <1> QED BY <1>5, <1>6, <1>7, <1>8, <1>9 DEF Carried

\* The copy of a block that holds a piece is that piece, up to its end.
LEMMA CopyIsPiece ==
    ASSUME CutTypes, CutBook, ~SomeFull, NEW n \in DOMAIN pieces, NEW p \in 0 .. Places - 1,
           Holds(n, p), NEW s \in Strings(BlockAt(p))
    PROVE  s = Piece(n)
  <1> DEFINE l == Length(n)
             copy == BlockAt(p)
             zeros == {k \in 1 .. BlockSize : copy[k] = "zero"}
  <1>1. /\ Piece(n) \in Seq(Char) /\ Len(Piece(n)) = l
        /\ \A k \in 1 .. l : Piece(n)[k] = text[pieces[n].from + k]
    BY PieceBytes
  <1>2. l \in 0 .. BlockSize - 1 /\ BlockSize \in Nat
    BY Fits
  <1>3. p * BlockSize \in Nat
    <2>1. 0 \in 0 .. BlockSize - 1
      BY <1>2
    <2> QED BY <2>1, Blocks
  <1>4. \A k \in 1 .. l : copy[k] = Piece(n)[k]
    <2> SUFFICES ASSUME NEW k \in 1 .. l PROVE copy[k] = Piece(n)[k]
      OBVIOUS
    <2>1. k \in 1 .. BlockSize
      BY <1>2
    <2>2. copy[k] = space[p * BlockSize + k - 1]
      BY <2>1 DEF BlockAt
    <2> QED BY <1>1, <2>2 DEF Holds
  <1>5. copy[l + 1] = "zero" /\ l + 1 \in 1 .. BlockSize
    <2>1. l + 1 \in 1 .. BlockSize
      BY <1>2
    <2>2. p * BlockSize + (l + 1) - 1 = p * BlockSize + l
      BY <1>2, <1>3
    <2>3. copy[l + 1] = space[p * BlockSize + (l + 1) - 1]
      BY <2>1 DEF BlockAt
    <2> QED BY <2>1, <2>2, <2>3 DEF Holds
  <1>6. "zero" \notin Char
    BY TransferAssumption DEF TransferAssumption
  <1>7. \A k \in 1 .. l : copy[k] # "zero" /\ copy[k] \in Char
    <2>1. \A k \in 1 .. l : Piece(n)[k] \in Char
      BY <1>1, ElementOfSeq
    <2> QED BY <1>4, <1>6, <2>1
  <1>8. s \in IF zeros # {} THEN {SubSeq(copy, 1, Min(zeros) - 1)} ELSE {copy, Append(copy, "junk")}
    BY DEF Strings
  <1> HIDE DEF l, copy
  <1>9. zeros \in SUBSET Nat /\ l + 1 \in zeros
    BY <1>2, <1>5
  <1>10. Min(zeros) \in zeros /\ \A m \in zeros : Min(zeros) <= m
    BY <1>9, LeastOf
  <1>11. Min(zeros) \in 1 .. BlockSize /\ copy[Min(zeros)] = "zero" /\ Min(zeros) <= l + 1
    BY <1>9, <1>10
  <1> DEFINE m == Min(zeros)
  <1>12. m \in 1 .. BlockSize /\ copy[m] = "zero" /\ m <= l + 1
    BY <1>11
  <1>13. s = SubSeq(copy, 1, m - 1)
    BY <1>8, <1>9
  <1> HIDE DEF m, zeros
  <1>14. m = l + 1
    <2>1. m \notin 1 .. l
      BY <1>7, <1>12
    <2> QED BY <1>2, <1>12, <2>1
  <1>15. s = SubSeq(copy, 1, l)
    BY <1>2, <1>13, <1>14
  <1>16. /\ SubSeq(copy, 1, l) \in Seq(Char) /\ Len(SubSeq(copy, 1, l)) = l
         /\ \A k \in 1 .. l : SubSeq(copy, 1, l)[k] = copy[k]
    <2>1. l \in Int /\ 1 \in Int /\ \A k \in 1 .. l : copy[k] \in Char
      BY <1>2, <1>7
    <2>2. /\ SubSeq(copy, 1, l) \in Seq(Char)
          /\ Len(SubSeq(copy, 1, l)) = IF 1 <= l THEN l - 1 + 1 ELSE 0
          /\ \A k \in 1 .. l - 1 + 1 : SubSeq(copy, 1, l)[k] = copy[1 + k - 1]
      BY <2>1, SubSeqProperties
    <2>3. Len(SubSeq(copy, 1, l)) = l
      BY <1>2, <2>2
    <2>4. \A k \in 1 .. l : k \in 1 .. l - 1 + 1 /\ 1 + k - 1 = k
      BY <1>2
    <2> QED BY <2>2, <2>3, <2>4
  <1> QED BY <1>1, <1>4, <1>15, <1>16, SeqEqual

\* A block is asked for.
LEMMA GetNextCarries ==
    ASSUME CutTypes, CutBook, Carried, ~SomeFull, GetNext
    PROVE  Carried'
  <1>1. WireTypes /\ PlaceBook /\ StreamBook /\ SpaceBook /\ ContentBook
    BY DEF Carried
  <1>2. /\ UNCHANGED <<text, pieces, wire, head, body, space, content>>
        /\ phase = "get" /\ phase' = "getting" /\ places # <<>> /\ places' = Tail(places)
    BY DEF GetNext, cutVars
  <1>3. PICK s \in Strings(BlockAt(Head(places))) : out' = Packet(s)
    BY DEF GetNext
  <1> DEFINE l == Len(places)
             r == Len(pieces)
             n == r - l + 1
  <1>4. /\ r \in Nat /\ DOMAIN pieces = 1 .. r /\ l \in Nat /\ DOMAIN places = 1 .. l
        /\ \A m \in 1 .. l : places[m] \in 0 .. Places - 1
    BY <1>1, Counts
  <1>5. l \in 1 .. r
    BY <1>1, <1>2 DEF PlaceBook
  <1>6. places \in Seq(0 .. Places - 1)
    BY <1>1 DEF WireTypes
  <1>7. /\ places' \in Seq(0 .. Places - 1) /\ Len(places') = l - 1
        /\ \A m \in 1 .. Len(places') : places'[m] = places[m + 1]
    BY <1>2, <1>6, HeadTailProperties
  <1>8. DOMAIN places' = 1 .. l - 1
    BY <1>7, LenProperties
  <1>9. n \in 1 .. r /\ n \in DOMAIN pieces /\ 1 \in 1 .. l
    BY <1>4, <1>5
  <1>10. Head(places) = places[1]
    BY <1>6
  <1>11. \A m \in 1 .. l : Holds(r - l + m, places[m])
    BY <1>1, <1>2, <1>4 DEF SpaceBook
  <1>12. Sent' = n
    <2>1. r - (l - 1) = r - l + 1
      BY <1>4
    <2> QED BY <1>2, <1>7, <2>1 DEF Sent
  <1>13. Holds(n, places[1])
    BY <1>9, <1>11
  <1> HIDE DEF l, r, n
  <1>14. s = Piece(n)
    BY <1>3, <1>4, <1>9, <1>10, <1>13, CopyIsPiece
  <1>15. Packet(Piece(n)) \in Seq(Byte)
    BY <1>9, PacketBytes
  <1>16. WireTypes'
    BY <1>1, <1>2, <1>3, <1>7, <1>14, <1>15 DEF WireTypes
  <1>17. PlaceBook'
    <2>1. Len(places') < Len(pieces')
      BY <1>2, <1>4, <1>5, <1>7 DEF r
    <2> QED BY <1>2, <2>1 DEF PlaceBook
  <1>18. wire = <<>> /\ out = <<>> /\ head = <<>> /\ body = <<>>
    BY <1>1, <1>2 DEF StreamBook
  <1>19. StreamBook'
    <2>1. <<>> \o <<>> \o <<>> \o out' = out'
      <3>1. out' \in Seq(Byte)
        BY <1>3, <1>14, <1>15
      <3>2. <<>> \o <<>> = <<>>
        OBVIOUS
      <3> QED BY <3>1, <3>2, ConcatEmptySeq
    <2>2. (Packet(Piece(Sent)))' = Packet(Piece(n))
      BY <1>2, <1>12 DEF Packet, Piece
    <2>3. (head \o body \o wire \o out = Packet(Piece(Sent)))'
      BY <1>2, <1>3, <1>14, <1>18, <2>1, <2>2
    <2>4. Len(<<>>) = 0
      OBVIOUS
    <2> QED BY <1>2, <1>18, <2>3, <2>4 DEF StreamBook
  <1>20. SpaceBook'
    <2>1. \A m \in DOMAIN places' : Holds(Len(pieces) - Len(places) + m, places[m])'
      <3> SUFFICES ASSUME NEW m \in 1 .. l - 1
                   PROVE  Holds(Len(pieces) - Len(places) + m, places[m])'
        BY <1>8
      <3>1. m + 1 \in 1 .. l /\ r - l + (m + 1) = r - (l - 1) + m /\ m \in 1 .. Len(places')
        BY <1>4, <1>7
      <3>2. Holds(r - l + (m + 1), places[m + 1])
        BY <1>11, <3>1
      <3>3. Len(pieces') - Len(places') + m = r - l + (m + 1) /\ places'[m] = places[m + 1]
        BY <1>2, <1>7, <3>1 DEF r
      <3> QED BY <1>2, <3>2, <3>3 DEF Holds, Length
    <2> QED BY <1>2, <2>1 DEF SpaceBook
  <1>21. ContentBook'
    <2>1. r - (l - 1) - 1 = r - l
      BY <1>4
    <2>2. content = SubSeq(text, 1, End(r - l))
      BY <1>1, <1>2 DEF ContentBook, r, l
    <2>3. End(Len(pieces) - Len(places) - 1)' = End(r - l)
      BY <1>2, <1>7, <2>1 DEF End, r
    <2> QED BY <1>2, <2>2, <2>3 DEF ContentBook
  <1> QED BY <1>16, <1>17, <1>19, <1>20, <1>21 DEF Carried

\* A block is read back, after those before it.
LEMMA GetEndsCarries ==
    ASSUME CutTypes, CutBook, Carried, GetEnds
    PROVE  Carried'
  <1>1. WireTypes /\ PlaceBook /\ StreamBook /\ SpaceBook /\ ContentBook
    BY DEF Carried
  <1>2. /\ UNCHANGED <<text, pieces, places, out, wire, space>>
        /\ phase = "getting" /\ head' = <<>> /\ body' = <<>> /\ content' = content \o body
        /\ Len(head) = 2 /\ Len(body) = Size
        /\ phase' = IF places = <<>> THEN "done" ELSE "get"
    BY DEF GetEnds, Received, cutVars
  <1> DEFINE l == Len(places)
             r == Len(pieces)
             n == r - l
  <1>3. /\ r \in Nat /\ DOMAIN pieces = 1 .. r /\ l \in Nat /\ l < r
    BY <1>1, <1>2, Counts DEF PlaceBook
  <1>4. Sent = n /\ n \in DOMAIN pieces /\ n \in Nat
    BY <1>2, <1>3 DEF Sent
  <1>5. body = Piece(n) /\ wire = <<>> /\ out = <<>>
    BY <1>2, <1>4, Flow
  <1>6. content = SubSeq(text, 1, End(n - 1))
    BY <1>1, <1>2 DEF ContentBook
  <1>7. l = 0 <=> places = <<>>
    <2>1. places \in Seq(0 .. Places - 1)
      BY <1>1 DEF WireTypes
    <2> QED BY <2>1, EmptySeq
  <1> HIDE DEF n, l, r
  <1>8. /\ pieces[n].from = End(n - 1) /\ pieces[n].to = End(n)
        /\ pieces[n].from \in Nat /\ pieces[n].to \in 0 .. Len(text)
        /\ Length(n) \in 0 .. BlockSize /\ Len(text) \in Nat
    BY <1>4, PieceBytes
  <1>9. text \in Seq(Char)
    BY DEF CutTypes
  <1>10. content' = SubSeq(text, 1, End(n))
    <2> DEFINE f == pieces[n].from
               t == pieces[n].to
    <2>1. f \in Nat /\ t \in Nat /\ t <= Len(text) /\ f <= t
      BY <1>8, TransferAssumption DEF Length, TransferAssumption
    <2> HIDE DEF f, t
    <2>2. 1 \in 1 .. Len(text) + 1 /\ f \in 1 - 1 .. Len(text) /\ t \in f .. Len(text)
      BY <1>8, <2>1
    <2>3. SubSeq(text, 1, f) \o SubSeq(text, f + 1, t) = SubSeq(text, 1, t)
      BY <1>9, <2>2, ConcatAdjacentSubSeq
    <2>4. body = SubSeq(text, f + 1, t) /\ content = SubSeq(text, 1, f) /\ t = End(n)
      BY <1>5, <1>6, <1>8 DEF Piece, f, t
    <2> QED BY <1>2, <2>3, <2>4
  <1>11. WireTypes'
    <2>1. content \o body \in Seq(Byte)
      BY <1>1, Joined DEF WireTypes
    <2>2. <<>> \in Seq(Byte)
      BY EmptySeq
    <2> QED BY <1>1, <1>2, <2>1, <2>2 DEF WireTypes
  <1>12. PlaceBook'
    <2>1. phase' = "get" => l \in 1 .. r
      BY <1>2, <1>3, <1>7
    <2> QED BY <1>2, <2>1 DEF PlaceBook, l, r
  <1>13. StreamBook'
    <2>1. Len(<<>>) = 0
      OBVIOUS
    <2> QED BY <1>2, <1>5, <2>1 DEF StreamBook
  <1>14. SpaceBook'
    <2>1. \A m \in DOMAIN places : Holds(Len(pieces) - Len(places) + m, places[m])
      BY <1>1, <1>2 DEF SpaceBook
    <2> QED BY <1>2, <2>1 DEF SpaceBook, Holds, Length
  <1>15. ContentBook'
    <2>1. ASSUME places = <<>> PROVE content' = text
      <3>1. n = r
        BY <1>3, <1>7, <2>1 DEF n
      <3>2. pieces[r].to = Len(text)
        BY <1>2 DEF CutBook, r
      <3>3. content' = SubSeq(text, 1, Len(text))
        BY <1>8, <1>10, <3>1, <3>2
      <3> QED BY <1>9, <3>3, SubSeqFull
    <2>2. End(Len(pieces) - Len(places))' = End(n)
      BY <1>2 DEF End, n, l, r
    <2> QED BY <1>2, <1>10, <2>1, <2>2 DEF ContentBook
  <1> QED BY <1>11, <1>12, <1>13, <1>14, <1>15 DEF Carried

----------------------------------------------------------------------------
\* The invariant holds at first, and every step keeps it.
LEMMA InitIInv == Init => IInv
  <1> SUFFICES ASSUME Init PROVE IInv
    OBVIOUS
  <1>1. /\ pieces = <<>> /\ phase = "cut" /\ places = <<>>
        /\ out = <<>> /\ wire = <<>> /\ head = <<>> /\ body = <<>>
        /\ space = [a \in 0 .. Places * BlockSize |-> "old"] /\ content = <<>>
    BY DEF Init
  <1>2. Len(<<>>) = 0 /\ <<>> \in Seq(Byte) /\ <<>> \in Seq(0 .. Places - 1)
    BY EmptySeq
  <1>3. "old" \in Byte
    BY DEF Byte, Marks
  <1>4. WireTypes
    BY <1>1, <1>2, <1>3 DEF WireTypes
  <1>5. PlaceBook /\ StreamBook /\ SpaceBook /\ ContentBook
    BY <1>1, <1>2 DEF PlaceBook, StreamBook, SpaceBook, ContentBook
  <1> QED BY <1>4, <1>5, InitCut DEF IInv, Carried
LEMMA StepIInv == IInv /\ [Next]_vars => IInv'
  <1> SUFFICES ASSUME IInv, [Next]_vars, ~SomeFull' PROVE CutTypes' /\ CutBook' /\ Carried'
    BY StepCut DEF IInv
  <1>1. CutTypes /\ CutBook
    BY DEF IInv
  <1>2. ~SomeFull /\ Carried
    BY <1>1, StaysFull DEF IInv
  <1>3. CutTypes' /\ CutBook'
    BY <1>1, StepCut
  <1>4. CASE UNCHANGED vars
    <2>1. UNCHANGED <<text, i, pieces, phase, places, out, wire, head, body, space, content>>
      BY <1>4 DEF vars, cutVars, wireVars
    <2>2. WireTypes' /\ PlaceBook' /\ ContentBook'
      BY <1>2, <2>1 DEF Carried, WireTypes, PlaceBook, ContentBook, End
    <2>3. StreamBook'
      BY <1>2, <2>1 DEF Carried, StreamBook, Sent, Packet, Piece, Size
    <2>4. SpaceBook'
      BY <1>2, <2>1 DEF Carried, SpaceBook, Used, Holds, Length, Address
    <2> QED BY <1>3, <2>2, <2>3, <2>4 DEF Carried
  <1>5. CASE Next
    <2>1. Carried'
      BY <1>1, <1>2, <1>5, CutCarries, SetNextCarries, SetEndsCarries, GetNextCarries,
         GetEndsCarries, LostCarries, SendCarries, SizeCarries, DataCarries DEF Next
    <2> QED BY <1>3, <2>1
  <1> QED BY <1>4, <1>5
LEMMA AlwaysIInv == Spec => []IInv
  BY InitIInv, StepIInv, PTL DEF Spec

\* A block that is set changes no other, even when the connection is lost in the middle of
\* a size, as long as no piece fills its block (node_setBlock writes the data and a zero
\* after them at an address it computes from what came of the size), whatever the text,
\* the size of a block, the number of blocks and the way the bytes were divided.
THEOREM OthersKept == Spec => []OthersAreKept
  <1>1. IInv => OthersAreKept
    BY DEF IInv, Carried, SpaceBook, Used, OthersAreKept
  <1> QED BY AlwaysIInv, <1>1, PTL

\* What is read back is the text that was stored, however its packets were divided, when no
\* piece fills its block (filesystem_copyFileFromFS and filesystem_getAllFileContent).
THEOREM TextIsBack == Spec => []TextComesBack
  <1>1. IInv => TextComesBack
    BY DEF IInv, Carried, ContentBook, TextComesBack
  <1> QED BY AlwaysIInv, <1>1, PTL
==============
