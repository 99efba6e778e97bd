-------------------------- MODULE CommandInputProofs -------------------------
(***************************************************************************)
(* Theorems about CommandInput, for every set of commands and every size of*)
(* the buffers.  The inductive invariant relates the buffer the two ports  *)
(* share to the lines they are in the middle of.                           *)
(***************************************************************************)
EXTENDS CommandInput, SequenceTheorems, TLAPS

TypeInv ==
  /\ TypeOK
  /\ rx \in [Port -> Seq(Piece)] /\ line \in [Port -> Seq(Piece)]

\* Between lines the buffer is empty.
Clean(buffer, lines) == BetweenLines(lines) => buffer = <<>>

\* One port at most is in the middle of a line, and the buffer holds this line.
Sole(buffer, lines) ==
  \E p \in Port : /\ buffer = lines[p]
                  /\ \A other \in Port \ {p} : lines[other] = <<>>

Fits(buffer) == buffer \in Seq(Piece \ {END}) /\ Len(buffer) < MAX_COMMAND

\* No command is left in RS232_KEY.
KeyClean(k) ==
  k \in [cmd_key : Command \cup {NONE}, key_type : KEY_TYPE] /\ k.cmd_key = NONE

LinesOK(lines) ==
  lines \in [Port -> Seq(Piece)] /\ \A p \in Port : Len(lines[p]) <= MAX_COMMAND

IInv ==
  /\ TypeInv
  /\ KeyClean(key)
  /\ Clean(command, line)
  /\ TooLong(line) => disturbed
  /\ disturbed => ~BetweenLines(line)
  /\ ~disturbed => Sole(command, line)

-----------------------------------------------------------------------------
(***************************************************************************)
(* A piece read from one port.                                             *)
(***************************************************************************)

LEMMA LongLineType == LongLine \in Seq(Piece) /\ Len(LongLine) = MAX_COMMAND
<1>1. LongLine \in [1 .. MAX_COMMAND -> Piece] /\ MAX_COMMAND \in Nat
  BY CommandAssumption DEF LongLine, Piece
<1>2. LongLine \in Seq(Piece)
  BY <1>1, SeqDef
<1>3. Len(LongLine) \in Nat /\ 1 .. Len(LongLine) = 1 .. MAX_COMMAND
  BY <1>1, <1>2, LenProperties
<1> QED
  BY <1>1, <1>2, <1>3

LEMMA LineAfterType ==
  ASSUME NEW l \in Seq(Piece), Len(l) <= MAX_COMMAND, NEW piece \in Piece
  PROVE  /\ LineAfter(l, piece) \in Seq(Piece)
         /\ Len(LineAfter(l, piece)) <= MAX_COMMAND
         /\ LineAfter(l, piece) = <<>> <=> piece = END
<1>1. MAX_COMMAND \in Nat /\ MAX_COMMAND > 2
  BY CommandAssumption
<1>2. CASE piece = END
  BY <1>1, <1>2, EmptySeq DEF LineAfter
<1>3. CASE piece # END /\ Len(l) + 1 >= MAX_COMMAND
  <2>1. LineAfter(l, piece) = LongLine
    BY <1>3 DEF LineAfter
  <2>2. LongLine # <<>>
    BY <1>1, LongLineType, EmptySeq
  <2> QED
    BY <1>1, <1>3, <2>1, <2>2, LongLineType
<1>4. CASE piece # END /\ ~(Len(l) + 1 >= MAX_COMMAND)
  <2>1. LineAfter(l, piece) = Append(l, piece)
    BY <1>4 DEF LineAfter
  <2>2. /\ Append(l, piece) \in Seq(Piece) /\ Append(l, piece) # <<>>
        /\ Len(Append(l, piece)) = Len(l) + 1 /\ Len(l) \in Nat
    BY AppendProperties, LenProperties
  <2> QED
    BY <1>1, <1>4, <2>1, <2>2
<1> QED
  BY <1>2, <1>3, <1>4

LEMMA BufferAfterType ==
  ASSUME NEW buffer, Fits(buffer), NEW piece \in Piece
  PROVE  Fits(BufferAfter(buffer, piece))
<1>1. MAX_COMMAND \in Nat /\ MAX_COMMAND > 2
  BY CommandAssumption
<1>2. buffer \in Seq(Piece \ {END}) /\ Len(buffer) \in Nat
  BY LenProperties DEF Fits
<1>3. CASE piece = END \/ Len(buffer) + 1 >= MAX_COMMAND
  <2>1. BufferAfter(buffer, piece) = <<>>
    BY <1>3 DEF BufferAfter
  <2> QED
    BY <1>1, <2>1, EmptySeq DEF Fits
<1>4. CASE ~(piece = END \/ Len(buffer) + 1 >= MAX_COMMAND)
  <2>1. BufferAfter(buffer, piece) = Append(buffer, piece)
    BY <1>4 DEF BufferAfter
  <2>2. piece \in Piece \ {END}
    BY <1>4
  <2>3. /\ Append(buffer, piece) \in Seq(Piece \ {END})
        /\ Len(Append(buffer, piece)) = Len(buffer) + 1
    BY <1>2, <2>2, AppendProperties
  <2> QED
    BY <1>1, <1>2, <1>4, <2>1, <2>3 DEF Fits
<1> QED
  BY <1>3, <1>4

\* The lines after a piece of port p.
ReadLine(lines, p, piece) == [lines EXCEPT ![p] = LineAfter(@, piece)]

\* A piece of port p read, port q the other one.
LEMMA ReadPiece ==
  ASSUME NEW buffer, Fits(buffer),
         NEW lines, LinesOK(lines),
         NEW p \in Port, NEW q \in Port, p # q, NEW piece \in Piece
  PROVE  /\ LinesOK(ReadLine(lines, p, piece))
         /\ ReadLine(lines, p, piece)[q] = lines[q]
         /\ Clean(BufferAfter(buffer, piece), ReadLine(lines, p, piece))
         /\ TooLong(ReadLine(lines, p, piece)) => ~BetweenLines(ReadLine(lines, p, piece))
         /\ BetweenLines(ReadLine(lines, p, piece))
              => Sole(BufferAfter(buffer, piece), ReadLine(lines, p, piece))
         /\ Sole(buffer, lines) /\ lines[q] = <<>> /\ ~TooLong(ReadLine(lines, p, piece))
              => Sole(BufferAfter(buffer, piece), ReadLine(lines, p, piece))
<1> DEFINE lines2 == ReadLine(lines, p, piece)
<1>0. lines2 = [lines EXCEPT ![p] = LineAfter(@, piece)]
  BY DEF ReadLine
<1> HIDE DEF lines2
<1>1. /\ lines[p] \in Seq(Piece) /\ Len(lines[p]) <= MAX_COMMAND
      /\ lines2[p] = LineAfter(lines[p], piece) /\ lines2[q] = lines[q]
      /\ lines2[p] \in Seq(Piece) /\ lines2[q] \in Seq(Piece)
      /\ Len(lines2[p]) <= MAX_COMMAND
      /\ lines2[p] = <<>> <=> piece = END
      /\ Port = {p, q}
  <2>1. lines[p] \in Seq(Piece) /\ Len(lines[p]) <= MAX_COMMAND
    BY DEF LinesOK
  <2>2. /\ lines2[p] = LineAfter(lines[p], piece) /\ lines2[q] = lines[q]
        /\ lines2[q] \in Seq(Piece)
    BY <1>0 DEF LinesOK
  <2>3. Port = {p, q}
    BY DEF Port
  <2> QED
    BY <2>1, <2>2, <2>3, LineAfterType
<1>2. LinesOK(lines2)
  <2>1. lines2 \in [Port -> Seq(Piece)]
    BY <1>0, <1>1 DEF LinesOK
  <2> QED
    BY <1>1, <2>1 DEF LinesOK
<1>3. ASSUME BetweenLines(lines2) PROVE BufferAfter(buffer, piece) = <<>>
  BY <1>1, <1>3 DEF BetweenLines, BufferAfter
<1>4. ASSUME TooLong(lines2) PROVE ~BetweenLines(lines2)
  BY <1>4, EmptySeq, CommandAssumption DEF TooLong, BetweenLines
<1>5. CASE BetweenLines(lines2)
  <2>1. Sole(BufferAfter(buffer, piece), lines2)
    BY <1>3, <1>5 DEF BetweenLines, Sole
  <2> QED
    BY <1>1, <1>2, <1>3, <1>4, <2>1 DEF Clean, lines2
<1>6. CASE ~BetweenLines(lines2)
  <2>1. ASSUME Sole(buffer, lines), lines[q] = <<>>, ~TooLong(lines2)
        PROVE  Sole(BufferAfter(buffer, piece), lines2)
    <3>1. piece # END
      BY <1>1, <1>6, <2>1 DEF BetweenLines
    <3>2. buffer = lines[p]
      BY <1>1, <2>1 DEF Sole
    <3>3. ~(Len(lines[p]) + 1 >= MAX_COMMAND)
      <4> SUFFICES ASSUME Len(lines[p]) + 1 >= MAX_COMMAND PROVE FALSE
        OBVIOUS
      <4>1. lines2[p] = LongLine
        BY <1>1, <3>1 DEF LineAfter
      <4> QED
        BY <2>1, <4>1, LongLineType, CommandAssumption DEF TooLong
    <3>4. lines2[p] = Append(lines[p], piece) /\ BufferAfter(buffer, piece) = lines2[p]
      BY <1>1, <3>1, <3>2, <3>3 DEF LineAfter, BufferAfter
    <3> QED
      BY <1>1, <2>1, <3>4 DEF Sole
  <2> QED
    BY <1>1, <1>2, <1>4, <1>6, <2>1 DEF Clean, lines2
<1> QED
  BY <1>5, <1>6 DEF lines2

\* With no command left of earlier ones, a piece makes execute what the buffer
\* holds, if it is an END and this a command, and leaves no command again.
LEMMA ExecutionType ==
  ASSUME NEW buffer \in Seq(Piece \ {END}), NEW piece, NEW k, KeyClean(k), NEW matches
  PROVE  /\ Executed(k, buffer, piece, matches)
              = IF piece = END /\ buffer \in Command THEN buffer ELSE NONE
         /\ KeyClean(KeyAfter(k, buffer, piece))
<1>1. ASSUME Found(buffer)
      PROVE  /\ <<buffer[1], buffer[2]>> = buffer
             /\ buffer \in Command
  <2>1. Len(buffer) = 2 /\ buffer[1] \in Prefix /\ buffer[2] \in Name
    BY <1>1 DEF Found, ForThisUnit
  <2>2. buffer = <<buffer[1], buffer[2]>>
    BY <2>1
  <2> QED
    BY <2>1, <2>2 DEF Command
<1>2. ASSUME buffer \in Command PROVE Found(buffer)
  <2>1. PICK x \in Prefix, y \in Name : buffer = <<x, y>>
    BY <1>2 DEF Command
  <2> QED
    BY <2>1 DEF Found, ForThisUnit
<1>3. NONE \notin Command
  BY CommandAssumption DEF Command
<1>4. KeyClean(KeyInit(k))
  BY DEF KeyClean, KeyInit
<1>5. CASE Found(buffer)
  <2> DEFINE parsed == [cmd_key |-> <<buffer[1], buffer[2]>>, key_type |-> KeyType(buffer[2])]
  <2>1. Parsed(k, buffer) = parsed /\ parsed.cmd_key = buffer
    BY <1>1, <1>5 DEF Parsed
  <2>2. parsed \in [cmd_key : Command \cup {NONE}, key_type : KEY_TYPE]
    BY <1>1, <1>5 DEF KeyType, KEY_TYPE
  <2>3. Execution(parsed) = buffer
    BY <1>1, <1>3, <1>5, <2>1 DEF Execution
  <2>4. KeyClean(KeyInit(parsed))
    BY <2>2 DEF KeyClean, KeyInit
  <2> HIDE DEF parsed
  <2>5. Result(buffer, piece, matches) <=> piece = END
    BY <1>5 DEF Result, Found
  <2> QED
    BY <1>1, <1>4, <1>5, <2>1, <2>3, <2>4, <2>5 DEF Executed, KeyAfter, KeyClean
<1>6. CASE ~Found(buffer)
  <2>1. Parsed(k, buffer) = KeyInit(k)
    BY <1>6 DEF Parsed
  <2>2. Execution(KeyInit(k)) = NONE /\ KeyClean(KeyInit(KeyInit(k)))
    BY <1>4 DEF Execution, KeyClean, KeyInit
  <2> QED
    BY <1>2, <1>4, <1>6, <2>1, <2>2 DEF Executed, KeyAfter
<1> QED
  BY <1>5, <1>6

\* A round, piece by piece: which ports are read, and the lines after RS232's part.
LEMMA RoundStep ==
  ASSUME IInv, NEW matches \in BOOLEAN, NEW powersOn \in BOOLEAN,
         KeyInputCheck(matches, powersOn)
  PROVE  IInv'
<1> DEFINE
      fromRS232    == rx["RS232"] # <<>>
      first        == Head(rx["RS232"])
      buffer1      == IF fromRS232 THEN BufferAfter(command, first) ELSE command
      key1         == IF fromRS232 THEN KeyAfter(key, command, first) ELSE key
      result       == fromRS232 /\ Result(command, first, matches)
      line1        == IF fromRS232 THEN [line EXCEPT !["RS232"] = LineAfter(@, first)]
                                   ELSE line
      fromEthernet == EthernetTurn(result) /\ rx["ETHERNET"] # <<>>
      second       == Head(rx["ETHERNET"])
      line2        == IF fromEthernet
                      THEN [line1 EXCEPT !["ETHERNET"] = LineAfter(@, second)]
                      ELSE line1
      from         == {p \in Port : IF p = "RS232" THEN fromRS232 ELSE fromEthernet}
<1>1. /\ command' = IF fromEthernet THEN BufferAfter(buffer1, second) ELSE buffer1
      /\ key' = IF fromEthernet THEN KeyAfter(key1, buffer1, second) ELSE key1
      /\ executed' = [p \in Port |->
           CASE p = "RS232" /\ fromRS232 -> Executed(key, command, first, matches)
             [] p = "ETHERNET" /\ fromEthernet
                  -> Executed(key1, buffer1, second, matches)
             [] OTHER -> NONE]
      /\ rx' = [p \in Port |->
           IF p = "ETHERNET" /\ powersOn /\ (\E q \in Port : executed'[q] # NONE)
           THEN <<>>
           ELSE IF p \in from THEN Tail(rx[p]) ELSE rx[p]]
      /\ read' = from
      /\ line' = line2
      /\ disturbed' =
           (/\ ~BetweenLines(line2)
            /\ \/ disturbed /\ ~BetweenLines(line1)
               \/ fromRS232 /\ line["ETHERNET"] # <<>>
               \/ fromEthernet /\ line1["RS232"] # <<>>
               \/ TooLong(line2))
      /\ blank' = (fromRS232 /\ first = END /\ command = <<>>)
  BY DEF KeyInputCheck
<1>2. /\ rx \in [Port -> Seq(Piece)] /\ \A p \in Port : Len(rx[p]) < RX_MAX_SIZE
      /\ Fits(command) /\ LinesOK(line) /\ disturbed \in BOOLEAN
      /\ Clean(command, line)
      /\ "RS232" \in Port /\ "ETHERNET" \in Port
      /\ RX_MAX_SIZE \in Nat /\ RX_MAX_SIZE > 1
  BY CommandAssumption DEF IInv, TypeInv, TypeOK, Fits, LinesOK, Port
<1>3. /\ fromRS232 => first \in Piece
      /\ fromEthernet => second \in Piece
  BY <1>2, HeadTailProperties
<1>4. /\ Fits(buffer1) /\ LinesOK(line1)
      /\ Clean(buffer1, line1)
      /\ line1["ETHERNET"] = line["ETHERNET"]
  <2>1. CASE fromRS232
    <3>1. Fits(buffer1)
      BY <1>2, <1>3, <2>1, BufferAfterType
    <3>2. /\ line1 = ReadLine(line, "RS232", first)
          /\ buffer1 = BufferAfter(command, first)
      BY <2>1 DEF ReadLine
    <3> HIDE DEF line1, first, buffer1
    <3> QED
      <4>1. first \in Piece /\ "RS232" # "ETHERNET"
        BY <1>3, <2>1
      <4> QED
        BY <1>2, <3>1, <3>2, <4>1, ReadPiece, Zenon
  <2>2. CASE ~fromRS232
    BY <1>2, <2>2
  <2> QED
    BY <2>1, <2>2
\* The first part leaves the buffer in agreement, unless the lines were mixed.
<1>5. ASSUME \/ BetweenLines(line1)
              \/ /\ ~disturbed /\ ~TooLong(line1)
                 /\ fromRS232 => line["ETHERNET"] = <<>>
       PROVE  Sole(buffer1, line1)
  <2>1. CASE fromRS232
    <3>1. /\ line1 = ReadLine(line, "RS232", first)
          /\ buffer1 = BufferAfter(command, first)
      BY <2>1 DEF ReadLine
    <3>2. ~disturbed => Sole(command, line)
      BY DEF IInv
    <3> HIDE DEF line1, first, buffer1
    <3> QED
      <4>1. /\ Clean(BufferAfter(command, first), line1)
            /\ BetweenLines(line1) => Sole(BufferAfter(command, first), line1)
            /\ Sole(command, line) /\ line["ETHERNET"] = <<>> /\ ~TooLong(line1)
                 => Sole(BufferAfter(command, first), line1)
        <5>1. first \in Piece /\ "RS232" # "ETHERNET"
          BY <1>3, <2>1
        <5> QED
          BY <1>2, <3>1, <5>1, ReadPiece, Zenon
      <4> QED
        BY <1>5, <2>1, <3>1, <3>2, <4>1
  <2>2. CASE ~fromRS232
    <3>1. line1 = line /\ buffer1 = command
      BY <2>2
    <3>2. ~disturbed
      BY <1>5, <3>1 DEF IInv
    <3> QED
      BY <3>1, <3>2 DEF IInv
  <2> QED
    BY <2>1, <2>2
<1>6. /\ disturbed' \in BOOLEAN
      /\ disturbed' <=>
           (/\ ~BetweenLines(line2)
            /\ \/ disturbed /\ ~BetweenLines(line1)
               \/ fromRS232 /\ line["ETHERNET"] # <<>>
               \/ fromEthernet /\ line1["RS232"] # <<>>
               \/ TooLong(line2))
  BY <1>1, Zenon
<1>7. fromRS232 \/ fromEthernet
  BY DEF KeyInputCheck, Port
<1>8. /\ Fits(command') /\ LinesOK(line') /\ Clean(command', line')
      /\ TooLong(line') => disturbed'
      /\ disturbed' => ~BetweenLines(line')
      /\ ~disturbed' => Sole(command', line')
  <2>1. CASE fromEthernet
    <3>1. /\ command' = BufferAfter(buffer1, second)
          /\ line' = line2
          /\ line2 = ReadLine(line1, "ETHERNET", second)
      BY <1>1, <2>1 DEF ReadLine
    <3>2. Fits(BufferAfter(buffer1, second))
      BY <1>3, <1>4, <2>1, BufferAfterType
    <3>3. second \in Piece
      BY <1>3, <2>1
    <3> HIDE DEF line1, line2, buffer1, second, fromRS232, fromEthernet
    <3>4. /\ LinesOK(line2) /\ Clean(BufferAfter(buffer1, second), line2)
          /\ TooLong(line2) => ~BetweenLines(line2)
          /\ BetweenLines(line2) => Sole(BufferAfter(buffer1, second), line2)
          /\ Sole(buffer1, line1) /\ line1["RS232"] = <<>> /\ ~TooLong(line2)
               => Sole(BufferAfter(buffer1, second), line2)
      <4>1. "RS232" # "ETHERNET"
        OBVIOUS
      <4> QED
        BY <1>2, <1>4, <3>1, <3>3, <4>1, ReadPiece, Zenon
    <3>5. ASSUME ~disturbed', ~BetweenLines(line2)
          PROVE  Sole(buffer1, line1) /\ line1["RS232"] = <<>> /\ ~TooLong(line2)
      <4>1. /\ line1["RS232"] = <<>> /\ ~TooLong(line2)
            /\ ~disturbed \/ BetweenLines(line1)
            /\ fromRS232 => line["ETHERNET"] = <<>>
        BY <1>6, <2>1, <3>5
      <4>2. CASE BetweenLines(line1)
        BY <1>5, <4>1, <4>2
      <4>3. CASE ~BetweenLines(line1)
        <5>1. ~fromRS232 /\ ~disturbed
          BY <1>4, <4>1, <4>3 DEF BetweenLines, Port
        <5>2. ~TooLong(line1)
          BY <5>1 DEF IInv, line1, fromRS232
        <5> QED
          BY <1>5, <4>1, <5>1, <5>2
      <4> QED
        BY <4>2, <4>3
    <3> QED
      BY <1>6, <2>1, <3>1, <3>2, <3>4, <3>5
  <2>2. CASE ~fromEthernet
    <3>1. command' = buffer1 /\ line' = line1 /\ line2 = line1 /\ fromRS232
      BY <1>1, <1>7, <2>2
    <3>2. TooLong(line1) => ~BetweenLines(line1)
      BY EmptySeq, CommandAssumption DEF TooLong, BetweenLines
    <3> HIDE DEF line1, line2, buffer1, fromRS232, fromEthernet
    <3> QED
      BY <1>4, <1>5, <1>6, <2>2, <3>1, <3>2
  <2> QED
    BY <2>1, <2>2
<1>9. executed' \in [Port -> Command \cup {NONE}] /\ KeyClean(key')
  <2>1. KeyClean(key)
    BY DEF IInv
  <2>2. /\ Executed(key, command, first, matches) \in Command \cup {NONE}
        /\ KeyClean(KeyAfter(key, command, first))
    <3> HIDE DEF first
    <3>1. command \in Seq(Piece \ {END})
      BY <1>2 DEF Fits
    <3>2. /\ Executed(key, command, first, matches)
              = IF first = END /\ command \in Command THEN command ELSE NONE
          /\ KeyClean(KeyAfter(key, command, first))
      BY <2>1, <3>1, ExecutionType
    <3> QED
      BY <3>2
  <2>3. KeyClean(key1)
    BY <2>1, <2>2
  <2> HIDE DEF buffer1, key1, first, second, fromRS232, fromEthernet
  <2>4. /\ Executed(key1, buffer1, second, matches) \in Command \cup {NONE}
        /\ KeyClean(KeyAfter(key1, buffer1, second))
    <3>1. buffer1 \in Seq(Piece \ {END})
      BY <1>4 DEF Fits
    <3>2. /\ Executed(key1, buffer1, second, matches)
              = IF second = END /\ buffer1 \in Command THEN buffer1 ELSE NONE
          /\ KeyClean(KeyAfter(key1, buffer1, second))
      BY <2>3, <3>1, ExecutionType
    <3> QED
      BY <3>2
  <2> QED
    BY <1>1, <2>2, <2>3, <2>4
<1>10. rx' \in [Port -> Seq(Piece)] /\ \A p \in Port : Len(rx'[p]) < RX_MAX_SIZE
  <2>1. ASSUME NEW p \in Port
        PROVE  rx'[p] \in Seq(Piece) /\ Len(rx'[p]) < RX_MAX_SIZE
    <3>1. p \in from => rx[p] # <<>>
      BY DEF Port
    <3>2. rx'[p] \in {<<>>, rx[p]} \/ (p \in from /\ rx'[p] = Tail(rx[p]))
      <4> HIDE DEF from
      <4> QED
        BY <1>1
    <3> HIDE DEF from
    <3>3. CASE rx'[p] = <<>>
      BY <1>2, <3>3, EmptySeq
    <3>4. CASE rx'[p] = rx[p]
      BY <1>2, <3>4
    <3>5. CASE p \in from /\ rx'[p] = Tail(rx[p])
      <4>1. /\ Tail(rx[p]) \in Seq(Piece) /\ Len(Tail(rx[p])) = Len(rx[p]) - 1
            /\ Len(rx[p]) \in Nat
        BY <1>2, <3>1, <3>5, HeadTailProperties, LenProperties
      <4> QED
        BY <1>2, <3>5, <4>1
    <3> QED
      BY <3>2, <3>3, <3>4, <3>5
  <2>2. rx' = [p \in Port |-> rx'[p]]
    <3> HIDE DEF from
    <3> QED
      BY <1>1
  <2> QED
    BY <2>1, <2>2
<1>11. read' \in SUBSET Port /\ blank' \in BOOLEAN
  BY <1>1, Zenon
<1> QED
  BY <1>6, <1>8, <1>9, <1>10, <1>11 DEF IInv, TypeInv, TypeOK, KeyClean, Fits, LinesOK

LEMMA ReceiveStep ==
  ASSUME IInv, NEW p \in Port, NEW piece \in Piece, Receive(p, piece)
  PROVE  IInv'
<1>1. /\ rx' = [rx EXCEPT ![p] = IF Len(@) + 1 = RX_MAX_SIZE THEN <<>>
                                 ELSE Append(@, piece)]
      /\ UNCHANGED <<command, key, executed, read, line, disturbed, blank>>
  BY DEF Receive
<1>2. /\ rx \in [Port -> Seq(Piece)] /\ \A q \in Port : Len(rx[q]) < RX_MAX_SIZE
      /\ RX_MAX_SIZE \in Nat /\ RX_MAX_SIZE > 1
  BY CommandAssumption DEF IInv, TypeInv, TypeOK
<1>3. rx'[p] \in Seq(Piece) /\ Len(rx'[p]) < RX_MAX_SIZE
  <2>1. CASE Len(rx[p]) + 1 = RX_MAX_SIZE
    BY <1>1, <1>2, <2>1, EmptySeq
  <2>2. CASE Len(rx[p]) + 1 # RX_MAX_SIZE
    <3>1. /\ Append(rx[p], piece) \in Seq(Piece)
          /\ Len(Append(rx[p], piece)) = Len(rx[p]) + 1 /\ Len(rx[p]) \in Nat
      BY <1>2, AppendProperties, LenProperties
    <3> QED
      BY <1>1, <1>2, <2>2, <3>1
  <2> QED
    BY <2>1, <2>2
<1>4. \A q \in Port \ {p} : rx'[q] = rx[q]
  BY <1>1, <1>2
<1>5. rx' \in [Port -> Seq(Piece)] /\ \A q \in Port : Len(rx'[q]) < RX_MAX_SIZE
  <2>1. rx' = [q \in Port |-> rx'[q]]
    BY <1>1, <1>2
  <2> QED
    BY <1>2, <1>3, <1>4, <2>1
<1>6. TypeInv'
  BY <1>1, <1>5 DEF IInv, TypeInv, TypeOK
<1> QED
  BY <1>1, <1>6 DEF IInv, KeyClean, Clean, Sole, BetweenLines, TooLong

LEMMA InitIInv == Init => IInv
<1> SUFFICES ASSUME Init PROVE IInv
  OBVIOUS
<1>1. /\ <<>> \in Seq(Piece) /\ <<>> \in Seq(Piece \ {END}) /\ Len(<<>>) = 0
      /\ MAX_COMMAND \in Nat /\ MAX_COMMAND > 2 /\ RX_MAX_SIZE \in Nat /\ RX_MAX_SIZE > 1
  BY EmptySeq, CommandAssumption
<1>2. /\ \A p \in Port : rx[p] = <<>> /\ line[p] = <<>>
      /\ rx \in [Port -> Seq(Piece)] /\ line \in [Port -> Seq(Piece)]
      /\ executed \in [Port -> Command \cup {NONE}]
  BY <1>1 DEF Init
<1>3. TypeInv
  <2>1. disturbed \in BOOLEAN /\ blank \in BOOLEAN
    BY Zenon DEF Init
  <2> QED
    BY <1>1, <1>2, <2>1 DEF Init, TypeInv, TypeOK, KEY_TYPE
<1>4. ~TooLong(line) /\ KeyClean(key)
  BY <1>1, <1>2 DEF TooLong, Init, KeyClean, KEY_TYPE
<1>5. Sole(command, line)
  BY <1>2 DEF Init, Sole, Port
<1> QED
  BY <1>3, <1>4, <1>5 DEF Init, IInv, Clean

LEMMA InductiveInvariant == Spec => []IInv
<1>1. IInv /\ [Next]_vars => IInv'
  <2> SUFFICES ASSUME IInv, [Next]_vars PROVE IInv'
    OBVIOUS
  <2>1. CASE Next
    BY <2>1, RoundStep, ReceiveStep DEF Next, Round
  <2>2. CASE UNCHANGED vars
    BY <2>2 DEF vars, IInv, TypeInv, TypeOK, KeyClean, Clean, Sole, BetweenLines, TooLong
  <2> QED
    BY <2>1, <2>2
<1> QED
  BY InitIInv, <1>1, PTL DEF Spec

-----------------------------------------------------------------------------
(***************************************************************************)
(* The theorems.                                                           *)
(***************************************************************************)

\* Type correctness: however bytes arrive, neither the ring buffers nor the
\* command buffer (key_rs232_check, key_ethernet_check) grows beyond its size.
THEOREM TypeCorrect == Spec => []TypeOK
<1>1. IInv => TypeOK
  BY DEF IInv, TypeInv
<1> QED
  BY <1>1, InductiveInvariant, PTL

\* A mix-up of the ports does not last: when both are between two lines the
\* buffer they share is empty (rs232_key_type_init).
THEOREM BufferStartsClean == Spec => []StartsClean
<1>1. IInv => StartsClean
  BY DEF IInv, Clean, BetweenLines, StartsClean
<1> QED
  BY <1>1, InductiveInvariant, PTL

\* A line read undisturbed executes the command it is, and nothing otherwise
\* (key_input_check, rs232_key_parse).
THEOREM OwnCommandIsExecuted == Spec => OwnCommand
<1>1. ASSUME IInv, NEW p \in Port, Round,
             read' = {p}, line'[p] = <<>>, ~disturbed, Alone(p)
      PROVE  executed'[p] = IF line[p] \in Command THEN line[p] ELSE NONE
  <2>1. PICK matches \in BOOLEAN, powersOn \in BOOLEAN : KeyInputCheck(matches, powersOn)
    BY <1>1 DEF Round
  <2>2. /\ line \in [Port -> Seq(Piece)] /\ \A q \in Port : Len(line[q]) <= MAX_COMMAND
        /\ rx \in [Port -> Seq(Piece)]
        /\ command \in Seq(Piece \ {END})
    BY <1>1 DEF IInv, TypeInv, TypeOK
  <2>3. command = line[p]
    <3>1. Sole(command, line) /\ Clean(command, line)
      BY <1>1 DEF IInv
    <3> QED
      BY <1>1, <3>1 DEF Sole, Clean, BetweenLines, Alone
  <2>4. PICK piece \in Piece :
          /\ executed'[p] = Executed(key, command, piece, matches)
          /\ line'[p] = LineAfter(line[p], piece)
    <3>1. CASE p = "RS232"
      <4>1. rx["RS232"] # <<>>
        BY <1>1, <2>1, <3>1 DEF KeyInputCheck, Port
      <4>2. Head(rx["RS232"]) \in Piece
        BY <1>1, <2>2, <3>1, <4>1, HeadTailProperties
      <4>3. executed'["RS232"] = Executed(key, command, Head(rx["RS232"]), matches)
        BY <1>1, <2>1, <3>1, <4>1 DEF KeyInputCheck, Port
      <4>4. line'["RS232"] = LineAfter(line["RS232"], Head(rx["RS232"]))
        BY <1>1, <2>1, <2>2, <3>1, <4>1 DEF KeyInputCheck, Port
      <4> QED
        BY <3>1, <4>2, <4>3, <4>4
    <3>2. CASE p = "ETHERNET"
      <4>1. rx["RS232"] = <<>> /\ rx["ETHERNET"] # <<>>
        BY <1>1, <2>1, <3>2 DEF KeyInputCheck, Port
      <4>2. Head(rx["ETHERNET"]) \in Piece
        BY <1>1, <2>2, <3>2, <4>1, HeadTailProperties
      <4>3. executed'["ETHERNET"] = Executed(key, command, Head(rx["ETHERNET"]), matches)
        BY <1>1, <2>1, <3>2, <4>1 DEF KeyInputCheck, Port, EthernetTurn
      <4>4. line'["ETHERNET"] = LineAfter(line["ETHERNET"], Head(rx["ETHERNET"]))
        BY <1>1, <2>1, <2>2, <3>2, <4>1 DEF KeyInputCheck, Port, EthernetTurn
      <4> QED
        BY <3>2, <4>2, <4>3, <4>4
    <3> QED
      BY <1>1, <3>1, <3>2 DEF Port
  <2>5. piece = END
    BY <1>1, <2>2, <2>4, LineAfterType
  <2>6. KeyClean(key)
    BY <1>1 DEF IInv
  <2>7. Executed(key, command, piece, matches)
          = IF piece = END /\ command \in Command THEN command ELSE NONE
    BY <2>2, <2>6, ExecutionType
  <2> QED
    BY <2>3, <2>4, <2>5, <2>7
<1>2. IInv =>
        [\A p \in Port :
           Round /\ read' = {p} /\ line'[p] = <<>> /\ ~disturbed /\ Alone(p)
             => executed'[p] = IF line[p] \in Command THEN line[p] ELSE NONE]_vars
  BY <1>1
<1> QED
  BY <1>2, InductiveInvariant, PTL DEF OwnCommand

-----------------------------------------------------------------------------
\* A round that passes over a port has ended a line of RS232: the buffer is empty
\* after it, and was not before unless the round was blank.
LEMMA PassedOver ==
  ASSUME NEW p \in Port, Round, rx[p] # <<>>, p \notin read'
  PROVE  command' = <<>> /\ (command = <<>> => blank')
<1>1. PICK matches \in BOOLEAN, powersOn \in BOOLEAN : KeyInputCheck(matches, powersOn)
  BY DEF Round
<1> DEFINE first == Head(rx["RS232"])
           fromRS232 == rx["RS232"] # <<>>
<1>2. fromRS232 /\ Result(command, first, matches)
  BY <1>1, Zenon DEF KeyInputCheck, EthernetTurn, Port
<1>3. first = END /\ BufferAfter(command, first) = <<>>
  BY <1>2, Zenon DEF Result, BufferAfter
<1>4. command' = <<>>
  BY <1>1, <1>2, <1>3 DEF KeyInputCheck, EthernetTurn
<1>5. blank' = (fromRS232 /\ first = END /\ command = <<>>)
  BY <1>1, Zenon DEF KeyInputCheck
<1> QED
  BY <1>2, <1>3, <1>4, <1>5

\* Neither port keeps the other from being read for good: see Served.  A round that
\* passes over a port leaves the shared buffer empty, and the next one reads both
\* unless it was blank.
THEOREM PortsAreServed == FairSpec /\ []RoundEnabled => Served
<1> SUFFICES ASSUME NEW p \in Port
             PROVE  FairSpec /\ []RoundEnabled
                      => (rx[p] # <<>> ~> (p \in read \/ rx[p] = <<>> \/ blank))
  BY DEF Served
<1>1. RoundEnabled /\ ~(rx[p] = <<>>) => ENABLED <<Round>>_vars
  BY DEF RoundEnabled
<1>2. ~(rx[p] = <<>>) /\ <<Round>>_vars => (p \in read)' \/ (command = <<>>)'
  BY PassedOver
<1>3. ~(rx[p] = <<>>) /\ command = <<>> /\ <<Round>>_vars => (p \in read)' \/ blank'
  BY PassedOver
<1>4. ~(rx[p] = <<>>) /\ command = <<>> /\ [Next]_vars
        => (p \in read)' \/ blank' \/ (command = <<>>)'
  BY PassedOver DEF Next, Receive, vars
<1> QED
  BY <1>1, <1>2, <1>3, <1>4, PTL DEF FairSpec, Spec
=============================================================================
