---------------------------- MODULE CommandInput ----------------------------
(***************************************************************************)
(* How commands come in (source/command_key.c): the bytes of RS232 and of  *)
(* the Ethernet each wait in a ring buffer, which an interrupt handler or  *)
(* the TCP stack fills; the loop moves them, one of each port in a round   *)
(* (key_input_check), into one command buffer that both ports share, and   *)
(* parses and executes the buffer's contents when a '!' arrives.           *)
(* What parsing finds goes from the buffer to the dispatcher in a global   *)
(* structure, RS232_KEY, of which a part outlives the command.             *)
(*                                                                         *)
(* The characters of a command are three pieces: the unit and channel with *)
(* the colon ("00A:"), the name with its argument ("volume_20"), and the   *)
(* '!'.  Other characters are as good as a piece in the wrong place.  What *)
(* a command then does is the matter of other modules; here executing one  *)
(* is remembering it.                                                      *)
(***************************************************************************)
EXTENDS Naturals, Sequences

CONSTANTS
  Prefix,       \* the prefixes addressed to this unit
  NormalName,   \* the names of commands in cmd_list,
  SetName,      \* in cmd_list_x, with an argument,
  InputName,    \* and in cmd_list_input_channel
  END,          \* '!'
  NONE,         \* no command
  MAX_COMMAND,  \* how many pieces make the buffer be thrown away (32 characters)
  RX_MAX_SIZE   \* how many slots a ring buffer has (1000, 1520)

Name == NormalName \cup SetName \cup InputName

ASSUME CommandAssumption ==
  /\ NormalName \cap SetName = {} /\ (NormalName \cup SetName) \cap InputName = {}
  /\ Prefix \cap Name = {}
  /\ END \notin Prefix \cup Name
  /\ NONE \notin Prefix \X Name
  /\ MAX_COMMAND \in Nat /\ MAX_COMMAND > 2
  /\ RX_MAX_SIZE \in Nat /\ RX_MAX_SIZE > 1

VARIABLES
  rx,        \* [Port -> the pieces waiting in the port's ring buffer]
  command,   \* the command buffer, command[0 .. command_count - 1]
  key,       \* RS232_KEY: [cmd_key: the command parsed, or NONE (UNDEFINE),
             \*   key_type: the table its name was found in, or 0 before the first]
  executed,  \* [Port -> the command its piece made execute in this round, or NONE]
  read,      \* history: the ports a piece was read from in this round
  line,      \* history: [Port -> the pieces read since the port's last END]
  disturbed, \* history: did a line mix with the other port's, or get too long?
  blank      \* history: did this round parse an empty buffer?

vars == <<rx, command, key, executed, read, line, disturbed, blank>>

Port == {"RS232", "ETHERNET"}
Piece == Prefix \cup Name \cup {END}
Command == Prefix \X Name
KeyType(name) ==
  CASE name \in NormalName -> "KEY_NORMAL_CMD"
    [] name \in SetName -> "KEY_SET"
    [] OTHER -> "KEY_INPUT_SET"
KEY_TYPE == {"0", "KEY_NORMAL_CMD", "KEY_SET", "KEY_INPUT_SET"}

TypeOK ==
  /\ \A p \in Port : rx[p] \in Seq(Piece) /\ Len(rx[p]) < RX_MAX_SIZE
  /\ command \in Seq(Piece \ {END}) /\ Len(command) < MAX_COMMAND
  /\ key \in [cmd_key : Command \cup {NONE}, key_type : KEY_TYPE]
  /\ executed \in [Port -> Command \cup {NONE}]
  /\ read \in SUBSET Port
  /\ \A p \in Port : line[p] \in Seq(Piece) /\ Len(line[p]) <= MAX_COMMAND
  /\ disturbed \in BOOLEAN /\ blank \in BOOLEAN

\* uart_Init, ip_control_init and rs232_key_type_init.
Init ==
  /\ rx = [p \in Port |-> <<>>]
  /\ command = <<>>
  /\ key = [cmd_key |-> NONE, key_type |-> "0"]
  /\ executed = [p \in Port |-> NONE]
  /\ read = {}
  /\ line = [p \in Port |-> <<>>]
  /\ disturbed = FALSE /\ blank = FALSE

\* uart1_IRQHandler and ethernet_put_data: neither looks whether there is room,
\* and the piece that fills the last slot makes the buffer look empty.
Receive(p, piece) ==
  /\ rx' = [rx EXCEPT ![p] = IF Len(@) + 1 = RX_MAX_SIZE THEN <<>> ELSE Append(@, piece)]
  /\ UNCHANGED <<command, key, executed, read, line, disturbed, blank>>

\* rs232_key_parse: is the command for this unit, and is it one it knows?
ForThisUnit(buffer) == buffer # <<>> /\ buffer[1] \in Prefix
Found(buffer) == ForThisUnit(buffer) /\ Len(buffer) = 2 /\ buffer[2] \in Name

\* key_rs232_check and key_ethernet_check: the buffer after a piece.
BufferAfterFound(buffer, piece) ==   \* mutant: an unknown command is not thrown away
  IF \/ piece = END /\ Found(buffer)
     \/ Len(buffer) + 1 >= MAX_COMMAND
  THEN <<>>
  ELSE IF piece = END THEN buffer ELSE Append(buffer, piece)
BufferAfter(buffer, piece) ==
  IF piece = END \/ Len(buffer) + 1 >= MAX_COMMAND THEN <<>> ELSE Append(buffer, piece)

\* rs232_key_type_init leaves key_type what it was for the last command.
KeyInitForgets(k) == k   \* mutant: and cmd_key, too
KeyInit(k) == [k EXCEPT !.cmd_key = NONE]

\* rs232_key_parse, of which a command that is not found makes nothing.
Parsed(k, buffer) ==
  IF Found(buffer)
  THEN [cmd_key |-> <<buffer[1], buffer[2]>>, key_type |-> KeyType(buffer[2])]
  ELSE KeyInit(k)

\* A check returns TRUE: an END, and the command is for this unit.  Of an empty
\* buffer rs232_key_parse copies nothing and looks at two bytes of its own that
\* were never set: matches says whether these happen to name this unit.
Result(buffer, piece, matches) ==
  piece = END /\ (ForThisUnit(buffer) \/ (buffer = <<>> /\ matches))

\* rs232_key_process: the switch on key_type, in each of whose functions only the
\* keys of one table are cases, and UNDEFINE is none.
Execution(k) ==
  IF k.cmd_key # NONE /\ k.key_type = KeyType(k.cmd_key[2]) THEN k.cmd_key ELSE NONE

\* What a piece makes execute, and the structure after it: whichever way it goes
\* an END comes to rs232_key_type_init, as does a buffer that is full.
Executed(k, buffer, piece, matches) ==
  IF Result(buffer, piece, matches) THEN Execution(Parsed(k, buffer)) ELSE NONE
KeyAfter(k, buffer, piece) ==
  IF piece = END THEN KeyInit(Parsed(k, buffer))
  ELSE IF Len(buffer) + 1 >= MAX_COMMAND THEN KeyInit(k) ELSE k

\* key_input_check turns to the Ethernet in the same round.
EthernetTurnIfQuiet(result) == rx["RS232"] = <<>>   \* mutant: strict priority
EthernetTurn(result) == ~result

\* The histories, after a piece of a port is read.  Bound: lines that are too
\* long are one case.
LongLine == [i \in 1 .. MAX_COMMAND |-> END]
LineAfter(l, piece) ==
  IF piece = END THEN <<>>
  ELSE IF Len(l) + 1 >= MAX_COMMAND THEN LongLine ELSE Append(l, piece)
BetweenLines(lines) == \A p \in Port : lines[p] = <<>>
TooLong(lines) == \E p \in Port : Len(lines[p]) >= MAX_COMMAND

\* One round of the loop.  powersOn: a command executed, if any is, is one that
\* calls mode_power_on, whose ip_control_init empties the Ethernet's ring buffer.
KeyInputCheck(matches, powersOn) ==
  LET fromRS232    == rx["RS232"] # <<>>
      first        == Head(rx["RS232"])
      buffer1      == IF fromRS232 THEN BufferAfter(command, first) ELSE command
      key1         == IF fromRS232 THEN KeyAfter(key, command, first) ELSE key
      result       == fromRS232 /\ Result(command, first, matches)
      line1        == IF fromRS232 THEN [line EXCEPT !["RS232"] = LineAfter(@, first)]
                                   ELSE line
      fromEthernet == EthernetTurn(result) /\ rx["ETHERNET"] # <<>>
      second       == Head(rx["ETHERNET"])
      line2        == IF fromEthernet
                      THEN [line1 EXCEPT !["ETHERNET"] = LineAfter(@, second)]
                      ELSE line1
      from         == {p \in Port : IF p = "RS232" THEN fromRS232 ELSE fromEthernet}
  IN  /\ from # {}
      /\ command' = IF fromEthernet THEN BufferAfter(buffer1, second) ELSE buffer1
      /\ key' = IF fromEthernet THEN KeyAfter(key1, buffer1, second) ELSE key1
      /\ executed' = [p \in Port |->
           CASE p = "RS232" /\ fromRS232 -> Executed(key, command, first, matches)
             [] p = "ETHERNET" /\ fromEthernet
                  -> Executed(key1, buffer1, second, matches)
             [] OTHER -> NONE]
      /\ rx' = [p \in Port |->
           IF p = "ETHERNET" /\ powersOn /\ (\E q \in Port : executed'[q] # NONE)
           THEN <<>>
           ELSE IF p \in from THEN Tail(rx[p]) ELSE rx[p]]
      /\ read' = from
      /\ line' = line2
      /\ disturbed' =
           /\ ~BetweenLines(line2)
           /\ \/ disturbed /\ ~BetweenLines(line1)
              \/ fromRS232 /\ line["ETHERNET"] # <<>>
              \/ fromEthernet /\ line1["RS232"] # <<>>
              \/ TooLong(line2)
      /\ blank' = (fromRS232 /\ first = END /\ command = <<>>)

Round == \E matches, powersOn \in BOOLEAN : KeyInputCheck(matches, powersOn)

Next ==
  \/ \E p \in Port, piece \in Piece : Receive(p, piece)
  \/ Round

\* The superloop calls key_input_check in every round, but for the two seconds
\* after a power on; nothing has to be received.
Spec == Init /\ [][Next]_vars
FairSpec == Spec /\ WF_vars(Round)

-----------------------------------------------------------------------------
(***************************************************************************)
(* Properties.                                                             *)
(***************************************************************************)

\* No other port is in the middle of a line.
Alone(p) == \A other \in Port \ {p} : line[other] = <<>>

\* When a port's line is read undisturbed, its END executes the port's own
\* command, if the line is one, and nothing otherwise: of an earlier command, of
\* either port, nothing is left in the buffer, and in RS232_KEY nothing that could
\* run it again.  Its key_type is left, so this is rs232_key_type_init's doing, which
\* every way out of a command comes to.
OwnCommand ==
  [][\A p \in Port :
       Round /\ read' = {p} /\ line'[p] = <<>> /\ ~disturbed /\ Alone(p)
         => executed'[p] = IF line[p] \in Command THEN line[p] ELSE NONE]_vars

\* A mix-up does not last: as soon as every port is between two lines the
\* buffer is empty, so that the next line is read from its beginning.
StartsClean == (\A p \in Port : line[p] = <<>>) => command = <<>>

\* No port starves the other: a piece that waits is read sooner or later, unless
\* its ring buffer overflows or is initialised anew, or RS232 sends empty lines
\* for ever (key_input_check's else-if).
Served == \A p \in Port : rx[p] # <<>> ~> (p \in read \/ rx[p] = <<>> \/ blank)

\* What the theorem about Served takes for granted: a round can be taken whenever
\* something has been received.
RoundEnabled == (\E p \in Port : rx[p] # <<>>) => ENABLED <<Round>>_vars
=============================================================================
