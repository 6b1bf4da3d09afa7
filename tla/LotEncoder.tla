----------------------------- MODULE LotEncoder -----------------------------
(***************************************************************************)
(* How the LOT encoder (python/lot_encoder.py) takes commands: clients     *)
(* write them to TCP connections, the socket_pdu block hands the bytes on  *)
(* in messages cut anywhere, and handle_new_file joins all of them, of     *)
(* whatever client, in command_buffer and acts on one command a message.   *)
(*                                                                         *)
(* A byte stream is a sequence of units <<k, i>>, unit i of command k: its  *)
(* text, the newline, and the data of a streamed file, which may have a    *)
(* newline among them.                                                     *)
(***************************************************************************)
EXTENDS Integers, Sequences, FiniteSets, SequencesExt

CONSTANTS Clients,      \* the connections
          Kinds,        \* the kinds of command they send
          MaxCommands   \* bound: commands sent

\* file:     file|<lot_id>|<filename>, and the file is there
\* missing:  the same, but there is no such file, or not yet; a lot_id that is no
\*           number, or a file that prepare_file refuses, is one that never comes
\* invalid:  a line that is no command
\* stream:   streamfile|<lot_id>|<size>|<filename>, and data that begin with a newline
\* refused:  the same with a | in the name: no command, but data follow, no newline in them
\* barred:   streamfile with a lot_id or size that is no number, which raises at once,
\*           or a file that prepare_file refuses when all of it is there
AllKinds == {"file", "missing", "invalid", "stream", "refused", "barred"}

ASSUME LotAssumption == Kinds \subseteq AllKinds /\ MaxCommands \in Nat

VARIABLES kinds,           \* the kinds of the commands sent so far
          wire,            \* what each client has written and is not delivered
          missing,         \* commands whose file is not there
          broken,          \* commands cut short by a connection that broke
          alive,           \* has the block's thread survived all exceptions?
          command_buffer,
          lot,             \* the file prepare_file set: its command and its data
          acted,           \* history: commands acted on, with the data taken up
          arrival,         \* history: commands in the order their first unit came
          last,            \* history: the last unit delivered
          joins,           \* history: units that came where another was due
          surplus          \* history: commands completed by a message, but for one each

io == <<kinds, wire, missing, broken>>
encoder == <<alive, command_buffer, lot>>
history == <<acted, arrival, last, joins, surplus>>
vars == <<io, encoder, history>>

Header == 2
Streamed == {"stream", "refused", "barred"}
Size(k) == IF kinds[k] \in Streamed THEN 2 ELSE 0
Units(k, size) == [i \in 1 .. Header + size |-> <<k, i>>]
IsNewline(u) == u[2] = Header \/ (u[2] = Header + 1 /\ kinds[u[1]] = "stream")

None == <<0, 0>>

Init == /\ kinds = << >> /\ wire = [c \in Clients |-> << >>] /\ missing = {} /\ broken = {}
        /\ alive = TRUE /\ command_buffer = << >> /\ lot = << >>
        /\ acted = << >> /\ arrival = << >> /\ last = None /\ joins = 0 /\ surplus = 0

\* A client writes a command, as apps/send_album_art.py does.  Once the thread is
\* dead, what clients do matters no more.
Submit(c, kind) ==
    LET k == Len(kinds) + 1
    IN /\ k <= MaxCommands /\ alive
       /\ kinds' = Append(kinds, kind)
       /\ wire' = [wire EXCEPT ![c] = @ \o Units(k, IF kind \in Streamed THEN 2 ELSE 0)]
       /\ missing' = IF kind = "missing" THEN missing \cup {k} ELSE missing
       /\ UNCHANGED <<broken, encoder, history>>

\* The client ends, or its connection breaks, in the middle of a command.  Bound:
\* this happens once.
Break(c) ==
    /\ alive /\ broken = {}
    /\ \E n \in 0 .. Len(wire[c]) - 1 :
           /\ wire' = [wire EXCEPT ![c] = SubSeq(@, 1, n)]
           /\ broken' = {wire[c][i][1] : i \in n + 1 .. Len(wire[c])}
    /\ UNCHANGED <<kinds, missing, encoder, history>>

\* Somebody puts a missing file in its place.
FileAppears ==
    /\ alive
    /\ \E k \in missing : missing' = missing \ {k}
    /\ UNCHANGED <<kinds, wire, broken, encoder, history>>

\* Mutant: the last newline in the buffer ends the command.
CommandEndLast(buffer) ==
    LET ends == {i \in DOMAIN buffer : IsNewline(buffer[i])}
    IN  IF ends = {} THEN 0 ELSE CHOOSE i \in ends : \A j \in ends : j <= i

\* The place of the first newline; 0 if there is none.
CommandEnd(buffer) == SelectInSeq(buffer, IsNewline)

\* A line is a command's if it is all of its text and nothing else.
IsHeader(line) == \E k \in DOMAIN kinds : line = <<<<k, 1>>>>

\* Mutant: as if the newline counted as a byte of the file.
StreamCompleteLate(buffer, end, size) == Len(buffer) > end + size

StreamComplete(buffer, end, size) == Len(buffer) >= end + size

\* Mutant: what follows the command is dropped with it.
RestNone(buffer, end) == << >>

Rest(buffer, end) == SubSeq(buffer, end + 1, Len(buffer))

\* A command is acted on and cut from the buffer.
Take(k, data, buffer, end) ==
    /\ lot' = [command |-> k, data |-> data]
    /\ acted' = Append(acted, [command |-> k, data |-> data])
    /\ command_buffer' = Rest(buffer, end)
    /\ UNCHANGED alive

\* A line that is no command is logged and cut.
Skip(k, buffer, end) ==
    /\ acted' = IF k = 0 THEN acted ELSE Append(acted, [command |-> k, data |-> << >>])
    /\ command_buffer' = Rest(buffer, end)
    /\ UNCHANGED <<alive, lot>>

\* Mutant: the buffer is emptied before the command is carried out.
LeftNone(buffer) == << >>

\* What an exception leaves of the buffer.
Left(buffer) == buffer

\* Whether the thread survives an exception is up to the runtime.
Raise(buffer) ==
    /\ command_buffer' = Left(buffer)
    /\ alive' \in BOOLEAN
    /\ UNCHANGED <<lot, acted>>

Wait(buffer) ==
    /\ command_buffer' = buffer
    /\ UNCHANGED <<alive, lot, acted>>

(***************************************************************************)
(* handle_new_file.  A line mixed of several commands' units is no command *)
(* or raises: that it should happen to name a file that is there is left   *)
(* out.                                                                    *)
(***************************************************************************)
HandleNewFile(data) ==
    LET buffer == command_buffer \o data
        end    == CommandEnd(buffer)
        line   == SubSeq(buffer, 1, end - 1)
        k      == line[1][1]
    IN  IF end = 0 THEN Wait(buffer)
        ELSE IF ~ IsHeader(line) THEN Skip(0, buffer, end) \/ (Len(line) > 0 /\ Raise(buffer))
        ELSE CASE kinds[k] = "stream" ->
                      IF StreamComplete(buffer, end, Size(k))
                      THEN Take(k, SubSeq(buffer, end + 1, end + Size(k)), buffer, end + Size(k))
                      ELSE Wait(buffer)
               [] kinds[k] = "barred" ->
                      \/ Raise(buffer)
                      \/ ~ StreamComplete(buffer, end, Size(k)) /\ Wait(buffer)
               [] kinds[k] \in {"file", "missing"} ->
                      IF k \in missing THEN Raise(buffer) ELSE Take(k, << >>, buffer, end)
               [] kinds[k] \in {"invalid", "refused"} -> Skip(k, buffer, end)

\* May unit v follow unit u in a stream of whole commands?
Follows(u, v) ==
    IF u = None \/ u[2] = Header + Size(u[1]) THEN v[2] = 1
    ELSE v = <<u[1], u[2] + 1>>

\* The places where units do not follow each other so.
Joins(units) == Cardinality({i \in 2 .. Len(units) : ~ Follows(units[i - 1], units[i])})

\* The commands that begin among some units.
Begun(units) ==
    FlattenSeq([i \in DOMAIN units |-> IF units[i][2] = 1 THEN <<units[i][1]>> ELSE << >>])

\* The last units of commands among some units.
Completed(units) == Cardinality({i \in DOMAIN units : units[i][2] = Header + Size(units[i][1])})

\* socket_pdu passes on what came in on a connection, as much as it likes.
Deliver(c) ==
    \E n \in 1 .. Len(wire[c]) :
        LET data == SubSeq(wire[c], 1, n)
        IN /\ alive
           /\ HandleNewFile(data)
           /\ wire' = [wire EXCEPT ![c] = SubSeq(@, n + 1, Len(@))]
           /\ arrival' = arrival \o Begun(data)
           /\ last' = data[n]
           /\ joins' = joins + Joins(<<last>> \o data)
           /\ surplus' = surplus + (IF Completed(data) > 1 THEN Completed(data) - 1 ELSE 0)
           /\ UNCHANGED <<kinds, missing, broken>>

Next == \/ \E c \in Clients, kind \in Kinds : Submit(c, kind)
        \/ \E c \in Clients : Break(c)
        \/ FileAppears
        \/ \E c \in Clients : Deliver(c)

Spec == Init /\ [][Next]_vars

\* For model checking: what a client does depends on no name.
ClientSymmetry == Permutations(Clients)
------------------------------------------------------------------------------
Arrived == ToSet(arrival)
ActedOn == {acted[i].command : i \in DOMAIN acted}

\* All that arrived is one whole command after another.
Orderly == joins = 0 /\ \A k \in Arrived : kinds[k] # "refused"

(* Each file has its own data, all of it, and commands are acted on in the   *)
(* order in which they arrived.                                              *)
ActedInOrder ==
    \A i \in DOMAIN acted :
        LET k == acted[i].command
        IN  /\ k = arrival[i]
            /\ acted[i].data = SubSeq(Units(k, Size(k)), Header + 1, Header + Size(k))

\* Some commands, whole, one after another.
Stream(ks) == FlattenSeq([i \in DOMAIN ks |-> Units(ks[i], Size(ks[i]))])

(* What handle_new_file did not act on yet is in command_buffer, unit by     *)
(* unit, behind a command that raised too.                                   *)
NothingLost ==
    LET open == SubSeq(arrival, Len(acted) + 1, Len(arrival))
    IN  /\ IsPrefix(command_buffer, Stream(open))
        /\ command_buffer = << >> \/ Last(command_buffer) = last
        /\ command_buffer = << >> => open = << >> \/ open = <<last[1]>>

(***************************************************************************)
(* Commands that arrive one after another are acted on in that order, each *)
(* once, none skipped and none lost, whatever messages they are cut into,  *)
(* whichever newlines the data of files hold and however often one of them *)
(* raises before it goes through.                                          *)
(***************************************************************************)
InOrder == Orderly => ActedInOrder /\ NothingLost

(***************************************************************************)
(* A command waits in command_buffer only behind others that came in the   *)
(* same message, or behind one that raises: handle_new_file takes one a    *)
(* message, and a message with two leaves it one behind for good.          *)
(***************************************************************************)
NothingWaits ==
    (Orderly /\ \A k \in Arrived : kinds[k] \notin {"missing", "barred"})
        => Completed(command_buffer) <= surplus

(***************************************************************************)
(* Clients that talk at the same time, or break off in a line, cost no     *)
(* more commands than there were joins of the end of one piece with a      *)
(* piece it does not go with, as long as no file is streamed.              *)
(***************************************************************************)
Whole(k) == /\ k \notin broken
            /\ \A c \in Clients : \A i \in DOMAIN wire[c] : wire[c][i][1] # k
Lost == {k \in Arrived \ ActedOn :
             Whole(k) /\ \A i \in DOMAIN command_buffer :
                            \/ command_buffer[i] # <<k, 1>>
                            \/ i > 1 /\ ~ IsNewline(command_buffer[i - 1])
                            \/ i = Len(command_buffer)
                            \/ command_buffer[i + 1] # <<k, 2>>}
LossBounded ==
    (\A k \in Arrived : kinds[k] \notin Streamed) => Cardinality(Lost) <= joins
==============================================================================
