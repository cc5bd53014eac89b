------------------------------ MODULE ClientMain ------------------------------
(***************************************************************************)
(* client_main.cpp: standard input read by lines of a limited length, the  *)
(* first ones as addresses until a connection is made, the others as       *)
(* commands.                                                               *)
(***************************************************************************)
EXTENDS Integers, Sequences

CONSTANTS
  Room,     \* the size of _command_str; its last character is the '\0'
  MaxLen    \* the longest input

ASSUME ClientMainAssumption == Room \in Nat \ {0, 1} /\ MaxLen \in Nat

Letter  == "a"
Newline == "nl"
EOF     == "eof"

VARIABLES
  stdin,      \* what there is to read
  pos,        \* the next character fgetc() returns, from 1
  pc,         \* "main": in main(), "fgetline": in there, "exit", "undefined"
  from,       \* where fgetline() began
  connected,  \* _client_connected # -1
  used        \* the lines main() has got: [from, len, as]

main_vars == <<stdin, pos, pc, from, connected, used>>

Inputs == UNION {[1 .. n -> {Letter, Newline}] : n \in 0 .. MaxLen}

(* With an address on the command line the first attempt needs no input.   *)
MainInit ==
  /\ stdin \in Inputs
  /\ pos = 1 /\ from = 1 /\ pc = "main"
  /\ connected \in BOOLEAN
  /\ used = <<>>

-----------------------------------------------------------------------------
fgetc == IF pos <= Len(stdin) THEN stdin[pos] ELSE EOF
len   == pos - from

(* A line for main(): an address to try, or a command.  A blank command    *)
(* has no argv(0), and client_t::process looks at it all the same.         *)
Line ==
  /\ used' = Append(used, [from |-> from, len |-> len,
                           as |-> IF connected THEN "command" ELSE "address"])
  /\ IF connected THEN UNCHANGED connected ELSE connected' \in BOOLEAN
  /\ \/ pc' = "main"
     \/ connected /\ len = 0 /\ pc' = "undefined"
  /\ UNCHANGED <<stdin, from>>

fgetline ==
  /\ pc = "main"
  /\ pc' = "fgetline" /\ from' = pos
  /\ UNCHANGED <<stdin, pos, connected, used>>

Store ==
  /\ pc = "fgetline" /\ fgetc = Letter /\ len < Room - 1
  /\ pos' = pos + 1
  /\ UNCHANGED <<stdin, pc, from, connected, used>>

EndOfLine ==
  /\ pc = "fgetline" /\ fgetc = Newline /\ len < Room - 1
  /\ pos' = pos + 1
  /\ Line

(* A mistake: room is tested before a character is read.                   *)
Unread_Full ==
  /\ pc = "fgetline" /\ fgetc # EOF /\ len = Room - 1
  /\ pos' = pos
  /\ Line

(* The character that finds no room has been read: it is the end of the    *)
(* line, or it is lost.                                                    *)
Full ==
  /\ pc = "fgetline" /\ fgetc # EOF /\ len = Room - 1
  /\ pos' = pos + 1
  /\ Line

(* A mistake: a last line without a newline is not returned.               *)
Dropped_EndOfFile ==
  /\ pc = "fgetline" /\ fgetc = EOF
  /\ pc' = "exit"
  /\ UNCHANGED <<stdin, pos, from, connected, used>>

EndOfFile ==
  /\ pc = "fgetline" /\ fgetc = EOF
  /\ IF len = 0
     THEN pc' = "exit" /\ UNCHANGED <<stdin, pos, from, connected, used>>
     ELSE UNCHANGED pos /\ Line

MainNext == fgetline \/ Store \/ EndOfLine \/ Full \/ EndOfFile

MainSpec == MainInit /\ [][MainNext]_main_vars

-----------------------------------------------------------------------------
(* Every variable has its type, and a line fits in _command_str with its   *)
(* '\0'.                                                                   *)
MainTypeOK ==
  /\ pos \in 1 .. Len(stdin) + 1 /\ from \in 1 .. pos
  /\ pc \in {"main", "fgetline", "exit", "undefined"}
  /\ connected \in BOOLEAN
  /\ pc = "fgetline" => len < Room
  /\ \A k \in DOMAIN used : used[k].len \in 0 .. Room - 1

(* The lines of the input, from their first character to their last.       *)
BeginsLine(i) == i = 1 \/ stdin[i - 1] = Newline
LineLen(b) ==
  CHOOSE n \in 0 .. Len(stdin) + 1 - b :
    /\ \A i \in b .. b + n - 1 : stdin[i] = Letter
    /\ b + n = Len(stdin) + 1 \/ stdin[b + n] = Newline

(* Every line that fits is used whole and once, whatever comes before it   *)
(* and whether or not the last one ends with a newline; no line, however   *)
(* long, is read behind the buffer.                                        *)
LinesDelivered ==
  /\ MainTypeOK
  /\ pc = "exit" =>
       \A b \in 1 .. Len(stdin) :
         BeginsLine(b) /\ LineLen(b) < Room
           => \E k \in DOMAIN used :
                /\ used[k].from = b /\ used[k].len = LineLen(b)
                /\ \A l \in DOMAIN used \ {k} : used[l].from # b

(* main() gets a blank line, which process() has no argv(0) for, where the *)
(* input has one, and otherwise only behind a line whose length is a       *)
(* multiple of Room: its pieces are Room - 1 long and lose one each.       *)
BlankLines ==
  \A k \in DOMAIN used :
    used[k].len = 0 =>
      \/ BeginsLine(used[k].from)
      \/ \E b \in 1 .. used[k].from - 1 :
           /\ BeginsLine(b) /\ b + LineLen(b) = used[k].from
           /\ LineLen(b) % Room = 0
=============================================================================
