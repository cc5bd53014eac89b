------------------------------ MODULE Arguments ------------------------------
(***************************************************************************)
(* arg_t::process() of arguments.hpp, a character at a time: how a command *)
(* line becomes _argv.  A blank escaped by a backslash belongs to its      *)
(* word.  There are two forms of the function; they differ in how they     *)
(* know the end.                                                           *)
(*                                                                         *)
(* Characters are told apart by what the code does with them.              *)
(***************************************************************************)
EXTENDS Integers, Sequences, FiniteSets, SequencesExt

CONSTANT MaxLen    \* the longest text

ASSUME ArgumentsAssumption == MaxLen \in Nat

NUL       == "0"
Blank     == " "
Backslash == "\\"
Tab       == "tab"      \* and '\n', '\r'
VTab      == "vtab"     \* and '\f': isspace(), but no case of the switch
Letter    == "a"

Char       == {NUL, Blank, Backslash, Tab, VTab, Letter}
Space      == {Blank, Tab, VTab}
Separators == {Blank, Tab, NUL}

VARIABLES
  form,       \* the form called: "char*" or "string"
  text,       \* its argument, of a char* without the NUL that ends it
  pc,         \* "skip": before a word, "word": in one, "done"
  p, top,     \* _p and _top, from 1
  space_arg,  \* _space_arg
  argv        \* _argv

vars == <<form, text, pc, p, top, space_arg, argv>>

Texts == UNION {[1 .. n -> Char] : n \in 0 .. MaxLen}

(* A string is without NUL: nothing ends a word that a NUL begins, and     *)
(* this form would add empty words for ever.                               *)
Init ==
  /\ form \in {"char*", "string"}
  /\ text \in Texts
  /\ form = "string" => NUL \notin Range(text)
  /\ pc = "skip" /\ p = 1 /\ top = 1
  /\ space_arg = <<>> /\ argv = <<>>

(* The character at i; behind a char* is its NUL.                          *)
At(i) == IF i \in DOMAIN text THEN text[i] ELSE NUL

EndAt(i) == IF form = "char*" THEN At(i) = NUL ELSE i = Len(text) + 1
Ended    == EndAt(p)

-----------------------------------------------------------------------------
(* The loop that passes over what isspace() accepts.                       *)
Skip ==
  /\ pc = "skip" /\ ~Ended /\ At(p) \in Space
  /\ p' = p + 1
  /\ UNCHANGED <<form, text, pc, top, space_arg, argv>>

Done ==
  /\ pc = "skip" /\ Ended
  /\ pc' = "done"
  /\ UNCHANGED <<form, text, p, top, space_arg, argv>>

Begin ==
  /\ pc = "skip" /\ ~Ended /\ At(p) \notin Space
  /\ pc' = "word" /\ top' = p /\ space_arg' = <<>>
  /\ UNCHANGED <<form, text, p, argv>>

(* A mistake: whatever follows a backslash is escaped, the end too.        *)
Any_Escapes == At(p) = Backslash

(* A mistake: a tabulator does not end a word.                             *)
Blank_EndOfWord == Ended \/ At(p) = Blank

EndOfWord == Ended \/ At(p) \in Separators
Escapes   == At(p) = Backslash /\ At(p + 1) = Blank

Piece == SubSeq(text, top, p - 1)

(* A mistake: a piece before an escaped blank is taken for a word.         *)
Early_Escape ==
  /\ pc = "word" /\ ~EndOfWord /\ Escapes
  /\ argv' = Append(argv, space_arg \o Piece)
  /\ space_arg' = <<>>
  /\ top' = p + 1
  /\ p' = p + 1
  /\ UNCHANGED <<form, text, pc>>

(* A mistake: the backslash goes into the word with the blank.             *)
Kept_Escape ==
  /\ pc = "word" /\ ~EndOfWord /\ Escapes
  /\ space_arg' = space_arg \o SubSeq(text, top, p)
  /\ top' = p + 1
  /\ p' = p + 2
  /\ UNCHANGED <<form, text, pc, argv>>

(* The case of a backslash: it is left out, the blank is passed over.      *)
Escape ==
  /\ pc = "word" /\ ~EndOfWord /\ Escapes
  /\ space_arg' = space_arg \o Piece
  /\ top' = p + 1
  /\ p' = p + 2
  /\ UNCHANGED <<form, text, pc, argv>>

(* A mistake: a backslash that escapes nothing is not passed over.         *)
Stuck_Advance ==
  /\ pc = "word" /\ ~EndOfWord /\ ~Escapes
  /\ p' = IF At(p) = Backslash THEN p ELSE p + 1
  /\ UNCHANGED <<form, text, pc, top, space_arg, argv>>

Advance ==
  /\ pc = "word" /\ ~EndOfWord /\ ~Escapes
  /\ p' = p + 1
  /\ UNCHANGED <<form, text, pc, top, space_arg, argv>>

EndWord ==
  /\ pc = "word" /\ EndOfWord
  /\ argv' = Append(argv, space_arg \o Piece)
  /\ pc' = "skip"
  /\ UNCHANGED <<form, text, p, top, space_arg>>

Next == Skip \/ Done \/ Begin \/ Escape \/ Advance \/ EndWord

Spec == Init /\ [][Next]_vars /\ WF_vars(Next)

-----------------------------------------------------------------------------
(* Every variable has its type.                                            *)
TypeOK ==
  /\ form \in {"char*", "string"} /\ text \in Seq(Char)
  /\ pc \in {"skip", "word", "done"}
  /\ p \in 1 .. Len(text) + 1 /\ top \in 1 .. Len(text) + 1
  /\ space_arg \in Seq(Char)
  /\ argv \in Seq(Seq(Char))

(* _p never passes the end, which for a char* is its first NUL, although   *)
(* an escape makes two steps at once; and no piece ends before it begins.  *)
InBounds ==
  /\ \A i \in 1 .. p - 1 : ~EndAt(i)
  /\ top <= p

(* Every word has taken a character of its own, so a line gives at most    *)
(* as many words as it has characters and none is empty: the two loops     *)
(* have made progress whenever the outer one begins again.                 *)
Progress ==
  /\ Len(argv) < p
  /\ \A k \in DOMAIN argv : argv[k] # <<>>

(* Parsing ends, whatever the text.                                        *)
Terminates == <>(pc = "done")

-----------------------------------------------------------------------------
(* What the words of a line t are, without a loop.                         *)
EscapedAt(t, i) == t[i] = Blank /\ i > 1 /\ t[i - 1] = Backslash
BreakAt(t, i)   == t[i] = Tab \/ (t[i] = Blank /\ ~EscapedAt(t, i))
DropsAt(t, i)   == t[i] = Backslash /\ i < Len(t) /\ t[i + 1] = Blank

(* A word begins at the first character since a break that is not a VTab,  *)
(* and goes to the next break.                                             *)
WordAt(t, i) ==
  LET stop(j) == \A l \in i .. j : ~BreakAt(t, l)
  IN {j \in i .. Len(t) : stop(j)}
StartsWord(t, i) ==
  /\ ~BreakAt(t, i) /\ t[i] # VTab
  /\ \E b \in 0 .. i - 1 : /\ b = 0 \/ BreakAt(t, b)
                           /\ \A j \in b + 1 .. i - 1 : t[j] = VTab

(* The positions in a set, in their order, and what a text has there.      *)
Ascending(S) ==
  [k \in 1 .. Cardinality(S) |-> CHOOSE i \in S : Cardinality({j \in S : j <= i}) = k]
Chars(t, S) == LET order == Ascending(S) IN [k \in DOMAIN order |-> t[order[k]]]

Starts(t)  == {i \in 1 .. Len(t) : StartsWord(t, i)}
Kept(t, i) == {j \in WordAt(t, i) : ~DropsAt(t, j)}
Words(t) ==
  LET starts == Ascending(Starts(t))
  IN [k \in DOMAIN starts |-> Chars(t, Kept(t, starts[k]))]

(* A char* is read as far as its NUL.                                      *)
Line == SelectInSeq(text, LAMBDA c : c = NUL)
Read == IF Line = 0 THEN text ELSE SubSeq(text, 1, Line - 1)

(* Both forms of process() give the words of the line: separated by        *)
(* blanks that no backslash escapes, without the escaping backslashes,     *)
(* with every other character in its place.                                *)
WordsOfLine == pc = "done" => argv = Words(Read)

(* client_t::file_send and file_recv pass a name on as "file_send %s", and *)
(* the server parses that again (client.cpp:51 and 73, server.cpp:129).    *)
(* It finds the same command and name exactly when there is no blank in    *)
(* the name: the escapes are gone after the first parse.  A letter is the  *)
(* command, which has no backslash.                                        *)
Forwarded ==
  pc = "done" /\ Len(argv) = 2 /\ argv[1] = <<Letter>>
    => (Words(argv[1] \o <<Blank>> \o argv[2]) = argv <=> Blank \notin Range(argv[2]))
=============================================================================
