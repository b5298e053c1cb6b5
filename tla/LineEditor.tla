----------------------------- MODULE LineEditor -----------------------------
(***************************************************************************)
(* The line editor of POX's telnet server (LineEdit in pox/misc/telnetd)   *)
(* and the terminal of the client, which it never asks anything: what the  *)
(* user sees is what the editor believes to be there.                      *)
(***************************************************************************)
EXTENDS Integers, Sequences, SequencesExt

CONSTANTS
  Char,
  MaxLine, MaxHistory   \* bounds

Blank == " "
Letter == Char \cup {Blank}

VARIABLES
  current, cursor,  \* LineEdit.__current, __cursor
  hist, pos,        \* __hist, and __pos: an index into it, or 0 for None
  password_mode,
  shown, column     \* the line on the terminal, and its cursor

vars == <<current, cursor, hist, pos, password_mode, shown, column>>

Init ==
  /\ current = <<>> /\ cursor = 0
  /\ hist = <<>> /\ pos = 0
  /\ password_mode = FALSE
  /\ shown = <<>> /\ column = 0

-----------------------------------------------------------------------------
(* The terminal: what is on it after a sequence of <<"left", n>>,          *)
(* <<"right", n>> and <<"write", characters>>.                             *)

Padded(line, n) == line \o [i \in 1..(IF Len(line) < n THEN n - Len(line) ELSE 0) |-> Blank]
Written(line, at, new) ==
  SubSeq(Padded(line, at), 1, at) \o new \o SubSeq(line, at + Len(new) + 1, Len(line))
Done(term, op) ==
  CASE op[1] = "left" -> [term EXCEPT !.at = IF @ < op[2] THEN 0 ELSE @ - op[2]]
    [] op[1] = "right" -> [term EXCEPT !.at = @ + op[2]]
    [] op[1] = "write" -> [line |-> Written(term.line, term.at, op[2]), at |-> term.at + Len(op[2])]
Left(n) == <<"left", IF n < 0 THEN 0 ELSE n>>   \* a string times a negative number is empty
Right(n) == <<"right", n>>
Write(chars) == <<"write", chars>>
Times(char, n) == [i \in 1..n |-> char]
send(ops) ==
  LET term == FoldLeft(Done, [line |-> shown, at |-> column], ops)
  IN shown' = term.line /\ column' = term.at

-----------------------------------------------------------------------------
(* erase and redraw, which the code calls before and after it changes the  *)
(* line: here with the line and the cursor that they find.                 *)

erase(line, c, o) == <<Left(c + o), Write(Times(Blank, Len(line) + o)), Left(Len(line) + o)>>
Visible(line) == IF password_mode THEN Times("*", Len(line)) ELSE line
drawn(line, c) == <<Write(Visible(line)), Left(Len(line)), Right(c)>>
\* Mutant: the line is drawn over as long as it is now.
drawnOver(line, c, o) == drawn(line, c)
redraw(line, c, o) == erase(line, c, o) \o drawn(line, c)

Edit(line, c) == current' = line /\ cursor' = c
Bell == UNCHANGED vars

First(n) == SubSeq(current, 1, n)
Rest(n) == SubSeq(current, n + 1, Len(current))

\* A character, also in the middle of the line.
Insert ==
  /\ Len(current) < MaxLine
  /\ \E c \in Letter :
       LET line == First(cursor) \o <<c>> \o Rest(cursor) IN
       /\ Edit(line, cursor + 1)
       /\ IF cursor + 1 = Len(line)
          THEN send(<<Write(IF password_mode THEN <<"*">> ELSE <<c>>)>>)
          ELSE send(redraw(line, cursor + 1, -1))
  /\ UNCHANGED <<hist, pos, password_mode>>

Backspace ==
  /\ IF cursor = 0 THEN Bell
     ELSE LET line == First(cursor - 1) \o Rest(cursor) IN
          /\ Edit(line, cursor - 1)
          /\ send(redraw(line, cursor - 1, 1))
          /\ UNCHANGED <<hist, pos, password_mode>>

Delete ==
  /\ IF cursor = Len(current) THEN Bell
     ELSE LET line == First(cursor) \o Rest(cursor + 1) IN
          /\ Edit(line, cursor)
          /\ send(erase(current, cursor, 0) \o drawn(line, cursor))
          /\ UNCHANGED <<hist, pos, password_mode>>

\* Control-A, control-E, and the arrow keys.
Move ==
  /\ \/ cursor' = 0 /\ send(<<Left(cursor)>>)
     \/ cursor' = Len(current) /\ send(<<Right(Len(current) - cursor)>>)
     \/ cursor > 0 /\ cursor' = cursor - 1 /\ send(<<Left(1)>>)
     \/ cursor < Len(current) /\ cursor' = cursor + 1 /\ send(<<Right(1)>>)
  /\ UNCHANGED <<current, hist, pos, password_mode>>

\* Control-W: the comparison of a number with a character holds for each, so that
\* everything in front of the cursor is the word.
KillWord ==
  /\ Edit(Rest(cursor), 0)
  /\ send(erase(current, cursor, 0) \o drawn(Rest(cursor), 0))
  /\ UNCHANGED <<hist, pos, password_mode>>

KillRest ==
  /\ Edit(First(cursor), cursor)
  /\ send(erase(current, cursor, 0) \o drawn(First(cursor), cursor))
  /\ UNCHANGED <<hist, pos, password_mode>>

\* Another line of the history, or an empty one.
Recall(p) ==
  LET line == IF p = 0 THEN <<>> ELSE hist[p] IN
  /\ pos' = p /\ Edit(line, Len(line))
  /\ send(erase(current, cursor, 0) \o drawn(line, Len(line)))
  /\ UNCHANGED <<hist, password_mode>>

Up ==
  IF pos = 1 \/ (pos = 0 /\ hist = <<>>) THEN Bell
  ELSE Recall(IF pos = 0 THEN Len(hist) ELSE pos - 1)

Down ==
  IF pos = 0 THEN Bell ELSE Recall(IF pos = Len(hist) THEN 0 ELSE pos + 1)

\* do_commit; the personality answers with a new line on the terminal, and asks for a
\* password after a name.
Commit ==
  /\ LET blank == \A i \in DOMAIN current : current[i] = Blank IN
     /\ ~blank => Len(hist) < MaxHistory
     /\ hist' = IF blank THEN hist ELSE Append(hist, current)
  /\ Edit(<<>>, 0) /\ pos' = 0
  /\ password_mode' \in BOOLEAN
  /\ shown' = <<>> /\ column' = 0

Next ==
  \/ Insert \/ Backspace \/ Delete \/ Move \/ KillWord \/ KillRest \/ Up \/ Down
  \/ Commit

Spec == Init /\ [][Next]_vars

-----------------------------------------------------------------------------
\* The terminal shows the line, stars for a password, with nothing left of what was
\* there before, and its cursor is where the next character goes.
ScreenShowsLine ==
  /\ column = cursor
  /\ Padded(shown, Len(current)) = Padded(Visible(current), Len(shown))
=============================================================================
