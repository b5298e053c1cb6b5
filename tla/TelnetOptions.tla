--------------------------- MODULE TelnetOptions ----------------------------
(***************************************************************************)
(* Option negotiation of POX's telnet server (pox/misc/telnetd): the       *)
(* parser of TelnetHandler and the Q method of QTelnetHandler, for one     *)
(* option.  The stream of the client arrives in pieces that are cut        *)
(* anywhere.  The client is one that follows RFC 1143: it handles what it  *)
(* gets as QTelnetHandler does, and may refuse to enable.                  *)
(*                                                                         *)
(* Each call of a _state_ function is a step of the model.                 *)
(***************************************************************************)
EXTENDS Integers, Sequences, SequencesExt

CONSTANTS MaxAsks,   \* bounds: changes of mind of both sides,
          MaxNoise   \* and other things that the client sends

Verbs == {"WILL", "WONT", "DO", "DONT"}

VARIABLES
  opts,      \* for each side and each of us and him: [state, q], as RFC 1143 has it
  willing,   \* what the client agrees to enable
  toClient,  \* verbs that are on their way
  toServer,  \* bytes that are on their way
  buf,       \* TelnetHandler.__buf
  parser,    \* _cur_state
  running,   \* _process is at work
  said, heard,  \* verbs that the client sent, and that were handled
  asks, noise

vars == <<opts, willing, toClient, toServer, buf, parser, running, said, heard, asks, noise>>

Idle(d) == [state |-> d, q |-> "EMPTY"]

Init ==
  /\ opts = [side \in {"server", "client"} |-> [who \in {"us", "him"} |-> Idle("NO")]]
  /\ willing \in SUBSET {"us", "him"}
  /\ toClient = <<>> /\ toServer = <<>>
  /\ buf = <<>> /\ parser = "default" /\ running = FALSE
  /\ said = <<>> /\ heard = <<>>
  /\ asks = 0 /\ noise = 0

-----------------------------------------------------------------------------
(* QTelnetHandler.  A verb is positive or negative, about us or about him; *)
(* each operator gives the new state of the option and the verbs to send.  *)

About(verb) == IF verb \in {"DO", "DONT"} THEN "us" ELSE "him"
Yes(who) == IF who = "us" THEN "WILL" ELSE "DO"
No(who) == IF who = "us" THEN "WONT" ELSE "DONT"
Now(d, send) == [opt |-> d, send |-> send]

\* Mutant: a wish that was queued is taken for granted.
TakesWish(d, who, can) ==
  CASE d.state = "NO" -> IF can THEN Now(Idle("YES"), <<Yes(who)>>) ELSE Now(d, <<No(who)>>)
    [] d.state \in {"YES", "WANTNO"} -> Now(Idle("YES"), <<>>)
    [] d.state = "WANTYES" -> Now(Idle(IF d.q = "EMPTY" THEN "YES" ELSE "NO"), <<>>)

\* _handle_will, _handle_do
_handle_positive(d, who, can) ==
  CASE d.state = "NO" -> IF can THEN Now(Idle("YES"), <<Yes(who)>>) ELSE Now(d, <<No(who)>>)
    [] d.state = "YES" -> Now(d, <<>>)
    [] d.state = "WANTNO" -> Now(Idle(IF d.q = "EMPTY" THEN "NO" ELSE "YES"), <<>>)
    [] d.state = "WANTYES" -> IF d.q = "EMPTY" THEN Now(Idle("YES"), <<>>)
                              ELSE Now(Idle("WANTNO"), <<No(who)>>)

\* _handle_wont, _handle_dont, where the option may be disabled.
_handle_negative(d, who) ==
  CASE d.state = "NO" -> Now(d, <<>>)
    [] d.state = "YES" -> Now(Idle("NO"), <<No(who)>>)
    [] d.state = "WANTNO" -> IF d.q = "EMPTY" THEN Now(Idle("NO"), <<>>)
                             ELSE Now(Idle("WANTYES"), <<Yes(who)>>)
    [] d.state = "WANTYES" -> Now(Idle("NO"), <<>>)

\* _ask_for, _ask_to
_ask(d, who) ==
  CASE d.state = "NO" -> Now(Idle("WANTYES"), <<Yes(who)>>)
    [] d.state = "WANTNO" -> Now([d EXCEPT !.q = "OPPOSITE"], <<>>)
    [] OTHER -> Now([d EXCEPT !.q = "EMPTY"], <<>>)

\* _ask_for_not, _ask_to_not
_ask_not(d, who) ==
  CASE d.state = "YES" -> Now(Idle("WANTNO"), <<No(who)>>)
    [] d.state = "WANTYES" -> Now([d EXCEPT !.q = "OPPOSITE"], <<>>)
    [] OTHER -> Now([d EXCEPT !.q = "EMPTY"], <<>>)

Handled(side, verb, can) ==
  LET who == About(verb)
      d == opts[side][who]
  IN IF verb \in {"WILL", "DO"} THEN _handle_positive(d, who, can) ELSE _handle_negative(d, who)
Wished(side, who, yes) ==
  IF yes THEN _ask(opts[side][who], who) ELSE _ask_not(opts[side][who], who)

-----------------------------------------------------------------------------
(* The server's parser.                                                    *)

Bytes(verbs) == FlattenSeq([i \in 1..Len(verbs) |-> <<"IAC", verbs[i], "opt">>])

Set(side, who, now) == opts' = [opts EXCEPT ![side][who] = now.opt]
ServerSends(verbs) == toClient' = toClient \o verbs

\* _handle_rx, push: a piece of the stream comes in.
push ==
  /\ ~running /\ running' = TRUE
  /\ \E n \in 1..Len(toServer) :
       /\ buf' = buf \o SubSeq(toServer, 1, n)
       /\ toServer' = SubSeq(toServer, n + 1, Len(toServer))
  /\ UNCHANGED <<opts, willing, toClient, parser, said, heard, asks, noise>>

Where(c) == {i \in DOMAIN buf : buf[i] = c}
After(n) == SubSeq(buf, n + 1, Len(buf))

\* Text in front of a command is read and goes nowhere.
_state_default ==
  /\ running /\ parser = "default"
  /\ IF "IAC" \in ToSet(buf)
     THEN LET i == CHOOSE i \in Where("IAC") : \A j \in Where("IAC") : i <= j
          IN buf' = After(i) /\ parser' = "iac" /\ UNCHANGED running
     ELSE buf' = <<>> /\ running' = FALSE /\ UNCHANGED parser
  /\ UNCHANGED <<opts, willing, toClient, toServer, said, heard, asks, noise>>

Unread(verb, rest) == <<verb>> \o rest

_state_iac ==
  /\ running /\ parser = "iac"
  /\ IF buf = <<>> THEN running' = FALSE /\ UNCHANGED <<opts, toClient, buf, parser, heard>>
     ELSE IF Head(buf) \notin Verbs
     THEN /\ buf' = Tail(buf)
          /\ parser' = IF Head(buf) = "SB" THEN "sb" ELSE "default"
          /\ UNCHANGED <<opts, toClient, heard, running>>
     ELSE IF Len(buf) = 1
     THEN buf' = Unread(Head(buf), Tail(buf)) /\ running' = FALSE /\ UNCHANGED <<opts, toClient, parser, heard>>
     ELSE LET verb == Head(buf)
              now == Handled("server", verb, TRUE)
          IN /\ buf' = After(2) /\ parser' = "default"
             /\ heard' = Append(heard, verb)
             /\ Set("server", About(verb), now) /\ ServerSends(now.send)
             /\ UNCHANGED running
  /\ UNCHANGED <<willing, toServer, said, asks, noise>>

\* The end of the subnegotiation at the front of the buffer, 0 while there is none: two
\* IACs stand for a byte, so that an odd number of them comes before the SE.
EndOfSb ==
  LET IsEnd(i) ==
        /\ buf[i] = "SE"
        /\ \E n \in 1..(i - 1) :
             /\ n % 2 = 1 /\ \A j \in (i - n)..(i - 1) : buf[j] = "IAC"
             /\ i - n > 1 => buf[i - n - 1] # "IAC"
      ends == {i \in DOMAIN buf : IsEnd(i)}
  IN IF ends = {} THEN 0 ELSE CHOOSE i \in ends : \A j \in ends : i <= j

_state_sb ==
  /\ running /\ parser = "sb"
  /\ IF EndOfSb = 0 THEN running' = FALSE /\ UNCHANGED <<buf, parser>>
     ELSE buf' = After(EndOfSb) /\ parser' = "default" /\ UNCHANGED running
  /\ UNCHANGED <<opts, willing, toClient, toServer, said, heard, asks, noise>>

\* startup, or any code of the server: it is not at work on what came in.
ServerAsks ==
  /\ ~running /\ asks < MaxAsks /\ asks' = asks + 1
  /\ \E who \in {"us", "him"}, yes \in BOOLEAN :
       LET now == Wished("server", who, yes) IN
       /\ Set("server", who, now) /\ ServerSends(now.send)
  /\ UNCHANGED <<willing, toServer, buf, parser, running, said, heard, noise>>

-----------------------------------------------------------------------------
(* The client.                                                             *)

ClientSends(verbs) == toServer' = toServer \o Bytes(verbs) /\ said' = said \o verbs

ClientHandles ==
  /\ toClient # <<>> /\ toClient' = Tail(toClient)
  /\ LET verb == Head(toClient)
         now == Handled("client", verb, About(verb) \in willing)
     IN Set("client", About(verb), now) /\ ClientSends(now.send)
  /\ UNCHANGED <<willing, buf, parser, running, heard, asks, noise>>

ClientAsks ==
  /\ asks < MaxAsks /\ asks' = asks + 1
  /\ \E who \in {"us", "him"}, yes \in BOOLEAN :
       LET now == Wished("client", who, yes) IN
       /\ yes => who \in willing
       /\ Set("client", who, now) /\ ClientSends(now.send)
  /\ UNCHANGED <<willing, toClient, buf, parser, running, heard, noise>>

\* Text, a byte 255 in the text, NOP, and the answer about the terminal's type.
ClientTypes ==
  /\ noise < MaxNoise /\ noise' = noise + 1
  /\ \E bytes \in {<<"text">>, <<"IAC", "IAC">>, <<"IAC", "NOP">>,
                   <<"IAC", "SB", "IAC", "IAC", "SE", "IAC", "SE">>} :
       toServer' = toServer \o bytes
  /\ UNCHANGED <<opts, willing, toClient, buf, parser, running, said, heard, asks>>

Next ==
  \/ push \/ _state_default \/ _state_iac \/ _state_sb
  \/ ServerAsks \/ ClientHandles \/ ClientAsks \/ ClientTypes

Spec == Init /\ [][Next]_vars

-----------------------------------------------------------------------------
\* What the client negotiates is handled in its order, each verb once, wherever
\* the stream is cut and whatever is between: what was not handled yet is still
\* on its way.
Quiet == toClient = <<>> /\ toServer = <<>> /\ ~running /\ buf = <<>>
HeardInOrder == IsPrefix(heard, said) /\ (Quiet => heard = said)

\* "To not cause loops", the Q method queues at most one wish.  When nothing is on
\* its way any more both sides know the same about the option, in both directions,
\* and no wish is left, however the requests of both sides crossed.
SidesAgree ==
  Quiet => /\ opts["server"]["him"] = opts["client"]["us"]
           /\ opts["server"]["us"] = opts["client"]["him"]
           /\ \A who \in {"us", "him"} : opts["server"][who] \in {Idle("YES"), Idle("NO")}
=============================================================================
