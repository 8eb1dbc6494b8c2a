-------------------------- MODULE ClientInvariants --------------------------
(***************************************************************************)
(* The inductive invariant of IMClient: what is on the connection, what is *)
(* about to be written and what the terminal holds fit together.           *)
(***************************************************************************)
EXTENDS IMClient

IsText(t) == t.kind = "text"

\* The line of whatever is typed after the chunk c.
LineAfter(c) == IF c.last THEN c.line + 1 ELSE c.line

\* Chunks wait in the order they were typed, numbered without a gap.
TerminalInv ==
  /\ Len(tty) <= typed
  /\ \A i \in DOMAIN tty : tty[i].n = typed - Len(tty) + i
  /\ \A i \in DOMAIN tty :
       LineAfter(tty[i]) = IF i < Len(tty) THEN tty[i + 1].line ELSE line
  /\ \A i \in DOMAIN tty : tty[i].kind = "eof" => ~tty[i].last

\* The line that the next chunk from the terminal belongs to; how many were taken.
NextLine == IF tty = <<>> THEN line ELSE tty[1].line
Taken == typed - Len(tty)

\* Tokens that the server can take apart: line by line, chunk by chunk, every text with its
\* own address or right behind a prefix.
WellFormed(s) ==
  /\ \A i, j \in DOMAIN s : i < j /\ IsText(s[i]) /\ IsText(s[j]) =>
       (\A k \in i..(j - 1) : ~s[k].last) <=> s[i].line = s[j].line
  /\ \A j \in DOMAIN s : \A n \in 1..(s[j].n - 1) : \E i \in 1..(j - 1) : s[i].n = n
  /\ \A i \in DOMAIN s : IsText(s[i]) /\ ~s[i].address => i > 1 /\ s[i - 1].kind = "prefix"
  /\ \A i \in DOMAIN s : s[i].kind = "prefix" =>
       ~s[i].last /\ (i < Len(s) => ~s[i + 1].address)

\* A chunk of line l, the one after the first d, may follow: the texts that no newline
\* follows are those of its line, and none of the d is missing.
Continues(s, l, d) ==
  /\ \A i \in DOMAIN s : IsText(s[i]) =>
       s[i].line <= l /\ ((\A k \in i..Len(s) : ~s[k].last) <=> s[i].line = l)
  /\ \A n \in 1..d : \E i \in DOMAIN s : s[i].n = n

\* No prefix is left without its text.
Complete(s) == s = <<>> \/ s[Len(s)].kind # "prefix"

\* Only the write has something to write; before the loop nothing was read or written.
PhaseInv ==
  /\ pc \in {"connect", "login"} => wire = <<>> /\ unread = 0 /\ typed = 0
  /\ pc # "write" => buff = <<>>
  /\ pc = "connect" => sock = "none"

\* What poll() has announced is there until it is read.
EventsInv ==
  /\ ReadsDoNotBlock
  /\ pc \in {"stdin", "write"} /\ revents.socket = "in" => news > 0 \/ sock # "up"

\* As long as the server is there, nothing that was taken from the terminal is lost.
StreamInv ==
  /\ WellFormed(wire)
  /\ sock = "up" => /\ WellFormed(wire \o buff) /\ Complete(wire \o buff)
                    /\ Continues(wire \o buff, NextLine, Taken)

ClientInv == TypeOK /\ PhaseInv /\ EventsInv /\ TerminalInv /\ StreamInv
=============================================================================
