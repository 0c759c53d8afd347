-------------------------------- MODULE Pipe --------------------------------
(***************************************************************************)
(* What one direction of a relayed stream promises, as a TCP connection    *)
(* would: what is read is what was written, in order and with no gap; the  *)
(* end is read only after all of it; an error may come at any time, and    *)
(* nothing is written after the end or read after either.                  *)
(***************************************************************************)
EXTENDS Naturals, Sequences

VARIABLES
  sent,    \* how much has been written: 1, 2, ... sent
  closed,  \* the writer has closed its side
  got,     \* what has been read
  end      \* how reading ended: "open", "eof", "error"

vars == <<sent, closed, got, end>>

Init == sent = 0 /\ closed = FALSE /\ got = <<>> /\ end = "open"

Write ==
  /\ ~closed
  /\ sent' = sent + 1
  /\ UNCHANGED <<closed, got, end>>

CloseWrite ==
  /\ closed' = TRUE
  /\ UNCHANGED <<sent, got, end>>

Read ==
  /\ end = "open" /\ Len(got) < sent
  /\ got' = Append(got, Len(got) + 1)
  /\ UNCHANGED <<sent, closed, end>>

ReadEnd ==
  /\ end = "open" /\ closed /\ Len(got) = sent
  /\ end' = "eof"
  /\ UNCHANGED <<sent, closed, got>>

Break ==
  /\ end = "open"
  /\ end' = "error"
  /\ UNCHANGED <<sent, closed, got>>

Next == Write \/ CloseWrite \/ Read \/ ReadEnd \/ Break

Spec == Init /\ [][Next]_vars
=============================================================================
