----------------------------- MODULE ByteStream -----------------------------
(***************************************************************************)
(* What a relay promises about one direction of a tunnel: the destination  *)
(* gets a prefix of what the source sent, and it is told of the end only   *)
(* after the last byte, unless the stream broke.                           *)
(***************************************************************************)
EXTENDS Naturals

VARIABLES
  sent,    \* bytes the source has sent
  fin,     \* it has shut down its side
  put,     \* bytes handed to the destination
  eof,     \* the destination was told that no more will come
  broken   \* an end was reset, or the stream was torn down from outside

vars == <<sent, fin, put, eof, broken>>

Init == sent = 0 /\ fin = FALSE /\ put = 0 /\ eof = FALSE /\ broken = FALSE

Send == ~fin /\ sent' = sent + 1 /\ UNCHANGED <<fin, put, eof, broken>>

Finish == fin' = TRUE /\ UNCHANGED <<sent, put, eof, broken>>

Deliver ==
  /\ ~eof
  /\ put' \in Nat /\ put < put' /\ put' <= sent
  /\ UNCHANGED <<sent, fin, eof, broken>>

End ==
  /\ broken' \/ (fin /\ put = sent)
  /\ eof' = TRUE
  /\ broken' \in BOOLEAN /\ (broken => broken')
  /\ UNCHANGED <<sent, fin, put>>

Break == broken' = TRUE /\ UNCHANGED <<sent, fin, put, eof>>

Next == Send \/ Finish \/ Deliver \/ End \/ Break

Spec == Init /\ [][Next]_vars
=============================================================================
