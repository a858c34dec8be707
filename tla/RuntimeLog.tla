----------------------------- MODULE RuntimeLog -----------------------------
(***************************************************************************)
(* What the SDD runtime ledger promises its clients, whatever fails under  *)
(* it: the requests that took effect form one sequence, each at most once, *)
(* and what a client was told is settled is never lost or reordered.  The  *)
(* package promises it in the comments of RuntimeStore ("one immutable     *)
(* chain"), RuntimePublicationError ("the exact request is safe to         *)
(* replay") and Reset ("without deleting its immutable attempts").         *)
(***************************************************************************)
EXTENDS Naturals, Sequences

CONSTANTS
  Request,  \* what a client may ask
  IdOf(_)   \* the identifier a request carries

VARIABLES
  log,      \* the requests that took effect, in order
  settled   \* how many of them some client was told of

Init == log = <<>> /\ settled = 0

\* A request takes effect once: its identifier is not in the log.
TakeEffect ==
  /\ Len(log') = Len(log) + 1
  /\ SubSeq(log', 1, Len(log)) = log
  /\ LET r == log'[Len(log')]
     IN  /\ r \in Request
         /\ \A n \in 1 .. Len(log) : IdOf(log[n]) # IdOf(r)
  /\ UNCHANGED settled

Settle ==
  /\ settled' \in settled .. Len(log)
  /\ UNCHANGED log

\* A power loss may take what nobody was told of.
Lose ==
  /\ Len(log') \in settled .. Len(log)
  /\ log' = SubSeq(log, 1, Len(log'))
  /\ UNCHANGED settled

Next == TakeEffect \/ Settle \/ Lose

Spec == Init /\ [][Next]_<<log, settled>>

=============================================================================
