----------------------------- MODULE WindowLog -----------------------------
(***************************************************************************)
(* What the logs of a replica promise (the Effects clauses of Log.h and    *)
(* checkpoint_log.h): a table of certificates indexed by sequence number   *)
(* that covers the window [head, head + Span] and forgets everything below *)
(* its head.  The coded logs are rings of a fixed number of elements;      *)
(* AgreementStore and CheckpointStore are shown to implement this          *)
(* specification.                                                          *)
(***************************************************************************)
EXTENDS Integers

CONSTANTS
  Seqnos,    \* the sequence numbers considered
  Heads,     \* those that may become the head of the log
  First,     \* the head of a new log
  Span       \* the last sequence number in the window is head + Span

VARIABLES
  whead,     \* the head of the log
  filled     \* the sequence numbers whose certificate is not empty

wvars == <<whead, filled>>

WInit == whead = First /\ filled = {}

(* The certificate of n is fetched and a message is added to it. *)
WStore(n) ==
  /\ whead <= n /\ n <= whead + Span
  /\ filled' = filled \cup {n}
  /\ UNCHANGED whead

(* The certificate of n is emptied. *)
WDrop(n) == filled' = filled \ {n} /\ UNCHANGED whead

(* truncate(h): clears all elements with a sequence number lower than h. *)
WTruncate(h) ==
  /\ whead < h
  /\ whead' = h
  /\ filled' = {n \in filled : n >= h}

(* clear(h): clears all elements and sets head to h. *)
WClear(h) == whead' = h /\ filled' = {}

WNext ==
  \/ \E n \in Seqnos : WStore(n) \/ WDrop(n)
  \/ \E h \in Heads : WTruncate(h) \/ WClear(h)

WSpec == WInit /\ [][WNext]_wvars
=============================================================================
