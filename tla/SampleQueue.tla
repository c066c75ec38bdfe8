---------------------------- MODULE SampleQueue -----------------------------
(***************************************************************************)
(* What the sample ring between the feeder and the realtime callback       *)
(* promises: a bounded first-in first-out queue of samples that may refuse *)
(* the end of a block (overrun) and forget its oldest samples (trim), but  *)
(* never reorders, repeats or invents one.  Samples are numbered in the    *)
(* order in which they are offered.                                        *)
(***************************************************************************)
EXTENDS Naturals, Sequences

CONSTANTS Bound,     \* samples the queue holds at most
          Blocks     \* sizes of the blocks that are offered

VARIABLES queue,     \* numbers of the samples held, oldest first
          offered,   \* samples offered so far
          batch      \* what the last Take handed out

queueVars == <<queue, offered, batch>>

QueueInit == queue = << >> /\ offered = 0 /\ batch = << >>

(* A block of n samples is offered and its first w samples are accepted.   *)
Offer(n, w) ==
  /\ w <= n /\ Len(queue) + w <= Bound
  /\ queue' = queue \o [i \in 1 .. w |-> offered + i]
  /\ offered' = offered + n
  /\ UNCHANGED batch

(* The k oldest samples are forgotten.                                     *)
Forget(k) ==
  /\ queue' = SubSeq(queue, k + 1, Len(queue))
  /\ UNCHANGED <<offered, batch>>

(* The k oldest samples are handed out, oldest first.                      *)
Take(k) ==
  /\ batch' = SubSeq(queue, 1, k)
  /\ queue' = SubSeq(queue, k + 1, Len(queue))
  /\ UNCHANGED offered

QueueNext ==
  \/ \E n \in Blocks : \E w \in 0 .. n : Offer(n, w)
  \/ \E k \in 1 .. Len(queue) : Forget(k)
  \/ \E k \in 0 .. Len(queue) : Take(k)

QueueSpec == QueueInit /\ [][QueueNext]_queueVars
=============================================================================
