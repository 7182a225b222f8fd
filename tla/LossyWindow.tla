---------------------------- MODULE LossyWindow ----------------------------
(***************************************************************************)
(* What a bounded publisher promises each of its subscribers, with no      *)
(* queues, counters, locks or threads: publications are numbered 1, 2, ... *)
(* and a subscriber holds a window (low, high] of that numbering.  The     *)
(* window's upper edge takes every publication in turn, its lower edge     *)
(* moves when the subscriber receives the oldest publication of the window *)
(* or, only when the window is full, loses it.                             *)
(***************************************************************************)
EXTENDS Naturals, Sequences

CONSTANTS
  Subscriptions, \* the subscriptions that may be created
  QueueCapacity  \* the widest window

VARIABLES
  published, \* how many publications there have been
  phase,     \* phase[s]: not yet joined, open, or closed
  low,       \* low[s]: every publication up to this one is settled
  high,      \* high[s]: the last publication offered to s
  received   \* received[s]: the publications s was given, in order

wvars == <<published, phase, low, high, received>>

Phases == {"none", "open", "closed"}

WInit ==
  /\ published = 0
  /\ phase = [s \in Subscriptions |-> "none"]
  /\ low = [s \in Subscriptions |-> 0]
  /\ high = [s \in Subscriptions |-> 0]
  /\ received = [s \in Subscriptions |-> <<>>]

\* Number the next publication; no subscriber can delay or refuse it once
\* everyone who is open has been offered the one before.
Number ==
  /\ \A s \in Subscriptions : phase[s] = "open" => high[s] = published
  /\ published' = published + 1
  /\ UNCHANGED <<phase, low, high, received>>

\* A subscription starts after the publications that precede it.
Join(s) ==
  /\ phase[s] = "none"
  /\ phase' = [phase EXCEPT ![s] = "open"]
  /\ low' = [low EXCEPT ![s] = published]
  /\ high' = [high EXCEPT ![s] = published]
  /\ UNCHANGED <<published, received>>

\* The oldest publication is lost exactly when there is no room.
Offer(s) ==
  /\ phase[s] = "open"
  /\ high[s] < published
  /\ high' = [high EXCEPT ![s] = @ + 1]
  /\ low' = [low EXCEPT ![s] = IF high[s] - low[s] >= QueueCapacity THEN @ + 1 ELSE @]
  /\ UNCHANGED <<published, phase, received>>

Receive(s) ==
  /\ phase[s] = "open"
  /\ low[s] < high[s]
  /\ received' = [received EXCEPT ![s] = Append(@, low[s] + 1)]
  /\ low' = [low EXCEPT ![s] = @ + 1]
  /\ UNCHANGED <<published, phase, high>>

\* Closing discards the window: nothing is received afterwards.
Leave(s) ==
  /\ phase[s] = "open"
  /\ phase' = [phase EXCEPT ![s] = "closed"]
  /\ high' = [high EXCEPT ![s] = low[s]]
  /\ UNCHANGED <<published, low, received>>

WNext ==
  \/ Number
  \/ \E s \in Subscriptions : Join(s) \/ Offer(s) \/ Receive(s) \/ Leave(s)

WSpec == WInit /\ [][WNext]_wvars
=============================================================================
