--------------------------- MODULE MessageDelivery ---------------------------
(***************************************************************************)
(* What an Agent promises about the user messages it is given, whatever    *)
(* the model and the tools do: two lanes that are first in, first out and  *)
(* one courier, the active run.  A courier whose hands are empty takes     *)
(* messages from the front of one lane, delivers what it holds one by one  *)
(* and stops with empty hands.  Replies and tool results enter the         *)
(* transcript only while it holds nothing.  Only a failing run drops what  *)
(* it holds; only the owner empties a lane or the transcript.              *)
(*                                                                         *)
(* It is the contract between packages/agent/src/agent.ts and its owner.   *)
(***************************************************************************)
EXTENDS Naturals, Sequences

CONSTANT Id  \* messages are numbered in the order in which they are accepted

VARIABLES accepted, waiting, held, delivered, running

deliveryVars == << accepted, waiting, held, delivered, running >>

Lane  == {"steer", "followUp"}
Fresh == accepted + 1
Other == 0  \* an entry of the transcript that is not a user message

Init ==
    /\ accepted = 0
    /\ waiting = [lane \in Lane |-> << >>]
    /\ held = << >> /\ delivered = << >> /\ running = FALSE

Accept == Fresh \in Id /\ accepted' = Fresh

\* The first n messages of a lane go into the courier's hands.
TakeFrom(lane, n) ==
    /\ held' = SubSeq(waiting[lane], 1, n)
    /\ waiting' = [waiting EXCEPT ![lane] = SubSeq(@, n + 1, Len(@))]
    /\ UNCHANGED << accepted, delivered >>

Submit(lane) ==
    /\ Accept
    /\ waiting' = [waiting EXCEPT ![lane] = Append(@, Fresh)]
    /\ UNCHANGED << held, delivered, running >>

Start ==
    /\ ~running /\ running' = TRUE
    /\ \/ /\ Accept
          /\ held' = << Fresh >>
          /\ UNCHANGED << waiting, delivered >>
       \/ held' = << >> /\ UNCHANGED << accepted, waiting, delivered >>
       \/ \E lane \in Lane : \E n \in 1..Len(waiting[lane]) : TakeFrom(lane, n)

Take ==
    /\ running /\ held = << >>
    /\ \E lane \in Lane : \E n \in 1..Len(waiting[lane]) : TakeFrom(lane, n)
    /\ UNCHANGED running

Deliver ==
    /\ running /\ held # << >>
    /\ delivered' = Append(delivered, Head(held))
    /\ held' = Tail(held)
    /\ UNCHANGED << accepted, waiting, running >>

Answer ==
    /\ running /\ held = << >>
    /\ delivered' = Append(delivered, Other)
    /\ UNCHANGED << accepted, waiting, held, running >>

Drop ==
    /\ running /\ held # << >>
    /\ held' = << >>
    /\ UNCHANGED << accepted, waiting, delivered, running >>

Stop ==
    /\ running /\ held = << >>
    /\ running' = FALSE
    /\ UNCHANGED << accepted, waiting, held, delivered >>

Clear(lane) ==
    /\ waiting' = [waiting EXCEPT ![lane] = << >>]
    /\ UNCHANGED << accepted, held, delivered, running >>

Forget ==
    /\ waiting' = [lane \in Lane |-> << >>]
    /\ delivered' = << >>
    /\ UNCHANGED << accepted, held, running >>

Next ==
    \/ \E lane \in Lane : Submit(lane) \/ Clear(lane)
    \/ Start \/ Take \/ Deliver \/ Answer \/ Drop \/ Stop \/ Forget

Spec == Init /\ [][Next]_deliveryVars

==============================================================================
