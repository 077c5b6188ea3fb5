----------------------------- MODULE MsgChannel -----------------------------
(***************************************************************************)
(* What the messaging library promises to gogoCLIENT and its GUI, whatever *)
(* happens to the pipe between them: a message accepted for an end is      *)
(* processed by that end at most once and in the order of acceptance, or   *)
(* it is lost.  The messages of a direction are numbered as they are       *)
(* accepted; a direction is named after the end that receives.             *)
(***************************************************************************)
EXTENDS Naturals

CONSTANT Ends   \* the two processes

VARIABLES
  chan,         \* for each end, the messages on their way to it: a set, their
                \* numbers say in which order they come
  accepted,     \* for each end, the number of the last message accepted for it
  processed     \* for each end, the number of the last message it processed

channelVars == <<chan, accepted, processed>>

ChannelTypeOK ==
  /\ chan \in [Ends -> SUBSET Nat]
  /\ accepted \in [Ends -> Nat]
  /\ processed \in [Ends -> Nat]

ChannelInit ==
  /\ chan = [e \in Ends |-> {}]
  /\ accepted = [e \in Ends |-> 0]
  /\ processed = [e \in Ends |-> 0]

Accept(e) ==
  /\ accepted'[e] \in Nat /\ accepted'[e] > accepted[e]
  /\ accepted' = [accepted EXCEPT ![e] = accepted'[e]]
  /\ chan' = [chan EXCEPT ![e] = @ \cup {accepted'[e]}]
  /\ UNCHANGED processed

\* The message that was accepted first of those that are left.
Process(e) ==
  /\ \E m \in chan[e] :
       /\ \A n \in chan[e] : m <= n
       /\ processed' = [processed EXCEPT ![e] = m]
       /\ chan' = [chan EXCEPT ![e] = @ \ {m}]
  /\ UNCHANGED accepted

\* A connection that ends takes any messages of both directions with it.
Lose ==
  /\ chan' \in [Ends -> SUBSET Nat]
  /\ \A e \in Ends : chan'[e] \subseteq chan[e]
  /\ UNCHANGED <<accepted, processed>>

ChannelNext == Lose \/ \E e \in Ends : Accept(e) \/ Process(e)

ChannelSpec == ChannelInit /\ [][ChannelNext]_channelVars
=============================================================================
