------------------------------- MODULE Messages -------------------------------
(***************************************************************************)
(* Preparation/information.c: a producer and a consumer that exchange N    *)
(* messages and share no memory.  send and receive are external: messages  *)
(* wait in order in a mailbox, and receive waits for one.                  *)
(***************************************************************************)
EXTENDS Slots

VARIABLES toProducer,    \* empty messages waiting for the producer
          toConsumer,    \* the items in the messages waiting for the consumer
          i,             \* empty messages sent at the start
          made, used,    \* the last item sent and the last extracted
          ppc, cpc

vars == <<toProducer, toConsumer, i, made, used, ppc, cpc>>

Init == /\ toProducer = 0 /\ toConsumer = <<>> /\ i = 0 /\ made = 0 /\ used = 0
        /\ ppc = "receive" /\ cpc = "start"

PReceive == /\ made < MaxItems /\ ppc = "receive" /\ ppc' = "send"
            /\ toProducer > 0 /\ toProducer' = toProducer - 1
            /\ UNCHANGED <<toConsumer, i, made, used, cpc>>
PSend    == /\ ppc = "send" /\ ppc' = "receive"
            /\ made' = made + 1 /\ toConsumer' = Append(toConsumer, made')
            /\ UNCHANGED <<toProducer, i, used, cpc>>

SendEmpties == /\ cpc = "start" /\ cpc' = IF i + 1 = N THEN "receive" ELSE "start"
               /\ i' = i + 1 /\ toProducer' = toProducer + 1
               /\ UNCHANGED <<toConsumer, made, used, ppc>>
CReceive == /\ cpc = "receive" /\ cpc' = "send" /\ toConsumer # <<>>
            /\ used' = Head(toConsumer) /\ toConsumer' = Tail(toConsumer)
            /\ UNCHANGED <<toProducer, i, made, ppc>>
CSend    == /\ cpc = "send" /\ cpc' = "receive" /\ toProducer' = toProducer + 1
            /\ UNCHANGED <<toConsumer, i, made, used, ppc>>

Producer == PReceive \/ PSend
Consumer == SendEmpties \/ CReceive \/ CSend
Next     == Producer \/ Consumer

\* No message is made or lost: each waits in a mailbox or is in a process's hands.
Conserved == toProducer + Len(toConsumer) + (IF ppc = "send" THEN 1 ELSE 0)
               + (IF cpc = "send" THEN 1 ELSE 0) = i /\ i <= N
Typed == /\ toProducer \in Nat /\ toConsumer \in Seq(Nat) /\ i \in Nat
         /\ made \in Nat /\ used \in Nat
         /\ ppc \in {"receive", "send"} /\ cpc \in {"start", "receive", "send"}
Inv == Typed /\ Conserved /\ (cpc = "start" => i < N)
=============================================================================
