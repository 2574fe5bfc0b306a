--------------------------- MODULE ProgressStream ---------------------------
(***************************************************************************)
(* Progress events of the operations of a project (services/sse.py):       *)
(* publications reach the streams that are subscribed to the channel at    *)
(* that moment, and each stream yields what has reached it until an event  *)
(* whose status says that the operation has ended.  The empty reads of the *)
(* polling loop and its keepalives change nothing; the reads never wait,   *)
(* so that the timeouts of the loop are never reached.                     *)
(***************************************************************************)
EXTENDS Naturals, Sequences, SequencesExt

CONSTANTS
  Streams,
  Operations,     \* pairs of a project and an operation id
  MaxEvents       \* publications to one channel, at most

ASSUME StreamAssumption == MaxEvents \in Nat

VARIABLES
  sseReady,    \* sse_service is set
  published,   \* channel -> the events published, in order
  streamAt,    \* idle, opening, open or closing
  streamOf,    \* the operation a stream follows
  streamFrom,  \* number of events published when it was subscribed
  inbox,       \* events that have reached its pubsub
  yielded      \* what it has yielded

streamVars == <<sseReady, published, streamAt, streamOf, streamFrom, inbox, yielded>>

EventKinds == {"progress", "final"}   \* completed, failed and cancelled are final
Final(e) == e.kind = "final"

\* mutant: the operation is left out of the name
SharedChannel(o) == "progress"

\* channel_name; the same operation of another project has another channel
Channel(o) == o
Channels == {Channel(o) : o \in Operations}

-----------------------------------------------------------------------------
InitializesSse ==
  /\ ~ sseReady
  /\ sseReady' = TRUE
  /\ UNCHANGED <<published, streamAt, streamOf, streamFrom, inbox, yielded>>

OpensStream(s, o) ==
  /\ sseReady
  /\ streamAt[s] = "idle"
  /\ streamAt' = [streamAt EXCEPT ![s] = "opening"]
  /\ streamOf' = [streamOf EXCEPT ![s] = o]
  /\ inbox' = [inbox EXCEPT ![s] = <<>>]
  /\ yielded' = [yielded EXCEPT ![s] = <<>>]
  /\ UNCHANGED <<sseReady, published, streamFrom>>

Subscribes(s) ==
  /\ streamAt[s] = "opening"
  /\ streamAt' = [streamAt EXCEPT ![s] = "open"]
  /\ streamFrom' = [streamFrom EXCEPT ![s] = Len(published[Channel(streamOf[s])])]
  /\ UNCHANGED <<sseReady, published, streamOf, inbox, yielded>>

\* PUBLISH: Redis hands the event to those subscribed now, to nobody later.
PublishesEvent(o, kind) ==
  LET e == [of |-> o, number |-> Len(published[Channel(o)]) + 1, kind |-> kind]
      hears(s) == streamAt[s] \in {"open", "closing"} /\ Channel(streamOf[s]) = Channel(o)
  IN
  /\ sseReady
  /\ Len(published[Channel(o)]) < MaxEvents
  /\ published' = [published EXCEPT ![Channel(o)] = Append(@, e)]
  /\ inbox' = [s \in Streams |-> IF hears(s) THEN Append(inbox[s], e) ELSE inbox[s]]
  /\ UNCHANGED <<sseReady, streamAt, streamOf, streamFrom, yielded>>

\* mutant: the stream goes on after the last event
KeepsOpen(e) == "open"

AfterEvent(e) == IF Final(e) THEN "closing" ELSE "open"

YieldsEvent(s) ==
  /\ streamAt[s] = "open" /\ inbox[s] # <<>>
  /\ yielded' = [yielded EXCEPT ![s] = Append(@, Head(inbox[s]))]
  /\ inbox' = [inbox EXCEPT ![s] = Tail(@)]
  /\ streamAt' = [streamAt EXCEPT ![s] = AfterEvent(Head(inbox[s]))]
  /\ UNCHANGED <<sseReady, published, streamOf, streamFrom>>

\* The reader goes away, or Redis fails; what has arrived is not yielded.
StreamBreaks(s) ==
  /\ streamAt[s] \in {"opening", "open"}
  /\ streamAt' = [streamAt EXCEPT ![s] = "closing"]
  /\ UNCHANGED <<sseReady, published, streamOf, streamFrom, inbox, yielded>>

\* finally: an error of the unsubscription is only logged.
Unsubscribes(s) ==
  /\ streamAt[s] = "closing"
  /\ streamAt' = [streamAt EXCEPT ![s] = "idle"]
  /\ inbox' = [inbox EXCEPT ![s] = <<>>]
  /\ UNCHANGED <<sseReady, published, streamOf, streamFrom, yielded>>

StreamInit ==
  /\ sseReady = FALSE
  /\ published = [c \in Channels |-> <<>>]
  /\ streamAt = [s \in Streams |-> "idle"]
  /\ streamOf \in {[s \in Streams |-> o] : o \in Operations}
  /\ streamFrom = [s \in Streams |-> 0]
  /\ inbox = [s \in Streams |-> <<>>]
  /\ yielded = [s \in Streams |-> <<>>]

StreamNext ==
  \/ InitializesSse
  \/ \E s \in Streams :
       \/ \E o \in Operations : OpensStream(s, o)
       \/ Subscribes(s) \/ YieldsEvent(s) \/ StreamBreaks(s) \/ Unsubscribes(s)
  \/ \E o \in Operations, kind \in EventKinds : PublishesEvent(o, kind)

StreamSpec == StreamInit /\ [][StreamNext]_streamVars
-----------------------------------------------------------------------------
\* Every variable keeps its type, and only a subscribed stream receives.
StreamTypeOK ==
  LET Events == [of : Operations, number : 1..MaxEvents, kind : EventKinds] IN
  /\ sseReady \in BOOLEAN
  /\ published \in [Channels -> Seq(Events)]
  /\ streamAt \in [Streams -> {"idle", "opening", "open", "closing"}]
  /\ streamOf \in [Streams -> Operations]
  /\ streamFrom \in [Streams -> 0..MaxEvents]
  /\ inbox \in [Streams -> Seq(Events)]
  /\ yielded \in [Streams -> Seq(Events)]
  /\ \A s \in Streams : inbox[s] # <<>> => streamAt[s] \in {"open", "closing"}

\* What a stream yields is what was published for its operation from the
\* moment of its subscription on, in order and without a gap, up to the first
\* event that ends the operation, and nothing after that one.
YieldsARun ==
  \A s \in Streams :
    LET got == yielded[s]
        all == published[Channel(streamOf[s])]
    IN
    /\ streamAt[s] = "open" =>
         got \o inbox[s] = SubSeq(all, streamFrom[s] + 1, Len(all))
    /\ IsPrefix(got, SubSeq(all, streamFrom[s] + 1, Len(all)))
    /\ \A i \in 1..Len(got) : got[i].of = streamOf[s] /\ (Final(got[i]) => i = Len(got))
=============================================================================
