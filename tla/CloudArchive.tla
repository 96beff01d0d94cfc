---------------------------- MODULE CloudArchive ----------------------------
(***************************************************************************)
(* What the cloud receiver promises the device it archives for: it stores  *)
(* the events in their order, each once and for good, takes an audio chunk *)
(* only after the event that describes it, acknowledges only what it has,  *)
(* and loses no chunk it has acknowledged before it has been retired.      *)
(*                                                                         *)
(* CloudReceiver implements this specification; see Archive there.         *)
(***************************************************************************)
EXTENDS Naturals, Sequences, Functions

CONSTANTS
  Chunk,          \* the audio chunks
  Local           \* what each event of the device is: a chunk or "text"

VARIABLES
  stored,         \* the events the archive holds
  whole,          \* the chunks it holds
  ackedEvents,    \* the events it has acknowledged
  ackedAudio      \* the chunks it has acknowledged, without the retired ones

vars == <<stored, whole, ackedEvents, ackedAudio>>

Init == stored = <<>> /\ whole = {} /\ ackedEvents = {} /\ ackedAudio = {}

Store ==
  /\ Len(stored) < Len(Local)
  /\ LET next == Len(stored) + 1 IN
       stored' = Append(stored, [cursor |-> next, kind |-> Local[next]])
  /\ UNCHANGED <<whole, ackedEvents, ackedAudio>>

AcknowledgeEvent(e) ==
  /\ e \in Range(stored)
  /\ ackedEvents' = ackedEvents \cup {e}
  /\ UNCHANGED <<stored, whole, ackedAudio>>

StoreAudio(c) ==
  /\ \E e \in Range(stored) : e.kind = c
  /\ whole' = whole \cup {c}
  /\ UNCHANGED <<stored, ackedEvents, ackedAudio>>

AcknowledgeAudio(c) ==
  /\ c \in whole
  /\ ackedAudio' = ackedAudio \cup {c}
  /\ UNCHANGED <<stored, whole, ackedEvents>>

Retire(cs) ==
  /\ cs \subseteq whole
  /\ ackedAudio' = ackedAudio \ cs
  /\ UNCHANGED <<stored, whole, ackedEvents>>

LoseAudio(c) ==
  /\ c \notin ackedAudio
  /\ whole' = whole \ {c}
  /\ UNCHANGED <<stored, ackedEvents, ackedAudio>>

Next ==
  \/ Store
  \/ \E e \in Range(stored) : AcknowledgeEvent(e)
  \/ \E c \in Chunk : StoreAudio(c) \/ AcknowledgeAudio(c) \/ LoseAudio(c)
  \/ \E cs \in SUBSET Chunk : Retire(cs)

Spec == Init /\ [][Next]_vars

=============================================================================
