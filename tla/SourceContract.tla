---------------------------- MODULE SourceContract ----------------------------
(***************************************************************************)
(* What a KnowledgeSourceProvider promises the graph: inspect describes a   *)
(* source by a hash of something the source did say, and acquire hands out  *)
(* evidence of a source only for a description made before.                *)
(***************************************************************************)
CONSTANTS Source, Hash

VARIABLES
  published, \* what each source has said so far, as <<source, hash>>
  described, \* the descriptions inspect returned
  delivered  \* the evidence acquire returned

Init ==
  /\ published \in SUBSET (Source \X Hash)
  /\ described = {}
  /\ delivered = {}

Publish ==
  /\ \E d \in Source \X Hash : published' = published \cup {d}
  /\ UNCHANGED <<described, delivered>>

Describe ==
  /\ \E d \in published : described' = described \cup {d}
  /\ UNCHANGED <<published, delivered>>

Deliver ==
  /\ \E d \in described : delivered' = delivered \cup {d}
  /\ UNCHANGED <<published, described>>

Next == Publish \/ Describe \/ Deliver

Spec == Init /\ [][Next]_<<published, described, delivered>>

=============================================================================
