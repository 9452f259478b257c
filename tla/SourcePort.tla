------------------------------ MODULE SourcePort ------------------------------
(***************************************************************************)
(* What the two providers have in common, the state SourceContract speaks   *)
(* of, and the bound on what may go wrong.                                  *)
(***************************************************************************)
EXTENDS Integers

CONSTANTS
  Source,   \* notebooks, or canonical URLs
  Hash,     \* content hashes
  MaxChanges, \* bound on the changes of titles and pages
  MaxFaults \* bound on failures, cancellations and restarts

ASSUME PortAssumption == MaxChanges \in Nat /\ MaxFaults \in Nat

VARIABLES
  published, \* what each source has said so far
  changes,   \* how often one said something new
  described, \* SourceDescriptors of inspect, kept by the checkpoints of runs
  delivered, \* the sources and hashes of EvidenceBatches
  faults

environment == <<published, changes>>
portVars == <<environment, described, delivered, faults>>

PortTypeOK ==
  /\ published \subseteq Source \X Hash
  /\ changes \in 0 .. MaxChanges
  /\ described \subseteq Source \X Hash
  /\ delivered \subseteq Source \X Hash
  /\ faults \in 0 .. MaxFaults

PortInit ==
  /\ changes = 0
  /\ described = {}
  /\ delivered = {}
  /\ faults = 0

Change ==
  /\ changes < MaxChanges
  /\ changes' = changes + 1

Publish(source, hash) == published' = published \cup {<<source, hash>>}

(* inspect returns a descriptor.                                           *)
Describe(source, hash) ==
  /\ described' = described \cup {<<source, hash>>}
  /\ UNCHANGED delivered

(* acquire returns a batch.                                                *)
Deliver(source, hash) ==
  /\ delivered' = delivered \cup {<<source, hash>>}
  /\ UNCHANGED described

Answerless == UNCHANGED <<described, delivered>>

Fault ==
  /\ faults < MaxFaults
  /\ faults' = faults + 1

Contract == INSTANCE SourceContract

(* Providers keep their promise: a late answer, a changed page, a restart   *)
(* or a failed call never makes one describe a source by what it did not    *)
(* say, or deliver evidence for what was not described.                    *)
ImplementsSource == Contract!Spec

=============================================================================
