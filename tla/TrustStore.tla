----------------------------- MODULE TrustStore -----------------------------
(***************************************************************************)
(* The identity and the trusted peers of an installation: files in the     *)
(* data directory and their copies in memory (identity/store.rs,           *)
(* identity/pairing.rs).                                                   *)
(*                                                                         *)
(* A file is created anew and then written, so a crash or a full disk may  *)
(* leave it empty or cut off.  Memory follows the disk when a peer is      *)
(* trusted and precedes it when one is removed.                            *)
(***************************************************************************)
EXTENDS Naturals, FiniteSets

CONSTANTS
  Peers,         \* nodes a pairing bundle may name
  Certificates,  \* trust anchors, told apart by their fingerprints
  Missing,       \* no file, or no entry
  Partial,       \* a file that does not parse
  MaxPeers       \* MAX_TRUSTED_PEERS

ASSUME TrustAssumption ==
  /\ Missing \notin Certificates /\ Partial \notin Certificates
  /\ Missing # Partial
  /\ MaxPeers \in Nat

VARIABLES
  credential,  \* identity.toml: "missing", "partial" or "complete"
  files,       \* the peer directory, a file per node
  identity,    \* the identity and the trust store are loaded
  trusted,     \* TrustStore.peers
  removed      \* history: nodes reported as removed and not paired since

disk == <<credential, files>>
trustVars == <<disk, identity, trusted, removed>>

None == [node \in Peers |-> Missing]
Entries(peers) == {node \in Peers : peers[node] # Missing}

(* ensure_unique_certificates                                              *)
Unique(peers) ==
  \A n, m \in Entries(peers) : peers[n] = peers[m] => n = m

(* Mutant: certificates are compared only when a peer is paired.           *)
OpensAnyCertificate ==
  /\ \A node \in Peers : files[node] # Partial
  /\ Cardinality(Entries(files)) <= MaxPeers

(* TrustStore::open reads every file or fails as a whole.                  *)
Opens ==
  /\ \A node \in Peers : files[node] # Partial
  /\ Cardinality(Entries(files)) <= MaxPeers
  /\ Unique(files)

(* A first start, or a directory that an earlier run left.                 *)
TrustInit ==
  /\ credential \in {"missing", "complete"}
  /\ files \in [Peers -> Certificates \cup {Missing}]
  /\ credential = "missing" => files = None
  /\ Opens
  /\ identity = FALSE
  /\ trusted = None
  /\ removed = {}

(* load_or_create makes the credential if there is none; then the trust    *)
(* store is opened.                                                        *)
LoadIdentity ==
  /\ ~identity
  /\ credential # "partial" /\ Opens
  /\ credential' = "complete"
  /\ identity' = TRUE
  /\ trusted' = files
  /\ UNCHANGED <<files, removed>>

(* The credential cannot be written, or the store does not open.           *)
LoadIdentityFails ==
  /\ ~identity
  /\ IF credential = "missing"
     THEN credential' \in {"missing", "partial", "complete"}
     ELSE (credential = "partial" \/ ~Opens) /\ UNCHANGED credential
  /\ UNCHANGED <<files, identity, trusted, removed>>

(* trust: the displayed code is the beginning of the fingerprint.          *)
MayTrust(node, certificate, code) ==
  /\ identity
  /\ code = certificate
  /\ trusted[node] = Missing
  /\ Cardinality(Entries(trusted)) < MaxPeers
  /\ \A other \in Peers : trusted[other] # certificate

(* write_new_private_file: a file that exists is never written over.       *)
Trust(node, certificate, code) ==
  /\ MayTrust(node, certificate, code)
  /\ files[node] = Missing
  /\ files' = [files EXCEPT ![node] = certificate]
  /\ trusted' = [trusted EXCEPT ![node] = certificate]
  /\ removed' = removed \ {node}
  /\ UNCHANGED <<credential, identity>>

(* The file exists, cannot be created, is cut off, or is written and not   *)
(* synchronised; memory is left alone.                                     *)
TrustFails(node, certificate, code) ==
  /\ MayTrust(node, certificate, code)
  /\ IF files[node] = Missing
     THEN \E left \in {Missing, Partial, certificate} :
            files' = [files EXCEPT ![node] = left]
     ELSE UNCHANGED files
  /\ removed' = removed \ {node}
  /\ UNCHANGED <<credential, identity, trusted>>

(* Mutant: a peer is forgotten only until the next start.                  *)
ForgetUntilRestart(node) ==
  /\ identity /\ trusted[node] # Missing
  /\ trusted' = [trusted EXCEPT ![node] = Missing]
  /\ removed' = removed \cup {node}
  /\ UNCHANGED <<disk, identity>>

RemoveTrusted(node) ==
  /\ identity /\ trusted[node] # Missing
  /\ trusted' = [trusted EXCEPT ![node] = Missing]
  /\ files' = [files EXCEPT ![node] = Missing]
  /\ removed' = removed \cup {node}
  /\ UNCHANGED <<credential, identity>>

(* The file cannot be removed: the peer is gone from memory only.          *)
RemoveTrustedFails(node) ==
  /\ identity /\ trusted[node] # Missing
  /\ trusted' = [trusted EXCEPT ![node] = Missing]
  /\ UNCHANGED <<disk, identity, removed>>

(* The process ends, in the middle of writing or removing a file or not.   *)
Crash ==
  /\ identity
  /\ identity' = FALSE
  /\ trusted' = None
  /\ \/ UNCHANGED <<files, removed>>
     \/ \E node \in Peers, certificate \in Certificates :
          /\ MayTrust(node, certificate, certificate)
          /\ files[node] = Missing
          /\ \E left \in {Partial, certificate} :
               files' = [files EXCEPT ![node] = left]
          /\ removed' = removed \ {node}
     \/ \E node \in Entries(trusted) :
          /\ files' = [files EXCEPT ![node] = Missing]
          /\ UNCHANGED removed
  /\ UNCHANGED credential

TrustNext ==
  \/ LoadIdentity
  \/ LoadIdentityFails
  \/ \E node \in Peers, certificate, code \in Certificates :
       Trust(node, certificate, code) \/ TrustFails(node, certificate, code)
  \/ \E node \in Peers : RemoveTrusted(node) \/ RemoveTrustedFails(node)
  \/ Crash

TrustSpec == TrustInit /\ [][TrustNext]_trustVars

-----------------------------------------------------------------------------

TrustTypeOK ==
  /\ credential \in {"missing", "partial", "complete"}
  /\ files \in [Peers -> Certificates \cup {Missing, Partial}]
  /\ identity \in BOOLEAN
  /\ trusted \in [Peers -> Certificates \cup {Missing}]
  /\ removed \subseteq Peers

(* A certificate vouches for one node only, whatever failed before: a peer *)
(* cannot pass for another one (store.rs:169-175, 363-371).                *)
OneNodePerCertificate == Unique(trusted)

(* What memory trusts is on the disk in full, so that a crash loses no     *)
(* pairing that was reported (store.rs:183-188).                           *)
TrustIsOnDisk == \A node \in Entries(trusted) : files[node] = trusted[node]

(* A peer that was reported as removed is not trusted, not even after a    *)
(* restart, until somebody pairs it again (store.rs:192-200).              *)
RemovedStaysRemoved == \A node \in removed : trusted[node] = Missing
=============================================================================
