---------------------------- MODULE DeviceImport ----------------------------
(***************************************************************************)
(* Folding a phone's upload into the store: its tips in one transaction,   *)
(* then its archive, then its training samples one by one.                 *)
(* Source: apps/server/internal/importer/importer.go, called by            *)
(* service.ImportHistory.                                                  *)
(*                                                                         *)
(* An import does not take the job mutex, so its steps fall anywhere       *)
(* between a job's.  It may stop after any of them.                        *)
(***************************************************************************)
EXTENDS RecordStore

CONSTANT Uploads   \* what phones may send

\* A ledger, the ids of the archived races, and samples, settled or pending.
Upload == [device : Device, tips : [Race -> Tip \cup {NoTip}],
           archive : SUBSET Race, samples : [Race -> Sample]]

\* A phone's own tips and samples come from the phone.
ASSUME UploadsAssumption ==
  /\ Uploads \subseteq Upload
  /\ \A u \in Uploads, r \in Race :
       /\ u.tips[r] # NoTip => u.tips[r].source = u.device
       /\ u.samples[r].kept => u.samples[r].source = u.device

VARIABLE imp   \* for each phone, where its import has got to

NoUpload == [device |-> "server", tips |-> [r \in Race |-> NoTip],
             archive |-> {}, samples |-> [r \in Race |-> NoSample]]

\* loaded is the archive document as the import read it.
Importing == [pc : {"idle", "load", "save", "samples"},
              upload : Uploads \cup {NoUpload}, loaded : SUBSET Race,
              left : SUBSET Race]

NotImporting == [pc |-> "idle", upload |-> NoUpload, loaded |-> {}, left |-> {}]

ImportInit == imp = [d \in Device |-> NotImporting]

ImportTypeOK == imp \in [Device -> Importing]

-----------------------------------------------------------------------------

MergedTip(incoming, current) ==
  IF incoming # NoTip /\ (current = NoTip \/ Prefer(incoming, current))
  THEN incoming ELSE current

MergedTips(upload) == [r \in Race |-> MergedTip(upload.tips[r], tips[r])]

\* Aggregates can only be merged wholesale: when any of the phone's races is
\* already counted, nothing is taken.
MergedArchive(current, incoming) ==
  IF incoming \cap current = {} THEN current \cup incoming ELSE current

\* A phone has made the tips it sends.
AlreadyMade(upload) ==
  \A r \in Race : upload.tips[r] # NoTip =>
    upload.tips[r].createdAt <= clock /\ upload.tips[r].sealedAt <= clock

SampledRaces(upload) == {r \in Race : upload.samples[r].kept}

ImportTips(u) ==
  /\ imp[u.device].pc = "idle"
  /\ AlreadyMade(u)
  /\ tips' = MergedTips(u)
  /\ imp' = [imp EXCEPT ![u.device] =
               [NotImporting EXCEPT !.pc = "load", !.upload = u,
                                    !.left = SampledRaces(u)]]
  /\ UNCHANGED <<worldVars, offs, cards, snapshots, samples, results, prices,
                 archive, lock>>

LoadArchive(d) ==
  /\ imp[d].pc = "load"
  /\ imp' = [imp EXCEPT ![d] = [@ EXCEPT !.pc = "save", !.loaded = archive]]
  /\ UNCHANGED <<worldVars, tableVars, lock>>

\* Saved only when the merge took something.
SaveArchive(d) ==
  /\ imp[d].pc = "save"
  /\ LET merged == MergedArchive(imp[d].loaded, imp[d].upload.archive)
     IN  archive' = IF merged # imp[d].loaded THEN merged ELSE archive
  /\ imp' = [imp EXCEPT ![d] = [@ EXCEPT !.pc = "samples", !.loaded = {}]]
  /\ UNCHANGED <<worldVars, offs, tips, cards, snapshots, samples, results,
                 prices, lock>>

\* Added if the race has none yet.
ImportSample(d, r) ==
  /\ imp[d].pc = "samples" /\ r \in imp[d].left
  /\ samples' = [samples EXCEPT ![r] =
                   IF @.kept THEN @ ELSE imp[d].upload.samples[r]]
  /\ imp' = [imp EXCEPT ![d].left = @ \ {r}]
  /\ UNCHANGED <<worldVars, offs, tips, cards, snapshots, results, prices,
                 archive, lock>>

\* The import ends, or gives up part of the way through.
EndImport(d) ==
  /\ imp[d].pc # "idle"
  /\ imp' = [imp EXCEPT ![d] = NotImporting]
  /\ UNCHANGED <<worldVars, tableVars, lock>>

ImportStep ==
  \/ \E u \in Uploads : ImportTips(u)
  \/ \E d \in Device : LoadArchive(d) \/ SaveArchive(d) \/ EndImport(d)
                       \/ \E r \in Race : ImportSample(d, r)
=============================================================================
