---------------------------- MODULE RecordClaims ----------------------------
(***************************************************************************)
(* Sentences of the repository's documents and comments about the accuracy *)
(* record that the code does not keep in every behaviour.  Each is stated  *)
(* here as the document has it and refuted by a run of its own.            *)
(***************************************************************************)
EXTENDS RecordService

\* A sealed tip is rewritten by nothing; even granting that an import may put an
\* earlier seal in its place, a job's write may not take it back.
\* (apps/server/README.md: "a sealed tip is never rewritten".)
SealedTipNeverRewritten ==
  [][\A r \in Race : tips[r] # NoTip /\ IsSealed(tips[r]) =>
       /\ tips'[r] # NoTip /\ IsSealed(tips'[r])
       /\ tips'[r].sealedAt <= tips[r].sealedAt]_vars

\* What has been ingested stays ingested, whoever else saves the archive.
\* (docs/providers.md: "Permanent once a race is settled; appended to the
\* archive".)
ArchiveNeverForgets == [][archive \subseteq archive']_vars
=============================================================================
