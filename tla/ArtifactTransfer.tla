--------------------------- MODULE ArtifactTransfer ---------------------------
(***************************************************************************)
(* receive_artifact (tfp_core_v4/library_updates/receive.py): a filter in  *)
(* front of a StreamReceiver with room for one session, whose checkpoints  *)
(* let a transfer that timed out or was killed go on where it was.  The    *)
(* artifact's manifest is told from others by its size and digest.         *)
(***************************************************************************)
EXTENDS StreamReceiver

CONSTANTS Wanted, WantedSession    \* the expected artifact, and the session id it is sent under

VARIABLE stage    \* "stopped", "opened", "receiving" or "done"

ASSUME TransferAssumption ==
    /\ MaxSessions = 1 /\ Wanted \in Media /\ WantedSession \in Session
    /\ \A sm \in Carries : sm[2] = Wanted <=> sm[1] = WantedSession

transferVars == <<vars, stage>>

TransferInit == Init /\ stage = "stopped"

IsBlank       == live = {} /\ \A s \in Session : ~HasDir(s)
LatestMatches == latest # NoSession /\ manifest[latest] = Wanted

NeverResumes == FALSE  \* mutant: every call starts with an empty receiver
Resumes == LatestMatches

\* A call begins: the receiver is constructed from the checkpoints ...
OpenTransfer == stage = "stopped" /\ Restart /\ stage' = "opened"

\* ... and reset if they are not the artifact's.
KeepOrReset ==
    /\ stage = "opened" /\ stage' = "receiving"
    /\ IF Resumes \/ IsBlank THEN UNCHANGED vars ELSE ResetAll

\* is_complete, of the latest manifest.  It finds no chunk to purge: droplets come
\* in only after the manifest, and in this session only the artifact's.
IsComplete ==
    /\ latest # NoSession
    /\ \A c \in Chunks(manifest[latest]) :
          c \in DOMAIN chunks[latest] /\ chunks[latest][c] = manifest[latest]

\* Other manifests are dropped, and droplets are until the artifact's manifest
\* is there; but which artifact a droplet belongs to is not looked at.
ManifestArrives ==
    /\ stage = "receiving" /\ ~IsComplete /\ UNCHANGED stage
    /\ IngestManifest(WantedSession, Wanted)

DropletArrives(s, m) ==
    /\ stage = "receiving" /\ ~IsComplete /\ LatestMatches /\ UNCHANGED stage
    /\ \E c \in Chunks(m) : \E i \in Seeds[m][c] : IngestPacket(s, m, c, i)

Deliver ==
    /\ stage = "receiving" /\ IsComplete /\ stage' = "done" /\ UNCHANGED vars

\* The deadline, a failed write of the output, or the end of the process.
StopTransfer ==
    /\ stage \in {"opened", "receiving"} /\ stage' = "stopped" /\ UNCHANGED vars

TransferNext ==
    \/ OpenTransfer \/ KeepOrReset \/ ManifestArrives \/ Deliver \/ StopTransfer
    \/ \E sm \in Carries : DropletArrives(sm[1], sm[2])
    \/ TimePasses /\ UNCHANGED stage

TransferSpec == TransferInit /\ [][TransferNext]_transferVars

-----------------------------------------------------------------------------
\* The chunks of the artifact that are in its checkpoint directory.
Rebuilt == {c \in Chunks(Wanted) : <<"chunk", c, Wanted>> \in disk[WantedSession]}

\* A chunk of the artifact, once rebuilt, survives time-outs, restarts, repeated
\* manifests and wrong droplets, until its checkpoints are too old or a file
\* operation fails; and what is delivered is the artifact.  The exception: one
\* droplet of another artifact sent with the same transport key makes the
\* receiver open a session for it, for which the only one there is goes with
\* everything it had.
TransferKeepsProgress ==
    [][ /\ live' \subseteq {WantedSession} /\ <<"dir", WantedSession>> \notin expired /\ faults' = 0
           => Rebuilt \subseteq Rebuilt'
        /\ stage' = "done" => manifest[latest] = Wanted ]_transferVars
=============================================================================
