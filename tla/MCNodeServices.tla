---------------------------- MODULE MCNodeServices ----------------------------
(***************************************************************************)
(* Four services of the nodes that share no state: uploads, the chunk      *)
(* cache, supply gossip and the transfer of library artifacts.  They are   *)
(* explored one at a time: `service` is the one that takes steps, the      *)
(* others stay in an initial state.                                        *)
(***************************************************************************)
EXTENDS UploadPipeline, ChunkCache, SupplyGossip, ArtifactTransfer

VARIABLE service

cache    == cacheVars
gossip   == gossipVars
upload   == uploadVars
transfer == transferVars
all      == <<service, upload, cache, gossip, transfer>>

\* A service that is not explored has one initial state.
ServicesInit ==
    /\ service \in {"upload", "cache", "gossip", "transfer"}
    /\ UploadInit /\ CacheInit /\ GossipInit /\ TransferInit
    /\ service # "gossip" => \A n \in Node : minted[n] = 0

ServicesNext ==
    /\ UNCHANGED service
    /\ \/ service = "upload"   /\ UploadNext   /\ UNCHANGED <<cache, gossip, transfer>>
       \/ service = "cache"    /\ CacheNext    /\ UNCHANGED <<upload, gossip, transfer>>
       \/ service = "gossip"   /\ GossipNext   /\ UNCHANGED <<upload, cache, transfer>>
       \/ service = "transfer" /\ TransferNext /\ UNCHANGED <<upload, cache, gossip>>

Of(s, A) == service = s /\ A /\ UNCHANGED service

\* The fairness of UploadSpec and of GossipSpec, for the service explored.
ServicesSpec ==
    /\ ServicesInit /\ [][ServicesNext]_all
    /\ WF_uploadVars(Of("upload", Work)) /\ WF_uploadVars(Of("upload", Due))
    /\ \A n \in Node :
          /\ WF_gossipVars(Of("gossip", CommitMint(n)))
          /\ WF_gossipVars(Of("gossip", PublishGossip(n)))
          /\ \A m \in Node : WF_gossipVars(Of("gossip", ReceiveNewest(m, n)))

-----------------------------------------------------------------------------
CONSTANTS u, v, s, t, A, B

\* u has two chunks; v one, too large for TFP_MAX_UPLOAD_BYTES.
ChunksOf == [x \in {u, v} |-> IF x = u THEN {1, 2} ELSE {1}]
SizesOf  == [x \in {u, v} |-> IF x = u THEN <<1, 1>> ELSE <<3>>]
TagsOf   == [x \in {u, v} |-> "a"]

\* The artifact A has two chunks, one of them of two symbols and with a repair
\* droplet; B is another artifact.
Sent    == {<<s, A>>, <<t, B>>}
Count   == [m \in {A, B} |-> IF m = A THEN 2 ELSE 1]
Size    == [m \in {A, B} |-> IF m = A THEN [c \in 0..1 |-> 2 - c] ELSE [c \in 0..0 |-> 1]]
Sending == [m \in {A, B} |-> [c \in DOMAIN Size[m] |-> IF Size[m][c] = 2 THEN 0..2 ELSE {0}]]
=============================================================================
