---------------------------- MODULE ForkVersions ----------------------------
(***************************************************************************)
(* Fork versions: which fork a slot belongs to (services/api), and what    *)
(* the conversions between the versioned types do (common/types_spec.go,   *)
(* common/utils.go, database/typesconv.go, datastore/redis.go).            *)
(*                                                                         *)
(* Every conversion is a switch over the version.  It fails, with Invalid, *)
(* for the versions it has no case for, and otherwise hands on some of the *)
(* parts its argument has.  A versioned value is its version and its parts *)
(* (of the Go struct: which field is not nil, and what is filled in); what *)
(* the parts contain is left out.                                          *)
(***************************************************************************)
EXTENDS Integers

CONSTANTS SlotsPerEpoch,
          ForkEpoch       \* [Forks -> epoch], -1 when not scheduled

\* The forks, oldest first; "unknown" is what precedes them.
Forks == {"capella", "deneb", "electra", "fulu"}
Versions == Forks \cup {"bellatrix", "unknown"}

ASSUME ForkAssumption == /\ SlotsPerEpoch \in Nat \ {0}
                         /\ ForkEpoch \in [Forks -> Nat \cup {-1}]

Invalid == [version |-> "unknown", parts |-> {}]

Versioned(v, parts) == [version |-> v, parts |-> parts]

-----------------------------------------------------------------------------
(* Forks of slots *)

HasReachedFork(s, f) == ForkEpoch[f] >= 0 /\ s \div SlotsPerEpoch >= ForkEpoch[f]

\* isCapella, isDeneb, isElectra, isFulu
IsFork(s, f) ==
    /\ HasReachedFork(s, f)
    /\ CASE f = "capella" -> ~HasReachedFork(s, "deneb")
         [] f = "deneb"   -> ~HasReachedFork(s, "electra")
         [] f = "electra" -> ~HasReachedFork(s, "fulu")
         [] f = "fulu"    -> TRUE

\* getForkFromSlot
ForkFromSlot(s) == CASE IsFork(s, "fulu")    -> "fulu"
                     [] IsFork(s, "electra") -> "electra"
                     [] IsFork(s, "deneb")   -> "deneb"
                     [] IsFork(s, "capella") -> "capella"
                     [] OTHER                -> "unknown"

\* The fork checks of checkSubmissionSlotDetails
VersionFits(s, v) == \A f \in Forks : IsFork(s, f) => v = f

\* checkPayloadAndHeaderVersion, for the version name the proposer sent and
\* the version of the decoded block
PayloadVersionFits(s, name, v) ==
    /\ ForkFromSlot(s) # "unknown"
    /\ name = ForkFromSlot(s) /\ v = ForkFromSlot(s)

-----------------------------------------------------------------------------
(* Parts of the versioned types *)

WithBlobs == {"deneb", "electra", "fulu"}
WithRequests == {"electra", "fulu"}

Blobs(v) == IF v \in WithBlobs THEN {"blobs"} ELSE {}
ExecRequests(v) == IF v \in WithRequests THEN {"requests"} ELSE {}

\* What a block of a version consists of
BlockParts(v) == {"payload"} \cup Blobs(v) \cup ExecRequests(v)

\* UnmarshalWithVersion of a submission: the version is the one the builder
\* names or, without a name, the one of the slot.  SSZ is tried before JSON
\* for octet streams; both have the same cases.
DecodedRequest(name, s) ==
    LET v == IF name = "" THEN ForkFromSlot(s) ELSE name
    IN  IF v \in Forks \cup {"bellatrix"} THEN Versioned(v, BlockParts(v)) ELSE Invalid

\* GetBlockSubmissionInfo: the blob fields are needed from deneb on, the
\* execution requests from electra on.
HasInfo(r) == /\ "payload" \in r.parts
              /\ r.version \in WithBlobs => "blobs" \in r.parts
              /\ r.version \in WithRequests => "requests" \in r.parts

\* MarshalJSON of BuilderBlockValidationRequest: what the simulator gets
ValidationRequest(r) ==
    IF r.version \in Forks
    THEN Versioned(r.version, r.parts \cap BlockParts(r.version)) ELSE Invalid

\* BuilderBlockRequestToSignedBuilderBid: the bid has the header, the
\* commitments of the blobs and the execution requests.
SignedBuilderBid(r) ==
    IF r.version \in Forks
    THEN Versioned(r.version, {"header"} \cup Blobs(r.version) \cup ExecRequests(r.version))
    ELSE Invalid

BuildGetHeaderResponse(r) == IF r.version \in Forks THEN SignedBuilderBid(r) ELSE Invalid

\* Payload and blobs; the execution requests stay in the header.
BuildGetPayloadResponse(r) ==
    IF r.version \in Forks
    THEN Versioned(r.version, {"payload"} \cup Blobs(r.version)) ELSE Invalid

\* respondGetHeaderSSZ, respondGetPayloadSSZ: the value the proposer reads
RespondSSZ(r) == IF r.version \in Forks \cup {"bellatrix"} THEN r ELSE Invalid

\* Unmarshal of the signed blinded block the proposer makes of a header,
\* by the version it names
DecodedBlindedBlock(name, h) ==
    IF name \in Forks \cup {"bellatrix"} THEN Versioned(name, h.parts) ELSE Invalid

-----------------------------------------------------------------------------
(* The stores *)

\* The Redis key of a payload; one per version
PayloadKey(v) == CASE v = "capella" -> "execpayload-capella"
                   [] v = "deneb"   -> "payload-contents-deneb"
                   [] v = "electra" -> "payload-contents-electra"
                   [] v = "fulu"    -> "payload-contents-fulu"

\* GetPayloadContents for the keys that exist: the newest version first
GetPayloadContents(keys) ==
    LET found == {v \in Forks : PayloadKey(v) \in keys}
        Payload(v) == Versioned(v, {"payload"} \cup Blobs(v))
    IN  CASE "fulu" \in found    -> Payload("fulu")
          [] "electra" \in found -> Payload("electra")
          [] "deneb" \in found   -> Payload("deneb")
          [] "capella" \in found -> Payload("capella")
          [] OTHER               -> Invalid

\* PayloadToExecPayloadEntry: the row of a submission
PayloadEntry(r) ==
    IF r.version \in Forks
    THEN Versioned(r.version, {"payload"} \cup Blobs(r.version)) ELSE Invalid

\* Mutation of EntryPayload: the newest fork is missing.
EntryPayloadWithoutFulu(e) == IF e.version \in Forks \ {"fulu"} THEN e ELSE Invalid

\* ExecutionPayloadEntryToExecutionPayload
EntryPayload(e) == IF e.version \in Forks THEN e ELSE Invalid

-----------------------------------------------------------------------------
(* Unblinding *)

\* checkProposerSignature: a signing domain for each version
SignatureDomain(b) == b.version \in Forks

\* EqBlindedBlockContentsToBlockContents for a block made of the same header
SameContents(b, p) == b.version = p.version /\ b.version \in Forks

\* SignedBlindedBeaconBlockToBeaconBlock and the four UnblindSignedBlock:
\* payload and blobs from the response, the rest from the block.  It fails if
\* there are not as many blobs as commitments.
Unblinded(b, p, whole) ==
    IF b.version \in Forks /\ p.version = b.version /\ (b.version \in WithBlobs => whole)
    THEN Versioned(b.version, p.parts \cup (b.parts \cap {"requests"})) ELSE Invalid
=============================================================================
